-------------------------------- MODULE MCZcIo --------------------------------
\* The seeks of the instances of ZcIo: within the file, and out of it.
EXTENDS ZcIo

FarSeeks == {[by |-> 1, whence |-> "SEEK_SET"], [by |-> -1, whence |-> "SEEK_CUR"],
             [by |-> 1, whence |-> "SEEK_END"], [by |-> 0, whence |-> "other"]}
=============================================================================
