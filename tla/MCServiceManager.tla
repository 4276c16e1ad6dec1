--------------------------- MODULE MCServiceManager ---------------------------
\* Services of one, two and three processes, with and without a log, and one
\* whose first process does not end by itself.
EXTENDS ServiceManager

MCStarts ==
  {[line |-> <<"once">>, log |-> FALSE],
   [line |-> <<"writer", "once">>, log |-> FALSE],
   [line |-> <<"once", "filter">>, log |-> TRUE],
   [line |-> <<"once", "filter", "filter">>, log |-> FALSE]}
================================================================================
