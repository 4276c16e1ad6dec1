---------------------------- MODULE MCTrainStation ----------------------------
\* The station with counters that are cleared, or hold something else for the
\* highest priority.
EXTENDS TrainStation

MCPriority == 0..2
MCInitialCounts ==
  {[i \in MCPriority |-> 0], [i \in MCPriority |-> IF i = 0 THEN 1 ELSE 0]}
================================================================================
