----------------------------- MODULE MCChatOrder ------------------------------
\* Instances of ChatOrder: the budgets of the behaviours.
EXTENDS ChatOrder

\* Member 2 types two lines.
TwoLines == [lines |-> [m \in Member |-> IF m = 2 THEN 2 ELSE 0], losses |-> 0,
             duplicates |-> 0, resends |-> 0, joins |-> {}, crashes |-> {}]

\* A loss, a duplicate, a request sent again and a crash of the sequencer; or a
\* third member that joins.
MCBudgets ==
  {[TwoLines EXCEPT !.losses = 1, !.duplicates = 1, !.resends = 1, !.crashes = {1}],
   [TwoLines EXCEPT !.joins = {3}]}
=============================================================================
