--------------------------- MODULE MCChatDecentral ----------------------------
\* Instances of ChatDecentral: the budgets of the behaviours.
EXTENDS ChatDecentral

Budget(one, two, losses, requests, retransmissions) ==
  [lines |-> [m \in Member |-> CASE m = 1 -> one [] m = 2 -> two [] OTHER -> 0],
   losses |-> losses, requests |-> requests, retransmissions |-> retransmissions]

\* A long talk of one member with a lost request, concurrent lines, the lines of
\* a member that has joined, and lines sent again.
MCBudgets ==
  {Budget(3, 0, 1, 2, 0), Budget(2, 1, 0, 0, 0), Budget(0, 3, 0, 0, 2),
   Budget(1, 1, 0, 0, 2), Budget(2, 0, 1, 1, 1),
   Budget(2, 0, 0, 0, 4)}
=============================================================================
