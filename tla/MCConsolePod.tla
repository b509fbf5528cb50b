----------------------------- MODULE MCConsolePod -----------------------------
(***************************************************************************)
(* ConsolePod for TLC.  The configurations choose the nodes and bounds.    *)
(***************************************************************************)
EXTENDS ConsolePod

\* A few nodes of each kind to choose from, the BMC behind each, and what the
\* classes of console-data say of them.
ClassByName ==
    [r1 |-> "River", r2 |-> "River", m1 |-> "Mountain", m2 |-> "Hill",
     r3 |-> "River", p1 |-> "Paradise", p2 |-> "Paradise",
     x1 |-> "Other"]
BmcByName ==
    [r1 |-> "b1", r2 |-> "b2", r3 |-> "b1", m1 |-> "b1", m2 |-> "b1",
     p1 |-> "b1", p2 |-> "b2", x1 |-> "b1"]
MCClass == [n \in Nodes |-> ClassByName[n]]
MCBmcName == [n \in Nodes |-> BmcByName[n]]

\* The target file: one node of each kind.
MCFileReads == {[rvr |-> 1, mtn |-> 1]}

\* The operator reports no or some hardware: the ideal number is 1 or 3.
MCTotals == {[rvr |-> 0, mtn |-> 0], [rvr |-> 2, mtn |-> 2]}

\* Steady answers.
MCSteadyTotals == {[rvr |-> 3, mtn |-> 3]}
=============================================================================
