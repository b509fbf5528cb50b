--------------------------- MODULE MCRebalanceLoop ---------------------------
(***************************************************************************)
(* RebalanceLoop for TLC: every pair of pools of up to MaxSize nodes, with *)
(* arguments that ask for nothing, for some nodes and for more than there  *)
(* are.                                                                    *)
(***************************************************************************)
EXTENDS RebalanceLoop

CONSTANT MaxSize

MCSizes == 0 .. MaxSize
MCDeltas == (-2 * MaxSize - 1) .. 1
=============================================================================
