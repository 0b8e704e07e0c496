---------------------------- MODULE DataflowLaws ----------------------------
(***************************************************************************)
(* The laws under which the block scheduler is correct, as assumptions on  *)
(* the host.  Semilattice and Monotone are what TypeLattice checks of the  *)
(* code's join; SingleEdge is what straight_line_path counts on when it    *)
(* "only recognizes CFG shapes whose terminators and unwind edges          *)
(* guarantee at most one edge per block".                                  *)
(***************************************************************************)
EXTENDS BlockWorklist

ASSUME SemilatticeAssumption == Semilattice
ASSUME MonotoneAssumption == Monotone
ASSUME SingleEdgeAssumption == SingleEdge
=============================================================================
