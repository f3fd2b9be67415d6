-------------------------- MODULE MCSchedulerCore ----------------------------
(***************************************************************************)
(* Two cases and two or three helper addresses.                             *)
(***************************************************************************)
EXTENDS SchedulerCore, TLC

HelperSymmetry == Permutations(Helpers)

==============================================================================
