-------------------------- MODULE MCRequestScheduler --------------------------
(***************************************************************************)
(* Small instances of RequestScheduler for TLC.  A second is four clock    *)
(* units, and the rates give intervals of one and two of them.             *)
(***************************************************************************)
EXTENDS RequestScheduler, TLC

CONSTANTS w1, w2, w3, s1

WorkerSymmetry == Permutations(Worker)

=============================================================================
