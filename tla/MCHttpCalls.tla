------------------------------ MODULE MCHttpCalls ------------------------------
(***************************************************************************)
(* A small instance of HttpCalls for TLC.                                  *)
(***************************************************************************)
EXTENDS HttpCalls, TLC

CONSTANTS w1, w2

WorkerSymmetry == Permutations(Worker)

Choice(n, f) == [weight |-> n, func |-> f]

\* Negative, zero and large weights, none at all, and a nil function.
SomeMixes ==
    {<<Choice(2, "get"), Choice(-1, "get"), Choice(1, "upload")>>,
     <<Choice(0, "upload"), Choice(3, "get"), Choice(4, "get")>>,
     <<Choice(-2, "get"), Choice(0, "upload")>>,
     <<Choice(1, "get"), Choice(1, "nil")>>}

\* One span bridges the gap between 1 and 3, and not the one between 1 and 5.
Buckets == 0 .. 5
SomeDurations == {0, 1, 3, 5}

=============================================================================
