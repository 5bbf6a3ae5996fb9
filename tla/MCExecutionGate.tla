--------------------------- MODULE MCExecutionGate ---------------------------
(***************************************************************************)
(* Two gates of two processes over one claim directory.                    *)
(***************************************************************************)
EXTENDS ExecutionGate, TLC

CONSTANTS g1, g2, e1, q1, q2, x1, x2, w1, h1, h2

OneQuote == e1 :> q1
MCRefund == e1 :> 2
MCDeadline == e1 :> 1
SameRegistry == g1 :> h1 @@ g2 :> h1
OldAndNewRegistry == g1 :> h1 @@ g2 :> h2
AnyWork == g1 :> Works @@ g2 :> Works

\* Executions are interchangeable.
Interchangeable == Permutations({x1, x2})
=============================================================================
