------------------------------ MODULE MCKernel ------------------------------
(* Instances of Kernel for TLC: one periodic step per re-arming pattern.   *)
EXTENDS Kernel, TLC

CONSTANTS sensing, runtime, sink, actuation

MCStartup == <<sensing, runtime, sink>>
MCDelay == (sensing :> 2) @@ (runtime :> 1) @@ (sink :> 1) @@ (actuation :> 3)
\* A sensing slot that is longer than the budget.
MCLongDelay == [MCDelay EXCEPT ![sensing] = 5]
MCRetry == (sensing :> "stale") @@ (runtime :> "fresh") @@ (sink :> "none")
             @@ (actuation :> "stale")
=============================================================================
