----------------------------- MODULE MCSampler -----------------------------
(* Sampler with a rule on the current value and one on the average of a window. *)
EXTENDS Sampler, TLC

MCMode == (1 :> "current") @@ (2 :> "avg")

MCWindow == (1 :> 1) @@ (2 :> 2)

MCNeed == (1 :> 1) @@ (2 :> 2)

MCCooldown == (1 :> 2) @@ (2 :> 1)
=============================================================================
