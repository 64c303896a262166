------------------------------ MODULE MCAlerts -------------------------------
(* Two rules of any kind, one slot, two callers of whom both rules watch one; *)
(* an encryption rule names its groups or takes any.                          *)
EXTENDS Alerts, TLC
CONSTANTS r1, r2, x, y
MCWatch == (r1 :> {x, y}) @@ (r2 :> {x})
MCCooldown == (r1 :> 1) @@ (r2 :> 2)
=============================================================================
