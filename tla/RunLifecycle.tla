---------------------------- MODULE RunLifecycle ----------------------------
(***************************************************************************)
(* What a workflow run promises to whoever watches its row: it is created   *)
(* once, pauses at gates of increasing position, and ends completed or      *)
(* rejected for good.  A rejected run remembers the gate it was rejected    *)
(* at.  PackRuntime implements this under the orderly use of its requests.  *)
(***************************************************************************)
EXTENDS Naturals

CONSTANT Gates       \* positions of the approval steps, positive numbers

VARIABLES status,    \* workflow_runs.status
          gate       \* workflow_runs.current_step, 0 for NULL

lifecycleVars == <<status, gate>>

LifecycleInit == status = "none" /\ gate = 0

Live == status \in {"running", "awaiting_approval"}

Create == status = "none" /\ status' = "running" /\ gate' = 0

Pause == /\ Live
         /\ \E g \in Gates : g > gate /\ gate' = g
         /\ status' = "awaiting_approval"

Complete == Live /\ status' = "completed" /\ gate' = 0

Reject == /\ status = "awaiting_approval"
          /\ status' = "rejected"
          /\ UNCHANGED gate

LifecycleNext == Create \/ Pause \/ Complete \/ Reject

LifecycleSpec == LifecycleInit /\ [][LifecycleNext]_lifecycleVars
=============================================================================
