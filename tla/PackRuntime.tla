----------------------------- MODULE PackRuntime -----------------------------
(***************************************************************************)
(* The durable executor of workflow packs, services/workflows/src/         *)
(* workflows/pack_runtime.py, seen from one row of workflow_runs.          *)
(*                                                                         *)
(* Every HTTP request that touches the run (POST /packs/{key}/run,         *)
(* POST /packs/runs/{id}/approve and .../reject) is a handler of its own   *)
(* with its own copy of the run context.  One action is one database       *)
(* transaction, one engine step, or the failure of the handler; between    *)
(* any two of them the other handlers may run.                             *)
(*                                                                         *)
(* Operators named after a definition with a fault appended (such as       *)
(* PausedRowWithoutContext) are faulty variants of it, used by no action:  *)
(* they are there to show that the properties notice the fault.            *)
(***************************************************************************)
EXTENDS Naturals

CONSTANTS
  N,           \* number of steps in the definition, executed in order
  Gates,       \* the steps of type `approval`
  Connectors,  \* the steps that call the outside world (connector_call, notify)
  Guarded,     \* the steps that carry a `when` guard
  Renamed,     \* the steps whose `out` names another key for their output
  Reqs,        \* the requests made on the run; each is made at most once
  MaxAborts    \* bound on the handlers that die before they answer

Steps == 1 .. N

ASSUME PackAssumption ==
  /\ N \in Nat \ {0}
  /\ Gates \subseteq Steps
  /\ Connectors \subseteq Steps
  /\ Gates \cap Connectors = {}
  /\ Guarded \subseteq Steps
  /\ Renamed \subseteq Steps
  /\ MaxAborts \in Nat

VARIABLES
  run,       \* the row of workflow_runs: status, context.steps and current_step
  stepRows,  \* how many rows workflow_step_runs holds for each step
  tasks,     \* how many rows of approval_tasks each gate has, by status
  effects,   \* how many calls of each connector step reached the provider
  req,       \* the handler of each request
  audit,     \* the requests whose audit event was stored
  aborts     \* handlers that died so far

vars == <<run, stepRows, tasks, effects, req, audit, aborts>>

NoStep == 0                      \* current_step IS NULL; step ids are 1 .. N
Entry  == {"absent", "done", "skipped"}
Contexts == [Steps -> Entry]     \* what RunContext.steps holds for each step
EmptyContext == [i \in Steps |-> "absent"]

RunStatus  == {"none", "running", "awaiting_approval", "completed", "rejected"}
Terminal   == {"completed", "rejected"}
TaskStatus == {"pending", "approved", "rejected"}

Kind  == {"none", "start", "approve", "reject"}
Phase == {"idle", "decide", "drive", "persist", "save", "task", "emit",
          "done", "failed"}

Rows     == [status : RunStatus, ctx : Contexts, cur : Steps \cup {NoStep}]
Handlers == [pc : Phase, kind : Kind, ctx : Contexts, dec : Steps \cup {NoStep}]

(* A handler that has begun and has neither answered nor died. *)
Active(r) == req[r].pc \notin {"idle", "done", "failed"}

(* The engine's loop skips the keys already in the context, so the step it
   works on is the first one without an entry. *)
IsNext(ctx, i) == ctx[i] = "absent" /\ \A j \in 1 .. (i - 1) : ctx[j] # "absent"
Finished(ctx)  == \A i \in Steps : ctx[i] # "absent"

(* decisions[step.id]: resume_run puts the decision of an approving request
   under the current_step it read; start_run passes no decisions. *)
Decides(h, g) == h.kind = "approve" /\ h.dec = g

Goto(r, p)   == req' = [req EXCEPT ![r].pc = p]
Record(r, i, e) == req' = [req EXCEPT ![r].ctx[i] = e]

Init ==
  /\ run = [status |-> "none", ctx |-> EmptyContext, cur |-> NoStep]
  /\ stepRows = [i \in Steps |-> 0]
  /\ tasks = [g \in Gates |-> [s \in TaskStatus |-> 0]]
  /\ effects = [i \in Connectors |-> 0]
  /\ req = [r \in Reqs |->
       [pc |-> "idle", kind |-> "none", ctx |-> EmptyContext, dec |-> NoStep]]
  /\ audit = {}
  /\ aborts = 0

-----------------------------------------------------------------------------
(***************************************************************************)
(* Requests.                                                               *)
(***************************************************************************)

(* start_run: _create_run inserts the row, then the engine is driven from an
   empty context.  run_id is fresh, so a run is created once. *)
StartRun(r) ==
  /\ req[r].pc = "idle"
  /\ run.status = "none"
  /\ run' = [status |-> "running", ctx |-> EmptyContext, cur |-> NoStep]
  /\ req' = [req EXCEPT ![r] =
       [pc |-> "drive", kind |-> "start", ctx |-> EmptyContext, dec |-> NoStep]]
  /\ UNCHANGED <<stepRows, tasks, effects, audit, aborts>>

ReadRunWithoutContext(r, kind) ==
  /\ req[r].pc = "idle"
  /\ run.status # "none"
  /\ req' = [req EXCEPT ![r] =
       [pc |-> "decide", kind |-> kind, ctx |-> EmptyContext, dec |-> run.cur]]
  /\ UNCHANGED <<run, stepRows, tasks, effects, audit, aborts>>

(* resume_run, up to the first write: it reads the row, whatever its status,
   and keeps the context and the current step it saw. *)
ReadRun(r, kind) ==
  /\ req[r].pc = "idle"
  /\ run.status # "none"
  /\ req' = [req EXCEPT ![r] =
       [pc |-> "decide", kind |-> kind, ctx |-> run.ctx, dec |-> run.cur]]
  /\ UNCHANGED <<run, stepRows, tasks, effects, audit, aborts>>

Total(g) == tasks[g]["pending"] + tasks[g]["approved"] + tasks[g]["rejected"]
AllTasks(g, verdict) == [s \in TaskStatus |-> IF s = verdict THEN Total(g) ELSE 0]

DecidedTasksOfRun(h, verdict) == [g \in Gates |-> AllTasks(g, verdict)]
DecidedTasksIfApproved(h, verdict) ==
  [g \in Gates |-> IF g = h.dec /\ verdict = "approved"
                     THEN AllTasks(g, verdict) ELSE tasks[g]]

(* resume_run's UPDATE approval_tasks: every task of that run and step, of any
   status, takes the decision (no row matches when current_step was NULL). *)
DecidedTasks(h, verdict) ==
  [g \in Gates |-> IF g = h.dec THEN AllTasks(g, verdict) ELSE tasks[g]]

(* A rejected run is saved at once, an approved one is driven on. *)
DecideTasks(r) ==
  /\ req[r].pc = "decide"
  /\ \/ /\ req[r].kind = "approve"
        /\ tasks' = DecidedTasks(req[r], "approved")
        /\ Goto(r, "drive")
     \/ /\ req[r].kind = "reject"
        /\ tasks' = DecidedTasks(req[r], "rejected")
        /\ Goto(r, "save")
  /\ UNCHANGED <<run, stepRows, effects, audit, aborts>>

-----------------------------------------------------------------------------
(***************************************************************************)
(* WorkflowEngine.run with the handlers of step_handlers.py.               *)
(***************************************************************************)

(* `when` resolves falsy: the step is recorded as skipped and not executed.  The
   gate a run paused at had passed its guard on the same context. *)
SkipStep(r) ==
  /\ req[r].pc = "drive"
  /\ \E i \in Guarded \ {req[r].dec} :
       /\ IsNext(req[r].ctx, i)
       /\ Record(r, i, "skipped")
  /\ UNCHANGED <<run, stepRows, tasks, effects, audit, aborts>>

(* ai_action, document_*, transform, branch: nothing outside the handler. *)
ComputeStep(r) ==
  /\ req[r].pc = "drive"
  /\ \E i \in Steps \ (Gates \cup Connectors) :
       /\ IsNext(req[r].ctx, i)
       /\ Record(r, i, "done")
  /\ UNCHANGED <<run, stepRows, tasks, effects, audit, aborts>>

(* connector_call, notify: the call reaches the provider, or an HTTP error is
   turned into an output {"status": "error"}; the step counts as done. *)
ConnectorStep(r) ==
  /\ req[r].pc = "drive"
  /\ \E i \in Connectors :
       /\ IsNext(req[r].ctx, i)
       /\ Record(r, i, "done")
       /\ \/ effects' = [effects EXCEPT ![i] = @ + 1]
          \/ UNCHANGED effects
  /\ UNCHANGED <<run, stepRows, tasks, audit, aborts>>

PassGateAnyDecision(r) ==
  /\ req[r].pc = "drive"
  /\ \E g \in Gates :
       /\ IsNext(req[r].ctx, g)
       /\ req[r].kind = "approve"
       /\ Record(r, g, "done")
  /\ UNCHANGED <<run, stepRows, tasks, effects, audit, aborts>>

(* wait_for_approval: a decision for this very step is its output. *)
PassGate(r) ==
  /\ req[r].pc = "drive"
  /\ \E g \in Gates :
       /\ IsNext(req[r].ctx, g)
       /\ Decides(req[r], g)
       /\ Record(r, g, "done")
  /\ UNCHANGED <<run, stepRows, tasks, effects, audit, aborts>>

LeaveEngineBlocking(r) ==
  /\ req[r].pc = "drive"
  /\ Finished(req[r].ctx)
  /\ Goto(r, "persist")
  /\ UNCHANGED <<run, stepRows, tasks, effects, audit, aborts>>

(* wait_for_approval without a decision raises PendingApproval; a run through
   the whole definition returns.  Both go on to _persist_steps. *)
LeaveEngine(r) ==
  /\ req[r].pc = "drive"
  /\ \/ Finished(req[r].ctx)
     \/ \E g \in Gates : IsNext(req[r].ctx, g) /\ ~Decides(req[r], g)
  /\ Goto(r, "persist")
  /\ UNCHANGED <<run, stepRows, tasks, effects, audit, aborts>>

-----------------------------------------------------------------------------
(***************************************************************************)
(* The transactions that follow the engine in _drive.                      *)
(***************************************************************************)

(* _persist_steps: one INSERT ... ON CONFLICT DO NOTHING per context entry.
   workflow_step_runs has no unique index on (run_id, step_id), so nothing
   ever conflicts. *)
PersistSteps(r) ==
  /\ req[r].pc = "persist"
  /\ stepRows' = [i \in Steps |->
       stepRows[i] + (IF req[r].ctx[i] = "absent" THEN 0 ELSE 1)]
  /\ Goto(r, "save")
  /\ UNCHANGED <<run, tasks, effects, audit, aborts>>

PausedRowWithoutContext(h, g) ==
  [status |-> "awaiting_approval", ctx |-> run.ctx, cur |-> g]
PausedRowKeepsStatus(h, g) == [status |-> run.status, ctx |-> h.ctx, cur |-> g]
CompletedRowPastEnd(h)     == [status |-> "completed", ctx |-> h.ctx, cur |-> N + 1]
RejectedRowSentBack(h) ==
  [status |-> "awaiting_approval", ctx |-> h.ctx, cur |-> h.dec]
RejectedRowNoStep(h)       == [status |-> "rejected", ctx |-> h.ctx, cur |-> NoStep]

(* The rows _drive and resume_run hand to _save_run: a pause at the gate that
   raised, a completed run with no current step, a rejection at the step that
   was read. *)
PausedRow(h, g)  == [status |-> "awaiting_approval", ctx |-> h.ctx, cur |-> g]
CompletedRow(h)  == [status |-> "completed", ctx |-> h.ctx, cur |-> NoStep]
RejectedRow(h)   == [status |-> "rejected", ctx |-> h.ctx, cur |-> h.dec]

(* _save_run writes status, context and current_step over whatever the row
   holds by now. *)
SaveRun(r) ==
  LET h == req[r] IN
  /\ h.pc = "save"
  /\ \/ h.kind = "reject" /\ run' = RejectedRow(h) /\ Goto(r, "emit")
     \/ h.kind # "reject" /\ Finished(h.ctx) /\ run' = CompletedRow(h) /\ Goto(r, "emit")
     \/ \E g \in Gates :
          h.kind # "reject" /\ IsNext(h.ctx, g) /\ run' = PausedRow(h, g) /\ Goto(r, "task")
  /\ UNCHANGED <<stepRows, tasks, effects, audit, aborts>>

(* _create_approval: a new pending task for the gate. *)
CreateApproval(r) ==
  /\ req[r].pc = "task"
  /\ \E g \in Gates :
       /\ IsNext(req[r].ctx, g)
       /\ tasks' = [tasks EXCEPT ![g]["pending"] = @ + 1]
  /\ Goto(r, "emit")
  /\ UNCHANGED <<run, stepRows, effects, audit, aborts>>

(* emit, whose failure is only logged, and the answer to the caller. *)
Answer(r) ==
  /\ req[r].pc = "emit"
  /\ \/ audit' = audit \cup {r}
     \/ UNCHANGED audit
  /\ Goto(r, "done")
  /\ UNCHANGED <<run, stepRows, tasks, effects, aborts>>

(* An exception no one catches (an LLM error, an ExprError, a lost database
   connection) or the death of the process: the handler's context is lost, what
   it committed stays.  Its record keeps the last values as history. *)
Abort(r) ==
  /\ Active(r)
  /\ aborts < MaxAborts
  /\ aborts' = aborts + 1
  /\ Goto(r, "failed")
  /\ UNCHANGED <<run, stepRows, tasks, effects, audit>>

-----------------------------------------------------------------------------
Continue(r) ==
  \/ DecideTasks(r)
  \/ SkipStep(r) \/ ComputeStep(r) \/ ConnectorStep(r) \/ PassGate(r)
  \/ LeaveEngine(r)
  \/ PersistSteps(r) \/ SaveRun(r) \/ CreateApproval(r) \/ Answer(r)

Next ==
  \E r \in Reqs :
    \/ StartRun(r)
    \/ \E kind \in {"approve", "reject"} : ReadRun(r, kind)
    \/ Continue(r)
    \/ Abort(r)

Spec == Init /\ [][Next]_vars

(* A handler that has begun is scheduled by the event loop until it answers. *)
Fairness == \A r \in Reqs : WF_vars(Continue(r))

(***************************************************************************)
(* The use the service expects of its clients: one decision at a time, made *)
(* on a run that is shown to be awaiting approval.  Nothing in the code     *)
(* enforces it.                                                            *)
(***************************************************************************)
Quiescent == \A r \in Reqs : ~Active(r)

OrderlyNext ==
  \E r \in Reqs :
    \/ StartRun(r)
    \/ /\ Quiescent
       /\ run.status = "awaiting_approval"
       /\ \E kind \in {"approve", "reject"} : ReadRun(r, kind)
    \/ Continue(r)
    \/ Abort(r)

OrderlySpec == Init /\ [][OrderlyNext]_vars /\ Fairness
-----------------------------------------------------------------------------
(***************************************************************************)
(* get_run_view: the status shown for each step of the definition.  The     *)
(* engine keeps a step's output under `step.out or step.id`, the view asks  *)
(* whether `st.id` is a key of the context.  The keys are distinct here,    *)
(* and none of `Renamed` is a step's id; PackAuthoring has shared keys.     *)
(***************************************************************************)
SeenDone(i) == i \notin Renamed /\ run.ctx[i] # "absent"

StepViewPausedIsOver(i) ==
  IF SeenDone(i) THEN "completed"
  ELSE IF i = run.cur /\ run.status = "awaiting_approval" THEN "awaiting_approval"
  ELSE IF run.status # "running" THEN "skipped"
  ELSE "pending"

StepView(i) ==
  CASE SeenDone(i) -> "completed"
    [] ~SeenDone(i) /\ i = run.cur
         /\ run.status = "awaiting_approval" -> "awaiting_approval"
    [] ~SeenDone(i) /\ i = run.cur /\ run.status = "running" -> "running"
    [] ~SeenDone(i) /\ run.status \in Terminal -> "skipped"
    [] OTHER -> "pending"

-----------------------------------------------------------------------------
(***************************************************************************)
(* Properties.                                                             *)
(***************************************************************************)

(* Type invariant. *)
TypeOK ==
  /\ run \in Rows
  /\ stepRows \in [Steps -> Nat]
  /\ tasks \in [Gates -> [TaskStatus -> Nat]]
  /\ effects \in [Connectors -> Nat]
  /\ req \in [Reqs -> Handlers]
  /\ audit \subseteq Reqs
  /\ aborts \in 0 .. MaxAborts

(* Someone approved the run while its row pointed at gate g. *)
Approved(g) == \E q \in Reqs : Decides(req[q], g)

(* A context lets a step be reached: each earlier gate was approved by a
   request of its own, or skipped by its `when`. *)
GatesOpen(ctx, i) ==
  \A g \in Gates : g < i => ctx[g] = "skipped" \/ Approved(g)

(* No connector is called for a step behind a gate until a request approved
   that very gate, however handlers overlap, retry on stale rows or die: the
   promise of the human-in-the-loop pause (wait_for_approval, resume_run). *)
GateRespected ==
  \A i \in Connectors : effects[i] > 0 =>
    \E r \in Reqs : req[r].ctx[i] = "done" /\ GatesOpen(req[r].ctx, i)

(* Whatever handler wrote it last, the row can be resumed: its context is a
   prefix of the definition, a paused run points at the gate it stopped at and
   a completed one has every step and an approval for each gate it passed. *)
RowResumable ==
  /\ run.cur # NoStep =>
       /\ run.cur \in Gates
       /\ \A i \in Steps : run.ctx[i] = "absent" <=> i >= run.cur
  /\ run.status = "awaiting_approval" => run.cur # NoStep
  /\ run.status \in {"none", "running"} => run.ctx = EmptyContext
  /\ run.status = "completed" =>
       Finished(run.ctx) /\ \A i \in Steps : GatesOpen(run.ctx, i + 1)

(* A decided approval task was decided by a request that was given that
   decision for that gate: a verdict never lands on another gate's task. *)
TaskVerdictsGenuine ==
  \A g \in Gates :
    /\ tasks[g]["approved"] > 0 => Approved(g)
    /\ tasks[g]["rejected"] > 0 =>
         \E q \in Reqs : req[q].kind = "reject" /\ req[q].dec = g

(* The live view of a paused run, whatever handler wrote its row: exactly the
   gate it can be resumed at awaits approval, no step is shown as skipped, and of
   the settled steps those whose output is kept under their own id are completed;
   a settled step with another `out` key is shown like one still to come. *)
ViewShowsPause ==
  run.status = "awaiting_approval" =>
    \A i \in Steps : StepView(i) =
      CASE i = run.cur                        -> "awaiting_approval"
        [] i < run.cur /\ i \notin Renamed    -> "completed"
        [] OTHER                              -> "pending"

(* A request that was accepted is answered, or its handler died: no handler
   waits for another one. *)
EveryRequestEnds == \A r \in Reqs : Active(r) ~> ~Active(r)

(* A run never stays `running` once it was created, unless a handler died: it
   pauses, completes or is rejected. *)
RunLeavesRunning == run.status = "running" ~> run.status # "running" \/ aborts > 0

(***************************************************************************)
(* The inductive invariant behind GateRespected, RowResumable and           *)
(* TaskVerdictsGenuine.                                                     *)
(***************************************************************************)

(* Entries are made in the order of the definition... *)
Ordered(ctx) ==
  \A i, j \in Steps : j < i /\ ctx[i] # "absent" => ctx[j] # "absent"

(* ... and a gate has an output only if someone approved it. *)
GatesBacked(ctx) == \A g \in Gates : ctx[g] = "done" => Approved(g)

(* A current step is the gate at which the context ends. *)
EndsAt(ctx, cur) ==
  cur # NoStep => cur \in Gates /\ \A i \in Steps : ctx[i] = "absent" <=> i >= cur

HandlerSound(h) ==
  /\ h.pc = "idle" <=> h.kind = "none"
  /\ h.pc = "idle" => h.ctx = EmptyContext
  /\ h.pc = "decide" => h.kind \in {"approve", "reject"}
  /\ h.kind = "reject" =>
       h.pc \notin {"drive", "persist", "task"} /\ EndsAt(h.ctx, h.dec)
  /\ Ordered(h.ctx)
  /\ GatesBacked(h.ctx)

RowSound ==
  /\ Ordered(run.ctx)
  /\ GatesBacked(run.ctx)
  /\ EndsAt(run.ctx, run.cur)
  /\ run.status = "awaiting_approval" => run.cur # NoStep
  /\ run.status \in {"none", "running"} => run.ctx = EmptyContext
  /\ run.status = "completed" => Finished(run.ctx)

(* What every handler holds in memory and what the row holds agree with the
   decisions that were made: the strengthening of the safety invariants. *)
ExecutorSound ==
  /\ \A r \in Reqs : HandlerSound(req[r])
  /\ RowSound
  /\ \A i \in Connectors : effects[i] > 0 => \E r \in Reqs : req[r].ctx[i] = "done"
  /\ TaskVerdictsGenuine

(***************************************************************************)
(* Properties of the orderly use.                                          *)
(***************************************************************************)

(* As long as no handler died, each connector step is carried out at most once
   over the whole life of the run, pauses included: resuming does not repeat
   what already ran. *)
EffectsAtMostOnce == aborts = 0 => \A i \in Connectors : effects[i] <= 1

(* Between requests, and as long as no handler died, the approval inbox mirrors
   the run: exactly one pending task, at the gate the run waits for, and none
   for any other gate. *)
InboxMirrorsRun ==
  Quiescent /\ aborts = 0 => \A g \in Gates :
    tasks[g]["pending"] =
      IF run.status = "awaiting_approval" /\ run.cur = g THEN 1 ELSE 0

(* A rejection that the audit trail holds is the outcome of the run, and an
   audited approval of its gate was not undone. *)
AuditAgreesWithRun ==
  \A r \in audit :
    /\ req[r].kind = "reject" => run.status = "rejected"
    /\ req[r].kind = "approve" => run.ctx[req[r].dec] = "done"

(***************************************************************************)
(* The inductive invariant behind the orderly use: with one handler at a    *)
(* time, row, inbox and providers are where that handler's phase says.      *)
(***************************************************************************)
OneAtATime == \A q, r \in Reqs : Active(q) /\ Active(r) => q = r

(* What the row holds while handler h has yet to overwrite it. *)
RowAwaits(h) ==
  IF h.kind = "start" THEN run.status = "running" /\ run.cur = NoStep
  ELSE run.status = "awaiting_approval" /\ run.cur = h.dec

(* What the row holds once h has saved it. *)
RowSaved(h) ==
  /\ run.ctx = h.ctx
  /\ h.kind = "reject" => run.status = "rejected"
  /\ h.kind # "reject" => run.status \in {"awaiting_approval", "completed"}

(* An approving handler passed the gate it was sent to, or is about to. *)
PassedItsGate(h) ==
  h.kind = "approve" => \/ h.ctx[h.dec] = "done"
                        \/ h.pc \in {"decide", "drive"} /\ IsNext(h.ctx, h.dec)

(* A handler at work goes on from the context in the row and takes nothing back. *)
HandlerOrderly(h) ==
  /\ h.kind # "start" => h.dec \in Gates
  /\ \A i \in Steps : run.ctx[i] # "absent" => h.ctx[i] = run.ctx[i]
  /\ h.pc \in {"decide", "drive", "persist", "save"} => RowAwaits(h)
  /\ h.pc \in {"task", "emit"} => RowSaved(h)
  /\ h.pc = "task" =>
       run.status = "awaiting_approval" /\ IsNext(h.ctx, run.cur)
  /\ PassedItsGate(h)

(* A call that reached its provider is in the row or with the handler at work. *)
EffectsKept ==
  \A i \in Connectors : effects[i] > 0 =>
    \/ run.ctx[i] # "absent"
    \/ \E r \in Reqs : Active(r) /\ req[r].ctx[i] # "absent"

(* The task of the gate is pending from _create_approval to the decision. *)
InboxInStep ==
  \A g \in Gates : tasks[g]["pending"] =
    IF /\ run.status = "awaiting_approval" /\ run.cur = g
       /\ \A r \in Reqs : Active(r) => req[r].pc \in {"decide", "emit"}
      THEN 1 ELSE 0

OrderlySound ==
  /\ OneAtATime
  /\ run.status = "none" => \A r \in Reqs : req[r].pc = "idle"
  /\ \A r \in Reqs : Active(r) => HandlerOrderly(req[r])
  /\ \A r \in audit :
       req[r].pc = "done" /\ (req[r].kind = "approve" => req[r].dec \in Gates)
  /\ aborts = 0 => EffectsAtMostOnce /\ EffectsKept /\ InboxInStep
  /\ AuditAgreesWithRun

(* Seen through its row, a run in orderly use follows RunLifecycle, also when
   handlers die: gates are met in order and an end is an end. *)
Lifecycle == INSTANCE RunLifecycle WITH status <- run.status, gate <- run.cur
ImplementsLifecycle == Lifecycle!LifecycleSpec

(***************************************************************************)
(* What the documentation says and the code does not ensure.               *)
(***************************************************************************)

(* Resuming "skips already-completed steps" (pack_runtime.py): no connector
   step is carried out twice, under any requests. *)
ResumeSkipsCompletedSteps == EffectsAtMostOnce
=============================================================================
