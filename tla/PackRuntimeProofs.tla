-------------------------- MODULE PackRuntimeProofs --------------------------
(***************************************************************************)
(* Safety of PackRuntime for every definition, set of requests and bound.   *)
(***************************************************************************)
EXTENDS PackRuntime, TLAPS

USE PackAssumption DEF NoStep

-----------------------------------------------------------------------------
(* What the two ways of updating a handler leave in req. *)

(* Goto changes the phase of one handler and nothing else. *)
LEMMA GotoEffect ==
  ASSUME req \in [Reqs -> Handlers], NEW r \in Reqs, NEW p \in Phase, Goto(r, p)
  PROVE  /\ req' \in [Reqs -> Handlers]
         /\ req'[r].pc = p
         /\ req'[r].kind = req[r].kind
         /\ req'[r].ctx = req[r].ctx
         /\ req'[r].dec = req[r].dec
         /\ \A q \in Reqs : q # r => req'[q] = req[q]
BY DEF Goto, Handlers

(* Record adds one entry to the context of one handler and nothing else. *)
LEMMA RecordEffect ==
  ASSUME req \in [Reqs -> Handlers], NEW r \in Reqs, NEW i \in Steps,
         NEW e \in Entry, Record(r, i, e)
  PROVE  /\ req' \in [Reqs -> Handlers]
         /\ req'[r].pc = req[r].pc
         /\ req'[r].kind = req[r].kind
         /\ req'[r].ctx = [req[r].ctx EXCEPT ![i] = e]
         /\ req'[r].dec = req[r].dec
         /\ \A q \in Reqs : q # r => req'[q] = req[q]
<1> DEFINE c == [req[r].ctx EXCEPT ![i] = e]
<1>1. c \in Contexts
  BY DEF Handlers, Contexts
<1>2. req' = [req EXCEPT ![r].ctx = c]
  BY DEF Record
<1> HIDE DEF c
<1>3. req' \in [Reqs -> Handlers] /\ req'[r].ctx = c
  BY <1>1, <1>2 DEF Handlers
<1>4. QED  BY <1>2, <1>3 DEF c, Handlers

-----------------------------------------------------------------------------
(* The variables always have their types: every transaction of pack_runtime.py
   and every engine step leaves well-formed rows, counters and handlers. *)
THEOREM TypeCorrect == Spec => []TypeOK
<1> USE DEF TypeOK
<1>1. Init => TypeOK
  BY DEF Init, Rows, Handlers, Contexts, Entry, RunStatus, TaskStatus, Kind, Phase,
         EmptyContext
<1>2. TypeOK /\ [Next]_vars => TypeOK'
  <2> SUFFICES ASSUME TypeOK, [Next]_vars PROVE TypeOK'
    OBVIOUS
  <2> USE DEF Phase
  <2>1. ASSUME NEW r \in Reqs, StartRun(r) PROVE TypeOK'
    <3>1. EmptyContext \in Contexts
      BY DEF EmptyContext, Contexts, Entry
    <3>2. run' \in Rows
      BY <2>1, <3>1 DEF StartRun, Rows, RunStatus
    <3>3. [pc |-> "drive", kind |-> "start", ctx |-> EmptyContext, dec |-> NoStep]
            \in Handlers
      BY <3>1 DEF Handlers, Kind
    <3>4. QED  BY <2>1, <3>2, <3>3 DEF StartRun
  <2>2. ASSUME NEW r \in Reqs, NEW kind \in {"approve", "reject"}, ReadRun(r, kind)
        PROVE TypeOK'
    <3>1. [pc |-> "decide", kind |-> kind, ctx |-> run.ctx, dec |-> run.cur]
            \in Handlers
      BY DEF Rows, Handlers, Kind
    <3>2. QED  BY <2>2, <3>1 DEF ReadRun
  <2>3. ASSUME NEW r \in Reqs, DecideTasks(r) PROVE TypeOK'
    <3>1. tasks' \in [Gates -> [TaskStatus -> Nat]]
      BY <2>3 DEF DecideTasks, DecidedTasks, AllTasks, Total, TaskStatus
    <3>2. req' \in [Reqs -> Handlers]
      BY <2>3, GotoEffect DEF DecideTasks
    <3>3. QED  BY <2>3, <3>1, <3>2 DEF DecideTasks
  <2>4. ASSUME NEW r \in Reqs, SkipStep(r) PROVE TypeOK'
    BY <2>4, RecordEffect DEF SkipStep, Entry
  <2>5. ASSUME NEW r \in Reqs, ComputeStep(r) PROVE TypeOK'
    BY <2>5, RecordEffect DEF ComputeStep, Entry
  <2>6. ASSUME NEW r \in Reqs, ConnectorStep(r) PROVE TypeOK'
    <3>1. req' \in [Reqs -> Handlers]
      BY <2>6, RecordEffect DEF ConnectorStep, Entry
    <3>2. QED  BY <2>6, <3>1 DEF ConnectorStep
  <2>7. ASSUME NEW r \in Reqs, PassGate(r) PROVE TypeOK'
    BY <2>7, RecordEffect DEF PassGate, Entry
  <2>8. ASSUME NEW r \in Reqs, LeaveEngine(r) PROVE TypeOK'
    BY <2>8, GotoEffect DEF LeaveEngine
  <2>9. ASSUME NEW r \in Reqs, PersistSteps(r) PROVE TypeOK'
    <3>1. req' \in [Reqs -> Handlers]
      BY <2>9, GotoEffect DEF PersistSteps
    <3>2. QED  BY <2>9, <3>1 DEF PersistSteps
  <2>10. ASSUME NEW r \in Reqs, SaveRun(r) PROVE TypeOK'
    <3>1. req' \in [Reqs -> Handlers]
      BY <2>10, GotoEffect DEF SaveRun
    <3>2. req[r].ctx \in Contexts /\ req[r].dec \in Steps \cup {NoStep}
      BY DEF Handlers
    <3>3. run' \in Rows
      BY <2>10, <3>2 DEF SaveRun, RejectedRow, CompletedRow, PausedRow, Rows, RunStatus
    <3>4. QED  BY <2>10, <3>1, <3>3 DEF SaveRun
  <2>11. ASSUME NEW r \in Reqs, CreateApproval(r) PROVE TypeOK'
    <3>1. req' \in [Reqs -> Handlers]
      BY <2>11, GotoEffect DEF CreateApproval
    <3>2. tasks' \in [Gates -> [TaskStatus -> Nat]]
      BY <2>11 DEF CreateApproval, TaskStatus
    <3>3. QED  BY <2>11, <3>1, <3>2 DEF CreateApproval
  <2>12. ASSUME NEW r \in Reqs, Answer(r) PROVE TypeOK'
    <3>1. req' \in [Reqs -> Handlers]
      BY <2>12, GotoEffect DEF Answer
    <3>2. QED  BY <2>12, <3>1 DEF Answer
  <2>13. ASSUME NEW r \in Reqs, Abort(r) PROVE TypeOK'
    <3>1. req' \in [Reqs -> Handlers]
      BY <2>13, GotoEffect DEF Abort
    <3>2. QED  BY <2>13, <3>1 DEF Abort
  <2>14. CASE UNCHANGED vars
    BY <2>14 DEF vars
  <2>15. QED
    BY <2>1, <2>2, <2>3, <2>4, <2>5, <2>6, <2>7, <2>8, <2>9, <2>10, <2>11,
       <2>12, <2>13, <2>14 DEF Next, Continue
<1>3. QED
  BY <1>1, <1>2, PTL DEF Spec

-----------------------------------------------------------------------------
(* Facts about contexts. *)

(* Recording the next step keeps a context ordered. *)
LEMMA OrderedExtends ==
  ASSUME NEW ctx \in Contexts, Ordered(ctx), NEW i \in Steps, IsNext(ctx, i),
         NEW e \in {"done", "skipped"}
  PROVE  Ordered([ctx EXCEPT ![i] = e])
BY DEF Ordered, IsNext, Contexts, Steps

(* An ordered context ends exactly at the gate the engine is stopped at. *)
LEMMA NextIsEnd ==
  ASSUME NEW ctx \in Contexts, Ordered(ctx), NEW g \in Gates, IsNext(ctx, g)
  PROVE  EndsAt(ctx, g)
<1>1. g \in Steps
  OBVIOUS
<1>2. ASSUME NEW i \in Steps, ctx[i] = "absent" PROVE i >= g
  BY <1>1, <1>2 DEF IsNext, Steps
<1>3. ASSUME NEW i \in Steps, i >= g PROVE ctx[i] = "absent"
  BY <1>1, <1>3 DEF IsNext, Ordered, Steps
<1>4. QED  BY <1>2, <1>3 DEF EndsAt

-----------------------------------------------------------------------------
(* A handler that has begun keeps its decision and its entries: nothing is
   taken back from a context in memory. *)
Keeps(q) ==
  req[q].kind # "none" =>
    /\ req'[q].kind = req[q].kind
    /\ req'[q].dec = req[q].dec
    /\ \A i \in Steps : req[q].ctx[i] # "absent" => req'[q].ctx[i] = req[q].ctx[i]

HandlersSound == \A q \in Reqs : HandlerSound(req[q])

(* Keeps holds of every step: requests begin once and entries are final. *)
LEMMA StepKeeps ==
  ASSUME TypeOK, HandlersSound, [Next]_vars
  PROVE  \A q \in Reqs : Keeps(q)
<1> USE DEF TypeOK
<1>1. ASSUME NEW r \in Reqs, req[r].pc = "idle",
             \A q \in Reqs : q # r => req'[q] = req[q]
      PROVE  \A q \in Reqs : Keeps(q)
  BY <1>1 DEF Keeps, HandlersSound, HandlerSound
<1>2. ASSUME NEW r \in Reqs, NEW p \in Phase, Goto(r, p)
      PROVE  \A q \in Reqs : Keeps(q)
  BY <1>2, GotoEffect DEF Keeps
<1>3. ASSUME NEW r \in Reqs, NEW i \in Steps, NEW e \in Entry, Record(r, i, e),
             req[r].ctx[i] = "absent"
      PROVE  \A q \in Reqs : Keeps(q)
  <2>1. req[r].ctx \in Contexts
    BY DEF Handlers
  <2>2. req'[r].ctx = [req[r].ctx EXCEPT ![i] = e]
    BY <1>3, RecordEffect
  <2>3. \A j \in Steps : j # i => req'[r].ctx[j] = req[r].ctx[j]
    BY <2>1, <2>2 DEF Contexts
  <2>4. Keeps(r)
    BY <1>3, <2>3, RecordEffect DEF Keeps
  <2>5. QED  BY <1>3, <2>4, RecordEffect DEF Keeps
<1>4. ASSUME NEW r \in Reqs, StartRun(r) PROVE \A q \in Reqs : Keeps(q)
  BY <1>4, <1>1 DEF StartRun
<1>5. ASSUME NEW r \in Reqs, NEW kind \in {"approve", "reject"}, ReadRun(r, kind)
      PROVE \A q \in Reqs : Keeps(q)
  BY <1>5, <1>1 DEF ReadRun
<1>6. ASSUME NEW r \in Reqs,
             \/ DecideTasks(r) \/ LeaveEngine(r) \/ PersistSteps(r) \/ SaveRun(r)
             \/ CreateApproval(r) \/ Answer(r) \/ Abort(r)
      PROVE \A q \in Reqs : Keeps(q)
  <2>1. PICK p \in Phase : Goto(r, p)
    BY <1>6 DEF DecideTasks, LeaveEngine, PersistSteps, SaveRun, CreateApproval,
                Answer, Abort, Phase
  <2>2. QED  BY <2>1, <1>2
<1>7. ASSUME NEW r \in Reqs,
             SkipStep(r) \/ ComputeStep(r) \/ ConnectorStep(r) \/ PassGate(r)
      PROVE \A q \in Reqs : Keeps(q)
  <2>1. PICK i \in Steps, e \in Entry : Record(r, i, e) /\ IsNext(req[r].ctx, i)
    BY <1>7 DEF SkipStep, ComputeStep, ConnectorStep, PassGate, Entry
  <2>2. QED  BY <2>1, <1>3 DEF IsNext
<1>8. CASE UNCHANGED vars
  BY <1>8 DEF vars, Keeps
<1>9. QED
  BY <1>4, <1>5, <1>6, <1>7, <1>8 DEF Next, Continue

(* An approval is never forgotten. *)
LEMMA ApprovalsLast ==
  ASSUME \A q \in Reqs : Keeps(q)
  PROVE  \A g \in Gates : Approved(g) => Approved(g)'
<1>1. SUFFICES ASSUME NEW g \in Gates, NEW q \in Reqs, Decides(req[q], g)
               PROVE  Decides(req[q], g)'
  BY DEF Approved
<1>2. QED  BY <1>1 DEF Keeps, Decides

-----------------------------------------------------------------------------
(* The conjuncts of ExecutorSound, one lemma each. *)

(* No step makes the context or the decision of a handler unsound. *)
LEMMA HandlersStaySound ==
  ASSUME TypeOK, ExecutorSound, [Next]_vars
  PROVE  HandlersSound'
<1> USE DEF TypeOK
<1>1. HandlersSound
  BY DEF ExecutorSound, HandlersSound
<1>2. \A g \in Gates : Approved(g) => Approved(g)'
  BY <1>1, StepKeeps, ApprovalsLast DEF Keeps
<1>3. ASSUME NEW q \in Reqs, req'[q] = req[q] PROVE HandlerSound(req[q])'
  BY <1>1, <1>2, <1>3 DEF HandlersSound, HandlerSound, GatesBacked
<1>4. ASSUME NEW r \in Reqs, NEW p \in Phase, Goto(r, p),
             req[r].pc # "idle", p \notin {"idle", "decide"},
             req[r].kind = "reject" => p \notin {"drive", "persist", "task"}
      PROVE  HandlersSound'
  <2>1. HandlerSound(req[r])
    BY <1>1 DEF HandlersSound
  <2>2. /\ req'[r].pc = p
        /\ req'[r].kind = req[r].kind
        /\ req'[r].ctx = req[r].ctx
        /\ req'[r].dec = req[r].dec
        /\ \A q \in Reqs : q # r => req'[q] = req[q]
    BY <1>4, GotoEffect
  <2>3. GatesBacked(req[r].ctx)'
    BY <1>2, <2>1, <2>2 DEF HandlerSound, GatesBacked
  <2>4. HandlerSound(req[r])'
    BY <1>4, <2>1, <2>2, <2>3 DEF HandlerSound
  <2>5. QED  BY <1>3, <2>2, <2>4 DEF HandlersSound
<1>5. ASSUME NEW r \in Reqs, NEW i \in Steps, NEW e \in {"done", "skipped"},
             req[r].pc = "drive", Record(r, i, e), IsNext(req[r].ctx, i),
             i \in Gates /\ e = "done" => Decides(req[r], i)
      PROVE  HandlersSound'
  <2> DEFINE c == [req[r].ctx EXCEPT ![i] = e]
  <2>1. HandlerSound(req[r]) /\ req[r].ctx \in Contexts /\ e \in Entry
    BY <1>1 DEF HandlersSound, Handlers, Entry
  <2>2. /\ req'[r].pc = req[r].pc
        /\ req'[r].kind = req[r].kind
        /\ req'[r].ctx = c
        /\ req'[r].dec = req[r].dec
        /\ \A q \in Reqs : q # r => req'[q] = req[q]
    BY <1>5, <2>1, RecordEffect
  <2>3. Ordered(c)
    BY <1>5, <2>1, OrderedExtends DEF HandlerSound
  <2>4. ASSUME NEW g \in Gates, c[g] = "done" PROVE Approved(g)'
    <3>1. CASE g # i
      <4>1. req[r].ctx[g] = "done"
        BY <2>1, <2>4, <3>1 DEF Contexts
      <4>2. QED  BY <1>2, <2>1, <4>1 DEF HandlerSound, GatesBacked
    <3>2. CASE g = i
      <4>1. Decides(req[r], g)
        BY <1>5, <2>1, <2>4, <3>2 DEF Contexts
      <4>2. QED  BY <1>2, <4>1 DEF Approved
    <3>3. QED  BY <3>1, <3>2
  <2> HIDE DEF c
  <2>5. HandlerSound(req[r])'
    BY <1>5, <2>1, <2>2, <2>3, <2>4 DEF HandlerSound, GatesBacked, Ordered
  <2>6. QED  BY <1>3, <2>2, <2>5 DEF HandlersSound
<1>6. ASSUME NEW r \in Reqs, StartRun(r) PROVE HandlersSound'
  <2>1. /\ req'[r] = [pc |-> "drive", kind |-> "start",
                      ctx |-> EmptyContext, dec |-> NoStep]
        /\ \A q \in Reqs : q # r => req'[q] = req[q]
    BY <1>6 DEF StartRun
  <2>2. HandlerSound(req[r])'
    BY <2>1 DEF HandlerSound, Ordered, GatesBacked, EmptyContext
  <2>3. QED  BY <1>3, <2>1, <2>2 DEF HandlersSound
<1>7. ASSUME NEW r \in Reqs, NEW kind \in {"approve", "reject"}, ReadRun(r, kind)
      PROVE HandlersSound'
  <2>1. /\ req'[r] = [pc |-> "decide", kind |-> kind, ctx |-> run.ctx, dec |-> run.cur]
        /\ \A q \in Reqs : q # r => req'[q] = req[q]
    BY <1>7 DEF ReadRun
  <2>2. RowSound
    BY DEF ExecutorSound
  <2>3. HandlerSound(req[r])'
    BY <1>2, <2>1, <2>2 DEF HandlerSound, RowSound, GatesBacked, Ordered, EndsAt
  <2>4. QED  BY <1>3, <2>1, <2>3 DEF HandlersSound
<1>8. ASSUME NEW r \in Reqs, DecideTasks(r) PROVE HandlersSound'
  <2>1. req[r].kind \in {"approve", "reject"}
    BY <1>1, <1>8 DEF DecideTasks, HandlersSound, HandlerSound
  <2>2. CASE req[r].kind = "approve"
    <3>1. Goto(r, "drive")
      BY <1>8, <2>2 DEF DecideTasks
    <3>2. QED  BY <1>8, <2>2, <3>1, <1>4 DEF DecideTasks, Phase
  <2>3. CASE req[r].kind = "reject"
    <3>1. Goto(r, "save")
      BY <1>8, <2>3 DEF DecideTasks
    <3>2. QED  BY <1>8, <3>1, <1>4 DEF DecideTasks, Phase
  <2>4. QED  BY <2>1, <2>2, <2>3
<1>9. ASSUME NEW r \in Reqs, SkipStep(r) PROVE HandlersSound'
  BY <1>9, <1>5 DEF SkipStep
<1>10. ASSUME NEW r \in Reqs, ComputeStep(r) PROVE HandlersSound'
  BY <1>10, <1>5 DEF ComputeStep
<1>11. ASSUME NEW r \in Reqs, ConnectorStep(r) PROVE HandlersSound'
  BY <1>11, <1>5 DEF ConnectorStep
<1>12. ASSUME NEW r \in Reqs, PassGate(r) PROVE HandlersSound'
  BY <1>12, <1>5 DEF PassGate
<1>13. ASSUME NEW r \in Reqs, LeaveEngine(r) PROVE HandlersSound'
  <2>1. req[r].kind # "reject"
    BY <1>1, <1>13 DEF LeaveEngine, HandlersSound, HandlerSound
  <2>2. QED  BY <1>13, <2>1, <1>4 DEF LeaveEngine, Phase
<1>14. ASSUME NEW r \in Reqs, PersistSteps(r) PROVE HandlersSound'
  BY <1>14, <1>4 DEF PersistSteps, Phase
<1>15. ASSUME NEW r \in Reqs, SaveRun(r) PROVE HandlersSound'
  <2>1. PICK p \in {"emit", "task"} :
          Goto(r, p) /\ (req[r].kind = "reject" => p = "emit")
    BY <1>15 DEF SaveRun
  <2>2. QED  BY <1>15, <2>1, <1>4 DEF SaveRun, Phase
<1>16. ASSUME NEW r \in Reqs, CreateApproval(r) PROVE HandlersSound'
  BY <1>16, <1>4 DEF CreateApproval, Phase
<1>17. ASSUME NEW r \in Reqs, Answer(r) PROVE HandlersSound'
  BY <1>17, <1>4 DEF Answer, Phase
<1>18. ASSUME NEW r \in Reqs, Abort(r) PROVE HandlersSound'
  BY <1>18, <1>4 DEF Abort, Active, Phase
<1>19. CASE UNCHANGED vars
  BY <1>19, <1>3 DEF vars, HandlersSound
<1>20. QED
  BY <1>6, <1>7, <1>8, <1>9, <1>10, <1>11, <1>12, <1>13, <1>14, <1>15, <1>16,
     <1>17, <1>18, <1>19 DEF Next, Continue

(* The row is written from sound memory, so it stays resumable. *)
LEMMA RowStaysSound ==
  ASSUME TypeOK, ExecutorSound, [Next]_vars
  PROVE  RowSound'
<1> USE DEF TypeOK
<1>1. HandlersSound /\ RowSound
  BY DEF ExecutorSound, HandlersSound
<1>2. \A g \in Gates : Approved(g) => Approved(g)'
  BY <1>1, StepKeeps, ApprovalsLast DEF Keeps
<1>3. ASSUME run' = run PROVE RowSound'
  BY <1>1, <1>2, <1>3 DEF RowSound, GatesBacked, Ordered, EndsAt, Finished
<1>4. ASSUME NEW r \in Reqs, StartRun(r) PROVE RowSound'
  BY <1>4 DEF StartRun, RowSound, GatesBacked, Ordered, EndsAt, EmptyContext
<1>5. ASSUME NEW r \in Reqs, SaveRun(r) PROVE RowSound'
  <2>1. HandlerSound(req[r]) /\ req[r].ctx \in Contexts
    BY <1>1 DEF HandlersSound, Handlers
  <2>2. run'.ctx = req[r].ctx
    BY <1>5 DEF SaveRun, RejectedRow, CompletedRow, PausedRow
  <2>3. Ordered(run'.ctx) /\ GatesBacked(run.ctx)'
    BY <1>2, <2>1, <2>2 DEF HandlerSound, GatesBacked
  <2>4. EndsAt(run'.ctx, run'.cur)
    <3>1. CASE run'.cur = NoStep
      BY <3>1 DEF EndsAt
    <3>2. CASE run'.status = "rejected" /\ req[r].kind = "reject" /\ run'.cur = req[r].dec
      BY <2>1, <2>2, <3>2 DEF HandlerSound
    <3>3. CASE \E g \in Gates : IsNext(req[r].ctx, g) /\ run'.cur = g
      BY <2>1, <2>2, <3>3, NextIsEnd DEF HandlerSound
    <3>4. QED  BY <1>5, <3>1, <3>2, <3>3 DEF SaveRun, RejectedRow, CompletedRow, PausedRow
  <2>5. /\ run'.status = "awaiting_approval" => run'.cur # NoStep
        /\ run'.status \notin {"none", "running"}
        /\ run'.status = "completed" => Finished(run'.ctx)
    BY <1>5 DEF SaveRun, RejectedRow, CompletedRow, PausedRow, Steps
  <2>6. QED  BY <2>3, <2>4, <2>5 DEF RowSound, Ordered, EndsAt, Finished
<1>6. QED
  BY <1>3, <1>4, <1>5 DEF Next, Continue, ReadRun, DecideTasks, SkipStep, ComputeStep,
     ConnectorStep, PassGate, LeaveEngine, PersistSteps, CreateApproval, Answer, Abort, vars

(* Every call that reached a provider has its step in the context of the handler
   that made it. *)
LEMMA EffectsStayWitnessed ==
  ASSUME TypeOK, ExecutorSound, [Next]_vars
  PROVE  (\A i \in Connectors : effects[i] > 0 =>
            \E r \in Reqs : req[r].ctx[i] = "done")'
<1> USE DEF TypeOK
<1>1. HandlersSound
  BY DEF ExecutorSound, HandlersSound
<1>2. \A q \in Reqs : Keeps(q)
  BY <1>1, StepKeeps
<1>3. ASSUME NEW q \in Reqs, NEW i \in Connectors, req[q].ctx[i] = "done"
      PROVE  req'[q].ctx[i] = "done"
  <2>1. req[q].kind # "none"
    BY <1>1, <1>3 DEF HandlersSound, HandlerSound, Handlers, EmptyContext
  <2>2. QED  BY <1>2, <1>3, <2>1 DEF Keeps
<1>4. ASSUME effects' = effects
      PROVE  \A i \in Connectors : effects'[i] > 0 =>
               \E r \in Reqs : req'[r].ctx[i] = "done"
  BY <1>3, <1>4 DEF ExecutorSound
<1>5. ASSUME NEW r \in Reqs, ConnectorStep(r)
      PROVE  \A i \in Connectors : effects'[i] > 0 =>
               \E q \in Reqs : req'[q].ctx[i] = "done"
  <2>1. PICK i \in Connectors :
          Record(r, i, "done") /\ (effects' = [effects EXCEPT ![i] = @ + 1] \/ effects' = effects)
    BY <1>5 DEF ConnectorStep
  <2>2. req'[r].ctx[i] = "done"
    <3>1. req'[r].ctx = [req[r].ctx EXCEPT ![i] = "done"] /\ req[r].ctx \in Contexts
      BY <2>1, RecordEffect DEF Entry, Handlers
    <3>2. QED  BY <3>1 DEF Contexts
  <2>3. ASSUME NEW j \in Connectors, effects'[j] > 0, j # i
        PROVE  \E q \in Reqs : req'[q].ctx[j] = "done"
    <3>1. effects[j] > 0
      BY <2>1, <2>3
    <3>2. QED  BY <1>3, <3>1 DEF ExecutorSound
  <2>4. QED  BY <2>2, <2>3
<1>6. QED
  BY <1>4, <1>5 DEF Next, Continue, StartRun, ReadRun, DecideTasks, SkipStep, ComputeStep,
     PassGate, LeaveEngine, PersistSteps, SaveRun, CreateApproval, Answer, Abort, vars

(* A verdict is only ever written to the tasks of the gate it was given for. *)
LEMMA VerdictsStayGenuine ==
  ASSUME TypeOK, ExecutorSound, [Next]_vars
  PROVE  TaskVerdictsGenuine'
<1> USE DEF TypeOK
<1>1. HandlersSound /\ TaskVerdictsGenuine
  BY DEF ExecutorSound, HandlersSound
<1>2. \A q \in Reqs : Keeps(q)
  BY <1>1, StepKeeps
<1>3. \A g \in Gates : Approved(g) => Approved(g)'
  BY <1>2, ApprovalsLast
<1>4. \A q \in Reqs, g \in Gates :
        req[q].kind = "reject" /\ req[q].dec = g => req'[q].kind = "reject" /\ req'[q].dec = g
  BY <1>2 DEF Keeps
<1>5. ASSUME \A g \in Gates : /\ tasks'[g]["approved"] = tasks[g]["approved"]
                             /\ tasks'[g]["rejected"] = tasks[g]["rejected"]
      PROVE  TaskVerdictsGenuine'
  BY <1>1, <1>3, <1>4, <1>5 DEF TaskVerdictsGenuine
<1>6. ASSUME NEW r \in Reqs, DecideTasks(r) PROVE TaskVerdictsGenuine'
  <2>1. req[r].kind \in {"approve", "reject"}
    BY <1>1, <1>6 DEF DecideTasks, HandlersSound, HandlerSound
  <2>2. ASSUME NEW g \in Gates, g # req[r].dec PROVE tasks'[g] = tasks[g]
    BY <1>6, <2>2 DEF DecideTasks, DecidedTasks
  <2>3. ASSUME NEW g \in Gates, g = req[r].dec, req[r].kind = "approve"
        PROVE  tasks'[g]["rejected"] = 0 /\ Approved(g)'
    <3>1. tasks'[g]["rejected"] = 0
      BY <1>6, <2>3 DEF DecideTasks, DecidedTasks, AllTasks, TaskStatus
    <3>2. Approved(g)
      BY <2>3 DEF Approved, Decides
    <3>3. QED  BY <1>3, <3>1, <3>2
  <2>4. ASSUME NEW g \in Gates, g = req[r].dec, req[r].kind = "reject"
        PROVE  tasks'[g]["approved"] = 0
    BY <1>6, <2>4 DEF DecideTasks, DecidedTasks, AllTasks, TaskStatus
  <2>5. QED
    BY <1>1, <1>3, <1>4, <2>1, <2>2, <2>3, <2>4 DEF TaskVerdictsGenuine
<1>7. ASSUME NEW r \in Reqs, CreateApproval(r) PROVE TaskVerdictsGenuine'
  <2>1. PICK h \in Gates : tasks' = [tasks EXCEPT ![h]["pending"] = @ + 1]
    BY <1>7 DEF CreateApproval
  <2>2. QED  BY <1>5, <2>1 DEF TaskStatus
<1>8. ASSUME UNCHANGED tasks PROVE TaskVerdictsGenuine'
  BY <1>5, <1>8
<1>9. QED
  BY <1>6, <1>7, <1>8 DEF Next, Continue, StartRun, ReadRun, SkipStep, ComputeStep,
     ConnectorStep, PassGate, LeaveEngine, PersistSteps, SaveRun, Answer, Abort, vars

-----------------------------------------------------------------------------
(* The strengthening is an invariant: memory and row agree with the decisions
   that were made, under every interleaving and every failure. *)
THEOREM ExecutorAlwaysSound == Spec => []ExecutorSound
<1>1. Init => ExecutorSound
  BY DEF Init, ExecutorSound, HandlerSound, RowSound, Ordered, GatesBacked, EndsAt,
         TaskVerdictsGenuine, EmptyContext, TaskStatus
<1>2. TypeOK /\ ExecutorSound /\ [Next]_vars => ExecutorSound'
  BY HandlersStaySound, RowStaysSound, EffectsStayWitnessed, VerdictsStayGenuine
     DEF ExecutorSound, HandlersSound
<1>3. QED
  BY <1>1, <1>2, TypeCorrect, PTL DEF Spec

(* No connector call behind a gate without an approval of that gate, for every
   definition and any number of overlapping, stale or dying requests. *)
THEOREM GatesAlwaysRespected == Spec => []GateRespected
<1>1. TypeOK /\ ExecutorSound => GateRespected
  <2> SUFFICES ASSUME TypeOK, ExecutorSound, NEW i \in Connectors, effects[i] > 0
               PROVE  \E r \in Reqs : req[r].ctx[i] = "done" /\ GatesOpen(req[r].ctx, i)
    BY DEF GateRespected
  <2>1. PICK r \in Reqs : req[r].ctx[i] = "done"
    BY DEF ExecutorSound
  <2>2. HandlerSound(req[r]) /\ req[r].ctx \in Contexts
    BY DEF ExecutorSound, TypeOK, Handlers
  <2>3. ASSUME NEW g \in Gates, g < i PROVE req[r].ctx[g] \in {"done", "skipped"}
    BY <2>1, <2>2, <2>3 DEF HandlerSound, Ordered, Contexts, Entry
  <2>4. QED  BY <2>1, <2>2, <2>3 DEF GatesOpen, HandlerSound, GatesBacked
<1>2. QED
  BY <1>1, TypeCorrect, ExecutorAlwaysSound, PTL

(* The row can be resumed after any interleaving: prefix context, gate at its
   end, and approvals behind a completed run. *)
THEOREM RowAlwaysResumable == Spec => []RowResumable
<1>1. TypeOK /\ ExecutorSound => RowResumable
  <2> SUFFICES ASSUME TypeOK, ExecutorSound PROVE RowResumable
    OBVIOUS
  <2>1. RowSound /\ run.ctx \in Contexts
    BY DEF ExecutorSound, TypeOK, Rows
  <2>2. ASSUME run.status = "completed", NEW g \in Gates
        PROVE  run.ctx[g] = "skipped" \/ Approved(g)
    BY <2>1, <2>2 DEF RowSound, Finished, GatesBacked, Contexts, Entry
  <2>3. QED  BY <2>1, <2>2 DEF RowSound, RowResumable, EndsAt, GatesOpen
<1>2. QED
  BY <1>1, TypeCorrect, ExecutorAlwaysSound, PTL

(* A verdict never lands on the task of another gate. *)
THEOREM VerdictsAlwaysGenuine == Spec => []TaskVerdictsGenuine
<1>1. ExecutorSound => TaskVerdictsGenuine
  BY DEF ExecutorSound
<1>2. QED
  BY <1>1, ExecutorAlwaysSound, PTL

(* The live view of a paused run shows its gate as the one step that waits, no
   step as skipped, and a settled step as completed unless its output has another
   key: get_run_view reads a row whose context ends at its gate. *)
THEOREM ViewAlwaysShowsPause == Spec => []ViewShowsPause
<1>1. TypeOK /\ ExecutorSound => ViewShowsPause
  <2> SUFFICES ASSUME TypeOK, ExecutorSound, run.status = "awaiting_approval", NEW i \in Steps
               PROVE  StepView(i) = CASE i = run.cur -> "awaiting_approval"
                                      [] i < run.cur /\ i \notin Renamed -> "completed"
                                      [] OTHER -> "pending"
    BY DEF ViewShowsPause
  <2>1. /\ run.cur \in Steps
        /\ run.ctx[i] = "absent" <=> i >= run.cur
    BY DEF ExecutorSound, RowSound, EndsAt
  <2>2. i \in Nat /\ run.cur \in Nat
    BY <2>1 DEF Steps
  <2>3. CASE i < run.cur /\ i \notin Renamed
    BY <2>1, <2>2, <2>3 DEF StepView, SeenDone, Terminal
  <2>4. CASE i = run.cur
    BY <2>1, <2>2, <2>4 DEF StepView, SeenDone, Terminal
  <2>5. CASE i > run.cur \/ (i < run.cur /\ i \in Renamed)
    BY <2>1, <2>2, <2>5 DEF StepView, SeenDone, Terminal
  <2>6. QED  BY <2>2, <2>3, <2>4, <2>5
<1>2. QED
  BY <1>1, TypeCorrect, ExecutorAlwaysSound, PTL
=============================================================================
