-------------------------- MODULE PackOrderlyProofs --------------------------
(***************************************************************************)
(* PackRuntime under the use its clients are expected to make of it, one    *)
(* decision at a time on a run that awaits approval: for every definition,  *)
(* set of requests and bound, and whichever handlers die, the row of a run  *)
(* follows RunLifecycle.                                                    *)
(***************************************************************************)
EXTENDS PackRuntimeProofs

USE PackAssumption DEF NoStep

-----------------------------------------------------------------------------
(* Orderly use is a use: everything proved of Spec holds under it. *)
LEMMA OrderlyStepIsStep == [OrderlyNext]_vars => [Next]_vars
BY DEF OrderlyNext, Next

LEMMA OrderlyIsSpec == OrderlySpec => Spec
BY OrderlyStepIsStep, PTL DEF OrderlySpec, Spec

-----------------------------------------------------------------------------
(* Facts about one step. *)

(* A context has one next step. *)
LEMMA NextIsUnique ==
  ASSUME NEW ctx \in Contexts, NEW i \in Steps, NEW j \in Steps,
         IsNext(ctx, i), IsNext(ctx, j)
  PROVE  i = j
BY DEF IsNext, Steps

(* A handler that acts is at work, and it touches no other handler. *)
LEMMA ActsAlone ==
  ASSUME TypeOK, ExecutorSound, NEW r \in Reqs, Continue(r) \/ Abort(r)
  PROVE  /\ Active(r)
         /\ req[r].kind # "none"
         /\ req'[r].kind = req[r].kind
         /\ req'[r].dec = req[r].dec
         /\ \A q \in Reqs : q # r => req'[q] = req[q]
<1> USE DEF TypeOK
<1>1. ASSUME NEW p \in Phase, Goto(r, p)
      PROVE  /\ req'[r].kind = req[r].kind
             /\ req'[r].dec = req[r].dec
             /\ \A q \in Reqs : q # r => req'[q] = req[q]
  BY <1>1, GotoEffect
<1>2. ASSUME NEW i \in Steps, NEW e \in Entry, Record(r, i, e)
      PROVE  /\ req'[r].kind = req[r].kind
             /\ req'[r].dec = req[r].dec
             /\ \A q \in Reqs : q # r => req'[q] = req[q]
  BY <1>2, RecordEffect
<1>3. Active(r)
  BY DEF Continue, DecideTasks, SkipStep, ComputeStep, ConnectorStep, PassGate, LeaveEngine,
         PersistSteps, SaveRun, CreateApproval, Answer, Abort, Active
<1>4. req[r].kind # "none"
  BY <1>3 DEF ExecutorSound, HandlerSound, Active
<1>5. \/ \E p \in Phase : Goto(r, p)
      \/ \E i \in Steps, e \in Entry : Record(r, i, e)
  <2>1. CASE SkipStep(r) \/ ComputeStep(r) \/ ConnectorStep(r) \/ PassGate(r)
    BY <2>1 DEF SkipStep, ComputeStep, ConnectorStep, PassGate, Entry
  <2>2. CASE \/ DecideTasks(r) \/ LeaveEngine(r) \/ PersistSteps(r) \/ SaveRun(r)
             \/ CreateApproval(r) \/ Answer(r) \/ Abort(r)
    BY <2>2 DEF DecideTasks, LeaveEngine, PersistSteps, SaveRun, CreateApproval, Answer,
                Abort, Phase
  <2>3. QED  BY <2>1, <2>2 DEF Continue
<1>6. QED  BY <1>1, <1>2, <1>3, <1>4, <1>5

(* Only one handler is at work after a step if only one was before it. *)
LEMMA StaysOneAtATime ==
  ASSUME TypeOK, ExecutorSound, OrderlySound, [OrderlyNext]_vars
  PROVE  /\ OneAtATime'
         /\ run'.status = "none" => \A r \in Reqs : req'[r].pc = "idle"
<1>1. OneAtATime /\ (run.status = "none" => \A r \in Reqs : req[r].pc = "idle")
  BY DEF OrderlySound
<1>2. ASSUME NEW r \in Reqs, StartRun(r)
      PROVE  run'.status # "none" /\ \A q \in Reqs : Active(q)' => q = r
  BY <1>1, <1>2 DEF StartRun, Active, TypeOK
<1>3. ASSUME NEW r \in Reqs, NEW kind \in {"approve", "reject"}, ReadRun(r, kind), Quiescent
      PROVE  run'.status # "none" /\ \A q \in Reqs : Active(q)' => q = r
  BY <1>3 DEF ReadRun, Active, Quiescent, TypeOK
<1>4. ASSUME NEW r \in Reqs, Continue(r) \/ Abort(r)
      PROVE  run'.status # "none" /\ \A q \in Reqs : Active(q)' => q = r
  <2>1. Active(r) /\ \A q \in Reqs : q # r => req'[q] = req[q]
    BY <1>4, ActsAlone
  <2>2. run.status # "none"
    BY <1>1, <2>1 DEF Active
  <2>3. run'.status # "none"
    BY <1>4, <2>2 DEF Continue, DecideTasks, SkipStep, ComputeStep, ConnectorStep, PassGate,
       LeaveEngine, PersistSteps, SaveRun, CreateApproval, Answer, Abort, RejectedRow,
       CompletedRow, PausedRow
  <2>4. QED  BY <1>1, <2>1, <2>3 DEF OneAtATime, Active
<1>5. CASE UNCHANGED vars
  BY <1>1, <1>5 DEF vars, OneAtATime, Active
<1>6. QED
  BY <1>2, <1>3, <1>4, <1>5 DEF OrderlyNext, OneAtATime

-----------------------------------------------------------------------------
(* The conjuncts of OrderlySound, one lemma each. *)

(* Whatever phase the handler at work goes to, the row is where it expects it. *)
LEMMA HandlersStayOrderly ==
  ASSUME TypeOK, ExecutorSound, OrderlySound, [OrderlyNext]_vars
  PROVE  \A r \in Reqs : Active(r)' => HandlerOrderly(req[r])'
<1> USE DEF TypeOK
<1>1. /\ OneAtATime
      /\ \A r \in Reqs : Active(r) => HandlerOrderly(req[r])
  BY DEF OrderlySound
<1>2. ASSUME NEW r \in Reqs, Continue(r) \/ Abort(r), Active(r)' => HandlerOrderly(req[r])'
      PROVE  \A q \in Reqs : Active(q)' => HandlerOrderly(req[q])'
  BY <1>1, <1>2, ActsAlone DEF OneAtATime, Active
<1>3. ASSUME NEW r \in Reqs, StartRun(r)
      PROVE  \A q \in Reqs : Active(q)' => HandlerOrderly(req[q])'
  <2>1. \A q \in Reqs : q # r => ~Active(q)'
    BY <1>3 DEF StartRun, OrderlySound, Active
  <2>2. /\ req'[r] = [pc |-> "drive", kind |-> "start",
                      ctx |-> EmptyContext, dec |-> NoStep]
        /\ run' = [status |-> "running", ctx |-> EmptyContext, cur |-> NoStep]
    BY <1>3 DEF StartRun
  <2>3. HandlerOrderly(req[r])'
    BY <2>2 DEF HandlerOrderly, RowAwaits, PassedItsGate
  <2>4. QED  BY <2>1, <2>3
<1>4. ASSUME NEW r \in Reqs, NEW kind \in {"approve", "reject"}, ReadRun(r, kind), Quiescent,
             run.status = "awaiting_approval"
      PROVE  \A q \in Reqs : Active(q)' => HandlerOrderly(req[q])'
  <2>1. \A q \in Reqs : q # r => ~Active(q)'
    BY <1>4 DEF ReadRun, Quiescent, Active
  <2>2. /\ req'[r] = [pc |-> "decide", kind |-> kind, ctx |-> run.ctx, dec |-> run.cur]
        /\ run' = run
    BY <1>4 DEF ReadRun
  <2>3. run.cur \in Gates /\ IsNext(run.ctx, run.cur)
    <3>1. run.cur \in Gates /\ \A i \in Steps : run.ctx[i] = "absent" <=> i >= run.cur
      BY <1>4 DEF ExecutorSound, RowSound, EndsAt
    <3>2. run.cur \in 1 .. N /\ N \in Nat
      BY <3>1 DEF Steps
    <3>3. run.ctx[run.cur] = "absent"
      BY <3>1, <3>2 DEF Steps
    <3>4. \A j \in 1 .. (run.cur - 1) : run.ctx[j] # "absent"
      BY <3>1, <3>2 DEF Steps
    <3>5. QED  BY <3>1, <3>3, <3>4 DEF IsNext
  <2>4. HandlerOrderly(req[r])'
    BY <1>4, <2>2, <2>3 DEF HandlerOrderly, RowAwaits, PassedItsGate
  <2>5. QED  BY <2>1, <2>4
<1>5. ASSUME NEW r \in Reqs, DecideTasks(r) PROVE HandlerOrderly(req[r])'
  <2>1. HandlerOrderly(req[r]) /\ req[r].pc = "decide" /\ run' = run
    BY <1>1, <1>5 DEF DecideTasks, Active
  <2>2. \/ req[r].kind = "approve" /\ Goto(r, "drive")
        \/ req[r].kind = "reject" /\ Goto(r, "save")
    BY <1>5 DEF DecideTasks
  <2>3. /\ req'[r].kind = req[r].kind
        /\ req'[r].ctx = req[r].ctx
        /\ req'[r].dec = req[r].dec
        /\ req[r].kind = "approve" => req'[r].pc = "drive"
        /\ req[r].kind # "approve" => req'[r].pc = "save"
    BY <2>2, GotoEffect DEF Phase
  <2>4. QED  BY <2>1, <2>2, <2>3 DEF HandlerOrderly, RowAwaits, PassedItsGate
<1>6. ASSUME NEW r \in Reqs, NEW i \in Steps, NEW e \in {"done", "skipped"},
             req[r].pc = "drive", IsNext(req[r].ctx, i), Record(r, i, e), run' = run,
             i = req[r].dec => e = "done"
      PROVE  HandlerOrderly(req[r])'
  <2>1. HandlerOrderly(req[r]) /\ req[r].ctx \in Contexts /\ e \in Entry
    BY <1>1, <1>6 DEF Active, Handlers, Entry
  <2>2. /\ req'[r].pc = "drive"
        /\ req'[r].kind = req[r].kind
        /\ req'[r].ctx = [req[r].ctx EXCEPT ![i] = e]
        /\ req'[r].dec = req[r].dec
    BY <1>6, <2>1, RecordEffect
  <2>3. /\ req'[r].ctx[i] = e
        /\ \A j \in Steps : j # i => req'[r].ctx[j] = req[r].ctx[j]
    BY <2>1, <2>2 DEF Contexts
  <2>4. \A j \in Steps : run.ctx[j] # "absent" => req'[r].ctx[j] = run.ctx[j]
    BY <1>6, <2>1, <2>3 DEF HandlerOrderly, IsNext
  <2>5. ASSUME req[r].kind = "approve" PROVE req'[r].ctx[req[r].dec] = "done"
                                             \/ IsNext(req'[r].ctx, req[r].dec)
    <3>1. req[r].dec \in Steps
      BY <2>1, <2>5 DEF HandlerOrderly
    <3>2. CASE req[r].ctx[req[r].dec] = "done"
      BY <1>6, <2>3, <3>1, <3>2 DEF IsNext
    <3>3. CASE IsNext(req[r].ctx, req[r].dec)
      BY <1>6, <2>1, <2>3, <3>1, <3>3, NextIsUnique
    <3>4. QED  BY <2>1, <2>5, <3>2, <3>3 DEF HandlerOrderly, PassedItsGate
  <2>6. QED
    BY <1>6, <2>1, <2>2, <2>4, <2>5 DEF HandlerOrderly, RowAwaits, PassedItsGate
<1>7. ASSUME NEW r \in Reqs,
             SkipStep(r) \/ ComputeStep(r) \/ ConnectorStep(r) \/ PassGate(r)
      PROVE  HandlerOrderly(req[r])'
  <2>1. PICK i \in Steps, e \in {"done", "skipped"} :
          /\ IsNext(req[r].ctx, i) /\ Record(r, i, e)
          /\ i = req[r].dec => e = "done"
    BY <1>7 DEF SkipStep, ComputeStep, ConnectorStep, PassGate
  <2>2. req[r].pc = "drive" /\ run' = run
    BY <1>7 DEF SkipStep, ComputeStep, ConnectorStep, PassGate
  <2>3. QED  BY <1>6, <2>1, <2>2
<1>8. ASSUME NEW r \in Reqs, LeaveEngine(r) PROVE HandlerOrderly(req[r])'
  <2>1. HandlerOrderly(req[r]) /\ req[r].pc = "drive" /\ run' = run /\ req[r].ctx \in Contexts
    BY <1>1, <1>8 DEF LeaveEngine, Active, Handlers
  <2>2. /\ req'[r].pc = "persist"
        /\ req'[r].kind = req[r].kind
        /\ req'[r].ctx = req[r].ctx
        /\ req'[r].dec = req[r].dec
    BY <1>8, GotoEffect DEF LeaveEngine, Phase
  <2>3. ASSUME req[r].kind = "approve" PROVE req[r].ctx[req[r].dec] = "done"
    <3>1. req[r].dec \in Gates /\ req[r].dec \in Steps
      BY <2>1, <2>3 DEF HandlerOrderly
    <3>2. ~IsNext(req[r].ctx, req[r].dec)
      BY <1>8, <2>1, <2>3, <3>1, NextIsUnique DEF LeaveEngine, Decides, Finished, IsNext
    <3>3. QED  BY <2>1, <2>3, <3>2 DEF HandlerOrderly, PassedItsGate
  <2>4. QED  BY <2>1, <2>2, <2>3 DEF HandlerOrderly, RowAwaits, PassedItsGate
<1>9. ASSUME NEW r \in Reqs, PersistSteps(r) PROVE HandlerOrderly(req[r])'
  <2>1. HandlerOrderly(req[r]) /\ req[r].pc = "persist" /\ run' = run
    BY <1>1, <1>9 DEF PersistSteps, Active
  <2>2. /\ req'[r].pc = "save"
        /\ req'[r].kind = req[r].kind
        /\ req'[r].ctx = req[r].ctx
        /\ req'[r].dec = req[r].dec
    BY <1>9, GotoEffect DEF PersistSteps, Phase
  <2>3. QED  BY <2>1, <2>2 DEF HandlerOrderly, RowAwaits, PassedItsGate
<1>10. ASSUME NEW r \in Reqs, SaveRun(r) PROVE HandlerOrderly(req[r])'
  <2>1. HandlerOrderly(req[r]) /\ req[r].pc = "save"
    BY <1>1, <1>10 DEF SaveRun, Active
  <2>2. PICK p \in {"emit", "task"} :
          /\ Goto(r, p)
          /\ run'.ctx = req[r].ctx
          /\ req[r].kind = "reject" => run'.status = "rejected"
          /\ req[r].kind # "reject" => run'.status \in {"awaiting_approval", "completed"}
          /\ p = "task" => run'.status = "awaiting_approval" /\ IsNext(req[r].ctx, run'.cur)
    BY <1>10 DEF SaveRun, RejectedRow, CompletedRow, PausedRow
  <2>3. /\ req'[r].pc = p
        /\ req'[r].kind = req[r].kind
        /\ req'[r].ctx = req[r].ctx
        /\ req'[r].dec = req[r].dec
    BY <2>2, GotoEffect DEF Phase
  <2>4. QED  BY <2>1, <2>2, <2>3 DEF HandlerOrderly, RowSaved, PassedItsGate
<1>11. ASSUME NEW r \in Reqs, CreateApproval(r) PROVE HandlerOrderly(req[r])'
  <2>1. HandlerOrderly(req[r]) /\ req[r].pc = "task" /\ run' = run
    BY <1>1, <1>11 DEF CreateApproval, Active
  <2>2. /\ req'[r].pc = "emit"
        /\ req'[r].kind = req[r].kind
        /\ req'[r].ctx = req[r].ctx
        /\ req'[r].dec = req[r].dec
    BY <1>11, GotoEffect DEF CreateApproval, Phase
  <2>3. QED  BY <2>1, <2>2 DEF HandlerOrderly, RowSaved, PassedItsGate
<1>12. ASSUME NEW r \in Reqs, Answer(r) \/ Abort(r) PROVE ~Active(r)'
  BY <1>12, GotoEffect DEF Answer, Abort, Active, Phase
<1>13. CASE UNCHANGED vars
  BY <1>1, <1>13 DEF vars, Active, HandlerOrderly, RowAwaits, RowSaved, PassedItsGate
<1>14. ASSUME NEW r \in Reqs, Continue(r) \/ Abort(r)
       PROVE  \A q \in Reqs : Active(q)' => HandlerOrderly(req[q])'
  <2>1. Active(r)' => HandlerOrderly(req[r])'
    BY <1>14, <1>5, <1>7, <1>8, <1>9, <1>10, <1>11, <1>12 DEF Continue
  <2>2. QED  BY <1>2, <1>14, <2>1
<1>15. QED
  BY <1>3, <1>4, <1>13, <1>14 DEF OrderlyNext

(* What a handler at work has in memory it keeps, whatever is done. *)
LEMMA MemoryKept ==
  ASSUME TypeOK, ExecutorSound, [OrderlyNext]_vars, NEW r \in Reqs, Active(r),
         NEW i \in Steps, req[r].ctx[i] # "absent"
  PROVE  req'[r].ctx[i] = req[r].ctx[i]
<1>1. req[r].kind # "none"
  BY DEF ExecutorSound, HandlerSound, Active
<1>2. Keeps(r)
  BY OrderlyStepIsStep, StepKeeps DEF ExecutorSound, HandlersSound
<1>3. QED  BY <1>1, <1>2 DEF Keeps

(* While no handler dies, no call is repeated: the step of a call that was made is
   in the row, or with the one handler that will put it there. *)
LEMMA EffectsStayKept ==
  ASSUME TypeOK, ExecutorSound, OrderlySound, [OrderlyNext]_vars, aborts' = 0
  PROVE  (EffectsAtMostOnce /\ EffectsKept)'
<1> USE DEF TypeOK
<1>1. aborts = 0
  BY DEF OrderlyNext, StartRun, ReadRun, Continue, DecideTasks, SkipStep, ComputeStep,
     ConnectorStep, PassGate, LeaveEngine, PersistSteps, SaveRun, CreateApproval, Answer,
     Abort, vars
<1>2. /\ OneAtATime
      /\ \A r \in Reqs : Active(r) => HandlerOrderly(req[r])
      /\ EffectsAtMostOnce
      /\ EffectsKept
  BY <1>1 DEF OrderlySound
<1>3. ASSUME effects' = effects, run' = run, NEW r \in Reqs, Active(r), Active(r)'
      PROVE  (EffectsAtMostOnce /\ EffectsKept)'
  <2>1. ASSUME NEW i \in Connectors, effects[i] > 0
        PROVE  run.ctx[i] # "absent" \/ req'[r].ctx[i] # "absent"
    <3>1. i \in Steps
      OBVIOUS
    <3>2. CASE run.ctx[i] # "absent"
      BY <3>2
    <3>3. CASE \E q \in Reqs : Active(q) /\ req[q].ctx[i] # "absent"
      <4>1. req[r].ctx[i] # "absent"
        BY <1>2, <1>3, <3>3 DEF OneAtATime
      <4>2. QED  BY <1>3, <3>1, <4>1, MemoryKept
    <3>4. QED  BY <1>2, <2>1, <3>2, <3>3 DEF EffectsKept
  <2>2. QED  BY <1>2, <1>1, <1>3, <2>1 DEF EffectsAtMostOnce, EffectsKept
<1>4. ASSUME NEW r \in Reqs, StartRun(r) PROVE (EffectsAtMostOnce /\ EffectsKept)'
  <2>1. \A q \in Reqs : ~Active(q)
    BY <1>4 DEF StartRun, OrderlySound, Active
  <2>2. \A i \in Connectors : run.ctx[i] = "absent"
    BY <1>4 DEF StartRun, ExecutorSound, RowSound, EmptyContext
  <2>3. \A i \in Connectors : ~(effects[i] > 0)
    BY <1>2, <2>1, <2>2 DEF EffectsKept
  <2>4. effects' = effects
    BY <1>4 DEF StartRun
  <2>5. QED  BY <2>3, <2>4 DEF EffectsAtMostOnce, EffectsKept
<1>5. ASSUME NEW r \in Reqs, NEW kind \in {"approve", "reject"}, ReadRun(r, kind), Quiescent
      PROVE  (EffectsAtMostOnce /\ EffectsKept)'
  <2>1. effects' = effects /\ run' = run
    BY <1>5 DEF ReadRun
  <2>2. \A i \in Connectors : effects[i] > 0 => run.ctx[i] # "absent"
    BY <1>2, <1>5 DEF EffectsKept, Quiescent
  <2>3. QED  BY <1>1, <1>2, <2>1, <2>2 DEF EffectsAtMostOnce, EffectsKept
<1>6. ASSUME NEW r \in Reqs, ConnectorStep(r) PROVE (EffectsAtMostOnce /\ EffectsKept)'
  <2>1. PICK i \in Connectors :
          /\ IsNext(req[r].ctx, i) /\ Record(r, i, "done")
          /\ effects' = [effects EXCEPT ![i] = @ + 1] \/ effects' = effects
    BY <1>6 DEF ConnectorStep
  <2>2. Active(r) /\ Active(r)' /\ run' = run
    BY <1>6, <2>1, RecordEffect DEF ConnectorStep, Active, Entry
  <2>3. effects[i] = 0
    <3>1. run.ctx[i] = "absent"
      BY <1>2, <2>1, <2>2 DEF HandlerOrderly, IsNext
    <3>2. \A q \in Reqs : Active(q) => req[q].ctx[i] = "absent"
      BY <1>2, <2>1, <2>2 DEF OneAtATime, IsNext
    <3>3. ~(effects[i] > 0)
      BY <1>2, <3>1, <3>2 DEF EffectsKept
    <3>4. QED  BY <3>3
  <2>4. CASE effects' = effects
    BY <1>3, <2>2, <2>4
  <2>5. CASE effects' = [effects EXCEPT ![i] = @ + 1]
    <3>1. effects'[i] = 1 /\ \A j \in Connectors : j # i => effects'[j] = effects[j]
      BY <2>3, <2>5
    <3>2. req'[r].ctx[i] # "absent"
      <4>1. req'[r].ctx = [req[r].ctx EXCEPT ![i] = "done"] /\ req[r].ctx \in Contexts
        BY <2>1, RecordEffect DEF Entry, Handlers
      <4>2. QED  BY <4>1 DEF Contexts
    <3>3. ASSUME NEW j \in Connectors, j # i, effects[j] > 0
          PROVE  run.ctx[j] # "absent" \/ req'[r].ctx[j] # "absent"
      <4>1. CASE run.ctx[j] # "absent"
        BY <4>1
      <4>2. CASE \E q \in Reqs : Active(q) /\ req[q].ctx[j] # "absent"
        <5>1. j \in Steps /\ req[r].ctx[j] # "absent"
          BY <1>2, <2>2, <4>2 DEF OneAtATime
        <5>2. QED  BY <2>2, <5>1, MemoryKept
      <4>3. QED  BY <1>2, <3>3, <4>1, <4>2 DEF EffectsKept
    <3>4. EffectsAtMostOnce'
      BY <1>1, <1>2, <3>1 DEF EffectsAtMostOnce
    <3>5. EffectsKept'
      BY <2>2, <3>1, <3>2, <3>3 DEF EffectsKept
    <3>6. QED  BY <3>4, <3>5
  <2>6. QED  BY <2>1, <2>4, <2>5
<1>7. ASSUME NEW r \in Reqs, SaveRun(r) PROVE (EffectsAtMostOnce /\ EffectsKept)'
  <2>1. Active(r) /\ effects' = effects /\ run'.ctx = req[r].ctx
    BY <1>7 DEF SaveRun, Active, RejectedRow, CompletedRow, PausedRow
  <2>2. \A i \in Connectors : effects[i] > 0 => run'.ctx[i] # "absent"
    BY <1>2, <2>1 DEF EffectsKept, OneAtATime, HandlerOrderly
  <2>3. QED  BY <1>1, <1>2, <2>1, <2>2 DEF EffectsAtMostOnce, EffectsKept
<1>8. ASSUME NEW r \in Reqs, Answer(r) PROVE (EffectsAtMostOnce /\ EffectsKept)'
  <2>1. Active(r) /\ effects' = effects /\ run' = run
    BY <1>8 DEF Answer, Active
  <2>2. run.ctx = req[r].ctx
    BY <1>2, <1>8, <2>1 DEF Answer, HandlerOrderly, RowSaved
  <2>3. \A i \in Connectors : effects[i] > 0 => run.ctx[i] # "absent"
    BY <1>2, <2>1, <2>2 DEF EffectsKept, OneAtATime
  <2>4. QED  BY <1>1, <1>2, <2>1, <2>3 DEF EffectsAtMostOnce, EffectsKept
<1>9. ASSUME NEW r \in Reqs,
             SkipStep(r) \/ ComputeStep(r) \/ PassGate(r)
      PROVE (EffectsAtMostOnce /\ EffectsKept)'
  <2>1. PICK i \in Steps, e \in Entry : Record(r, i, e)
    BY <1>9 DEF SkipStep, ComputeStep, PassGate, Entry
  <2>2. req[r].pc = "drive" /\ effects' = effects /\ run' = run
    BY <1>9 DEF SkipStep, ComputeStep, PassGate
  <2>3. Active(r) /\ Active(r)'
    BY <2>1, <2>2, RecordEffect DEF Active
  <2>4. QED  BY <1>3, <2>2, <2>3
<1>10. ASSUME NEW r \in Reqs,
              DecideTasks(r) \/ LeaveEngine(r) \/ PersistSteps(r) \/ CreateApproval(r)
       PROVE (EffectsAtMostOnce /\ EffectsKept)'
  <2>1. PICK p \in {"drive", "persist", "save", "emit"} : Goto(r, p)
    BY <1>10 DEF DecideTasks, LeaveEngine, PersistSteps, CreateApproval
  <2>2. Active(r) /\ effects' = effects /\ run' = run
    BY <1>10 DEF DecideTasks, LeaveEngine, PersistSteps, CreateApproval, Active
  <2>3. Active(r)'
    BY <2>1, GotoEffect DEF Active, Phase
  <2>4. QED  BY <1>3, <2>2, <2>3
<1>11. ASSUME NEW r \in Reqs, Abort(r) PROVE FALSE
  BY <1>1, <1>11 DEF Abort
<1>12. CASE UNCHANGED vars
  BY <1>1, <1>2, <1>12 DEF vars, EffectsAtMostOnce, EffectsKept, Active
<1>13. QED
  BY <1>4, <1>5, <1>6, <1>7, <1>8, <1>9, <1>10, <1>11, <1>12 DEF OrderlyNext, Continue

(* While no handler dies, the task of a gate is pending exactly while the run
   waits there and no handler has begun to decide it. *)
LEMMA InboxStaysInStep ==
  ASSUME TypeOK, ExecutorSound, OrderlySound, [OrderlyNext]_vars, aborts' = 0
  PROVE  InboxInStep'
<1> USE DEF TypeOK
<1>1. aborts = 0
  BY DEF OrderlyNext, StartRun, ReadRun, Continue, DecideTasks, SkipStep, ComputeStep,
     ConnectorStep, PassGate, LeaveEngine, PersistSteps, SaveRun, CreateApproval, Answer,
     Abort, vars
<1>2. /\ OneAtATime
      /\ \A r \in Reqs : Active(r) => HandlerOrderly(req[r])
      /\ InboxInStep
  BY <1>1 DEF OrderlySound
<1>3. ASSUME NEW r \in Reqs, Active(r), req[r].pc \notin {"decide", "emit"}
      PROVE  \A g \in Gates : tasks[g]["pending"] = 0
  BY <1>2, <1>3 DEF InboxInStep
<1>4. ASSUME \A g \in Gates : tasks'[g]["pending"] = 0,
             \/ run'.status # "awaiting_approval"
             \/ \E r \in Reqs : Active(r)' /\ req'[r].pc \notin {"decide", "emit"}
      PROVE  InboxInStep'
  BY <1>4 DEF InboxInStep
<1>5. ASSUME NEW r \in Reqs, StartRun(r) PROVE InboxInStep'
  <2>1. tasks' = tasks /\ run.status = "none" /\ run'.status = "running"
    BY <1>5 DEF StartRun
  <2>2. \A g \in Gates : tasks[g]["pending"] = 0
    BY <1>2, <2>1 DEF InboxInStep
  <2>3. QED  BY <1>4, <2>1, <2>2
<1>6. ASSUME NEW r \in Reqs, NEW kind \in {"approve", "reject"}, ReadRun(r, kind), Quiescent
      PROVE  InboxInStep'
  <2>1. tasks' = tasks /\ run' = run
    BY <1>6 DEF ReadRun
  <2>2. /\ \A q \in Reqs : Active(q) => req[q].pc \in {"decide", "emit"}
        /\ \A q \in Reqs : Active(q)' => req'[q].pc \in {"decide", "emit"}
    BY <1>6 DEF ReadRun, Quiescent, Active
  <2>3. QED  BY <1>2, <2>1, <2>2 DEF InboxInStep
<1>7. ASSUME NEW r \in Reqs, DecideTasks(r) PROVE InboxInStep'
  <2>1. Active(r) /\ HandlerOrderly(req[r])
    BY <1>2, <1>7 DEF DecideTasks, Active
  <2>2. req[r].kind # "start" /\ run.cur = req[r].dec
    BY <1>7, <2>1 DEF DecideTasks, HandlerOrderly, RowAwaits
  <2>3. ASSUME NEW g \in Gates PROVE tasks'[g]["pending"] = 0
    <3>1. CASE g = req[r].dec
      BY <1>7, <2>3, <3>1 DEF DecideTasks, DecidedTasks, AllTasks, TaskStatus
    <3>2. CASE g # req[r].dec
      <4>1. tasks'[g] = tasks[g]
        BY <1>7, <2>3, <3>2 DEF DecideTasks, DecidedTasks
      <4>2. QED  BY <1>2, <2>2, <2>3, <3>2, <4>1 DEF InboxInStep
    <3>3. QED  BY <3>1, <3>2
  <2>4. PICK p \in {"drive", "save"} : Goto(r, p)
    BY <1>7 DEF DecideTasks
  <2>5. req'[r].pc = p
    BY <2>4, GotoEffect DEF Phase
  <2>6. QED  BY <1>4, <2>3, <2>5 DEF Active
<1>8. ASSUME NEW r \in Reqs,
             \/ SkipStep(r) \/ ComputeStep(r) \/ ConnectorStep(r) \/ PassGate(r)
             \/ LeaveEngine(r) \/ PersistSteps(r)
      PROVE  InboxInStep'
  <2>1. req[r].pc \in {"drive", "persist"} /\ tasks' = tasks
    BY <1>8 DEF SkipStep, ComputeStep, ConnectorStep, PassGate, LeaveEngine, PersistSteps
  <2>2. \/ \E i \in Steps, e \in Entry : Record(r, i, e)
        \/ \E p \in {"persist", "save"} : Goto(r, p)
    BY <1>8 DEF SkipStep, ComputeStep, ConnectorStep, PassGate, LeaveEngine, PersistSteps, Entry
  <2>3. req'[r].pc \in {"drive", "persist", "save"}
    BY <2>1, <2>2, GotoEffect, RecordEffect DEF Phase
  <2>4. QED  BY <1>3, <1>4, <2>1, <2>3 DEF Active
<1>9. ASSUME NEW r \in Reqs, SaveRun(r) PROVE InboxInStep'
  <2>1. req[r].pc = "save" /\ tasks' = tasks
    BY <1>9 DEF SaveRun
  <2>2. \/ run'.status # "awaiting_approval"
        \/ Goto(r, "task")
    BY <1>9 DEF SaveRun, RejectedRow, CompletedRow, PausedRow
  <2>3. Goto(r, "task") => req'[r].pc = "task"
    BY GotoEffect DEF Phase
  <2>4. QED  BY <1>3, <1>4, <2>1, <2>2, <2>3 DEF Active
<1>10. ASSUME NEW r \in Reqs, CreateApproval(r) PROVE InboxInStep'
  <2>1. req[r].pc = "task" /\ run' = run /\ Active(r) /\ HandlerOrderly(req[r])
    BY <1>2, <1>10 DEF CreateApproval, Active
  <2>2. PICK g \in Gates :
          IsNext(req[r].ctx, g) /\ tasks' = [tasks EXCEPT ![g]["pending"] = @ + 1]
    BY <1>10 DEF CreateApproval
  <2>3. run.status = "awaiting_approval" /\ IsNext(req[r].ctx, run.cur) /\ run.cur # NoStep
    BY <2>1 DEF HandlerOrderly, ExecutorSound, RowSound
  <2>4. run.cur = g
    <3>1. run.cur \in Steps /\ g \in Steps /\ req[r].ctx \in Contexts
      BY <2>3 DEF Rows, Handlers
    <3>2. QED  BY <2>2, <2>3, <3>1, NextIsUnique
  <2>5. \A f \in Gates : tasks'[f]["pending"] = IF f = g THEN 1 ELSE 0
    <3>1. \A f \in Gates : tasks[f]["pending"] = 0
      BY <1>3, <2>1
    <3>2. QED  BY <2>2, <3>1 DEF TaskStatus
  <2>6. \A q \in Reqs : Active(q)' => req'[q].pc = "emit"
    BY <1>2, <1>10, <2>1, GotoEffect DEF CreateApproval, OneAtATime, Active, Phase
  <2>7. QED  BY <2>1, <2>3, <2>4, <2>5, <2>6 DEF InboxInStep
<1>11. ASSUME NEW r \in Reqs, Answer(r) PROVE InboxInStep'
  <2>1. req[r].pc = "emit" /\ Active(r) /\ run' = run /\ tasks' = tasks
    BY <1>11 DEF Answer, Active
  <2>2. /\ \A q \in Reqs : Active(q) => req[q].pc \in {"decide", "emit"}
        /\ \A q \in Reqs : Active(q)' => req'[q].pc \in {"decide", "emit"}
    BY <1>2, <1>11, <2>1, GotoEffect DEF Answer, OneAtATime, Active, Phase
  <2>3. QED  BY <1>2, <2>1, <2>2 DEF InboxInStep
<1>12. ASSUME NEW r \in Reqs, Abort(r) PROVE FALSE
  BY <1>1, <1>12 DEF Abort
<1>13. CASE UNCHANGED vars
  BY <1>2, <1>13 DEF vars, InboxInStep, Active
<1>14. QED
  BY <1>5, <1>6, <1>7, <1>8, <1>9, <1>10, <1>11, <1>12, <1>13 DEF OrderlyNext, Continue

(* An answered request is answered for good, and what its audit event tells stays
   true of the row. *)
LEMMA AuditStaysTrue ==
  ASSUME TypeOK, ExecutorSound, OrderlySound, [OrderlyNext]_vars
  PROVE  /\ \A r \in audit' :
              req'[r].pc = "done" /\ (req'[r].kind = "approve" => req'[r].dec \in Gates)
         /\ AuditAgreesWithRun'
<1> USE DEF TypeOK
<1>1. /\ OneAtATime
      /\ \A r \in Reqs : Active(r) => HandlerOrderly(req[r])
      /\ \A r \in audit :
           req[r].pc = "done" /\ (req[r].kind = "approve" => req[r].dec \in Gates)
      /\ AuditAgreesWithRun
  BY DEF OrderlySound
<1>2. ASSUME NEW r \in Reqs, req[r].pc # "done", audit' = audit,
             \A q \in Reqs : q # r => req'[q] = req[q],
             \A q \in audit : req[q].kind = "reject" => run'.status = run.status,
             \A g \in Gates : run.ctx[g] = "done" => run'.ctx[g] = "done"
      PROVE  /\ \A q \in audit' :
                  req'[q].pc = "done" /\ (req'[q].kind = "approve" => req'[q].dec \in Gates)
             /\ AuditAgreesWithRun'
  <2>1. \A q \in audit : q \in Reqs /\ req'[q] = req[q]
    BY <1>1, <1>2
  <2>2. QED  BY <1>1, <1>2, <2>1 DEF AuditAgreesWithRun
<1>3. ASSUME NEW r \in Reqs, StartRun(r)
      PROVE  audit' = {}
  <2>1. audit' = audit /\ \A q \in Reqs : req[q].pc = "idle"
    BY <1>3 DEF StartRun, OrderlySound
  <2>2. QED  BY <1>1, <2>1
<1>4. ASSUME NEW r \in Reqs, NEW kind \in {"approve", "reject"}, ReadRun(r, kind)
      PROVE  /\ \A q \in audit' :
                  req'[q].pc = "done" /\ (req'[q].kind = "approve" => req'[q].dec \in Gates)
             /\ AuditAgreesWithRun'
  BY <1>2, <1>4 DEF ReadRun
<1>5. ASSUME NEW r \in Reqs, Answer(r)
      PROVE  /\ \A q \in audit' :
                  req'[q].pc = "done" /\ (req'[q].kind = "approve" => req'[q].dec \in Gates)
             /\ AuditAgreesWithRun'
  <2>1. /\ Active(r) /\ req[r].pc = "emit" /\ HandlerOrderly(req[r])
        /\ run' = run
        /\ audit' \subseteq audit \cup {r}
    BY <1>1, <1>5 DEF Answer, Active
  <2>2. /\ req'[r].pc = "done"
        /\ req'[r].kind = req[r].kind
        /\ req'[r].dec = req[r].dec
        /\ \A q \in Reqs : q # r => req'[q] = req[q]
    BY <1>5, GotoEffect DEF Answer, Phase
  <2>3. /\ req[r].kind = "reject" => run.status = "rejected"
        /\ req[r].kind = "approve" => req[r].dec \in Gates /\ run.ctx[req[r].dec] = "done"
    BY <2>1 DEF HandlerOrderly, RowSaved, PassedItsGate
  <2>4. QED  BY <1>1, <2>1, <2>2, <2>3 DEF AuditAgreesWithRun
<1>6. ASSUME NEW r \in Reqs, SaveRun(r)
      PROVE  /\ \A q \in audit' :
                  req'[q].pc = "done" /\ (req'[q].kind = "approve" => req'[q].dec \in Gates)
             /\ AuditAgreesWithRun'
  <2>1. Active(r) /\ req[r].pc = "save" /\ HandlerOrderly(req[r]) /\ audit' = audit
    BY <1>1, <1>6 DEF SaveRun, Active
  <2>2. \A q \in Reqs : q # r => req'[q] = req[q]
    BY <1>6, ActsAlone DEF Continue
  <2>3. \A q \in audit : req[q].kind # "reject"
    BY <1>1, <2>1 DEF HandlerOrderly, RowAwaits, AuditAgreesWithRun
  <2>4. run'.ctx = req[r].ctx
    BY <1>6 DEF SaveRun, RejectedRow, CompletedRow, PausedRow
  <2>5. \A g \in Gates : run.ctx[g] = "done" => run'.ctx[g] = "done"
    BY <2>1, <2>4 DEF HandlerOrderly
  <2>6. QED  BY <1>2, <2>1, <2>2, <2>3, <2>5
<1>7. ASSUME NEW r \in Reqs,
             \/ DecideTasks(r) \/ SkipStep(r) \/ ComputeStep(r) \/ ConnectorStep(r)
             \/ PassGate(r) \/ LeaveEngine(r) \/ PersistSteps(r) \/ CreateApproval(r)
             \/ Abort(r)
      PROVE  /\ \A q \in audit' :
                  req'[q].pc = "done" /\ (req'[q].kind = "approve" => req'[q].dec \in Gates)
             /\ AuditAgreesWithRun'
  <2>1. run' = run /\ audit' = audit
    BY <1>7 DEF DecideTasks, SkipStep, ComputeStep, ConnectorStep, PassGate, LeaveEngine,
       PersistSteps, CreateApproval, Abort
  <2>2. Active(r) /\ \A q \in Reqs : q # r => req'[q] = req[q]
    BY <1>7, ActsAlone DEF Continue
  <2>3. QED  BY <1>2, <2>1, <2>2 DEF Active
<1>8. CASE UNCHANGED vars
  BY <1>1, <1>8 DEF vars, AuditAgreesWithRun
<1>9. QED
  BY <1>3, <1>4, <1>5, <1>6, <1>7, <1>8 DEF OrderlyNext, Continue, AuditAgreesWithRun

-----------------------------------------------------------------------------
(* The strengthening is an invariant of orderly use, deaths of handlers included. *)
THEOREM OrderlyAlwaysSound == OrderlySpec => []OrderlySound
<1>1. TypeOK /\ Init => OrderlySound
  BY DEF Init, OrderlySound, OneAtATime, Active, EffectsAtMostOnce, EffectsKept, InboxInStep,
         AuditAgreesWithRun, TypeOK, TaskStatus
<1>2. TypeOK /\ ExecutorSound /\ OrderlySound /\ [OrderlyNext]_vars => OrderlySound'
  <2> SUFFICES ASSUME TypeOK, ExecutorSound, OrderlySound, [OrderlyNext]_vars
               PROVE  OrderlySound'
    OBVIOUS
  <2>1. OneAtATime' /\ (run'.status = "none" => \A r \in Reqs : req'[r].pc = "idle")
    BY StaysOneAtATime
  <2>2. \A r \in Reqs : Active(r)' => HandlerOrderly(req[r])'
    BY HandlersStayOrderly
  <2>3. aborts' = 0 => (EffectsAtMostOnce /\ EffectsKept /\ InboxInStep)'
    BY EffectsStayKept, InboxStaysInStep
  <2>4. /\ \A r \in audit' :
             req'[r].pc = "done" /\ (req'[r].kind = "approve" => req'[r].dec \in Gates)
        /\ AuditAgreesWithRun'
    BY AuditStaysTrue
  <2>5. QED  BY <2>1, <2>2, <2>3, <2>4 DEF OrderlySound
<1>3. QED
  BY <1>1, <1>2, OrderlyIsSpec, TypeCorrect, ExecutorAlwaysSound, PTL DEF OrderlySpec

(* While no handler dies, a run carries out each connector step at most once, however
   often it pauses and is resumed. *)
THEOREM EffectsAlwaysAtMostOnce == OrderlySpec => []EffectsAtMostOnce
<1>1. OrderlySound => EffectsAtMostOnce
  BY DEF OrderlySound, EffectsAtMostOnce
<1>2. QED  BY <1>1, OrderlyAlwaysSound, PTL

(* While no handler dies, the inbox between requests shows the run: one pending task,
   at the gate it waits for. *)
THEOREM InboxAlwaysMirrorsRun == OrderlySpec => []InboxMirrorsRun
<1>1. OrderlySound => InboxMirrorsRun
  BY DEF OrderlySound, InboxInStep, InboxMirrorsRun, Quiescent
<1>2. QED  BY <1>1, OrderlyAlwaysSound, PTL

(* What the audit trail tells of a decision stays true of the row. *)
THEOREM AuditAlwaysAgrees == OrderlySpec => []AuditAgreesWithRun
<1>1. OrderlySound => AuditAgreesWithRun
  BY DEF OrderlySound
<1>2. QED  BY <1>1, OrderlyAlwaysSound, PTL

-----------------------------------------------------------------------------
(* A handler resumes behind the gate it was sent to, so the next pause is at a later
   gate: _save_run writes what RunLifecycle allows. *)
LEMMA SaveFollowsLifecycle ==
  ASSUME TypeOK, ExecutorSound, OrderlySound, NEW r \in Reqs, SaveRun(r)
  PROVE  Lifecycle!LifecycleNext
<1> USE DEF TypeOK
<1>1. HandlerOrderly(req[r]) /\ req[r].pc = "save"
  BY DEF SaveRun, OrderlySound, Active
<1>2. HandlerSound(req[r]) /\ req[r].ctx \in Contexts /\ req[r].kind \in Kind
  BY DEF ExecutorSound, Handlers
<1>3. /\ RowAwaits(req[r])
      /\ req[r].kind \in {"start", "approve", "reject"}
      /\ req[r].kind # "start" => req[r].dec \in Gates
  BY <1>1, <1>2 DEF HandlerOrderly, HandlerSound, Kind
<1>4. Lifecycle!Live
  BY <1>3 DEF RowAwaits, Lifecycle!Live
<1>5. CASE req[r].kind = "reject" /\ run' = RejectedRow(req[r])
  BY <1>3, <1>5 DEF RowAwaits, RejectedRow, Lifecycle!LifecycleNext, Lifecycle!Reject
<1>6. CASE run' = CompletedRow(req[r])
  BY <1>4, <1>6 DEF CompletedRow, Lifecycle!LifecycleNext, Lifecycle!Complete
<1>7. ASSUME NEW g \in Gates, req[r].kind # "reject", IsNext(req[r].ctx, g),
             run' = PausedRow(req[r], g)
      PROVE  Lifecycle!LifecycleNext
  <2>1. g > run.cur
    <3>1. CASE req[r].kind = "start"
      BY <1>3, <3>1 DEF RowAwaits, Steps
    <3>2. CASE req[r].kind = "approve"
      <4>1. run.cur \in Gates /\ req[r].ctx[run.cur] = "done"
        BY <1>1, <1>3, <3>2 DEF RowAwaits, HandlerOrderly, PassedItsGate
      <4>2. EndsAt(req[r].ctx, g)
        BY <1>2, <1>7, NextIsEnd DEF HandlerSound
      <4>3. run.cur \in Steps /\ g \in Steps
        BY <4>1
      <4>4. ~(run.cur >= g)
        BY <4>1, <4>2, <4>3 DEF EndsAt, Steps
      <4>5. run.cur \in Nat /\ g \in Nat
        BY <4>3 DEF Steps
      <4>6. QED  BY <4>4, <4>5
    <3>3. QED  BY <1>3, <1>7, <3>1, <3>2
  <2>2. QED
    BY <1>4, <1>7, <2>1 DEF PausedRow, Lifecycle!LifecycleNext, Lifecycle!Pause
<1>8. QED
  BY <1>5, <1>6, <1>7 DEF SaveRun

(* The refinement: seen through its row, a run in orderly use is a run of
   RunLifecycle, for every definition and whichever handlers die. *)
THEOREM LifecycleImplemented == OrderlySpec => ImplementsLifecycle
<1>1. Init => Lifecycle!LifecycleInit
  BY DEF Init, Lifecycle!LifecycleInit
<1>2. TypeOK /\ ExecutorSound /\ OrderlySound /\ [OrderlyNext]_vars
        => [Lifecycle!LifecycleNext]_(Lifecycle!lifecycleVars)
  <2> SUFFICES ASSUME TypeOK, ExecutorSound, OrderlySound, [OrderlyNext]_vars,
                      run' # run
               PROVE  Lifecycle!LifecycleNext
    BY DEF Lifecycle!lifecycleVars
  <2>1. ASSUME NEW r \in Reqs, StartRun(r) PROVE Lifecycle!LifecycleNext
    BY <2>1 DEF StartRun, Lifecycle!LifecycleNext, Lifecycle!Create
  <2>2. \E r \in Reqs : StartRun(r) \/ SaveRun(r)
    BY DEF OrderlyNext, Continue, ReadRun, DecideTasks, SkipStep, ComputeStep, ConnectorStep,
       PassGate, LeaveEngine, PersistSteps, CreateApproval, Answer, Abort, vars
  <2>3. QED  BY <2>1, <2>2, SaveFollowsLifecycle
<1>3. QED
  BY <1>1, <1>2, OrderlyIsSpec, TypeCorrect, ExecutorAlwaysSound, OrderlyAlwaysSound, PTL
     DEF OrderlySpec, ImplementsLifecycle, Lifecycle!LifecycleSpec
=============================================================================
