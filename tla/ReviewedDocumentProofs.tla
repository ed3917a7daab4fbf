----------------------- MODULE ReviewedDocumentProofs -----------------------
(***************************************************************************)
(* Proofs about a document that is uploaded and reviewed at the same time,   *)
(* for any number of chunks, attempts and deciders.  First DocumentReview on *)
(* its own: its types, its inductive invariants ReviewSound and              *)
(* StatusSettled, what follows from them, and that it implements             *)
(* ReviewOutcome.  Then the upload and the composition: what is said of the  *)
(* document is true, no summary is made of a part of it, and the review      *)
(* keeps what it promised.                                                  *)
(***************************************************************************)
EXTENDS ReviewedDocument, FiniteSetTheorems, TLAPS

AttemptMaps == [Activities -> [Tries -> AttemptState]]

-----------------------------------------------------------------------------
(* One attempt changes its state and every other one keeps its own. *)
LEMMA BecomesEffect ==
  ASSUME attempts \in AttemptMaps, NEW a \in Activities, NEW n \in Tries,
         NEW s \in AttemptState, Becomes(a, n, s)
  PROVE  /\ attempts' \in AttemptMaps
         /\ attempts'[a][n] = s
         /\ \A b \in Activities, m \in Tries :
              b # a \/ m # n => attempts'[b][m] = attempts[b][m]
<1>1. attempts' = [attempts EXCEPT ![a] = [attempts[a] EXCEPT ![n] = s]]
  BY DEF Becomes, AttemptMaps
<1>2. [attempts[a] EXCEPT ![n] = s] \in [Tries -> AttemptState]
  BY DEF AttemptMaps
<1>3. QED  BY <1>1, <1>2 DEF AttemptMaps

(* A finished attempt of summarize hands over to the first one of set_status. *)
LEMMA HandOverEffect ==
  ASSUME attempts \in AttemptMaps, NEW n \in Tries, Summarized(n)
  PROVE  /\ attempts' \in AttemptMaps
         /\ attempts'["record"] = attempts["record"]
         /\ \A m \in Tries : m # 1 => attempts'["set_status"][m] = attempts["set_status"][m]
<1> USE ReviewAssumption
<1>1. 1 \in Tries
  BY DEF Tries
<1> DEFINE s == [attempts["summarize"] EXCEPT ![n] = "over"]
           t == [attempts["set_status"] EXCEPT ![1] = "running"]
<1>2. s \in [Tries -> AttemptState] /\ t \in [Tries -> AttemptState]
  BY <1>1 DEF AttemptMaps, AttemptState, Activities
<1>3. attempts' = [attempts EXCEPT !["summarize"] = s, !["set_status"] = t]
  BY DEF Summarized, AttemptMaps, Activities
<1>4. \A m \in Tries : m # 1 => t[m] = attempts["set_status"][m]
  BY DEF AttemptMaps, Activities
<1> HIDE DEF s, t
<1>5. QED  BY <1>2, <1>3, <1>4 DEF AttemptMaps, Activities

-----------------------------------------------------------------------------
(* With a sound state, every step keeps the types. *)
LEMMA TypesKept ==
  ASSUME TypeOK, ReviewSound, [Next]_vars
  PROVE  TypeOK'
<1> USE DEF TypeOK, AttemptMaps
<1>0. 1 \in Tries
  BY ReviewAssumption DEF Tries
<1>1. CASE InsertReview
  BY <1>1 DEF InsertReview, Rows
<1>2. CASE StartWorkflow
  <2>1. attempts' \in AttemptMaps
    <3>1. CASE Becomes("summarize", 1, "running")
      BY <1>0, <3>1, BecomesEffect DEF Activities, AttemptState
    <3>2. CASE UNCHANGED attempts
      BY <3>2
    <3>3. QED  BY <1>2, <3>1, <3>2 DEF StartWorkflow, Becomes
  <2>2. wf' \in Workflows
    BY <1>0, <1>2 DEF StartWorkflow, Workflows, Activities
  <2>3. QED  BY <1>2, <2>1, <2>2 DEF StartWorkflow
<1>3. ASSUME NEW d \in Deciders, CheckReview(d) PROVE TypeOK'
  BY <1>3 DEF CheckReview, Requests
<1>4. ASSUME NEW d \in Deciders, Signal(d) PROVE TypeOK'
  <2>1. wf' \in Workflows
    BY <1>4 DEF Signal, Decide, Workflows
  <2>2. decider' \in [Deciders -> Requests]
    BY <1>4 DEF Signal, Requests
  <2>3. QED  BY <1>4, <2>1, <2>2 DEF Signal
<1>5. CASE Wake
  <2>1. attempts' \in AttemptMaps
    BY <1>0, <1>5, BecomesEffect DEF Wake, Becomes, Activities, AttemptState
  <2>2. wf' \in Workflows
    BY <1>0, <1>5 DEF Wake, Workflows, Activities
  <2>3. QED  BY <1>5, <2>1, <2>2 DEF Wake
<1>6. ASSUME NEW n \in Tries, WriteStatus(n) PROVE TypeOK'
  <2>1. attempts' \in AttemptMaps
    BY <1>6, BecomesEffect DEF WriteStatus, Activities, AttemptState
  <2>2. QED  BY <1>6, <2>1 DEF WriteStatus, Rows
<1>7. ASSUME NEW n \in Tries, WriteDecision(n) PROVE TypeOK'
  <2>1. attempts' \in AttemptMaps
    BY <1>7, BecomesEffect DEF WriteDecision, Activities, AttemptState
  <2>2. wf.result \in Deciders
    BY <1>7 DEF WriteDecision, Is, ReviewSound, Workflows
  <2>3. decider[wf.result].verdict \in Verdicts
    BY <2>2 DEF Requests
  <2>4. row' \in Rows
    BY <1>7, <2>2, <2>3 DEF WriteDecision, Rows
  <2>5. QED  BY <1>7, <2>1, <2>4 DEF WriteDecision
<1>8. ASSUME NEW n \in Tries, EmitDecision(n) PROVE TypeOK'
  <2>1. attempts' \in AttemptMaps
    BY <1>8, BecomesEffect DEF EmitDecision, Activities, AttemptState
  <2>2. wf.result \in Deciders
    BY <1>8 DEF EmitDecision, Is, ReviewSound, Workflows
  <2>3. QED  BY <1>8, <2>1, <2>2 DEF EmitDecision
<1>9. ASSUME NEW a \in Activities, NEW n \in Tries, ReportLate(a, n) \/ Break(a, n)
      PROVE TypeOK'
  <2>1. Becomes(a, n, "over")
    BY <1>9 DEF ReportLate, Break
  <2>2. attempts' \in AttemptMaps
    BY <2>1, BecomesEffect DEF AttemptState
  <2>3. QED  BY <1>9, <2>2 DEF ReportLate, Break
<1>10. ASSUME NEW n \in Tries, Summarized(n) PROVE TypeOK'
  <2>1. attempts' \in AttemptMaps
    BY <1>10, HandOverEffect
  <2>2. wf' \in Workflows
    BY <1>0, <1>10 DEF Summarized, Workflows, Activities
  <2>3. QED  BY <1>10, <2>1, <2>2 DEF Summarized
<1>11. ASSUME NEW n \in Tries, StatusShown(n) \/ Recorded(n) PROVE TypeOK'
  <2>1. attempts' \in AttemptMaps
    BY <1>11, BecomesEffect DEF StatusShown, Recorded, Activities, AttemptState
  <2>2. wf' \in Workflows
    BY <1>11 DEF StatusShown, Recorded, Workflows, Activities
  <2>3. QED  BY <1>11, <2>1, <2>2 DEF StatusShown, Recorded
<1>12. ASSUME NEW a \in Activities, NEW n \in Tries, Retry(a, n) PROVE TypeOK'
  <2>1. n + 1 \in Tries
    BY <1>12, ReviewAssumption DEF Retry, Tries
  <2>2. attempts' \in AttemptMaps
    BY <1>12, <2>1, BecomesEffect DEF Retry, AttemptState
  <2>3. wf' \in Workflows
    BY <1>12, <2>1 DEF Retry, Workflows
  <2>4. QED  BY <1>12, <2>2, <2>3 DEF Retry
<1>13. ASSUME NEW a \in Activities, NEW n \in Tries, FailWorkflow(a, n) PROVE TypeOK'
  BY <1>13 DEF FailWorkflow, Workflows
<1>14. CASE UNCHANGED vars
  BY <1>14 DEF vars
<1>15. QED
  BY <1>1, <1>2, <1>3, <1>4, <1>5, <1>6, <1>7, <1>8, <1>9, <1>10, <1>11, <1>12,
     <1>13, <1>14 DEF Next, Work, GiveUp

-----------------------------------------------------------------------------
(* What the requests and the workflow do to the attempts of record_decision and
   to the result they were handed: nothing, but for Wake and Retry. *)

(* Steps that touch neither the row, nor the trail, nor the result, nor any
   attempt of record_decision beyond ending it, keep the state sound. *)
LEMMA SoundKeptAside ==
  ASSUME ReviewSound, TypeOK, TypeOK',
         UNCHANGED <<row, audited, decider>>,
         wf'.decision = wf.decision, wf'.result = wf.result,
         wf'.pc = "record" => wf.pc = "record",
         \A n \in Tries : \/ attempts'["record"][n] = attempts["record"][n]
                          \/ /\ attempts["record"][n] # "none"
                             /\ attempts'["record"][n] = "over"
  PROVE  ReviewSound'
BY DEF ReviewSound, AuditIsBacked

(* With the right types, every step keeps the state sound. *)
LEMMA SoundKept ==
  ASSUME TypeOK, TypeOK', ReviewSound, [Next]_vars
  PROVE  ReviewSound'
<1> USE ReviewAssumption
<1>0. /\ 1 \in Tries
      /\ "record" \in Activities
      /\ attempts \in AttemptMaps
      /\ attempts' \in AttemptMaps
  BY DEF Tries, Activities, TypeOK, AttemptMaps
<1>1. CASE InsertReview
  BY <1>1 DEF InsertReview, ReviewSound, AuditIsBacked, TypeOK, Rows
<1>2. CASE StartWorkflow
  <2>1. attempts'["record"] = attempts["record"]
    BY <1>0, <1>2 DEF StartWorkflow, AttemptMaps
  <2>2. /\ wf'.decision = wf.decision
        /\ wf'.result = wf.result
        /\ wf'.pc = "record" => wf.pc = "record"
    BY <1>2 DEF StartWorkflow, TypeOK, Workflows
  <2>3. QED  BY <1>2, <2>1, <2>2, SoundKeptAside DEF StartWorkflow
<1>3. ASSUME NEW d \in Deciders, CheckReview(d) PROVE ReviewSound'
  <2>1. UNCHANGED <<row, wf, attempts, audited>>
    BY <1>3 DEF CheckReview
  <2>2. \A q \in Deciders : decider[q].pc # "idle" => decider'[q] = decider[q]
    BY <1>3 DEF CheckReview, TypeOK
  <2>3. wf.decision # Nobody => decider'[wf.decision] = decider[wf.decision]
    BY <2>2 DEF ReviewSound, TypeOK, Workflows
  <2>4. row.by # Nobody => row.by = wf.decision
    BY DEF ReviewSound
  <2>5. QED  BY <2>1, <2>3, <2>4 DEF ReviewSound, AuditIsBacked
<1>4. ASSUME NEW d \in Deciders, Signal(d) PROVE ReviewSound'
  <2>1. UNCHANGED <<row, attempts, audited>>
    BY <1>4 DEF Signal
  <2>2. \A q \in Deciders : decider'[q].verdict = decider[q].verdict
    BY <1>4 DEF Signal, TypeOK, Requests
  <2>3. /\ decider'[d].pc \in {"accepted", "refused"}
        /\ \A q \in Deciders : q # d => decider'[q] = decider[q]
    BY <1>4 DEF Signal, TypeOK, Requests
  <2>4. /\ \/ wf'.decision = wf.decision
           \/ wf.decision = Nobody /\ wf'.decision = d
        /\ wf'.result = wf.result
        /\ wf'.pc = wf.pc
    BY <1>4 DEF Signal, Decide, TypeOK, Workflows
  <2>5. row.by \in Deciders \cup {Nobody} /\ wf.decision \in Deciders \cup {Nobody}
    BY DEF TypeOK, Rows, Workflows
  <2>6. wf'.decision # Nobody => decider'[wf'.decision].pc \in {"accepted", "refused"}
    BY <2>3, <2>4, <2>5 DEF ReviewSound
  <2>7. wf'.result # Nobody => wf'.result = wf'.decision
    BY <2>4, <2>5 DEF ReviewSound
  <2>8. row.by # Nobody => row.decision = decider'[row.by].verdict
    BY <2>2, <2>5 DEF ReviewSound
  <2>9. QED  BY <2>1, <2>4, <2>6, <2>7, <2>8 DEF ReviewSound, AuditIsBacked
<1>5. CASE Wake
  <2>1. Becomes("record", 1, "running")
    BY <1>5 DEF Wake, Becomes
  <2>2. /\ attempts'["record"][1] = "running"
        /\ \A m \in Tries : m # 1 => attempts'["record"][m] = attempts["record"][m]
    BY <1>0, <2>1, BecomesEffect DEF AttemptState
  <2>3. /\ wf'.result = wf.decision
        /\ wf'.decision = wf.decision
        /\ wf.decision # Nobody
        /\ UNCHANGED <<row, decider, audited>>
    BY <1>5 DEF Wake, TypeOK, Workflows
  <2>4. wf.result # Nobody => wf'.result = wf.result
    BY <2>3 DEF ReviewSound
  <2>5. QED  BY <2>2, <2>3, <2>4 DEF ReviewSound, AuditIsBacked
<1>6. ASSUME NEW n \in Tries, WriteStatus(n) PROVE ReviewSound'
  <2>1. \A m \in Tries : attempts'["record"][m] = attempts["record"][m]
    BY <1>0, <1>6, BecomesEffect DEF WriteStatus, AttemptState, Activities
  <2>2. row'.by = row.by /\ row'.decision = row.decision
    BY <1>6 DEF WriteStatus, TypeOK, Rows
  <2>3. QED  BY <1>6, <2>1, <2>2 DEF WriteStatus, ReviewSound, AuditIsBacked
<1>7. ASSUME NEW n \in Tries, WriteDecision(n) PROVE ReviewSound'
  <2>1. /\ attempts'["record"][n] = "written"
        /\ \A m \in Tries : m # n => attempts'["record"][m] = attempts["record"][m]
    BY <1>0, <1>7, BecomesEffect DEF WriteDecision, AttemptState, Activities
  <2>2. attempts["record"][n] # "none"
    BY <1>7 DEF WriteDecision, Is
  <2>3. row'.by = wf.result /\ row'.decision = decider[wf.result].verdict
    BY <1>7 DEF WriteDecision
  <2>4. UNCHANGED <<wf, decider, audited>>
    BY <1>7 DEF WriteDecision
  <2>5. wf.result \in Deciders
    BY <2>2 DEF ReviewSound, TypeOK, Workflows
  <2>6. \A d \in audited : d = wf.result
    BY <1>0 DEF ReviewSound, AuditIsBacked, TypeOK
  <2>7. QED  BY <2>1, <2>2, <2>3, <2>4, <2>5, <2>6 DEF ReviewSound, AuditIsBacked
<1>8. ASSUME NEW n \in Tries, EmitDecision(n) PROVE ReviewSound'
  <2>1. /\ attempts'["record"][n] = "emitted"
        /\ \A m \in Tries : m # n => attempts'["record"][m] = attempts["record"][m]
    BY <1>0, <1>8, BecomesEffect DEF EmitDecision, AttemptState, Activities
  <2>2. attempts["record"][n] = "written" /\ row.by = wf.result
    BY <1>8 DEF EmitDecision, Is, ReviewSound
  <2>3. UNCHANGED <<row, wf, decider>> /\ audited' \subseteq audited \cup {wf.result}
    BY <1>8 DEF EmitDecision
  <2>4. QED  BY <2>1, <2>2, <2>3 DEF ReviewSound, AuditIsBacked
<1>9. ASSUME NEW a \in Activities, NEW n \in Tries, ReportLate(a, n) \/ Break(a, n)
      PROVE ReviewSound'
  <2>1. attempts[a][n] # "none" /\ Becomes(a, n, "over")
    BY <1>9 DEF ReportLate, Break, Is, Complete, Alive, Activities
  <2>2. \A m \in Tries : \/ attempts'["record"][m] = attempts["record"][m]
                         \/ /\ attempts["record"][m] # "none"
                            /\ attempts'["record"][m] = "over"
    BY <1>0, <2>1, BecomesEffect DEF AttemptState
  <2>3. QED  BY <1>9, <2>2, SoundKeptAside DEF ReportLate, Break
<1>10. ASSUME NEW n \in Tries, Summarized(n) PROVE ReviewSound'
  <2>1. attempts'["record"] = attempts["record"]
    BY <1>0, <1>10, HandOverEffect
  <2>2. wf'.decision = wf.decision /\ wf'.result = wf.result /\ wf'.pc = "set_status"
    BY <1>10 DEF Summarized, TypeOK, Workflows
  <2>3. QED  BY <1>10, <2>1, <2>2, SoundKeptAside DEF Summarized
<1>11. ASSUME NEW n \in Tries, StatusShown(n) \/ Recorded(n) PROVE ReviewSound'
  <2>1. \E a \in {"set_status", "record"} :
          Becomes(a, n, "over") /\ attempts[a][n] # "none"
    BY <1>11 DEF StatusShown, Recorded, Is, Complete
  <2>2. \A m \in Tries : \/ attempts'["record"][m] = attempts["record"][m]
                         \/ /\ attempts["record"][m] # "none"
                            /\ attempts'["record"][m] = "over"
    BY <1>0, <2>1, BecomesEffect DEF AttemptState, Activities
  <2>3. wf'.decision = wf.decision /\ wf'.result = wf.result /\ wf'.pc # "record"
    BY <1>11 DEF StatusShown, Recorded, TypeOK, Workflows
  <2>4. QED  BY <1>11, <2>2, <2>3, SoundKeptAside DEF StatusShown, Recorded
<1>12. ASSUME NEW a \in Activities, NEW n \in Tries, Retry(a, n) PROVE ReviewSound'
  <2>1. n + 1 \in Tries
    BY <1>12 DEF Retry, Tries
  <2>2. Becomes(a, n + 1, "running")
    BY <1>12 DEF Retry
  <2>3. \A m \in Tries : \/ attempts'["record"][m] = attempts["record"][m]
                         \/ a = "record" /\ attempts'["record"][m] = "running"
    BY <1>0, <2>1, <2>2, BecomesEffect DEF AttemptState
  <2>4. /\ wf'.decision = wf.decision
        /\ wf'.result = wf.result
        /\ wf'.pc = wf.pc
        /\ wf.pc = a
        /\ UNCHANGED <<row, decider, audited>>
    BY <1>12 DEF Retry, Current, TypeOK, Workflows
  <2>5. QED  BY <2>3, <2>4 DEF ReviewSound, AuditIsBacked
<1>13. ASSUME NEW a \in Activities, NEW n \in Tries, FailWorkflow(a, n)
       PROVE ReviewSound'
  <2>1. wf'.decision = wf.decision /\ wf'.result = wf.result /\ wf'.pc = "failed"
    BY <1>13 DEF FailWorkflow, TypeOK, Workflows
  <2>2. QED  BY <1>13, <2>1, SoundKeptAside DEF FailWorkflow
<1>14. CASE UNCHANGED vars
  BY <1>14 DEF vars, ReviewSound, AuditIsBacked
<1>15. QED
  BY <1>1, <1>2, <1>3, <1>4, <1>5, <1>6, <1>7, <1>8, <1>9, <1>10, <1>11, <1>12,
     <1>13, <1>14 DEF Next, Work, GiveUp

(* The first state has the types and is sound. *)
LEMMA StartsSound == Init => TypeOK /\ ReviewSound
BY ReviewAssumption DEF Init, TypeOK, ReviewSound, AuditIsBacked, Rows, Workflows, Requests,
   AttemptState, Activities, Tries, Verdicts

-----------------------------------------------------------------------------
(* The variables always have their types, and the result handed to
   record_decision, the row and the trail agree with the first decision, whatever
   attempts are retried, late or lost. *)
THEOREM AlwaysSound == Spec => [](TypeOK /\ ReviewSound)
<1>1. TypeOK /\ ReviewSound /\ [Next]_vars => (TypeOK /\ ReviewSound)'
  BY TypesKept, SoundKept
<1>2. QED  BY <1>1, StartsSound, PTL DEF Spec

(* The first decision wins: the row never names another one, nor another
   verdict. *)
THEOREM FirstAlwaysWins == Spec => []FirstDecisionWins
<1>1. ReviewSound => FirstDecisionWins
  BY DEF ReviewSound, FirstDecisionWins
<1>2. QED  BY <1>1, AlwaysSound, PTL

(* The trail never tells of a decision that the row does not hold. *)
THEOREM AuditAlwaysBacked == Spec => []AuditIsBacked
<1>1. ReviewSound => AuditIsBacked
  BY DEF ReviewSound
<1>2. QED  BY <1>1, AlwaysSound, PTL

(* The types alone, for readers of the theorems below. *)
THEOREM TypeCorrect == Spec => []TypeOK
BY AlwaysSound, PTL

-----------------------------------------------------------------------------
(* An attempt of set_status other than the first, once begun, is never unmade: no
   attempt goes back to "none". *)
LEMMA RetriedForGood ==
  ASSUME TypeOK, StatusRetried,
         \A n \in Tries : attempts["set_status"][n] # "none"
                            => attempts'["set_status"][n] # "none"
  PROVE  StatusRetried'
BY DEF StatusRetried

(* Steps that write no row and start or end the wait of nobody keep the status
   settled, if they leave the attempts of set_status alone or end them. *)
LEMMA SettledKeptAside ==
  ASSUME TypeOK, TypeOK', StatusSettled, row' = row, wf'.result = wf.result,
         \/ wf'.pc = wf.pc /\ wf'.try = wf.try
         \/ wf'.pc \in {"summarize", "failed"} /\ (wf.result # Nobody => wf'.pc = "failed"),
         starter' \in {"idle", "inserted"} => starter' = starter /\ wf'.pc = wf.pc,
         \A n \in Tries : \/ attempts'["set_status"][n] = attempts["set_status"][n]
                          \/ /\ attempts["set_status"][n] # "none"
                             /\ attempts'["set_status"][n] = "over"
  PROVE  StatusSettled'
<1>1. 1 \in Tries
  BY ReviewAssumption DEF Tries
<1>2. StatusRetried => StatusRetried'
  BY RetriedForGood
<1>3. attempts["set_status"][1] # "running" => attempts'["set_status"][1] # "running"
  BY <1>1
<1>4. QED  BY <1>2, <1>3 DEF StatusSettled

(* With sound types and results, every step keeps the status settled. *)
LEMMA SettledKept ==
  ASSUME TypeOK, TypeOK', ReviewSound, StatusSettled, [Next]_vars
  PROVE  StatusSettled'
<1> USE ReviewAssumption
<1>0. /\ 1 \in Tries
      /\ "record" \in Activities
      /\ "set_status" \in Activities
      /\ attempts \in AttemptMaps
      /\ attempts' \in AttemptMaps
  BY DEF Tries, Activities, TypeOK, AttemptMaps
<1>1. CASE InsertReview
  <2>1. UNCHANGED <<wf, attempts>> /\ row'.by = row.by /\ row'.decision = row.decision
    BY <1>1 DEF InsertReview, TypeOK, Rows
  <2>2. wf.result = Nobody /\ wf.pc = "absent" /\ row.by = Nobody
    BY <1>1 DEF InsertReview, StatusSettled, ReviewSound
  <2>3. QED  BY <1>0, <2>1, <2>2 DEF StatusSettled, StatusRetried
<1>2. CASE StartWorkflow
  <2>1. attempts'["set_status"] = attempts["set_status"] /\ row' = row
    BY <1>0, <1>2 DEF StartWorkflow, AttemptMaps
  <2>2. /\ wf'.result = wf.result
        /\ wf' = wf \/ wf'.pc = "summarize"
        /\ starter' = "answered"
        /\ wf.pc = "absent"
    BY <1>2 DEF StartWorkflow, TypeOK, Workflows, StatusSettled
  <2>3. wf.result = Nobody
    BY <2>2 DEF StatusSettled
  <2>4. QED  BY <2>1, <2>2, <2>3, SettledKeptAside
<1>3. ASSUME NEW d \in Deciders, CheckReview(d) \/ Signal(d) PROVE StatusSettled'
  <2>1. UNCHANGED <<row, attempts, starter>>
    BY <1>3 DEF CheckReview, Signal
  <2>2. wf'.result = wf.result /\ wf'.pc = wf.pc /\ wf'.try = wf.try
    BY <1>3 DEF CheckReview, Signal, Decide, TypeOK, Workflows
  <2>3. QED  BY <2>1, <2>2, SettledKeptAside
<1>4. CASE Wake
  <2>1. starter' = starter /\ row' = row /\ wf.pc = "waiting" /\ wf'.pc = "record" /\ Becomes("record", 1, "running")
    BY <1>4 DEF Wake, Becomes, TypeOK, Workflows
  <2>2. \A m \in Tries : attempts'["set_status"][m] = attempts["set_status"][m]
    BY <1>0, <2>1, BecomesEffect DEF AttemptState
  <2>3. QED  BY <1>0, <2>1, <2>2 DEF StatusSettled, StatusRetried
<1>5. ASSUME NEW n \in Tries, WriteStatus(n) PROVE StatusSettled'
  <2>1. /\ attempts["set_status"][n] = "running"
        /\ attempts'["set_status"][n] = "written"
        /\ \A m \in Tries : m # n => attempts'["set_status"][m] = attempts["set_status"][m]
    BY <1>0, <1>5, BecomesEffect DEF WriteStatus, Is, AttemptState
  <2>2. starter' = starter /\ wf' = wf /\ row'.by = row.by
    BY <1>5 DEF WriteStatus, TypeOK, Rows
  <2>3. StatusRetried => StatusRetried'
    BY <2>1, RetriedForGood
  <2>4. ASSUME ~StatusRetried
        PROVE  attempts'["set_status"][1] # "running" /\ row'.by = Nobody
    <3>1. n = 1
      BY <2>1, <2>4 DEF StatusRetried, Tries
    <3>2. wf.result = Nobody
      BY <2>1, <2>4, <3>1 DEF StatusSettled
    <3>3. QED  BY <2>1, <2>2, <3>1, <3>2 DEF ReviewSound
  <2>5. QED  BY <2>2, <2>3, <2>4 DEF StatusSettled
<1>6. ASSUME NEW n \in Tries, WriteDecision(n) PROVE StatusSettled'
  <2>1. \A m \in Tries : attempts'["set_status"][m] = attempts["set_status"][m]
    BY <1>0, <1>6, BecomesEffect DEF WriteDecision, AttemptState
  <2>2. starter' = starter /\ wf' = wf /\ row'.by = wf.result /\ row'.status = row'.decision
    BY <1>6 DEF WriteDecision
  <2>3. QED  BY <1>0, <2>1, <2>2 DEF StatusSettled, StatusRetried
<1>7. ASSUME NEW n \in Tries, EmitDecision(n) PROVE StatusSettled'
  <2>1. \A m \in Tries : attempts'["set_status"][m] = attempts["set_status"][m]
    BY <1>0, <1>7, BecomesEffect DEF EmitDecision, AttemptState
  <2>2. QED  BY <1>7, <2>1, SettledKeptAside DEF EmitDecision
<1>8. ASSUME NEW a \in Activities, NEW n \in Tries, ReportLate(a, n) \/ Break(a, n)
      PROVE StatusSettled'
  <2>1. attempts[a][n] # "none" /\ Becomes(a, n, "over") /\ UNCHANGED <<row, wf, starter>>
    BY <1>8 DEF ReportLate, Break, Is, Complete, Alive, Activities
  <2>2. \A m \in Tries : \/ attempts'["set_status"][m] = attempts["set_status"][m]
                         \/ /\ attempts["set_status"][m] # "none"
                            /\ attempts'["set_status"][m] = "over"
    BY <1>0, <2>1, BecomesEffect DEF AttemptState
  <2>3. QED  BY <2>1, <2>2, SettledKeptAside
<1>9. ASSUME NEW n \in Tries, Summarized(n) PROVE StatusSettled'
  <2>1. \A m \in Tries : m # 1 => attempts'["set_status"][m] = attempts["set_status"][m]
    BY <1>0, <1>9, HandOverEffect
  <2>2. /\ row' = row
        /\ starter' = starter
        /\ wf.pc = "summarize"
        /\ wf'.result = wf.result
        /\ wf'.pc = "set_status"
        /\ wf'.try = 1
    BY <1>9 DEF Summarized, Current, TypeOK, Workflows
  <2>3. StatusRetried => StatusRetried'
    BY <1>0, <2>1 DEF StatusRetried, Tries
  <2>4. wf.result = Nobody
    BY <2>2 DEF StatusSettled
  <2>5. QED  BY <2>2, <2>3, <2>4 DEF StatusSettled
<1>10. ASSUME NEW n \in Tries, StatusShown(n) PROVE StatusSettled'
  <2>1. /\ attempts["set_status"][n] # "none"
        /\ attempts'["set_status"][n] = "over"
        /\ \A m \in Tries : m # n => attempts'["set_status"][m] = attempts["set_status"][m]
    BY <1>0, <1>10, BecomesEffect DEF StatusShown, Is, Complete, AttemptState
  <2>2. /\ row' = row
        /\ starter' = starter
        /\ wf.pc = "set_status"
        /\ wf.try = n
        /\ wf'.result = wf.result
        /\ wf'.pc = "waiting"
    BY <1>10 DEF StatusShown, Current, TypeOK, Workflows
  <2>3. StatusRetried => StatusRetried'
    BY <2>1, RetriedForGood
  <2>4. QED  BY <2>1, <2>2, <2>3 DEF StatusSettled
<1>11. ASSUME NEW n \in Tries, Recorded(n) PROVE StatusSettled'
  <2>1. \A m \in Tries : attempts'["set_status"][m] = attempts["set_status"][m]
    BY <1>0, <1>11, BecomesEffect DEF Recorded, AttemptState
  <2>2. /\ row' = row
        /\ starter' = starter
        /\ wf.pc = "record"
        /\ wf'.result = wf.result
        /\ wf'.pc = "closed"
        /\ attempts["record"][n] = "emitted"
    BY <1>11 DEF Recorded, Current, Is, Complete, TypeOK, Workflows
  <2>3. wf.result # Nobody /\ row.by = wf.result
    BY <2>2 DEF ReviewSound
  <2>4. QED  BY <1>0, <2>1, <2>2, <2>3 DEF StatusSettled, StatusRetried
<1>12. ASSUME NEW a \in Activities, NEW n \in Tries, Retry(a, n) PROVE StatusSettled'
  <2>1. n + 1 \in Tries /\ n + 1 > 1
    BY <1>12 DEF Retry, Tries
  <2>2. Becomes(a, n + 1, "running")
    BY <1>12 DEF Retry
  <2>3. /\ UNCHANGED <<row, starter>>
        /\ wf'.result = wf.result
        /\ wf'.pc = wf.pc
        /\ wf.pc = a
    BY <1>12 DEF Retry, Current, TypeOK, Workflows
  <2>4. CASE a = "set_status"
    <3>1. attempts'["set_status"][n + 1] # "none"
      BY <1>0, <2>1, <2>2, <2>4, BecomesEffect DEF AttemptState
    <3>2. StatusRetried'
      BY <2>1, <3>1 DEF StatusRetried
    <3>3. QED  BY <2>3, <3>2 DEF StatusSettled
  <2>5. CASE a # "set_status"
    <3>1. \A m \in Tries : attempts'["set_status"][m] = attempts["set_status"][m]
      BY <1>0, <2>1, <2>2, <2>5, BecomesEffect DEF AttemptState
    <3>2. QED  BY <1>0, <2>3, <2>5, <3>1 DEF StatusSettled, StatusRetried
  <2>6. QED  BY <2>4, <2>5
<1>13. ASSUME NEW a \in Activities, NEW n \in Tries, FailWorkflow(a, n)
       PROVE StatusSettled'
  <2>1. /\ UNCHANGED <<row, attempts, starter>>
        /\ wf'.result = wf.result
        /\ wf'.pc = "failed"
        /\ wf.pc = a
    BY <1>13 DEF FailWorkflow, Current, TypeOK, Workflows
  <2>2. starter \notin {"idle", "inserted"}
    BY <2>1 DEF StatusSettled, Activities
  <2>3. QED  BY <2>1, <2>2, SettledKeptAside
<1>14. CASE UNCHANGED vars
  BY <1>14, SettledKeptAside DEF vars
<1>15. QED
  BY <1>1, <1>2, <1>3, <1>4, <1>5, <1>6, <1>7, <1>8, <1>9, <1>10, <1>11, <1>12,
     <1>13, <1>14 DEF Next, Work, GiveUp

(* What a closed review tells is settled: its only unretried attempt of set_status
   wrote before the decision was recorded. *)
THEOREM StatusAlwaysSettled == Spec => []StatusSettled
<1>1. Init => StatusSettled
  BY DEF Init, StatusSettled
<1>2. QED  BY <1>1, SettledKept, AlwaysSound, PTL DEF Spec

(* A closed review has its outcome in the row, and its status says so unless
   set_status was tried again. *)
THEOREM ClosedAlwaysRecorded == Spec => []ClosedIsRecorded
<1>1. ReviewSound /\ StatusSettled => ClosedIsRecorded
  BY DEF ReviewSound, StatusSettled, StatusRetried, ClosedIsRecorded
<1>2. QED  BY <1>1, AlwaysSound, StatusAlwaysSettled, PTL

-----------------------------------------------------------------------------
(* A review implements ReviewOutcome: its outcome is given once, recorded once
   and never changed. *)
THEOREM ReviewImplementsOutcome == Spec => ImplementsOutcome
<1>1. Init => Outcome!OutcomeInit
  BY DEF Init, Outcome!OutcomeInit
<1>2. ASSUME TypeOK, ReviewSound, TypeOK', ReviewSound', [Next]_vars
      PROVE  [Outcome!Give \/ Outcome!Record]_(Outcome!outcomeVars)
  <2>1. ASSUME NEW d \in Deciders, Signal(d)
        PROVE  Outcome!Give \/ UNCHANGED Outcome!outcomeVars
    BY <1>2, <2>1 DEF Signal, Decide, Outcome!Give, Outcome!outcomeVars, TypeOK, Workflows
  <2>2. ASSUME NEW n \in Tries, WriteDecision(n)
        PROVE  Outcome!Record \/ UNCHANGED Outcome!outcomeVars
    <3>1. /\ row'.by = wf.result
          /\ wf' = wf
          /\ attempts["record"][n] # "none"
      BY <2>2 DEF WriteDecision, Is
    <3>2. /\ wf.result # Nobody
          /\ wf.result = wf.decision
          /\ row.by # Nobody => row.by = wf.result
      BY <1>2, <3>1 DEF ReviewSound
    <3>3. QED  BY <3>1, <3>2 DEF Outcome!Record, Outcome!outcomeVars
  <2>3. ASSUME wf'.decision = wf.decision, row'.by = row.by
        PROVE  UNCHANGED Outcome!outcomeVars
    BY <2>3 DEF Outcome!outcomeVars
  <2>4. CASE \/ InsertReview
             \/ StartWorkflow
             \/ Wake
             \/ \E d \in Deciders : CheckReview(d)
             \/ \E n \in Tries : \/ WriteStatus(n) \/ EmitDecision(n) \/ Summarized(n)
                                \/ StatusShown(n) \/ Recorded(n)
             \/ \E a \in Activities, n \in Tries :
                  ReportLate(a, n) \/ Break(a, n) \/ Retry(a, n) \/ FailWorkflow(a, n)
             \/ UNCHANGED vars
    <3>1. wf'.decision = wf.decision
      BY <1>2, <2>4 DEF InsertReview, StartWorkflow, Wake, CheckReview, WriteStatus,
         EmitDecision, Summarized, StatusShown, Recorded, ReportLate, Break, Retry,
         FailWorkflow, vars, TypeOK, Workflows
    <3>2. row'.by = row.by
      BY <1>2, <2>4 DEF InsertReview, StartWorkflow, Wake, CheckReview, WriteStatus,
         EmitDecision, Summarized, StatusShown, Recorded, ReportLate, Break, Retry,
         FailWorkflow, vars, TypeOK, Rows
    <3>3. QED  BY <3>1, <3>2, <2>3
  <2>5. QED  BY <1>2, <2>1, <2>2, <2>4 DEF Next, Work, GiveUp
<1>3. QED
  BY <1>1, <1>2, AlwaysSound, PTL DEF Spec, ImplementsOutcome, Outcome!OutcomeSpec

-----------------------------------------------------------------------------
(***************************************************************************)
(* The upload, and the attempts that read its chunks.                       *)
(***************************************************************************)
Uploads == [pc : {"idle", "embed", "insert", "status", "emit", "ended"}, size : Nat,
            vectors : Nat, staged : SUBSET Nat,
            status : {"none", "processed", "stored_without_embeddings"}, stored : Nat]

(* What the handler is about to say of the document. *)
VerdictTrue ==
  /\ upload.status = "processed" => chunks = Embedded
  /\ upload.stored > 0 => chunks = Embedded /\ upload.stored = upload.size

(* The inductive strengthening: until the chunks are committed there are none,
   and from then on the handler's own verdict is true. *)
UploadSound ==
  /\ upload \in Uploads /\ IsFiniteSet(upload.staged)
  /\ chunks \in {{}, Embedded}
  /\ upload.pc # "ended" => told = NoEvent
  /\ upload.pc = "idle" => doc = "none" /\ upload.vectors = 0
  /\ upload.pc \in {"embed", "insert", "status"} => doc = "processing"
  /\ upload.pc \in {"idle", "embed", "insert"} => chunks = {} /\ upload.stored = 0
  /\ upload.pc \in {"status", "emit"} => VerdictTrue
  /\ upload.pc = "emit" => doc = upload.status
  /\ StatusIsTrue

(* Until then an attempt finds nothing. *)
ReadSound ==
  /\ SummaryNotTorn
  /\ chunks = {} => \A n \in Tries : read[n] \in {Unread, {}}

RInv == UploadSound /\ ReadSound

LEMMA KnowledgeInitSound == KnowledgeInit => UploadSound
<1> SUFFICES ASSUME KnowledgeInit PROVE UploadSound
  OBVIOUS
<1>1. upload \in Uploads /\ upload.staged = {}
  BY DEF KnowledgeInit, Uploads
<1> QED BY <1>1, FS_EmptySet DEF KnowledgeInit, UploadSound, StatusIsTrue

LEMMA UnembeddedSound ==
  ASSUME UploadSound, upload.pc \in {"embed", "insert"}, Unembedded,
         UNCHANGED <<doc, chunks, told>>
  PROVE  UploadSound'
<1> DEFINE u == [upload EXCEPT !.pc = "status", !.staged = {}, !.vectors = 0,
                               !.status = "stored_without_embeddings"]
<1>1. /\ u \in Uploads /\ u.pc = "status" /\ u.staged = {}
      /\ u.status = "stored_without_embeddings" /\ u.stored = 0
  BY DEF UploadSound, Uploads
<1>2. upload' = u
  BY DEF Unembedded, On
<1> HIDE DEF u
<1>3. doc' = "processing" /\ told' = NoEvent /\ chunks' = {}
  BY DEF UploadSound
<1> QED BY <1>1, <1>2, <1>3, FS_EmptySet DEF UploadSound, VerdictTrue, StatusIsTrue

(* Every step of the upload; chunks that are committed stay as they are. *)
LEMMA KnowledgeStepSound ==
  ASSUME KnowledgeAssumption, UploadSound, KnowledgeStep
  PROVE  UploadSound' /\ (chunks # {} => chunks' = chunks /\ Embedded' = Embedded)
<1> DEFINE Goal == UploadSound' /\ (chunks # {} => chunks' = chunks /\ Embedded' = Embedded)
<1>a. upload \in Uploads
  BY DEF UploadSound
<1>b. ASSUME upload.pc # "idle", Over, UNCHANGED <<doc, chunks>>,
             told' # NoEvent =>
               /\ told'.status = doc
               /\ told'.chunks > 0 => chunks = Embedded /\ told'.chunks = upload.size
      PROVE  Goal
  <2> DEFINE u == [upload EXCEPT !.pc = "ended", !.staged = {}, !.status = "none", !.stored = 0]
  <2>1. /\ u \in Uploads /\ u.pc = "ended" /\ u.staged = {}
        /\ u.size = upload.size /\ u.vectors = upload.vectors
    BY <1>a DEF Uploads
  <2>2. upload' = u
    BY <1>b DEF Over, On
  <2> HIDE DEF u
  <2>3. Embedded' = Embedded
    BY <2>1, <2>2 DEF Embedded
  <2> QED BY <1>b, <2>1, <2>2, <2>3, FS_EmptySet DEF UploadSound, StatusIsTrue
<1>1. ASSUME InsertDocument PROVE Goal
  <2>1. upload.pc = "idle" /\ doc' = "processing" /\ chunks' = {} /\ told' = NoEvent
    BY <1>1 DEF InsertDocument, At, UploadSound
  <2>2. PICK n \in Sizes :
          upload' = [upload EXCEPT !.pc = IF n = 0 THEN "status" ELSE "embed",
                                   !.size = n, !.status = "processed"]
    BY <1>1 DEF InsertDocument, On
  <2>3. n \in Nat
    BY <2>2 DEF KnowledgeAssumption
  <2>4. /\ upload' \in Uploads /\ upload'.size = n /\ upload'.status = "processed"
        /\ upload'.pc = IF n = 0 THEN "status" ELSE "embed"
        /\ upload'.stored = upload.stored /\ upload'.staged = upload.staged
        /\ upload'.vectors = upload.vectors
    BY <2>2, <2>3, <1>a DEF Uploads
  <2>5. upload.stored = 0 /\ upload.vectors = 0 /\ chunks = {}
    BY <2>1 DEF UploadSound
  <2>6. Embedded' = {}
    BY <2>4, <2>5 DEF Embedded
  <2>7. UploadSound'
    BY <2>1, <2>4, <2>5, <2>6 DEF UploadSound, VerdictTrue, StatusIsTrue
  <2> QED BY <2>5, <2>7
<1>2. ASSUME Embed PROVE Goal
  <2>1. upload.pc = "embed" /\ UNCHANGED <<doc, chunks, told>>
    BY <1>2 DEF Embed, At
  <2>2. CASE Unembedded
    <3>1. chunks = {}
      BY <2>1 DEF UploadSound
    <3> QED BY <2>1, <2>2, <3>1, UnembeddedSound
  <2>3. ASSUME NEW v \in 0 .. upload.size,
               upload' = [upload EXCEPT !.pc = "insert", !.vectors = v]
        PROVE  Goal
    <3>1. v \in Nat
      BY <1>a DEF Uploads
    <3>2. /\ upload' \in Uploads /\ upload'.size = upload.size /\ upload'.pc = "insert"
          /\ upload'.stored = upload.stored /\ upload'.staged = upload.staged
      BY <2>3, <3>1, <1>a DEF Uploads
    <3>3. chunks = {} /\ doc = "processing" /\ told = NoEvent /\ upload.stored = 0
      BY <2>1 DEF UploadSound
    <3> QED BY <2>1, <3>2, <3>3 DEF UploadSound, StatusIsTrue
  <2> QED BY <2>2, <2>3, <1>2 DEF Embed, On
<1>3. ASSUME InsertChunk PROVE Goal
  <2>1. upload.pc = "insert" /\ UNCHANGED <<doc, chunks, told>>
    BY <1>3 DEF InsertChunk, At
  <2>2. CASE Unembedded
    <3>1. chunks = {}
      BY <2>1 DEF UploadSound
    <3> QED BY <2>1, <2>2, <3>1, UnembeddedSound
  <2>3. CASE upload' = [upload EXCEPT !.staged = @ \cup {Cardinality(@) + 1}]
    <3> DEFINE next == Cardinality(upload.staged) + 1
    <3>0. next \in Nat
      BY FS_CardinalityType DEF UploadSound
    <3>1. upload' = [upload EXCEPT !.staged = @ \cup {next}]
      BY <2>3
    <3> HIDE DEF next
    <3>2. /\ upload' \in Uploads /\ upload'.size = upload.size /\ upload'.pc = "insert"
          /\ upload'.stored = upload.stored /\ upload'.staged = upload.staged \cup {next}
          /\ upload'.vectors = upload.vectors
      BY <3>0, <3>1, <2>1, <1>a DEF Uploads
    <3>3. IsFiniteSet(upload'.staged)
      BY <3>2, FS_AddElement DEF UploadSound
    <3>4. Embedded' = Embedded
      BY <3>2 DEF Embedded
    <3> QED BY <2>1, <3>2, <3>3, <3>4 DEF UploadSound, StatusIsTrue
  <2> QED BY <2>2, <2>3, <1>3 DEF InsertChunk, On
<1>4. ASSUME CommitChunks PROVE Goal
  <2>1. upload.pc = "insert" /\ upload.staged = Embedded /\ UNCHANGED <<doc, told>>
    BY <1>4 DEF CommitChunks, At
  <2>2. chunks = {} /\ chunks' \in {{}, Embedded}
    BY <1>4, <2>1 DEF CommitChunks, UploadSound
  <2>3. CASE Unembedded /\ UNCHANGED chunks
    BY <2>1, <2>2, <2>3, UnembeddedSound
  <2>4. CASE /\ chunks' = upload.staged
             /\ upload' = [upload EXCEPT !.pc = "status", !.staged = {}, !.stored = upload.size]
    <3>1. /\ upload' \in Uploads /\ upload'.size = upload.size /\ upload'.pc = "status"
          /\ upload'.stored = upload.size /\ upload'.staged = {}
          /\ upload'.vectors = upload.vectors
      BY <2>4, <1>a DEF Uploads
    <3>2. Embedded' = Embedded /\ chunks' = Embedded
      BY <3>1, <2>1, <2>4 DEF Embedded
    <3>3. doc' = "processing" /\ told' = NoEvent
      BY <2>1 DEF UploadSound
    <3> QED BY <2>2, <3>1, <3>2, <3>3, FS_EmptySet DEF UploadSound, VerdictTrue, StatusIsTrue
  <2>5. CASE /\ chunks' = upload.staged
             /\ upload' = [upload EXCEPT !.pc = "status", !.staged = {},
                                         !.status = "stored_without_embeddings"]
    <3>1. /\ upload' \in Uploads /\ upload'.pc = "status" /\ upload'.staged = {}
          /\ upload'.status = "stored_without_embeddings"
          /\ upload'.stored = 0 /\ upload'.vectors = upload.vectors
      BY <2>1, <2>5, <1>a DEF Uploads, UploadSound
    <3>2. Embedded' = Embedded /\ chunks' = Embedded
      BY <3>1, <2>1, <2>5 DEF Embedded
    <3>3. doc' = "processing" /\ told' = NoEvent
      BY <2>1 DEF UploadSound
    <3> QED BY <2>2, <3>1, <3>2, <3>3, FS_EmptySet DEF UploadSound, VerdictTrue, StatusIsTrue
  <2> QED BY <2>3, <2>4, <2>5, <1>4 DEF CommitChunks, On
<1>5. ASSUME UpdateStatus PROVE Goal
  <2>1. /\ upload.pc = "status" /\ UNCHANGED <<chunks, told>> /\ doc' = upload.status
        /\ upload' = [upload EXCEPT !.pc = "emit"]
    BY <1>5 DEF UpdateStatus, At, On
  <2>2. /\ upload' \in Uploads /\ upload'.size = upload.size /\ upload'.pc = "emit"
        /\ upload'.stored = upload.stored /\ upload'.staged = upload.staged
        /\ upload'.status = upload.status /\ upload'.vectors = upload.vectors
    BY <2>1, <1>a DEF Uploads
  <2>3. Embedded' = Embedded /\ told = NoEvent
    BY <2>1, <2>2 DEF Embedded, UploadSound
  <2> QED BY <2>1, <2>2, <2>3 DEF UploadSound, VerdictTrue, StatusIsTrue
<1>6. ASSUME EmitUpload PROVE Goal
  <2>1. upload.pc = "emit" /\ Over /\ UNCHANGED <<doc, chunks>>
    BY <1>6 DEF EmitUpload, At
  <2>2. told = NoEvent /\ VerdictTrue /\ doc = upload.status
    BY <2>1 DEF UploadSound
  <2>3. told' = NoEvent \/ told' = [status |-> upload.status, chunks |-> upload.stored]
    BY <1>6, <2>2 DEF EmitUpload
  <2>4. told' # NoEvent => /\ told'.status = doc
                           /\ told'.chunks > 0 =>
                                chunks = Embedded /\ told'.chunks = upload.size
    BY <2>2, <2>3 DEF VerdictTrue
  <2> QED BY <2>1, <2>4, <1>b
<1>7. ASSUME BreakUpload PROVE Goal
  <2>1. /\ upload.pc # "idle" /\ upload.pc # "ended" /\ Over /\ UNCHANGED <<doc, chunks, told>>
    BY <1>7 DEF BreakUpload
  <2>2. told' = NoEvent
    BY <2>1 DEF UploadSound
  <2> QED BY <2>1, <2>2, <1>b
<1> QED BY <1>1, <1>2, <1>3, <1>4, <1>5, <1>6, <1>7 DEF KnowledgeStep

-----------------------------------------------------------------------------
LEMMA InitRInv == ReviewedInit => RInv
BY KnowledgeInitSound DEF ReviewedInit, RInv, ReadSound, SummaryNotTorn

LEMMA RInvInductive ==
  ASSUME KnowledgeAssumption PROVE RInv /\ [ReviewedNext]_reviewedVars => RInv'
<1> SUFFICES ASSUME RInv, [ReviewedNext]_reviewedVars PROVE RInv'
  OBVIOUS
<1>a. ASSUME UNCHANGED knowledgeVars PROVE UploadSound' /\ Embedded' = Embedded
  BY <1>a DEF RInv, knowledgeVars, UploadSound, VerdictTrue, StatusIsTrue, Embedded
<1>1. CASE ReviewStep
  <2>1. \A n \in Tries : read'[n] \in {read[n], Unread}
    BY <1>1 DEF ReviewStep
  <2>2. UNCHANGED knowledgeVars
    BY <1>1 DEF ReviewStep
  <2> QED BY <2>1, <2>2, <1>a DEF RInv, ReadSound, SummaryNotTorn, knowledgeVars
<1>2. CASE UploadStep
  <2>1. KnowledgeStep /\ read' = read
    BY <1>2 DEF UploadStep
  <2>2. UploadSound' /\ (chunks # {} => chunks' = chunks /\ Embedded' = Embedded)
    BY <2>1, KnowledgeStepSound DEF RInv
  <2> QED BY <2>1, <2>2 DEF RInv, ReadSound, SummaryNotTorn
<1>3. ASSUME NEW n \in Tries, ReadChunks(n) PROVE RInv'
  <2> DEFINE part == {k \in chunks : k <= MaxRead}
  <2>1. /\ \A m \in Tries : read'[m] \in {read[m], part}
        /\ UNCHANGED knowledgeVars
    BY <1>3 DEF ReadChunks
  <2>2. part = {} \/ part = {k \in Embedded : k <= MaxRead}
    BY DEF RInv, UploadSound
  <2>3. chunks = {} => part = {}
    OBVIOUS
  <2> HIDE DEF part
  <2> QED BY <2>1, <2>2, <2>3, <1>a DEF RInv, ReadSound, SummaryNotTorn, knowledgeVars
<1>4. CASE UNCHANGED reviewedVars
  BY <1>4, <1>a DEF reviewedVars, RInv, ReadSound, SummaryNotTorn, knowledgeVars
<1> QED BY <1>1, <1>2, <1>3, <1>4 DEF ReviewedNext

(* What the platform says of a document is true, whichever call of its upload
   fails and wherever its handler dies. *)
THEOREM UploadTrue ==
  ASSUME KnowledgeAssumption PROVE ReviewedSpec => []StatusIsTrue
<1>1. RInv => StatusIsTrue
  BY DEF RInv, UploadSound
<1> QED BY <1>1, InitRInv, RInvInductive, PTL DEF ReviewedSpec

(* However the attempts of summarize_document fall between the steps of the
   upload, none of them has read a half-stored document. *)
THEOREM SummaryNeverTorn ==
  ASSUME KnowledgeAssumption PROVE ReviewedSpec => []SummaryNotTorn
<1>1. RInv => SummaryNotTorn
  BY DEF RInv, ReadSound
<1> QED BY <1>1, InitRInv, RInvInductive, PTL DEF ReviewedSpec

-----------------------------------------------------------------------------
(* The composition restricts the review and adds nothing to it. *)
THEOREM ReviewedIsReview == ReviewedSpec => Spec
<1>1. ReviewedInit => Init
  BY DEF ReviewedInit
<1>2. [ReviewedNext]_reviewedVars => [Next]_vars
  BY DEF ReviewedNext, ReviewStep, UploadStep, ReadChunks, reviewedVars
<1>3. QED  BY <1>1, <1>2, PTL DEF ReviewedSpec, Spec

(* What was proved of the review holds of it beside an upload. *)
THEOREM ReviewedKeepsPromises ==
  ReviewedSpec => /\ [](TypeOK /\ FirstDecisionWins /\ AuditIsBacked /\ ClosedIsRecorded)
                  /\ ImplementsOutcome
BY ReviewedIsReview, TypeCorrect, FirstAlwaysWins, AuditAlwaysBacked, ClosedAlwaysRecorded,
   ReviewImplementsOutcome, PTL
=============================================================================
