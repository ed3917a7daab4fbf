--------------------------- MODULE DocumentReview ---------------------------
(***************************************************************************)
(* One document review of services/workflows: the endpoints of main.py      *)
(* that start and decide it, the Temporal workflow DocumentReviewApproval    *)
(* (workflow.py), its activities (activities.py) and its row of              *)
(* workflow_instances.                                                      *)
(*                                                                         *)
(* Temporal runs an activity at least once: an attempt that does not report *)
(* in time is given up and the next one starts, but the worker that was      *)
(* slow goes on and may write late.  Operators named after a definition with *)
(* a fault appended are faulty variants that the properties must notice.    *)
(***************************************************************************)
EXTENDS Naturals

CONSTANTS
  Deciders,     \* the approve and reject requests, each made at most once
  Asks,         \* which of the two each of them is
  Nobody,       \* stands for decided_by IS NULL
  MaxAttempts   \* RetryPolicy.maximum_attempts

Verdicts == {"approved", "rejected"}

ASSUME ReviewAssumption ==
  /\ Nobody \notin Deciders
  /\ Asks \in [Deciders -> Verdicts]
  /\ MaxAttempts \in Nat \ {0}

VARIABLES
  row,       \* workflow_instances: status, decision and decided_by
  wf,        \* the workflow execution: where it is, attempt, decision, result
  attempts,  \* what became of each attempt of each activity
  starter,   \* the handler of POST /workflows/document-review
  decider,   \* the handlers of POST /workflows/{id}/approve and .../reject
  audited    \* the decisions of which the audit service stored an event

vars == <<row, wf, attempts, starter, decider, audited>>

Activities == {"summarize", "set_status", "record"}
Tries      == 1 .. MaxAttempts

Rows      == [status : {"none", "running", "awaiting_approval"} \cup Verdicts,
              decision : {"none"} \cup Verdicts,
              by : Deciders \cup {Nobody}]
Workflows == [pc : Activities \cup {"absent", "waiting", "closed", "failed"},
              try : {0} \cup Tries,
              decision : Deciders \cup {Nobody},
              result : Deciders \cup {Nobody}]
AttemptState == {"none", "running", "written", "emitted", "over"}
Requests  == [pc : {"idle", "checked", "accepted", "refused"}, verdict : Verdicts]

Alive == {"running", "written", "emitted"}
Open  == wf.pc \notin {"absent", "closed", "failed"}

Init ==
  /\ row = [status |-> "none", decision |-> "none", by |-> Nobody]
  /\ wf = [pc |-> "absent", try |-> 0, decision |-> Nobody, result |-> Nobody]
  /\ attempts = [a \in Activities |-> [n \in Tries |-> "none"]]
  /\ starter = "idle"
  /\ decider = [d \in Deciders |-> [pc |-> "idle", verdict |-> Asks[d]]]
  /\ audited = {}

-----------------------------------------------------------------------------
(***************************************************************************)
(* Requests.                                                               *)
(***************************************************************************)

(* start_review: the row is committed before Temporal is asked. *)
InsertReview ==
  /\ starter = "idle"
  /\ row' = [row EXCEPT !.status = "running"]
  /\ starter' = "inserted"
  /\ UNCHANGED <<wf, attempts, decider, audited>>

(* client.start_workflow: Temporal may accept it or not, and what the caller is
   answered need not tell which.  What follows (run_id, audit) leaves the row's
   status alone. *)
StartWorkflow ==
  /\ starter = "inserted"
  /\ starter' = "answered"
  /\ \/ /\ wf' = [wf EXCEPT !.pc = "summarize", !.try = 1]
        /\ attempts' = [attempts EXCEPT !["summarize"][1] = "running"]
     \/ UNCHANGED <<wf, attempts>>
  /\ UNCHANGED <<row, decider, audited>>

(* _signal_decision, first half: the row must exist for the tenant; neither its
   status nor the workflow's is looked at. *)
CheckReview(d) ==
  /\ decider[d].pc = "idle"
  /\ decider' = [decider EXCEPT ![d].pc = IF row.status = "none" THEN "refused" ELSE "checked"]
  /\ UNCHANGED <<row, wf, attempts, starter, audited>>

DecideLastWins(d) == [wf EXCEPT !.decision = d]
DecideWhileWaiting(d) ==
  IF wf.pc = "waiting" /\ wf.decision = Nobody THEN [wf EXCEPT !.decision = d] ELSE wf

(* The signal handler `decide`: the first decision wins. *)
Decide(d) == IF wf.decision = Nobody THEN [wf EXCEPT !.decision = d] ELSE wf

(* _signal_decision, second half.  A workflow that is not open refuses the
   signal; an open one takes it at any point of its run, and the caller may get
   an error (a 502) whether or not the signal arrived. *)
Signal(d) ==
  /\ decider[d].pc = "checked"
  /\ \/ /\ Open
        /\ wf' = Decide(d)
        /\ \E p \in {"accepted", "refused"} : decider' = [decider EXCEPT ![d].pc = p]
     \/ /\ decider' = [decider EXCEPT ![d].pc = "refused"]
        /\ UNCHANGED wf
  /\ UNCHANGED <<row, attempts, starter, audited>>

-----------------------------------------------------------------------------
(***************************************************************************)
(* Attempts of activities, carried out by a worker.                        *)
(***************************************************************************)
Is(a, n, state) == attempts[a][n] = state
Becomes(a, n, state) == attempts' = [attempts EXCEPT ![a][n] = state]

(* set_status overwrites the status of the row, whatever it is by now. *)
WriteStatus(n) ==
  /\ Is("set_status", n, "running")
  /\ row' = [row EXCEPT !.status = "awaiting_approval"]
  /\ Becomes("set_status", n, "written")
  /\ UNCHANGED <<wf, starter, decider, audited>>

WriteDecisionOnly(n) ==
  /\ Is("record", n, "running")
  /\ row' = [row EXCEPT !.decision = decider[wf.result].verdict, !.by = wf.result]
  /\ Becomes("record", n, "written")
  /\ UNCHANGED <<wf, starter, decider, audited>>

(* record_decision, first half: one UPDATE with the result it was given. *)
WriteDecision(n) ==
  /\ Is("record", n, "running")
  /\ LET verdict == decider[wf.result].verdict IN
       row' = [status |-> verdict, decision |-> verdict, by |-> wf.result]
  /\ Becomes("record", n, "written")
  /\ UNCHANGED <<wf, starter, decider, audited>>

EmitAtOnce(n) ==
  /\ Is("record", n, "running") \/ Is("record", n, "written")
  /\ \/ audited' = audited \cup {wf.result}
     \/ UNCHANGED audited
  /\ Becomes("record", n, "emitted")
  /\ UNCHANGED <<row, wf, starter, decider>>

(* record_decision, second half: emit, whose failure is only logged. *)
EmitDecision(n) ==
  /\ Is("record", n, "written")
  /\ \/ audited' = audited \cup {wf.result}
     \/ UNCHANGED audited
  /\ Becomes("record", n, "emitted")
  /\ UNCHANGED <<row, wf, starter, decider>>

(* The activity raises, or its worker dies: the attempt does nothing more. *)
Break(a, n) ==
  /\ attempts[a][n] \in Alive
  /\ Becomes(a, n, "over")
  /\ UNCHANGED <<row, wf, starter, decider, audited>>

-----------------------------------------------------------------------------
(***************************************************************************)
(* The workflow, driven by the Temporal server.                            *)
(***************************************************************************)
Current(a, n) == wf.pc = a /\ wf.try = n

(* The state in which an attempt has done all it has to do. *)
Complete(a) == CASE a = "summarize"  -> "running"
                 [] a = "set_status" -> "written"
                 [] a = "record"     -> "emitted"

(* A late report of an attempt that was given up is ignored. *)
ReportLate(a, n) ==
  /\ Is(a, n, Complete(a))
  /\ ~Current(a, n)
  /\ Becomes(a, n, "over")
  /\ UNCHANGED <<row, wf, starter, decider, audited>>

Summarized(n) ==
  /\ Is("summarize", n, Complete("summarize"))
  /\ Current("summarize", n)
  /\ wf' = [wf EXCEPT !.pc = "set_status", !.try = 1]
  /\ attempts' = [attempts EXCEPT !["summarize"][n] = "over", !["set_status"][1] = "running"]
  /\ UNCHANGED <<row, starter, decider, audited>>

StatusShown(n) ==
  /\ Is("set_status", n, Complete("set_status"))
  /\ Current("set_status", n)
  /\ wf' = [wf EXCEPT !.pc = "waiting", !.try = 0]
  /\ Becomes("set_status", n, "over")
  /\ UNCHANGED <<row, starter, decider, audited>>

(* wait_condition: a decision that came early ends the wait at once. *)
Wake ==
  /\ wf.pc = "waiting"
  /\ wf.decision # Nobody
  /\ wf' = [wf EXCEPT !.pc = "record", !.try = 1, !.result = wf.decision]
  /\ attempts' = [attempts EXCEPT !["record"][1] = "running"]
  /\ UNCHANGED <<row, starter, decider, audited>>

Recorded(n) ==
  /\ Is("record", n, Complete("record"))
  /\ Current("record", n)
  /\ wf' = [wf EXCEPT !.pc = "closed", !.try = 0]
  /\ Becomes("record", n, "over")
  /\ UNCHANGED <<row, starter, decider, audited>>

RetryOnceMore(a, n) ==
  /\ Current(a, n)
  /\ wf' = [wf EXCEPT !.try = n + 1]
  /\ attempts' = [attempts EXCEPT ![a] = [@ EXCEPT ![n + 1] = "running"]]
  /\ UNCHANGED <<row, starter, decider, audited>>

(* The current attempt failed or start_to_close_timeout has passed: the next
   one starts, ... *)
Retry(a, n) ==
  /\ Current(a, n)
  /\ n < MaxAttempts
  /\ wf' = [wf EXCEPT !.try = n + 1]
  /\ Becomes(a, n + 1, "running")
  /\ UNCHANGED <<row, starter, decider, audited>>

(* ... and after the last one the workflow fails. *)
FailWorkflow(a, n) ==
  /\ Current(a, n)
  /\ n = MaxAttempts
  /\ wf' = [wf EXCEPT !.pc = "failed", !.try = 0]
  /\ UNCHANGED <<row, attempts, starter, decider, audited>>

-----------------------------------------------------------------------------
Work(a, n) ==
  \/ a = "set_status" /\ WriteStatus(n)
  \/ a = "record" /\ (WriteDecision(n) \/ EmitDecision(n))
  \/ ReportLate(a, n)
  \/ a = "summarize" /\ Summarized(n)
  \/ a = "set_status" /\ StatusShown(n)
  \/ a = "record" /\ Recorded(n)

GiveUp(a, n) == Retry(a, n) \/ FailWorkflow(a, n)

Next ==
  \/ InsertReview \/ StartWorkflow
  \/ \E d \in Deciders : CheckReview(d) \/ Signal(d)
  \/ Wake
  \/ \E a \in Activities, n \in Tries : Work(a, n) \/ Break(a, n) \/ GiveUp(a, n)

(* A worker polls the task queue: the current attempt goes on while it lives, and
   the server gives it up when it is over without having reported.  Attempts
   that were given up may stop anywhere. *)
Fairness ==
  /\ WF_vars(Wake)
  /\ WF_vars(\E a \in Activities, n \in Tries : Current(a, n) /\ Work(a, n))
  /\ WF_vars(\E a \in Activities, n \in Tries : Is(a, n, "over") /\ GiveUp(a, n))

Spec == Init /\ [][Next]_vars

-----------------------------------------------------------------------------
(***************************************************************************)
(* Properties.                                                             *)
(***************************************************************************)

(* Type invariant. *)
TypeOK ==
  /\ row \in Rows
  /\ wf \in Workflows
  /\ attempts \in [Activities -> [Tries -> AttemptState]]
  /\ starter \in {"idle", "inserted", "answered"}
  /\ decider \in [Deciders -> Requests]
  /\ audited \subseteq Deciders

(* "First decision wins": the row names the decision the workflow took first
   and its verdict, whoever else decided meanwhile and however often
   record_decision was tried. *)
FirstDecisionWins ==
  row.by # Nobody =>
    /\ row.by = wf.decision
    /\ row.decision = decider[row.by].verdict

(* The trail never tells of a decision the row does not hold, also when the
   worker dies within record_decision. *)
AuditIsBacked == \A d \in audited : row.by = d

(* A closed review has its outcome in the row, and its status says so unless an
   attempt of set_status that was given up wrote late. *)
ClosedIsRecorded ==
  wf.pc = "closed" =>
    /\ row.by = wf.decision
    /\ \/ row.status = row.decision
       \/ \E n \in Tries : n > 1 /\ attempts["set_status"][n] # "none"

(* The strengthening behind FirstDecisionWins, AuditIsBacked and
   ImplementsOutcome: the result handed to record_decision is the first decision,
   and what its attempts have written or told is that result. *)
ReviewSound ==
  /\ wf.decision # Nobody => decider[wf.decision].pc \in {"accepted", "refused"}
  /\ wf.result # Nobody => wf.result = wf.decision
  /\ wf.pc = "record" => wf.result # Nobody
  /\ \A n \in Tries : attempts["record"][n] # "none" => wf.result # Nobody
  /\ \A n \in Tries :
       attempts["record"][n] \in {"written", "emitted"} => row.by = wf.result
  /\ row.by # Nobody =>
       row.by = wf.result /\ row.decision = decider[row.by].verdict
  /\ AuditIsBacked

(* The strengthening behind ClosedIsRecorded: unless set_status was retried, its
   only attempt is past its write before anything is recorded. *)
StatusRetried == \E n \in Tries : n > 1 /\ attempts["set_status"][n] # "none"

StatusSettled ==
  /\ starter \in {"idle", "inserted"} => wf.pc = "absent"
  /\ wf.result # Nobody => wf.pc \in {"record", "closed", "failed"}
  /\ wf.pc = "closed" => wf.result # Nobody /\ row.by = wf.result
  /\ \/ StatusRetried
     \/ /\ wf.pc = "set_status" => wf.try = 1
        /\ wf.pc = "waiting" \/ wf.result # Nobody => attempts["set_status"][1] # "running"
        /\ row.by # Nobody => row.status = row.decision

(* A decision that was accepted takes effect, unless the workflow runs out of
   attempts: one that arrives before the wait is not lost. *)
DecisionTakesEffect ==
  (\E d \in Deciders : decider[d].pc = "accepted")
    ~> (row.by = wf.decision /\ row.by # Nobody) \/ wf.pc = "failed"

(* The outcome of a review is given once, recorded once and never changed. *)
Outcome == INSTANCE ReviewOutcome WITH verdict <- wf.decision, recorded <- row.by
ImplementsOutcome == Outcome!OutcomeSpec
=============================================================================
