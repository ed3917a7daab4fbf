------------------------- MODULE ConnectorHubProofs -------------------------
(***************************************************************************)
(* Proofs about ConnectorHub, for any connectors, requests, managers and     *)
(* access requests: calls stay within the allowlist although its tables are  *)
(* read one after the other, and the desk holds what was asked for.          *)
(***************************************************************************)
EXTENDS ConnectorHub, TLAPS

Handlers == [pc : Phases, kind : Kinds, key : Keys \cup {NoKey}, id : Ids \cup {NoId}]

(* What a handler knows at each phase, from what it read. *)
HandlerSound(r) ==
  LET o == op[r] IN
    /\ o.kind # "none" => o.key \in Keys
    /\ o.pc = "entitled" => o.kind \in {"invoke", "enable"} /\ seen[r].entitled
    /\ o.pc = "ready" => o.kind = "invoke" /\ seen[r].entitled /\ seen[r].enabled
    /\ o.pc = "lacking" => o.kind = "request" /\ seen[r].lacking
    /\ o.pc = "selected" => /\ o.kind = "approve" /\ o.id \in Ids
                            /\ desk[o.id].status # "none" /\ desk[o.id].key = o.key
    /\ o.pc = "done" => /\ o.kind \in {"invoke", "enable"} => seen[r].entitled
                        /\ o.kind = "invoke" => seen[r].enabled
                        /\ o.kind = "request" => seen[r].lacking

(* The rows of the desk: of a connector, each filed by a request for it. *)
DeskSound == \A i \in Ids : desk[i].status # "none" => desk[i].key \in Keys

FiledBy(r, i) == op[r].kind = "request" /\ op[r].pc = "done" /\ op[r].key = desk[i].key
DeskFiled == \A i \in Ids : desk[i].status # "none" => \E r \in Reqs : FiledBy(r, i)

HubInv == TypeOK /\ DeskSound /\ DeskFiled /\ \A r \in Reqs : HandlerSound(r)

(* Rows of the desk are neither removed nor renamed. *)
DeskGrows ==
  \A i \in Ids : desk[i].status # "none" =>
    desk'[i].status # "none" /\ desk'[i].key = desk[i].key

LEMMA InitHub == ASSUME HubAssumption PROVE Init => HubInv
<1> SUFFICES ASSUME Init PROVE HubInv
  OBVIOUS
<1>1. TypeOK
  BY HubAssumption DEF HubAssumption, Init, TypeOK, Idle, Unseen, Entitlement, Enablement,
     DeskStatus, Phases, Kinds
<1>2. DeskSound /\ DeskFiled
  BY DEF Init, DeskSound, DeskFiled
<1>3. \A r \in Reqs : HandlerSound(r)
  BY DEF Init, HandlerSound, Idle
<1> QED BY <1>1, <1>2, <1>3 DEF HubInv

-----------------------------------------------------------------------------
LEMMA Begins ==
  ASSUME TypeOK, NEW r \in Reqs, NEW kind \in Kinds, NEW k \in Keys \cup {NoKey},
         NEW i \in Ids \cup {NoId}, NEW p \in Phases, Begin(r, kind, k, i, p)
  PROVE  /\ op' \in [Reqs -> Handlers]
         /\ \A q \in Reqs \ {r} : op'[q] = op[q]
         /\ op'[r].pc = p /\ op'[r].kind = kind /\ op'[r].key = k /\ op'[r].id = i
BY DEF TypeOK, Begin, Handlers

LEMMA Goes ==
  ASSUME TypeOK, NEW r \in Reqs, NEW p \in Phases, Goto(r, p)
  PROVE  /\ op' \in [Reqs -> Handlers]
         /\ \A q \in Reqs \ {r} : op'[q] = op[q]
         /\ op'[r].pc = p /\ op'[r].kind = op[r].kind /\ op'[r].key = op[r].key
         /\ op'[r].id = op[r].id
<1> DEFINE o == [op[r] EXCEPT !.pc = p]
<1>1. op[r] \in Handlers /\ op \in [Reqs -> Handlers]
  BY DEF TypeOK, Handlers
<1>2. /\ o \in Handlers
      /\ o.pc = p /\ o.kind = op[r].kind /\ o.key = op[r].key /\ o.id = op[r].id
  BY <1>1 DEF Handlers
<1>3. op' = [op EXCEPT ![r] = o]
  BY DEF Goto
<1> HIDE DEF o
<1> QED BY <1>1, <1>2, <1>3

(* What was seen stays seen, and what is true now is seen. *)
LEMMA Sees ==
  ASSUME HubAssumption, Observe, NEW r \in Reqs, op'[r].key \in Keys
  PROVE  LET k == op'[r].key IN
           /\ seen[r].entitled \/ AllowlistHas(ent', k) => seen'[r].entitled
           /\ seen[r].enabled \/ EnabledBy(conn', k) => seen'[r].enabled
           /\ seen[r].lacking \/ ~AllowlistHas(ent', k) => seen'[r].lacking
<1>1. op'[r].key # NoKey
  BY HubAssumption DEF HubAssumption
<1> QED BY <1>1 DEF Observe

LEMMA SeenTyped ==
  ASSUME Observe, seen \in [Reqs -> [entitled : BOOLEAN, enabled : BOOLEAN, lacking : BOOLEAN]]
  PROVE  seen' \in [Reqs -> [entitled : BOOLEAN, enabled : BOOLEAN, lacking : BOOLEAN]]
BY DEF Observe, Unseen

(* The code's check of the allowlist and the allowlist's own definition agree. *)
LEMMA CheckedAllowlist ==
  ASSUME NEW e, NEW k PROVE EntitledBy(e, k) <=> AllowlistHas(e, k)
BY DEF EntitledBy, AllowlistHas, RestrictedBy

(* A step of r keeps the invariant if it keeps the desk and what r knows. *)
LEMMA StepKeeps ==
  ASSUME HubAssumption, HubInv, NEW r \in Reqs, Observe,
         op' \in [Reqs -> Handlers], \A q \in Reqs \ {r} : op'[q] = op[q],
         ent' \in [Keys -> Entitlement], conn' \in [Keys -> Enablement],
         desk' \in [Ids -> [key : Keys \cup {NoKey}, status : DeskStatus]],
         failures' \in 0 .. MaxFailures,
         DeskGrows, DeskSound', HandlerSound(r)', op[r].pc # "done",
         \A i \in Ids : desk[i].status = "none" /\ desk'[i].status # "none" => FiledBy(r, i)'
  PROVE  HubInv'
<1>1. TypeOK'
  BY SeenTyped DEF HubInv, TypeOK, Handlers
<1>2. ASSUME NEW q \in Reqs PROVE HandlerSound(q)'
  <2>1. CASE q = r
    BY <2>1
  <2>2. CASE q # r
    <3>1. op'[q] = op[q] /\ HandlerSound(q)
      BY <2>2 DEF HubInv
    <3>2. op[q].key \in Keys =>
            /\ seen[q].entitled => seen'[q].entitled
            /\ seen[q].enabled => seen'[q].enabled
            /\ seen[q].lacking => seen'[q].lacking
      BY <3>1, Sees
    <3>3. op[q].pc = "selected" =>
            desk'[op[q].id].status # "none" /\ desk'[op[q].id].key = op[q].key
      BY <3>1 DEF HandlerSound, DeskGrows
    <3> QED BY <3>1, <3>2, <3>3 DEF HandlerSound
  <2> QED BY <2>1, <2>2
<1>3. ASSUME NEW i \in Ids, desk'[i].status # "none" PROVE \E q \in Reqs : FiledBy(q, i)'
  <2>1. CASE desk[i].status = "none"
    BY <1>3, <2>1
  <2>2. CASE desk[i].status # "none"
    <3>1. PICK q \in Reqs : FiledBy(q, i)
      BY <2>2 DEF HubInv, DeskFiled
    <3>2. op'[q] = op[q] /\ desk'[i].key = desk[i].key
      BY <2>2, <3>1 DEF FiledBy, DeskGrows
    <3> QED BY <3>1, <3>2 DEF FiledBy
  <2> QED BY <2>1, <2>2
<1> QED BY <1>1, <1>2, <1>3 DEF HubInv, DeskFiled

(* The same, for a step that leaves the desk alone. *)
LEMMA QuietStepKeeps ==
  ASSUME HubAssumption, HubInv, NEW r \in Reqs, Observe,
         op' \in [Reqs -> Handlers], \A q \in Reqs \ {r} : op'[q] = op[q],
         ent' \in [Keys -> Entitlement], conn' \in [Keys -> Enablement],
         UNCHANGED desk, failures' \in 0 .. MaxFailures, HandlerSound(r)',
         op[r].pc # "done"
  PROVE  HubInv'
<1>1. DeskGrows /\ DeskSound'
  BY DEF HubInv, DeskSound, DeskGrows
<1>2. desk' \in [Ids -> [key : Keys \cup {NoKey}, status : DeskStatus]]
  BY DEF HubInv, TypeOK
<1> QED BY <1>1, <1>2, StepKeeps

-----------------------------------------------------------------------------
(* A handler begins with what its first read tells it. *)
LEMMA ReadsKeep ==
  ASSUME HubAssumption, HubInv, NEW r \in Reqs, NEW k \in Keys, Observe,
         Invoke(r, k) \/ Enable(r, k) \/ RequestAccess(r, k)
  PROVE  HubInv'
<1>1. PICK kind \in {"invoke", "enable", "request"},
           p \in {"entitled", "lacking", "refused"} :
        /\ Begin(r, kind, k, NoId, p)
        /\ p = "entitled" => kind # "request" /\ Entitled(k)
        /\ p = "lacking" => kind = "request" /\ ~Entitled(k)
  BY DEF Invoke, Enable, RequestAccess
<1>2. UNCHANGED <<ent, conn, desk, failures>>
  BY DEF Invoke, Enable, RequestAccess, stores
<1>3. kind \in Kinds /\ p \in Phases
  BY DEF Kinds, Phases
<1>4. /\ op' \in [Reqs -> Handlers] /\ op[r].pc # "done"
      /\ \A q \in Reqs \ {r} : op'[q] = op[q]
      /\ op'[r].pc = p /\ op'[r].kind = kind /\ op'[r].key = k
  BY <1>1, <1>3, Begins DEF HubInv, Begin
<1>5. /\ Entitled(k) => seen'[r].entitled
      /\ ~Entitled(k) => seen'[r].lacking
  <2>1. Entitled(k) <=> AllowlistHas(ent', k)
    BY <1>2, CheckedAllowlist DEF Entitled
  <2> QED BY <1>4, <2>1, Sees
<1>6. HandlerSound(r)'
  BY <1>1, <1>4, <1>5 DEF HandlerSound
<1> QED BY <1>2, <1>4, <1>6, QuietStepKeeps DEF HubInv, TypeOK

(* Requests that are answered by their first statement. *)
LEMMA WritesKeep ==
  ASSUME HubAssumption, HubInv, NEW r \in Reqs, NEW k \in Keys \cup {NoKey}, Observe,
         Begin(r, "none", k, NoId, "done"),
         ent' \in [Keys -> Entitlement], conn' \in [Keys -> Enablement],
         UNCHANGED <<desk, failures>>
  PROVE  HubInv'
<1>1. /\ op' \in [Reqs -> Handlers] /\ op[r].pc # "done"
      /\ \A q \in Reqs \ {r} : op'[q] = op[q]
      /\ op'[r].pc = "done" /\ op'[r].kind = "none"
  BY Begins DEF HubInv, Kinds, Phases, Begin
<1>2. HandlerSound(r)'
  BY <1>1 DEF HandlerSound
<1> QED BY <1>1, <1>2, QuietStepKeeps DEF HubInv, TypeOK

LEMMA AllowlistKeeps ==
  ASSUME HubAssumption, HubInv, NEW r \in Reqs, Observe,
         \/ GrantDefaults(r)
         \/ \E k \in Keys : Disable(r, k)
         \/ \E k \in Keys, allowed \in BOOLEAN : SetEntitlement(r, k, allowed)
  PROVE  HubInv'
<1>1. ent \in [Keys -> Entitlement] /\ conn \in [Keys -> Enablement]
  BY DEF HubInv, TypeOK
<1>2. CASE GrantDefaults(r)
  <2>1. ent' \in [Keys -> Entitlement] /\ conn' \in [Keys -> Enablement]
    BY <1>1, <1>2 DEF GrantDefaults, Entitlement
  <2> QED BY <1>2, <2>1, WritesKeep DEF GrantDefaults
<1>3. ASSUME NEW k \in Keys, Disable(r, k) PROVE HubInv'
  <2>1. ent' \in [Keys -> Entitlement] /\ conn' \in [Keys -> Enablement]
    BY <1>1, <1>3 DEF Disable, Enablement
  <2> QED BY <1>3, <2>1, WritesKeep DEF Disable
<1>4. ASSUME NEW k \in Keys, NEW allowed \in BOOLEAN, SetEntitlement(r, k, allowed)
      PROVE  HubInv'
  <2>1. ent' \in [Keys -> Entitlement] /\ conn' \in [Keys -> Enablement]
    BY <1>1, <1>4 DEF SetEntitlement, Entitlement
  <2> QED BY <1>4, <2>1, WritesKeep DEF SetEntitlement
<1> QED BY <1>2, <1>3, <1>4

LEMMA SelectKeeps ==
  ASSUME HubAssumption, HubInv, NEW r \in Reqs, NEW i \in Ids, Observe,
         desk[i].status # "none", SelectPending(r, i)
  PROVE  HubInv'
<1>1. PICK p \in {"selected", "refused"} : Begin(r, "approve", desk[i].key, i, p)
  BY DEF SelectPending
<1>2. desk[i].key \in Keys /\ UNCHANGED <<ent, conn, desk, failures>>
  BY DEF HubInv, DeskSound, SelectPending, stores
<1>3. /\ op' \in [Reqs -> Handlers] /\ op[r].pc # "done"
      /\ \A q \in Reqs \ {r} : op'[q] = op[q]
      /\ op'[r].pc = p /\ op'[r].kind = "approve" /\ op'[r].key = desk[i].key
      /\ op'[r].id = i
  BY <1>1, <1>2, Begins DEF HubInv, Kinds, Phases, Begin
<1>4. HandlerSound(r)'
  BY <1>2, <1>3 DEF HandlerSound
<1> QED BY <1>2, <1>3, <1>4, QuietStepKeeps DEF HubInv, TypeOK

LEMMA RejectKeeps ==
  ASSUME HubAssumption, HubInv, NEW r \in Reqs, NEW i \in Ids, Observe,
         desk[i].status # "none", Reject(r, i)
  PROVE  HubInv'
<1>1. PICK p \in {"done", "refused"} : Begin(r, "none", desk[i].key, i, p)
  BY DEF Reject
<1>2. desk[i].key \in Keys /\ UNCHANGED <<ent, conn, failures>>
  BY DEF HubInv, DeskSound, Reject
<1>3. /\ op' \in [Reqs -> Handlers] /\ op[r].pc # "done"
      /\ \A q \in Reqs \ {r} : op'[q] = op[q]
      /\ op'[r].pc = p /\ op'[r].kind = "none"
  BY <1>1, <1>2, Begins DEF HubInv, Kinds, Phases, Begin
<1>4. HandlerSound(r)'
  BY <1>3 DEF HandlerSound
<1>5. UNCHANGED desk \/ desk' = [desk EXCEPT ![i].status = "rejected"]
  BY DEF Reject
<1>6. /\ desk' \in [Ids -> [key : Keys \cup {NoKey}, status : DeskStatus]]
      /\ \A j \in Ids : /\ desk'[j].key = desk[j].key
                        /\ desk'[j].status \in {desk[j].status, "rejected"}
                        /\ desk'[j].status = "rejected" => desk[j].status # "none"
  BY <1>5 DEF HubInv, TypeOK, DeskStatus
<1>7. DeskGrows /\ DeskSound'
  BY <1>6 DEF DeskGrows, DeskSound, HubInv
<1>8. \A j \in Ids : desk[j].status = "none" => desk'[j].status = "none"
  BY <1>6
<1> QED BY <1>2, <1>3, <1>4, <1>6, <1>7, <1>8, StepKeeps DEF HubInv, TypeOK

-----------------------------------------------------------------------------
LEMMA InvokeGoesOn ==
  ASSUME HubAssumption, HubInv, NEW r \in Reqs, Observe,
         ReadState(r) \/ CallProvider(r) \/ WriteEnabled(r)
  PROVE  HubInv'
<1>1. PICK p \in {"ready", "refused", "done"} :
        /\ Goto(r, p)
        /\ p = "ready" => ReadState(r) /\ EnabledBy(conn, op[r].key)
        /\ p = "done" => CallProvider(r) \/ WriteEnabled(r)
  BY DEF ReadState, CallProvider, WriteEnabled
<1>2. /\ UNCHANGED <<ent, desk, failures>>
      /\ ReadState(r) => conn' = conn
      /\ conn' \in [Keys -> Enablement]
  <2>1. conn \in [Keys -> Enablement]
    BY DEF HubInv, TypeOK
  <2> QED BY <2>1 DEF ReadState, CallProvider, WriteEnabled, stores, Enablement
<1>3. /\ op' \in [Reqs -> Handlers]
      /\ \A q \in Reqs \ {r} : op'[q] = op[q]
      /\ op'[r].pc = p /\ op'[r].kind = op[r].kind /\ op'[r].key = op[r].key
  BY <1>1, Goes DEF HubInv, Phases
<1>4. HandlerSound(r) /\ op[r].pc # "done"
  BY DEF HubInv, ReadState, CallProvider, WriteEnabled
<1>5. /\ op[r].kind \in {"invoke", "enable"} /\ op[r].key \in Keys /\ seen[r].entitled
      /\ ReadState(r) => op[r].kind = "invoke"
      /\ CallProvider(r) => seen[r].enabled
      /\ WriteEnabled(r) => op[r].kind = "enable"
  BY <1>4 DEF HandlerSound, ReadState, CallProvider, WriteEnabled
<1>6. /\ seen'[r].entitled
      /\ p = "ready" => seen'[r].enabled
      /\ p = "done" /\ op[r].kind = "invoke" => seen'[r].enabled
  BY <1>1, <1>2, <1>3, <1>5, Sees
<1>7. HandlerSound(r)'
  BY <1>1, <1>3, <1>5, <1>6 DEF HandlerSound
<1> QED BY <1>2, <1>3, <1>4, <1>7, QuietStepKeeps DEF HubInv, TypeOK

LEMMA InsertKeeps ==
  ASSUME HubAssumption, HubInv, NEW r \in Reqs, Observe, InsertRequest(r)
  PROVE  HubInv'
<1> DEFINE k == op[r].key
<1>1. HandlerSound(r) /\ op[r].pc = "lacking" /\ UNCHANGED <<ent, conn, failures>>
  BY DEF HubInv, InsertRequest
<1>2. op[r].kind = "request" /\ k \in Keys /\ seen[r].lacking
  BY <1>1 DEF HandlerSound
<1>3. /\ op' \in [Reqs -> Handlers]
      /\ \A q \in Reqs \ {r} : op'[q] = op[q]
      /\ op'[r].pc = "done" /\ op'[r].kind = "request" /\ op'[r].key = k
  BY <1>2, Goes DEF InsertRequest, HubInv, Phases
<1>4. HandlerSound(r)'
  <2>1. seen'[r].lacking
    BY <1>2, <1>3, Sees
  <2> QED BY <1>2, <1>3, <2>1 DEF HandlerSound
<1>5. CASE UNCHANGED desk
  BY <1>1, <1>3, <1>4, <1>5, QuietStepKeeps DEF HubInv, TypeOK
<1>6. ASSUME NEW i \in Ids, desk[i].status = "none",
             desk' = [desk EXCEPT ![i] = [key |-> k, status |-> "pending"]]
      PROVE  HubInv'
  <2>1. /\ desk' \in [Ids -> [key : Keys \cup {NoKey}, status : DeskStatus]]
        /\ desk'[i].key = k /\ desk'[i].status = "pending"
        /\ \A j \in Ids \ {i} : desk'[j] = desk[j]
    BY <1>2, <1>6 DEF HubInv, TypeOK, DeskStatus
  <2>2. DeskGrows
    BY <1>6, <2>1 DEF DeskGrows
  <2>3. FiledBy(r, i)'
    BY <1>3, <2>1 DEF FiledBy
  <2>4. DeskSound'
    BY <1>2, <2>1 DEF DeskSound, HubInv
  <2>5. \A j \in Ids : desk[j].status = "none" /\ desk'[j].status # "none" => FiledBy(r, j)'
    BY <2>1, <2>3
  <2> QED BY <1>1, <1>3, <1>4, <2>1, <2>2, <2>4, <2>5, StepKeeps DEF HubInv, TypeOK
<1> QED BY <1>5, <1>6 DEF InsertRequest

LEMMA CommitKeeps ==
  ASSUME HubAssumption, HubInv, NEW r \in Reqs, Observe, CommitApproval(r)
  PROVE  HubInv'
<1> DEFINE i == op[r].id
<1>1. /\ i \in Ids /\ desk[i].status # "none" /\ op[r].kind = "approve" /\ op[r].pc # "done"
      /\ UNCHANGED <<conn, failures>>
  BY DEF HubInv, HandlerSound, CommitApproval
<1>2. /\ op' \in [Reqs -> Handlers]
      /\ \A q \in Reqs \ {r} : op'[q] = op[q]
      /\ op'[r].pc = "done" /\ op'[r].kind = "approve" /\ op'[r].key = op[r].key
  BY <1>1, Goes DEF CommitApproval, HubInv, Phases
<1>3. HandlerSound(r)'
  BY <1>1, <1>2 DEF HandlerSound, HubInv
<1>4. ent' \in [Keys -> Entitlement]
  BY DEF CommitApproval, HubInv, TypeOK, Entitlement
<1>5. /\ desk' \in [Ids -> [key : Keys \cup {NoKey}, status : DeskStatus]]
      /\ desk'[i].status = "approved" /\ desk'[i].key = desk[i].key
      /\ \A j \in Ids \ {i} : desk'[j] = desk[j]
  BY <1>1 DEF CommitApproval, HubInv, TypeOK, DeskStatus
<1>6. /\ DeskGrows /\ DeskSound'
      /\ \A j \in Ids : desk[j].status = "none" => desk'[j].status = "none"
  BY <1>1, <1>5 DEF DeskGrows, DeskSound, HubInv
<1> QED BY <1>1, <1>2, <1>3, <1>4, <1>5, <1>6, StepKeeps DEF HubInv, TypeOK

LEMMA FailKeeps ==
  ASSUME HubAssumption, HubInv, NEW r \in Reqs, Observe, Fail(r)
  PROVE  HubInv'
<1>1. /\ op' \in [Reqs -> Handlers] /\ op[r].pc # "done"
      /\ \A q \in Reqs \ {r} : op'[q] = op[q]
      /\ op'[r].pc = "failed" /\ op'[r].kind = op[r].kind /\ op'[r].key = op[r].key
  BY Goes DEF Fail, HubInv, Phases
<1>2. UNCHANGED <<ent, conn, desk>> /\ failures' \in 0 .. MaxFailures
  BY HubAssumption DEF HubAssumption, Fail, stores, HubInv, TypeOK
<1>3. HandlerSound(r)'
  BY <1>1 DEF HandlerSound, HubInv
<1> QED BY <1>1, <1>2, <1>3, QuietStepKeeps DEF HubInv, TypeOK

-----------------------------------------------------------------------------
LEMMA NextKeepsHub ==
  ASSUME HubAssumption, HubInv, [Next]_vars
  PROVE  HubInv'
<1>1. CASE UNCHANGED vars
  BY <1>1 DEF HubInv, TypeOK, DeskSound, DeskFiled, FiledBy, HandlerSound, vars
<1>2. CASE Next
  <2>1. PICK r \in Reqs : Ask(r) \/ Continue(r) \/ Fail(r)
    BY <1>2 DEF Next
  <2>2. Observe
    BY <1>2 DEF Next
  <2>3. CASE Ask(r)
    <3>1. CASE GrantDefaults(r)
      BY <2>2, <3>1, AllowlistKeeps
    <3>2. ASSUME NEW k \in Keys,
                 \/ Invoke(r, k) \/ Enable(r, k) \/ Disable(r, k) \/ RequestAccess(r, k)
                 \/ \E allowed \in BOOLEAN : SetEntitlement(r, k, allowed)
          PROVE  HubInv'
      <4>1. CASE Invoke(r, k) \/ Enable(r, k) \/ RequestAccess(r, k)
        BY <2>2, <4>1, ReadsKeep
      <4>2. CASE Disable(r, k) \/ \E allowed \in BOOLEAN : SetEntitlement(r, k, allowed)
        BY <2>2, <4>2, AllowlistKeeps
      <4> QED BY <3>2, <4>1, <4>2
    <3>3. ASSUME NEW i \in Ids, desk[i].status # "none", SelectPending(r, i) \/ Reject(r, i)
          PROVE  HubInv'
      BY <2>2, <3>3, SelectKeeps, RejectKeeps
    <3> QED BY <2>3, <3>1, <3>2, <3>3 DEF Ask
  <2>4. CASE Continue(r)
    BY <2>2, <2>4, InvokeGoesOn, InsertKeeps, CommitKeeps DEF Continue
  <2>5. CASE Fail(r)
    BY <2>2, <2>5, FailKeeps
  <2> QED BY <2>1, <2>3, <2>4, <2>5
<1> QED BY <1>1, <1>2

(* The types, what handlers know and the desk's rows, in every reachable state. *)
THEOREM HubStaysSound == ASSUME HubAssumption PROVE Spec => []HubInv
<1>1. Init => HubInv
  BY InitHub
<1>2. HubInv /\ [Next]_vars => HubInv'
  BY NextKeepsHub
<1> QED BY <1>1, <1>2, PTL DEF Spec

(* invoke and configure act only on what the allowlist had, and for a call the
   tenant had enabled, since the request arrived, whatever is revoked meanwhile. *)
THEOREM CallsAlwaysAuthorised == ASSUME HubAssumption PROVE Spec => []CallsAuthorised
<1>1. HubInv => CallsAuthorised
  BY DEF HubInv, HandlerSound, CallsAuthorised
<1> QED BY <1>1, HubStaysSound, PTL

(* Behind every row of the desk stands a request of the connector that was lacking
   at some moment since it arrived. *)
THEOREM DeskAlwaysInOrder == ASSUME HubAssumption PROVE Spec => []DeskInOrder
<1>1. HubInv => DeskInOrder
  BY DEF HubInv, DeskFiled, FiledBy, HandlerSound, DeskInOrder
<1> QED BY <1>1, HubStaysSound, PTL
=============================================================================
