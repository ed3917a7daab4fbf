---------------------------- MODULE ConnectorHub ----------------------------
(***************************************************************************)
(* The Connector Hub of one tenant, services/connectors/src/connectors/     *)
(* main.py: the entitlement allowlist, the enabled flags and the access      *)
(* requests.  Each HTTP request is a handler; a handler that reads in one    *)
(* transaction and acts in another keeps what it saw, and other handlers     *)
(* run in between.  Operators named after a definition with a fault appended *)
(* are faulty variants of it that the properties must notice.                *)
(***************************************************************************)
EXTENDS Naturals

CONSTANTS
  Keys,        \* the connectors of the registry
  References,  \* those of kind "reference" (echo)
  Reqs,        \* the HTTP requests, each made at most once
  Managers,    \* the requests made by an owner or admin
  Ids,         \* ids of access requests; bounds how many are inserted
  MaxFailures  \* bound on the handlers that die before they answer

NoId  == "none"
NoKey == "none"

ASSUME HubAssumption ==
  /\ NoKey \notin Keys
  /\ References \subseteq Keys
  /\ Managers \subseteq Reqs
  /\ MaxFailures \in Nat

VARIABLES
  ent,       \* connector_entitlements: no row, allowed or denied
  conn,      \* connectors.enabled: no row, enabled or disabled
  desk,      \* connector_access_requests: key and status of each id
  op,        \* the handler of each request
  seen,      \* history: what was true of its connector since a request began
  failures   \* handlers that died so far

vars == <<ent, conn, desk, op, seen, failures>>
stores == <<ent, conn, desk>>

Entitlement == {"none", "allowed", "denied"}
Enablement  == {"none", "enabled", "disabled"}
DeskStatus  == {"none", "pending", "approved", "rejected"}
Kinds  == {"none", "invoke", "enable", "request", "approve"}
Phases == {"idle", "entitled", "ready", "lacking", "selected", "done", "refused", "failed"}

Idle == [pc |-> "idle", kind |-> "none", key |-> NoKey, id |-> NoId]
Unseen == [entitled |-> FALSE, enabled |-> FALSE, lacking |-> FALSE]

Init ==
  /\ ent = [k \in Keys |-> "none"]
  /\ conn = [k \in Keys |-> "none"]
  /\ desk = [i \in Ids |-> [key |-> NoKey, status |-> "none"]]
  /\ op = [r \in Reqs |-> Idle]
  /\ seen = [r \in Reqs |-> Unseen]
  /\ failures = 0

-----------------------------------------------------------------------------
EntitledIfAnyGrant(e, k) ==
  \/ k \in References
  \/ \A j \in Keys : e[j] # "allowed"
  \/ e[k] = "allowed"

(* _entitlement_view and _is_entitled on the entitlement rows e: a tenant is
   restricted as soon as it has any row, and then only allowed keys are usable. *)
RestrictedBy(e) == \E k \in Keys : e[k] # "none"
EntitledBy(e, k) == k \in References \/ ~RestrictedBy(e) \/ e[k] = "allowed"

EnabledBy(c, k) == k \in References \/ c[k] = "enabled"

Entitled(k) == EntitledBy(ent, k)

Pending(k) == {i \in Ids : desk[i].key = k /\ desk[i].status = "pending"}

Begin(r, kind, k, i, p) ==
  /\ op[r].pc = "idle"
  /\ op' = [op EXCEPT ![r] = [pc |-> p, kind |-> kind, key |-> k, id |-> i]]

Goto(r, p) == op' = [op EXCEPT ![r].pc = p]

-----------------------------------------------------------------------------
(* invoke: the entitlement, then the enabled flag, then the provider. *)
Invoke(r, k) ==
  /\ Begin(r, "invoke", k, NoId, IF Entitled(k) THEN "entitled" ELSE "refused")
  /\ UNCHANGED <<stores, failures>>

ReadState(r) ==
  /\ op[r].pc = "entitled" /\ op[r].kind = "invoke"
  /\ Goto(r, IF EnabledBy(conn, op[r].key) THEN "ready" ELSE "refused")
  /\ UNCHANGED <<stores, failures>>

(* The connector runs, or rejects the tool or its arguments (a 422). *)
CallProvider(r) ==
  /\ op[r].pc = "ready"
  /\ \E p \in {"done", "refused"} : Goto(r, p)
  /\ UNCHANGED <<stores, failures>>

(* configure: enabling checks the entitlement in a transaction of its own;
   disabling is always allowed. *)
Enable(r, k) ==
  /\ r \in Managers
  /\ Begin(r, "enable", k, NoId, IF Entitled(k) THEN "entitled" ELSE "refused")
  /\ UNCHANGED <<stores, failures>>

WriteEnabled(r) ==
  /\ op[r].pc = "entitled" /\ op[r].kind = "enable"
  /\ conn' = [conn EXCEPT ![op[r].key] = "enabled"]
  /\ Goto(r, "done")
  /\ UNCHANGED <<ent, desk, failures>>

Disable(r, k) ==
  /\ r \in Managers
  /\ Begin(r, "none", k, NoId, "done")
  /\ conn' = [conn EXCEPT ![k] = "disabled"]
  /\ UNCHANGED <<ent, desk, failures>>

(* set_entitlement: one upsert, granting or revoking. *)
SetEntitlement(r, k, allowed) ==
  /\ r \in Managers
  /\ Begin(r, "none", k, NoId, "done")
  /\ ent' = [ent EXCEPT ![k] = IF allowed THEN "allowed" ELSE "denied"]
  /\ UNCHANGED <<conn, desk, failures>>

(* grant_default_entitlements: every connector but the reference ones. *)
GrantDefaults(r) ==
  /\ r \in Managers
  /\ Begin(r, "none", NoKey, NoId, "done")
  /\ ent' = [k \in Keys |-> IF k \in References THEN ent[k] ELSE "allowed"]
  /\ UNCHANGED <<conn, desk, failures>>

-----------------------------------------------------------------------------
RequestAccessByRow(r, k) ==
  /\ Begin(r, "request", k, NoId,
           IF k \in References \/ ent[k] = "allowed" THEN "refused" ELSE "lacking")
  /\ UNCHANGED <<stores, failures>>

(* request_access: refused when the connector is available, ... *)
RequestAccess(r, k) ==
  /\ Begin(r, "request", k, NoId, IF Entitled(k) THEN "refused" ELSE "lacking")
  /\ UNCHANGED <<stores, failures>>

(* ... then INSERT ... ON CONFLICT (one pending row per connector) DO NOTHING. *)
InsertRequest(r) ==
  /\ op[r].pc = "lacking"
  /\ \/ /\ Pending(op[r].key) # {}
        /\ UNCHANGED desk
     \/ /\ Pending(op[r].key) = {}
        /\ \E i \in Ids :
             /\ desk[i].status = "none"
             /\ desk' = [desk EXCEPT ![i] = [key |-> op[r].key, status |-> "pending"]]
  /\ Goto(r, "done")
  /\ UNCHANGED <<ent, conn, failures>>

(* approve_access_request, first statement: find the pending row. *)
SelectPending(r, i) ==
  /\ r \in Managers
  /\ Begin(r, "approve", desk[i].key, i,
           IF desk[i].status = "pending" THEN "selected" ELSE "refused")
  /\ UNCHANGED <<stores, failures>>

(* The rest of the transaction.  The UPDATE names the row by id only, so it
   does not see that the row was decided in the meantime; it locks the row, so
   no other decision falls between it and the commit. *)
CommitApproval(r) ==
  /\ op[r].pc = "selected"
  /\ desk' = [desk EXCEPT ![op[r].id].status = "approved"]
  /\ ent' = [ent EXCEPT ![op[r].key] = "allowed"]
  /\ Goto(r, "done")
  /\ UNCHANGED <<conn, failures>>

(* reject_access_request: a single guarded UPDATE, a 404 if no row matched. *)
Reject(r, i) ==
  /\ r \in Managers
  /\ \/ /\ desk[i].status = "pending"
        /\ desk' = [desk EXCEPT ![i].status = "rejected"]
        /\ Begin(r, "none", desk[i].key, i, "done")
     \/ /\ desk[i].status # "pending"
        /\ UNCHANGED desk
        /\ Begin(r, "none", desk[i].key, i, "refused")
  /\ UNCHANGED <<ent, conn, failures>>

(* The handler dies between two transactions; an open one is rolled back. *)
Fail(r) ==
  /\ op[r].pc \in {"entitled", "ready", "lacking", "selected"}
  /\ failures < MaxFailures
  /\ failures' = failures + 1
  /\ Goto(r, "failed")
  /\ UNCHANGED stores

-----------------------------------------------------------------------------
Continue(r) ==
  \/ ReadState(r) \/ CallProvider(r) \/ WriteEnabled(r)
  \/ InsertRequest(r) \/ CommitApproval(r)

Ask(r) ==
  \/ GrantDefaults(r)
  \/ \E k \in Keys :
       \/ Invoke(r, k) \/ Enable(r, k) \/ Disable(r, k) \/ RequestAccess(r, k)
       \/ \E allowed \in BOOLEAN : SetEntitlement(r, k, allowed)
  \/ \E i \in Ids : desk[i].status # "none" /\ (SelectPending(r, i) \/ Reject(r, i))

(* What the allowlist says of a connector, independently of the code's check:
   no rows at all, or a row that allows it. *)
AllowlistHas(e, k) ==
  k \in References \/ {j \in Keys : e[j] # "none"} = {} \/ e[k] = "allowed"

(* History: what each request could have seen since it began. *)
Observe ==
  seen' = [r \in Reqs |->
    IF op'[r].key = NoKey THEN Unseen
    ELSE LET k == op'[r].key IN
         [entitled |-> seen[r].entitled \/ AllowlistHas(ent', k),
          enabled  |-> seen[r].enabled \/ EnabledBy(conn', k),
          lacking  |-> seen[r].lacking \/ ~AllowlistHas(ent', k)]]

Next == (\E r \in Reqs : Ask(r) \/ Continue(r) \/ Fail(r)) /\ Observe

Spec == Init /\ [][Next]_vars

-----------------------------------------------------------------------------
(* Type invariant. *)
TypeOK ==
  /\ ent \in [Keys -> Entitlement]
  /\ conn \in [Keys -> Enablement]
  /\ desk \in [Ids -> [key : Keys \cup {NoKey}, status : DeskStatus]]
  /\ op \in [Reqs -> [pc : Phases, kind : Kinds, key : Keys \cup {NoKey},
                      id : Ids \cup {NoId}]]
  /\ seen \in [Reqs -> [entitled : BOOLEAN, enabled : BOOLEAN, lacking : BOOLEAN]]
  /\ failures \in 0 .. MaxFailures

(* A connector is called, or enabled, only if the allowlist had it at some
   moment since the request arrived, and a call only if it was enabled at some
   moment too: what was revoked before a request arrived is out of its reach,
   although invoke reads the two tables in two transactions. *)
CallsAuthorised ==
  \A r \in Reqs : op[r].pc = "done" =>
    /\ op[r].kind \in {"invoke", "enable"} => seen[r].entitled
    /\ op[r].kind = "invoke" => seen[r].enabled

(* Whatever grants and revocations run beside it, a row reaches the desk only
   through a request whose connector the allowlist lacked at some moment since
   that request arrived: in particular a tenant without any row, to whom all is
   available, files none. *)
DeskInOrder ==
  \A i \in Ids : desk[i].status # "none" =>
    \E r \in Reqs : /\ op[r].kind = "request" /\ op[r].pc = "done"
                    /\ op[r].key = desk[i].key
                    /\ seen[r].lacking

(***************************************************************************)
(* What the documentation says and the code does not ensure.               *)
(***************************************************************************)

(* approve and reject act on a pending request: a decided one keeps its verdict. *)
VerdictIsFinal ==
  [][\A i \in Ids : desk[i].status \in {"approved", "rejected"} =>
       desk'[i].status = desk[i].status]_desk
=============================================================================
