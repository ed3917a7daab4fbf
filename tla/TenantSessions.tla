--------------------------- MODULE TenantSessions ---------------------------
(***************************************************************************)
(* A request inside a service: the middleware that binds the tenant context *)
(* (ai_os_shared/app.py), the database sessions opened under it              *)
(* (ai_os_shared/db.py) on a pool of connections, and the row-level-security *)
(* policy every tenant-owned table carries.  A connection outlives the       *)
(* request that used it, and so may what was set on it.                     *)
(*                                                                         *)
(* Operators named after a definition with a fault appended are faulty      *)
(* variants that the properties must notice.                                *)
(***************************************************************************)
EXTENDS Naturals

CONSTANTS
  Requests,     \* the requests a service handles
  Tenants,
  Connections,  \* the engine's connections: pool_size plus max_overflow
  NoTenant,     \* app.tenant_id not set; a request without a context
  NoRequest,    \* a connection that is in the pool
  MaxSessions   \* bound: sessions a request opens, one after the other

ASSUME SessionsAssumption ==
  /\ NoTenant \notin Tenants
  /\ NoRequest \notin Requests
  /\ MaxSessions \in Nat

VARIABLES
  task,   \* the handling of each request: where it is, its context and session
  conn,   \* each connection: who holds it, app.tenant_id, uncommitted rows
  table   \* the committed rows of the tenant-owned tables

sessionVars == <<task, conn, table>>

Scopes == Tenants \cup {NoTenant}
Rows   == [tenant : Tenants, by : Requests]

Tasks == [pc : {"none", "bound", "waiting", "begun", "open", "closing", "ended"},
          ctx : Scopes,          \* the TenantContext it runs under
          from : {"header", "body"},  \* what names the tenant of its context
          scope : Scopes,        \* the tenant its session is for; none: admin_session
          seen : SUBSET Rows,    \* what it has read in that session
          sessions : Nat]
Conns == [user : Requests \cup {NoRequest}, setting : Scopes, pending : SUBSET Rows]

SessionsInit ==
  /\ task = [r \in Requests |-> [pc |-> "none", ctx |-> NoTenant, from |-> "header",
                                 scope |-> NoTenant, seen |-> {}, sessions |-> 0]]
  /\ conn = [c \in Connections |->
               [user |-> NoRequest, setting |-> NoTenant, pending |-> {}]]
  /\ table = {}

TaskIs(r, k) == task' = [task EXCEPT ![r] = k]
ConnIs(c, k) == conn' = [conn EXCEPT ![c] = k]

-----------------------------------------------------------------------------
(* The dispatch of TenantContextMiddleware: the handler runs under the context
   of the header ... *)
Receive(r, t) ==
  /\ task[r].pc = "none"
  /\ TaskIs(r, [task[r] EXCEPT !.pc = "bound", !.ctx = t])
  /\ UNCHANGED <<conn, table>>

(* ... unless its path is exempt, as /internal/* is: such a handler opens its
   sessions for the tenant its request's body names, or for none. *)
ReceiveExempt(r, t) ==
  /\ task[r].pc = "none"
  /\ TaskIs(r, [task[r] EXCEPT !.pc = "bound", !.ctx = t, !.from = "body"])
  /\ UNCHANGED <<conn, table>>

(* reset_context, when the handler has returned or raised. *)
EndTask(r) ==
  /\ task[r].pc = "bound"
  /\ TaskIs(r, [task[r] EXCEPT !.pc = "ended", !.ctx = NoTenant])
  /\ UNCHANGED <<conn, table>>

(* tenant_session(): refused where no context is bound ... *)
OpenTenantSession(r) ==
  /\ task[r].pc = "bound"
  /\ task[r].ctx # NoTenant
  /\ task[r].sessions < MaxSessions
  /\ TaskIs(r, [task[r] EXCEPT !.pc = "waiting", !.scope = task[r].ctx,
                              !.sessions = @ + 1])
  /\ UNCHANGED <<conn, table>>

(* ... and admin_session(), for control-plane tables and health checks. *)
OpenAdminSession(r) ==
  /\ task[r].pc = "bound"
  /\ task[r].sessions < MaxSessions
  /\ TaskIs(r, [task[r] EXCEPT !.pc = "waiting", !.scope = NoTenant,
                              !.sessions = @ + 1])
  /\ UNCHANGED <<conn, table>>

(* The first statement takes a connection out of the pool, ... *)
Checkout(r, c) ==
  /\ task[r].pc = "waiting"
  /\ conn[c].user = NoRequest
  /\ ConnIs(c, [conn[c] EXCEPT !.user = r])
  /\ TaskIs(r, [task[r] EXCEPT !.pc = IF task[r].scope = NoTenant THEN "open" ELSE "begun"])
  /\ UNCHANGED table

(* ... or gets none: pool_timeout has passed, or the database is away. *)
NoConnection(r) ==
  /\ task[r].pc = "waiting"
  /\ TaskIs(r, [task[r] EXCEPT !.pc = "bound", !.scope = NoTenant])
  /\ UNCHANGED <<conn, table>>

(* set_config('app.tenant_id', :tid, true) *)
SetTenant(r, c) ==
  /\ task[r].pc = "begun"
  /\ conn[c].user = r
  /\ ConnIs(c, [conn[c] EXCEPT !.setting = task[r].scope])
  /\ TaskIs(r, [task[r] EXCEPT !.pc = "open"])
  /\ UNCHANGED table

(* The policy's USING clause: where nothing is set, no row qualifies. *)
Visible(c) == {row \in table \cup conn[c].pending : row.tenant = conn[c].setting}

(* A SELECT that has no condition on the tenant.  The handlers of exempt paths
   only insert. *)
Read(r, c) ==
  /\ task[r].pc = "open"
  /\ task[r].from = "header"
  /\ conn[c].user = r
  /\ TaskIs(r, [task[r] EXCEPT !.seen = @ \cup Visible(c)])
  /\ UNCHANGED <<conn, table>>

(* An INSERT of the context's tenant, as the WITH CHECK clause wants it. *)
Insert(r, c) ==
  /\ task[r].pc = "open"
  /\ task[r].scope # NoTenant
  /\ conn[c].user = r
  /\ conn[c].setting = task[r].scope
  /\ ConnIs(c, [conn[c] EXCEPT !.pending = @ \cup {[tenant |-> task[r].scope, by |-> r]}])
  /\ UNCHANGED <<task, table>>

EndedForSession(k) == [k EXCEPT !.pending = {}]

(* What a transaction's end leaves on its connection: the third argument of
   set_config makes the setting local to the transaction. *)
Ended(k) == [k EXCEPT !.pending = {}, !.setting = NoTenant]

Commit(r, c) ==
  /\ task[r].pc = "open"
  /\ conn[c].user = r
  /\ table' = table \cup conn[c].pending
  /\ ConnIs(c, Ended(conn[c]))
  /\ TaskIs(r, [task[r] EXCEPT !.pc = "closing"])

(* `except`: a statement, the commit or the code in the session has raised. *)
Rollback(r, c) ==
  /\ task[r].pc \in {"begun", "open"}
  /\ conn[c].user = r
  /\ ConnIs(c, Ended(conn[c]))
  /\ TaskIs(r, [task[r] EXCEPT !.pc = "closing"])
  /\ UNCHANGED table

(* `finally`: the connection goes back to the pool.  A cancelled request, whose
   CancelledError passes `except Exception` by, comes here from the middle of
   its transaction, and returning the connection rolls that back. *)
Close(r, c) ==
  /\ task[r].pc \in {"closing", "begun", "open"}
  /\ conn[c].user = r
  /\ ConnIs(c, [Ended(conn[c]) EXCEPT !.user = NoRequest])
  /\ TaskIs(r, [task[r] EXCEPT !.pc = "bound", !.scope = NoTenant, !.seen = {}])
  /\ UNCHANGED table

-----------------------------------------------------------------------------
(* What a request does once it is received. *)
Handle(r) ==
  \/ EndTask(r) \/ OpenTenantSession(r) \/ OpenAdminSession(r)
  \/ NoConnection(r)
  \/ \E c \in Connections :
       \/ Checkout(r, c) \/ SetTenant(r, c) \/ Read(r, c) \/ Insert(r, c)
       \/ Commit(r, c) \/ Rollback(r, c) \/ Close(r, c)

-----------------------------------------------------------------------------
SessionsTypeOK ==
  /\ task \in [Requests -> Tasks]
  /\ conn \in [Connections -> Conns]
  /\ table \subseteq Rows

Holding == {"begun", "open", "closing"}

(* The strengthening behind tenant isolation: a connection in the pool carries
   neither a setting nor uncommitted rows; a held one is set for nobody but its
   holder's session and is its holder's only one; a session is for the context
   of its request. *)
TaskSound(k) ==
  /\ k.scope \in {NoTenant, k.ctx}
  /\ \A row \in k.seen : row.tenant = k.scope
  /\ k.from = "body" => k.seen = {}
  /\ k.pc \in {"none", "bound", "ended"} => k.scope = NoTenant
  /\ k.pc \notin {"open", "closing"} => k.seen = {}
  /\ k.pc = "none" => k.ctx = NoTenant

ConnSound(c) ==
  LET r == conn[c].user IN
    /\ r = NoRequest => conn[c].setting = NoTenant /\ conn[c].pending = {}
    /\ r # NoRequest =>
         /\ task[r].pc \in Holding
         /\ conn[c].setting \in {NoTenant, task[r].scope}
         /\ \A row \in conn[c].pending : row.tenant = task[r].scope
         /\ \A d \in Connections : conn[d].user = r => d = c

SessionsSound ==
  /\ \A r \in Requests : TaskSound(task[r])
  /\ \A c \in Connections : ConnSound(c)
=============================================================================
