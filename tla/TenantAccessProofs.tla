------------------------- MODULE TenantAccessProofs -------------------------
(***************************************************************************)
(* Proofs about TenantAccess, for any number of requests, tenants and        *)
(* connections: its types, tenant isolation from the token to the rows, the  *)
(* gateway's cache of Keycloak's keys, which is right up to the TTL, and the *)
(* rate limit, which holds for every user and window.                        *)
(***************************************************************************)
EXTENDS TenantAccess, FiniteSetTheorems, TLAPS

ReqTypeOK == req \in [Requests -> Handlings]

(* A context of the gateway's header is bound to the tenant of its request's
   token, or to none. *)
ContextOfToken ==
  \A r \in Requests : task[r].from = "header" => task[r].ctx \in {NoTenant, TenantOf(r)}

IInv == AccessTypeOK /\ SessionsSound /\ ContextOfToken

(* The tenant a token names, if it names one, is a tenant. *)
LEMMA NamedType ==
  ASSUME AccessAssumption, NEW u \in Users
  PROVE  Named(u) \in Scopes
<1> DEFINE c == Claims[u]
<1>1. c \in [tenant_id : Scopes, orgs : Seq(Tenants)]
  BY DEF AccessAssumption
<1>2. ASSUME c.orgs # <<>> PROVE Head(c.orgs) \in Tenants
  BY <1>1, <1>2
<1> HIDE DEF c
<1>3. NoTenant \in Scopes /\ Tenants \subseteq Scopes
  BY DEF Scopes
<1>4. Named(u) = IF c.tenant_id # NoTenant THEN c.tenant_id
                 ELSE IF c.orgs # <<>> THEN Head(c.orgs) ELSE NoTenant
  BY DEF Named, c
<1> QED BY <1>1, <1>2, <1>3, <1>4

-----------------------------------------------------------------------------
(* Initially everything has its type and nothing is bound. *)
LEMMA InitIInv == ASSUME SessionsAssumption, AccessAssumption PROVE Init => IInv
<1> SUFFICES ASSUME Init PROVE IInv
  OBVIOUS
<1>1. SessionsTypeOK
  BY DEF Init, SessionsInit, SessionsTypeOK, Tasks, Conns, Scopes
<1>2. AccessTypeOK
  BY <1>1 DEF Init, AccessTypeOK, AccessAssumption, Handlings, KeyStates, Counts
<1>3. SessionsSound
  BY DEF Init, SessionsInit, SessionsSound, TaskSound, ConnSound, SessionsAssumption
<1>4. ContextOfToken
  BY DEF Init, SessionsInit, ContextOfToken
<1> QED BY <1>2, <1>3, <1>4 DEF IInv

-----------------------------------------------------------------------------
(* A step that gives one request a well-typed task, or one connection a
   well-typed state, keeps the types. *)
LEMMA TaskTyped ==
  ASSUME SessionsTypeOK, NEW r \in Requests, NEW k \in Tasks, TaskIs(r, k)
  PROVE  /\ task' \in [Requests -> Tasks]
         /\ task'[r] = k
         /\ \A q \in Requests \ {r} : task'[q] = task[q]
BY DEF SessionsTypeOK, TaskIs

LEMMA ConnTyped ==
  ASSUME SessionsTypeOK, NEW c \in Connections, NEW k \in Conns, ConnIs(c, k)
  PROVE  /\ conn' \in [Connections -> Conns]
         /\ conn'[c] = k
         /\ \A d \in Connections \ {c} : conn'[d] = conn[d]
BY DEF SessionsTypeOK, ConnIs

(* Every step of a service keeps the types. *)
LEMMA ServiceTypes ==
  ASSUME SessionsAssumption, AccessAssumption, SessionsTypeOK, ReqTypeOK,
         NEW r \in Requests, ServiceStep(r)
  PROVE  SessionsTypeOK'
<1>a. task[r] \in Tasks /\ \A c \in Connections : conn[c] \in Conns
  BY DEF SessionsTypeOK
<1>1. ASSUME Deliver(r) PROVE SessionsTypeOK'
  <2>0. TenantOf(r) \in Scopes
    BY NamedType DEF TenantOf, ReqTypeOK, Handlings
  <2>1. \A t \in Scopes :
          /\ [task[r] EXCEPT !.pc = "bound", !.ctx = t] \in Tasks
          /\ [task[r] EXCEPT !.pc = "bound", !.ctx = t, !.from = "body"] \in Tasks
    BY <1>a DEF Tasks
  <2>2. CASE Receive(r, TenantOf(r))
    BY <2>0, <2>1, <2>2, TaskTyped DEF Receive, SessionsTypeOK
  <2>3. ASSUME NEW t \in Scopes, ReceiveExempt(r, t) PROVE SessionsTypeOK'
    BY <2>1, <2>3, TaskTyped DEF ReceiveExempt, SessionsTypeOK
  <2> QED BY <1>1, <2>2, <2>3 DEF Deliver
<1>2. ASSUME EndTask(r) PROVE SessionsTypeOK'
  <2>1. [task[r] EXCEPT !.pc = "ended", !.ctx = NoTenant] \in Tasks
    BY <1>a DEF Tasks, Scopes
  <2> QED BY <1>2, <2>1, TaskTyped DEF EndTask, SessionsTypeOK
<1>3. ASSUME OpenTenantSession(r) PROVE SessionsTypeOK'
  <2> DEFINE n == task[r].sessions + 1
  <2>0. n \in Nat
    BY <1>a DEF Tasks
  <2> HIDE DEF n
  <2>1. [task[r] EXCEPT !.pc = "waiting", !.scope = task[r].ctx, !.sessions = n] \in Tasks
    BY <1>a, <2>0 DEF Tasks, Scopes
  <2> QED BY <1>3, <2>1, TaskTyped DEF OpenTenantSession, SessionsTypeOK, n
<1>4. ASSUME OpenAdminSession(r) PROVE SessionsTypeOK'
  <2> DEFINE n == task[r].sessions + 1
  <2>0. n \in Nat
    BY <1>a DEF Tasks
  <2> HIDE DEF n
  <2>1. [task[r] EXCEPT !.pc = "waiting", !.scope = NoTenant, !.sessions = n] \in Tasks
    BY <1>a, <2>0 DEF Tasks, Scopes
  <2> QED BY <1>4, <2>1, TaskTyped DEF OpenAdminSession, SessionsTypeOK, n
<1>5. ASSUME NoConnection(r) PROVE SessionsTypeOK'
  <2>1. [task[r] EXCEPT !.pc = "bound", !.scope = NoTenant] \in Tasks
    BY <1>a DEF Tasks, Scopes
  <2> QED BY <1>5, <2>1, TaskTyped DEF NoConnection, SessionsTypeOK
<1>6. ASSUME NEW c \in Connections, Checkout(r, c) PROVE SessionsTypeOK'
  <2>1. [task[r] EXCEPT !.pc = IF task[r].scope = NoTenant THEN "open" ELSE "begun"] \in Tasks
    BY <1>a DEF Tasks, Scopes
  <2>2. [conn[c] EXCEPT !.user = r] \in Conns
    BY <1>a DEF Conns, Scopes
  <2> QED BY <1>6, <2>1, TaskTyped, <2>2, ConnTyped DEF Checkout, SessionsTypeOK
<1>7. ASSUME NEW c \in Connections, SetTenant(r, c) PROVE SessionsTypeOK'
  <2>1. [task[r] EXCEPT !.pc = "open"] \in Tasks
    BY <1>a DEF Tasks, Scopes
  <2>2. [conn[c] EXCEPT !.setting = task[r].scope] \in Conns
    BY <1>a DEF Conns, Tasks, Scopes
  <2> QED BY <1>7, <2>1, TaskTyped, <2>2, ConnTyped DEF SetTenant, SessionsTypeOK
<1>8. ASSUME NEW c \in Connections, Read(r, c) PROVE SessionsTypeOK'
  <2>0. Visible(c) \in SUBSET Rows
    BY DEF Visible, SessionsTypeOK, Conns
  <2>1. [task[r] EXCEPT !.seen = @ \cup Visible(c)] \in Tasks
    BY <1>a, <2>0 DEF Tasks, Scopes
  <2> QED BY <1>8, <2>1, TaskTyped DEF Read, SessionsTypeOK
<1>9. ASSUME NEW c \in Connections, Insert(r, c) PROVE SessionsTypeOK'
  <2>0. [tenant |-> task[r].scope, by |-> r] \in Rows
    BY <1>9 DEF Insert, Rows, SessionsTypeOK, Tasks, Scopes
  <2>2. [conn[c] EXCEPT !.pending = @ \cup {[tenant |-> task[r].scope, by |-> r]}] \in Conns
    BY <1>a, <2>0 DEF Conns, Tasks, Scopes
  <2> QED BY <1>9, <2>2, ConnTyped DEF Insert, SessionsTypeOK
<1>10. ASSUME NEW c \in Connections, Commit(r, c) PROVE SessionsTypeOK'
  <2>1. [task[r] EXCEPT !.pc = "closing"] \in Tasks
    BY <1>a DEF Tasks, Scopes
  <2>2. Ended(conn[c]) \in Conns
    BY <1>a DEF Conns, Ended, Scopes
  <2> QED BY <1>10, <2>1, TaskTyped, <2>2, ConnTyped DEF Commit, SessionsTypeOK, Conns
<1>11. ASSUME NEW c \in Connections, Rollback(r, c) PROVE SessionsTypeOK'
  <2>1. [task[r] EXCEPT !.pc = "closing"] \in Tasks
    BY <1>a DEF Tasks, Scopes
  <2>2. Ended(conn[c]) \in Conns
    BY <1>a DEF Conns, Ended, Scopes
  <2> QED BY <1>11, <2>1, TaskTyped, <2>2, ConnTyped DEF Rollback, SessionsTypeOK
<1>12. ASSUME NEW c \in Connections, Close(r, c) PROVE SessionsTypeOK'
  <2>1. [task[r] EXCEPT !.pc = "bound", !.scope = NoTenant, !.seen = {}] \in Tasks
    BY <1>a DEF Tasks, Scopes
  <2>2. [Ended(conn[c]) EXCEPT !.user = NoRequest] \in Conns
    BY <1>a DEF Conns, Ended, Scopes
  <2> QED BY <1>12, <2>1, TaskTyped, <2>2, ConnTyped DEF Close, SessionsTypeOK
<1> QED
  BY <1>1, <1>2, <1>3, <1>4, <1>5, <1>6, <1>7, <1>8, <1>9, <1>10, <1>11, <1>12
  DEF ServiceStep, Handle

(* A step of the gateway that gives one request a well-typed handling of the
   same user. *)
LEMMA ReqTyped ==
  ASSUME ReqTypeOK, NEW r \in Requests, NEW q \in Handlings, Becomes(r, q),
         q.user = req[r].user
  PROVE  /\ ReqTypeOK'
         /\ \A p \in Requests : req'[p].user = req[p].user
BY DEF ReqTypeOK, Becomes

LEMMA MovesTyped ==
  ASSUME ReqTypeOK, NEW r \in Requests, NEW q \in Handlings, q.user = req[r].user,
         NEW pc \in {"anonymous", "no_keys", "allowed", "limited", "sent", "answered"},
         Becomes(r, [q EXCEPT !.pc = pc])
  PROVE  /\ ReqTypeOK'
         /\ \A p \in Requests : req'[p].user = req[p].user
<1>1. [q EXCEPT !.pc = pc] \in Handlings /\ [q EXCEPT !.pc = pc].user = q.user
  BY DEF Handlings
<1> QED BY <1>1, ReqTyped

LEMMA DecodedTyped ==
  ASSUME AccessAssumption, clock \in 0 .. MaxTime, NEW r, NEW q \in Handlings, NEW keys
  PROVE  Decoded(r, q, keys) \in Handlings /\ Decoded(r, q, keys).user = q.user
<1>1. clock \div Window \in Nat /\ 0 \in 0 .. MaxTime
  BY DEF AccessAssumption
<1> QED BY <1>1 DEF Decoded, Handlings

LEMMA RedisTyped ==
  ASSUME redis \in [Counters -> Counts], NEW k
  PROVE  /\ [redis EXCEPT ![k].hits = @ + 1] \in [Counters -> Counts]
         /\ \A n \in Nat : [redis EXCEPT ![k].expires = n] \in [Counters -> Counts]
<1>1. ASSUME k \in Counters PROVE [redis[k] EXCEPT !.hits = @ + 1] \in Counts
  <2> DEFINE n == redis[k].hits + 1
  <2>1. n \in Nat
    BY <1>1 DEF Counts
  <2> HIDE DEF n
  <2>2. [redis[k] EXCEPT !.hits = n] \in Counts
    BY <1>1, <2>1 DEF Counts
  <2> QED BY <2>2 DEF n
<1>2. ASSUME k \in Counters, NEW n \in Nat PROVE [redis[k] EXCEPT !.expires = n] \in Counts
  BY <1>2 DEF Counts
<1> QED BY <1>1, <1>2

(* Every step of the gateway keeps the types and the request's user. *)
LEMMA GatewayTypes ==
  ASSUME AccessAssumption, AccessTypeOK, UNCHANGED sessionVars,
         NEW r \in Requests, GatewayStep(r)
  PROVE  AccessTypeOK' /\ \A p \in Requests : req'[p].user = req[p].user
<1> DEFINE Users_ == \A p \in Requests : req'[p].user = req[p].user
<1>a. SessionsTypeOK' /\ ReqTypeOK /\ req[r] \in Handlings
  BY DEF AccessTypeOK, sessionVars, SessionsTypeOK, ReqTypeOK
<1>b. clock \in 0 .. MaxTime /\ redis \in [Counters -> Counts] /\ Live \subseteq Keys
  BY DEF AccessTypeOK, Live
<1>c. 0 \in 0 .. MaxTime
  BY DEF AccessAssumption
<1>1. ASSUME ArriveAnonymous(r) PROVE AccessTypeOK' /\ Users_
  BY <1>1, <1>a, MovesTyped DEF ArriveAnonymous, Moves, AccessTypeOK, ReqTypeOK
<1>2. ASSUME NEW k \in Keys, Arrive(r, k) PROVE AccessTypeOK' /\ Users_
  <2> DEFINE q == [req[r] EXCEPT !.key = k, !.stamp = clock]
             f == [q EXCEPT !.pc = "fetching"]
  <2>1. q \in Handlings /\ q.user = req[r].user
    BY <1>a, <1>b DEF Handlings
  <2>2. f \in Handlings /\ f.user = q.user
    BY <2>1 DEF Handlings
  <2>3. Becomes(r, Decoded(r, q, jwks.keys)) \/ Becomes(r, f)
    BY <1>2 DEF Arrive
  <2> HIDE DEF q, f
  <2>4. ReqTypeOK' /\ Users_
    BY <2>1, <2>2, <2>3, <1>a, <1>b, DecodedTyped, ReqTyped
  <2> QED BY <2>4, <1>2, <1>a DEF Arrive, AccessTypeOK, ReqTypeOK
<1>3. ASSUME KeycloakAnswers(r) PROVE AccessTypeOK' /\ Users_
  <2> DEFINE q == [req[r] EXCEPT !.pc = "fetched", !.answer = Live]
  <2>1. q \in Handlings /\ q.user = req[r].user
    BY <1>a, <1>b DEF Handlings
  <2>2. Becomes(r, q)
    BY <1>3 DEF KeycloakAnswers
  <2> HIDE DEF q
  <2> QED BY <2>1, <2>2, <1>3, <1>a, ReqTyped DEF KeycloakAnswers, AccessTypeOK, ReqTypeOK
<1>4. ASSUME FetchFails(r) PROVE AccessTypeOK' /\ Users_
  <2>1. faults' \in 0 .. MaxFaults
    BY <1>4 DEF FetchFails, Fault, AccessTypeOK, AccessAssumption
  <2> QED BY <2>1, <1>4, <1>a, MovesTyped DEF FetchFails, Moves, AccessTypeOK, ReqTypeOK
<1>5. ASSUME StoreKeys(r) PROVE AccessTypeOK' /\ Users_
  <2>1. jwks' \in [stamp : 0 .. MaxTime, keys : SUBSET Keys]
    BY <1>5, <1>a DEF StoreKeys, Handlings
  <2>2. ReqTypeOK' /\ Users_
    BY <1>5, <1>a, <1>b, DecodedTyped, ReqTyped DEF StoreKeys
  <2> QED BY <2>1, <2>2, <1>5, <1>a DEF StoreKeys, AccessTypeOK, ReqTypeOK
<1>d. Asked(r) \in Handlings /\ Asked(r).user = req[r].user
  BY <1>a, <1>c DEF Asked, Handlings
<1>6. ASSUME Incr(r) PROVE AccessTypeOK' /\ Users_
  <2> DEFINE count == redis[Counter(r)].hits + 1
             pc == IF count = 1 THEN "first" ELSE Verdict(count)
             late == InTime(r)
             q == [Asked(r) EXCEPT !.landed = late, !.pc = pc]
  <2>1. pc \in {"first", "allowed", "limited"} /\ late \in BOOLEAN
    BY DEF Verdict, InTime
  <2>2. Becomes(r, q)
    BY <1>6 DEF Incr
  <2> HIDE DEF pc, late
  <2>3. q \in Handlings /\ q.user = req[r].user
    BY <1>d, <2>1 DEF Handlings
  <2> HIDE DEF q
  <2>4. ReqTypeOK' /\ Users_
    BY <2>2, <2>3, <1>a, ReqTyped
  <2>5. redis' \in [Counters -> Counts]
    BY <1>6, <1>b, RedisTyped DEF Incr, Hit
  <2> QED BY <2>4, <2>5, <1>6, <1>a DEF Incr, AccessTypeOK, ReqTypeOK
<1>7. ASSUME Expire(r) PROVE AccessTypeOK' /\ Users_
  <2>1. clock + Window \in Nat
    BY <1>b DEF AccessAssumption
  <2>2. redis' \in [Counters -> Counts]
    BY <1>7, <2>1, <1>b, RedisTyped DEF Expire
  <2>3. Verdict(1) \in {"allowed", "limited"}
    BY DEF Verdict
  <2>4. ReqTypeOK' /\ Users_
    BY <1>7, <2>3, <1>a, MovesTyped DEF Expire, Moves
  <2> QED BY <2>2, <2>4, <1>7, <1>a DEF Expire, AccessTypeOK, ReqTypeOK
<1>8. ASSUME IncrFails(r) PROVE AccessTypeOK' /\ Users_
  <2> DEFINE q == [Asked(r) EXCEPT !.failed = TRUE, !.pc = "allowed"]
  <2>1. faults' \in 0 .. MaxFaults
    BY <1>8 DEF IncrFails, Fault, AccessTypeOK, AccessAssumption
  <2>2. redis' \in [Counters -> Counts]
    BY <1>8, <1>b, RedisTyped DEF IncrFails, Hit
  <2>3. q \in Handlings /\ q.user = req[r].user
    BY <1>d DEF Handlings
  <2>4. Becomes(r, q)
    BY <1>8 DEF IncrFails
  <2> HIDE DEF q
  <2>5. ReqTypeOK' /\ Users_
    BY <2>3, <2>4, <1>a, ReqTyped
  <2> QED BY <2>1, <2>2, <2>5, <1>8, <1>a DEF IncrFails, AccessTypeOK, ReqTypeOK
<1>10. ASSUME ExpireFails(r) PROVE AccessTypeOK' /\ Users_
  <2>1. faults' \in 0 .. MaxFaults
    BY <1>10 DEF ExpireFails, Fault, AccessTypeOK, AccessAssumption
  <2>2. clock + Window \in Nat
    BY <1>b DEF AccessAssumption
  <2>3. redis' \in [Counters -> Counts]
    <3>1. CASE redis' = [redis EXCEPT ![Counter(r)].expires = clock + Window]
      BY <2>2, <3>1, <1>b, RedisTyped
    <3>2. CASE UNCHANGED redis
      BY <3>2, <1>b
    <3> QED BY <1>10, <3>1, <3>2 DEF ExpireFails
  <2>4. ReqTypeOK' /\ Users_
    BY <1>10, <1>a, MovesTyped DEF ExpireFails, Moves
  <2> QED BY <2>1, <2>3, <2>4, <1>10, <1>a DEF ExpireFails, AccessTypeOK, ReqTypeOK
<1>9. ASSUME Forward(r) \/ ForwardFails(r) \/ Answer(r) PROVE AccessTypeOK' /\ Users_
  BY <1>9, <1>a, MovesTyped DEF Forward, ForwardFails, Answer, Moves, AccessTypeOK, ReqTypeOK
<1> QED
  BY <1>1, <1>2, <1>3, <1>4, <1>5, <1>6, <1>7, <1>8, <1>9, <1>10 DEF GatewayStep

(* Keycloak's keys and the clock keep their types. *)
LEMMA EnvironmentTypes ==
  ASSUME AccessAssumption, AccessTypeOK, UNCHANGED sessionVars, Environment
  PROVE  AccessTypeOK' /\ req' = req
<1>a. SessionsTypeOK'
  BY DEF AccessTypeOK, sessionVars, SessionsTypeOK
<1>1. ASSUME Tick PROVE AccessTypeOK' /\ req' = req
  <2>1. clock' \in 0 .. MaxTime
    BY <1>1 DEF Tick, AccessTypeOK, AccessAssumption
  <2>2. redis' \in [Counters -> Counts]
    BY <1>1 DEF Tick, AccessTypeOK, Counts
  <2> QED BY <2>1, <2>2, <1>1, <1>a DEF Tick, AccessTypeOK
<1>2. ASSUME NEW k \in Keys, Publish(k) \/ Retire(k) PROVE AccessTypeOK' /\ req' = req
  <2>1. \A s \in {"live", "retired"} : [state |-> s, at |-> clock] \in KeyStates
    BY DEF AccessTypeOK, KeyStates
  <2>2. kc' \in [Keys -> KeyStates]
    BY <1>2, <2>1 DEF Publish, Retire, AccessTypeOK
  <2> QED BY <2>2, <1>2, <1>a DEF Publish, Retire, AccessTypeOK
<1> QED BY <1>1, <1>2 DEF Environment

-----------------------------------------------------------------------------
(* A step that changes one request which holds no connection, and leaves it so. *)
LEMMA IdleTaskStep ==
  ASSUME SessionsAssumption, SessionsTypeOK, SessionsSound,
         NEW r \in Requests, NEW k \in Tasks, TaskIs(r, k), UNCHANGED conn,
         task[r].pc \notin Holding, TaskSound(k)
  PROVE  SessionsSound'
<1>1. task'[r] = k /\ \A q \in Requests \ {r} : task'[q] = task[q]
  BY TaskTyped
<1>2. ASSUME NEW q \in Requests PROVE TaskSound(task[q])'
  BY <1>1 DEF SessionsSound
<1>3. ASSUME NEW c \in Connections PROVE ConnSound(c)'
  <2>1. conn[c].user # r /\ conn[c].user \in Requests \cup {NoRequest}
    BY DEF SessionsSound, ConnSound, SessionsTypeOK, Conns, SessionsAssumption
  <2>2. conn[c].user # NoRequest => task'[conn[c].user] = task[conn[c].user]
    BY <2>1, <1>1
  <2> QED BY <2>2 DEF SessionsSound, ConnSound
<1> QED BY <1>2, <1>3 DEF SessionsSound

(* A step of the holder of a connection that changes these two alone. *)
LEMMA HolderStep ==
  ASSUME SessionsAssumption, SessionsTypeOK, SessionsSound,
         NEW r \in Requests, NEW c \in Connections, NEW k \in Tasks, NEW n \in Conns,
         TaskIs(r, k), ConnIs(c, n), conn[c].user \in {r, NoRequest},
         conn[c].user = NoRequest => task[r].pc \notin Holding,
         n.user \in {r, NoRequest}, TaskSound(k),
         n.user = NoRequest => n.setting = NoTenant /\ n.pending = {},
         n.user = r =>
           /\ k.pc \in Holding
           /\ n.setting \in {NoTenant, k.scope}
           /\ \A row \in n.pending : row.tenant = k.scope
  PROVE  SessionsSound'
<1>1. task'[r] = k /\ \A q \in Requests \ {r} : task'[q] = task[q]
  BY TaskTyped
<1>2. conn'[c] = n /\ \A d \in Connections \ {c} : conn'[d] = conn[d]
  BY ConnTyped
<1>3. ASSUME NEW q \in Requests PROVE TaskSound(task[q])'
  BY <1>1 DEF SessionsSound
<1>4. ASSUME NEW d \in Connections, d # c PROVE conn[d].user # r
  BY <1>4 DEF SessionsSound, ConnSound, SessionsAssumption
<1>5. ASSUME NEW d \in Connections, d # c PROVE ConnSound(d)'
  <2>1. conn'[d] = conn[d] /\ conn[d].user # r /\ conn[d].user \in Requests \cup {NoRequest}
    BY <1>2, <1>4, <1>5 DEF SessionsTypeOK, Conns
  <2>2. conn[d].user # NoRequest => task'[conn[d].user] = task[conn[d].user]
    BY <2>1, <1>1
  <2>3. ASSUME NEW e \in Connections, conn[d].user # NoRequest, conn'[e].user = conn[d].user
        PROVE  e = d
    BY <2>1, <2>3, <1>2 DEF SessionsSound, ConnSound
  <2> QED BY <2>1, <2>2, <2>3 DEF SessionsSound, ConnSound
<1>6. ConnSound(c)'
  <2>1. ASSUME NEW e \in Connections, n.user = r, conn'[e].user = r PROVE e = c
    BY <2>1, <1>2, <1>4
  <2> QED BY <2>1, <1>1, <1>2, SessionsAssumption DEF ConnSound, SessionsAssumption
<1> QED BY <1>3, <1>5, <1>6 DEF SessionsSound

(* Every step of a service keeps the strengthening. *)
LEMMA ServiceSound ==
  ASSUME SessionsAssumption, AccessAssumption, SessionsTypeOK, ReqTypeOK, SessionsSound,
         NEW r \in Requests, ServiceStep(r)
  PROVE  SessionsSound'
<1>a. task[r] \in Tasks /\ TaskSound(task[r]) /\ TenantOf(r) \in Scopes /\ NoTenant \in Scopes
  BY NamedType DEF SessionsTypeOK, SessionsSound, TenantOf, ReqTypeOK, Handlings, Scopes
<1>b. \A c \in Connections : conn[c] \in Conns /\ ConnSound(c)
  BY DEF SessionsTypeOK, SessionsSound
<1>c. "open" \notin {"none", "bound", "ended", "waiting"} /\ task \in [Requests -> Tasks]
      /\ conn \in [Connections -> Conns]
  BY DEF SessionsTypeOK
<1>1. ASSUME Deliver(r) PROVE SessionsSound'
  <2>1. PICK t \in Scopes, f \in {task[r].from, "body"} :
          /\ TaskIs(r, [task[r] EXCEPT !.pc = "bound", !.ctx = t, !.from = f])
          /\ task[r].pc = "none" /\ UNCHANGED conn
    <3>1. CASE Receive(r, TenantOf(r))
      <4>1. [task[r] EXCEPT !.pc = "bound", !.ctx = TenantOf(r)]
              = [task[r] EXCEPT !.pc = "bound", !.ctx = TenantOf(r), !.from = task[r].from]
        BY <1>a DEF Tasks
      <4> QED BY <1>a, <3>1, <4>1 DEF Receive
    <3>2. CASE \E t \in Scopes : ReceiveExempt(r, t)
      BY <3>2 DEF ReceiveExempt
    <3> QED BY <1>1, <3>1, <3>2 DEF Deliver
  <2> DEFINE k == [task[r] EXCEPT !.pc = "bound", !.ctx = t, !.from = f]
  <2>2. k \in Tasks
    BY <1>a DEF Tasks
  <2>3. TaskSound(k)
    BY <1>a, <2>1 DEF TaskSound, Tasks
  <2>4. TaskIs(r, k) /\ UNCHANGED conn /\ task[r].pc \notin Holding
    BY <2>1 DEF Holding
  <2> HIDE DEF k
  <2> QED BY <2>2, <2>3, <2>4, IdleTaskStep
<1>2. ASSUME EndTask(r) PROVE SessionsSound'
  <2> DEFINE k == [task[r] EXCEPT !.pc = "ended", !.ctx = NoTenant]
  <2>1. TaskIs(r, k) /\ UNCHANGED conn /\ task[r].pc \notin Holding
    BY <1>2 DEF EndTask, Holding
  <2>2. k \in Tasks
    BY <1>a DEF Tasks
  <2>3. TaskSound(k)
    BY <1>2, <1>a DEF EndTask, TaskSound, Tasks
  <2> HIDE DEF k
  <2> QED BY <2>1, <2>2, <2>3, IdleTaskStep
<1>3. ASSUME OpenTenantSession(r) PROVE SessionsSound'
  <2> DEFINE n == task[r].sessions + 1
             k == [task[r] EXCEPT !.pc = "waiting", !.scope = task[r].ctx, !.sessions = n]
  <2>0. n \in Nat
    BY <1>a DEF Tasks
  <2>1. TaskIs(r, k) /\ UNCHANGED conn /\ task[r].pc \notin Holding
    BY <1>3 DEF OpenTenantSession, Holding
  <2> HIDE DEF n
  <2>2. k \in Tasks
    BY <1>a, <2>0 DEF Tasks
  <2>3. TaskSound(k)
    BY <1>3, <1>a DEF OpenTenantSession, TaskSound, Tasks
  <2> HIDE DEF k
  <2> QED BY <2>1, <2>2, <2>3, IdleTaskStep
<1>4. ASSUME OpenAdminSession(r) PROVE SessionsSound'
  <2> DEFINE n == task[r].sessions + 1
             k == [task[r] EXCEPT !.pc = "waiting", !.scope = NoTenant, !.sessions = n]
  <2>0. n \in Nat
    BY <1>a DEF Tasks
  <2>1. TaskIs(r, k) /\ UNCHANGED conn /\ task[r].pc \notin Holding
    BY <1>4 DEF OpenAdminSession, Holding
  <2> HIDE DEF n
  <2>2. k \in Tasks
    BY <1>a, <2>0 DEF Tasks
  <2>3. TaskSound(k)
    BY <1>4, <1>a DEF OpenAdminSession, TaskSound, Tasks
  <2> HIDE DEF k
  <2> QED BY <2>1, <2>2, <2>3, IdleTaskStep
<1>5. ASSUME NoConnection(r) PROVE SessionsSound'
  <2> DEFINE k == [task[r] EXCEPT !.pc = "bound", !.scope = NoTenant]
  <2>1. TaskIs(r, k) /\ UNCHANGED conn /\ task[r].pc \notin Holding
    BY <1>5 DEF NoConnection, Holding
  <2>2. k \in Tasks
    BY <1>a DEF Tasks
  <2>3. TaskSound(k)
    BY <1>5, <1>a DEF NoConnection, TaskSound, Tasks
  <2> HIDE DEF k
  <2> QED BY <2>1, <2>2, <2>3, IdleTaskStep
<1>6. ASSUME NEW c \in Connections, Checkout(r, c) PROVE SessionsSound'
  <2> DEFINE k == [task[r] EXCEPT !.pc = IF task[r].scope = NoTenant THEN "open" ELSE "begun"]
             m == [conn[c] EXCEPT !.user = r]
  <2>1. TaskIs(r, k) /\ ConnIs(c, m)
    BY <1>6, <1>c DEF Checkout, TaskIs, ConnIs
  <2>2. k \in Tasks /\ m \in Conns
    BY <1>a, <1>b DEF Tasks, Conns, Scopes
  <2>3. TaskSound(k)
    BY <1>6, <1>a DEF Checkout, TaskSound, Tasks
  <2>4. conn[c].user \in {r, NoRequest} /\ (conn[c].user = NoRequest => task[r].pc \notin Holding)
    BY <1>6 DEF Checkout, Holding, SessionsAssumption
  <2>5. m.user \in {r, NoRequest} /\ (m.user = NoRequest => m.setting = NoTenant /\ m.pending = {})
    BY <1>6, <1>b DEF Checkout, Conns, SessionsAssumption
  <2>6. m.user = r =>
          /\ k.pc \in Holding
          /\ m.setting \in {NoTenant, k.scope}
          /\ \A row \in m.pending : row.tenant = k.scope
    BY <1>6, <1>a, <1>b DEF Checkout, Tasks, Conns, ConnSound, Holding, SessionsAssumption
  <2> HIDE DEF k, m
  <2> QED BY <2>1, <2>2, <2>3, <2>4, <2>5, <2>6, HolderStep
<1>7. ASSUME NEW c \in Connections, SetTenant(r, c) PROVE SessionsSound'
  <2> DEFINE k == [task[r] EXCEPT !.pc = "open"]
             m == [conn[c] EXCEPT !.setting = task[r].scope]
  <2>1. TaskIs(r, k) /\ ConnIs(c, m)
    BY <1>7, <1>c DEF SetTenant, TaskIs, ConnIs
  <2>2. k \in Tasks /\ m \in Conns
    BY <1>a, <1>b DEF Tasks, Conns, Scopes
  <2>3. TaskSound(k)
    BY <1>7, <1>a DEF SetTenant, TaskSound, Tasks
  <2>4. conn[c].user \in {r, NoRequest} /\ (conn[c].user = NoRequest => task[r].pc \notin Holding)
    BY <1>7 DEF SetTenant, Holding, SessionsAssumption
  <2>5. m.user \in {r, NoRequest} /\ (m.user = NoRequest => m.setting = NoTenant /\ m.pending = {})
    BY <1>7, <1>b DEF SetTenant, Conns, SessionsAssumption
  <2>6. m.user = r =>
          /\ k.pc \in Holding
          /\ m.setting \in {NoTenant, k.scope}
          /\ \A row \in m.pending : row.tenant = k.scope
    BY <1>7, <1>a, <1>b DEF SetTenant, Tasks, Conns, ConnSound, Holding, SessionsAssumption
  <2> HIDE DEF k, m
  <2> QED BY <2>1, <2>2, <2>3, <2>4, <2>5, <2>6, HolderStep
<1>8. ASSUME NEW c \in Connections, Read(r, c) PROVE SessionsSound'
  <2> DEFINE k == [task[r] EXCEPT !.seen = @ \cup Visible(c)]
             m == conn[c]
  <2>0. Visible(c) \in SUBSET Rows /\ \A row \in Visible(c) : row.tenant = task[r].scope
    <3>1. \A row \in Visible(c) : row \in Rows /\ row.tenant = conn[c].setting
      BY DEF Visible, SessionsTypeOK, Conns
    <3>2. conn[c].setting \in {NoTenant, task[r].scope}
      BY <1>b, <1>8 DEF Read, ConnSound, SessionsAssumption
    <3> QED BY <3>1, <3>2, SessionsAssumption DEF Rows, SessionsAssumption
  <2>1. TaskIs(r, k) /\ ConnIs(c, m)
    BY <1>8, <1>c DEF Read, TaskIs, ConnIs
  <2>2. k \in Tasks /\ m \in Conns
    BY <1>a, <1>b, <2>0 DEF Tasks, Conns, Scopes
  <2>3. TaskSound(k)
    BY <1>8, <1>a, <2>0 DEF Read, TaskSound, Tasks
  <2>4. conn[c].user \in {r, NoRequest} /\ (conn[c].user = NoRequest => task[r].pc \notin Holding)
    BY <1>8 DEF Read, Holding, SessionsAssumption
  <2>5. m.user \in {r, NoRequest} /\ (m.user = NoRequest => m.setting = NoTenant /\ m.pending = {})
    BY <1>8, <1>b DEF Read, Conns, SessionsAssumption
  <2>6. m.user = r =>
          /\ k.pc \in Holding
          /\ m.setting \in {NoTenant, k.scope}
          /\ \A row \in m.pending : row.tenant = k.scope
    BY <1>8, <1>a, <1>b, <2>0 DEF Read, Tasks, Conns, ConnSound, Holding, SessionsAssumption
  <2> HIDE DEF k, m
  <2> QED BY <2>1, <2>2, <2>3, <2>4, <2>5, <2>6, HolderStep
<1>9. ASSUME NEW c \in Connections, Insert(r, c) PROVE SessionsSound'
  <2> DEFINE k == task[r]
             m == [conn[c] EXCEPT !.pending = @ \cup {[tenant |-> task[r].scope, by |-> r]}]
  <2>0. [tenant |-> task[r].scope, by |-> r] \in Rows
    BY <1>9, <1>a DEF Insert, Rows, Tasks, Scopes
  <2>1. TaskIs(r, k) /\ ConnIs(c, m)
    BY <1>9, <1>c DEF Insert, TaskIs, ConnIs
  <2>2. k \in Tasks /\ m \in Conns
    BY <1>a, <1>b, <2>0 DEF Tasks, Conns, Scopes
  <2>3. TaskSound(k)
    BY <1>9, <1>a, <2>0 DEF Insert, TaskSound, Tasks
  <2>4. conn[c].user \in {r, NoRequest} /\ (conn[c].user = NoRequest => task[r].pc \notin Holding)
    BY <1>9 DEF Insert, Holding, SessionsAssumption
  <2>5. m.user \in {r, NoRequest} /\ (m.user = NoRequest => m.setting = NoTenant /\ m.pending = {})
    BY <1>9, <1>b DEF Insert, Conns, SessionsAssumption
  <2>6. m.user = r =>
          /\ k.pc \in Holding
          /\ m.setting \in {NoTenant, k.scope}
          /\ \A row \in m.pending : row.tenant = k.scope
    BY <1>9, <1>a, <1>b, <2>0 DEF Insert, Tasks, Conns, ConnSound, Holding, SessionsAssumption
  <2> HIDE DEF k, m
  <2> QED BY <2>1, <2>2, <2>3, <2>4, <2>5, <2>6, HolderStep
<1>10. ASSUME NEW c \in Connections, Commit(r, c) PROVE SessionsSound'
  <2> DEFINE k == [task[r] EXCEPT !.pc = "closing"]
             m == Ended(conn[c])
  <2>1. TaskIs(r, k) /\ ConnIs(c, m)
    BY <1>10, <1>c DEF Commit, TaskIs, ConnIs
  <2>2. k \in Tasks /\ m \in Conns
    BY <1>a, <1>b DEF Tasks, Conns, Scopes, Ended
  <2>3. TaskSound(k)
    BY <1>10, <1>a DEF Commit, TaskSound, Tasks
  <2>4. conn[c].user \in {r, NoRequest} /\ (conn[c].user = NoRequest => task[r].pc \notin Holding)
    BY <1>10 DEF Commit, Holding, SessionsAssumption
  <2>5. m.user \in {r, NoRequest} /\ (m.user = NoRequest => m.setting = NoTenant /\ m.pending = {})
    BY <1>10, <1>b DEF Commit, Conns, Ended, SessionsAssumption
  <2>6. m.user = r =>
          /\ k.pc \in Holding
          /\ m.setting \in {NoTenant, k.scope}
          /\ \A row \in m.pending : row.tenant = k.scope
    BY <1>10, <1>a, <1>b DEF Commit, Tasks, Conns, Ended, ConnSound, Holding, SessionsAssumption
  <2> HIDE DEF k, m
  <2> QED BY <2>1, <2>2, <2>3, <2>4, <2>5, <2>6, HolderStep
<1>11. ASSUME NEW c \in Connections, Rollback(r, c) PROVE SessionsSound'
  <2> DEFINE k == [task[r] EXCEPT !.pc = "closing"]
             m == Ended(conn[c])
  <2>1. TaskIs(r, k) /\ ConnIs(c, m)
    BY <1>11, <1>c DEF Rollback, TaskIs, ConnIs
  <2>2. k \in Tasks /\ m \in Conns
    BY <1>a, <1>b DEF Tasks, Conns, Scopes, Ended
  <2>3. TaskSound(k)
    BY <1>11, <1>a DEF Rollback, TaskSound, Tasks
  <2>4. conn[c].user \in {r, NoRequest} /\ (conn[c].user = NoRequest => task[r].pc \notin Holding)
    BY <1>11 DEF Rollback, Holding, SessionsAssumption
  <2>5. m.user \in {r, NoRequest} /\ (m.user = NoRequest => m.setting = NoTenant /\ m.pending = {})
    BY <1>11, <1>b DEF Rollback, Conns, Ended, SessionsAssumption
  <2>6. m.user = r =>
          /\ k.pc \in Holding
          /\ m.setting \in {NoTenant, k.scope}
          /\ \A row \in m.pending : row.tenant = k.scope
    BY <1>11, <1>a, <1>b DEF Rollback, Tasks, Conns, Ended, ConnSound, Holding, SessionsAssumption
  <2> HIDE DEF k, m
  <2> QED BY <2>1, <2>2, <2>3, <2>4, <2>5, <2>6, HolderStep
<1>12. ASSUME NEW c \in Connections, Close(r, c) PROVE SessionsSound'
  <2> DEFINE k == [task[r] EXCEPT !.pc = "bound", !.scope = NoTenant, !.seen = {}]
             m == [Ended(conn[c]) EXCEPT !.user = NoRequest]
  <2>1. TaskIs(r, k) /\ ConnIs(c, m)
    BY <1>12, <1>c DEF Close, TaskIs, ConnIs
  <2>2. k \in Tasks /\ m \in Conns
    BY <1>a, <1>b DEF Tasks, Conns, Scopes, Ended
  <2>3. TaskSound(k)
    BY <1>12, <1>a DEF Close, TaskSound, Tasks
  <2>4. conn[c].user \in {r, NoRequest} /\ (conn[c].user = NoRequest => task[r].pc \notin Holding)
    BY <1>12 DEF Close, Holding, SessionsAssumption
  <2>5. m.user \in {r, NoRequest} /\ (m.user = NoRequest => m.setting = NoTenant /\ m.pending = {})
    BY <1>12, <1>b DEF Close, Conns, Ended, SessionsAssumption
  <2>6. m.user = r =>
          /\ k.pc \in Holding
          /\ m.setting \in {NoTenant, k.scope}
          /\ \A row \in m.pending : row.tenant = k.scope
    BY <1>12, <1>a, <1>b DEF Close, Tasks, Conns, Ended, ConnSound, Holding, SessionsAssumption
  <2> HIDE DEF k, m
  <2> QED BY <2>1, <2>2, <2>3, <2>4, <2>5, <2>6, HolderStep
<1> QED
  BY <1>1, <1>2, <1>3, <1>4, <1>5, <1>6, <1>7, <1>8, <1>9, <1>10, <1>11, <1>12
  DEF ServiceStep, Handle

-----------------------------------------------------------------------------
(* A service binds a request to its own tenant, and nobody binds it to another,
   unless its path is exempt. *)
LEMMA ServiceContext ==
  ASSUME AccessAssumption, SessionsTypeOK, ReqTypeOK, ContextOfToken,
         NEW r \in Requests, ServiceStep(r), UNCHANGED req
  PROVE  ContextOfToken'
<1>1. task[r] \in Tasks /\ TenantOf(r)' = TenantOf(r)
  BY DEF SessionsTypeOK, TenantOf
<1> DEFINE Bound == /\ \A q \in Requests \ {r} : task'[q] = task[q]
                    /\ \/ task'[r].from = "body"
                       \/ /\ task'[r].from = task[r].from
                          /\ task'[r].ctx \in {NoTenant, TenantOf(r), task[r].ctx}
<1> USE DEF SessionsTypeOK, Tasks, TaskIs
<1>a. ASSUME Deliver(r) PROVE Bound
  <2>1. CASE Receive(r, TenantOf(r))
    BY <2>1 DEF Receive
  <2>2. ASSUME NEW t \in Scopes, ReceiveExempt(r, t) PROVE Bound
    BY <2>2 DEF ReceiveExempt
  <2> QED BY <1>a, <2>1, <2>2 DEF Deliver
<1>b. ASSUME EndTask(r) PROVE Bound
  BY <1>b DEF EndTask
<1>c. ASSUME OpenTenantSession(r) \/ OpenAdminSession(r) PROVE Bound
  BY <1>c DEF OpenTenantSession, OpenAdminSession
<1>d. ASSUME NoConnection(r) PROVE Bound
  BY <1>d DEF NoConnection
<1>e. ASSUME NEW c \in Connections, Checkout(r, c) \/ SetTenant(r, c) PROVE Bound
  BY <1>e DEF Checkout, SetTenant
<1>f. ASSUME NEW c \in Connections, Read(r, c) \/ Insert(r, c) PROVE Bound
  BY <1>f DEF Read, Insert
<1>g. ASSUME NEW c \in Connections, Commit(r, c) \/ Rollback(r, c) PROVE Bound
  BY <1>g DEF Commit, Rollback
<1>h. ASSUME NEW c \in Connections, Close(r, c) PROVE Bound
  BY <1>h DEF Close
<1>2. Bound
  BY <1>a, <1>b, <1>c, <1>d, <1>e, <1>f, <1>g, <1>h DEF ServiceStep, Handle
<1>3. \A q \in Requests : TenantOf(q)' = TenantOf(q)
  BY DEF TenantOf
<1> QED BY <1>2, <1>3 DEF ContextOfToken

(* IInv is inductive. *)
LEMMA Inductive ==
  ASSUME SessionsAssumption, AccessAssumption PROVE IInv /\ [Next]_vars => IInv'
<1> SUFFICES ASSUME IInv, [Next]_vars PROVE IInv'
  OBVIOUS
<1>a. AccessTypeOK /\ SessionsTypeOK /\ ReqTypeOK /\ SessionsSound /\ ContextOfToken
  BY DEF IInv, AccessTypeOK, ReqTypeOK
<1>b. ASSUME UNCHANGED sessionVars, \A q \in Requests : req'[q].user = req[q].user
      PROVE  SessionsSound' /\ ContextOfToken'
  BY <1>a, <1>b
  DEF sessionVars, SessionsSound, ConnSound, ContextOfToken, TenantOf
<1>1. ASSUME NEW r \in Requests, GatewayStep(r), UNCHANGED sessionVars PROVE IInv'
  BY <1>1, <1>a, <1>b, GatewayTypes DEF IInv
<1>2. ASSUME Environment, UNCHANGED sessionVars PROVE IInv'
  BY <1>2, <1>a, <1>b, EnvironmentTypes DEF IInv
<1>3. ASSUME NEW r \in Requests, ServiceStep(r), UNCHANGED gatewayVars PROVE IInv'
  <2>1. SessionsTypeOK'
    BY <1>3, <1>a, ServiceTypes
  <2>2. AccessTypeOK'
    BY <2>1, <1>3, <1>a DEF AccessTypeOK, gatewayVars
  <2>3. SessionsSound'
    BY <1>3, <1>a, ServiceSound
  <2>4. ContextOfToken'
    BY <1>3, <1>a, ServiceContext DEF gatewayVars
  <2> QED BY <2>2, <2>3, <2>4 DEF IInv
<1>4. CASE UNCHANGED vars
  <2>1. UNCHANGED sessionVars /\ req' = req
    BY <1>4 DEF vars, gatewayVars
  <2>2. AccessTypeOK'
    BY <1>4, <1>a DEF vars, gatewayVars, sessionVars, AccessTypeOK, SessionsTypeOK
  <2> QED BY <2>1, <2>2, <1>b DEF IInv
<1> QED BY <1>1, <1>2, <1>3, <1>4 DEF Next

(* Every variable keeps its type, whatever the constants. *)
THEOREM TypeCorrect ==
  ASSUME SessionsAssumption, AccessAssumption PROVE Spec => []AccessTypeOK
<1>1. IInv => AccessTypeOK
  BY DEF IInv
<1> QED BY <1>1, InitIInv, Inductive, PTL DEF Spec

(* Connections, held or pooled, are sound: nothing that a session set or wrote
   outlives it. *)
THEOREM SessionsStaySound ==
  ASSUME SessionsAssumption, AccessAssumption PROVE Spec => []SessionsSound
<1>1. IInv => SessionsSound
  BY DEF IInv
<1> QED BY <1>1, InitIInv, Inductive, PTL DEF Spec

(* Tenant isolation, for any number of requests, tenants, connections and
   sessions: a request reads rows of no tenant but its token's and writes no
   others, but for a request of an exempt path, which writes those of the tenant
   its body names. *)
THEOREM Isolation ==
  ASSUME SessionsAssumption, AccessAssumption PROVE Spec => []TokenTenantOnly
<1>1. ASSUME IInv PROVE TokenTenantOnly
  <2> USE <1>1 DEF IInv, AccessTypeOK, SessionsTypeOK
  <2>1. ASSUME NEW r \in Requests, NEW row \in Rows, row \in task[r].seen
        PROVE  row.tenant = TenantOf(r) /\ task[r].scope # NoTenant
    <3>1. row.tenant = task[r].scope /\ task[r].scope \in {NoTenant, task[r].ctx}
      BY <2>1 DEF SessionsSound, TaskSound
    <3>2. row.tenant # NoTenant
      BY SessionsAssumption DEF Rows, SessionsAssumption
    <3>3. task[r].from = "header"
      BY <2>1 DEF SessionsSound, TaskSound, Tasks
    <3> QED BY <3>1, <3>2, <3>3 DEF ContextOfToken
  <2>2. ASSUME NEW c \in Connections, NEW row \in conn[c].pending
        PROVE  row.tenant = IF task[conn[c].user].from = "header"
                              THEN TenantOf(conn[c].user) ELSE task[conn[c].user].ctx
    <3>1. row \in Rows /\ conn[c].user \in Requests \cup {NoRequest}
      BY DEF Conns
    <3>2. conn[c].user \in Requests
      BY <3>1 DEF SessionsSound, ConnSound
    <3>3. row.tenant = task[conn[c].user].scope
      BY <3>2, SessionsAssumption DEF SessionsSound, ConnSound, SessionsAssumption
    <3>4. task[conn[c].user].scope \in {NoTenant, task[conn[c].user].ctx}
      BY <3>2 DEF SessionsSound, TaskSound
    <3>5. row.tenant # NoTenant
      BY <3>1, SessionsAssumption DEF Rows, SessionsAssumption
    <3> QED BY <3>2, <3>3, <3>4, <3>5 DEF ContextOfToken
  <2> QED BY <2>1, <2>2 DEF TokenTenantOnly
<1> QED BY <1>1, InitIInv, Inductive, PTL DEF Spec

-----------------------------------------------------------------------------
(***************************************************************************)
(* The cache of Keycloak's keys: whom it lets in or turns away.             *)
(***************************************************************************)
KInv == IInv /\ KeysSound

LEMMA Times ==
  ASSUME AccessAssumption, AccessTypeOK
  PROVE  /\ clock \in Nat /\ jwks.stamp \in Nat
         /\ JwksTtl \in Nat /\ FetchTimeout \in Nat /\ FetchTimeout < JwksTtl /\ 0 < JwksTtl
         /\ jwks.keys \subseteq Keys
         /\ \A k \in Keys : kc[k] \in KeyStates /\ kc[k].at \in Nat
         /\ \A r \in Requests : req[r] \in Handlings
BY DEF AccessAssumption, AccessTypeOK, KeyStates, Handlings

LEMMA InitKeysSound == ASSUME AccessAssumption PROVE Init => KeysSound
<1> SUFFICES ASSUME Init PROVE KeysSound
  OBVIOUS
<1>1. \A k \in Keys : kc[k].at <= clock
  BY DEF Init
<1>2. jwks.stamp <= clock /\ jwks.keys = {}
  BY DEF Init
<1>3. ASSUME NEW r \in Requests PROVE RequestSound(req[r])
  <2>1. /\ clock = 0 /\ req[r].pc = "idle" /\ req[r].key = NoKey
        /\ req[r].stamp = 0 /\ req[r].at = 0
    BY DEF Init
  <2>2. req[r].stamp <= clock /\ req[r].at <= clock
    BY <2>1
  <2> QED BY <2>1, <2>2 DEF RequestSound, FreshlyDecided
<1> QED BY <1>1, <1>2, <1>3 DEF KeysSound

(* A token decided with keys that were read less than the TTL ago is decided
   soundly. *)
LEMMA DecodedSound ==
  ASSUME AccessAssumption, AccessTypeOK, KeysSound,
         NEW r \in Requests, NEW q \in Handlings, q.key # NoKey, kc[q.key].state # "future",
         NEW t \in Nat, clock - t < JwksTtl, NEW keys, ReadSince(t, keys)
  PROVE  RequestSound(Decoded(r, q, keys))
<1> DEFINE d == Decoded(r, q, keys)
<1>1. /\ d.key = q.key /\ d.at = clock /\ d.stamp = 0
      /\ d.pc = IF q.key \notin keys THEN "bad_key"
                ELSE IF TenantOf(r) = NoTenant THEN "no_tenant" ELSE "counting"
  BY DEF Decoded, Handlings
<1>2. q.key \in Keys
  BY DEF Handlings
<1>3. clock \in Nat /\ JwksTtl \in Nat /\ kc[q.key].at \in Nat
  BY <1>2, Times
<1> HIDE DEF d
<1>4. ASSUME q.key \in keys PROVE RequestSound(d)
  <2>1. kc[q.key].state = "retired" => t <= kc[q.key].at
    BY <1>4 DEF ReadSince
  <2>2. FreshlyDecided(d)
    BY <2>1, <1>1, <1>3, <1>4 DEF FreshlyDecided
  <2> QED BY <2>2, <1>1, <1>3, <1>4 DEF RequestSound
<1>5. ASSUME q.key \notin keys PROVE RequestSound(d)
  <2>1. kc[q.key].state = "live" => t <= kc[q.key].at
    BY <1>2, <1>5 DEF ReadSince
  <2>2. FreshlyDecided(d)
    BY <2>1, <1>1, <1>3, <1>5 DEF FreshlyDecided
  <2> QED BY <2>2, <1>1, <1>3, <1>5 DEF RequestSound
<1> QED BY <1>4, <1>5 DEF d

(* A step that changes the handling of one request only. *)
LEMMA OneRequest ==
  ASSUME ReqTypeOK, KeysSound, UNCHANGED <<clock, kc, jwks>>,
         NEW r \in Requests, NEW q, Becomes(r, q), RequestSound(q)
  PROVE  KeysSound'
<1>1. \A p \in Requests : req'[p] = IF p = r THEN q ELSE req[p]
  BY DEF Becomes, ReqTypeOK
<1>2. \A p \in Requests : RequestSound(req[p])
  BY DEF KeysSound
<1>3. \A p \in Requests : RequestSound(req'[p])
  BY <1>1, <1>2
<1>4. \A p \in Requests : RequestSound(req[p])'
  BY <1>3 DEF RequestSound, FreshlyDecided, ReadSince
<1> QED BY <1>4 DEF KeysSound, ReadSince

-----------------------------------------------------------------------------
(* A step of the gateway. *)
LEMMA GatewayKeys ==
  ASSUME AccessAssumption, AccessTypeOK, KeysSound, NEW r \in Requests, GatewayStep(r)
  PROVE  KeysSound'
<1>a. ReqTypeOK /\ req[r] \in Handlings /\ RequestSound(req[r])
  BY DEF AccessTypeOK, ReqTypeOK, KeysSound
<1>b. ASSUME NEW pc \in {"anonymous", "no_keys", "allowed", "limited", "sent", "answered"}
      PROVE  RequestSound([req[r] EXCEPT !.pc = pc])
  <2> DEFINE q == [req[r] EXCEPT !.pc = pc]
  <2>1. q.pc = pc /\ q.key = req[r].key /\ q.at = req[r].at /\ q.stamp = req[r].stamp
    BY <1>a DEF Handlings
  <2>2. q.pc \notin {"fetching", "fetched", "counting", "no_tenant", "bad_key"}
    BY <2>1
  <2> HIDE DEF q
  <2>3. RequestSound(q)
    BY <1>a, <2>1, <2>2 DEF RequestSound, FreshlyDecided
  <2> QED BY <2>3 DEF q
<1>c. ASSUME UNCHANGED <<clock, kc, jwks>>,
             NEW pc \in {"anonymous", "no_keys", "allowed", "limited", "sent", "answered"},
             Moves(r, pc)
      PROVE  KeysSound'
  BY <1>a, <1>b, <1>c, OneRequest DEF Moves
<1>d. ASSUME NEW q, q.key = NoKey, q.at = 0, q.stamp = req[r].stamp,
             q.pc \notin {"fetching", "fetched"}
      PROVE  RequestSound(q)
  <2>1. 0 <= clock /\ q.stamp <= clock
    BY <1>d, <1>a, Times DEF RequestSound
  <2>2. FreshlyDecided(q)
    BY <1>d DEF FreshlyDecided
  <2> QED BY <2>1, <2>2, <1>d DEF RequestSound
<1>1. ASSUME ArriveAnonymous(r) PROVE KeysSound'
  BY <1>1, <1>c DEF ArriveAnonymous
<1>2. ASSUME NEW k \in Keys, Arrive(r, k) PROVE KeysSound'
  <2> DEFINE q == [req[r] EXCEPT !.key = k, !.stamp = clock]
             f == [q EXCEPT !.pc = "fetching"]
  <2>1. q \in Handlings /\ q.key = k /\ q.at = req[r].at /\ q.stamp = clock
    BY <1>a DEF Handlings, AccessTypeOK
  <2>2. /\ f.pc = "fetching" /\ f.key = k /\ f.at = req[r].at /\ f.stamp = clock
    BY <2>1 DEF Handlings
  <2>3. k # NoKey /\ kc[k].state # "future"
    BY <1>2 DEF Arrive, AccessAssumption
  <2>4. \/ Becomes(r, f)
        \/ /\ Becomes(r, Decoded(r, q, jwks.keys))
           /\ jwks.keys # {} /\ clock - jwks.stamp < JwksTtl
    BY <1>2 DEF Arrive
  <2>5. UNCHANGED <<clock, kc, jwks>>
    BY <1>2 DEF Arrive
  <2> HIDE DEF q, f
  <2>6. RequestSound(f)
    <3>1. clock <= clock + FetchTimeout /\ clock <= clock /\ req[r].at <= clock
      BY <1>a, Times DEF RequestSound
    <3>2. FreshlyDecided(f)
      BY <2>2 DEF FreshlyDecided
    <3> QED BY <3>1, <3>2, <2>2, <2>3 DEF RequestSound
  <2>7. ASSUME jwks.keys # {}, clock - jwks.stamp < JwksTtl
        PROVE  RequestSound(Decoded(r, q, jwks.keys))
    <3>1. ReadSince(jwks.stamp, jwks.keys) /\ jwks.stamp \in Nat
      BY <2>7, Times DEF KeysSound
    <3> QED BY <3>1, <2>7, <2>1, <2>3, DecodedSound
  <2> QED BY <2>4, <2>5, <2>6, <2>7, <1>a, OneRequest
<1>3. ASSUME KeycloakAnswers(r) PROVE KeysSound'
  <2> DEFINE q == [req[r] EXCEPT !.pc = "fetched", !.answer = Live]
  <2>1. /\ q.pc = "fetched" /\ q.key = req[r].key /\ q.at = req[r].at
        /\ q.stamp = req[r].stamp /\ q.answer = Live
    BY <1>a DEF Handlings
  <2>2. Becomes(r, q) /\ UNCHANGED <<clock, kc, jwks>> /\ req[r].pc = "fetching"
    BY <1>3 DEF KeycloakAnswers
  <2> HIDE DEF q
  <2>3. ReadSince(req[r].stamp, Live)
    BY DEF ReadSince, Live
  <2>4. RequestSound(q)
    BY <1>a, <2>1, <2>2, <2>3 DEF RequestSound, FreshlyDecided
  <2> QED BY <2>2, <2>4, <1>a, OneRequest
<1>4. ASSUME FetchFails(r) PROVE KeysSound'
  BY <1>4, <1>c DEF FetchFails
<1>5. ASSUME StoreKeys(r) PROVE KeysSound'
  <2> DEFINE d == Decoded(r, req[r], req[r].answer)
  <2>1. /\ req[r].pc = "fetched" /\ Becomes(r, d) /\ UNCHANGED <<clock, kc>>
        /\ jwks' = [stamp |-> req[r].stamp, keys |-> req[r].answer]
    BY <1>5 DEF StoreKeys
  <2>2. /\ req[r].key # NoKey /\ clock <= req[r].stamp + FetchTimeout
        /\ ReadSince(req[r].stamp, req[r].answer) /\ kc[req[r].key].state # "future"
        /\ req[r].stamp <= clock
    BY <2>1, <1>a DEF RequestSound
  <2>3. req[r].stamp \in Nat /\ clock - req[r].stamp < JwksTtl
    BY <2>2, <1>a, Times DEF Handlings
  <2>4. RequestSound(d)
    BY <2>2, <2>3, <1>a, DecodedSound
  <2> HIDE DEF d
  <2>5. \A p \in Requests : RequestSound(req'[p])
    BY <2>1, <2>4, <1>a DEF Becomes, ReqTypeOK, KeysSound
  <2>6. \A p \in Requests : RequestSound(req[p])'
    BY <2>5, <2>1 DEF RequestSound, FreshlyDecided, ReadSince
  <2>7. jwks'.stamp = req[r].stamp /\ jwks'.keys = req[r].answer
    BY <2>1
  <2>8. ReadSince(jwks.stamp, jwks.keys)'
    BY <2>1, <2>2, <2>7 DEF ReadSince
  <2> QED BY <2>1, <2>2, <2>6, <2>7, <2>8 DEF KeysSound
<1>6. ASSUME Incr(r) PROVE KeysSound'
  <2> PICK pc \in {"first", "allowed", "limited"} :
             Becomes(r, [Asked(r) EXCEPT !.landed = InTime(r), !.pc = pc])
    BY <1>6 DEF Incr, Verdict
  <2> DEFINE q == [Asked(r) EXCEPT !.landed = InTime(r), !.pc = pc]
  <2>1. q.key = NoKey /\ q.at = 0 /\ q.stamp = req[r].stamp /\ q.pc = pc
    BY <1>a DEF Asked, Handlings
  <2> HIDE DEF q
  <2>2. RequestSound(q)
    BY <2>1, <1>d
  <2>3. Becomes(r, q) /\ UNCHANGED <<clock, kc, jwks>>
    BY <1>6 DEF Incr, q
  <2> QED BY <2>2, <2>3, <1>a, OneRequest
<1>7. ASSUME Expire(r) PROVE KeysSound'
  BY <1>7, <1>c DEF Expire, Verdict
<1>8. ASSUME IncrFails(r) PROVE KeysSound'
  <2> DEFINE q == [Asked(r) EXCEPT !.failed = TRUE, !.pc = "allowed"]
  <2>1. q.key = NoKey /\ q.at = 0 /\ q.stamp = req[r].stamp /\ q.pc = "allowed"
    BY <1>a DEF Asked, Handlings
  <2>2. Becomes(r, q) /\ UNCHANGED <<clock, kc, jwks>>
    BY <1>8 DEF IncrFails
  <2> HIDE DEF q
  <2>3. RequestSound(q)
    BY <2>1, <1>d
  <2> QED BY <2>2, <2>3, <1>a, OneRequest
<1>10. ASSUME ExpireFails(r) PROVE KeysSound'
  BY <1>10, <1>c DEF ExpireFails
<1>9. ASSUME Forward(r) \/ ForwardFails(r) \/ Answer(r) PROVE KeysSound'
  BY <1>9, <1>c DEF Forward, ForwardFails, Answer
<1> QED
  BY <1>1, <1>2, <1>3, <1>4, <1>5, <1>6, <1>7, <1>8, <1>9, <1>10 DEF GatewayStep

-----------------------------------------------------------------------------
(* A step of Keycloak or of the clock. *)
LEMMA EnvironmentKeys ==
  ASSUME AccessAssumption, AccessTypeOK, KeysSound, Environment PROVE KeysSound'
<1>a. /\ clock \in Nat /\ JwksTtl \in Nat /\ 0 < JwksTtl
      /\ \A k \in Keys : kc[k].at \in Nat /\ kc[k].at <= clock
      /\ jwks.stamp \in Nat /\ jwks.stamp <= clock /\ jwks.keys \subseteq Keys
      /\ \A r \in Requests : req[r] \in Handlings /\ RequestSound(req[r])
  BY Times DEF KeysSound
<1>b. ASSUME NEW r \in Requests
      PROVE  /\ req[r].at \in Nat /\ req[r].stamp \in Nat
             /\ req[r].answer \subseteq Keys /\ req[r].key \in Keys \cup {NoKey}
  BY <1>a DEF Handlings
<1>1. ASSUME Tick PROVE KeysSound'
  <2>1. clock' = clock + 1 /\ UNCHANGED <<kc, jwks, req>>
    BY <1>1 DEF Tick
  <2>2. \A r \in Requests :
          req[r].pc \in {"fetching", "fetched"} => clock < req[r].stamp + FetchTimeout
    BY <1>1 DEF Tick
  <2>3. ASSUME NEW r \in Requests PROVE RequestSound(req[r])'
    <3>1. /\ req[r].stamp <= clock' /\ req[r].at <= clock'
          /\ req[r].pc \in {"fetching", "fetched"} => clock' <= req[r].stamp + FetchTimeout
      BY <1>a, <1>b, <2>1, <2>2, <2>3, Times DEF RequestSound
    <3>2. RequestSound(req[r])
      BY <1>a
    <3> QED BY <3>1, <3>2, <2>1 DEF RequestSound, FreshlyDecided, ReadSince
  <2>4. jwks.stamp <= clock' /\ \A k \in Keys : kc[k].at <= clock'
    BY <1>a, <2>1
  <2> QED BY <2>1, <2>3, <2>4 DEF KeysSound, ReadSince
<1>2. ASSUME NEW k \in Keys, Publish(k) \/ Retire(k) PROVE KeysSound'
  <2>1. UNCHANGED <<clock, jwks, req>>
    BY <1>2 DEF Publish, Retire
  <2>2. /\ kc'[k].at = clock /\ kc'[k].state \in {"live", "retired"}
        /\ kc[k].state = "future" <=> kc'[k].state = "live"
        /\ \A j \in Keys \ {k} : kc'[j] = kc[j]
    BY <1>2 DEF Publish, Retire, AccessTypeOK
  <2>3. ASSUME NEW t \in Nat, t <= clock, NEW keys, keys \subseteq Keys, ReadSince(t, keys)
        PROVE  /\ \A j \in keys : /\ kc'[j].state # "future"
                                  /\ kc'[j].state = "retired" => t <= kc'[j].at
               /\ \A j \in Keys \ keys : kc'[j].state = "live" => t <= kc'[j].at
    <3>1. ASSUME NEW j \in keys
          PROVE  kc'[j].state # "future" /\ (kc'[j].state = "retired" => t <= kc'[j].at)
      BY <2>2, <2>3, <3>1 DEF ReadSince
    <3>2. ASSUME NEW j \in Keys \ keys PROVE kc'[j].state = "live" => t <= kc'[j].at
      BY <2>2, <2>3, <3>2 DEF ReadSince
    <3> QED BY <3>1, <3>2
  <2>4. ASSUME NEW r \in Requests PROVE RequestSound(req[r])'
    <3> DEFINE q == req[r]
    <3>0. RequestSound(q) /\ q.stamp \in Nat /\ q.stamp <= clock /\ q.answer \subseteq Keys
          /\ q.at \in Nat /\ q.at <= clock /\ q.key \in Keys \cup {NoKey}
      BY <1>a, <1>b DEF RequestSound
    <3> HIDE DEF q
    <3>1. q.pc = "fetched" => ReadSince(q.stamp, q.answer)'
      <4>1. ASSUME q.pc = "fetched" PROVE ReadSince(q.stamp, q.answer)
        BY <3>0, <4>1 DEF RequestSound
      <4>2. ASSUME q.pc = "fetched"
            PROVE  /\ \A j \in q.answer : /\ kc'[j].state # "future"
                                          /\ kc'[j].state = "retired" => q.stamp <= kc'[j].at
                   /\ \A j \in Keys \ q.answer : kc'[j].state = "live" => q.stamp <= kc'[j].at
        BY <4>1, <4>2, <3>0, <2>3
      <4>3. q' = q
        BY <2>1 DEF q
      <4> QED BY <4>2, <4>3 DEF ReadSince
    <3>2. q.key # NoKey => kc'[q.key].state # "future"
      BY <3>0, <2>2 DEF RequestSound
    <3>3. ASSUME q.key = k, k # NoKey PROVE q.at - kc'[k].at < JwksTtl
      BY <3>0, <2>2, <1>a
    <3>4. ASSUME q.key # NoKey, q.key # k PROVE kc'[q.key] = kc[q.key]
      BY <3>0, <3>4, <2>2
    <3>5. FreshlyDecided(q)'
      BY <3>0, <3>3, <3>4, <2>1 DEF RequestSound, FreshlyDecided, q
    <3> QED BY <3>0, <3>1, <3>2, <3>5, <2>1 DEF RequestSound, q
  <2>5. jwks.keys # {} => ReadSince(jwks.stamp, jwks.keys)'
    <3>1. ASSUME jwks.keys # {}
          PROVE  /\ \A j \in jwks.keys : /\ kc'[j].state # "future"
                                         /\ kc'[j].state = "retired" => jwks.stamp <= kc'[j].at
                 /\ \A j \in Keys \ jwks.keys : kc'[j].state = "live" => jwks.stamp <= kc'[j].at
      <4>1. ReadSince(jwks.stamp, jwks.keys)
        BY <3>1 DEF KeysSound
      <4> QED BY <4>1, <1>a, <2>3
    <3>2. jwks'.stamp = jwks.stamp /\ jwks'.keys = jwks.keys
      BY <2>1
    <3> QED BY <3>1, <3>2 DEF ReadSince
  <2>6. \A j \in Keys : kc'[j].at <= clock
    BY <1>a, <2>2
  <2> QED BY <1>a, <2>1, <2>4, <2>5, <2>6 DEF KeysSound
<1> QED BY <1>1, <1>2 DEF Environment

-----------------------------------------------------------------------------
(* Whatever Keycloak does with its keys meanwhile, and whichever requests fetch
   them at the same time, a token is decided as its keys were at most the TTL
   ago: the bound the cache promises. *)
THEOREM KeysStayFresh ==
  ASSUME SessionsAssumption, AccessAssumption PROVE Spec => []KeysAreFresh
<1>1. Init => KInv
  BY InitIInv, InitKeysSound DEF KInv
<1>2. KInv /\ [Next]_vars => KInv'
  <2> SUFFICES ASSUME KInv, [Next]_vars PROVE KInv'
    OBVIOUS
  <2>1. IInv' /\ AccessTypeOK /\ KeysSound
    BY Inductive DEF KInv, IInv
  <2>2. CASE UNCHANGED gatewayVars
    BY <2>1, <2>2 DEF KInv, gatewayVars, KeysSound, RequestSound, FreshlyDecided, ReadSince
  <2>3. ASSUME NEW r \in Requests, GatewayStep(r) PROVE KInv'
    BY <2>1, <2>3, GatewayKeys DEF KInv
  <2>4. CASE Environment
    BY <2>1, <2>4, EnvironmentKeys DEF KInv
  <2> QED BY <2>2, <2>3, <2>4 DEF Next, vars
<1>3. KInv => KeysAreFresh
  BY DEF KInv, KeysSound, RequestSound, KeysAreFresh
<1> QED BY <1>1, <1>2, <1>3, PTL DEF Spec

-----------------------------------------------------------------------------
(***************************************************************************)
(* The rate limiter.                                                       *)
(***************************************************************************)
AtRedis == Judged \cup Passing

(* What a step of the gateway does to its request and the request's counter:
   the request is not at the limiter yet, ... *)
Before(r, q) ==
  /\ req[r].pc \notin AtRedis /\ q.pc \notin AtRedis
  /\ q.landed = req[r].landed /\ q.failed = req[r].failed
  /\ q.window = req[r].window \/ q.window = clock \div Window
  /\ UNCHANGED redis

(* ... is counted, ... *)
Counts1(r, q) ==
  /\ req[r].pc = "counting"
  /\ q.window = req[r].window /\ q.landed = InTime(r) /\ q.failed = req[r].failed
  /\ Hit(r)
  /\ LET count == redis[Counter(r)].hits + 1 IN
       q.pc = IF count = 1 THEN "first" ELSE Verdict(count)

(* ... passes without a verdict, one more fault, ... *)
Slips(r, q) ==
  /\ faults' = faults + 1
  /\ req[r].pc = "counting" /\ q.pc = "allowed"
  /\ q.window = req[r].window /\ q.landed = req[r].landed
  /\ UNCHANGED redis \/ Hit(r)

(* ... or goes on. *)
Follows(r, q) ==
  /\ req[r].pc \in AtRedis \ {"limited"} /\ q.pc \in Passing
  /\ q.window = req[r].window /\ q.landed = req[r].landed /\ q.failed = req[r].failed
  /\ UNCHANGED redis \/ redis' = [redis EXCEPT ![Counter(r)].expires = clock + Window]

LEMMA GatewayShape ==
  ASSUME AccessAssumption, LimiterAssumption, AccessTypeOK, NEW r \in Requests, GatewayStep(r)
  PROVE  \E q :
           /\ Becomes(r, q) /\ q.user = req[r].user /\ clock' = clock
           /\ Before(r, q) \/ Counts1(r, q) \/ Slips(r, q) \/ Follows(r, q)
<1> DEFINE Goal == \E q :
             /\ Becomes(r, q) /\ q.user = req[r].user /\ clock' = clock
             /\ Before(r, q) \/ Counts1(r, q) \/ Slips(r, q) \/ Follows(r, q)
<1>a. req[r] \in Handlings
  BY DEF AccessTypeOK
<1>b. Verdict(1) = "allowed"
  BY DEF Verdict, LimiterAssumption, AccessAssumption
<1>c. ASSUME NEW pc
      PROVE  LET q == [req[r] EXCEPT !.pc = pc] IN
               /\ q.pc = pc /\ q.user = req[r].user
               /\ q.window = req[r].window /\ q.landed = req[r].landed
               /\ q.failed = req[r].failed
  BY <1>a DEF Handlings
<1>d. ASSUME NEW q \in Handlings, NEW keys
      PROVE  LET d == Decoded(r, q, keys) IN
               /\ d.pc \in {"bad_key", "no_tenant", "counting"} /\ d.user = q.user
               /\ d.window = clock \div Window /\ d.landed = q.landed
               /\ d.failed = q.failed
  BY <1>d DEF Decoded, Handlings
<1>e. ASSUME NEW pc, Moves(r, pc)
      PROVE  \E q : /\ Becomes(r, q) /\ q.pc = pc /\ q.user = req[r].user
                    /\ q.window = req[r].window /\ q.landed = req[r].landed
                    /\ q.failed = req[r].failed
  <2> DEFINE q == [req[r] EXCEPT !.pc = pc]
  <2>1. Becomes(r, q)
    BY <1>e DEF Moves
  <2>2. /\ q.pc = pc /\ q.user = req[r].user /\ q.window = req[r].window
        /\ q.landed = req[r].landed /\ q.failed = req[r].failed
    BY <1>c
  <2> HIDE DEF q
  <2> QED BY <2>1, <2>2
<1>f. ASSUME UNCHANGED <<clock, redis>>, NEW pc, Moves(r, pc),
             \/ req[r].pc \notin AtRedis /\ pc \notin AtRedis
             \/ req[r].pc \in AtRedis \ {"limited"} /\ pc \in Passing
      PROVE  Goal
  <2>1. PICK q : /\ Becomes(r, q) /\ q.pc = pc /\ q.user = req[r].user
                 /\ q.window = req[r].window /\ q.landed = req[r].landed
                 /\ q.failed = req[r].failed
    BY <1>e, <1>f
  <2>2. Before(r, q) \/ Follows(r, q)
    BY <1>f, <2>1 DEF Before, Follows
  <2> QED BY <1>f, <2>1, <2>2
<1>1. ASSUME ArriveAnonymous(r) PROVE Goal
  <2>1. req[r].pc = "idle" /\ Moves(r, "anonymous") /\ UNCHANGED <<clock, redis>>
    BY <1>1 DEF ArriveAnonymous
  <2> QED BY <2>1, <1>f DEF AtRedis, Judged, Passing
<1>2. ASSUME NEW k \in Keys, Arrive(r, k) PROVE Goal
  <2> DEFINE p == [req[r] EXCEPT !.key = k, !.stamp = clock]
             f == [p EXCEPT !.pc = "fetching"]
             d == Decoded(r, p, jwks.keys)
  <2>0. clock \in 0 .. MaxTime
    BY DEF AccessTypeOK
  <2>1. p \in Handlings /\ p.user = req[r].user /\ p.landed = req[r].landed
        /\ p.window = req[r].window /\ p.failed = req[r].failed
    BY <1>a, <2>0 DEF Handlings
  <2>2. f.pc = "fetching" /\ f.user = p.user /\ f.landed = p.landed /\ f.window = p.window
        /\ f.failed = p.failed
    BY <2>1 DEF Handlings
  <2>3. /\ req[r].pc = "idle" /\ UNCHANGED <<clock, redis>>
        /\ Becomes(r, d) \/ Becomes(r, f)
    BY <1>2 DEF Arrive
  <2>4. /\ d.pc \in {"bad_key", "no_tenant", "counting"} /\ d.user = p.user
        /\ d.window = clock \div Window /\ d.landed = p.landed /\ d.failed = p.failed
    BY <1>d, <2>1
  <2> HIDE DEF p, f, d
  <2>5. Before(r, d) /\ d.user = req[r].user
    BY <2>1, <2>3, <2>4 DEF Before, AtRedis, Judged, Passing
  <2>6. Before(r, f) /\ f.user = req[r].user
    BY <2>1, <2>2, <2>3 DEF Before, AtRedis, Judged, Passing
  <2> QED BY <2>3, <2>5, <2>6
<1>3. ASSUME KeycloakAnswers(r) PROVE Goal
  <2> DEFINE q == [req[r] EXCEPT !.pc = "fetched", !.answer = Live]
  <2>1. q.pc = "fetched" /\ q.user = req[r].user /\ q.landed = req[r].landed
        /\ q.window = req[r].window /\ q.failed = req[r].failed
    BY <1>a DEF Handlings
  <2>2. Becomes(r, q) /\ req[r].pc = "fetching" /\ UNCHANGED <<clock, redis>>
    BY <1>3 DEF KeycloakAnswers
  <2> HIDE DEF q
  <2> QED BY <2>1, <2>2 DEF Before, AtRedis, Judged, Passing
<1>4. ASSUME FetchFails(r) PROVE Goal
  <2>1. req[r].pc = "fetching" /\ Moves(r, "no_keys") /\ UNCHANGED <<clock, redis>>
    BY <1>4 DEF FetchFails
  <2> QED BY <2>1, <1>f DEF AtRedis, Judged, Passing
<1>5. ASSUME StoreKeys(r) PROVE Goal
  <2> DEFINE d == Decoded(r, req[r], req[r].answer)
  <2>1. /\ d.pc \in {"bad_key", "no_tenant", "counting"} /\ d.user = req[r].user
        /\ d.window = clock \div Window /\ d.landed = req[r].landed
        /\ d.failed = req[r].failed
    BY <1>a, <1>d
  <2>2. Becomes(r, d) /\ req[r].pc = "fetched" /\ UNCHANGED <<clock, redis>>
    BY <1>5 DEF StoreKeys
  <2> HIDE DEF d
  <2> QED BY <2>1, <2>2 DEF Before, AtRedis, Judged, Passing
<1>6. ASSUME Incr(r) PROVE Goal
  <2> DEFINE count == redis[Counter(r)].hits + 1
             pc == IF count = 1 THEN "first" ELSE Verdict(count)
             late == InTime(r)
             q == [Asked(r) EXCEPT !.landed = late, !.pc = pc]
  <2>1. Becomes(r, q) /\ req[r].pc = "counting" /\ UNCHANGED clock /\ Hit(r)
    BY <1>6 DEF Incr
  <2> HIDE DEF pc, late
  <2>2. q.pc = pc /\ q.user = req[r].user /\ q.landed = late /\ q.window = req[r].window
        /\ q.failed = req[r].failed
    BY <1>a DEF Asked, Handlings
  <2> HIDE DEF q
  <2>3. Counts1(r, q)
    BY <2>1, <2>2 DEF Counts1, pc, late
  <2> QED BY <2>1, <2>2, <2>3
<1>7. ASSUME Expire(r) \/ ExpireFails(r) PROVE Goal
  <2>1. /\ req[r].pc = "first" /\ UNCHANGED clock /\ Moves(r, "allowed")
        /\ \/ UNCHANGED redis
           \/ redis' = [redis EXCEPT ![Counter(r)].expires = clock + Window]
    BY <1>7, <1>b DEF Expire, ExpireFails
  <2>2. PICK q : /\ Becomes(r, q) /\ q.pc = "allowed" /\ q.user = req[r].user
                 /\ q.window = req[r].window /\ q.landed = req[r].landed
                 /\ q.failed = req[r].failed
    BY <2>1, <1>e
  <2> QED BY <2>1, <2>2 DEF Follows, AtRedis, Judged, Passing
<1>8. ASSUME IncrFails(r) PROVE Goal
  <2> DEFINE q == [Asked(r) EXCEPT !.failed = TRUE, !.pc = "allowed"]
  <2>1. /\ Becomes(r, q) /\ UNCHANGED clock /\ req[r].pc = "counting"
        /\ UNCHANGED redis \/ Hit(r)
        /\ faults' = faults + 1
    BY <1>8 DEF IncrFails, Fault
  <2>2. q.pc = "allowed" /\ q.user = req[r].user /\ q.landed = req[r].landed
        /\ q.window = req[r].window
    BY <1>a DEF Asked, Handlings
  <2> HIDE DEF q
  <2> QED BY <2>1, <2>2 DEF Slips
<1>9. ASSUME Forward(r) \/ ForwardFails(r) \/ Answer(r) PROVE Goal
  <2>1. /\ req[r].pc \in {"allowed", "sent"} /\ UNCHANGED <<clock, redis>>
        /\ Moves(r, "sent") \/ Moves(r, "answered")
    BY <1>9 DEF Forward, ForwardFails, Answer
  <2> QED BY <2>1, <1>f DEF AtRedis, Judged, Passing
<1> QED
  BY <1>1, <1>2, <1>3, <1>4, <1>5, <1>6, <1>7, <1>8, <1>9 DEF GatewayStep

(* The windows: they follow one another, and each lasts its length. *)
LEMMA WindowsFollow ==
  ASSUME AccessAssumption, NEW a \in Nat, NEW b \in Nat, a <= b
  PROVE  a \div Window \in Nat /\ a \div Window <= b \div Window
<1>1. Window \in Nat /\ 0 < Window
  BY DEF AccessAssumption
<1> QED BY <1>1

LEMMA WindowEnds ==
  ASSUME AccessAssumption, NEW a \in Nat
  PROVE  /\ a \div Window \in Nat
         /\ a + Window \in Nat /\ (a + Window) \div Window \in Nat
         /\ a \div Window < (a + Window) \div Window
<1>1. Window \in Nat /\ 0 < Window
  BY DEF AccessAssumption
<1> QED BY <1>1

LEMMA WindowsBounded ==
  ASSUME AccessAssumption, AccessTypeOK, LimiterSound, NEW r \in Requests
  PROVE  req[r].window \in Windows
<1>1. clock \in Nat /\ MaxTime \in Nat /\ clock <= MaxTime /\ req[r].window \in Nat
  BY DEF AccessTypeOK, AccessAssumption, Handlings
<1>2. req[r].window <= clock \div Window /\ clock \div Window <= MaxTime \div Window
  BY <1>1, WindowsFollow DEF LimiterSound
<1>3. clock \div Window \in Nat /\ MaxTime \div Window \in Nat
  BY <1>1, WindowEnds
<1> QED BY <1>1, <1>2, <1>3 DEF Windows

(* Whether a handling counts as one that reached Redis, or was admitted. *)
Reaches(q, u, w) == q.user = u /\ q.window = w /\ q.pc \in AtRedis
Enters(q, u, w)  == q.user = u /\ q.window = w /\ q.landed /\ q.pc \in Passing \cup {"first"}

LEMMA Sizes ==
  ASSUME LimiterAssumption, NEW u, NEW w
  PROVE  /\ IsFiniteSet(Reached(u, w)) /\ Cardinality(Reached(u, w)) \in Nat
         /\ IsFiniteSet(Admitted(u, w)) /\ Cardinality(Admitted(u, w)) \in Nat
<1>1. Reached(u, w) \in SUBSET Requests /\ Admitted(u, w) \in SUBSET Requests
  BY DEF Reached, Admitted
<1>2. IsFiniteSet(Reached(u, w)) /\ IsFiniteSet(Admitted(u, w))
  BY <1>1, FS_Subset DEF LimiterAssumption
<1> QED BY <1>2, FS_CardinalityType

LEMMA ReachedStep ==
  ASSUME LimiterAssumption, ReqTypeOK, NEW r \in Requests, NEW q, Becomes(r, q), NEW u, NEW w,
         Reaches(req[r], u, w) => Reaches(q, u, w)
  PROVE  Cardinality(Reached(u, w)') =
           IF Reaches(q, u, w) /\ ~Reaches(req[r], u, w)
             THEN Cardinality(Reached(u, w)) + 1 ELSE Cardinality(Reached(u, w))
<1>1. \A p \in Requests : req'[p] = IF p = r THEN q ELSE req[p]
  BY DEF Becomes, ReqTypeOK
<1>2. /\ Reached(u, w) = {p \in Requests : Reaches(req[p], u, w)}
      /\ Reached(u, w)' = {p \in Requests : Reaches(req'[p], u, w)}
  BY DEF Reached, Reaches, AtRedis
<1>3. CASE Reaches(q, u, w) /\ ~Reaches(req[r], u, w)
  <2>1. Reached(u, w)' = Reached(u, w) \cup {r} /\ r \notin Reached(u, w)
    BY <1>1, <1>2, <1>3
  <2> QED BY <1>3, <2>1, Sizes, FS_AddElement
<1>4. CASE ~(Reaches(q, u, w) /\ ~Reaches(req[r], u, w))
  <2>1. Reached(u, w)' = Reached(u, w)
    BY <1>1, <1>2, <1>4
  <2> QED BY <1>4, <2>1
<1> QED BY <1>3, <1>4

LEMMA AdmittedStep ==
  ASSUME LimiterAssumption, ReqTypeOK, NEW r \in Requests, NEW q, Becomes(r, q), NEW u, NEW w,
         Enters(req[r], u, w) => Enters(q, u, w)
  PROVE  Cardinality(Admitted(u, w)') =
           IF Enters(q, u, w) /\ ~Enters(req[r], u, w)
             THEN Cardinality(Admitted(u, w)) + 1 ELSE Cardinality(Admitted(u, w))
<1>1. \A p \in Requests : req'[p] = IF p = r THEN q ELSE req[p]
  BY DEF Becomes, ReqTypeOK
<1>2. /\ Admitted(u, w) = {p \in Requests : Enters(req[p], u, w)}
      /\ Admitted(u, w)' = {p \in Requests : Enters(req'[p], u, w)}
  BY DEF Admitted, Enters
<1>3. CASE Enters(q, u, w) /\ ~Enters(req[r], u, w)
  <2>1. Admitted(u, w)' = Admitted(u, w) \cup {r} /\ r \notin Admitted(u, w)
    BY <1>1, <1>2, <1>3
  <2> QED BY <1>3, <2>1, Sizes, FS_AddElement
<1>4. CASE ~(Enters(q, u, w) /\ ~Enters(req[r], u, w))
  <2>1. Admitted(u, w)' = Admitted(u, w)
    BY <1>1, <1>2, <1>4
  <2> QED BY <1>4, <2>1
<1> QED BY <1>3, <1>4

(* What a step does to the counter of user u and window w. *)
LEMMA CounterStep ==
  ASSUME AccessAssumption, AccessTypeOK, NEW r \in Requests, NEW u \in Users, NEW w \in Windows
  PROVE  LET k == <<Named(u), u, w>>
             mine == req[r].user = u /\ req[r].window = w
         IN /\ redis[k] \in Counts
            /\ Hit(r) => /\ redis'[k].expires = redis[k].expires
                         /\ redis'[k].hits = IF mine THEN redis[k].hits + 1 ELSE redis[k].hits
            /\ \A n \in Nat :
                 redis' = [redis EXCEPT ![Counter(r)].expires = n] =>
                   /\ redis'[k].hits = redis[k].hits
                   /\ redis'[k].expires = IF mine THEN n ELSE redis[k].expires
<1> DEFINE k == <<Named(u), u, w>>
<1>1. k \in Counters /\ redis \in [Counters -> Counts]
  BY NamedType DEF Counters, AccessTypeOK
<1>2. Counter(r) = k <=> (req[r].user = u /\ req[r].window = w)
  BY DEF Counter, TenantOf
<1>3. redis[k] \in Counts
  BY <1>1
<1> HIDE DEF k
<1>4. ASSUME Hit(r)
      PROVE  /\ redis'[k].expires = redis[k].expires
             /\ redis'[k].hits = IF Counter(r) = k THEN redis[k].hits + 1 ELSE redis[k].hits
  <2> DEFINE n == redis[Counter(r)].hits + 1
  <2>1. redis' = [redis EXCEPT ![Counter(r)].hits = n]
    BY <1>4 DEF Hit
  <2>2. Counter(r) = k => n = redis[k].hits + 1
    OBVIOUS
  <2> HIDE DEF n
  <2> QED BY <1>1, <1>3, <2>1, <2>2 DEF Counts
<1>5. ASSUME NEW n \in Nat, redis' = [redis EXCEPT ![Counter(r)].expires = n]
      PROVE  /\ redis'[k].hits = redis[k].hits
             /\ redis'[k].expires = IF Counter(r) = k THEN n ELSE redis[k].expires
  BY <1>1, <1>3, <1>5 DEF Counts
<1> QED BY <1>2, <1>3, <1>4, <1>5 DEF k

(* A request that moves keeps every counter sound. *)
LEMMA CounterKept ==
  ASSUME AccessAssumption, LimiterAssumption, AccessTypeOK, LimiterSound,
         NEW r \in Requests, GatewayStep(r), NEW u \in Users, NEW w \in Windows
  PROVE  CounterSound(u, w)' /\ Cardinality(Reached(u, w)) <= Cardinality(Reached(u, w)')
<1> DEFINE k == <<Named(u), u, w>>
           mine == req[r].user = u /\ req[r].window = w
           c == redis[k]
           d == redis'[k]
           R == Cardinality(Reached(u, w))
           A == Cardinality(Admitted(u, w))
           R2 == Cardinality(Reached(u, w)')
           A2 == Cardinality(Admitted(u, w)')
<1>1. PICK q :
        /\ Becomes(r, q) /\ q.user = req[r].user /\ clock' = clock
        /\ Before(r, q) \/ Counts1(r, q) \/ Slips(r, q) \/ Follows(r, q)
  BY GatewayShape
<1>2. /\ ReqTypeOK /\ clock \in Nat /\ Window \in Nat /\ Limit \in Nat /\ 0 < Limit
      /\ clock \div Window \in Nat
  BY WindowEnds DEF AccessTypeOK, ReqTypeOK, AccessAssumption, LimiterAssumption
<1>3. /\ c.hits \in Nat /\ c.expires \in Nat
      /\ Hit(r) => d.expires = c.expires /\ d.hits = IF mine THEN c.hits + 1 ELSE c.hits
      /\ redis' = [redis EXCEPT ![Counter(r)].expires = clock + Window] =>
           d.hits = c.hits /\ d.expires = IF mine THEN clock + Window ELSE c.expires
      /\ UNCHANGED redis => d = c
  <2>1. clock + Window \in Nat
    BY <1>2
  <2>2. /\ c \in Counts
        /\ Hit(r) => d.expires = c.expires /\ d.hits = IF mine THEN c.hits + 1 ELSE c.hits
        /\ redis' = [redis EXCEPT ![Counter(r)].expires = clock + Window] =>
             d.hits = c.hits /\ d.expires = IF mine THEN clock + Window ELSE c.expires
    BY <2>1, CounterStep
  <2>3. UNCHANGED redis => d = c
    OBVIOUS
  <2> QED BY <2>2, <2>3 DEF Counts
<1>4. R \in Nat /\ A \in Nat
  BY Sizes
<1>5. /\ c.hits <= R /\ A <= Limit
      /\ clock \div Window <= w => A <= c.hits
      /\ c.expires = 0 \/ w < c.expires \div Window
  BY DEF LimiterSound, CounterSound
<1>6. req[r].window <= clock \div Window /\ (req[r].landed => req[r].pc \in AtRedis)
  BY DEF LimiterSound, AtRedis
<1>7. w \in Nat
  BY DEF Windows
<1>8. CounterSound(u, w)' <=>
        /\ d.hits <= R2 /\ A2 <= Limit
        /\ clock \div Window <= w => A2 <= d.hits
        /\ d.expires = 0 \/ w < d.expires \div Window
  BY <1>1 DEF CounterSound
<1>9. (Reaches(req[r], u, w) => Reaches(q, u, w)) =>
        R2 = IF Reaches(q, u, w) /\ ~Reaches(req[r], u, w) THEN R + 1 ELSE R
  BY <1>1, <1>2, ReachedStep
<1>10. (Enters(req[r], u, w) => Enters(q, u, w)) =>
         A2 = IF Enters(q, u, w) /\ ~Enters(req[r], u, w) THEN A + 1 ELSE A
  BY <1>1, <1>2, AdmittedStep
<1> HIDE DEF k, c, d, R, A, R2, A2
<1>11. ASSUME Before(r, q) PROVE CounterSound(u, w)'
  <2>1. ~Reaches(req[r], u, w) /\ ~Reaches(q, u, w)
    BY <1>11 DEF Before, Reaches
  <2>2. ~Enters(req[r], u, w) /\ ~Enters(q, u, w)
    BY <1>11 DEF Before, Enters, AtRedis, Judged, Passing
  <2>3. d = c /\ R2 = R /\ A2 = A
    BY <1>3, <1>9, <1>10, <1>11, <2>1, <2>2 DEF Before
  <2> QED BY <1>4, <1>5, <1>8, <2>3
<1>12. ASSUME Counts1(r, q) PROVE CounterSound(u, w)'
  <2> DEFINE count == redis[Counter(r)].hits + 1
  <2>1. /\ ~Reaches(req[r], u, w)
        /\ ~Enters(req[r], u, w)
    BY <1>12 DEF Counts1, Reaches, Enters, AtRedis, Judged, Passing
  <2>2. q.pc \in {"first", "allowed", "limited"}
    BY <1>12 DEF Counts1, Verdict
  <2>3. Reaches(q, u, w) <=> mine
    BY <1>1, <1>12, <2>2 DEF Counts1, Reaches, AtRedis, Judged, Passing
  <2>4. CASE ~mine
    <3>1. ~Enters(q, u, w)
      BY <1>1, <1>12, <2>4 DEF Counts1, Enters
    <3>2. d.hits = c.hits /\ d.expires = c.expires /\ R2 = R /\ A2 = A
      BY <1>3, <1>9, <1>10, <1>12, <2>1, <2>3, <2>4, <3>1 DEF Counts1
    <3> QED BY <1>4, <1>5, <1>8, <3>2
  <2>5. CASE mine
    <3>1. d.hits = c.hits + 1 /\ d.expires = c.expires /\ R2 = R + 1
      BY <1>3, <1>9, <1>12, <2>1, <2>3, <2>5 DEF Counts1
    <3>2. count = c.hits + 1
      BY <2>5 DEF Counter, TenantOf, c, k
    <3>3. q.pc = IF count = 1 THEN "first" ELSE Verdict(count)
      BY <1>12 DEF Counts1
    <3>4. q.landed => clock \div Window = w
      BY <1>12, <2>5 DEF Counts1, InTime
    <3> HIDE DEF count
    <3>5. q.pc \in Passing \cup {"first"} => count = 1 \/ count <= Limit
      BY <3>3 DEF Verdict, Passing
    <3>6. Enters(q, u, w) => A <= c.hits /\ count <= Limit
      BY <1>2, <1>5, <1>7, <3>4, <3>5 DEF Enters
    <3>7. A2 = IF Enters(q, u, w) THEN A + 1 ELSE A
      BY <1>10, <2>1
    <3>8. A2 <= Limit
      BY <1>2, <1>3, <1>4, <1>5, <3>2, <3>6, <3>7
    <3>9. clock \div Window <= w => A2 <= d.hits
      BY <1>3, <1>4, <1>5, <3>1, <3>7
    <3> QED BY <1>3, <1>4, <1>5, <1>8, <3>1, <3>8, <3>9
  <2> QED BY <2>4, <2>5
<1>13. ASSUME Slips(r, q) PROVE CounterSound(u, w)'
  <2>1. ~Reaches(req[r], u, w) /\ ~Enters(req[r], u, w) /\ ~req[r].landed
    BY <1>6, <1>13 DEF Slips, Reaches, Enters, AtRedis, Judged, Passing
  <2>2. ~Enters(q, u, w)
    BY <1>13, <2>1 DEF Slips, Enters
  <2>3. Reaches(q, u, w) <=> mine
    BY <1>1, <1>13 DEF Slips, Reaches, AtRedis, Judged, Passing
  <2>4. A2 = A /\ R2 = IF mine THEN R + 1 ELSE R
    BY <1>9, <1>10, <2>1, <2>2, <2>3
  <2>5. /\ d.expires = c.expires
        /\ d.hits = c.hits \/ (mine /\ d.hits = c.hits + 1)
    BY <1>3, <1>13 DEF Slips
  <2> QED BY <1>3, <1>4, <1>5, <1>8, <2>4, <2>5
<1>14. ASSUME Follows(r, q) PROVE CounterSound(u, w)'
  <2>1. Reaches(q, u, w) <=> Reaches(req[r], u, w)
    BY <1>1, <1>14 DEF Follows, Reaches, AtRedis
  <2>2. Enters(q, u, w) <=> Enters(req[r], u, w)
    BY <1>1, <1>14 DEF Follows, Enters, AtRedis, Judged
  <2>3. R2 = R /\ A2 = A
    BY <1>9, <1>10, <2>1, <2>2
  <2>4. /\ d.hits = c.hits
        /\ d.expires = c.expires \/ (mine /\ d.expires = clock + Window)
    BY <1>3, <1>14 DEF Follows
  <2>5. mine => w < (clock + Window) \div Window
    <3>1. /\ clock \div Window < (clock + Window) \div Window
          /\ (clock + Window) \div Window \in Nat
      BY <1>2, WindowEnds
    <3> QED BY <1>2, <1>6, <1>7, <3>1
  <2> QED BY <1>4, <1>5, <1>8, <2>3, <2>4, <2>5
<1>15. R <= R2
  <2>1. ASSUME Reaches(req[r], u, w) PROVE Reaches(q, u, w)
    BY <1>1, <2>1 DEF Before, Counts1, Slips, Follows, Reaches, AtRedis, Judged, Passing
  <2> QED BY <1>4, <1>9, <2>1
<1> QED BY <1>1, <1>11, <1>12, <1>13, <1>14, <1>15 DEF R, R2

LEMMA GatewayLimits ==
  ASSUME AccessAssumption, LimiterAssumption, AccessTypeOK, LimiterSound,
         NEW r \in Requests, GatewayStep(r)
  PROVE  LimiterSound'
<1>1. PICK q :
        /\ Becomes(r, q) /\ q.user = req[r].user /\ clock' = clock
        /\ Before(r, q) \/ Counts1(r, q) \/ Slips(r, q) \/ Follows(r, q)
  BY GatewayShape
<1>2. /\ req'[r] = q
      /\ \A p \in Requests \ {r} : req'[p] = req[p]
  BY <1>1 DEF Becomes, AccessTypeOK
<1>3. /\ req[r].window <= clock \div Window
      /\ req[r].landed => req[r].pc \in Judged \cup Passing
      /\ clock \div Window \in Nat /\ clock \in Nat
  BY WindowEnds DEF LimiterSound, AccessTypeOK
<1>4. q.window <= clock \div Window /\ (q.landed => q.pc \in Judged \cup Passing)
  <2>1. q.window <= clock \div Window
    BY <1>1, <1>3 DEF Before, Counts1, Slips, Follows
  <2>2. Counts1(r, q) => (q.landed => q.pc \in Judged \cup Passing)
    BY DEF Counts1, Verdict, Judged, Passing
  <2>3. ~Counts1(r, q) => (q.landed => q.pc \in Judged \cup Passing)
    BY <1>1, <1>3 DEF Before, Slips, Follows, AtRedis, Judged, Passing
  <2> QED BY <2>1, <2>2, <2>3
<1>a. Cardinality(LetThrough') <= faults'
  <2>1. LetThrough \in SUBSET Requests /\ LetThrough' \in SUBSET Requests
    BY DEF LetThrough
  <2>2. /\ IsFiniteSet(LetThrough) /\ Cardinality(LetThrough) \in Nat
        /\ Cardinality(LetThrough) <= faults /\ faults \in Nat
    BY <2>1, FS_Subset, FS_CardinalityType DEF LimiterAssumption, LimiterSound, AccessTypeOK
  <2>3. CASE Slips(r, q)
    <3>1. LetThrough' \in SUBSET (LetThrough \cup {r})
      BY <1>2 DEF LetThrough
    <3>2. /\ IsFiniteSet(LetThrough \cup {r})
          /\ Cardinality(LetThrough \cup {r}) <= Cardinality(LetThrough) + 1
      <4> DEFINE S == LetThrough
                 n == Cardinality(S)
      <4>1. IsFiniteSet(S) /\ n \in Nat
        BY <2>2
      <4> HIDE DEF S
      <4>2. IsFiniteSet(S \cup {r}) /\ Cardinality(S \cup {r}) = IF r \in S THEN n ELSE n + 1
        BY <4>1, FS_AddElement
      <4> HIDE DEF n
      <4>3. Cardinality(S \cup {r}) <= n + 1
        BY <4>1, <4>2
      <4> QED BY <4>2, <4>3 DEF S, n
    <3>3. /\ Cardinality(LetThrough') <= Cardinality(LetThrough \cup {r})
          /\ Cardinality(LetThrough \cup {r}) \in Nat /\ Cardinality(LetThrough') \in Nat
      BY <2>1, <3>1, <3>2, FS_Subset, FS_CardinalityType DEF LimiterAssumption
    <3>4. faults' = faults + 1
      BY <2>3 DEF Slips
    <3> QED BY <2>2, <3>2, <3>3, <3>4
  <2>4. CASE ~Slips(r, q)
    <3>1. q.failed = req[r].failed
      BY <1>1, <2>4 DEF Before, Counts1, Follows
    <3>2. LetThrough' = LetThrough
      BY <1>2, <3>1 DEF LetThrough
    <3>3. faults' \in {faults, faults + 1}
      BY DEF GatewayStep, ArriveAnonymous, Arrive, KeycloakAnswers, FetchFails, StoreKeys,
             Incr, Expire, IncrFails, ExpireFails, Forward, ForwardFails, Answer, Fault
    <3> QED BY <2>2, <3>2, <3>3
  <2> QED BY <2>3, <2>4
<1>5. ASSUME NEW p \in Requests, req'[p].pc = "limited"
      PROVE  Limit < Cardinality(Reached(req[p].user, req[p].window))'
  <2>0. req[p].user \in Users /\ req[p].window \in Windows /\ Limit \in Nat
    BY WindowsBounded DEF AccessTypeOK, Handlings, AccessAssumption
  <2>a. PICK u \in Users : u = req[p].user
    BY <2>0
  <2>b. PICK w \in Windows : w = req[p].window
    BY <2>0
  <2>1. Limit \in Nat /\ redis[<<Named(u), u, w>>].hits \in Nat
    BY <2>0, CounterStep DEF Counts
  <2>c. ASSUME req'[p].user = u, req'[p].window = w
        PROVE  Reached(req[p].user, req[p].window)' = Reached(u, w)'
    BY <2>c DEF Reached
  <2>2. /\ Cardinality(Reached(u, w)) \in Nat /\ Cardinality(Reached(u, w)') \in Nat
        /\ Cardinality(Reached(u, w)) <= Cardinality(Reached(u, w)')
        /\ CounterSound(u, w)'
    <3>1. Cardinality(Reached(u, w)) \in Nat
      BY Sizes
    <3>2. Reached(u, w)' \in SUBSET Requests
      BY DEF Reached
    <3>3. Cardinality(Reached(u, w)') \in Nat
      BY <3>2, FS_Subset, FS_CardinalityType DEF LimiterAssumption
    <3> QED BY <2>1, <3>1, <3>3, CounterKept
  <2>3. CASE p # r
    <3>1. req'[p] = req[p] /\ Limit < Cardinality(Reached(u, w))
      BY <1>2, <1>5, <2>3, <2>a, <2>b DEF LimiterSound
    <3>2. Limit < Cardinality(Reached(u, w)')
      BY <2>1, <2>2, <3>1
    <3> QED BY <2>a, <2>b, <2>c, <3>1, <3>2
  <2>4. CASE p = r
    <3>1. q.pc = "limited"
      BY <1>2, <1>5, <2>4
    <3>2. Counts1(r, q)
      BY <1>1, <3>1 DEF Before, Slips, Follows, AtRedis, Judged, Passing
    <3>3. q.user = u /\ q.window = w
      BY <1>1, <2>4, <2>a, <2>b, <3>2 DEF Counts1
    <3>4. Limit < redis[<<Named(u), u, w>>].hits + 1
      <4>1. Counter(r) = <<Named(u), u, w>>
        BY <2>4, <2>a, <2>b DEF Counter, TenantOf
      <4> DEFINE count == redis[Counter(r)].hits + 1
      <4>2. "limited" = IF count = 1 THEN "first" ELSE Verdict(count)
        BY <3>1, <3>2 DEF Counts1
      <4>3. count = redis[<<Named(u), u, w>>].hits + 1
        BY <4>1
      <4> HIDE DEF count
      <4>4. ~(count <= Limit)
        BY <4>2 DEF Verdict
      <4> QED BY <2>1, <4>3, <4>4
    <3>5. redis'[<<Named(u), u, w>>].hits = redis[<<Named(u), u, w>>].hits + 1
      <4>1. Hit(r)
        BY <3>2 DEF Counts1
      <4> QED BY <2>1, <2>4, <2>a, <2>b, <4>1, CounterStep
    <3>6. redis'[<<Named(u), u, w>>].hits <= Cardinality(Reached(u, w)')
      BY <2>2 DEF CounterSound
    <3>7. Limit < Cardinality(Reached(u, w)')
      BY <2>1, <2>2, <3>4, <3>5, <3>6
    <3> QED BY <1>2, <2>4, <2>c, <3>3, <3>7
  <2> QED BY <2>3, <2>4
<1>6. \A u \in Users, w \in Windows : CounterSound(u, w)'
  BY CounterKept
<1>7. \A p \in Requests :
        /\ req'[p].window <= clock' \div Window
        /\ req'[p].landed => req'[p].pc \in Judged \cup Passing
  BY <1>1, <1>2, <1>4 DEF LimiterSound
<1> QED BY <1>a, <1>5, <1>6, <1>7 DEF LimiterSound

(* Time goes on: a counter is dropped only after its window is over. *)
LEMMA TickLimits ==
  ASSUME AccessAssumption, LimiterAssumption, AccessTypeOK, LimiterSound, Tick
  PROVE  LimiterSound'
<1>1. /\ clock' = clock + 1 /\ req' = req /\ clock \in Nat /\ clock' \in Nat /\ clock' # 0
      /\ clock \div Window <= clock' \div Window
      /\ clock \div Window \in Nat /\ clock' \div Window \in Nat
  <2>1. clock' = clock + 1 /\ req' = req /\ clock \in Nat
    BY DEF Tick, AccessTypeOK
  <2>2. clock' \in Nat /\ clock' # 0 /\ clock <= clock'
    BY <2>1
  <2> QED BY <2>1, <2>2, WindowsFollow, WindowEnds
<1>2. ASSUME NEW u \in Users, NEW w \in Windows PROVE CounterSound(u, w)'
  <2> DEFINE k == <<Named(u), u, w>>
             c == redis[k]
             d == redis'[k]
  <2>1. k \in Counters /\ c \in Counts /\ w \in Nat
    BY NamedType DEF Counters, AccessTypeOK, Windows
  <2>2. d = IF c.expires = clock' THEN [hits |-> 0, expires |-> 0] ELSE c
    BY <1>1, <2>1 DEF Tick
  <2>3. Reached(u, w)' = Reached(u, w) /\ Admitted(u, w)' = Admitted(u, w)
    BY <1>1 DEF Reached, Admitted
  <2>4. Cardinality(Reached(u, w)) \in Nat /\ Cardinality(Admitted(u, w)) \in Nat
    BY Sizes
  <2>5. /\ c.hits <= Cardinality(Reached(u, w)) /\ Cardinality(Admitted(u, w)) <= Limit
        /\ clock \div Window <= w => Cardinality(Admitted(u, w)) <= c.hits
        /\ c.expires = 0 \/ w < c.expires \div Window
    BY DEF LimiterSound, CounterSound
  <2> HIDE DEF k, c, d
  <2>6. /\ d.hits <= Cardinality(Reached(u, w))
        /\ clock' \div Window <= w => Cardinality(Admitted(u, w)) <= d.hits
        /\ d.expires = 0 \/ w < d.expires \div Window
    <3>1. CASE c.expires = clock'
      BY <1>1, <2>1, <2>2, <2>4, <2>5, <3>1
    <3>2. CASE c.expires # clock'
      BY <1>1, <2>1, <2>2, <2>4, <2>5, <3>2
    <3> QED BY <3>1, <3>2
  <2> QED BY <2>3, <2>5, <2>6 DEF CounterSound, k, d
<1>3. \A r \in Requests : req[r].window <= clock' \div Window
  <2>1. \A r \in Requests : req[r].window \in Nat /\ req[r].window <= clock \div Window
    BY DEF AccessTypeOK, Handlings, LimiterSound
  <2> QED BY <1>1, <2>1
<1>4. ASSUME NEW r \in Requests
      PROVE  Reached(req[r].user, req[r].window)' = Reached(req[r].user, req[r].window)
  BY <1>1 DEF Reached
<1>5. LetThrough' = LetThrough /\ faults' = faults
  BY DEF Tick, LetThrough
<1> QED BY <1>1, <1>2, <1>3, <1>4, <1>5 DEF LimiterSound

LEMMA StillLimits ==
  ASSUME LimiterSound, UNCHANGED <<clock, redis, req, faults>> PROVE LimiterSound'
BY DEF LimiterSound, CounterSound, Reached, Admitted, LetThrough

LEMMA InitLimits ==
  ASSUME AccessAssumption, LimiterAssumption PROVE Init => LimiterSound
<1> SUFFICES ASSUME Init PROVE LimiterSound
  OBVIOUS
<1>1. ASSUME NEW u \in Users, NEW w \in Windows PROVE CounterSound(u, w)
  <2>1. <<Named(u), u, w>> \in Counters
    BY NamedType DEF Counters
  <2>2. Reached(u, w) = {} /\ Admitted(u, w) = {}
    <3>0. PICK user \in [Requests -> Users] :
            req = [r \in Requests |->
                     [pc |-> "idle", user |-> user[r], key |-> NoKey, stamp |-> 0,
                      answer |-> {}, at |-> 0, window |-> 0, landed |-> FALSE,
                      failed |-> FALSE]]
      BY DEF Init
    <3>1. \A r \in Requests : req[r].pc = "idle"
      BY <3>0
    <3> QED BY <3>1 DEF Reached, Admitted, Judged, Passing
  <2>3. redis[<<Named(u), u, w>>] = [hits |-> 0, expires |-> 0]
    BY <2>1 DEF Init
  <2> QED BY <2>2, <2>3, FS_EmptySet DEF CounterSound, AccessAssumption
<1>2. 0 <= clock \div Window
  BY WindowEnds DEF Init
<1>3. LetThrough = {} /\ faults = 0
  <2>1. PICK user \in [Requests -> Users] :
          req = [r \in Requests |->
                   [pc |-> "idle", user |-> user[r], key |-> NoKey, stamp |-> 0,
                    answer |-> {}, at |-> 0, window |-> 0, landed |-> FALSE,
                    failed |-> FALSE]]
    BY DEF Init
  <2> QED BY <2>1 DEF Init, LetThrough
<1>4. Cardinality(LetThrough) <= faults
  BY <1>3, FS_EmptySet
<1> QED BY <1>1, <1>2, <1>4 DEF Init, LimiterSound

(* No user gets more of the requests that Redis answered in time through a window
   than the limit, and no more than one above it for each call of Redis that
   failed; and none is turned away before that many were made.  However many
   requests race for the count, whichever INCR comes first, too late or to no
   answer, and whenever Redis drops the counter: it expires no earlier than its
   window ends. *)
THEOREM LimitAlwaysHolds ==
  ASSUME SessionsAssumption, AccessAssumption, LimiterAssumption PROVE Spec => []LimitHolds
<1>1. Init => IInv /\ LimiterSound
  BY InitIInv, InitLimits
<1>2. (IInv /\ LimiterSound) /\ [Next]_vars => (IInv /\ LimiterSound)'
  <2> SUFFICES ASSUME IInv, LimiterSound, [Next]_vars PROVE IInv' /\ LimiterSound'
    OBVIOUS
  <2>1. IInv' /\ AccessTypeOK
    BY Inductive DEF IInv
  <2>2. CASE UNCHANGED gatewayVars
    BY <2>1, <2>2, StillLimits DEF gatewayVars
  <2>3. ASSUME NEW r \in Requests, GatewayStep(r) PROVE LimiterSound'
    BY <2>1, <2>3, GatewayLimits
  <2>4. CASE Tick
    BY <2>1, <2>4, TickLimits
  <2>5. ASSUME NEW k \in Keys, Publish(k) \/ Retire(k) PROVE LimiterSound'
    BY <2>5, StillLimits DEF Publish, Retire
  <2> QED BY <2>1, <2>2, <2>3, <2>4, <2>5 DEF Next, Environment, vars
<1>3. IInv /\ LimiterSound => LimitHolds
  <2> SUFFICES ASSUME IInv, LimiterSound, NEW r \in Requests
               PROVE  LET Mine(pcs) == {q \in Requests : /\ req[q].user = req[r].user
                                                         /\ req[q].window = req[r].window
                                                         /\ req[q].pc \in pcs}
                      IN /\ Cardinality({q \in Mine(Passing) : req[q].landed}) <= Limit
                         /\ Cardinality({q \in Mine(Passing) :
                                           req[q].landed \/ req[q].failed})
                              <= Limit + faults
                         /\ req[r].pc = "limited" => Cardinality(Mine(Judged \cup Passing)) > Limit
    BY DEF LimitHolds
  <2> DEFINE u == req[r].user
             w == req[r].window
             Mine(pcs) == {q \in Requests : /\ req[q].user = u /\ req[q].window = w
                                            /\ req[q].pc \in pcs}
             Through == {q \in Mine(Passing) : req[q].landed}
             Over == {q \in Mine(Passing) : req[q].landed \/ req[q].failed}
  <2>1. u \in Users /\ w \in Windows /\ Limit \in Nat
    BY WindowsBounded DEF IInv, AccessTypeOK, Handlings, AccessAssumption
  <2>2. Through \in SUBSET Admitted(u, w)
    BY DEF Admitted
  <2>3. Mine(Judged \cup Passing) = Reached(u, w)
    BY DEF Reached
  <2>4. Cardinality(Admitted(u, w)) <= Limit
    BY <2>1 DEF LimiterSound, CounterSound
  <2>5. Cardinality(Through) <= Cardinality(Admitted(u, w)) /\ Cardinality(Through) \in Nat
    BY <2>2, Sizes, FS_Subset, FS_CardinalityType
  <2>6. Cardinality(Through) <= Limit
    BY <2>1, <2>4, <2>5, Sizes
  <2>7. req[r].pc = "limited" => Limit < Cardinality(Reached(u, w))
    BY DEF LimiterSound
  <2>8. req[r].pc = "limited" => Cardinality(Mine(Judged \cup Passing)) > Limit
    BY <2>1, <2>3, <2>7, Sizes
  <2>9. Cardinality(Over) <= Limit + faults
    <3>1. Over \in SUBSET (Through \cup LetThrough)
      BY DEF LetThrough
    <3>2. LetThrough \in SUBSET Requests /\ Through \in SUBSET Requests
      BY DEF LetThrough
    <3>3. IsFiniteSet(LetThrough) /\ IsFiniteSet(Through)
      BY <3>2, FS_Subset DEF LimiterAssumption
    <3>4. Cardinality(LetThrough) <= faults /\ faults \in Nat
      BY DEF LimiterSound, IInv, AccessTypeOK
    <3> HIDE DEF Over, Through
    <3>5. /\ IsFiniteSet(Through \cup LetThrough)
          /\ Cardinality(Through \cup LetThrough)
               = Cardinality(Through) + Cardinality(LetThrough)
                   - Cardinality(Through \cap LetThrough)
      BY <3>3, FS_Union
    <3>6. Through \cap LetThrough \in SUBSET LetThrough
      OBVIOUS
    <3>7. /\ Cardinality(Over) <= Cardinality(Through \cup LetThrough)
          /\ Cardinality(Over) \in Nat
          /\ Cardinality(Through \cap LetThrough) \in Nat
          /\ Cardinality(LetThrough) \in Nat
      BY <3>1, <3>3, <3>5, <3>6, FS_Subset, FS_CardinalityType
    <3> QED BY <2>1, <2>5, <2>6, <3>4, <3>5, <3>7
  <2> QED BY <2>6, <2>8, <2>9
<1> QED BY <1>1, <1>2, <1>3, PTL DEF Spec
=============================================================================
