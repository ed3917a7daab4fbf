---------------------------- MODULE TenantAccess ----------------------------
(***************************************************************************)
(* A request's way from the gateway to the rows it reads: the token is       *)
(* verified with Keycloak's keys, which are cached (ai_os_shared/auth.py),   *)
(* the user's requests of a minute are counted in Redis (ratelimit.py), the  *)
(* request is forwarded with a signed context (main.py, routing.py), and a   *)
(* service handles it under that context (TenantSessions).                   *)
(*                                                                         *)
(* Time is counted in ticks: JwksTtl, Window and FetchTimeout keep the order *)
(* of the code's 3600 s, 60 s and 10 s, not their size.                      *)
(***************************************************************************)
EXTENDS TenantSessions, Sequences, FiniteSets

CONSTANTS
  Users,         \* the subjects tokens are issued to
  Claims,        \* what a user's token says of tenants: tenant_id and orgs
  Keys,          \* Keycloak's signing keys over time
  FirstKey,      \* the one it starts with
  NoKey,         \* no token is being verified
  JwksTtl,       \* _JWKS_TTL
  FetchTimeout,  \* the timeout of the fetch of the keys
  Window,        \* the length of a window of the rate limiter
  Limit,         \* rate_limit_per_minute
  MaxTime,       \* bound: the clock
  MaxFaults      \* bound: calls of Keycloak and Redis that fail

ASSUME AccessAssumption ==
  /\ {JwksTtl, FetchTimeout, Window, Limit, MaxTime, MaxFaults} \subseteq Nat
  /\ 0 < Window /\ FetchTimeout < JwksTtl
  /\ FirstKey \in Keys /\ NoKey \notin Keys
  /\ Claims \in [Users -> [tenant_id : Scopes, orgs : Seq(Tenants)]]

(* RATE_LIMIT_PER_MINUTE is 120 where it is not set.  A limit of 0 would let a
   request pass whose EXPIRE raises. *)
ASSUME LimiterAssumption == IsFiniteSet(Requests) /\ 0 < Limit

VARIABLES
  clock,
  kc,      \* each key of Keycloak: to come, live or retired, and since when
  jwks,    \* _jwks_cache: the keys and the time they are stamped with
  redis,   \* the limiter's counters: hits, and when the key expires
  req,     \* each request as the gateway handles it
  faults   \* failed calls so far

gatewayVars == <<clock, kc, jwks, redis, req, faults>>
vars == <<gatewayVars, sessionVars>>

Live == {k \in Keys : kc[k].state = "live"}

(* _tenant_from_claims: a tenant_id wins, else the first organization. *)
Named(user) ==
  LET c == Claims[user] IN
    IF c.tenant_id # NoTenant THEN c.tenant_id
    ELSE IF c.orgs # <<>> THEN Head(c.orgs) ELSE NoTenant

TenantOf(r) == Named(req[r].user)

(* rl:{tenant_id}:{user_id}:{window} *)
Windows  == 0 .. MaxTime \div Window
Counters == Scopes \X Users \X Windows

Counter(r) == <<TenantOf(r), req[r].user, req[r].window>>

Init ==
  /\ SessionsInit
  /\ clock = 0
  /\ kc = [k \in Keys |-> [state |-> IF k = FirstKey THEN "live" ELSE "future", at |-> 0]]
  /\ jwks = [stamp |-> 0, keys |-> {}]
  /\ redis = [k \in Counters |-> [hits |-> 0, expires |-> 0]]
  /\ \E user \in [Requests -> Users] :
       req = [r \in Requests |->
                [pc |-> "idle", user |-> user[r], key |-> NoKey, stamp |-> 0, answer |-> {},
                 at |-> 0, window |-> 0, landed |-> FALSE, failed |-> FALSE]]
  /\ faults = 0

Becomes(r, q) == req' = [req EXCEPT ![r] = q]
Moves(r, pc)  == Becomes(r, [req[r] EXCEPT !.pc = pc])
Fault == faults < MaxFaults /\ faults' = faults + 1

-----------------------------------------------------------------------------
(***************************************************************************)
(* authenticate.                                                           *)
(***************************************************************************)

(* jwt.decode, the tenant of the claims, and the limiter's window: nothing is
   awaited from the keys' being there to here. *)
Decoded(r, q, keys) ==
  [q EXCEPT
     !.at = clock, !.stamp = 0, !.answer = {},
     !.pc = IF q.key \notin keys THEN "bad_key"
            ELSE IF TenantOf(r) = NoTenant THEN "no_tenant" ELSE "counting",
     !.window = clock \div Window]

(* A request without a bearer token. *)
ArriveAnonymous(r) ==
  /\ req[r].pc = "idle"
  /\ Moves(r, "anonymous")
  /\ UNCHANGED <<clock, kc, jwks, redis, faults>>

(* A token signed with a key Keycloak has published, now or before.  The cache
   is used while it is younger than the TTL. *)
Arrive(r, k) ==
  /\ req[r].pc = "idle"
  /\ kc[k].state # "future"
  /\ LET q == [req[r] EXCEPT !.key = k, !.stamp = clock] IN
       Becomes(r, IF jwks.keys # {} /\ clock - jwks.stamp < JwksTtl
                  THEN Decoded(r, q, jwks.keys)
                  ELSE [q EXCEPT !.pc = "fetching"])
  /\ UNCHANGED <<clock, kc, jwks, redis, faults>>

(* Keycloak answers with the keys it has then, ... *)
KeycloakAnswers(r) ==
  /\ req[r].pc = "fetching"
  /\ Becomes(r, [req[r] EXCEPT !.pc = "fetched", !.answer = Live])
  /\ UNCHANGED <<clock, kc, jwks, redis, faults>>

(* ... or not: a 401, whatever the cache still holds. *)
FetchFails(r) ==
  /\ req[r].pc = "fetching"
  /\ Fault
  /\ Moves(r, "no_keys")
  /\ UNCHANGED <<clock, kc, jwks, redis>>

StoreKeysStampedLate(r) ==
  /\ req[r].pc = "fetched"
  /\ jwks' = [stamp |-> clock, keys |-> req[r].answer]
  /\ Becomes(r, Decoded(r, req[r], req[r].answer))
  /\ UNCHANGED <<clock, kc, redis, faults>>

(* The rest of _fetch_jwks: stamped with the time before the fetch, also where
   another request has stored younger keys meanwhile. *)
StoreKeys(r) ==
  /\ req[r].pc = "fetched"
  /\ jwks' = [stamp |-> req[r].stamp, keys |-> req[r].answer]
  /\ Becomes(r, Decoded(r, req[r], req[r].answer))
  /\ UNCHANGED <<clock, kc, redis, faults>>

-----------------------------------------------------------------------------
(***************************************************************************)
(* allow: a fixed window per tenant and user, which fails open.            *)
(***************************************************************************)
Verdict(count) == IF count <= Limit THEN "allowed" ELSE "limited"
InTime(r)     == clock \div Window = req[r].window
Hit(r)        == redis' = [redis EXCEPT ![Counter(r)].hits = @ + 1]

(* The request once its token is done with. *)
Asked(r) == [req[r] EXCEPT !.key = NoKey, !.at = 0]

(* INCR, which may reach Redis long after the window was computed. *)
Incr(r) ==
  /\ req[r].pc = "counting"
  /\ Hit(r)
  /\ LET count == redis[Counter(r)].hits + 1 IN
       Becomes(r, [Asked(r) EXCEPT !.landed = InTime(r),
                                   !.pc = IF count = 1 THEN "first" ELSE Verdict(count)])
  /\ UNCHANGED <<clock, kc, jwks, faults>>

ExpireSoon(r) ==
  /\ req[r].pc = "first"
  /\ redis' = [redis EXCEPT ![Counter(r)].expires = clock + 1]
  /\ Moves(r, Verdict(1))
  /\ UNCHANGED <<clock, kc, jwks, faults>>

(* EXPIRE, by the first of a window only. *)
Expire(r) ==
  /\ req[r].pc = "first"
  /\ redis' = [redis EXCEPT ![Counter(r)].expires = clock + Window]
  /\ Moves(r, Verdict(1))
  /\ UNCHANGED <<clock, kc, jwks, faults>>

(* Either call raises, whether or not it took effect: the request passes. *)
IncrFails(r) ==
  /\ req[r].pc = "counting"
  /\ Fault
  /\ Hit(r) \/ UNCHANGED redis
  /\ Becomes(r, [Asked(r) EXCEPT !.failed = TRUE, !.pc = "allowed"])
  /\ UNCHANGED <<clock, kc, jwks>>

ExpireFails(r) ==
  /\ req[r].pc = "first"
  /\ Fault
  /\ \/ redis' = [redis EXCEPT ![Counter(r)].expires = clock + Window]
     \/ UNCHANGED redis
  /\ Moves(r, "allowed")
  /\ UNCHANGED <<clock, kc, jwks>>

-----------------------------------------------------------------------------
(***************************************************************************)
(* proxy, and the service behind it.                                       *)
(***************************************************************************)

(* The context is signed and the request sent on, ... *)
Forward(r) ==
  /\ req[r].pc = "allowed"
  /\ Moves(r, "sent")
  /\ UNCHANGED <<clock, kc, jwks, redis, faults>>

(* ... unless the service is unknown (404) or cannot be reached (500). *)
ForwardFails(r) ==
  /\ req[r].pc = "allowed"
  /\ Moves(r, "answered")
  /\ UNCHANGED <<clock, kc, jwks, redis, faults>>

Answer(r) ==
  /\ req[r].pc = "sent"
  /\ task[r].pc = "ended"
  /\ Moves(r, "answered")
  /\ UNCHANGED <<clock, kc, jwks, redis, faults>>

(* Where a request is once the limiter was asked, and once it may go on. *)
Judged  == {"first", "limited"}
Passing == {"allowed", "sent", "answered"}

GatewayStep(r) ==
  \/ ArriveAnonymous(r) \/ \E k \in Keys : Arrive(r, k)
  \/ KeycloakAnswers(r) \/ FetchFails(r) \/ StoreKeys(r)
  \/ Incr(r) \/ Expire(r) \/ IncrFails(r) \/ ExpireFails(r)
  \/ Forward(r) \/ ForwardFails(r) \/ Answer(r)

(* What the service gets is the context the gateway signed, and whatever the
   request says; the gateway forwards every path, an exempt one as well. *)
Deliver(r) ==
  /\ req[r].pc = "sent"
  /\ Receive(r, TenantOf(r)) \/ \E t \in Scopes : ReceiveExempt(r, t)

ServiceStep(r) == Deliver(r) \/ Handle(r)

-----------------------------------------------------------------------------
(***************************************************************************)
(* Keycloak's keys and the clock.                                          *)
(***************************************************************************)
Publish(k) ==
  /\ kc[k].state = "future"
  /\ kc' = [kc EXCEPT ![k] = [state |-> "live", at |-> clock]]
  /\ UNCHANGED <<clock, jwks, redis, req, faults>>

(* A key is retired once there is another one to sign with. *)
Retire(k) ==
  /\ kc[k].state = "live"
  /\ Live # {k}
  /\ kc' = [kc EXCEPT ![k] = [state |-> "retired", at |-> clock]]
  /\ UNCHANGED <<clock, jwks, redis, req, faults>>

(* A fetch is over before its timeout; Redis drops what has expired. *)
Tick ==
  /\ clock < MaxTime
  /\ \A r \in Requests :
       req[r].pc \in {"fetching", "fetched"} => clock < req[r].stamp + FetchTimeout
  /\ clock' = clock + 1
  /\ redis' = [k \in Counters |->
                 IF redis[k].expires = clock + 1 THEN [hits |-> 0, expires |-> 0] ELSE redis[k]]
  /\ UNCHANGED <<kc, jwks, req, faults>>

Environment == Tick \/ \E k \in Keys : Publish(k) \/ Retire(k)

Next ==
  \/ (Environment \/ \E r \in Requests : GatewayStep(r)) /\ UNCHANGED sessionVars
  \/ (\E r \in Requests : ServiceStep(r)) /\ UNCHANGED gatewayVars

Spec == Init /\ [][Next]_vars

-----------------------------------------------------------------------------
(***************************************************************************)
(* Properties.                                                             *)
(***************************************************************************)

Handlings ==
  [pc : {"idle", "anonymous", "fetching", "fetched", "no_keys", "bad_key", "no_tenant",
         "counting", "first", "limited", "allowed", "sent", "answered"},
   user : Users, key : Keys \cup {NoKey}, stamp : 0 .. MaxTime, answer : SUBSET Keys,
   at : 0 .. MaxTime, window : Nat,
   landed : BOOLEAN,   \* Redis answered its INCR within its window
   failed : BOOLEAN]   \* its INCR raised
KeyStates == [state : {"future", "live", "retired"}, at : 0 .. MaxTime]
Counts    == [hits : Nat, expires : Nat]

(* Type invariant of what the gateway adds. *)
AccessTypeOK ==
  /\ SessionsTypeOK
  /\ clock \in 0 .. MaxTime
  /\ kc \in [Keys -> KeyStates]
  /\ jwks \in [stamp : 0 .. MaxTime, keys : SUBSET Keys]
  /\ redis \in [Counters -> Counts]
  /\ req \in [Requests -> Handlings]
  /\ faults \in 0 .. MaxFaults

(* Tenant isolation, from the token to the rows: whatever a request reads is of
   the tenant its token names, and so is what it has written and not yet
   committed; a session that is for no tenant reads no tenant's rows.  A request
   for an exempt path reads no rows and writes none but those of the tenant its
   body names.  Connections are used by one request after the other, whose sessions
   end in every way there is. *)
TokenTenantOnly ==
  /\ \A r \in Requests, row \in Rows :
       row \in task[r].seen =>
         row.tenant = TenantOf(r) /\ task[r].scope # NoTenant
  /\ \A c \in Connections : \A row \in conn[c].pending :
       LET r == conn[c].user IN
         row.tenant = IF task[r].from = "header" THEN TenantOf(r) ELSE task[r].ctx

(* What the cache may get wrong is bounded by its TTL: a token that is accepted
   has a key that was live less than the TTL ago, and one that is refused for
   its key has a key that is retired or younger than the TTL. *)
FreshlyDecided(q) ==
  q.key # NoKey =>
    LET k   == kc[q.key]
        age == q.at - k.at
    IN /\ q.pc \in {"counting", "no_tenant"} => (k.state = "retired" => age < JwksTtl)
       /\ q.pc = "bad_key" => (k.state = "live" => age < JwksTtl)

KeysAreFresh == \A r \in Requests : FreshlyDecided(req[r])

(* The strengthening behind KeysAreFresh: keys that are cached, or on their way
   into the cache, were Keycloak's at the time they are stamped with or later. *)
ReadSince(t, keys) ==
  /\ \A k \in keys : kc[k].state # "future" /\ (kc[k].state = "retired" => t <= kc[k].at)
  /\ \A k \in Keys \ keys : kc[k].state = "live" => t <= kc[k].at

RequestSound(q) ==
  /\ q.stamp <= clock
  /\ q.at <= clock
  /\ q.key # NoKey => kc[q.key].state # "future"
  /\ q.pc \in {"fetching", "fetched"} => q.key # NoKey /\ clock <= q.stamp + FetchTimeout
  /\ q.pc = "fetched" => ReadSince(q.stamp, q.answer)
  /\ FreshlyDecided(q)

KeysSound ==
  /\ \A k \in Keys : kc[k].at <= clock
  /\ jwks.stamp <= clock
  /\ jwks.keys # {} => ReadSince(jwks.stamp, jwks.keys)
  /\ \A r \in Requests : RequestSound(req[r])

(* The rate limit is one per user and window.  At most Limit of the requests whose
   INCR Redis answered within the window go on.  The limiter fails open: a request
   whose INCR raised goes on as well, counted or not, so that each call of Redis
   that fails lets at most one more through.  And one is refused only if the same
   user's requests of that window have used the limit up.  (An INCR that comes
   after its window counts on a counter that may have been dropped.) *)
LimitHolds ==
  \A r \in Requests :
    LET Mine(pcs) == {q \in Requests : /\ req[q].user = req[r].user
                                       /\ req[q].window = req[r].window
                                       /\ req[q].pc \in pcs}
    IN /\ Cardinality({q \in Mine(Passing) : req[q].landed}) <= Limit
       /\ Cardinality({q \in Mine(Passing) : req[q].landed \/ req[q].failed})
            <= Limit + faults
       /\ req[r].pc = "limited" => Cardinality(Mine(Judged \cup Passing)) > Limit

(* The strengthening behind LimitHolds, of one counter c: it has no more hits
   than requests that reached Redis; those that went on within the limit are no
   more than its hits until the window is over, and it does not expire before. *)
Reached(u, w) ==
  {q \in Requests : req[q].user = u /\ req[q].window = w /\ req[q].pc \in Judged \cup Passing}
Admitted(u, w) ==
  {q \in Requests : /\ req[q].user = u /\ req[q].window = w
                    /\ req[q].landed /\ req[q].pc \in Passing \cup {"first"}}

CounterSound(u, w) ==
  LET c == redis[<<Named(u), u, w>>] IN
    /\ c.hits <= Cardinality(Reached(u, w))
    /\ Cardinality(Admitted(u, w)) <= Limit
    /\ clock \div Window <= w => Cardinality(Admitted(u, w)) <= c.hits
    /\ c.expires = 0 \/ w < c.expires \div Window

(* Those that a failed INCR let through. *)
LetThrough == {q \in Requests : req[q].failed}

LimiterSound ==
  /\ Cardinality(LetThrough) <= faults
  /\ \A r \in Requests :
       /\ req[r].window <= clock \div Window
       /\ req[r].landed => req[r].pc \in Judged \cup Passing
       /\ req[r].pc = "limited" => Limit < Cardinality(Reached(req[r].user, req[r].window))
  /\ \A u \in Users, w \in Windows : CounterSound(u, w)
=============================================================================
