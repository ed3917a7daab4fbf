--------------------------- MODULE AccountsProofs ---------------------------
(***************************************************************************)
(* Proofs about Accounts, for any number of requests, addresses, industries  *)
(* and faults: what is answered is complete, the platform's records are true *)
(* and roles are given as asked.                                            *)
(***************************************************************************)
EXTENDS Accounts, TLAPS

Users   == [by : Requests \cup {Nobody, Realm}, member : BOOLEAN, roles : SUBSET RealmRoles]
Sources == Industries \cup {NoSource}
Handlings ==
  [kind : {"signup", "create", "assign"}, email : Emails, source : Sources,
   role : Asked \cup {"member"}, caller : Emails,
   pc : {"idle", "org", "post", "join", "grant", "profile", "emit", "respond", "login",
         "ended"},
   reply : {"none", "refused", "taken", "error", "created", "token", "no_token"}]

TypeOK ==
  /\ kc \in [Emails -> Users]
  /\ profiles \subseteq [email : Emails, source : Sources]
  /\ log \subseteq [action : {"create", "assign"}, email : Emails, role : Asked \cup {"member"}]
  /\ req \in [Requests -> Handlings]

(* The stages of a request, each with the later ones. *)
Granted == {"profile", "emit", "respond", "login"}
Joined  == Granted \cup {"grant"}
Made    == Joined \cup {"join"}

(* What a request that is under way has achieved so far. *)
Achieved(r) ==
  LET q == req[r]
      u == kc[q.email]
  IN /\ q.kind # "assign" /\ q.pc \in Made => u.by = r
     /\ q.kind # "assign" /\ q.pc \in Joined => u.member
     /\ q.pc \in Granted => q.role \in u.roles
     /\ IsSignup(r) /\ q.pc \in {"emit", "login"} => Profile(r) \in profiles

(* A request is where its kind may be, and an administrator's was permitted. *)
Permitted(r) ==
  LET q == req[r] IN
    /\ q.pc \in {"idle", "org", "profile", "login"} => IsSignup(r)
    /\ q.pc \in {"post", "join"} => q.kind # "assign"
    /\ q.pc = "respond" => ~IsSignup(r)
    /\ IsSignup(r) => q.role = "member"
    /\ ~IsSignup(r) /\ q.pc # "ended" => kc[q.caller].roles \cap Managers # {}

Answered(r) ==
  LET e == req[r].email IN
    req[r].reply \in {"created", "token", "no_token"} =>
      /\ req[r].pc # "idle"
      /\ req[r].role \in kc[e].roles
      /\ req[r].kind # "assign" => kc[e].by = r /\ kc[e].member
      /\ IsSignup(r) => Profile(r) \in profiles

(* A user was made by one request, which asked for that address. *)
Makers ==
  \A e \in Emails, r \in Requests :
    kc[e].by = r => req[r].email = e /\ req[r].pc \notin {"idle", "org", "post"}

Sound(r) == Achieved(r) /\ Permitted(r) /\ Answered(r)

(* The inductive strengthening of the three properties. *)
AInv ==
  /\ TypeOK
  /\ Makers
  /\ \A r \in Requests : Sound(r)
  /\ RecordsAreTrue
  /\ RolesAsAsked

-----------------------------------------------------------------------------
LEMMA InitAInv == ASSUME AccountsAssumption PROVE Init => AInv
<1> SUFFICES ASSUME Init PROVE AInv
  OBVIOUS
<1> USE AccountsAssumption DEF AccountsAssumption
<1>1. PICK e \in Emails :
        req = [r \in Requests |-> [kind |-> "signup", email |-> e, source |-> NoSource,
                                   role |-> "member", caller |-> e,
                                   pc |-> "idle", reply |-> "none"]]
  BY DEF Init
<1>2. \A r \in Requests :
        /\ req[r].kind = "signup" /\ req[r].role = "member"
        /\ req[r].pc = "idle" /\ req[r].reply = "none"
  BY <1>1
<1>3. /\ \A a \in Emails : kc[a].by \notin Requests /\ kc[a].roles = Seeded[a]
      /\ kc \in [Emails -> Users]
  BY DEF Init, Users
<1>4. TypeOK
  <2>1. req \in [Requests -> Handlings]
    BY <1>1 DEF Handlings, Sources
  <2> QED BY <1>3, <2>1 DEF TypeOK, Init
<1>5. Makers
  BY <1>3 DEF Makers
<1>6. ASSUME NEW r \in Requests PROVE Sound(r)
  BY <1>2 DEF Sound, Achieved, Permitted, Answered, IsSignup, Made, Joined, Granted
<1>7. RecordsAreTrue
  BY DEF Init, RecordsAreTrue
<1>8. RolesAsAsked
  BY <1>3 DEF RolesAsAsked
<1> QED BY <1>4, <1>5, <1>6, <1>7, <1>8 DEF AInv

-----------------------------------------------------------------------------
(* Nothing is taken back: accounts, records and requests only grow. *)
UsersGrow ==
  \A e \in Emails :
    /\ kc[e].by # Nobody => kc'[e].by = kc[e].by
    /\ kc[e].member => kc'[e].member
    /\ kc[e].roles \subseteq kc'[e].roles

(* Request r goes on and still asks for what it asked for. *)
Frozen(r) ==
  /\ \A q \in Requests \ {r} : req'[q] = req[q]
  /\ req'[r].kind = req[r].kind /\ req'[r].email = req[r].email
  /\ req'[r].source = req[r].source /\ req'[r].role = req[r].role
  /\ req'[r].caller = req[r].caller
  /\ req[r].pc # "idle" /\ req'[r].pc # "idle"

LEMMA MovesFrozen ==
  ASSUME TypeOK, NEW r \in Requests, req[r].pc # "idle",
         NEW pc \in {"org", "post", "join", "grant", "profile", "emit", "respond", "login", "ended"},
         Moves(r, pc)
  PROVE  /\ req' \in [Requests -> Handlings]
         /\ Frozen(r)
         /\ req'[r].pc = pc /\ req'[r].reply = req[r].reply
<1> DEFINE q == [req[r] EXCEPT !.pc = pc]
<1>1. req[r] \in Handlings
  BY DEF TypeOK
<1>2. /\ q \in Handlings
      /\ q.kind = req[r].kind /\ q.email = req[r].email /\ q.source = req[r].source
      /\ q.role = req[r].role /\ q.caller = req[r].caller
      /\ q.pc = pc /\ q.reply = req[r].reply
  BY <1>1 DEF Handlings
<1>3. req' = [req EXCEPT ![r] = q]
  BY DEF Moves, Becomes
<1> HIDE DEF q
<1> QED BY <1>2, <1>3 DEF TypeOK, Frozen

(* A handler that ends leaves a reply to those who still wait. *)
LEMMA EndsFrozen ==
  ASSUME TypeOK, NEW r \in Requests, req[r].pc # "idle",
         NEW reply \in {"refused", "taken", "error", "created", "token", "no_token"},
         Ends(r, reply)
  PROVE  /\ req' \in [Requests -> Handlings]
         /\ Frozen(r)
         /\ req'[r].pc = "ended" /\ req'[r].reply \in {reply, req[r].reply}
<1> DEFINE q == [req[r] EXCEPT !.pc = "ended", !.reply = IF @ = "none" THEN reply ELSE @]
<1>1. req[r] \in Handlings
  BY DEF TypeOK
<1>2. /\ q \in Handlings
      /\ q.kind = req[r].kind /\ q.email = req[r].email /\ q.source = req[r].source
      /\ q.role = req[r].role /\ q.caller = req[r].caller
      /\ q.pc = "ended" /\ q.reply \in {reply, req[r].reply}
  BY <1>1 DEF Handlings
<1>3. req' = [req EXCEPT ![r] = q]
  BY DEF Ends, Becomes
<1> HIDE DEF q
<1> QED BY <1>2, <1>3 DEF TypeOK, Frozen

-----------------------------------------------------------------------------
(* What one request does takes nothing from another one. *)
LEMMA OthersSound ==
  ASSUME AInv, NEW r \in Requests, NEW q \in Requests, req'[q] = req[q],
         UsersGrow, profiles \subseteq profiles', Nobody \notin Requests
  PROVE  Sound(q)'
<1>1. Sound(q) /\ req[q].email \in Emails /\ req[q].caller \in Emails
  BY DEF AInv, TypeOK, Handlings
<1>2. Achieved(q)'
  BY <1>1 DEF Sound, Achieved, UsersGrow, Profile, IsSignup
<1>3. Permitted(q)'
  BY <1>1 DEF Sound, Permitted, UsersGrow, IsSignup
<1>4. Answered(q)'
  BY <1>1 DEF Sound, Answered, UsersGrow, Profile, IsSignup
<1> QED BY <1>2, <1>3, <1>4 DEF Sound

(* The makers of users stay who they are while none is made. *)
LEMMA MakersKept ==
  ASSUME AInv, NEW r \in Requests, Frozen(r),
         \A e \in Emails : kc'[e].by = kc[e].by,
         req'[r].pc \in {"org", "post"} => req[r].pc \in {"org", "post"}
  PROVE  Makers'
BY DEF AInv, Makers, Frozen

LEMMA RecordsKept ==
  ASSUME AInv, NEW r \in Requests, Frozen(r), UsersGrow, Nobody \notin Requests,
         UNCHANGED profiles,
         \A event \in log' : event \in log \/ event.role \in kc'[event.email].roles
  PROVE  RecordsAreTrue'
<1>1. ASSUME NEW p \in profiles
      PROVE  LET u == kc'[p.email] IN
               /\ u.by \in Requests /\ req'[u.by].kind = "signup" /\ req'[u.by].source = p.source
               /\ u.member /\ "member" \in u.roles
  <2>1. p.email \in Emails
    BY DEF AInv, TypeOK
  <2>2. LET u == kc[p.email] IN
          /\ u.by \in Requests /\ IsSignup(u.by) /\ req[u.by].source = p.source
          /\ u.member /\ "member" \in u.roles
    BY DEF AInv, RecordsAreTrue
  <2>3. LET b == kc[p.email].by IN
          /\ kc'[p.email].by = b
          /\ req'[b].kind = req[b].kind /\ req'[b].source = req[b].source
    BY <2>1, <2>2 DEF Frozen, UsersGrow
  <2> QED BY <2>1, <2>2, <2>3 DEF UsersGrow, IsSignup
<1>2. \A p \in profiles : \A q \in profiles : q.email = p.email => q = p
  BY DEF AInv, RecordsAreTrue
<1>3. ASSUME NEW event \in log' PROVE event.role \in kc'[event.email].roles
  <2>1. CASE event \in log
    <3>1. event.email \in Emails /\ event.role \in kc[event.email].roles
      BY <2>1 DEF AInv, TypeOK, RecordsAreTrue
    <3> QED BY <3>1 DEF UsersGrow
  <2> QED BY <2>1
<1> QED BY <1>1, <1>2, <1>3 DEF RecordsAreTrue, IsSignup

(* A role that was given as asked stays so. *)
LEMMA RoleKept ==
  ASSUME AInv, NEW r \in Requests, Frozen(r), UsersGrow, Nobody \notin Requests,
         NEW e \in Emails, NEW role \in kc[e].roles
  PROVE  \/ role \in Seeded[e]
         \/ \E q \in Requests :
              /\ req'[q].email = e /\ req'[q].role = role
              /\ IF IsSignup(q)' THEN kc'[e].by = q /\ role = "member"
                                 ELSE kc'[req'[q].caller].roles \cap Managers # {}
<1>1. CASE role \in Seeded[e]
  BY <1>1
<1>2. CASE \E q \in Requests :
             /\ req[q].email = e /\ req[q].role = role
             /\ IF IsSignup(q) THEN kc[e].by = q /\ role = "member"
                               ELSE kc[req[q].caller].roles \cap Managers # {}
  <2>1. PICK q \in Requests :
             /\ req[q].email = e /\ req[q].role = role
             /\ IF IsSignup(q) THEN kc[e].by = q /\ role = "member"
                               ELSE kc[req[q].caller].roles \cap Managers # {}
    BY <1>2
  <2>2. /\ req'[q].email = req[q].email /\ req'[q].role = req[q].role
        /\ req'[q].caller = req[q].caller /\ req'[q].kind = req[q].kind
    BY DEF Frozen
  <2>3. req[q].caller \in Emails
    BY DEF AInv, TypeOK, Handlings
  <2>4. kc[e].by = q => kc'[e].by = q
    BY DEF UsersGrow
  <2>5. kc[req[q].caller].roles \subseteq kc'[req[q].caller].roles
    BY <2>3 DEF UsersGrow
  <2> QED BY <2>1, <2>2, <2>4, <2>5 DEF IsSignup
<1> QED BY <1>1, <1>2 DEF AInv, RolesAsAsked
-----------------------------------------------------------------------------
(* The request that takes a step: what it needs to be sound where it goes. *)
LEMMA MovedSound ==
  ASSUME AInv, NEW r \in Requests, req[r].pc \notin {"idle", "ended"},
         UsersGrow, profiles \subseteq profiles', Nobody \notin Requests,
         NEW pc \in {"org", "post", "join", "grant", "profile", "emit", "respond", "login"},
         Moves(r, pc),
         req[r].kind # "assign" /\ pc \in Made => kc'[req[r].email].by = r,
         req[r].kind # "assign" /\ pc \in Joined => kc'[req[r].email].member,
         pc \in Granted => req[r].role \in kc'[req[r].email].roles,
         IsSignup(r) /\ pc \in {"emit", "login"} => Profile(r) \in profiles',
         pc \in {"org", "profile", "login"} => IsSignup(r),
         pc \in {"post", "join"} => req[r].kind # "assign",
         pc = "respond" => ~IsSignup(r)
  PROVE  /\ Sound(r)'
         /\ req' \in [Requests -> Handlings] /\ Frozen(r) /\ req'[r].pc = pc
<1>1. /\ req' \in [Requests -> Handlings] /\ Frozen(r)
      /\ req'[r].pc = pc /\ req'[r].reply = req[r].reply
  BY MovesFrozen DEF AInv
<1>2. Sound(r) /\ req[r].email \in Emails /\ req[r].caller \in Emails
  BY DEF AInv, TypeOK, Handlings
<1>3. Achieved(r)'
  BY <1>1 DEF Achieved, Frozen, IsSignup, Profile
<1>4. Permitted(r)'
  BY <1>1, <1>2 DEF Sound, Permitted, Frozen, IsSignup, UsersGrow
<1>5. Answered(r)'
  BY <1>1, <1>2 DEF Sound, Answered, Frozen, IsSignup, Profile, UsersGrow
<1> QED BY <1>1, <1>3, <1>4, <1>5 DEF Sound

LEMMA EndedSound ==
  ASSUME AInv, NEW r \in Requests, req[r].pc # "idle",
         UsersGrow, profiles \subseteq profiles', Nobody \notin Requests,
         NEW reply \in {"refused", "taken", "error"}, Ends(r, reply)
  PROVE  /\ Sound(r)'
         /\ req' \in [Requests -> Handlings] /\ Frozen(r) /\ req'[r].pc = "ended"
<1>1. /\ req' \in [Requests -> Handlings] /\ Frozen(r)
      /\ req'[r].pc = "ended" /\ req'[r].reply \in {reply, req[r].reply}
  BY EndsFrozen DEF AInv
<1>2. Sound(r) /\ req[r].email \in Emails
  BY DEF AInv, TypeOK, Handlings
<1>3. Achieved(r)'
  BY <1>1 DEF Achieved, Made, Joined, Granted
<1>4. Permitted(r)'
  BY <1>1, <1>2 DEF Sound, Permitted, Frozen, IsSignup
<1>5. Answered(r)'
  BY <1>1, <1>2 DEF Sound, Answered, Frozen, IsSignup, Profile, UsersGrow
<1> QED BY <1>1, <1>3, <1>4, <1>5 DEF Sound

(* A step of r that leaves the accounts and the records alone. *)
LEMMA QuietKeeps ==
  ASSUME AInv, NEW r \in Requests, Nobody \notin Requests, UNCHANGED <<kc, profiles, log>>,
         req' \in [Requests -> Handlings], Frozen(r), Sound(r)',
         req'[r].pc \in {"org", "post"} => req[r].pc \in {"org", "post"}
  PROVE  AInv'
<1>1. UsersGrow
  BY DEF UsersGrow
<1>2. TypeOK'
  BY DEF AInv, TypeOK
<1>3. Makers'
  BY MakersKept
<1>4. ASSUME NEW q \in Requests PROVE Sound(q)'
  <2>1. CASE q = r
    BY <2>1
  <2>2. CASE q # r
    BY <1>1, <2>2, OthersSound DEF Frozen
  <2> QED BY <2>1, <2>2
<1>5. RecordsAreTrue'
  BY <1>1, RecordsKept
<1>6. RolesAsAsked'
  BY <1>1, RoleKept DEF RolesAsAsked
<1> QED BY <1>2, <1>3, <1>4, <1>5, <1>6 DEF AInv

(* A step of r that changes the accounts and nothing else. *)
LEMMA AccountsKeep ==
  ASSUME AInv, NEW r \in Requests, Nobody \notin Requests, UNCHANGED <<profiles, log>>,
         kc' \in [Emails -> Users], UsersGrow,
         req' \in [Requests -> Handlings], Frozen(r), Sound(r)', Makers', RolesAsAsked'
  PROVE  AInv'
<1>1. TypeOK'
  BY DEF AInv, TypeOK
<1>2. ASSUME NEW q \in Requests PROVE Sound(q)'
  <2>1. CASE q = r
    BY <2>1
  <2>2. CASE q # r
    BY <2>2, OthersSound DEF Frozen
  <2> QED BY <2>1, <2>2
<1>3. RecordsAreTrue'
  BY RecordsKept
<1> QED BY <1>1, <1>2, <1>3 DEF AInv

(* The handler ends without having done anything. *)
LEMMA EndsKeeps ==
  ASSUME AInv, NEW r \in Requests, Nobody \notin Requests, UNCHANGED <<kc, profiles, log>>,
         req[r].pc # "idle", NEW reply \in {"refused", "taken", "error"}, Ends(r, reply)
  PROVE  AInv'
<1>1. UsersGrow
  BY DEF UsersGrow
<1>2. /\ Sound(r)' /\ req' \in [Requests -> Handlings] /\ Frozen(r) /\ req'[r].pc = "ended"
  BY <1>1, EndedSound
<1> QED BY <1>2, QuietKeeps

-----------------------------------------------------------------------------
LEMMA ReadOrgKeeps ==
  ASSUME AInv, NEW r \in Requests, Nobody \notin Requests, ReadOrg(r)
  PROVE  AInv'
<1>1. /\ req[r].pc = "org" /\ UNCHANGED <<kc, profiles, log>>
      /\ Moves(r, "post") \/ Ends(r, "refused")
  BY DEF ReadOrg
<1>2. CASE Ends(r, "refused")
  BY <1>1, <1>2, EndsKeeps
<1>3. CASE Moves(r, "post")
  <2>1. UsersGrow
    BY <1>1 DEF UsersGrow
  <2>2. IsSignup(r)
    BY <1>1 DEF AInv, Sound, Permitted
  <2>3. /\ Sound(r)' /\ req' \in [Requests -> Handlings] /\ Frozen(r) /\ req'[r].pc = "post"
    BY <1>1, <1>3, <2>1, <2>2, MovedSound DEF Made, Joined, Granted, IsSignup
  <2> QED BY <1>1, <2>3, QuietKeeps
<1> QED BY <1>1, <1>2, <1>3

LEMMA PostUserKeeps ==
  ASSUME AInv, NEW r \in Requests, Nobody \notin Requests, PostUser(r)
  PROVE  AInv'
<1> DEFINE e == req[r].email
<1>1. /\ req[r].pc = "post" /\ UNCHANGED <<profiles, log>> /\ e \in Emails
      /\ req[r].kind # "assign"
  BY DEF PostUser, AInv, TypeOK, Handlings, Sound, Permitted
<1>2. CASE Exists(e)
  BY <1>1, <1>2, EndsKeeps DEF PostUser
<1>3. CASE ~Exists(e)
  <2>1. /\ kc[e].by = Nobody
        /\ kc' = [kc EXCEPT ![e].by = r]
        /\ Moves(r, "join") \/ Ends(r, "error")
    BY <1>1, <1>3 DEF PostUser, Exists, Done
  <2>2. /\ kc' \in [Emails -> Users]
        /\ kc'[e].by = r /\ kc'[e].member = kc[e].member /\ kc'[e].roles = kc[e].roles
        /\ \A a \in Emails \ {e} : kc'[a] = kc[a]
    BY <1>1, <2>1 DEF AInv, TypeOK, Users
  <2>3. UsersGrow
    BY <2>1, <2>2 DEF UsersGrow
  <2>4. /\ Sound(r)' /\ req' \in [Requests -> Handlings] /\ Frozen(r)
        /\ req'[r].pc \in {"join", "ended"}
    <3>1. CASE Moves(r, "join")
      BY <1>1, <2>2, <2>3, <3>1, MovedSound DEF Made, Joined, Granted, IsSignup
    <3>2. CASE Ends(r, "error")
      BY <1>1, <2>3, <3>2, EndedSound
    <3> QED BY <2>1, <3>1, <3>2
  <2>5. Makers'
    <3> SUFFICES ASSUME NEW a \in Emails, NEW q \in Requests, kc'[a].by = q
                 PROVE  req'[q].email = a /\ req'[q].pc \notin {"idle", "org", "post"}
      BY DEF Makers
    <3>1. CASE a = e
      BY <2>2, <2>4, <3>1 DEF Frozen
    <3>2. CASE a # e
      <4>1. kc[a].by = q /\ req[q].email = a /\ req[q].pc \notin {"idle", "org", "post"}
        BY <2>2, <3>2 DEF AInv, Makers
      <4> QED BY <1>1, <2>4, <4>1 DEF Frozen
    <3> QED BY <3>1, <3>2
  <2>6. RolesAsAsked'
    <3>1. \A a \in Emails : kc'[a].roles = kc[a].roles
      BY <2>2
    <3> QED BY <2>3, <2>4, <3>1, RoleKept DEF RolesAsAsked
  <2> QED BY <1>1, <2>2, <2>3, <2>4, <2>5, <2>6, AccountsKeep
<1> QED BY <1>2, <1>3

LEMMA JoinKeeps ==
  ASSUME AInv, NEW r \in Requests, Nobody \notin Requests, Join(r)
  PROVE  AInv'
<1> DEFINE e == req[r].email
<1>1. /\ req[r].pc = "join" /\ UNCHANGED <<profiles, log>> /\ e \in Emails
      /\ req[r].kind # "assign" /\ kc[e].by = r
  BY DEF Join, AInv, TypeOK, Handlings, Sound, Permitted, Achieved, Made
<1>2. CASE ~OrgFound(r)
  BY <1>1, <1>2, EndsKeeps DEF Join
<1>3. CASE OrgFound(r)
  <2>1. /\ kc' = [kc EXCEPT ![e].member = TRUE]
        /\ Moves(r, "grant") \/ Ends(r, "error")
    BY <1>3 DEF Join, Done
  <2>2. /\ kc' \in [Emails -> Users]
        /\ kc'[e].member
        /\ \A a \in Emails : kc'[a].by = kc[a].by /\ kc'[a].roles = kc[a].roles
        /\ \A a \in Emails \ {e} : kc'[a] = kc[a]
    BY <1>1, <2>1 DEF AInv, TypeOK, Users
  <2>3. UsersGrow
    BY <2>2 DEF UsersGrow
  <2>4. /\ Sound(r)' /\ req' \in [Requests -> Handlings] /\ Frozen(r)
        /\ req'[r].pc \in {"grant", "ended"}
    <3>1. CASE Moves(r, "grant")
      BY <1>1, <2>2, <2>3, <3>1, MovedSound DEF Made, Joined, Granted, IsSignup
    <3>2. CASE Ends(r, "error")
      BY <1>1, <2>3, <3>2, EndedSound
    <3> QED BY <2>1, <3>1, <3>2
  <2>5. Makers'
    BY <1>1, <2>2, <2>4, MakersKept
  <2>6. RolesAsAsked'
    BY <2>2, <2>3, <2>4, RoleKept DEF RolesAsAsked
  <2> QED BY <1>1, <2>2, <2>3, <2>4, <2>5, <2>6, AccountsKeep
<1> QED BY <1>2, <1>3

LEMMA GrantKeeps ==
  ASSUME AInv, NEW r \in Requests, Nobody \notin Requests, Grant(r)
  PROVE  AInv'
<1> DEFINE e == req[r].email
           role == req[r].role
<1>1. /\ req[r].pc = "grant" /\ UNCHANGED <<profiles, log>> /\ e \in Emails
      /\ req[r].caller \in Emails
      /\ req[r].kind # "assign" => kc[e].by = r /\ kc[e].member
      /\ IsSignup(r) => role = "member"
      /\ ~IsSignup(r) => kc[req[r].caller].roles \cap Managers # {}
  BY DEF Grant, AInv, TypeOK, Handlings, Sound, Permitted, Achieved, Made, Joined
<1>2. CASE ~(Exists(e) /\ role \in RealmRoles)
  BY <1>1, <1>2, EndsKeeps DEF Grant
<1>3. CASE Exists(e) /\ role \in RealmRoles
  <2>1. /\ kc' = [kc EXCEPT ![e].roles = @ \cup {role}]
        /\ Moves(r, AfterGrant(r)) \/ Ends(r, "error")
    BY <1>3 DEF Grant, Done
  <2>2. /\ kc' \in [Emails -> Users]
        /\ kc'[e].roles = kc[e].roles \cup {role}
        /\ \A a \in Emails : kc'[a].by = kc[a].by /\ kc'[a].member = kc[a].member
        /\ \A a \in Emails \ {e} : kc'[a] = kc[a]
    BY <1>1, <1>3, <2>1 DEF AInv, TypeOK, Users
  <2>3. UsersGrow
    BY <2>2 DEF UsersGrow
  <2>4. /\ Sound(r)' /\ req' \in [Requests -> Handlings] /\ Frozen(r)
        /\ req'[r].pc \notin {"org", "post"}
    <3>1. CASE Moves(r, AfterGrant(r))
      <4>1. /\ req[r].kind # "assign" => kc'[e].by = r /\ kc'[e].member
            /\ role \in kc'[e].roles
        BY <1>1, <2>2
      <4>2. PICK pc \in {"profile", "emit"} : pc = AfterGrant(r)
        BY DEF AfterGrant
      <4>3. pc = "profile" <=> IsSignup(r)
        BY <4>2 DEF AfterGrant
      <4>4. Moves(r, pc)
        BY <3>1, <4>2
      <4>5. pc \notin {"org", "post", "join", "respond", "login"}
        BY <4>2
      <4> QED BY <1>1, <2>3, <4>1, <4>3, <4>4, <4>5, MovedSound
    <3>2. CASE Ends(r, "error")
      BY <1>1, <2>3, <3>2, EndedSound
    <3> QED BY <2>1, <3>1, <3>2
  <2>5. Makers'
    BY <1>1, <2>2, <2>4, MakersKept
  <2>6. RolesAsAsked'
    <3>1. ASSUME NEW a \in Emails, NEW x \in kc'[a].roles, ~(x \in kc[a].roles)
          PROVE  \/ x \in Seeded[a]
                 \/ \E q \in Requests :
                      /\ req'[q].email = a /\ req'[q].role = x
                      /\ IF req'[q].kind = "signup"
                         THEN kc'[a].by = q /\ x = "member"
                         ELSE kc'[req'[q].caller].roles \cap Managers # {}
      <4>1. a = e /\ x = role
        BY <2>2, <3>1
      <4>2. /\ req'[r].email = e /\ req'[r].role = role /\ req'[r].kind = req[r].kind
            /\ req'[r].caller = req[r].caller
        BY <2>4 DEF Frozen
      <4>3. req[r].kind = "signup" => kc'[e].by = r /\ role = "member"
        BY <1>1, <2>2 DEF IsSignup
      <4>4. kc[req[r].caller].roles \subseteq kc'[req[r].caller].roles
        BY <1>1, <2>3 DEF UsersGrow
      <4>5. req[r].kind # "signup" => kc'[req[r].caller].roles \cap Managers # {}
        BY <1>1, <4>4 DEF IsSignup
      <4> QED BY <4>1, <4>2, <4>3, <4>5
    <3>2. ASSUME NEW a \in Emails, NEW x \in kc[a].roles
          PROVE  \/ x \in Seeded[a]
                 \/ \E q \in Requests :
                      /\ req'[q].email = a /\ req'[q].role = x
                      /\ IF req'[q].kind = "signup"
                         THEN kc'[a].by = q /\ x = "member"
                         ELSE kc'[req'[q].caller].roles \cap Managers # {}
      BY <2>3, <2>4, RoleKept DEF IsSignup
    <3> QED BY <3>1, <3>2 DEF RolesAsAsked, IsSignup
  <2> QED BY <1>1, <2>2, <2>3, <2>4, <2>5, <2>6, AccountsKeep
<1> QED BY <1>2, <1>3

LEMMA InsertProfileKeeps ==
  ASSUME AInv, NEW r \in Requests, Nobody \notin Requests, InsertProfile(r)
  PROVE  AInv'
<1> DEFINE e == req[r].email
           free == \A p \in profiles : p.email # e
<1>1. /\ req[r].pc = "profile" /\ UNCHANGED <<kc, log>> /\ e \in Emails
      /\ req[r].source \in Sources /\ IsSignup(r) /\ req[r].role = "member"
      /\ kc[e].by = r /\ kc[e].member /\ "member" \in kc[e].roles
  BY DEF InsertProfile, AInv, TypeOK, Handlings, Sound, Permitted, Achieved, Made, Joined,
         Granted, IsSignup
<1>2. CASE ~(req[r].source \in Checked /\ free)
  BY <1>1, <1>2, EndsKeeps DEF InsertProfile
<1>3. CASE req[r].source \in Checked /\ free
  <2>1. /\ profiles' = profiles \cup {Profile(r)}
        /\ Moves(r, "emit") \/ Ends(r, "error")
    BY <1>3 DEF InsertProfile, Done
  <2>2. UsersGrow
    BY <1>1 DEF UsersGrow
  <2>3. /\ Sound(r)' /\ req' \in [Requests -> Handlings] /\ Frozen(r)
        /\ req'[r].pc \in {"emit", "ended"}
    <3>1. CASE Moves(r, "emit")
      BY <1>1, <2>1, <2>2, <3>1, MovedSound DEF Made, Joined, Granted, IsSignup
    <3>2. CASE Ends(r, "error")
      BY <1>1, <2>1, <2>2, <3>2, EndedSound
    <3> QED BY <2>1, <3>1, <3>2
  <2>4. TypeOK'
    <3>1. Profile(r) \in [email : Emails, source : Sources]
      BY <1>1 DEF Profile
    <3> QED BY <1>1, <2>1, <2>3, <3>1 DEF AInv, TypeOK
  <2>5. Makers'
    BY <1>1, <2>3, MakersKept
  <2>6. ASSUME NEW q \in Requests PROVE Sound(q)'
    <3>1. CASE q = r
      BY <2>3, <3>1
    <3>2. CASE q # r
      BY <2>1, <2>2, <2>3, <3>2, OthersSound DEF Frozen
    <3> QED BY <3>1, <3>2
  <2>7. RecordsAreTrue'
    <3>1. \A q \in Requests : req'[q].kind = req[q].kind /\ req'[q].source = req[q].source
      BY <2>3 DEF Frozen
    <3>2. ASSUME NEW p \in profiles
          PROVE  /\ kc[p.email].by \in Requests
                 /\ req[kc[p.email].by].kind = "signup"
                 /\ req[kc[p.email].by].source = p.source
                 /\ kc[p.email].member /\ "member" \in kc[p.email].roles
                 /\ \A q \in profiles : q.email = p.email => q = p
                 /\ p.email # e
      BY <1>3 DEF AInv, RecordsAreTrue, IsSignup
    <3>3. \A event \in log : event.role \in kc[event.email].roles
      BY DEF AInv, RecordsAreTrue
    <3>4. Profile(r).email = e /\ Profile(r).source = req[r].source
      BY DEF Profile
    <3>5. ASSUME NEW p \in profiles'
          PROVE  /\ kc'[p.email].by \in Requests
                 /\ req'[kc'[p.email].by].kind = "signup"
                 /\ req'[kc'[p.email].by].source = p.source
                 /\ kc'[p.email].member /\ "member" \in kc'[p.email].roles
                 /\ \A q \in profiles' : q.email = p.email => q = p
      <4>1. CASE p \in profiles
        BY <1>1, <2>1, <3>1, <3>2, <3>4, <4>1
      <4>2. CASE p = Profile(r)
        BY <1>1, <2>1, <3>1, <3>2, <3>4, <4>2 DEF IsSignup
      <4> QED BY <2>1, <4>1, <4>2
    <3> QED BY <1>1, <3>3, <3>5 DEF RecordsAreTrue, IsSignup
  <2>8. RolesAsAsked'
    BY <1>1, <2>2, <2>3, RoleKept DEF RolesAsAsked
  <2> QED BY <2>4, <2>5, <2>6, <2>7, <2>8 DEF AInv
<1> QED BY <1>2, <1>3

LEMMA EmitKeeps ==
  ASSUME AInv, NEW r \in Requests, Nobody \notin Requests, Emit(r)
  PROVE  AInv'
<1> DEFINE e == req[r].email
           event == [action |-> req[r].kind, email |-> e, role |-> req[r].role]
           pc == IF IsSignup(r) THEN "login" ELSE "respond"
<1>1. /\ req[r].pc = "emit" /\ UNCHANGED <<kc, profiles>> /\ Moves(r, pc)
      /\ log' = log \/ (~IsSignup(r) /\ log' = log \cup {event})
  BY DEF Emit
<1>2. /\ e \in Emails
      /\ req[r].role \in Asked \cup {"member"}
      /\ req[r].kind \in {"signup", "create", "assign"}
  BY DEF AInv, TypeOK, Handlings
<1>3. /\ req[r].kind # "assign" => kc[e].by = r /\ kc[e].member
      /\ req[r].role \in kc[e].roles
      /\ IsSignup(r) => Profile(r) \in profiles
  BY <1>1 DEF AInv, Sound, Achieved, Made, Joined, Granted
<1>4. UsersGrow
  BY <1>1 DEF UsersGrow
<1>5. /\ Sound(r)' /\ req' \in [Requests -> Handlings] /\ Frozen(r) /\ req'[r].pc = pc
  <2>1. pc \in {"login", "respond"} /\ (pc = "login" <=> IsSignup(r))
    OBVIOUS
  <2> HIDE DEF pc
  <2> QED BY <1>1, <1>3, <1>4, <2>1, MovedSound DEF IsSignup
<1>6. /\ event.email = e /\ event.role = req[r].role
      /\ ~IsSignup(r) =>
           event \in [action : {"create", "assign"}, email : Emails, role : Asked \cup {"member"}]
  BY <1>2 DEF IsSignup
<1> HIDE DEF event
<1>7. TypeOK'
  BY <1>1, <1>5, <1>6 DEF AInv, TypeOK
<1>8. Makers'
  BY <1>1, <1>5, MakersKept
<1>9. ASSUME NEW q \in Requests PROVE Sound(q)'
  <2>1. CASE q = r
    BY <1>5, <2>1
  <2>2. CASE q # r
    BY <1>1, <1>4, <1>5, <2>2, OthersSound DEF Frozen
  <2> QED BY <2>1, <2>2
<1>10. RecordsAreTrue'
  <2>1. \A x \in log' : x \in log \/ x.role \in kc'[x.email].roles
    BY <1>1, <1>3, <1>6
  <2> QED BY <1>1, <1>4, <1>5, <2>1, RecordsKept
<1>11. RolesAsAsked'
  BY <1>1, <1>4, <1>5, RoleKept DEF RolesAsAsked
<1> QED BY <1>7, <1>8, <1>9, <1>10, <1>11 DEF AInv

(* The answer of a request that has achieved what it was asked for. *)
LEMMA AnswerKeeps ==
  ASSUME AInv, NEW r \in Requests, Nobody \notin Requests, UNCHANGED <<kc, profiles, log>>,
         req[r].pc \in {"respond", "login"},
         NEW reply \in {"created", "token", "no_token"}, Ends(r, reply)
  PROVE  AInv'
<1> DEFINE e == req[r].email
<1>1. /\ req' \in [Requests -> Handlings] /\ Frozen(r)
      /\ req'[r].pc = "ended" /\ req'[r].reply \in {reply, req[r].reply}
  BY EndsFrozen DEF AInv
<1>2. /\ req[r].kind # "assign" => kc[e].by = r /\ kc[e].member
      /\ req[r].role \in kc[e].roles
      /\ IsSignup(r) => Profile(r) \in profiles
  BY DEF AInv, Sound, Achieved, Permitted, Made, Joined, Granted
<1>3. Achieved(r)'
  BY <1>1 DEF Achieved, Made, Joined, Granted
<1>4. Permitted(r)'
  BY <1>1 DEF AInv, Sound, Permitted, Frozen, IsSignup
<1>5. Answered(r)'
  BY <1>1, <1>2 DEF Answered, Frozen, IsSignup, Profile
<1> QED BY <1>1, <1>3, <1>4, <1>5, QuietKeeps DEF Sound

LEMMA RespondKeeps ==
  ASSUME AInv, NEW r \in Requests, Nobody \notin Requests, Respond(r) \/ LogIn(r)
  PROVE  AInv'
<1>1. CASE Respond(r)
  BY <1>1, AnswerKeeps DEF Respond
<1>2. CASE LogIn(r)
  <2>1. PICK reply \in {"token", "no_token"} : Ends(r, reply)
    BY <1>2 DEF LogIn
  <2> QED BY <1>2, <2>1, AnswerKeeps DEF LogIn
<1> QED BY <1>1, <1>2

(* The caller is gone: the handler goes on as before. *)
LEMMA GiveUpKeeps ==
  ASSUME AInv, NEW r \in Requests, Nobody \notin Requests, GiveUp(r)
  PROVE  AInv'
<1> DEFINE q == [req[r] EXCEPT !.reply = "error"]
<1>1. /\ req[r].pc # "idle" /\ UNCHANGED <<kc, profiles, log>>
      /\ req' = [req EXCEPT ![r] = q] /\ req[r] \in Handlings
  BY DEF GiveUp, Busy, Becomes, AInv, TypeOK
<1>2. /\ q \in Handlings
      /\ q.kind = req[r].kind /\ q.email = req[r].email /\ q.source = req[r].source
      /\ q.role = req[r].role /\ q.caller = req[r].caller
      /\ q.pc = req[r].pc /\ q.reply = "error"
  BY <1>1 DEF Handlings
<1> HIDE DEF q
<1>3. /\ req' \in [Requests -> Handlings] /\ Frozen(r)
      /\ req'[r].pc = req[r].pc /\ req'[r].reply = "error"
  BY <1>1, <1>2 DEF AInv, TypeOK, Frozen
<1>4. Sound(r)
  BY DEF AInv
<1>5. Achieved(r)'
  BY <1>1, <1>3, <1>4 DEF Sound, Achieved, Frozen, IsSignup, Profile
<1>6. Permitted(r)'
  BY <1>1, <1>3, <1>4 DEF Sound, Permitted, Frozen, IsSignup
<1>7. Answered(r)'
  BY <1>3 DEF Answered
<1> QED BY <1>1, <1>3, <1>5, <1>6, <1>7, QuietKeeps DEF Sound

LEMMA BreakKeeps ==
  ASSUME AInv, NEW r \in Requests, Nobody \notin Requests, Break(r)
  PROVE  AInv'
BY EndsKeeps DEF Break, Busy

-----------------------------------------------------------------------------
(* A request that arrives: no user was made by it, and no role was given for it. *)
LEMMA ArrivalKeeps ==
  ASSUME AInv, NEW r \in Requests, Nobody \notin Requests, UNCHANGED <<kc, profiles, log>>,
         req[r].pc = "idle", NEW q \in Handlings, Becomes(r, q),
         q.reply \notin {"created", "token", "no_token"},
         <<q.pc, q.kind>> \in {<<"org", "signup">>, <<"post", "create">>, <<"grant", "assign">>}
           \/ q.pc = "ended",
         q.kind = "signup" => q.role = "member",
         q.kind # "signup" /\ q.pc # "ended" => kc[q.caller].roles \cap Managers # {}
  PROVE  AInv'
<1>1. /\ \A e \in Emails : kc[e].by # r
      /\ IsSignup(r)
  BY DEF AInv, Makers, Sound, Permitted
<1>2. /\ req' \in [Requests -> Handlings] /\ req'[r] = q
      /\ \A x \in Requests \ {r} : req'[x] = req[x]
  BY DEF Becomes, AInv, TypeOK
<1>3. UsersGrow
  BY DEF UsersGrow
<1>4. TypeOK'
  BY <1>2 DEF AInv, TypeOK
<1>5. Makers'
  BY <1>1, <1>2 DEF AInv, Makers
<1>6. Sound(r)'
  <2>1. Achieved(r)'
    BY <1>2 DEF Achieved, Made, Joined, Granted, IsSignup
  <2>2. Permitted(r)'
    BY <1>2 DEF Permitted, IsSignup
  <2>3. Answered(r)'
    BY <1>2 DEF Answered
  <2> QED BY <2>1, <2>2, <2>3 DEF Sound
<1>7. ASSUME NEW x \in Requests PROVE Sound(x)'
  <2>1. CASE x = r
    BY <1>6, <2>1
  <2>2. CASE x # r
    BY <1>2, <1>3, <2>2, OthersSound
  <2> QED BY <2>1, <2>2
<1>8. RecordsAreTrue'
  <2>1. \A p \in profiles : p.email \in Emails
    BY DEF AInv, TypeOK
  <2>2. \A p \in profiles : kc[p.email].by \in Requests \ {r}
    BY <1>1, <2>1 DEF AInv, RecordsAreTrue
  <2> QED BY <1>2, <2>2 DEF AInv, RecordsAreTrue, IsSignup
<1>9. RolesAsAsked'
  <2> SUFFICES ASSUME NEW e \in Emails, NEW role \in kc[e].roles, role \notin Seeded[e]
               PROVE  \E x \in Requests :
                        /\ req'[x].email = e /\ req'[x].role = role
                        /\ IF req'[x].kind = "signup"
                           THEN kc[e].by = x /\ role = "member"
                           ELSE kc[req'[x].caller].roles \cap Managers # {}
    BY DEF RolesAsAsked, IsSignup
  <2>1. PICK x \in Requests :
               /\ req[x].email = e /\ req[x].role = role
               /\ IF IsSignup(x) THEN kc[e].by = x /\ role = "member"
                                 ELSE kc[req[x].caller].roles \cap Managers # {}
    BY DEF AInv, RolesAsAsked
  <2>2. x # r
    BY <1>1, <2>1
  <2> QED BY <1>2, <2>1, <2>2 DEF IsSignup
<1> QED BY <1>4, <1>5, <1>7, <1>8, <1>9 DEF AInv

LEMMA SignUpKeeps ==
  ASSUME AInv, NEW r \in Requests, Nobody \notin Requests,
         NEW e \in Emails, NEW source \in Sources, SignUp(r, e, source)
  PROVE  AInv'
<1>1. /\ req[r].pc = "idle" /\ UNCHANGED <<kc, profiles, log>> /\ req[r] \in Handlings
      /\ req[r].kind = "signup" /\ req[r].role = "member"
      /\ req[r].reply \notin {"created", "token", "no_token"}
  BY DEF SignUp, AInv, TypeOK, Sound, Permitted, Answered, IsSignup
<1> DEFINE asked == [req[r] EXCEPT !.email = e, !.source = source]
           org1  == [asked EXCEPT !.pc = "org"]
           ended == [asked EXCEPT !.pc = "ended", !.reply = "refused"]
<1>2. /\ org1 \in Handlings /\ org1.pc = "org" /\ org1.kind = "signup"
      /\ org1.role = "member" /\ org1.reply \notin {"created", "token", "no_token"}
  BY <1>1 DEF Handlings
<1>3. /\ ended \in Handlings /\ ended.pc = "ended" /\ ended.kind = "signup"
      /\ ended.role = "member" /\ ended.reply \notin {"created", "token", "no_token"}
  BY <1>1 DEF Handlings
<1>4. Becomes(r, org1) \/ Becomes(r, ended)
  BY DEF SignUp
<1> HIDE DEF org1, ended
<1>5. CASE Becomes(r, org1)
  BY <1>1, <1>2, <1>5, ArrivalKeeps
<1>6. CASE Becomes(r, ended)
  BY <1>1, <1>3, <1>6, ArrivalKeeps
<1> QED BY <1>4, <1>5, <1>6

LEMMA ManageKeeps ==
  ASSUME AInv, NEW r \in Requests, Nobody \notin Requests,
         NEW caller \in Emails, NEW kind \in {"create", "assign"}, NEW e \in Emails,
         NEW role \in Asked, Manage(r, caller, kind, e, role)
  PROVE  AInv'
<1>1. /\ req[r].pc = "idle" /\ UNCHANGED <<kc, profiles, log>> /\ req[r] \in Handlings
      /\ req[r].reply \notin {"created", "token", "no_token"}
  BY DEF Manage, AInv, TypeOK, Sound, Answered
<1> DEFINE asked == [req[r] EXCEPT !.kind = kind, !.email = e, !.role = role,
                                   !.caller = caller]
           first == IF kind = "create" THEN "post" ELSE "grant"
           let   == [asked EXCEPT !.pc = first]
           ended == [asked EXCEPT !.pc = "ended", !.reply = "refused"]
<1>2. /\ let \in Handlings /\ let.pc = first /\ let.kind = kind /\ let.caller = caller
      /\ let.reply \notin {"created", "token", "no_token"}
  BY <1>1 DEF Handlings
<1>3. /\ ended \in Handlings /\ ended.pc = "ended" /\ ended.kind = kind
      /\ ended.reply \notin {"created", "token", "no_token"}
  BY <1>1 DEF Handlings
<1>4. \/ kc[caller].roles \cap Managers # {} /\ Becomes(r, let)
      \/ Becomes(r, ended)
  BY DEF Manage
<1> HIDE DEF let, ended
<1>5. kind # "signup"
  OBVIOUS
<1>6. CASE kc[caller].roles \cap Managers # {} /\ Becomes(r, let)
  <2>1. /\ <<let.pc, let.kind>> \in {<<"post", "create">>, <<"grant", "assign">>}
        /\ let.kind # "signup" /\ kc[let.caller].roles \cap Managers # {}
    BY <1>2, <1>5, <1>6
  <2> QED BY <1>1, <1>2, <1>6, <2>1, ArrivalKeeps
<1>7. CASE Becomes(r, ended)
  <2>1. ended.pc = "ended" /\ ended.kind # "signup"
    BY <1>3, <1>5
  <2> QED BY <1>1, <1>3, <1>7, <2>1, ArrivalKeeps
<1> QED BY <1>4, <1>6, <1>7

-----------------------------------------------------------------------------
LEMMA StutterKeeps ==
  ASSUME AInv, UNCHANGED <<kc, profiles, log, req>>
  PROVE  AInv'
<1>1. TypeOK' /\ Makers'
  BY DEF AInv, TypeOK, Makers
<1>2. \A r \in Requests : Sound(r)'
  BY DEF AInv, Sound, Achieved, Permitted, Answered, IsSignup, Profile
<1>3. RecordsAreTrue'
  BY DEF AInv, RecordsAreTrue, IsSignup
<1>4. RolesAsAsked'
  BY DEF AInv, RolesAsAsked, IsSignup
<1> QED BY <1>1, <1>2, <1>3, <1>4 DEF AInv

LEMMA NextKeeps ==
  ASSUME AccountsAssumption, AInv, [Next]_vars
  PROVE  AInv'
<1>1. Nobody \notin Requests
  BY DEF AccountsAssumption
<1>2. CASE UNCHANGED vars \/ Provision
  BY <1>2, StutterKeeps DEF vars, Provision
<1>3. ASSUME NEW r \in Requests, Arrive(r) PROVE AInv'
  <2>1. PICK e \in Emails :
          \/ \E source \in Sources : SignUp(r, e, source)
          \/ \E caller \in Emails, kind \in {"create", "assign"}, role \in Asked :
               Manage(r, caller, kind, e, role)
    BY <1>3 DEF Arrive, Sources
  <2>2. CASE \E source \in Sources : SignUp(r, e, source)
    BY <1>1, <2>2, SignUpKeeps
  <2>3. CASE \E caller \in Emails, kind \in {"create", "assign"}, role \in Asked :
               Manage(r, caller, kind, e, role)
    <3>1. PICK caller \in Emails, kind \in {"create", "assign"}, role \in Asked :
            Manage(r, caller, kind, e, role)
      BY <2>3
    <3> QED BY <1>1, <3>1, ManageKeeps
  <2> QED BY <2>1, <2>2, <2>3
<1>4. ASSUME NEW r \in Requests, Handle(r) PROVE AInv'
  <2>1. CASE ReadOrg(r)
    BY <1>1, <2>1, ReadOrgKeeps
  <2>2. CASE PostUser(r)
    BY <1>1, <2>2, PostUserKeeps
  <2>3. CASE Join(r)
    BY <1>1, <2>3, JoinKeeps
  <2>4. CASE Grant(r)
    BY <1>1, <2>4, GrantKeeps
  <2>5. CASE InsertProfile(r)
    BY <1>1, <2>5, InsertProfileKeeps
  <2>6. CASE Emit(r)
    BY <1>1, <2>6, EmitKeeps
  <2>7. CASE Respond(r) \/ LogIn(r)
    BY <1>1, <2>7, RespondKeeps
  <2>8. CASE GiveUp(r)
    BY <1>1, <2>8, GiveUpKeeps
  <2>9. CASE Break(r)
    BY <1>1, <2>9, BreakKeeps
  <2> QED BY <1>4, <2>1, <2>2, <2>3, <2>4, <2>5, <2>6, <2>7, <2>8, <2>9 DEF Handle
<1> QED BY <1>2, <1>3, <1>4 DEF Next

(* The strengthening holds of every reachable state. *)
LEMMA AlwaysAInv == ASSUME AccountsAssumption PROVE Spec => []AInv
<1>1. Init => AInv
  BY InitAInv
<1>2. AInv /\ [Next]_vars => AInv'
  BY NextKeeps
<1> QED BY <1>1, <1>2, PTL DEF Spec

(* Whatever fails and whatever runs beside it, an account that is answered as
   created is whole: register and create_user answer after their last write. *)
THEOREM AnsweredAlwaysComplete ==
  ASSUME AccountsAssumption PROVE Spec => []AnsweredComplete
<1>1. AInv => AnsweredComplete
  BY DEF AInv, Sound, Answered, AnsweredComplete
<1> QED BY <1>1, AlwaysAInv, PTL

(* The platform's profiles and audit events never run ahead of Keycloak. *)
THEOREM RecordsAlwaysTrue ==
  ASSUME AccountsAssumption PROVE Spec => []RecordsAreTrue
<1>1. AInv => RecordsAreTrue
  BY DEF AInv
<1> QED BY <1>1, AlwaysAInv, PTL

(* A role is the realm's, a sign-up's own, or one an owner or admin asked for. *)
THEOREM RolesAlwaysAsAsked ==
  ASSUME AccountsAssumption PROVE Spec => []RolesAsAsked
<1>1. AInv => RolesAsAsked
  BY DEF AInv
<1> QED BY <1>1, AlwaysAInv, PTL
=============================================================================
