------------------------------ MODULE Accounts ------------------------------
(***************************************************************************)
(* Accounts: public sign-up through the gateway (gateway/main.py) and the    *)
(* identity service (identity/main.py, keycloak_admin.py), the users and     *)
(* roles an administrator creates, and the tenant's row that sign-up needs   *)
(* (admin/main.py, deploy/seed).  An account is made of a Keycloak user, its *)
(* membership of the organization, its role and its profile, written by one  *)
(* call after the other; nothing undoes the first when a later one fails.    *)
(*                                                                         *)
(* Operators named after a definition with a fault appended are faulty       *)
(* variants that the properties must notice.                                *)
(***************************************************************************)
EXTENDS Naturals

CONSTANTS
  Requests,    \* the requests to the gateway, each handled at most once
  Emails,      \* the addresses, which are Keycloak's user names
  Seeded,      \* those the realm is imported with, and their roles
  Industries,  \* industry_keys(): what the packs configure
  Checked,     \* the login_source values the table's CHECK admits
  Nobody,      \* no user has this name yet
  Realm,       \* a user that was imported with the realm
  NoSource,    \* requests that carry no login_source
  Asked,       \* the roles an administrator asks for, known to the realm or not
  MaxFaults    \* bound: calls that fail, answers that get lost, deaths

RealmRoles == {"owner", "admin", "member", "viewer"}
Managers   == {"owner", "admin"}

ASSUME AccountsAssumption ==
  /\ Nobody \notin Requests /\ Realm \notin Requests /\ Nobody # Realm
  /\ Seeded \in [Emails -> SUBSET RealmRoles]
  /\ MaxFaults \in Nat

VARIABLES
  kc,        \* Keycloak's users: who made them, membership, roles
  profiles,  \* user_profiles
  log,       \* the audit events about users
  org,       \* does the demo tenant's row know its organization's id?
  claim,     \* what a token says of the organization: its "alias" or its "id"
  req,       \* each request: what it asks, how far it is, what was answered
  faults

vars == <<kc, profiles, log, org, claim, req, faults>>

Init ==
  /\ kc = [e \in Emails |-> [by     |-> IF Seeded[e] = {} THEN Nobody ELSE Realm,
                             member |-> Seeded[e] # {},
                             roles  |-> Seeded[e]]]
  /\ profiles = {}
  /\ log = {}
  /\ org \in BOOLEAN
  /\ claim \in {"alias", "id"}
  /\ \E e \in Emails :
       req = [r \in Requests |-> [kind |-> "signup", email |-> e, source |-> NoSource,
                                  role |-> "member", caller |-> e,
                                  pc |-> "idle", reply |-> "none"]]
  /\ faults = 0

Exists(e)   == kc[e].by # Nobody
Busy(r)     == req[r].pc \notin {"idle", "ended"}
IsSignup(r) == req[r].kind = "signup"

Becomes(r, q) == req' = [req EXCEPT ![r] = q]
Moves(r, pc)  == Becomes(r, [req[r] EXCEPT !.pc = pc])
Fault == faults < MaxFaults /\ faults' = faults + 1

(* The handler is over; the caller hears of it if it still waits. *)
Ends(r, reply) ==
  Becomes(r, [req[r] EXCEPT !.pc = "ended", !.reply = IF @ = "none" THEN reply ELSE @])

(* A call that took effect: its answer arrives, or the handler fails without it. *)
Done(r, pc) ==
  \/ Moves(r, pc) /\ UNCHANGED faults
  \/ Ends(r, "error") /\ Fault

-----------------------------------------------------------------------------
(***************************************************************************)
(* Arrival: register, create_user, assign_role.                            *)
(***************************************************************************)
SignUp(r, e, source) ==
  /\ req[r].pc = "idle"
  /\ LET q == [req[r] EXCEPT !.email = e, !.source = source] IN
       Becomes(r, IF source \in Industries
                  THEN [q EXCEPT !.pc = "org"]
                  ELSE [q EXCEPT !.pc = "ended", !.reply = "refused"])
  /\ UNCHANGED <<kc, profiles, log, org, claim, faults>>

(* The organization sign-up joins is the one in the demo tenant's row. *)
ReadOrg(r) ==
  /\ req[r].pc = "org"
  /\ IF org THEN Moves(r, "post") ELSE Ends(r, "refused")
  /\ UNCHANGED <<kc, profiles, log, org, claim, faults>>

(* check_ctx: owners and admins of the tenant manage its users.  The token of a
   user who is no member names no tenant and does not pass the gateway. *)
Manage(r, caller, kind, e, role) ==
  /\ req[r].pc = "idle"
  /\ Exists(caller) /\ kc[caller].member
  /\ LET q == [req[r] EXCEPT !.kind = kind, !.email = e, !.role = role, !.caller = caller] IN
       Becomes(r, IF kc[caller].roles \cap Managers # {}
                  THEN [q EXCEPT !.pc = IF kind = "create" THEN "post" ELSE "grant"]
                  ELSE [q EXCEPT !.pc = "ended", !.reply = "refused"])
  /\ UNCHANGED <<kc, profiles, log, org, claim, faults>>

-----------------------------------------------------------------------------
(***************************************************************************)
(* KeycloakAdmin: create_user in two steps, and assign_realm_role.         *)
(***************************************************************************)
PostUserAgain(r) ==
  /\ req[r].pc = "post"
  /\ IF Exists(req[r].email)
     THEN Moves(r, "join") /\ UNCHANGED <<kc, faults>>
     ELSE /\ kc' = [kc EXCEPT ![req[r].email].by = r]
          /\ Done(r, "join")
  /\ UNCHANGED <<profiles, log, org, claim>>

(* POST /users: a name that is taken is refused (409, which becomes a 502). *)
PostUser(r) ==
  /\ req[r].pc = "post"
  /\ IF Exists(req[r].email)
     THEN Ends(r, "taken") /\ UNCHANGED <<kc, faults>>
     ELSE /\ kc' = [kc EXCEPT ![req[r].email].by = r]
          /\ Done(r, "join")
  /\ UNCHANGED <<profiles, log, org, claim>>

(* The organization asked for: create_user takes the tenant id of the caller's
   token for it, which is no organization's id where the token names an alias. *)
OrgFound(r) == IsSignup(r) \/ claim = "id"

Join(r) ==
  /\ req[r].pc = "join"
  /\ IF OrgFound(r)
     THEN /\ kc' = [kc EXCEPT ![req[r].email].member = TRUE]
          /\ Done(r, "grant")
     ELSE Ends(r, "error") /\ UNCHANGED <<kc, faults>>
  /\ UNCHANGED <<profiles, log, org, claim>>

AfterGrant(r) == IF IsSignup(r) THEN "profile" ELSE "emit"

GrantOrGoOn(r) ==
  /\ req[r].pc = "grant"
  /\ LET e == req[r].email IN
       IF Exists(e) /\ req[r].role \in RealmRoles
       THEN /\ kc' = [kc EXCEPT ![e].roles = @ \cup {req[r].role}]
            /\ Done(r, AfterGrant(r))
       ELSE Moves(r, AfterGrant(r)) /\ UNCHANGED <<kc, faults>>
  /\ UNCHANGED <<profiles, log, org, claim>>

(* A role or a user that Keycloak does not know raises. *)
Grant(r) ==
  /\ req[r].pc = "grant"
  /\ LET e == req[r].email IN
       IF Exists(e) /\ req[r].role \in RealmRoles
       THEN /\ kc' = [kc EXCEPT ![e].roles = @ \cup {req[r].role}]
            /\ Done(r, AfterGrant(r))
       ELSE Ends(r, "error") /\ UNCHANGED <<kc, faults>>
  /\ UNCHANGED <<profiles, log, org, claim>>

-----------------------------------------------------------------------------
(***************************************************************************)
(* The platform's own records, and the answer.                             *)
(***************************************************************************)
Profile(r) == [email |-> req[r].email, source |-> req[r].source]

InsertProfileEarly(r) ==
  /\ IsSignup(r) /\ req[r].pc \in {"grant", "profile"}
  /\ IF req[r].source \in Checked /\ Profile(r) \notin profiles
     THEN /\ profiles' = profiles \cup {Profile(r)}
          /\ IF req[r].pc = "grant" THEN UNCHANGED <<req, faults>> ELSE Done(r, "emit")
     ELSE Ends(r, "error") /\ UNCHANGED <<profiles, faults>>
  /\ UNCHANGED <<kc, log, org, claim>>

(* The INSERT, under the table's CHECK and its unique index. *)
InsertProfile(r) ==
  /\ req[r].pc = "profile"
  /\ IF req[r].source \in Checked /\ \A p \in profiles : p.email # req[r].email
     THEN /\ profiles' = profiles \cup {Profile(r)}
          /\ Done(r, "emit")
     ELSE Ends(r, "error") /\ UNCHANGED <<profiles, faults>>
  /\ UNCHANGED <<kc, log, org, claim>>

(* emit fails silently.  Sign-up runs on a path without a context, and of its
   event nothing is sent. *)
Emit(r) ==
  /\ req[r].pc = "emit"
  /\ \/ /\ log' = IF IsSignup(r) THEN log
                  ELSE log \cup {[action |-> req[r].kind, email |-> req[r].email,
                                  role |-> req[r].role]}
        /\ UNCHANGED faults
     \/ Fault /\ UNCHANGED log
  /\ Moves(r, IF IsSignup(r) THEN "login" ELSE "respond")
  /\ UNCHANGED <<kc, profiles, org, claim>>

Respond(r) ==
  /\ req[r].pc = "respond"
  /\ Ends(r, "created")
  /\ UNCHANGED <<kc, profiles, log, org, claim, faults>>

(* dev_token: the gateway logs the new user in with the password of the request. *)
LogIn(r) ==
  /\ req[r].pc = "login"
  /\ Ends(r, IF kc[req[r].email].by = r THEN "token" ELSE "no_token")
  /\ UNCHANGED <<kc, profiles, log, org, claim, faults>>

(* The gateway's own timeout passes, or its connection breaks: the caller gets
   an error and the identity service goes on. *)
GiveUp(r) ==
  /\ Busy(r) /\ req[r].reply = "none"
  /\ Fault
  /\ Becomes(r, [req[r] EXCEPT !.reply = "error"])
  /\ UNCHANGED <<kc, profiles, log, org, claim>>

(* A call fails before it takes effect, or the process dies: no handler
   catches it. *)
Break(r) ==
  /\ Busy(r)
  /\ Fault
  /\ Ends(r, "error")
  /\ UNCHANGED <<kc, profiles, log, org, claim>>

-----------------------------------------------------------------------------
(***************************************************************************)
(* The tenant's row: the seed keeps an id it has when Keycloak does not      *)
(* answer, register_tenant overwrites it with whatever it is given.        *)
(***************************************************************************)
Seed(found) == org' = (found \/ org)
RegisterTenant(id) == org' = id

Provision ==
  /\ \E b \in BOOLEAN : Seed(b) \/ RegisterTenant(b)
  /\ UNCHANGED <<kc, profiles, log, claim, req, faults>>

Handle(r) ==
  \/ ReadOrg(r) \/ PostUser(r) \/ Join(r) \/ Grant(r)
  \/ InsertProfile(r) \/ Emit(r) \/ Respond(r) \/ LogIn(r)
  \/ GiveUp(r) \/ Break(r)

Arrive(r) ==
  \E e \in Emails :
    \/ \E source \in Industries \cup {NoSource} : SignUp(r, e, source)
    \/ \E caller \in Emails, kind \in {"create", "assign"}, role \in Asked :
         Manage(r, caller, kind, e, role)

Next == Provision \/ \E r \in Requests : Arrive(r) \/ Handle(r)

Spec == Init /\ [][Next]_vars

-----------------------------------------------------------------------------
(***************************************************************************)
(* Properties.                                                             *)
(***************************************************************************)

(* What is answered as created is complete, whatever ran beside it or failed
   before: the user is the request's own and carries its password, it is a
   member, it has the role, and a sign-up has its profile. *)
AnsweredComplete ==
  \A r \in Requests :
    LET e == req[r].email IN
      req[r].reply \in {"created", "token", "no_token"} =>
        /\ req[r].role \in kc[e].roles
        /\ req[r].kind # "assign" => kc[e].by = r /\ kc[e].member
        /\ IsSignup(r) => Profile(r) \in profiles

(* The platform's records never run ahead of Keycloak: a profile, one per user,
   is of a member whose sign-up named that industry and who has the role; an
   audit event tells of a role that was given. *)
RecordsAreTrue ==
  /\ \A p \in profiles :
       LET u == kc[p.email] IN
         /\ u.by \in Requests /\ IsSignup(u.by) /\ req[u.by].source = p.source
         /\ u.member /\ "member" \in u.roles
         /\ \A q \in profiles : q.email = p.email => q = p
  /\ \A event \in log : event.role \in kc[event.email].roles

(* Sign-up hands out no privileges and touches no account but the one it
   creates: a role is the realm's, or the one a sign-up gives its own account,
   or one that an owner or admin asked for. *)
RolesAsAsked ==
  \A e \in Emails : \A role \in kc[e].roles :
    \/ role \in Seeded[e]
    \/ \E r \in Requests :
         /\ req[r].email = e /\ req[r].role = role
         /\ IF IsSignup(r) THEN kc[e].by = r /\ role = "member"
                           ELSE kc[req[r].caller].roles \cap Managers # {}
=============================================================================
