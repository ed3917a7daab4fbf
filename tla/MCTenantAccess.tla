--------------------------- MODULE MCTenantAccess ---------------------------
(* TenantAccess for TLC: a user with one organization, one whose tenant_id is
   not the first of the organizations, and one whose token names no tenant. *)
EXTENDS TenantAccess, TLC

CONSTANTS t1, t2

MCClaims == [ann   |-> [tenant_id |-> NoTenant, orgs |-> <<t1, t2>>],
             bob   |-> [tenant_id |-> t2, orgs |-> <<t1>>],
             guest |-> [tenant_id |-> NoTenant, orgs |-> <<>>]]
MCUsers  == DOMAIN MCClaims

(* One user of one tenant. *)
AnnClaims == [ann |-> [tenant_id |-> NoTenant, orgs |-> <<t1>>]]

EqualRequests == Permutations(Requests)

(* The gateway alone: what it does with a request until it is sent on depends on
   nothing the service does, and KeysAreFresh and LimitHolds do not tell a request
   that was sent from one that was answered. *)
GatewaySpec ==
  Init /\ [][(Environment \/ \E r \in Requests : GatewayStep(r)) /\ UNCHANGED sessionVars]_vars
=============================================================================
