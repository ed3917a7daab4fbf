----------------------------- MODULE MCAccounts -----------------------------
(* Accounts for TLC: requests and addresses are model values; the realm has one
   owner.  The requests, and the addresses it does not know, are interchangeable. *)
EXTENDS Accounts, TLC

CONSTANT Owner

OwnerOnly == [e \in Emails |-> IF e = Owner THEN {"owner"} ELSE {}]

Symmetry == Permutations(Requests) \cup Permutations(Emails \ {Owner})
=============================================================================
