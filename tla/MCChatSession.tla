--------------------------- MODULE MCChatSession ---------------------------
(* ChatSession for TLC: the definitions a workflows service lists. *)
EXTENDS ChatSession

(* One shipped flow of the workspace's pack and one authored by a user. *)
ShippedAndCustom == <<[wf |-> "invoice", pack |-> "accounting"],
                      [wf |-> "mine", pack |-> "custom"]>>

(* invoice_verification, as two shipped packs define it. *)
SameKeyTwice == <<[wf |-> "invoice", pack |-> "accounting"],
                  [wf |-> "invoice", pack |-> "construction"]>>
=============================================================================
