-------------------------- MODULE MCPackAuthoring --------------------------
(* PackAuthoring for TLC: a catalogue of definitions an author moves between. *)
EXTENDS PackAuthoring

Step(id, out, type, when, reads, connector, gives) ==
  [id |-> id, out |-> out, type |-> type, when |-> when, reads |-> reads,
   connector |-> connector, gives |-> gives]

Compute(id, gives)     == Step(id, NoKey, "compute", NoKey, {}, NoKey, gives)
Gate(id, out)          == Step(id, out, "approval", NoKey, {}, NoKey, "yes")
Call(id, out, when, reads) == Step(id, out, "call", when, reads, "mail", "yes")

Definition(steps, outputs) ==
  [steps |-> steps, approvals |-> {}, declares |-> {"mail"}, outputs |-> outputs]

(* A call, a gate and a call under a renamed key. *)
Plain == Definition(<<Call("a", "first", NoKey, {}), Gate("g", NoKey),
                      Call("s", "sent", NoKey, {"first"})>>, {"sent"})
(* The same flow, edited: a second gate and a third call. *)
TwoGates == Definition(<<Call("a", "first", NoKey, {}), Gate("g", NoKey),
                         Call("s", "sent", NoKey, {"first"}), Gate("f", NoKey),
                         Call("t", NoKey, NoKey, {})>>, {})
(* A branch of which one side is not taken, as in invoice_verification. *)
Branch == Definition(<<Compute("r", "no"), Gate("g", NoKey), Call("s", "sent", "r", {}),
                       Call("t", NoKey, NoKey, {})>>, {})
(* An output that the branch leaves unresolved. *)
Broken == Definition(<<Compute("r", "no"), Gate("g", NoKey), Call("t", NoKey, NoKey, {}),
                       Call("s", "sent", "r", {})>>, {"sent"})
(* The gate takes the key of the step before it. *)
Shadowed == Definition(<<Compute("a", "yes"), Gate("g", "a"),
                         Call("s", NoKey, NoKey, {})>>, {})
(* The first call of Plain, edited to keep its output elsewhere. *)
Renamed == Definition(<<Call("a", "moved", NoKey, {}), Gate("g", NoKey),
                        Call("s", "sent", NoKey, {"moved"})>>, {"sent"})
(* Refused by the schema: two steps with one id. *)
Invalid == Definition(<<Compute("a", "yes"), Call("a", NoKey, NoKey, {})>>, {})

Catalogue == {Plain, TwoGates, Branch, Broken, Shadowed, Renamed, Invalid}
=============================================================================
