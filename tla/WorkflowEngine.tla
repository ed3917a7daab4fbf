--------------------------- MODULE WorkflowEngine ---------------------------
(***************************************************************************)
(* The generic workflow engine, packages/shared/src/ai_os_shared/workflow:  *)
(* what one call of WorkflowEngine.run does with a definition, the outputs  *)
(* already in the context and the approvals it was given.  A pure module:   *)
(* an output is reduced to the flag a later step may ask for.               *)
(*                                                                         *)
(* A definition is [steps, approvals, declares, outputs]; a step is         *)
(* [id, out, type, when, reads, connector, gives].  Operators named after a *)
(* definition with a fault appended are faulty variants of it.              *)
(***************************************************************************)
EXTENDS Naturals, Sequences

NoKey == "-"        \* out, when or connector is None

(* StepDef, with the fields the engine looks at; reads are the keys its input
   expressions name, gives is the flag of its output. *)
StepDef == [id : STRING \ {NoKey}, out : STRING, type : STRING, when : STRING,
            reads : SUBSET STRING, connector : STRING, gives : {"yes", "no"}]

(* step.out or step.id: where the output of a step is kept. *)
Key(s) == IF s.out = NoKey THEN s.id ELSE s.out

Positions(d) == 1 .. Len(d.steps)
Ids(d) == {d.steps[i].id : i \in Positions(d)}

(* WorkflowDefinition._validate.  It looks at the ids, not at the keys. *)
Valid(d) ==
  /\ \A i, j \in Positions(d) : d.steps[i].id = d.steps[j].id => i = j
  /\ d.approvals \subseteq Ids(d)
  /\ \A i \in Positions(d) : d.steps[i].connector \in d.declares \cup {NoKey}

-----------------------------------------------------------------------------
EmptyContext == [k \in {} |-> "yes"]

SetOutput(ctx, k, v) == [j \in DOMAIN ctx \cup {k} |-> IF j = k THEN v ELSE ctx[j]]

(* expr.resolve finds `steps.<key>.out.<field>`: a step that did not run has no
   entry and a skipped one has no such field, which raises ExprError. *)
Resolves(k, ctx) == k \in DOMAIN ctx /\ ctx[k] # "skipped"
AllResolve(ks, ctx) == \A k \in ks : Resolves(k, ctx)

TruthyUnlessEmpty(v) == v # ""
(* is_truthy: a flag that spells "no" is false. *)
Truthy(v) == v # "no"

AlreadyRanById(s, ctx) == s.id \in DOMAIN ctx
AlreadyRan(s, ctx) == Key(s) \in DOMAIN ctx

DecidedAnyStep(s, decided) == decided # {}
(* wait_for_approval looks for a decision under the id of the step. *)
Decided(s, decided) == s.id \in decided

GuardSet(s) == IF s.when = NoKey THEN {} ELSE {s.when}
Guarded(s)  == s.when # NoKey

(* The steps that leave the platform: connector.call and notify. *)
Calls(s) == s.type = "call"

(* One turn of the loop: what step s makes of the state e of the engine. *)
ExecuteStep(s, e, decided) ==
  CASE AlreadyRan(s, e.ctx) -> e
    [] ~AlreadyRan(s, e.ctx) /\ ~AllResolve(GuardSet(s), e.ctx) ->
         [e EXCEPT !.status = "failed"]
    [] ~AlreadyRan(s, e.ctx) /\ AllResolve(GuardSet(s), e.ctx)
         /\ Guarded(s) /\ ~Truthy(e.ctx[s.when]) ->
         [e EXCEPT !.ctx = SetOutput(@, Key(s), "skipped")]
    [] OTHER ->
         CASE ~AllResolve(s.reads, e.ctx) -> [e EXCEPT !.status = "failed"]
           [] AllResolve(s.reads, e.ctx) /\ s.type = "approval" /\ ~Decided(s, decided) ->
                [e EXCEPT !.status = "paused", !.at = s.id]
           [] OTHER -> [e EXCEPT !.ctx = SetOutput(@, Key(s), s.gives),
                                 !.called = IF Calls(s) THEN Append(@, s.id) ELSE @]

(* The engine before its loop, with the outputs it was handed ... *)
Begin(ctx) == [ctx |-> ctx, called |-> <<>>, status |-> "going", at |-> NoKey]

(* ... and what it makes of each step, until one pauses it or raises. *)
Turn(d, i, e, decided) ==
  IF e.status = "going" THEN ExecuteStep(d.steps[i], e, decided) ELSE e

(* The state of the engine after each turn of its loop. *)
Turns(d, ctx, decided) ==
  LET after[i \in 0 .. Len(d.steps)] ==
        IF i = 0 THEN Begin(ctx) ELSE Turn(d, i, after[i - 1], decided)
  IN after

(* WorkflowEngine.run from the context ctx; a definition that ran through still
   has its declared outputs to resolve. *)
RunEngine(d, ctx, decided) ==
  LET end == Turns(d, ctx, decided)[Len(d.steps)]
  IN IF end.status # "going" THEN end
     ELSE [end EXCEPT !.status =
             IF AllResolve(d.outputs, end.ctx) THEN "completed" ELSE "failed"]

-----------------------------------------------------------------------------
(***************************************************************************)
(* The reference: what a definition asks for, read off its steps.           *)
(***************************************************************************)

(* No two steps share a key, in one definition or in two. *)
Coherent(ds) ==
  \A d, e \in ds : \A i \in Positions(d), j \in Positions(e) :
    LET s == d.steps[i]  t == e.steps[j] IN
      Key(s) = Key(t) => /\ s.id = t.id /\ s.type = t.type
                         /\ d = e => i = j

(* A step that is edited keeps its key. *)
KeysKept(ds) ==
  \A d, e \in ds : \A i \in Positions(d), j \in Positions(e) :
    d.steps[i].id = e.steps[j].id => Key(d.steps[i]) = Key(e.steps[j])

(* The guard of s names a step that gives "no". *)
GuardedOff(d, s) ==
  \E j \in Positions(d) : Key(d.steps[j]) = s.when /\ d.steps[j].gives = "no"

Expected(d, s) == IF GuardedOff(d, s) THEN "skipped" ELSE s.gives
=============================================================================
