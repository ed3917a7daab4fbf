-------------------------- MODULE PackAuthoringProofs --------------------------
(***************************************************************************)
(* Proofs about PackAuthoring, and about the engine it drives: what one     *)
(* call of WorkflowEngine!RunEngine does with any definition, any context   *)
(* and any approvals, by induction over the steps of the definition.        *)
(***************************************************************************)
EXTENDS PackAuthoring, SequenceTheorems, WellFoundedInduction, TLAPS

-----------------------------------------------------------------------------
(***************************************************************************)
(* Induction over the natural numbers, as a statement about sets.           *)
(***************************************************************************)

(* A set of numbers that is not empty has a least element. *)
LEMMA LeastNatural ==
  ASSUME NEW T, T \subseteq Nat, T # {}
  PROVE  \E m \in T : \A k \in T : m <= k
<1> DEFINE R == {ss \in Nat \X Nat : ss[1] < ss[2]}
<1>1. IsWellFoundedOn(R, Nat)
  BY NatLessThanWellFounded DEF OpToRel
<1>2. \A y, x \in Nat : y < x => <<y, x>> \in R
  OBVIOUS
<1> HIDE DEF R
<1>3. PICK x \in T : \A y \in T : ~ (<<y, x>> \in R)
  BY <1>1, WFMin
<1>4. \A y \in T : ~ (y < x)
  BY <1>2, <1>3
<1>5. QED  BY <1>4

(* A set that holds 0 and the successor of each of its numbers holds them all. *)
LEMMA SetInduction ==
  ASSUME NEW S, 0 \in S, \A n \in Nat : n \in S => n + 1 \in S
  PROVE  Nat \subseteq S
<1> DEFINE T == {n \in Nat : n \notin S}
<1>1. SUFFICES ASSUME T # {} PROVE FALSE
  OBVIOUS
<1>2. PICK m \in T : \A k \in T : m <= k
  BY <1>1, LeastNatural
<1>3. m # 0 /\ m \in Nat /\ m \notin S
  BY <1>2
<1>4. m - 1 \in Nat /\ m - 1 \notin T
  BY <1>2, <1>3
<1>5. QED  BY <1>3, <1>4

-----------------------------------------------------------------------------
(***************************************************************************)
(* The engine.                                                             *)
(***************************************************************************)

(* The loop of the engine is the function its definition describes. *)
LEMMA TurnsUnfolded ==
  ASSUME NEW d, d.steps \in Seq(StepDef), NEW c, NEW a
  PROVE  Turns(d, c, a) =
           [i \in 0 .. Len(d.steps) |->
              IF i = 0 THEN Begin(c) ELSE Turn(d, i, Turns(d, c, a)[i - 1], a)]
<1> DEFINE Fits(g, n) == g = [i \in 0 .. n |->
                                IF i = 0 THEN Begin(c) ELSE Turn(d, i, g[i - 1], a)]
           S == {n \in Nat : \E g : Fits(g, n)}
<1>1. 0 \in S
  <2> DEFINE g == [i \in 0 .. 0 |-> Begin(c)]
  <2>1. Fits(g, 0)
    OBVIOUS
  <2> QED  BY <2>1
<1>2. ASSUME NEW n \in Nat, n \in S PROVE n + 1 \in S
  <2>1. PICK g : Fits(g, n)
    BY <1>2
  <2> DEFINE f == [i \in 0 .. n + 1 |-> IF i = n + 1 THEN Turn(d, n + 1, g[n], a) ELSE g[i]]
  <2>2. ASSUME NEW i \in 0 .. n + 1
        PROVE  f[i] = IF i = 0 THEN Begin(c) ELSE Turn(d, i, f[i - 1], a)
    <3>1. CASE i = n + 1
      <4>1. f[n] = g[n] /\ n + 1 # 0 /\ i - 1 = n
        BY <3>1
      <4> QED  BY <3>1, <4>1
    <3>2. CASE i # n + 1
      <4>1. i \in 0 .. n /\ f[i] = g[i] /\ (i # 0 => f[i - 1] = g[i - 1])
        BY <3>2
      <4>2. g[i] = IF i = 0 THEN Begin(c) ELSE Turn(d, i, g[i - 1], a)
        BY <2>1, <4>1
      <4> QED  BY <4>1, <4>2
    <3> QED  BY <3>1, <3>2
  <2>3. Fits(f, n + 1)
    BY <2>2
  <2>4. \E x : Fits(x, n + 1)
    <3> HIDE DEF f
    <3> QED  BY <2>3
  <2> QED  BY <2>4
<1>3. Len(d.steps) \in S
  <2>1. Nat \subseteq S
    <3> HIDE DEF S
    <3> QED  BY <1>1, <1>2, SetInduction
  <2>2. Len(d.steps) \in Nat
    BY LenProperties
  <2> QED  BY <2>1, <2>2
<1>4. Turns(d, c, a) = CHOOSE g : Fits(g, Len(d.steps))
  BY DEF Turns
<1>5. QED  BY <1>3, <1>4

(* The states of the engine: outputs by key, calls in order. *)
Flags == {"yes", "no", "skipped"}
Contexts == UNION {[D -> Flags] : D \in SUBSET STRING}
EngineStates == [ctx : Contexts, called : Seq(STRING),
                 status : {"going", "paused", "failed"}, at : STRING \cup {NoKey}]

LEMMA ContextValues ==
  ASSUME NEW c \in Contexts
  PROVE  /\ DOMAIN c \subseteq STRING
         /\ c \in [DOMAIN c -> Flags]
BY DEF Contexts

LEMMA EmptyIsContext == EmptyContext \in Contexts /\ DOMAIN EmptyContext = {}
<1>1. EmptyContext \in [{} -> Flags] /\ {} \in SUBSET STRING
  BY DEF EmptyContext
<1>2. QED  BY <1>1 DEF Contexts, EmptyContext

LEMMA OutputSet ==
  ASSUME NEW c \in Contexts, NEW k \in STRING, NEW v \in Flags
  PROVE  /\ SetOutput(c, k, v) \in Contexts
         /\ DOMAIN SetOutput(c, k, v) = DOMAIN c \cup {k}
         /\ SetOutput(c, k, v)[k] = v
         /\ \A j \in DOMAIN c : j # k => SetOutput(c, k, v)[j] = c[j]
<1>1. SetOutput(c, k, v) \in [DOMAIN c \cup {k} -> Flags]
  BY ContextValues DEF SetOutput
<1>2. DOMAIN c \cup {k} \in SUBSET STRING
  BY ContextValues
<1>3. SetOutput(c, k, v) \in Contexts
  BY <1>1, <1>2 DEF Contexts
<1>4. QED  BY <1>1, <1>3 DEF SetOutput

LEMMA KeyIsString ==
  ASSUME NEW s \in StepDef
  PROVE  Key(s) \in STRING /\ Key(s) # NoKey /\ s.id \in STRING /\ s.gives \in {"yes", "no"}
BY DEF Key, StepDef, NoKey

(* What a step makes of a state the loop is going in. *)
Kept(s, e, r)    == r = e /\ Key(s) \in DOMAIN e.ctx
Failed(e, r)     == r = [e EXCEPT !.status = "failed"]
Paused(s, e, r)  == r = [e EXCEPT !.status = "paused", !.at = s.id]
Skipped(s, e, r) ==
  /\ r = [e EXCEPT !.ctx = SetOutput(e.ctx, Key(s), "skipped")]
  /\ Key(s) \notin DOMAIN e.ctx
  /\ s.when # NoKey /\ s.when \in DOMAIN e.ctx /\ e.ctx[s.when] = "no"
Done(s, e, r, a) ==
  /\ r = [e EXCEPT !.ctx = SetOutput(e.ctx, Key(s), s.gives),
                   !.called = IF Calls(s) THEN Append(e.called, s.id) ELSE e.called]
  /\ Key(s) \notin DOMAIN e.ctx
  /\ s.when # NoKey => s.when \in DOMAIN e.ctx /\ e.ctx[s.when] \notin {"no", "skipped"}
  /\ s.type = "approval" => s.id \in a

(* A step that has an output is passed over; another one fails, pauses, is
   skipped by its guard or is carried out with its approval. *)
LEMMA StepOutcomes ==
  ASSUME NEW s \in StepDef, NEW e \in EngineStates, NEW a
  PROVE  LET r == ExecuteStep(s, e, a) IN
           \/ Kept(s, e, r)
           \/ Failed(e, r)
           \/ Paused(s, e, r)
           \/ Skipped(s, e, r)
           \/ Done(s, e, r, a)
<1> DEFINE r == ExecuteStep(s, e, a)
<1>1. CASE AlreadyRan(s, e.ctx)
  <2>1. r = e
    BY <1>1 DEF ExecuteStep
  <2> QED  BY <1>1, <2>1 DEF Kept, AlreadyRan
<1>2. CASE ~AlreadyRan(s, e.ctx) /\ ~AllResolve(GuardSet(s), e.ctx)
  <2>1. r = [e EXCEPT !.status = "failed"]
    BY <1>2 DEF ExecuteStep
  <2> QED  BY <2>1 DEF Failed
<1>3. CASE /\ ~AlreadyRan(s, e.ctx) /\ AllResolve(GuardSet(s), e.ctx)
           /\ Guarded(s) /\ ~Truthy(e.ctx[s.when])
  <2>1. r = [e EXCEPT !.ctx = SetOutput(e.ctx, Key(s), "skipped")]
    BY <1>3 DEF ExecuteStep
  <2> QED  BY <1>3, <2>1 DEF Skipped, AlreadyRan, AllResolve, Resolves, GuardSet, Guarded, Truthy
<1>4. CASE /\ ~AlreadyRan(s, e.ctx) /\ AllResolve(GuardSet(s), e.ctx)
           /\ ~(Guarded(s) /\ ~Truthy(e.ctx[s.when]))
  <2>0. s.when # NoKey => s.when \in DOMAIN e.ctx /\ e.ctx[s.when] \notin {"no", "skipped"}
    BY <1>4 DEF AllResolve, Resolves, GuardSet, Guarded, Truthy
  <2>1. CASE ~AllResolve(s.reads, e.ctx)
    <3>1. r = [e EXCEPT !.status = "failed"]
      BY <1>4, <2>1 DEF ExecuteStep
    <3> QED  BY <3>1 DEF Failed
  <2>2. CASE AllResolve(s.reads, e.ctx) /\ s.type = "approval" /\ ~Decided(s, a)
    <3>1. r = [e EXCEPT !.status = "paused", !.at = s.id]
      BY <1>4, <2>2 DEF ExecuteStep
    <3> QED  BY <3>1 DEF Paused
  <2>3. CASE AllResolve(s.reads, e.ctx) /\ ~(s.type = "approval" /\ ~Decided(s, a))
    <3>1. r = [e EXCEPT !.ctx = SetOutput(e.ctx, Key(s), s.gives),
                        !.called = IF Calls(s) THEN Append(e.called, s.id) ELSE e.called]
      BY <1>4, <2>3 DEF ExecuteStep
    <3> QED  BY <1>4, <2>0, <2>3, <3>1 DEF Done, AlreadyRan, Decided
  <2> QED  BY <2>1, <2>2, <2>3
<1>5. QED  BY <1>1, <1>2, <1>3, <1>4

-----------------------------------------------------------------------------
(***************************************************************************)
(* The loop of the engine, from the context c with the approvals a: what is  *)
(* true of its state e once it has looked at the first n steps.             *)
(***************************************************************************)
CalledWith(called, id) == \E b \in 1 .. Len(called) : called[b] = id
NoneTwice(called) == \A b, f \in 1 .. Len(called) : called[b] = called[f] => b = f

(* An output is new because a step without one was skipped or carried out. *)
NewOutputs(d, c, a, e, n) ==
  \A k \in DOMAIN e.ctx \ DOMAIN c :
    \E i \in 1 .. n :
      /\ Key(d.steps[i]) = k
      /\ d.steps[i].type = "approval" => d.steps[i].id \in a \/ e.ctx[k] = "skipped"

(* A connector is called for a step that had no output, after the others have. *)
CallsBehindGates(d, c, e, n) ==
  \A b \in 1 .. Len(e.called) :
    \E m \in 1 .. n :
      /\ d.steps[m].id = e.called[b]
      /\ Key(d.steps[m]) \in DOMAIN e.ctx \ DOMAIN c
      /\ \A j \in 1 .. m - 1 : Key(d.steps[j]) \in DOMAIN e.ctx

EngineSound(d, c, a, e, n) ==
  /\ e \in EngineStates
  /\ \A k \in DOMAIN c : k \in DOMAIN e.ctx /\ e.ctx[k] = c[k]
  /\ e.status = "going" => \A i \in 1 .. n : Key(d.steps[i]) \in DOMAIN e.ctx
  /\ NewOutputs(d, c, a, e, n)
  /\ CallsBehindGates(d, c, e, n)
  /\ Valid(d) => NoneTwice(e.called)

LEMMA EngineStep ==
  ASSUME NEW d, d.steps \in Seq(StepDef), NEW c \in Contexts, NEW a,
         NEW n \in Nat, n + 1 \in Positions(d), NEW e, EngineSound(d, c, a, e, n)
  PROVE  EngineSound(d, c, a, Turn(d, n + 1, e, a), n + 1)
<1> DEFINE s == d.steps[n + 1]
           r == ExecuteStep(s, e, a)
<1>0. s \in StepDef /\ e \in EngineStates /\ e.ctx \in Contexts /\ e.called \in Seq(STRING)
  BY DEF EngineSound, EngineStates, Positions
<1>k. Key(s) \in STRING /\ s.id \in STRING /\ s.gives \in Flags
  BY <1>0, KeyIsString DEF Flags
<1>r. 1 .. n \subseteq 1 .. n + 1 /\ n + 1 \in 1 .. n + 1 /\ Len(e.called) \in Nat
  BY <1>0, LenProperties
<1>1. CASE e.status # "going" \/ Failed(e, r) \/ Paused(s, e, r)
  <2> DEFINE t == Turn(d, n + 1, e, a)
  <2>1. /\ t \in EngineStates /\ t.status # "going"
        /\ t.ctx = e.ctx /\ t.called = e.called
    BY <1>0, <1>k, <1>1 DEF EngineStates, Turn, Failed, Paused
  <2> HIDE DEF t
  <2>2. NewOutputs(d, c, a, t, n + 1)
    BY <1>r, <2>1 DEF EngineSound, NewOutputs
  <2>3. CallsBehindGates(d, c, t, n + 1)
    BY <1>r, <2>1 DEF EngineSound, CallsBehindGates
  <2>4. EngineSound(d, c, a, t, n + 1)
    BY <2>1, <2>2, <2>3 DEF EngineSound
  <2> QED  BY <2>4 DEF t
<1> HIDE DEF r
<1>2. CASE e.status = "going" /\ Kept(s, e, r)
  <2>1. Turn(d, n + 1, e, a) = e
    BY <1>2 DEF Turn, Kept, r
  <2>2. \A i \in 1 .. n + 1 : Key(d.steps[i]) \in DOMAIN e.ctx
    BY <1>2 DEF EngineSound, Kept
  <2>3. NewOutputs(d, c, a, e, n + 1) /\ CallsBehindGates(d, c, e, n + 1)
    BY <1>r DEF EngineSound, NewOutputs, CallsBehindGates
  <2> QED  BY <2>1, <2>2, <2>3 DEF EngineSound
<1>3. CASE e.status = "going" /\ (Skipped(s, e, r) \/ Done(s, e, r, a))
  <2>1. Turn(d, n + 1, e, a) = r
    BY <1>3 DEF Turn, r
  <2>2. PICK v \in Flags :
          /\ r.ctx = SetOutput(e.ctx, Key(s), v)
          /\ r.status = "going" /\ r.at = e.at
          /\ r \in [ctx : {r.ctx}, called : {r.called}, status : {r.status}, at : {r.at}]
          /\ s.type = "approval" => s.id \in a \/ v = "skipped"
    BY <1>0, <1>3, <1>k DEF Skipped, Done, Flags, EngineStates
  <2>3. /\ r.called = e.called \/ r.called = Append(e.called, s.id)
        /\ r.called \in Seq(STRING)
    <3>1. r.called = e.called \/ r.called = Append(e.called, s.id)
      BY <1>0, <1>3 DEF Skipped, Done, EngineStates
    <3>2. Append(e.called, s.id) \in Seq(STRING)
      BY <1>0, <1>k, AppendProperties
    <3> QED  BY <1>0, <3>1, <3>2
  <2>4. Key(s) \notin DOMAIN e.ctx
    BY <1>3 DEF Skipped, Done
  <2>5. /\ r.ctx \in Contexts
        /\ DOMAIN r.ctx = DOMAIN e.ctx \cup {Key(s)}
        /\ r.ctx[Key(s)] = v
        /\ \A j \in DOMAIN e.ctx : r.ctx[j] = e.ctx[j]
    <3>1. /\ SetOutput(e.ctx, Key(s), v) \in Contexts
          /\ DOMAIN SetOutput(e.ctx, Key(s), v) = DOMAIN e.ctx \cup {Key(s)}
          /\ SetOutput(e.ctx, Key(s), v)[Key(s)] = v
          /\ \A j \in DOMAIN e.ctx : j # Key(s) => SetOutput(e.ctx, Key(s), v)[j] = e.ctx[j]
      <4> HIDE DEF s
      <4> QED  BY <1>0, <1>k, OutputSet
    <3>2. \A j \in DOMAIN e.ctx : j # Key(s)
      BY <2>4
    <3> QED  BY <2>2, <3>1, <3>2
  <2>6. r \in EngineStates
    BY <1>0, <2>2, <2>3, <2>5 DEF EngineStates
  <2>7. \A k \in DOMAIN c : k \in DOMAIN r.ctx /\ r.ctx[k] = c[k]
    BY <2>5 DEF EngineSound
  <2>8. \A i \in 1 .. n + 1 : Key(d.steps[i]) \in DOMAIN r.ctx
    BY <1>3, <2>5 DEF EngineSound
  <2>9. NewOutputs(d, c, a, r, n + 1)
    <3>1. SUFFICES ASSUME NEW k \in DOMAIN r.ctx \ DOMAIN c
                   PROVE  \E i \in 1 .. n + 1 :
                            /\ Key(d.steps[i]) = k
                            /\ d.steps[i].type = "approval" =>
                                 d.steps[i].id \in a \/ r.ctx[k] = "skipped"
      BY DEF NewOutputs
    <3>2. CASE k = Key(s)
      BY <1>r, <2>2, <2>5, <3>2
    <3>3. CASE k # Key(s)
      <4>1. k \in DOMAIN e.ctx \ DOMAIN c /\ r.ctx[k] = e.ctx[k]
        BY <2>5, <3>3
      <4>2. PICK i \in 1 .. n :
              /\ Key(d.steps[i]) = k
              /\ d.steps[i].type = "approval" => d.steps[i].id \in a \/ e.ctx[k] = "skipped"
        BY <4>1 DEF EngineSound, NewOutputs
      <4> QED  BY <1>r, <4>1, <4>2
    <3> QED  BY <3>2, <3>3
  <2>10. CallsBehindGates(d, c, r, n + 1)
    <3>1. SUFFICES ASSUME NEW b \in 1 .. Len(r.called)
                   PROVE  \E m \in 1 .. n + 1 :
                            /\ d.steps[m].id = r.called[b]
                            /\ Key(d.steps[m]) \in DOMAIN r.ctx \ DOMAIN c
                            /\ \A j \in 1 .. m - 1 : Key(d.steps[j]) \in DOMAIN r.ctx
      BY DEF CallsBehindGates
    <3>2. CASE b \in 1 .. Len(e.called)
      <4>1. r.called[b] = e.called[b]
        BY <1>0, <1>k, <2>3, <3>2, AppendProperties
      <4>2. PICK m \in 1 .. n :
              /\ d.steps[m].id = e.called[b]
              /\ Key(d.steps[m]) \in DOMAIN e.ctx \ DOMAIN c
              /\ \A j \in 1 .. m - 1 : Key(d.steps[j]) \in DOMAIN e.ctx
        BY <3>2 DEF EngineSound, CallsBehindGates
      <4> QED  BY <1>r, <2>5, <4>1, <4>2
    <3>3. CASE b \notin 1 .. Len(e.called)
      <4>1. r.called[b] = s.id
        BY <1>0, <1>k, <1>r, <2>3, <3>3, AppendProperties
      <4>2. Key(s) \in DOMAIN r.ctx \ DOMAIN c
        BY <2>4, <2>5 DEF EngineSound
      <4>3. \A j \in 1 .. (n + 1) - 1 : Key(d.steps[j]) \in DOMAIN r.ctx
        BY <2>8
      <4> QED  BY <1>r, <4>1, <4>2, <4>3
    <3> QED  BY <3>2, <3>3
  <2>11. Valid(d) => NoneTwice(r.called)
    <3>1. SUFFICES ASSUME Valid(d), r.called = Append(e.called, s.id) PROVE NoneTwice(r.called)
      BY <2>3 DEF EngineSound
    <3>2. \A b \in 1 .. Len(e.called) : e.called[b] # s.id
      <4>1. SUFFICES ASSUME NEW b \in 1 .. Len(e.called), e.called[b] = s.id PROVE FALSE
        OBVIOUS
      <4>2. PICK m \in 1 .. n : d.steps[m].id = e.called[b]
        BY DEF EngineSound, CallsBehindGates
      <4>3. m \in Positions(d) /\ m # n + 1
        BY <1>r DEF Positions
      <4> QED  BY <3>1, <4>1, <4>2, <4>3 DEF Valid
    <3>3. /\ Len(r.called) = Len(e.called) + 1
          /\ r.called[Len(e.called) + 1] = s.id
          /\ \A b \in 1 .. Len(e.called) : r.called[b] = e.called[b]
      BY <1>0, <1>k, <3>1, AppendProperties
    <3>4. NoneTwice(e.called)
      BY <3>1 DEF EngineSound
    <3> SUFFICES ASSUME NEW b \in 1 .. Len(r.called), NEW f \in 1 .. Len(r.called),
                        r.called[b] = r.called[f]
                 PROVE  b = f
      BY DEF NoneTwice
    <3>5. CASE b \in 1 .. Len(e.called) /\ f \in 1 .. Len(e.called)
      BY <3>3, <3>4, <3>5 DEF NoneTwice
    <3>6. CASE ~ (b \in 1 .. Len(e.called) /\ f \in 1 .. Len(e.called))
      BY <1>r, <3>2, <3>3, <3>6
    <3> QED  BY <3>5, <3>6
  <2> QED  BY <2>1, <2>6, <2>7, <2>8, <2>9, <2>10, <2>11 DEF EngineSound
<1>4. QED  BY <1>0, <1>1, <1>2, <1>3, StepOutcomes DEF r

(* The loop, turn by turn. *)
LEMMA LoopTurns ==
  ASSUME NEW d, d.steps \in Seq(StepDef), NEW c, NEW a
  PROVE  /\ Turns(d, c, a)[0] = Begin(c)
         /\ \A i \in Positions(d) : Turns(d, c, a)[i] = Turn(d, i, Turns(d, c, a)[i - 1], a)
<1> DEFINE t == Turns(d, c, a)
<1>0. Len(d.steps) \in Nat
  BY LenProperties
<1>1. \A i \in 0 .. Len(d.steps) : t[i] = IF i = 0 THEN Begin(c) ELSE Turn(d, i, t[i - 1], a)
  <2> HIDE DEF t
  <2> QED  BY TurnsUnfolded DEF t
<1> HIDE DEF t
<1>2. t[0] = Begin(c) /\ \A i \in Positions(d) : t[i] = Turn(d, i, t[i - 1], a)
  BY <1>0, <1>1 DEF Positions
<1> QED  BY <1>2 DEF t

LEMMA BeginState ==
  ASSUME NEW c \in Contexts
  PROVE  Begin(c) \in EngineStates /\ Begin(c).ctx = c /\ Begin(c).called = <<>>
<1>1. <<>> \in Seq(STRING)
  BY EmptySeq
<1> QED  BY <1>1 DEF Begin, EngineStates

(* ... sound after every turn, and so at the end. *)
LEMMA EngineLoop ==
  ASSUME NEW d, d.steps \in Seq(StepDef), NEW c \in Contexts, NEW a
  PROVE  EngineSound(d, c, a, Turns(d, c, a)[Len(d.steps)], Len(d.steps))
<1> DEFINE t == Turns(d, c, a)
           S == {n \in Nat : n <= Len(d.steps) => EngineSound(d, c, a, t[n], n)}
<1>0. Len(d.steps) \in Nat
  BY LenProperties
<1>1. t[0] = Begin(c) /\ \A i \in Positions(d) : t[i] = Turn(d, i, t[i - 1], a)
  BY LoopTurns
<1> HIDE DEF t
<1>2. 0 \in S
  <2>1. Begin(c) \in EngineStates /\ Begin(c).ctx = c /\ Begin(c).called = <<>>
    BY BeginState
  <2>2. EngineSound(d, c, a, Begin(c), 0)
    BY <2>1 DEF EngineSound, NewOutputs, CallsBehindGates, NoneTwice
  <2> QED  BY <1>1, <2>2
<1>3. ASSUME NEW n \in Nat, n \in S PROVE n + 1 \in S
  <2>1. SUFFICES ASSUME n + 1 <= Len(d.steps) PROVE EngineSound(d, c, a, t[n + 1], n + 1)
    OBVIOUS
  <2>2. n + 1 \in Positions(d) /\ (n + 1) - 1 = n
    BY <1>0, <2>1 DEF Positions
  <2>3. EngineSound(d, c, a, t[n], n)
    BY <1>0, <1>3, <2>1
  <2>4. t[n + 1] = Turn(d, n + 1, t[n], a)
    BY <1>1, <2>2
  <2>5. EngineSound(d, c, a, Turn(d, n + 1, t[n], a), n + 1)
    BY <2>2, <2>3, EngineStep
  <2> QED  BY <2>4, <2>5
<1>4. Nat \subseteq S
  <2> HIDE DEF S
  <2> QED  BY <1>2, <1>3, SetInduction
<1>5. QED  BY <1>0, <1>4 DEF t

-----------------------------------------------------------------------------
(***************************************************************************)
(* A definition whose steps keep their outputs apart, driven to its end by   *)
(* one call of the engine or by several: outputs are what it asks for.      *)
(***************************************************************************)
Mirrors(d, c) ==
  \A k \in DOMAIN c :
    \E i \in Positions(d) : Key(d.steps[i]) = k /\ c[k] = Expected(d, d.steps[i])

CalledWhenOn(d, called) ==
  \A b \in 1 .. Len(called) :
    \E m \in Positions(d) : d.steps[m].id = called[b] /\ ~GuardedOff(d, d.steps[m])

OnIsCalled(d, D, called) ==
  \A m \in Positions(d) :
    LET s == d.steps[m] IN
      Calls(s) /\ Key(s) \in D /\ ~GuardedOff(d, s) => CalledWith(called, s.id)

EngineFaithful(d, c, e) ==
  /\ e \in EngineStates
  /\ \A k \in DOMAIN c : k \in DOMAIN e.ctx
  /\ Mirrors(d, e.ctx)
  /\ CalledWhenOn(d, e.called)
  /\ OnIsCalled(d, DOMAIN e.ctx \ DOMAIN c, e.called)

LEMMA KeysApart ==
  ASSUME NEW d, Coherent({d}), NEW i \in Positions(d), NEW j \in Positions(d),
         Key(d.steps[i]) = Key(d.steps[j])
  PROVE  i = j
BY DEF Coherent

(* A guard that reads "no" is a guard the definition turns off, and no other. *)
LEMMA GuardRead ==
  ASSUME NEW d, d.steps \in Seq(StepDef), Coherent({d}), NEW c, Mirrors(d, c), NEW s
  PROVE  /\ s.when = NoKey => ~GuardedOff(d, s)
         /\ s.when \in DOMAIN c /\ c[s.when] = "no" => GuardedOff(d, s)
         /\ s.when \in DOMAIN c /\ c[s.when] \notin {"no", "skipped"} => ~GuardedOff(d, s)
<1>0. \A i \in Positions(d) : d.steps[i] \in StepDef
  BY DEF Positions
<1>1. s.when = NoKey => ~GuardedOff(d, s)
  BY <1>0, KeyIsString DEF GuardedOff
<1>2. ASSUME s.when \in DOMAIN c, c[s.when] # "skipped"
      PROVE  GuardedOff(d, s) <=> c[s.when] = "no"
  <2>1. PICK i \in Positions(d) : /\ Key(d.steps[i]) = s.when
                                  /\ c[s.when] = Expected(d, d.steps[i])
    BY <1>2 DEF Mirrors
  <2>2. c[s.when] = d.steps[i].gives
    BY <1>2, <2>1 DEF Expected
  <2>3. GuardedOff(d, s) => c[s.when] = "no"
    <3>1. SUFFICES ASSUME NEW j \in Positions(d), Key(d.steps[j]) = s.when,
                          d.steps[j].gives = "no"
                   PROVE  c[s.when] = "no"
      BY DEF GuardedOff
    <3>2. i = j
      BY <2>1, <3>1, KeysApart
    <3> QED  BY <2>2, <3>1, <3>2
  <2>4. c[s.when] = "no" => GuardedOff(d, s)
    BY <2>1, <2>2 DEF GuardedOff
  <2> QED  BY <2>3, <2>4
<1>3. QED  BY <1>1, <1>2

LEMMA FaithfulStep ==
  ASSUME NEW d, d.steps \in Seq(StepDef), Coherent({d}), NEW c \in Contexts, NEW a,
         NEW i \in Positions(d), NEW e, EngineFaithful(d, c, e)
  PROVE  EngineFaithful(d, c, Turn(d, i, e, a))
<1> DEFINE s == d.steps[i]
           r == ExecuteStep(s, e, a)
<1>0. s \in StepDef /\ e \in EngineStates /\ e.ctx \in Contexts /\ e.called \in Seq(STRING)
  BY DEF EngineFaithful, EngineStates, Positions
<1>k. Key(s) \in STRING /\ s.id \in STRING /\ s.gives \in Flags
  BY <1>0, KeyIsString DEF Flags
<1>r. Len(e.called) \in Nat
  BY <1>0, LenProperties
<1>1. CASE e.status # "going" \/ Failed(e, r) \/ Paused(s, e, r) \/ Kept(s, e, r)
  <2> DEFINE t == Turn(d, i, e, a)
  <2>1. t \in EngineStates /\ t.ctx = e.ctx /\ t.called = e.called
    BY <1>0, <1>k, <1>1 DEF EngineStates, Turn, Failed, Paused, Kept
  <2> HIDE DEF t
  <2>2. EngineFaithful(d, c, t)
    BY <2>1 DEF EngineFaithful
  <2> QED  BY <2>2 DEF t
<1>g. /\ s.when = NoKey => ~GuardedOff(d, s)
      /\ s.when \in DOMAIN e.ctx /\ e.ctx[s.when] = "no" => GuardedOff(d, s)
      /\ s.when \in DOMAIN e.ctx /\ e.ctx[s.when] \notin {"no", "skipped"} => ~GuardedOff(d, s)
  <2>1. Mirrors(d, e.ctx)
    BY DEF EngineFaithful
  <2> HIDE DEF s
  <2> QED  BY <2>1, GuardRead
<1> HIDE DEF r
<1>2. CASE e.status = "going" /\ (Skipped(s, e, r) \/ Done(s, e, r, a))
  <2>1. Turn(d, i, e, a) = r
    BY <1>2 DEF Turn, r
  <2> DEFINE v == Expected(d, s)
  <2>2. /\ r.ctx = SetOutput(e.ctx, Key(s), v)
        /\ r.status = e.status /\ r.at = e.at
        /\ r \in [ctx : {r.ctx}, called : {r.called}, status : {r.status}, at : {r.at}]
    BY <1>0, <1>g, <1>2 DEF Skipped, Done, Expected, EngineStates
  <2>3. \/ r.called = e.called /\ ~(Calls(s) /\ ~GuardedOff(d, s))
        \/ r.called = Append(e.called, s.id) /\ ~GuardedOff(d, s)
    BY <1>0, <1>g, <1>2 DEF Skipped, Done, EngineStates
  <2>4. Key(s) \notin DOMAIN e.ctx
    BY <1>2 DEF Skipped, Done
  <2>v. v \in Flags
    BY <1>k DEF Expected, Flags
  <2>5. /\ r.ctx \in Contexts
        /\ DOMAIN r.ctx = DOMAIN e.ctx \cup {Key(s)}
        /\ r.ctx[Key(s)] = v
        /\ \A j \in DOMAIN e.ctx : r.ctx[j] = e.ctx[j]
    <3>1. /\ SetOutput(e.ctx, Key(s), v) \in Contexts
          /\ DOMAIN SetOutput(e.ctx, Key(s), v) = DOMAIN e.ctx \cup {Key(s)}
          /\ SetOutput(e.ctx, Key(s), v)[Key(s)] = v
          /\ \A j \in DOMAIN e.ctx : j # Key(s) => SetOutput(e.ctx, Key(s), v)[j] = e.ctx[j]
      <4> HIDE DEF s, v
      <4> QED  BY <1>0, <1>k, <2>v, OutputSet
    <3>2. \A j \in DOMAIN e.ctx : j # Key(s)
      BY <2>4
    <3> QED  BY <2>2, <3>1, <3>2
  <2>6. /\ r.called \in Seq(STRING)
        /\ \A b \in 1 .. Len(e.called) : b \in 1 .. Len(r.called) /\ r.called[b] = e.called[b]
        /\ \A b \in 1 .. Len(r.called) :
             \/ b \in 1 .. Len(e.called) /\ r.called[b] = e.called[b]
             \/ r.called[b] = s.id /\ ~GuardedOff(d, s)
        /\ Calls(s) /\ ~GuardedOff(d, s) => CalledWith(r.called, s.id)
    <3>1. CASE r.called = e.called /\ ~(Calls(s) /\ ~GuardedOff(d, s))
      BY <1>0, <3>1
    <3>2. CASE r.called = Append(e.called, s.id) /\ ~GuardedOff(d, s)
      <4>1. /\ r.called \in Seq(STRING) /\ Len(r.called) = Len(e.called) + 1
            /\ r.called[Len(e.called) + 1] = s.id
            /\ \A b \in 1 .. Len(e.called) : r.called[b] = e.called[b]
        BY <1>0, <1>k, <3>2, AppendProperties
      <4> QED  BY <1>r, <3>2, <4>1 DEF CalledWith
    <3> QED  BY <2>3, <3>1, <3>2
  <2>7. r \in EngineStates
    BY <1>0, <2>2, <2>5, <2>6 DEF EngineStates
  <2>8. Mirrors(d, r.ctx)
    <3>1. SUFFICES ASSUME NEW k \in DOMAIN r.ctx
                   PROVE  \E j \in Positions(d) :
                            Key(d.steps[j]) = k /\ r.ctx[k] = Expected(d, d.steps[j])
      BY DEF Mirrors
    <3>2. CASE k = Key(s)
      BY <2>5, <3>2
    <3>3. CASE k # Key(s)
      BY <2>5, <3>3 DEF EngineFaithful, Mirrors
    <3> QED  BY <3>2, <3>3
  <2>9. CalledWhenOn(d, r.called)
    BY <2>6 DEF EngineFaithful, CalledWhenOn
  <2>10. OnIsCalled(d, DOMAIN r.ctx \ DOMAIN c, r.called)
    <3>1. SUFFICES ASSUME NEW m \in Positions(d), Calls(d.steps[m]),
                          Key(d.steps[m]) \in DOMAIN r.ctx \ DOMAIN c,
                          ~GuardedOff(d, d.steps[m])
                   PROVE  CalledWith(r.called, d.steps[m].id)
      BY DEF OnIsCalled
    <3>2. CASE m = i
      BY <2>6, <3>1, <3>2
    <3>3. CASE m # i
      <4>1. Key(d.steps[m]) # Key(s)
        BY <3>3, KeysApart
      <4>2. Key(d.steps[m]) \in DOMAIN e.ctx \ DOMAIN c
        BY <2>5, <3>1, <4>1
      <4>3. CalledWith(e.called, d.steps[m].id)
        BY <3>1, <4>2 DEF EngineFaithful, OnIsCalled
      <4> QED  BY <2>6, <4>3 DEF CalledWith
    <3> QED  BY <3>2, <3>3
  <2>11. \A k \in DOMAIN c : k \in DOMAIN r.ctx
    BY <2>5 DEF EngineFaithful
  <2> QED  BY <2>1, <2>7, <2>8, <2>9, <2>10, <2>11 DEF EngineFaithful
<1>4. QED  BY <1>0, <1>1, <1>2, StepOutcomes DEF r

LEMMA FaithfulLoop ==
  ASSUME NEW d, d.steps \in Seq(StepDef), Coherent({d}), NEW c \in Contexts, Mirrors(d, c),
         NEW a
  PROVE  EngineFaithful(d, c, Turns(d, c, a)[Len(d.steps)])
<1> DEFINE t == Turns(d, c, a)
           S == {n \in Nat : n <= Len(d.steps) => EngineFaithful(d, c, t[n])}
<1>0. Len(d.steps) \in Nat
  BY LenProperties
<1>1. t[0] = Begin(c) /\ \A i \in Positions(d) : t[i] = Turn(d, i, t[i - 1], a)
  BY LoopTurns
<1> HIDE DEF t
<1>2. 0 \in S
  <2>1. Begin(c) \in EngineStates /\ Begin(c).ctx = c /\ Begin(c).called = <<>>
    BY BeginState
  <2>2. EngineFaithful(d, c, Begin(c))
    BY <2>1 DEF EngineFaithful, CalledWhenOn, OnIsCalled
  <2> QED  BY <1>1, <2>2
<1>3. ASSUME NEW n \in Nat, n \in S PROVE n + 1 \in S
  <2>1. SUFFICES ASSUME n + 1 <= Len(d.steps) PROVE EngineFaithful(d, c, t[n + 1])
    OBVIOUS
  <2>2. n + 1 \in Positions(d) /\ (n + 1) - 1 = n
    BY <1>0, <2>1 DEF Positions
  <2>3. EngineFaithful(d, c, t[n])
    BY <1>0, <1>3, <2>1
  <2>4. t[n + 1] = Turn(d, n + 1, t[n], a)
    BY <1>1, <2>2
  <2>5. EngineFaithful(d, c, Turn(d, n + 1, t[n], a))
    BY <2>2, <2>3, FaithfulStep
  <2> QED  BY <2>4, <2>5
<1>4. Nat \subseteq S
  <2> HIDE DEF S
  <2> QED  BY <1>2, <1>3, SetInduction
<1>5. QED  BY <1>0, <1>4 DEF t

-----------------------------------------------------------------------------
(* One call of WorkflowEngine.run, whatever it is given: it keeps the outputs it
   finds; an output it adds is that of a step, and that of an approval only with
   the decision or because a guard skipped it; it calls a connector for a step
   that had no output, once, when all steps before it have one; and it completes
   only when every step has one.  A definition that keeps outputs apart ends, in
   one call or in several, with the outputs and the calls it asks for. *)
THEOREM EngineRun ==
  ASSUME NEW d, d.steps \in Seq(StepDef), NEW c \in Contexts, NEW a
  PROVE  LET e == RunEngine(d, c, a) IN
           /\ e \in [ctx : Contexts, called : Seq(STRING),
                     status : {"completed", "paused", "failed"}, at : STRING \cup {NoKey}]
           /\ \A k \in DOMAIN c : k \in DOMAIN e.ctx /\ e.ctx[k] = c[k]
           /\ e.status = "completed" => \A i \in Positions(d) : Key(d.steps[i]) \in DOMAIN e.ctx
           /\ NewOutputs(d, c, a, e, Len(d.steps))
           /\ CallsBehindGates(d, c, e, Len(d.steps))
           /\ Valid(d) => NoneTwice(e.called)
           /\ Coherent({d}) /\ Mirrors(d, c) =>
                /\ Mirrors(d, e.ctx)
                /\ CalledWhenOn(d, e.called)
                /\ OnIsCalled(d, DOMAIN e.ctx \ DOMAIN c, e.called)
<1> DEFINE end == Turns(d, c, a)[Len(d.steps)]
           e == RunEngine(d, c, a)
<1>1. EngineSound(d, c, a, end, Len(d.steps))
  BY EngineLoop
<1>2. Coherent({d}) /\ Mirrors(d, c) => EngineFaithful(d, c, end)
  BY FaithfulLoop
<1>3. e = IF end.status # "going" THEN end
          ELSE [end EXCEPT !.status = IF AllResolve(d.outputs, end.ctx) THEN "completed" ELSE "failed"]
  BY DEF RunEngine
<1> HIDE DEF end, e
<1>4. end \in EngineStates
  BY <1>1 DEF EngineSound
<1>5. /\ e \in [ctx : Contexts, called : Seq(STRING),
                status : {"completed", "paused", "failed"}, at : STRING \cup {NoKey}]
      /\ e.ctx = end.ctx /\ e.called = end.called
      /\ e.status = "completed" => end.status = "going"
  BY <1>3, <1>4 DEF EngineStates
<1>6. NewOutputs(d, c, a, e, Len(d.steps)) /\ CallsBehindGates(d, c, e, Len(d.steps))
  BY <1>1, <1>5 DEF EngineSound, NewOutputs, CallsBehindGates
<1>7. /\ \A k \in DOMAIN c : k \in DOMAIN e.ctx /\ e.ctx[k] = c[k]
      /\ e.status = "completed" => \A i \in Positions(d) : Key(d.steps[i]) \in DOMAIN e.ctx
      /\ Valid(d) => NoneTwice(e.called)
  BY <1>1, <1>5 DEF EngineSound, Positions
<1>8. Coherent({d}) /\ Mirrors(d, c) =>
        /\ Mirrors(d, e.ctx)
        /\ CalledWhenOn(d, e.called)
        /\ OnIsCalled(d, DOMAIN e.ctx \ DOMAIN c, e.called)
  BY <1>2, <1>5 DEF EngineFaithful
<1>9. QED  BY <1>5, <1>6, <1>7, <1>8 DEF e

-----------------------------------------------------------------------------
(***************************************************************************)
(* The state of the registry and of the run.                               *)
(***************************************************************************)
USE AuthoringAssumption

StepIds == STRING \cup {NoKey}

Rows == [def : Drafts \cup {NoDef}, source : {"none", "seed", "user"}]
Runs == [status : {"none", "running", "awaiting_approval", "completed", "rejected"},
         key : Keys \cup {<<>>}, ctx : Contexts, cur : StepIds]
Handlers == [pc : {"idle", "load", "decide", "drive", "save"},
             kind : {"none", "start", "approve", "reject"},
             def : Drafts \cup {NoDef}, ctx : Contexts, cur : StepIds,
             outcome : {"none", "rejected", "completed", "failed", "paused"},
             called : Seq(STRING)]
Ghosts == [fresh : BOOLEAN, used : SUBSET Drafts, granted : SUBSET StepIds,
           called : Seq(STRING), broken : BOOLEAN]

Typed ==
  /\ files \in [Names -> Drafts \cup {NoDef}]
  /\ table \in [Keys -> Rows]
  /\ run \in Runs
  /\ h \in Handlers
  /\ ghost \in Ghosts

(* No seeding writes to 'custom', and no author to the shipped pack. *)
Registry ==
  /\ \A k \in Keys : table[k].def # NoDef => Valid(table[k].def)
  /\ \A n \in Names : table[<<"custom", n>>].source # "seed"
  /\ ghost.fresh => \A n \in Names : files[n] # NoDef => table[Shipped(n)].def = files[n]

(* What the handler holds at each of its steps. *)
Phases ==
  /\ run.status = "none" => h.pc = "idle" /\ run = NoRun
  /\ run.status # "none" => run.key \in Keys
  /\ h.pc # "idle" => run.status \in {"running", "awaiting_approval"}
  /\ h.pc \in {"load", "decide", "drive"} =>
       h.ctx = run.ctx /\ h.called = <<>> /\ h.outcome = "none"
  /\ h.pc \in {"load", "decide"} => run.status = "awaiting_approval" /\ h.cur = run.cur
  /\ h.pc \in {"decide", "drive"} => h.def \in Drafts /\ Valid(h.def)
  /\ h.pc = "drive" /\ h.kind = "approve" => h.cur \in ghost.granted
  /\ h.pc = "idle" => h.ctx = EmptyContext
  /\ h.pc = "save" /\ h.outcome = "failed" => ghost.broken
  /\ h.pc = "save" /\ h.outcome = "rejected" => h.ctx = run.ctx

(* While a decision has not been acted on, its task waits with the run. *)
TaskKept ==
  h.pc \in {"idle", "load"} /\ run.status = "awaiting_approval" /\ ~ghost.broken =>
    run.cur \in inbox

-----------------------------------------------------------------------------
(* An authoring step leaves the run and what it has done alone ... *)
LEMMA AuthoringFrame ==
  ASSUME Typed, Authoring
  PROVE  /\ run' = run /\ inbox' = inbox /\ h' = h
         /\ ghost'.used = ghost.used /\ ghost'.granted = ghost.granted
         /\ ghost'.called = ghost.called /\ ghost'.broken = ghost.broken
BY DEF Typed, Ghosts, Authoring, Seed, Deploy, CreateDefinition, UpdateDefinition,
       DeleteDefinition, Edit

(* ... and a step of the run leaves the registry alone. *)
LEMMA RunningFrame ==
  ASSUME Typed, Running
  PROVE  /\ files' = files /\ table' = table
         /\ ghost'.fresh = ghost.fresh
BY DEF Typed, Ghosts, Running, StartRun, ReadRun, LoadAgain, DecideTasks, Drive, Save

LEMMA KeyFacts ==
  /\ \A n \in Names : <<"custom", n>> \in Keys /\ Shipped(n) \in Keys
  /\ \A k \in Keys : \E n \in Names : k = <<"custom", n>> \/ k = Shipped(n)
  /\ \A m, n \in Names : /\ <<"custom", m>> # Shipped(n)
                         /\ <<"custom", m>> = <<"custom", n>> => m = n
                         /\ Shipped(m) = Shipped(n) => m = n
BY DEF Keys, Packs, Shipped

LEMMA AuthoringTyped ==
  ASSUME Typed, Authoring
  PROVE  Typed'
<1>0. /\ table \in [Keys -> Rows] /\ files \in [Names -> Drafts \cup {NoDef}]
      /\ ghost \in Ghosts
  BY DEF Typed
<1>1. table' \in [Keys -> Rows]
  <2>1. CASE Seed
    <3>1. \A k \in Keys : k[2] \in Names
      BY DEF Keys
    <3>2. ASSUME NEW k \in Keys PROVE table'[k] \in Rows
      BY <1>0, <2>1, <3>1, KeyFacts DEF Seed, Seeded, Rows
    <3> QED  BY <2>1, <3>2 DEF Seed
  <2>2. ASSUME NEW n \in Names, Deploy(n) PROVE table' \in [Keys -> Rows]
    BY <1>0, <2>2 DEF Deploy
  <2>3. ASSUME NEW n \in Names, NEW pack \in Packs, NEW d \in Drafts, CreateDefinition(pack, n, d)
        PROVE  table' \in [Keys -> Rows]
    <3>1. [def |-> d, source |-> "user"] \in Rows
      BY DEF Rows
    <3> QED  BY <1>0, <2>3, <3>1 DEF CreateDefinition
  <2>4. ASSUME NEW n \in Names, NEW pack \in Packs, NEW d \in Drafts, UpdateDefinition(pack, n, d)
        PROVE  table' \in [Keys -> Rows]
    <3>1. \A k \in Keys : [table[k] EXCEPT !.def = d] \in Rows
      BY <1>0 DEF Rows
    <3> QED  BY <1>0, <2>4, <3>1, KeyFacts DEF UpdateDefinition, Target
  <2>5. ASSUME NEW n \in Names, DeleteDefinition(n) PROVE table' \in [Keys -> Rows]
    <3>1. NoRow \in Rows
      BY DEF NoRow, Rows
    <3> QED  BY <1>0, <2>5, <3>1 DEF DeleteDefinition
  <2> QED  BY <2>1, <2>2, <2>3, <2>4, <2>5 DEF Authoring
<1>2. files' \in [Names -> Drafts \cup {NoDef}]
  BY <1>0 DEF Authoring, Seed, Deploy, CreateDefinition, UpdateDefinition, DeleteDefinition
<1>3. ghost' \in Ghosts
  <2>1. CASE Seed \/ \E n \in Names : Deploy(n)
    <3>1. PICK b \in BOOLEAN : ghost' = [ghost EXCEPT !.fresh = b]
      BY <2>1 DEF Seed, Deploy
    <3> QED  BY <1>0, <3>1 DEF Ghosts
  <2>2. CASE ~(Seed \/ \E n \in Names : Deploy(n))
    <3>1. ghost' = ghost
      BY <2>2 DEF Authoring, CreateDefinition, UpdateDefinition, DeleteDefinition
    <3> QED  BY <1>0, <3>1
  <2> QED  BY <2>1, <2>2
<1>4. QED  BY <1>1, <1>2, <1>3, AuthoringFrame DEF Typed

LEMMA AuthoringRegistry ==
  ASSUME Typed, Registry, Authoring
  PROVE  Registry'
<1>0. /\ table \in [Keys -> [def : Drafts \cup {NoDef}, source : {"none", "seed", "user"}]]
      /\ files \in [Names -> Drafts \cup {NoDef}]
      /\ ghost \in [fresh : BOOLEAN, used : SUBSET Drafts, granted : SUBSET StepIds,
                    called : Seq(STRING), broken : BOOLEAN]
  BY DEF Typed, Rows, Ghosts
<1>1. CASE Seed
  <2>1. /\ \A n \in Names : table'[<<"custom", n>>] = table[<<"custom", n>>]
        /\ \A n \in Names : files[n] # NoDef => table'[Shipped(n)].def = files[n]
        /\ \A n \in Names : files[n] = NoDef => table'[Shipped(n)] = table[Shipped(n)]
    BY <1>1, KeyFacts DEF Seed, Seeded, Shipped
  <2>2. files' = files
    BY <1>1 DEF Seed
  <2>3. \A n \in Names : files[n] # NoDef => Valid(files[n])
    BY <1>1 DEF Seed, PackLoads
  <2>4. \A k \in Keys : table'[k].def # NoDef => Valid(table'[k].def)
    BY <2>1, <2>3, KeyFacts DEF Registry
  <2> QED  BY <2>1, <2>2, <2>4 DEF Registry, Shipped
<1>2. ASSUME NEW n \in Names, Deploy(n)
      PROVE  Registry'
  BY <1>0, <1>2 DEF Deploy, Registry
<1>3. ASSUME NEW n \in Names, NEW pack \in Packs, NEW d \in Drafts,
             CreateDefinition(pack, n, d) \/ UpdateDefinition(pack, n, d)
      PROVE  Registry'
  <2>1. table[<<"custom", n>>].source # "seed"
    BY DEF Registry
  <2>2. Valid(d) /\ files' = files /\ ghost' = ghost
    BY <1>3 DEF CreateDefinition, UpdateDefinition
  <2>3. /\ table'[<<"custom", n>>].def = d /\ table'[<<"custom", n>>].source = "user"
        /\ \A k \in Keys : k # <<"custom", n>> => table'[k] = table[k]
    <3>1. CASE CreateDefinition(pack, n, d)
      BY <1>0, <2>1, <3>1, KeyFacts DEF CreateDefinition, Target
    <3>2. CASE UpdateDefinition(pack, n, d)
      <4> DEFINE row == [table[<<"custom", n>>] EXCEPT !.def = d]
      <4>1. <<"custom", n>> \in Keys
        BY KeyFacts
      <4>2. table[<<"custom", n>>] \in [def : Drafts \cup {NoDef}, source : {"none", "seed", "user"}]
        BY <1>0, <4>1
      <4>3. row.def = d /\ row.source = "user"
        BY <3>2, <4>2 DEF UpdateDefinition, Target
      <4>4. table' = [table EXCEPT ![<<"custom", n>>] = row]
        BY <3>2 DEF UpdateDefinition, Target
      <4> HIDE DEF row
      <4> QED  BY <1>0, <4>1, <4>3, <4>4
    <3> QED  BY <1>3, <3>1, <3>2
  <2>4. /\ \A k \in Keys : table'[k].def # NoDef => Valid(table'[k].def)
        /\ \A m \in Names : table'[Shipped(m)] = table[Shipped(m)]
        /\ \A m \in Names : m # n => table'[<<"custom", m>>] = table[<<"custom", m>>]
    BY <2>2, <2>3, KeyFacts DEF Registry
  <2> QED  BY <2>2, <2>3, <2>4 DEF Registry, Shipped
<1>4. ASSUME NEW n \in Names, DeleteDefinition(n)
      PROVE  Registry'
  <2>2. files' = files /\ ghost' = ghost
    BY <1>4 DEF DeleteDefinition
  <2>3. /\ table'[<<"custom", n>>].def = NoDef /\ table'[<<"custom", n>>].source = "none"
        /\ \A k \in Keys : k # <<"custom", n>> => table'[k] = table[k]
    BY <1>0, <1>4, KeyFacts DEF DeleteDefinition, Target, NoRow
  <2>4. /\ \A k \in Keys : table'[k].def # NoDef => Valid(table'[k].def)
        /\ \A m \in Names : table'[Shipped(m)] = table[Shipped(m)]
        /\ \A m \in Names : m # n => table'[<<"custom", m>>] = table[<<"custom", m>>]
    BY <2>2, <2>3, KeyFacts DEF Registry
  <2> QED  BY <2>2, <2>3, <2>4 DEF Registry, Shipped
<1>5. QED  BY <1>1, <1>2, <1>3, <1>4 DEF Authoring

-----------------------------------------------------------------------------
(* A run is driven with a definition that is stored, or on disk, and valid. *)
LEMMA LoadedIsValid ==
  ASSUME Typed, Registry, NEW k \in Keys, Load(k) # NoDef
  PROVE  Load(k) \in Drafts /\ Valid(Load(k))
<1>1. CASE table[k] # NoRow
  BY <1>1 DEF Load, Typed, Rows, Registry
<1>2. CASE table[k] = NoRow
  <2>1. k[2] \in Names
    BY DEF Keys
  <2>2. PackLoads /\ Load(k) = files[k[2]]
    BY <1>2 DEF Load
  <2> QED  BY <2>1, <2>2 DEF PackLoads, Typed
<1>3. QED  BY <1>1, <1>2

Outcomes == [ctx : Contexts, called : Seq(STRING),
             status : {"completed", "paused", "failed"}, at : StepIds]

(* What a drive of the run does, from EngineRun. *)
DriveEffect(e, a) ==
  /\ a \subseteq ghost.granted
  /\ h' = [h EXCEPT !.pc = "save", !.ctx = e.ctx, !.outcome = e.status, !.cur = e.at,
                    !.called = e.called]
  /\ ghost' = [ghost EXCEPT !.used = @ \cup {h.def}, !.called = @ \o e.called,
                            !.broken = @ \/ e.status = "failed"]
  /\ run' = run /\ inbox' = inbox
  /\ \A k \in DOMAIN run.ctx : k \in DOMAIN e.ctx /\ e.ctx[k] = run.ctx[k]
  /\ e.status = "completed" =>
       \A i \in Positions(h.def) : Key(h.def.steps[i]) \in DOMAIN e.ctx
  /\ NewOutputs(h.def, run.ctx, a, e, Len(h.def.steps))
  /\ CallsBehindGates(h.def, run.ctx, e, Len(h.def.steps))
  /\ NoneTwice(e.called)
  /\ Coherent({h.def}) /\ Mirrors(h.def, run.ctx) =>
       /\ Mirrors(h.def, e.ctx)
       /\ CalledWhenOn(h.def, e.called)
       /\ OnIsCalled(h.def, DOMAIN e.ctx \ DOMAIN run.ctx, e.called)

LEMMA DriveStep ==
  ASSUME Typed, Phases, Drive
  PROVE  \E e \in Outcomes : \E a \in SUBSET StepIds : DriveEffect(e, a)
<1> DEFINE a == IF h.kind = "approve" THEN {h.cur} ELSE {}
           e == RunEngine(h.def, run.ctx, a)
<1>1. /\ h.pc = "drive" /\ h.ctx = run.ctx /\ h.def \in Drafts /\ Valid(h.def)
      /\ run.ctx \in Contexts /\ h.cur \in StepIds
  BY DEF Drive, Phases, Typed, Runs, Handlers
<1>2. h.def.steps \in Seq(StepDef)
  BY <1>1
<1>3. a \subseteq ghost.granted /\ a \in SUBSET StepIds
  BY <1>1 DEF Phases
<1>4. /\ h' = [h EXCEPT !.pc = "save", !.ctx = e.ctx, !.outcome = e.status, !.cur = e.at,
                        !.called = e.called]
      /\ ghost' = [ghost EXCEPT !.used = @ \cup {h.def}, !.called = @ \o e.called,
                                !.broken = @ \/ e.status = "failed"]
      /\ run' = run /\ inbox' = inbox
  BY <1>1 DEF Drive
<1> HIDE DEF a
<1>5. /\ e \in [ctx : Contexts, called : Seq(STRING),
                status : {"completed", "paused", "failed"}, at : STRING \cup {NoKey}]
      /\ \A k \in DOMAIN run.ctx : k \in DOMAIN e.ctx /\ e.ctx[k] = run.ctx[k]
      /\ e.status = "completed" => \A i \in Positions(h.def) : Key(h.def.steps[i]) \in DOMAIN e.ctx
      /\ NewOutputs(h.def, run.ctx, a, e, Len(h.def.steps))
      /\ CallsBehindGates(h.def, run.ctx, e, Len(h.def.steps))
      /\ Valid(h.def) => NoneTwice(e.called)
      /\ Coherent({h.def}) /\ Mirrors(h.def, run.ctx) =>
           /\ Mirrors(h.def, e.ctx)
           /\ CalledWhenOn(h.def, e.called)
           /\ OnIsCalled(h.def, DOMAIN e.ctx \ DOMAIN run.ctx, e.called)
  BY <1>1, <1>2, EngineRun
<1> HIDE DEF e
<1>6. e \in Outcomes
  BY <1>5 DEF Outcomes, StepIds
<1>7. DriveEffect(e, a)
  BY <1>1, <1>3, <1>4, <1>5 DEF DriveEffect
<1>8. QED  BY <1>3, <1>6, <1>7

LEMMA RunningTyped ==
  ASSUME Typed, Registry, Phases, Running
  PROVE  Typed'
<1>0. run \in Runs /\ h \in Handlers /\ ghost \in Ghosts
  BY DEF Typed
<1>i. EmptyContext \in Contexts /\ NoKey \in StepIds /\ <<>> \in Seq(STRING)
  BY EmptyIsContext, EmptySeq DEF StepIds
<1>1. ASSUME NEW k \in Keys, StartRun(k)
      PROVE  run' \in Runs /\ h' \in Handlers /\ ghost' \in Ghosts
  <2>1. Load(k) \in Drafts
    BY <1>1, LoadedIsValid DEF StartRun
  <2>2. run' \in Runs
    BY <1>1, <1>i DEF StartRun, NoRun, Runs
  <2>3. h' \in Handlers
    BY <1>1, <1>i, <2>1 DEF StartRun, Idle, Handlers
  <2> QED  BY <1>0, <1>1, <2>2, <2>3 DEF StartRun
<1>2. ASSUME NEW kind \in {"approve", "reject"}, ReadRun(kind)
      PROVE  run' \in Runs /\ h' \in Handlers /\ ghost' \in Ghosts
  <2>1. h' \in Handlers
    BY <1>0, <1>2, <1>i DEF ReadRun, Idle, Handlers, Runs
  <2> QED  BY <1>0, <1>2, <2>1 DEF ReadRun
<1>3. ASSUME LoadAgain PROVE run' \in Runs /\ h' \in Handlers /\ ghost' \in Ghosts
  <2>1. run.key \in Keys
    BY <1>3 DEF LoadAgain, Phases
  <2>2. Load(run.key) # NoDef => Load(run.key) \in Drafts
    BY <2>1, LoadedIsValid
  <2>3. Idle \in Handlers
    BY <1>i DEF Idle, Handlers
  <2>4. h' \in Handlers
    BY <1>0, <1>3, <2>2, <2>3 DEF LoadAgain, Handlers
  <2>5. run' = run /\ ghost' = ghost
    BY <1>3 DEF LoadAgain
  <2> QED  BY <1>0, <2>4, <2>5
<1>4. ASSUME DecideTasks PROVE run' \in Runs /\ h' \in Handlers /\ ghost' \in Ghosts
  <2>1. h' \in Handlers
    BY <1>0, <1>4 DEF DecideTasks, Handlers
  <2>2. ghost' \in Ghosts
    BY <1>0, <1>4 DEF DecideTasks, Handlers, Ghosts
  <2>3. run' = run
    BY <1>4 DEF DecideTasks
  <2> QED  BY <1>0, <2>1, <2>2, <2>3
<1>5. ASSUME Drive PROVE run' \in Runs /\ h' \in Handlers /\ ghost' \in Ghosts
  <2>1. PICK e \in Outcomes, a \in SUBSET StepIds : DriveEffect(e, a)
    BY <1>5, DriveStep
  <2>2. h' \in Handlers
    BY <1>0, <2>1 DEF DriveEffect, Handlers, Outcomes
  <2>3. h.def \in Drafts /\ ghost.called \o e.called \in Seq(STRING)
    BY <1>0, <1>5, ConcatProperties DEF Drive, Phases, Ghosts, Outcomes
  <2>4. (ghost.broken \/ e.status = "failed") \in BOOLEAN
    BY <1>0 DEF Ghosts
  <2>5. ghost' \in Ghosts
    BY <1>0, <2>1, <2>3, <2>4 DEF DriveEffect, Ghosts
  <2>6. run' = run
    BY <2>1 DEF DriveEffect
  <2> QED  BY <1>0, <2>2, <2>5, <2>6
<1>6. ASSUME Save PROVE run' \in Runs /\ h' \in Handlers /\ ghost' \in Ghosts
  <2>1. h' \in Handlers
    BY <1>6, <1>i DEF Save, Idle, Handlers
  <2>2. run' \in Runs
    BY <1>0, <1>6 DEF Save, Runs, Handlers
  <2>3. ghost' = ghost
    BY <1>6 DEF Save
  <2> QED  BY <1>0, <2>1, <2>2, <2>3
<1>7. run' \in Runs /\ h' \in Handlers /\ ghost' \in Ghosts
  BY <1>1, <1>2, <1>3, <1>4, <1>5, <1>6 DEF Running
<1>8. QED  BY <1>7, RunningFrame DEF Typed

LEMMA RunningPhases ==
  ASSUME Typed, Registry, Phases, Running
  PROVE  Phases'
<1>0. run \in Runs /\ h \in Handlers /\ ghost \in Ghosts
  BY DEF Typed
<1>1. ASSUME NEW k \in Keys, StartRun(k)
      PROVE  Phases'
  <2>1. Load(k) \in Drafts /\ Valid(Load(k))
    BY <1>1, LoadedIsValid DEF StartRun
  <2>2. /\ run'.status = "running" /\ run'.key = k /\ run'.ctx = EmptyContext
        /\ h'.pc = "drive" /\ h'.kind = "start" /\ h'.ctx = EmptyContext
        /\ h'.called = <<>> /\ h'.outcome = "none" /\ h'.def = Load(k)
    BY <1>1 DEF StartRun, NoRun, Idle
  <2> QED  BY <2>1, <2>2 DEF Phases
<1>2. ASSUME NEW kind \in {"approve", "reject"}, ReadRun(kind)
      PROVE  Phases'
  <2>1. /\ h'.pc = "load" /\ h'.ctx = run.ctx /\ h'.cur = run.cur
        /\ h'.called = <<>> /\ h'.outcome = "none"
        /\ run' = run /\ run.status = "awaiting_approval"
    BY <1>2 DEF ReadRun, Idle
  <2> QED  BY <2>1 DEF Phases
<1>3. CASE LoadAgain
  <2>1. run.key \in Keys /\ run' = run /\ ghost' = ghost /\ h.pc = "load"
    BY <1>3 DEF LoadAgain, Phases
  <2>2. CASE Load(run.key) = NoDef
    <3>1. h' = Idle
      BY <1>3, <2>2 DEF LoadAgain
    <3> QED  BY <2>1, <3>1 DEF Phases, Idle
  <2>3. CASE Load(run.key) # NoDef
    <3>1. Load(run.key) \in Drafts /\ Valid(Load(run.key))
      BY <2>1, <2>3, LoadedIsValid
    <3>2. /\ h'.pc = "decide" /\ h'.def = Load(run.key) /\ h'.ctx = h.ctx /\ h'.cur = h.cur
          /\ h'.called = h.called /\ h'.outcome = h.outcome
      BY <1>0, <1>3, <2>3 DEF LoadAgain, Handlers
    <3> QED  BY <2>1, <3>1, <3>2 DEF Phases
  <2> QED  BY <2>2, <2>3
<1>4. CASE DecideTasks
  <2>1. /\ run' = run /\ h.pc = "decide"
        /\ h'.ctx = h.ctx /\ h'.cur = h.cur /\ h'.called = h.called /\ h'.def = h.def
        /\ h'.kind = h.kind
    BY <1>0, <1>4 DEF DecideTasks, Handlers
  <2>2. \/ /\ h'.pc = "drive" /\ h'.outcome = h.outcome
           /\ h.cur \in ghost'.granted
        \/ h'.pc = "save" /\ h'.outcome = "rejected"
    <3>1. CASE h.kind = "approve"
      <4>1. h'.pc = "drive" /\ h'.outcome = h.outcome
        BY <1>0, <1>4, <3>1 DEF DecideTasks, Handlers
      <4>2. ghost'.granted = ghost.granted \cup {h.cur}
        BY <1>0, <1>4, <3>1 DEF DecideTasks, Ghosts
      <4> QED  BY <4>1, <4>2
    <3>2. CASE h.kind # "approve"
      BY <1>0, <1>4, <3>2 DEF DecideTasks, Handlers
    <3> QED  BY <3>1, <3>2
  <2> QED  BY <2>1, <2>2 DEF Phases
<1>5. CASE Drive
  <2>1. PICK e \in Outcomes, a \in SUBSET StepIds : DriveEffect(e, a)
    BY <1>5, DriveStep
  <2>2. /\ h'.pc = "save" /\ h'.outcome = e.status /\ run' = run /\ h.pc = "drive"
        /\ e.status # "rejected"
        /\ e.status = "failed" => ghost'.broken
    BY <1>0, <1>5, <2>1 DEF Drive, DriveEffect, Handlers, Ghosts, Outcomes
  <2> QED  BY <2>2 DEF Phases
<1>6. CASE Save
  <2>1. /\ h'.pc = "idle" /\ h'.ctx = EmptyContext /\ h.pc = "save"
    BY <1>6 DEF Save, Idle
  <2>2. run'.key = run.key /\ run'.status # "none"
    BY <1>0, <1>6 DEF Save, Runs, Phases
  <2> QED  BY <2>1, <2>2 DEF Phases
<1>7. QED  BY <1>1, <1>2, <1>3, <1>4, <1>5, <1>6 DEF Running

LEMMA RunningTaskKept ==
  ASSUME Typed, Phases, TaskKept, Running
  PROVE  TaskKept'
<1>0. run \in Runs /\ h \in Handlers /\ ghost \in Ghosts
  BY DEF Typed
<1>1. ASSUME NEW k \in Keys, StartRun(k)
      PROVE  TaskKept'
  BY <1>1 DEF StartRun, NoRun, Idle, TaskKept
<1>2. ASSUME NEW kind \in {"approve", "reject"}, ReadRun(kind)
      PROVE  TaskKept'
  BY <1>2 DEF ReadRun, Idle, TaskKept
<1>3. CASE LoadAgain
  BY <1>0, <1>3 DEF LoadAgain, Idle, TaskKept
<1>4. CASE DecideTasks
  <2>1. h'.pc \in {"drive", "save"}
    BY <1>0, <1>4 DEF DecideTasks, Handlers
  <2> QED  BY <2>1 DEF TaskKept
<1>5. CASE Drive
  <2>1. h'.pc = "save"
    BY <1>0, <1>5 DEF Drive, Handlers
  <2> QED  BY <2>1 DEF TaskKept
<1>6. CASE Save
  <2>1. CASE h.outcome = "failed"
    <3>1. ghost.broken /\ ghost' = ghost
      BY <1>6, <2>1 DEF Save, Phases
    <3> QED  BY <3>1 DEF TaskKept
  <2>2. CASE h.outcome = "paused"
    <3>1. run'.cur = h.cur /\ inbox' = inbox \cup {h.cur}
      BY <1>0, <1>6, <2>2 DEF Save, Runs
    <3> QED  BY <3>1 DEF TaskKept
  <2>3. CASE h.outcome \in {"completed", "rejected"}
    <3>1. run'.status # "awaiting_approval"
      BY <1>0, <1>6, <2>3 DEF Save, Runs
    <3> QED  BY <3>1 DEF TaskKept
  <2> QED  BY <1>6, <2>1, <2>2, <2>3 DEF Save
<1>7. QED  BY <1>1, <1>2, <1>3, <1>4, <1>5, <1>6 DEF Running

-----------------------------------------------------------------------------
(* The part of the invariant that looks at no output. *)
Basic == Typed /\ Registry /\ Phases /\ TaskKept

LEMMA BasicInit == Init => Basic
<1> SUFFICES ASSUME Init PROVE Basic
  OBVIOUS
<1>i. EmptyContext \in Contexts /\ NoKey \in StepIds /\ <<>> \in Seq(STRING)
  BY EmptyIsContext, EmptySeq DEF StepIds
<1>1. Typed
  <2>1. files \in [Names -> Drafts \cup {NoDef}]
    BY DEF Init
  <2>2. table \in [Keys -> Rows]
    BY DEF Init, NoRow, Rows
  <2>3. run \in Runs
    BY <1>i DEF Init, NoRun, Runs
  <2>4. h \in Handlers
    BY <1>i DEF Init, Idle, Handlers
  <2>5. ghost \in Ghosts
    BY <1>i DEF Init, Ghosts
  <2> QED  BY <2>1, <2>2, <2>3, <2>4, <2>5 DEF Typed
<1>2. Registry
  <2>1. \A k \in Keys : table[k].def = NoDef /\ table[k].source = "none"
    BY DEF Init, NoRow
  <2>2. ghost.fresh = FALSE
    BY DEF Init
  <2> QED  BY <2>1, <2>2, KeyFacts DEF Registry
<1>3. Phases /\ TaskKept
  BY DEF Init, Phases, TaskKept, NoRun, Idle
<1> QED  BY <1>1, <1>2, <1>3 DEF Basic

LEMMA BasicNext ==
  ASSUME Basic, [Next]_vars
  PROVE  Basic'
<1>0. Typed /\ Registry /\ Phases /\ TaskKept
  BY DEF Basic
<1>1. CASE Authoring
  <2>1. Typed' /\ Registry'
    BY <1>0, <1>1, AuthoringTyped, AuthoringRegistry
  <2>2. /\ run' = run /\ inbox' = inbox /\ h' = h
        /\ ghost'.used = ghost.used /\ ghost'.granted = ghost.granted
        /\ ghost'.called = ghost.called /\ ghost'.broken = ghost.broken
    BY <1>0, <1>1, AuthoringFrame
  <2>3. Phases' /\ TaskKept'
    BY <1>0, <2>2 DEF Phases, TaskKept
  <2> QED  BY <2>1, <2>3 DEF Basic
<1>2. CASE Running
  <2>1. Typed' /\ Phases' /\ TaskKept'
    BY <1>0, <1>2, RunningTyped, RunningPhases, RunningTaskKept
  <2>2. /\ files' = files /\ table' = table
        /\ ghost'.fresh = ghost.fresh
    BY <1>0, <1>2, RunningFrame
  <2>3. Registry'
    BY <1>0, <2>2 DEF Registry
  <2> QED  BY <2>1, <2>3 DEF Basic
<1>3. CASE UNCHANGED vars
  BY <1>3 DEF vars, Basic, Typed, Registry, Phases, TaskKept
<1>4. QED  BY <1>1, <1>2, <1>3 DEF Next

THEOREM BasicInvariant == Spec => []Basic
<1>1. Init => Basic
  BY BasicInit
<1>2. Basic /\ [Next]_vars => Basic'
  BY BasicNext
<1>3. QED  BY <1>1, <1>2, PTL DEF Spec

(* From a seeding to the next release, a workflow runs as it is listed. *)
THEOREM AlwaysRunsAsListed == Spec => []RunsAsListed
<1>1. Basic => RunsAsListed
  <2>1. SUFFICES ASSUME Basic, ghost.fresh, NEW k \in Keys, Listed(k) # NoDef
                 PROVE  Load(k) = Listed(k)
    BY DEF RunsAsListed
  <2>2. PackLoads
    BY <2>1 DEF Listed
  <2>3. CASE k[1] = "shipped"
    <3>1. PICK n \in Names : k = Shipped(n)
      BY <2>3, KeyFacts DEF Shipped
    <3>2. k[2] = n /\ Listed(k) = files[n]
      BY <2>2, <2>3, <3>1 DEF Listed, Shipped
    <3>3. table[k].def = files[n] /\ table[k] # NoRow
      BY <2>1, <3>1, <3>2 DEF Basic, Registry, NoRow
    <3> QED  BY <3>2, <3>3 DEF Load
  <2>4. CASE k[1] # "shipped"
    <3>1. k[1] = "custom"
      BY <2>4 DEF Keys, Packs
    <3>2. Listed(k) = table[k].def /\ table[k].source = "user"
      BY <2>1, <2>2, <2>4, <3>1 DEF Listed
    <3>3. table[k] # NoRow
      BY <3>2 DEF NoRow
    <3> QED  BY <3>2, <3>3 DEF Load
  <2> QED  BY <2>3, <2>4
<1>2. QED  BY <1>1, BasicInvariant, PTL

(* A waiting run keeps its task through every decision that is not carried out. *)
THEOREM WaitingAlwaysHasTask == Spec => []WaitingRunHasTask
<1>1. Basic => WaitingRunHasTask
  BY DEF Basic, TaskKept, WaitingRunHasTask
<1>2. QED  BY <1>1, BasicInvariant, PTL

-----------------------------------------------------------------------------
(***************************************************************************)
(* The outputs and the calls of the run: c is a context, used, granted and   *)
(* called are what the history has of them.                                 *)
(***************************************************************************)

(* An output is that of a step of a definition the run was driven with, and that
   of an approval only with the decision or because it was skipped. *)
Backed(c, used, granted) ==
  \A k \in DOMAIN c : \E d \in used : \E i \in Positions(d) :
    /\ Key(d.steps[i]) = k
    /\ d.steps[i].type = "approval" => d.steps[i].id \in granted \/ c[k] = "skipped"

(* A run that only ever saw one definition has the outputs and made the calls
   that this definition asks for. *)
Faithful(c, used, called) ==
  \A d \in Drafts : used \subseteq {d} /\ Coherent({d}) =>
    /\ Mirrors(d, c)
    /\ CalledWhenOn(d, called)
    /\ OnIsCalled(d, DOMAIN c, called)

Ended(c, used) ==
  \A d \in used : used = {d} => \A i \in Positions(d) : Key(d.steps[i]) \in DOMAIN c

(* A call was made when all steps in front of it had an output. *)
InFront(d, called, c) ==
  \A b \in 1 .. Len(called) : \E m \in Positions(d) :
    /\ d.steps[m].id = called[b]
    /\ \A j \in 1 .. m - 1 : Key(d.steps[j]) \in DOMAIN c

(* A call has left an output. *)
Traced(called, used, c) ==
  \A b \in 1 .. Len(called) : \E d \in used : \E i \in Positions(d) :
    d.steps[i].id = called[b] /\ Key(d.steps[i]) \in DOMAIN c

Life ==
  /\ \A d \in ghost.used : Valid(d)
  /\ \A c \in {run.ctx, h.ctx} :
       Backed(c, ghost.used, ghost.granted) /\ Faithful(c, ghost.used, ghost.called)
  /\ run.status = "completed" => Ended(run.ctx, ghost.used)
  /\ h.pc = "save" /\ h.outcome = "completed" => Ended(h.ctx, ghost.used)
  /\ h.pc = "save" /\ h.called # <<>> => h.def \in ghost.used
  /\ h.pc = "save" => InFront(h.def, h.called, h.ctx)

(* The context the run would go on with. *)
Current == IF h.pc = "save" THEN h.ctx ELSE run.ctx

(* An error loses outputs of calls that were made. *)
Calling ==
  ~ghost.broken =>
    /\ Traced(ghost.called, ghost.used, Current)
    /\ KeysKept(ghost.used) => NoneTwice(ghost.called)

LEMMA BackedGrows ==
  ASSUME NEW c, NEW u, NEW v, u \subseteq v, NEW g, NEW f, g \subseteq f, Backed(c, u, g)
  PROVE  Backed(c, v, f)
<1> SUFFICES ASSUME NEW k \in DOMAIN c
             PROVE  \E d \in v : \E i \in Positions(d) :
                      /\ Key(d.steps[i]) = k
                      /\ d.steps[i].type = "approval" =>
                           d.steps[i].id \in f \/ c[k] = "skipped"
  BY DEF Backed
<1>1. PICK d \in u : \E i \in Positions(d) :
                      /\ Key(d.steps[i]) = k
                      /\ d.steps[i].type = "approval" =>
                           d.steps[i].id \in g \/ c[k] = "skipped"
  BY DEF Backed
<1>2. d \in v
  OBVIOUS
<1>3. QED  BY <1>1, <1>2

LEMMA NothingYet ==
  ASSUME NEW c, NEW used, NEW granted, NEW called, Faithful(c, used, called)
  PROVE  Backed(EmptyContext, used, granted) /\ Faithful(EmptyContext, used, called)
BY EmptyIsContext DEF Backed, Faithful, Mirrors, OnIsCalled

(* The elements of a concatenation. *)
LEMMA Joined ==
  ASSUME NEW S, NEW s \in Seq(S), NEW t \in Seq(S)
  PROVE  /\ s \o t \in Seq(S)
         /\ Len(s \o t) = Len(s) + Len(t)
         /\ Len(s) \in Nat /\ Len(t) \in Nat
         /\ \A b \in 1 .. Len(s) : (s \o t)[b] = s[b]
         /\ \A b \in 1 .. Len(t) : (s \o t)[Len(s) + b] = t[b]
         /\ \A b \in 1 .. Len(s \o t) :
              \/ b \in 1 .. Len(s)
              \/ b - Len(s) \in 1 .. Len(t) /\ (s \o t)[b] = t[b - Len(s)]
<1>1. /\ s \o t \in Seq(S) /\ Len(s \o t) = Len(s) + Len(t)
      /\ \A b \in 1 .. Len(s) + Len(t) :
           (s \o t)[b] = IF b <= Len(s) THEN s[b] ELSE t[b - Len(s)]
  BY ConcatProperties
<1>2. Len(s) \in Nat /\ Len(t) \in Nat
  BY LenProperties
<1>3. \A b \in 1 .. Len(s) : (s \o t)[b] = s[b]
  BY <1>1, <1>2
<1>4. ASSUME NEW b \in 1 .. Len(t) PROVE (s \o t)[Len(s) + b] = t[b]
  <2>1. Len(s) + b \in 1 .. Len(s) + Len(t) /\ ~(Len(s) + b <= Len(s)) /\ (Len(s) + b) - Len(s) = b
    BY <1>2
  <2> QED  BY <1>1, <2>1
<1>5. ASSUME NEW b \in 1 .. Len(s \o t), b \notin 1 .. Len(s)
      PROVE  b - Len(s) \in 1 .. Len(t) /\ (s \o t)[b] = t[b - Len(s)]
  BY <1>1, <1>2, <1>5
<1>6. QED  BY <1>1, <1>2, <1>3, <1>4, <1>5

LEMMA CalledInBoth ==
  ASSUME NEW s \in Seq(STRING), NEW t \in Seq(STRING), NEW id,
         CalledWith(s, id) \/ CalledWith(t, id)
  PROVE  CalledWith(s \o t, id)
<1>1. CASE CalledWith(s, id)
  <2>1. PICK b \in 1 .. Len(s) : s[b] = id
    BY <1>1 DEF CalledWith
  <2>2. b \in 1 .. Len(s \o t) /\ (s \o t)[b] = id
    BY <2>1, Joined
  <2> QED  BY <2>2 DEF CalledWith
<1>2. CASE CalledWith(t, id)
  <2>1. PICK b \in 1 .. Len(t) : t[b] = id
    BY <1>2 DEF CalledWith
  <2>2. Len(s) + b \in 1 .. Len(s \o t) /\ (s \o t)[Len(s) + b] = id
    BY <2>1, Joined
  <2> QED  BY <2>2 DEF CalledWith
<1>3. QED  BY <1>1, <1>2

-----------------------------------------------------------------------------
(* A drive of the run leaves outputs that are backed ... *)
LEMMA DriveBacked ==
  ASSUME NEW d, NEW used, NEW granted, NEW c, NEW a, a \subseteq granted, NEW e,
         Backed(c, used, granted),
         \A k \in DOMAIN c : k \in DOMAIN e.ctx /\ e.ctx[k] = c[k],
         NewOutputs(d, c, a, e, Len(d.steps))
  PROVE  Backed(e.ctx, used \cup {d}, granted)
<1> SUFFICES ASSUME NEW k \in DOMAIN e.ctx
             PROVE  \E f \in used \cup {d} : \E i \in Positions(f) :
                      /\ Key(f.steps[i]) = k
                      /\ f.steps[i].type = "approval" =>
                           f.steps[i].id \in granted \/ e.ctx[k] = "skipped"
  BY DEF Backed
<1>1. CASE k \in DOMAIN c
  <2>1. PICK f \in used : \E i \in Positions(f) :
               /\ Key(f.steps[i]) = k
               /\ f.steps[i].type = "approval" =>
                    f.steps[i].id \in granted \/ c[k] = "skipped"
    BY <1>1 DEF Backed
  <2>2. c[k] = e.ctx[k] /\ f \in used \cup {d}
    BY <1>1
  <2> QED  BY <2>1, <2>2
<1>2. CASE k \notin DOMAIN c
  <2>1. PICK i \in 1 .. Len(d.steps) :
          /\ Key(d.steps[i]) = k
          /\ d.steps[i].type = "approval" => d.steps[i].id \in a \/ e.ctx[k] = "skipped"
    BY <1>2 DEF NewOutputs
  <2>2. i \in Positions(d) /\ d \in used \cup {d}
    BY DEF Positions
  <2> QED  BY <2>1, <2>2
<1>3. QED  BY <1>1, <1>2

(* ... and, with one definition all along, outputs and calls it asks for; the
   calls are remembered also when the outputs are not saved. *)
LEMMA DriveFaithful ==
  ASSUME NEW d, NEW used, NEW c, NEW called \in Seq(STRING), NEW e, e.called \in Seq(STRING),
         Faithful(c, used, called),
         Coherent({d}) /\ Mirrors(d, c) =>
           /\ Mirrors(d, e.ctx)
           /\ CalledWhenOn(d, e.called)
           /\ OnIsCalled(d, DOMAIN e.ctx \ DOMAIN c, e.called)
  PROVE  /\ Faithful(c, used \cup {d}, called \o e.called)
         /\ Faithful(e.ctx, used \cup {d}, called \o e.called)
<1>1. SUFFICES ASSUME d \in Drafts, used \subseteq {d}, Coherent({d})
               PROVE  /\ Mirrors(d, c) /\ Mirrors(d, e.ctx)
                      /\ CalledWhenOn(d, called \o e.called)
                      /\ OnIsCalled(d, DOMAIN c, called \o e.called)
                      /\ OnIsCalled(d, DOMAIN e.ctx, called \o e.called)
  BY DEF Faithful
<1>2. /\ Mirrors(d, c) /\ CalledWhenOn(d, called) /\ OnIsCalled(d, DOMAIN c, called)
      /\ Mirrors(d, e.ctx) /\ CalledWhenOn(d, e.called)
      /\ OnIsCalled(d, DOMAIN e.ctx \ DOMAIN c, e.called)
  BY <1>1 DEF Faithful
<1>3. CalledWhenOn(d, called \o e.called)
  <2>1. SUFFICES ASSUME NEW b \in 1 .. Len(called \o e.called)
                 PROVE  \E m \in Positions(d) :
                          d.steps[m].id = (called \o e.called)[b] /\ ~GuardedOff(d, d.steps[m])
    BY DEF CalledWhenOn
  <2>2. CASE b \in 1 .. Len(called)
    <3>1. (called \o e.called)[b] = called[b]
      BY <2>2, Joined
    <3> QED  BY <1>2, <2>2, <3>1 DEF CalledWhenOn
  <2>3. CASE b \notin 1 .. Len(called)
    <3>1. b - Len(called) \in 1 .. Len(e.called)
      BY <2>3, Joined
    <3>2. (called \o e.called)[b] = e.called[b - Len(called)]
      BY <2>3, Joined
    <3> QED  BY <1>2, <3>1, <3>2 DEF CalledWhenOn
  <2> QED  BY <2>2, <2>3
<1>4. \A m \in Positions(d) :
        CalledWith(called, d.steps[m].id) \/ CalledWith(e.called, d.steps[m].id) =>
          CalledWith(called \o e.called, d.steps[m].id)
  BY CalledInBoth
<1>5. /\ OnIsCalled(d, DOMAIN c, called \o e.called)
      /\ OnIsCalled(d, DOMAIN e.ctx, called \o e.called)
  BY <1>2, <1>4 DEF OnIsCalled
<1>6. QED  BY <1>2, <1>3, <1>5

LEMMA DriveInFront ==
  ASSUME NEW d, NEW c, NEW e, CallsBehindGates(d, c, e, Len(d.steps))
  PROVE  InFront(d, e.called, e.ctx)
<1> SUFFICES ASSUME NEW b \in 1 .. Len(e.called)
             PROVE  \E m \in Positions(d) :
                      /\ d.steps[m].id = e.called[b]
                      /\ \A j \in 1 .. m - 1 : Key(d.steps[j]) \in DOMAIN e.ctx
  BY DEF InFront
<1>1. PICK m \in 1 .. Len(d.steps) :
        /\ d.steps[m].id = e.called[b]
        /\ \A j \in 1 .. m - 1 : Key(d.steps[j]) \in DOMAIN e.ctx
  BY DEF CallsBehindGates
<1>2. m \in Positions(d)
  BY DEF Positions
<1>3. QED  BY <1>1, <1>2

LEMMA LifeInit == Init => Life /\ Calling
<1> SUFFICES ASSUME Init PROVE Life /\ Calling
  OBVIOUS
<1>1. /\ run.ctx = EmptyContext /\ h.ctx = EmptyContext /\ run.status = "none" /\ h.pc = "idle"
      /\ ghost.used = {} /\ ghost.called = <<>>
  BY DEF Init, NoRun, Idle
<1>2. Len(ghost.called) = 0
  BY <1>1
<1>3. Faithful(EmptyContext, ghost.used, ghost.called)
  BY <1>2, EmptyIsContext DEF Faithful, Mirrors, CalledWhenOn, OnIsCalled
<1>4. Backed(EmptyContext, ghost.used, ghost.granted)
  BY <1>3, NothingYet
<1>5. Life
  BY <1>1, <1>3, <1>4 DEF Life
<1>6. Calling
  BY <1>2 DEF Calling, Traced, NoneTwice
<1>7. QED  BY <1>5, <1>6

LEMMA LifeDrive ==
  ASSUME Typed, Phases, Life, Drive
  PROVE  Life'
<1>1. PICK e \in Outcomes, a \in SUBSET StepIds : DriveEffect(e, a)
  BY DriveStep
<1>2. /\ h'.pc = "save" /\ h'.ctx = e.ctx /\ h'.outcome = e.status /\ h'.called = e.called
      /\ h'.def = h.def
      /\ run' = run
      /\ ghost'.used = ghost.used \cup {h.def} /\ ghost'.granted = ghost.granted
      /\ ghost'.called = ghost.called \o e.called
  BY <1>1 DEF DriveEffect, Typed, Handlers, Ghosts
<1>3. /\ h.pc = "drive" /\ Valid(h.def) /\ run.status # "completed"
      /\ ghost.called \in Seq(STRING) /\ e.called \in Seq(STRING)
  BY DEF Drive, Phases, Typed, Ghosts, Outcomes
<1>4. Backed(run.ctx, ghost.used, ghost.granted) /\ Faithful(run.ctx, ghost.used, ghost.called)
  BY DEF Life
<1>5. Backed(run.ctx, ghost.used \cup {h.def}, ghost.granted)
  BY <1>4, BackedGrows
<1>6. Backed(e.ctx, ghost.used \cup {h.def}, ghost.granted)
  BY <1>1, <1>4, DriveBacked DEF DriveEffect
<1>7. /\ Faithful(run.ctx, ghost.used \cup {h.def}, ghost.called \o e.called)
      /\ Faithful(e.ctx, ghost.used \cup {h.def}, ghost.called \o e.called)
  BY <1>1, <1>3, <1>4, DriveFaithful DEF DriveEffect
<1>8. e.status = "completed" => Ended(e.ctx, ghost.used \cup {h.def})
  BY <1>1 DEF DriveEffect, Ended
<1>9. InFront(h.def, e.called, e.ctx)
  BY <1>1, DriveInFront DEF DriveEffect
<1>10. \A d \in ghost.used \cup {h.def} : Valid(d)
  BY <1>3 DEF Life
<1>11. QED  BY <1>2, <1>3, <1>5, <1>6, <1>7, <1>8, <1>9, <1>10 DEF Life

LEMMA LifeRunning ==
  ASSUME Typed, Phases, Life, Running
  PROVE  Life'
<1>0. run \in Runs /\ h \in Handlers /\ ghost \in Ghosts
  BY DEF Typed
<1>c. /\ Backed(run.ctx, ghost.used, ghost.granted) /\ Faithful(run.ctx, ghost.used, ghost.called)
      /\ Backed(h.ctx, ghost.used, ghost.granted) /\ Faithful(h.ctx, ghost.used, ghost.called)
  BY DEF Life
<1>e. /\ Backed(EmptyContext, ghost.used, ghost.granted)
      /\ Faithful(EmptyContext, ghost.used, ghost.called)
  BY <1>c, NothingYet
<1>1. ASSUME NEW k \in Keys, StartRun(k)
      PROVE  Life'
  <2>1. /\ run'.ctx = EmptyContext /\ h'.ctx = EmptyContext
        /\ run'.status = "running" /\ h'.pc = "drive" /\ ghost' = ghost
    BY <1>1 DEF StartRun, NoRun, Idle
  <2> QED  BY <1>e, <2>1 DEF Life
<1>2. ASSUME NEW kind \in {"approve", "reject"}, ReadRun(kind)
      PROVE  Life'
  <2>1. run' = run /\ h'.ctx = run.ctx /\ h'.pc = "load" /\ ghost' = ghost
    BY <1>2 DEF ReadRun, Idle
  <2> QED  BY <1>c, <2>1 DEF Life
<1>3. CASE LoadAgain
  <2>1. /\ run' = run /\ ghost' = ghost /\ h'.pc \in {"idle", "decide"}
        /\ h'.ctx = h.ctx \/ h'.ctx = EmptyContext
    BY <1>0, <1>3 DEF LoadAgain, Idle, Handlers
  <2> QED  BY <1>c, <1>e, <2>1 DEF Life
<1>4. CASE DecideTasks
  <2>1. /\ run' = run /\ h.pc = "decide" /\ h'.ctx = h.ctx /\ h'.called = h.called /\ h'.def = h.def
        /\ \/ h'.pc = "drive"
           \/ h'.pc = "save" /\ h'.outcome = "rejected"
    <3>1. CASE h.kind = "approve"
      BY <1>0, <1>4, <3>1 DEF DecideTasks, Handlers
    <3>2. CASE h.kind # "approve"
      BY <1>0, <1>4, <3>2 DEF DecideTasks, Handlers
    <3> QED  BY <3>1, <3>2
  <2>2. /\ ghost'.used = ghost.used /\ ghost'.called = ghost.called
        /\ ghost.granted \subseteq ghost'.granted
    BY <1>0, <1>4 DEF DecideTasks, Ghosts
  <2>3. h.called = <<>>
    BY <2>1 DEF Phases
  <2>4. Backed(run.ctx, ghost'.used, ghost'.granted) /\ Backed(h.ctx, ghost'.used, ghost'.granted)
    BY <1>c, <2>2, BackedGrows
  <2>5. InFront(h.def, <<>>, h.ctx)
    <3>1. Len(<<>>) = 0
      OBVIOUS
    <3> QED  BY <3>1 DEF InFront
  <2> QED  BY <1>c, <2>1, <2>2, <2>3, <2>4, <2>5 DEF Life
<1>5. CASE Drive
  BY <1>5, LifeDrive
<1>6. CASE Save
  <2>1. h'.ctx = EmptyContext /\ h'.pc = "idle" /\ ghost' = ghost /\ h.pc = "save"
    BY <1>6 DEF Save, Idle
  <2>2. \/ h.outcome = "failed" /\ run' = run
        \/ /\ run'.ctx = h.ctx
           /\ run'.status = "completed" => h.outcome = "completed"
    BY <1>0, <1>6 DEF Save, Runs
  <2>3. run.status # "completed"
    BY <2>1 DEF Phases
  <2> QED  BY <1>c, <1>e, <2>1, <2>2, <2>3 DEF Life
<1>7. QED  BY <1>1, <1>2, <1>3, <1>4, <1>5, <1>6 DEF Running

LEMMA KeysKeptBefore ==
  ASSUME NEW u, NEW v, u \subseteq v, KeysKept(v)
  PROVE  KeysKept(u)
BY DEF KeysKept

(* A drive calls what has no output yet; what was called before has one. *)
LEMMA DriveCalling ==
  ASSUME NEW d, NEW used, NEW c, NEW called \in Seq(STRING), NEW e, e.called \in Seq(STRING),
         Traced(called, used, c),
         KeysKept(used) => NoneTwice(called),
         \A k \in DOMAIN c : k \in DOMAIN e.ctx,
         CallsBehindGates(d, c, e, Len(d.steps)),
         NoneTwice(e.called)
  PROVE  /\ Traced(called \o e.called, used \cup {d}, e.ctx)
         /\ KeysKept(used \cup {d}) => NoneTwice(called \o e.called)
<1> DEFINE all == called \o e.called
<1>0. /\ Len(all) = Len(called) + Len(e.called)
      /\ Len(called) \in Nat /\ Len(e.called) \in Nat
      /\ \A b \in 1 .. Len(called) : all[b] = called[b]
      /\ \A b \in 1 .. Len(all) :
           \/ b \in 1 .. Len(called)
           \/ b - Len(called) \in 1 .. Len(e.called) /\ all[b] = e.called[b - Len(called)]
  BY Joined
<1> HIDE DEF all
<1>1. \A b \in 1 .. Len(e.called) : \E m \in Positions(d) :
        d.steps[m].id = e.called[b] /\ Key(d.steps[m]) \in DOMAIN e.ctx \ DOMAIN c
  BY DEF CallsBehindGates, Positions
<1>2. Traced(all, used \cup {d}, e.ctx)
  <2>1. SUFFICES ASSUME NEW b \in 1 .. Len(all)
                 PROVE  \E f \in used \cup {d} : \E i \in Positions(f) :
                          f.steps[i].id = all[b] /\ Key(f.steps[i]) \in DOMAIN e.ctx
    BY DEF Traced
  <2>2. CASE b \in 1 .. Len(called)
    <3>1. PICK f \in used : \E i \in Positions(f) :
                 f.steps[i].id = called[b] /\ Key(f.steps[i]) \in DOMAIN c
      BY <2>2 DEF Traced
    <3>2. f \in used \cup {d} /\ all[b] = called[b]
      BY <1>0, <2>2
    <3> QED  BY <3>1, <3>2
  <2>3. CASE b \notin 1 .. Len(called)
    <3>1. b - Len(called) \in 1 .. Len(e.called) /\ all[b] = e.called[b - Len(called)]
      BY <1>0, <2>3
    <3>2. d \in used \cup {d}
      OBVIOUS
    <3> QED  BY <1>1, <3>1, <3>2
  <2> QED  BY <2>2, <2>3
<1>3. ASSUME KeysKept(used \cup {d}) PROVE NoneTwice(all)
  <2>1. NoneTwice(called)
    BY <1>3, KeysKeptBefore
  <2>2. \A b \in 1 .. Len(called), f \in 1 .. Len(e.called) : called[b] # e.called[f]
    <3>1. SUFFICES ASSUME NEW b \in 1 .. Len(called), NEW f \in 1 .. Len(e.called),
                          called[b] = e.called[f]
                   PROVE  FALSE
      OBVIOUS
    <3>2. PICK m \in Positions(d) :
            d.steps[m].id = e.called[f] /\ Key(d.steps[m]) \in DOMAIN e.ctx \ DOMAIN c
      BY <1>1
    <3>3. PICK g \in used : \E i \in Positions(g) :
                 g.steps[i].id = called[b] /\ Key(g.steps[i]) \in DOMAIN c
      BY DEF Traced
    <3>4. PICK i \in Positions(g) : g.steps[i].id = called[b] /\ Key(g.steps[i]) \in DOMAIN c
      BY <3>3
    <3>5. Key(g.steps[i]) = Key(d.steps[m])
      BY <1>3, <3>1, <3>2, <3>4 DEF KeysKept
    <3> QED  BY <3>2, <3>4, <3>5
  <2>3. SUFFICES ASSUME NEW b \in 1 .. Len(all), NEW f \in 1 .. Len(all), all[b] = all[f]
                 PROVE  b = f
    BY DEF NoneTwice
  <2>4. CASE b \in 1 .. Len(called) /\ f \in 1 .. Len(called)
    BY <1>0, <2>1, <2>3, <2>4 DEF NoneTwice
  <2>5. CASE b \in 1 .. Len(called) /\ f \notin 1 .. Len(called)
    BY <1>0, <2>2, <2>3, <2>5
  <2>6. CASE b \notin 1 .. Len(called) /\ f \in 1 .. Len(called)
    BY <1>0, <2>2, <2>3, <2>6
  <2>7. CASE b \notin 1 .. Len(called) /\ f \notin 1 .. Len(called)
    <3>1. b - Len(called) \in 1 .. Len(e.called) /\ f - Len(called) \in 1 .. Len(e.called)
      BY <1>0, <2>7
    <3>2. e.called[b - Len(called)] = e.called[f - Len(called)]
      BY <1>0, <2>3, <2>7
    <3>3. b - Len(called) = f - Len(called)
      BY <3>1, <3>2 DEF NoneTwice
    <3> QED  BY <1>0, <3>3
  <2> QED  BY <2>4, <2>5, <2>6, <2>7
<1>4. QED  BY <1>2, <1>3 DEF all

LEMMA CallingRunning ==
  ASSUME Typed, Phases, Calling, Running
  PROVE  Calling'
<1>0. run \in Runs /\ h \in Handlers /\ ghost \in Ghosts
  BY DEF Typed
<1>1. CASE Drive
  <2>1. PICK e \in Outcomes, a \in SUBSET StepIds : DriveEffect(e, a)
    BY <1>1, DriveStep
  <2>2. /\ h'.pc = "save" /\ h'.ctx = e.ctx
        /\ ghost'.used = ghost.used \cup {h.def}
        /\ ghost'.called = ghost.called \o e.called
        /\ ghost.broken => ghost'.broken
    BY <1>0, <2>1 DEF DriveEffect, Handlers, Ghosts
  <2>3. h.pc = "drive" /\ ghost.called \in Seq(STRING) /\ e.called \in Seq(STRING)
    BY <1>0, <1>1 DEF Drive, Ghosts, Outcomes
  <2>4. SUFFICES ASSUME ~ghost'.broken
                 PROVE  /\ Traced(ghost'.called, ghost'.used, h'.ctx)
                        /\ KeysKept(ghost'.used) => NoneTwice(ghost'.called)
    BY <2>2 DEF Calling, Current
  <2>5. /\ Traced(ghost.called, ghost.used, run.ctx)
        /\ KeysKept(ghost.used) => NoneTwice(ghost.called)
    BY <2>2, <2>3, <2>4 DEF Calling, Current
  <2>6. /\ Traced(ghost.called \o e.called, ghost.used \cup {h.def}, e.ctx)
        /\ KeysKept(ghost.used \cup {h.def}) => NoneTwice(ghost.called \o e.called)
    BY <2>1, <2>3, <2>5, DriveCalling DEF DriveEffect
  <2> QED  BY <2>2, <2>6
<1>2. ASSUME Running, ~Drive
      PROVE  /\ ghost'.broken = ghost.broken /\ ghost'.called = ghost.called
             /\ ghost'.used = ghost.used
             /\ ghost.broken \/ Current' = Current
  <2>1. ASSUME NEW k \in Keys, StartRun(k)
        PROVE  ghost' = ghost /\ Current' = Current
    <3>1. run.ctx = EmptyContext /\ run'.ctx = EmptyContext /\ h.pc = "idle" /\ h'.pc = "drive"
      BY <2>1 DEF StartRun, Phases, NoRun, Idle
    <3> QED  BY <2>1, <3>1 DEF StartRun, Current
  <2>2. ASSUME NEW kind \in {"approve", "reject"}, ReadRun(kind)
        PROVE  ghost' = ghost /\ Current' = Current
    BY <2>2 DEF ReadRun, Idle, Current
  <2>3. CASE LoadAgain
    <3>1. h.pc = "load" /\ h'.pc # "save" /\ run' = run /\ ghost' = ghost
      BY <1>0, <2>3 DEF LoadAgain, Idle, Handlers
    <3> QED  BY <3>1 DEF Current
  <2>4. CASE DecideTasks
    <3>1. /\ h.pc = "decide" /\ h'.ctx = h.ctx /\ run' = run
          /\ ghost'.broken = ghost.broken /\ ghost'.called = ghost.called
          /\ ghost'.used = ghost.used
      BY <1>0, <2>4 DEF DecideTasks, Handlers, Ghosts
    <3>2. h.ctx = run.ctx
      BY <3>1 DEF Phases
    <3> QED  BY <3>1, <3>2 DEF Current
  <2>5. CASE Save
    <3>1. h.pc = "save" /\ h'.pc = "idle" /\ ghost' = ghost
      BY <2>5 DEF Save, Idle
    <3>2. h.outcome = "failed" => ghost.broken
      BY <3>1 DEF Phases
    <3>3. h.outcome # "failed" => run'.ctx = h.ctx
      BY <1>0, <2>5 DEF Save, Runs
    <3> QED  BY <3>1, <3>2, <3>3 DEF Current
  <2> QED  BY <1>2, <2>1, <2>2, <2>3, <2>4, <2>5 DEF Running
<1>3. CASE ~Drive
  BY <1>2, <1>3 DEF Calling
<1>4. QED  BY <1>1, <1>3

(* The inductive invariant. *)
Sound == Basic /\ Life /\ Calling

LEMMA SoundNext ==
  ASSUME Sound, [Next]_vars
  PROVE  Sound'
<1>0. Typed /\ Registry /\ Phases /\ TaskKept /\ Life /\ Calling /\ Basic
  BY DEF Sound, Basic
<1>1. Basic'
  BY <1>0, BasicNext
<1>2. CASE Authoring
  <2>1. /\ run' = run /\ h' = h
        /\ ghost'.used = ghost.used /\ ghost'.granted = ghost.granted
        /\ ghost'.called = ghost.called /\ ghost'.broken = ghost.broken
    BY <1>0, <1>2, AuthoringFrame
  <2>2. Life' /\ Calling'
    BY <1>0, <2>1 DEF Life, Calling, Current
  <2> QED  BY <1>1, <2>2 DEF Sound
<1>3. CASE Running
  BY <1>0, <1>1, <1>3, LifeRunning, CallingRunning DEF Sound
<1>4. CASE UNCHANGED vars
  <2>1. run' = run /\ h' = h /\ ghost' = ghost
    BY <1>4 DEF vars
  <2>2. Life' /\ Calling'
    BY <1>0, <2>1 DEF Life, Calling, Current
  <2> QED  BY <1>1, <2>2 DEF Sound
<1>5. QED  BY <1>2, <1>3, <1>4 DEF Next

THEOREM AuthoringInvariant == Spec => []Sound
<1>1. Init => Sound
  BY BasicInit, LifeInit DEF Sound
<1>2. Sound /\ [Next]_vars => Sound'
  BY SoundNext
<1>3. QED  BY <1>1, <1>2, PTL DEF Spec

(* However its definition was edited between pause and resume, a run reaches a
   connector only past gates that were approved or skipped. *)
THEOREM GatesAlwaysHold == Spec => []GatesHoldAcrossEdits
<1>1. Sound => GatesHoldAcrossEdits
  <2>1. SUFFICES ASSUME Sound, h.pc = "save", Coherent(ghost.used),
                        NEW i \in Positions(h.def), NEW b \in 1 .. Len(h.called),
                        h.called[b] = h.def.steps[i].id,
                        NEW j \in 1 .. (i - 1), h.def.steps[j].type = "approval"
                 PROVE  \/ h.def.steps[j].id \in ghost.granted
                        \/ h.ctx[Key(h.def.steps[j])] = "skipped"
    BY DEF GatesHoldAcrossEdits
  <2>2. h.called # <<>>
    <3>1. Len(<<>>) = 0
      OBVIOUS
    <3> QED  BY <2>1, <3>1
  <2>3. /\ h.def \in ghost.used /\ Valid(h.def)
        /\ InFront(h.def, h.called, h.ctx) /\ Backed(h.ctx, ghost.used, ghost.granted)
    BY <2>1, <2>2 DEF Sound, Life
  <2>4. PICK m \in Positions(h.def) : /\ h.def.steps[m].id = h.called[b]
                                      /\ \A n \in 1 .. m - 1 : Key(h.def.steps[n]) \in DOMAIN h.ctx
    BY <2>3 DEF InFront
  <2>5. m = i
    BY <2>1, <2>3, <2>4 DEF Valid
  <2>6. Key(h.def.steps[j]) \in DOMAIN h.ctx
    BY <2>4, <2>5
  <2>7. PICK d \in ghost.used : \E n \in Positions(d) :
               /\ Key(d.steps[n]) = Key(h.def.steps[j])
               /\ d.steps[n].type = "approval" =>
                    \/ d.steps[n].id \in ghost.granted
                    \/ h.ctx[Key(h.def.steps[j])] = "skipped"
    BY <2>3, <2>6 DEF Backed
  <2>8. h.def \in Drafts
    BY <2>1, <2>3 DEF Sound, Basic, Typed, Ghosts
  <2>9. j \in Positions(h.def)
    <3>1. Len(h.def.steps) \in Nat
      BY <2>8, LenProperties
    <3> QED  BY <3>1 DEF Positions
  <2>10. \A n \in Positions(d) : Key(d.steps[n]) = Key(h.def.steps[j]) =>
           d.steps[n].id = h.def.steps[j].id /\ d.steps[n].type = h.def.steps[j].type
    BY <2>1, <2>3, <2>9 DEF Coherent
  <2> QED  BY <2>1, <2>7, <2>10
<1>2. QED  BY <1>1, AuthoringInvariant, PTL

(* Over its whole life a run calls no step twice, edits, pauses and resumptions
   included, unless an error lost its outputs or a step that ran got another key. *)
THEOREM AlwaysCalledOnce == Spec => []CalledOnce
<1>1. Sound => CalledOnce
  BY DEF Sound, Calling, NoneTwice, CalledOnce
<1>2. QED  BY <1>1, AuthoringInvariant, PTL

(* A run that completes under one definition has the outputs and has made the
   calls that the definition asks for, however often it paused. *)
THEOREM AlwaysCompletedAsDefined == Spec => []CompletedAsDefined
<1>1. Sound => CompletedAsDefined
  <2>1. SUFFICES ASSUME Sound, run.status = "completed", Coherent(ghost.used),
                        NEW d \in ghost.used, ghost.used = {d}, NEW i \in Positions(d)
                 PROVE  /\ run.ctx[Key(d.steps[i])] = Expected(d, d.steps[i])
                        /\ Calls(d.steps[i]) =>
                             (CalledWith(ghost.called, d.steps[i].id)
                                <=> ~GuardedOff(d, d.steps[i]))
    BY DEF CompletedAsDefined, CalledWith
  <2>2. d \in Drafts /\ Coherent({d}) /\ Valid(d)
    BY <2>1 DEF Sound, Basic, Typed, Ghosts, Life
  <2>3. /\ Mirrors(d, run.ctx) /\ CalledWhenOn(d, ghost.called)
        /\ OnIsCalled(d, DOMAIN run.ctx, ghost.called)
    BY <2>1, <2>2 DEF Sound, Life, Faithful
  <2>4. Key(d.steps[i]) \in DOMAIN run.ctx
    BY <2>1 DEF Sound, Life, Ended
  <2>5. run.ctx[Key(d.steps[i])] = Expected(d, d.steps[i])
    <3>1. PICK m \in Positions(d) :
            /\ Key(d.steps[m]) = Key(d.steps[i])
            /\ run.ctx[Key(d.steps[i])] = Expected(d, d.steps[m])
      BY <2>3, <2>4 DEF Mirrors
    <3>2. m = i
      BY <2>2, <3>1, KeysApart
    <3> QED  BY <3>1, <3>2
  <2>6. CalledWith(ghost.called, d.steps[i].id) => ~GuardedOff(d, d.steps[i])
    <3>1. SUFFICES ASSUME NEW b \in 1 .. Len(ghost.called), ghost.called[b] = d.steps[i].id
                   PROVE  ~GuardedOff(d, d.steps[i])
      BY DEF CalledWith
    <3>2. PICK m \in Positions(d) : /\ d.steps[m].id = ghost.called[b]
                                    /\ ~GuardedOff(d, d.steps[m])
      BY <2>3 DEF CalledWhenOn
    <3>3. m = i
      BY <2>2, <3>1, <3>2 DEF Valid
    <3> QED  BY <3>2, <3>3
  <2>7. Calls(d.steps[i]) /\ ~GuardedOff(d, d.steps[i]) =>
          CalledWith(ghost.called, d.steps[i].id)
    BY <2>3, <2>4 DEF OnIsCalled
  <2> QED  BY <2>5, <2>6, <2>7
<1>2. QED  BY <1>1, AuthoringInvariant, PTL
=============================================================================
