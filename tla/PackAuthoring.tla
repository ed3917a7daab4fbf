---------------------------- MODULE PackAuthoring ----------------------------
(***************************************************************************)
(* The pack registry of one tenant and a run that lives through its edits:  *)
(* services/workflows/src/workflows/pack_runtime.py and the endpoints        *)
(* /packs/definitions and /packs/seed.  Shipped workflows are files on disk  *)
(* which a seeding copies to workflow_definitions; users author flows of the *)
(* reserved pack 'custom' there.  A run loads its definition when it starts  *)
(* and again at every decision.                                             *)
(*                                                                         *)
(* Decisions come one at a time on a waiting run and no handler dies (both   *)
(* are PackRuntime's subject); authors, seedings and deployments come at any *)
(* moment between the transactions of a decision.                           *)
(***************************************************************************)
EXTENDS WorkflowEngine, FiniteSets

CONSTANTS
  Names,      \* workflow keys
  Drafts,     \* the definitions authors submit and pack files hold
  NoDef,      \* stands for a definition that does not exist
  MaxEdits,     \* bound on deployments, seedings and author requests together
  MaxDecisions  \* bound on the decisions made on the run

ASSUME AuthoringAssumption ==
  /\ MaxEdits \in Nat
  /\ MaxDecisions \in Nat
  /\ NoDef \notin Drafts
  /\ \A d \in Drafts : d.steps \in Seq(StepDef)

VARIABLES
  files,   \* the definition in the shipped pack's file of each name
  table,   \* workflow_definitions: definition and source of each (pack, key)
  run,     \* the row of workflow_runs
  inbox,   \* the step ids with a pending approval task
  h,       \* the handler that starts or decides the run
  ghost,   \* history: freshness of the seeding, the run's life
  edits,   \* edits so far
  decided  \* decisions so far

vars == <<files, table, run, inbox, h, ghost, edits, decided>>

Packs == {"custom", "shipped"}
Keys  == Packs \X Names
Shipped(n) == <<"shipped", n>>

NoRow == [def |-> NoDef, source |-> "none"]
NoRun == [status |-> "none", key |-> <<>>, ctx |-> EmptyContext, cur |-> NoKey]
Idle  == [pc |-> "idle", kind |-> "none", def |-> NoDef, ctx |-> EmptyContext,
          cur |-> NoKey, outcome |-> "none", called |-> <<>>]

Init ==
  /\ files \in [Names -> {d \in Drafts : Valid(d)}]
  /\ table = [k \in Keys |-> NoRow]
  /\ run = NoRun
  /\ inbox = {}
  /\ h = Idle
  /\ ghost = [fresh |-> FALSE, used |-> {}, granted |-> {}, called |-> <<>>,
              broken |-> FALSE]
  /\ edits = 0
  /\ decided = 0

-----------------------------------------------------------------------------
(***************************************************************************)
(* The registry.                                                           *)
(***************************************************************************)
Edit == edits < MaxEdits /\ edits' = edits + 1 /\ UNCHANGED <<run, inbox, h, decided>>

(* load_pack: one file that does not validate makes the whole pack unreadable. *)
PackLoads == \A n \in Names : files[n] # NoDef => Valid(files[n])

(* A new release replaces or withdraws a file of the shipped pack. *)
Deploy(n) ==
  /\ Edit
  /\ \E d \in Drafts \cup {NoDef} : files' = [files EXCEPT ![n] = d]
  /\ ghost' = [ghost EXCEPT !.fresh = FALSE]
  /\ UNCHANGED table

SeededOnce(n) ==
  IF table[Shipped(n)] = NoRow THEN [def |-> files[n], source |-> "seed"] ELSE table[Shipped(n)]

(* The upsert of seed_tenant_packs: an existing row keeps its source. *)
Seeded(n) ==
  [def |-> files[n],
   source |-> IF table[Shipped(n)] = NoRow THEN "seed" ELSE table[Shipped(n)].source]

(* seed_tenant_packs: every workflow of the packs on disk, in one transaction;
   a pack that is unreadable fails the whole of it. *)
Seed ==
  /\ Edit
  /\ PackLoads
  /\ table' = [k \in Keys |-> IF k[1] = "shipped" /\ files[k[2]] # NoDef
                                THEN Seeded(k[2]) ELSE table[k]]
  /\ ghost' = [ghost EXCEPT !.fresh = TRUE]
  /\ UNCHANGED files

(* _prepare_user_definition: whatever pack a draft names, it is stored under
   'custom'. *)
Target(pack, n) == <<"custom", n>>

(* create_definition: the upsert leaves a row of another source alone, and the
   answer is a 201 either way. *)
CreateDefinition(pack, n, d) ==
  LET k == Target(pack, n) IN
  /\ Edit
  /\ Valid(d)
  /\ table' = IF table[k].source = "seed" THEN table
              ELSE [table EXCEPT ![k] = [def |-> d, source |-> "user"]]
  /\ UNCHANGED <<files, ghost>>

(* update_definition: a 404 when no user row matches. *)
UpdateDefinition(pack, n, d) ==
  LET k == Target(pack, n) IN
  /\ Edit
  /\ Valid(d)
  /\ table[k].source = "user"
  /\ table' = [table EXCEPT ![k].def = d]
  /\ UNCHANGED <<files, ghost>>

DeleteDefinition(n) ==
  LET k == Target("custom", n) IN
  /\ Edit
  /\ table[k].source = "user"
  /\ table' = [table EXCEPT ![k] = NoRow]
  /\ UNCHANGED <<files, ghost>>

(* load_definition: the tenant's row first, then the pack files.  NoDef stands
   for the KeyError, and for the PackError of an unreadable pack. *)
Load(k) ==
  IF table[k] # NoRow THEN table[k].def
  ELSE IF k[1] = "shipped" /\ PackLoads THEN files[k[2]] ELSE NoDef

(* list_definitions: shipped flows as they are on disk, whatever the table
   holds, and the rows of users; nothing at all while the pack is unreadable. *)
Listed(k) ==
  CASE ~PackLoads -> NoDef
    [] PackLoads /\ k[1] = "shipped" -> files[k[2]]
    [] PackLoads /\ k[1] = "custom" ->
         IF table[k].source = "user" THEN table[k].def ELSE NoDef

-----------------------------------------------------------------------------
(***************************************************************************)
(* The run.                                                                *)
(***************************************************************************)

(* start_run: nothing is created when the definition cannot be loaded. *)
StartRun(k) ==
  /\ run.status = "none"
  /\ h.pc = "idle"
  /\ Load(k) # NoDef
  /\ run' = [NoRun EXCEPT !.status = "running", !.key = k]
  /\ h' = [Idle EXCEPT !.pc = "drive", !.kind = "start", !.def = Load(k)]
  /\ UNCHANGED <<files, table, inbox, ghost, edits, decided>>

ReadRunDeciding(kind) ==
  /\ run.status = "awaiting_approval"
  /\ h.pc = "idle"
  /\ decided < MaxDecisions
  /\ decided' = decided + 1
  /\ h' = [Idle EXCEPT !.pc = "load", !.kind = kind, !.ctx = run.ctx, !.cur = run.cur]
  /\ inbox' = inbox \ {run.cur}
  /\ UNCHANGED <<files, table, run, ghost, edits>>

(* resume_run reads the row ... *)
ReadRun(kind) ==
  /\ run.status = "awaiting_approval"
  /\ h.pc = "idle"
  /\ decided < MaxDecisions
  /\ decided' = decided + 1
  /\ h' = [Idle EXCEPT !.pc = "load", !.kind = kind, !.ctx = run.ctx, !.cur = run.cur]
  /\ UNCHANGED <<files, table, run, inbox, ghost, edits>>

(* ... then loads the definition as it is now, even to reject: without one the
   request ends in an error. *)
LoadAgain ==
  /\ h.pc = "load"
  /\ h' = IF Load(run.key) = NoDef THEN Idle
          ELSE [h EXCEPT !.pc = "decide", !.def = Load(run.key)]
  /\ UNCHANGED <<files, table, run, inbox, ghost, edits, decided>>

(* The tasks of the step take the decision; a rejected run is saved as it was
   read. *)
DecideTasks ==
  /\ h.pc = "decide"
  /\ inbox' = inbox \ {h.cur}
  /\ \/ /\ h.kind = "approve"
        /\ h' = [h EXCEPT !.pc = "drive"]
        /\ ghost' = [ghost EXCEPT !.granted = @ \cup {h.cur}]
     \/ /\ h.kind = "reject"
        /\ h' = [h EXCEPT !.pc = "save", !.outcome = "rejected"]
        /\ UNCHANGED ghost
  /\ UNCHANGED <<files, table, run, edits, decided>>

(* The engine, driven with the approval this request carries. *)
Drive ==
  LET e == RunEngine(h.def, h.ctx, IF h.kind = "approve" THEN {h.cur} ELSE {}) IN
  /\ h.pc = "drive"
  /\ h' = [h EXCEPT !.pc = "save", !.ctx = e.ctx, !.outcome = e.status, !.cur = e.at,
                    !.called = e.called]
  /\ ghost' = [ghost EXCEPT !.used = @ \cup {h.def}, !.called = @ \o e.called,
                            !.broken = @ \/ e.status = "failed"]
  /\ UNCHANGED <<files, table, run, inbox, edits, decided>>

(* _save_run and _create_approval.  An ExprError, which main.py turns into a
   404, leaves the row as it was. *)
Save ==
  /\ h.pc = "save"
  /\ h' = Idle
  /\ \/ /\ h.outcome = "failed"
        /\ UNCHANGED <<run, inbox>>
     \/ /\ h.outcome = "paused"
        /\ run' = [run EXCEPT !.status = "awaiting_approval", !.ctx = h.ctx, !.cur = h.cur]
        /\ inbox' = inbox \cup {h.cur}
     \/ /\ h.outcome \in {"completed", "rejected"}
        /\ run' = [run EXCEPT !.status = h.outcome, !.ctx = h.ctx, !.cur = h.cur]
        /\ UNCHANGED inbox
  /\ UNCHANGED <<files, table, ghost, edits, decided>>

-----------------------------------------------------------------------------
Authoring ==
  \/ Seed
  \/ \E n \in Names :
       \/ Deploy(n)
       \/ \E pack \in Packs, d \in Drafts :
            CreateDefinition(pack, n, d) \/ UpdateDefinition(pack, n, d)
       \/ DeleteDefinition(n)

Running ==
  \/ \E k \in Keys : StartRun(k)
  \/ \E kind \in {"approve", "reject"} : ReadRun(kind)
  \/ LoadAgain \/ DecideTasks \/ Drive \/ Save

Next == Authoring \/ Running

Spec == Init /\ [][Next]_vars

-----------------------------------------------------------------------------
(***************************************************************************)
(* Properties.                                                             *)
(***************************************************************************)

(* From a seeding to the next release, a workflow runs as it is listed: the
   list reads the files, a run reads the table first. *)
RunsAsListed ==
  ghost.fresh => \A k \in Keys : Listed(k) # NoDef => Load(k) = Listed(k)

(* However its definition was edited between pause and resume, a run calls a
   connector only if each gate in front of that step, in the definition it is
   driven with, was approved or skipped: provided no step ever takes over the
   key of another one or changes its type. *)
GatesHoldAcrossEdits ==
  h.pc = "save" /\ Coherent(ghost.used) =>
    \A i \in Positions(h.def) :
      (\E c \in 1 .. Len(h.called) : h.called[c] = h.def.steps[i].id) =>
        \A j \in 1 .. (i - 1) :
          h.def.steps[j].type = "approval" =>
            \/ h.def.steps[j].id \in ghost.granted
            \/ h.ctx[Key(h.def.steps[j])] = "skipped"

(* ... and calls no step twice, edits, pauses and renamed outputs included,
   unless an expression could not be resolved (which loses the context), or an
   edit gave a step that ran another key: the engine asks for keys, not ids. *)
CalledOnce ==
  ~ghost.broken /\ KeysKept(ghost.used) =>
    \A b, c \in 1 .. Len(ghost.called) : ghost.called[b] = ghost.called[c] => b = c

(* A run that was never edited ends with what its definition asks for, however
   often it paused: guarded-off steps skipped, all others carried out, and a
   connector called exactly for the steps that call one and were not skipped. *)
CompletedAsDefined ==
  run.status = "completed" /\ Coherent(ghost.used) =>
    \A d \in ghost.used : ghost.used = {d} =>
      \A i \in Positions(d) :
        LET s == d.steps[i] IN
          /\ run.ctx[Key(s)] = Expected(d, s)
          /\ Calls(s) =>
               (\E c \in 1 .. Len(ghost.called) : ghost.called[c] = s.id)
                 <=> ~GuardedOff(d, s)

(* A decision that cannot be carried out, because the definition was deleted or
   its pack became unreadable, decides nothing: a waiting run keeps the task
   it waits for, so that a later decision finds both. *)
WaitingRunHasTask ==
  h.pc = "idle" /\ run.status = "awaiting_approval" /\ ~ghost.broken =>
    run.cur \in inbox
=============================================================================
