---------------------------- MODULE ChatSession ----------------------------
(***************************************************************************)
(* One chat session of one user, services/orchestrator/src/orchestrator/    *)
(* main.py with assistant.py: the turns sent to POST /chat and /chat/stream, *)
(* and the renaming and deletion of the session meanwhile.  A turn makes a   *)
(* dozen calls, each its own transaction or request; what it read it keeps.  *)
(*                                                                         *)
(* The model and the classifier answer anything.  Operators named after a    *)
(* definition with a fault appended are faulty variants of it.              *)
(***************************************************************************)
EXTENDS Naturals, Sequences, SequencesExt, FiniteSets

CONSTANTS
  Turns,        \* the chat requests, each made at most once
  Streams,      \* those made to /chat/stream
  Askers,       \* those that may ask to run a workflow
  Specs,        \* what GET /packs/definitions lists: a sequence of [wf, pack]
  OwnPack,      \* ws.workflow_packs[0] of the active workspace
  Copilots,     \* ws.workspace.copilots, listed or not: the classifier may name them
  MaxOpen,      \* bound on the turns in progress at once
  MaxDeletions, \* bound on the deletions of the session
  MaxFaults     \* bound on handlers that die and on database errors

ASSUME ChatAssumption ==
  /\ Streams \subseteq Turns
  /\ Askers \subseteq Turns
  /\ Specs \in Seq([wf : STRING, pack : STRING])
  /\ Copilots \subseteq STRING
  /\ MaxOpen \in Nat /\ MaxDeletions \in Nat /\ MaxFaults \in Nat

VARIABLES
  session,   \* the row of chat_sessions; born counts its incarnations
  messages,  \* chat_messages in the order of created_at
  turn,      \* the handler of each turn
  runs,      \* the pack runs the workflows service started: [turn, wf, pack]
  deletions, \* deletions so far
  faults     \* faults so far

vars == <<session, messages, turn, runs, deletions, faults>>

Workflows == {Specs[i].wf : i \in DOMAIN Specs}
NoFlow == "none"

Active(t)  == turn[t].pc \notin {"idle", "done", "unavailable", "failed"}

Blank == [pc |-> "idle", wf |-> NoFlow, fetched |-> FALSE, seen |-> <<>>,
          remind |-> FALSE, born |-> 0]

Goto(t, p) == turn' = [turn EXCEPT ![t].pc = p]
Fail(t) == turn' = [turn EXCEPT ![t] = [Blank EXCEPT !.pc = "failed"]]
Fault == faults < MaxFaults /\ faults' = faults + 1

Init ==
  /\ session = [live |-> FALSE, title |-> "none", born |-> 0]
  /\ messages = <<>>
  /\ turn = [t \in Turns |-> Blank]
  /\ runs = {}
  /\ deletions = 0
  /\ faults = 0

-----------------------------------------------------------------------------
(***************************************************************************)
(* A turn.                                                                 *)
(***************************************************************************)

(* _ensure_session: an existing session is used ... *)
SelectSession(t) ==
  /\ turn[t].pc = "idle"
  /\ Cardinality({u \in Turns : Active(u)}) < MaxOpen
  /\ turn' = [turn EXCEPT ![t].pc = IF session.live THEN "title" ELSE "insert",
                          ![t].born = session.born]
  /\ UNCHANGED <<session, messages, runs, deletions, faults>>

(* ... and a missing one is created under the id the client gave, also when it
   was deleted.  Of two turns that both found none, the second fails on the
   primary key. *)
InsertSession(t) ==
  /\ turn[t].pc = "insert"
  /\ \/ /\ ~session.live
        /\ session' = [live |-> TRUE, title |-> "none", born |-> session.born + 1]
        /\ turn' = [turn EXCEPT ![t].pc = "title", ![t].born = session.born + 1]
     \/ /\ session.live
        /\ Fail(t)
        /\ UNCHANGED session
  /\ UNCHANGED <<messages, runs, deletions, faults>>

(* _maybe_title: only a session without a title gets one; errors are dropped. *)
MaybeTitle(t) ==
  /\ turn[t].pc = "title"
  /\ session' = IF session.live /\ session.title = "none"
                  THEN [session EXCEPT !.title = "derived"] ELSE session
  /\ Goto(t, "history")
  /\ UNCHANGED <<messages, runs, deletions, faults>>

LoadHistory(t) ==
  /\ turn[t].pc = "history"
  /\ turn' = [turn EXCEPT ![t].pc = "classify", ![t].seen = messages]
  /\ UNCHANGED <<session, messages, runs, deletions, faults>>

Reminded(m) == m.role = "assistant" /\ m.reminded

HadReminderLastMessage(history) == history # <<>> /\ Reminded(Last(history))
(* last_assistant_had_reminder: user messages in between do not count. *)
HadReminder(history) ==
  \E i \in DOMAIN history :
    /\ Reminded(history[i])
    /\ \A j \in DOMAIN history : j > i => history[j].role # "assistant"

(* _workflow_definitions, [] on any failure, and classify_intent, which names a
   copilot of the workspace's configuration, whether or not a definition has that
   key, or a definition that was fetched, and falls back to a general question.
   An answer off the workspace's topics is to carry the reminder unless the loaded
   history ends with one. *)
Classify(t) ==
  /\ turn[t].pc = "classify"
  /\ \/ /\ t \in Askers
        /\ \E wf \in Workflows \cup Copilots, fetched \in BOOLEAN :
             turn' = [turn EXCEPT ![t].pc = "start", ![t].wf = wf, ![t].fetched = fetched]
     \/ \E general \in BOOLEAN :
          turn' = [turn EXCEPT ![t].pc = "model",
                     ![t].remind = general /\ ~HadReminder(turn[t].seen)]
  /\ UNCHANGED <<session, messages, runs, deletions, faults>>

Listings(wf) == {i \in DOMAIN Specs : Specs[i].wf = wf}

(* _workflow_pack_map and the choice in _gather_backend_data: the last listed
   definition of the key names the pack; the workspace's own pack is the fallback
   for a key that no fetched definition has. *)
Pack(t) ==
  LET listings == Listings(turn[t].wf) IN
    IF turn[t].fetched /\ listings # {} THEN Specs[Max(listings)].pack ELSE OwnPack

Defines(pack, wf) == \E i \in DOMAIN Specs : Specs[i] = [wf |-> wf, pack |-> pack]

(* _start_pack_workflow: the answer may be lost or come after the 30 s, while
   the run goes on; a pack without the workflow is a 404 and starts nothing.
   Either way the turn goes on and tells the user what it was told. *)
StartRun(t) ==
  /\ turn[t].pc = "start"
  /\ \/ /\ Defines(Pack(t), turn[t].wf)
        /\ runs' = runs \cup {[turn |-> t, wf |-> turn[t].wf, pack |-> Pack(t)]}
     \/ UNCHANGED runs
  /\ turn' = [turn EXCEPT ![t].pc = "model", ![t].wf = NoFlow, ![t].fetched = FALSE]
  /\ UNCHANGED <<session, messages, deletions, faults>>

(* The model answers, whole or streamed. *)
Answer(t) ==
  /\ turn[t].pc = "model"
  /\ Goto(t, "user")
  /\ UNCHANGED <<session, messages, runs, deletions, faults>>

(* The model is unavailable, at once or in the middle of a stream. *)
ModelFails(t) ==
  /\ turn[t].pc = "model"
  /\ turn' = [turn EXCEPT ![t].pc = "keep", ![t].seen = <<>>, ![t].remind = FALSE]
  /\ UNCHANGED <<session, messages, runs, deletions, faults>>

(* The client leaves a stream: the generator is cancelled where it waits, and
   what it has not stored by then is not kept. *)
Disconnect(t) ==
  /\ t \in Streams
  /\ turn[t].pc \in {"model", "keep", "user", "assistant"}
  /\ Fail(t)
  /\ UNCHANGED <<session, messages, runs, deletions, faults>>

Message(t, role) ==
  [turn |-> t, role |-> role, reminded |-> role = "assistant" /\ turn[t].remind]

ForgetUserTurn(t) ==
  /\ turn[t].pc = "keep"
  /\ Goto(t, "unavailable")
  /\ UNCHANGED <<session, messages, runs, deletions, faults>>

(* After a failed model the user's message is kept; if that fails too, because
   the session was deleted or the database is gone, it is lost silently. *)
KeepUserTurn(t) ==
  /\ turn[t].pc = "keep"
  /\ \/ /\ session.live
        /\ messages' = Append(messages, Message(t, "user"))
        /\ UNCHANGED faults
     \/ /\ ~session.live
        /\ UNCHANGED <<messages, faults>>
     \/ Fault /\ UNCHANGED messages
  /\ Goto(t, "unavailable")
  /\ UNCHANGED <<session, runs, deletions>>

PersistBlocking(t, role, next) ==
  /\ turn[t].pc = role
  /\ session.live
  /\ messages' = Append(messages, Message(t, role))
  /\ Goto(t, next)
  /\ UNCHANGED <<session, runs, deletions, faults>>

(* _persist: a message of a deleted session breaks its foreign key, and the
   request fails. *)
Persist(t, role, next) ==
  /\ turn[t].pc = role
  /\ \/ /\ session.live
        /\ messages' = Append(messages, Message(t, role))
        /\ Goto(t, next)
     \/ /\ ~session.live
        /\ Fail(t)
        /\ UNCHANGED messages
  /\ UNCHANGED <<session, runs, deletions, faults>>

(* Question, then answer; emit, whose failure is only logged, changes nothing
   here. *)
PersistTurn(t) == Persist(t, "user", "assistant") \/ Persist(t, "assistant", "done")

(* The process dies or an unguarded call raises; what was committed stays. *)
Die(t) ==
  /\ Active(t)
  /\ Fault
  /\ Fail(t)
  /\ UNCHANGED <<session, messages, runs, deletions>>

-----------------------------------------------------------------------------
Rename ==
  /\ session.live
  /\ session.title # "renamed"
  /\ session' = [session EXCEPT !.title = "renamed"]
  /\ UNCHANGED <<messages, turn, runs, deletions, faults>>

(* delete_chat_session: the messages go with the session (ON DELETE CASCADE). *)
Delete ==
  /\ session.live
  /\ deletions < MaxDeletions
  /\ deletions' = deletions + 1
  /\ session' = [session EXCEPT !.live = FALSE, !.title = "none"]
  /\ messages' = <<>>
  /\ UNCHANGED <<turn, runs, faults>>

-----------------------------------------------------------------------------
(* The steps of a turn that the event loop takes by itself.  A model call of
   /chat ends within its 60 s, a streamed one has no timeout. *)
Own(t) ==
  \/ InsertSession(t) \/ MaybeTitle(t) \/ LoadHistory(t)
  \/ Classify(t) \/ StartRun(t) \/ KeepUserTurn(t) \/ PersistTurn(t)
ModelCall(t) == Answer(t) \/ ModelFails(t)

Next ==
  \/ \E t \in Turns : SelectSession(t) \/ Own(t) \/ ModelCall(t) \/ Disconnect(t) \/ Die(t)
  \/ Rename \/ Delete

Fairness ==
  /\ \A t \in Turns : WF_vars(Own(t))
  /\ \A t \in Turns \ Streams : WF_vars(ModelCall(t))

Spec == Init /\ [][Next]_vars /\ Fairness

-----------------------------------------------------------------------------
(***************************************************************************)
(* Properties.                                                             *)
(***************************************************************************)
Stored(t, role) == \E i \in DOMAIN messages : messages[i].turn = t /\ messages[i].role = role

(* The history agrees with what the client was told.  As long as its session
   was not deleted: an answered turn has both its messages, the question first;
   a turn told that the model is unavailable has its question and nothing else
   (or a fault lost it); and no answer stands without its question. *)
HistoryFaithful ==
  \A t \in Turns : turn[t].born = session.born /\ session.live =>
    /\ turn[t].pc = "done" => Stored(t, "user") /\ Stored(t, "assistant")
    /\ turn[t].pc = "unavailable" =>
         /\ Stored(t, "user") \/ faults > 0
         /\ ~Stored(t, "assistant")
    /\ \A i \in DOMAIN messages :
         messages[i].turn = t /\ messages[i].role = "assistant" =>
           \E j \in 1 .. (i - 1) : messages[j].turn = t /\ messages[j].role = "user"

(* "Never twice in a row" (main.py): of two successive answers only one carries
   the workspace reminder, failed turns in between or not, unless the second
   turn had loaded its history before the first answer was stored. *)
NoReminderTwice ==
  \A i, j \in DOMAIN messages :
    i < j /\ Reminded(messages[i]) /\ Reminded(messages[j]) =>
      \/ \E n \in (i + 1) .. (j - 1) : messages[n].role = "assistant"
      \/ messages[i] \notin Range(turn[messages[j].turn].seen)

(* Every turn of /chat ends, whatever happens to its session: with an answer,
   with the model unavailable or with an error. *)
EveryChatEnds == \A t \in Turns \ Streams : Active(t) ~> ~Active(t)

(***************************************************************************)
(* What the documentation says and the code does not ensure.               *)
(***************************************************************************)

(* "A resolved key is started with the CORRECT pack" (_workflow_pack_map): the
   workspace's own pack if it defines the workflow. *)
OwnPackWhenItDefines ==
  \A r \in runs : Defines(OwnPack, r.wf) => r.pack = OwnPack
=============================================================================
