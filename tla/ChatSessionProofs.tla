------------------------- MODULE ChatSessionProofs -------------------------
(***************************************************************************)
(* Proofs about ChatSession, for any number of turns and streams, any listed *)
(* definitions and any number of deletions and faults: the stored history    *)
(* agrees with what the client was told, and no two answers in a row carry    *)
(* the reminder.                                                            *)
(***************************************************************************)
EXTENDS ChatSession, TLAPS

Written  == [turn : Turns, role : {"user", "assistant"}, reminded : BOOLEAN]
Phases   == {"idle", "insert", "title", "history", "classify", "start", "model", "keep",
             "user", "assistant", "done", "unavailable", "failed"}
Handlers == [pc : Phases, wf : Workflows \cup Copilots \cup {NoFlow}, fetched : BOOLEAN,
             seen : Seq(Written), remind : BOOLEAN, born : Nat]

TypeOK ==
  /\ session \in [live : BOOLEAN, title : {"none", "derived", "renamed"}, born : Nat]
  /\ messages \in Seq(Written)
  /\ turn \in [Turns -> Handlers]
  /\ faults \in Nat

(* The turn began in the session as it is now. *)
Current(t) == turn[t].born = session.born /\ session.live

(* What a turn has stored by the time it is where it is. *)
TurnSound(t) ==
  /\ turn[t].born <= session.born
  /\ Current(t) =>
       /\ turn[t].pc \in {"assistant", "done"} => Stored(t, "user")
       /\ turn[t].pc = "done" => Stored(t, "assistant")
       /\ turn[t].pc = "unavailable" => Stored(t, "user") \/ faults > 0

(* An answer is of a turn that is done, and follows its question. *)
AnswersSound ==
  \A i \in DOMAIN messages :
    LET m == messages[i] IN
      m.role = "assistant" =>
        /\ turn[m.turn].pc = "done"
        /\ Current(m.turn) =>
             \E j \in 1 .. (i - 1) : messages[j].turn = m.turn /\ messages[j].role = "user"

ChatInv ==
  /\ TypeOK
  /\ ~session.live => messages = <<>>
  /\ \A t \in Turns : TurnSound(t)
  /\ AnswersSound

LEMMA NothingWritten == <<>> \in Seq(Written) /\ \A i \in DOMAIN <<>> : FALSE
OBVIOUS

LEMMA AuthorIsTurn ==
  ASSUME messages \in Seq(Written), NEW i \in DOMAIN messages
  PROVE  messages[i].turn \in Turns
<1>1. messages[i] \in Written
  OBVIOUS
<1> QED BY <1>1 DEF Written

LEMMA InitChat == ASSUME ChatAssumption PROVE Init => ChatInv
<1> SUFFICES ASSUME Init PROVE ChatInv
  OBVIOUS
<1>1. TypeOK
  BY ChatAssumption DEF ChatAssumption, Init, TypeOK, Handlers, Phases, Blank, NoFlow
<1>2. \A t \in Turns : TurnSound(t)
  BY DEF Init, TurnSound, Current, Blank
<1>3. AnswersSound
  BY DEF Init, AnswersSound
<1> QED BY <1>1, <1>2, <1>3 DEF Init, ChatInv

LEMMA InvIsFaithful == ChatInv => HistoryFaithful
<1> SUFFICES ASSUME ChatInv, NEW t \in Turns, Current(t)
             PROVE  /\ turn[t].pc = "done" => Stored(t, "user") /\ Stored(t, "assistant")
                    /\ turn[t].pc = "unavailable" =>
                         /\ Stored(t, "user") \/ faults > 0
                         /\ ~Stored(t, "assistant")
                    /\ \A i \in DOMAIN messages :
                         messages[i].turn = t /\ messages[i].role = "assistant" =>
                           \E j \in 1 .. (i - 1) :
                             messages[j].turn = t /\ messages[j].role = "user"
  BY DEF HistoryFaithful, Current
<1>1. /\ turn[t].pc = "done" => Stored(t, "user") /\ Stored(t, "assistant")
      /\ turn[t].pc = "unavailable" => Stored(t, "user") \/ faults > 0
  BY DEF ChatInv, TurnSound
<1>2. turn[t].pc = "unavailable" => ~Stored(t, "assistant")
  BY DEF ChatInv, AnswersSound, Stored
<1>3. \A i \in DOMAIN messages :
        messages[i].turn = t /\ messages[i].role = "assistant" =>
          \E j \in 1 .. (i - 1) : messages[j].turn = t /\ messages[j].role = "user"
  BY DEF ChatInv, AnswersSound
<1> QED BY <1>1, <1>2, <1>3

-----------------------------------------------------------------------------
(* Only turn t goes on; the session is the same, but for its title. *)
Alone(t) ==
  /\ turn' \in [Turns -> Handlers]
  /\ \A q \in Turns \ {t} : turn'[q] = turn[q]
  /\ session' \in [live : BOOLEAN, title : {"none", "derived", "renamed"}, born : Nat]
  /\ session'.live = session.live /\ session'.born = session.born
  /\ faults' \in Nat /\ faults' >= faults

LEMMA Goes ==
  ASSUME TypeOK, NEW t \in Turns, NEW p \in Phases, Goto(t, p),
         UNCHANGED session, faults' = faults \/ Fault
  PROVE  Alone(t) /\ turn'[t].pc = p /\ turn'[t].born = turn[t].born
<1> DEFINE h == [turn[t] EXCEPT !.pc = p]
<1>1. turn[t] \in Handlers
  BY DEF TypeOK
<1>2. h \in Handlers /\ h.pc = p /\ h.born = turn[t].born
  BY <1>1 DEF Handlers
<1>3. turn' = [turn EXCEPT ![t] = h]
  BY DEF Goto
<1> HIDE DEF h
<1>4. faults' \in Nat /\ faults' >= faults
  BY DEF TypeOK, Fault
<1> QED BY <1>2, <1>3, <1>4 DEF Alone, TypeOK

LEMMA Fails ==
  ASSUME TypeOK, NEW t \in Turns, Fail(t), UNCHANGED session, faults' = faults \/ Fault
  PROVE  Alone(t) /\ turn'[t].pc = "failed" /\ turn'[t].born = 0
<1> DEFINE h == [Blank EXCEPT !.pc = "failed"]
<1>1. h \in Handlers /\ h.pc = "failed" /\ h.born = 0
  BY NothingWritten DEF Handlers, Phases, Blank, NoFlow
<1>2. turn' = [turn EXCEPT ![t] = h]
  BY DEF Fail
<1> HIDE DEF h
<1>3. faults' \in Nat /\ faults' >= faults
  BY DEF TypeOK, Fault
<1> QED BY <1>1, <1>2, <1>3 DEF Alone, TypeOK

(* A turn that stores nothing takes nothing from the history. *)
LEMMA SilentKeeps ==
  ASSUME ChatInv, NEW t \in Turns, turn[t].pc # "done", Alone(t), UNCHANGED messages,
         turn'[t].born <= session.born,
         turn'[t].pc \notin {"assistant", "done"},
         turn'[t].pc = "unavailable" => ~session.live \/ faults' > 0
  PROVE  ChatInv'
<1>1. TypeOK'
  BY DEF ChatInv, TypeOK, Alone
<1>2. ASSUME NEW q \in Turns PROVE TurnSound(q)'
  <2>1. CASE q = t
    BY <2>1 DEF TurnSound, Current, Alone
  <2>2. CASE q # t
    <3>1. TurnSound(q) /\ turn'[q] = turn[q] /\ (Current(q)' <=> Current(q))
      BY <2>2 DEF ChatInv, Alone, Current
    <3>2. faults > 0 => faults' > 0
      BY DEF Alone, ChatInv, TypeOK
    <3>3. turn'[q].born <= session'.born
      BY <3>1 DEF TurnSound, Alone
    <3> QED BY <3>1, <3>2, <3>3 DEF TurnSound, Stored
  <2> QED BY <2>1, <2>2
<1>3. AnswersSound'
  <2>1. ASSUME NEW i \in DOMAIN messages, messages[i].role = "assistant"
        PROVE  turn'[messages[i].turn] = turn[messages[i].turn]
    <3>1. messages[i].turn \in Turns
      BY AuthorIsTurn DEF ChatInv, TypeOK
    <3>2. turn[messages[i].turn].pc = "done"
      BY <2>1 DEF ChatInv, AnswersSound
    <3> QED BY <3>1, <3>2 DEF Alone
  <2> QED BY <2>1 DEF ChatInv, AnswersSound, Current, Alone
<1> QED BY <1>1, <1>2, <1>3 DEF ChatInv, Alone

(* A turn that stores its question, or after it its answer. *)
LEMMA StoringKeeps ==
  ASSUME ChatInv, NEW t \in Turns, NEW role \in {"user", "assistant"}, Alone(t),
         session.live, messages' = Append(messages, Message(t, role)),
         turn'[t].born = turn[t].born,
         role = "user" => /\ turn[t].pc \in {"keep", "user"}
                          /\ turn'[t].pc \in {"assistant", "unavailable"},
         role = "assistant" => turn[t].pc = "assistant" /\ turn'[t].pc = "done"
  PROVE  ChatInv'
<1> DEFINE m == Message(t, role)
           n == Len(messages) + 1
<1>1. m \in Written /\ m.turn = t /\ m.role = role
  BY DEF Message, Written, ChatInv, TypeOK, Handlers
<1>2. messages \in Seq(Written)
  BY DEF ChatInv, TypeOK
<1> HIDE DEF m
<1>3. /\ messages' \in Seq(Written)
      /\ DOMAIN messages' = 1 .. n /\ DOMAIN messages = 1 .. (n - 1) /\ n \in Nat
      /\ messages'[n] = m
      /\ \A i \in 1 .. (n - 1) : messages'[i] = messages[i]
  BY <1>1, <1>2 DEF m
<1>4. TypeOK'
  BY <1>3 DEF ChatInv, TypeOK, Alone
<1>5. \A q \in Turns : Current(q)' <=> Current(q)
  BY DEF Alone, Current
<1>6. \A q \in Turns, rl \in {"user", "assistant"} : Stored(q, rl) => Stored(q, rl)'
  BY <1>3 DEF Stored
<1>7. Stored(t, role)'
  BY <1>1, <1>3 DEF Stored
<1>8. ASSUME NEW q \in Turns PROVE TurnSound(q)'
  <2>1. TurnSound(q)
    BY DEF ChatInv
  <2>2. turn'[q].born <= session'.born
    BY <2>1 DEF TurnSound, Alone
  <2>3. CASE q = t
    BY <1>5, <1>6, <1>7, <2>1, <2>2, <2>3 DEF TurnSound
  <2>4. CASE q # t
    <3>1. turn'[q] = turn[q] /\ (faults > 0 => faults' > 0)
      BY <2>4 DEF Alone, ChatInv, TypeOK
    <3> QED BY <1>5, <1>6, <2>1, <2>2, <3>1 DEF TurnSound
  <2> QED BY <2>3, <2>4
<1>9. ASSUME NEW i \in 1 .. n, messages'[i].role = "assistant"
      PROVE  \E q \in Turns :
               /\ messages'[i].turn = q /\ turn'[q].pc = "done"
               /\ Current(q)' =>
                    \E j \in 1 .. (i - 1) : messages'[j].turn = q /\ messages'[j].role = "user"
  <2>1. CASE i = n
    <3>1. role = "assistant" /\ messages'[i].turn = t
      BY <1>1, <1>3, <1>9, <2>1
    <3>2. Current(t) => Stored(t, "user")
      BY <3>1 DEF ChatInv, TurnSound
    <3>3. Stored(t, "user") =>
            \E j \in 1 .. (i - 1) : messages'[j].turn = t /\ messages'[j].role = "user"
      BY <1>3, <2>1 DEF Stored
    <3> QED BY <1>5, <3>1, <3>2, <3>3
  <2>2. CASE i # n
    <3>1. i \in DOMAIN messages /\ messages'[i] = messages[i]
      BY <1>3, <2>2
    <3>2. PICK q \in Turns : messages[i].turn = q
      BY <1>2, <3>1, AuthorIsTurn
    <3>3. /\ turn[q].pc = "done"
          /\ Current(q) =>
               \E j \in 1 .. (i - 1) : messages[j].turn = q /\ messages[j].role = "user"
      BY <1>9, <3>1, <3>2 DEF ChatInv, AnswersSound
    <3>4. turn'[q] = turn[q]
      BY <3>2, <3>3 DEF Alone
    <3>5. \A j \in 1 .. (i - 1) : messages'[j] = messages[j]
      <4>1. ASSUME NEW j \in 1 .. (i - 1) PROVE j \in 1 .. (n - 1)
        BY <1>3, <2>2
      <4> QED BY <1>3, <4>1
    <3>6. Current(q)' =>
            \E j \in 1 .. (i - 1) : messages'[j].turn = q /\ messages'[j].role = "user"
      BY <1>5, <3>3, <3>5
    <3> QED BY <3>1, <3>2, <3>3, <3>4, <3>6
  <2> QED BY <2>1, <2>2
<1>10. AnswersSound'
  BY <1>3, <1>9 DEF AnswersSound
<1> QED BY <1>4, <1>8, <1>10 DEF ChatInv, Alone

-----------------------------------------------------------------------------
LEMMA SelectKeeps ==
  ASSUME ChatInv, NEW t \in Turns, SelectSession(t) PROVE ChatInv'
<1> DEFINE p == IF session.live THEN "title" ELSE "insert"
           h == [turn[t] EXCEPT !.pc = p, !.born = session.born]
<1>1. /\ turn[t].pc = "idle" /\ UNCHANGED <<session, messages, faults>>
      /\ turn' = [turn EXCEPT ![t] = h]
  BY DEF SelectSession, ChatInv, TypeOK, Handlers
<1>2. turn[t] \in Handlers /\ session.born \in Nat
  BY DEF ChatInv, TypeOK
<1>3. h \in Handlers /\ h.pc \in {"title", "insert"} /\ h.born = session.born
  BY <1>2 DEF Handlers, Phases
<1> HIDE DEF h
<1>4. Alone(t) /\ turn'[t] = h
  BY <1>1, <1>3 DEF Alone, ChatInv, TypeOK
<1> QED BY <1>1, <1>2, <1>3, <1>4, SilentKeeps

(* The new session is younger than every turn but the one that created it. *)
LEMMA InsertSessionKeeps ==
  ASSUME ChatInv, NEW t \in Turns, InsertSession(t) PROVE ChatInv'
<1>1. turn[t].pc = "insert" /\ UNCHANGED <<messages, faults>>
  BY DEF InsertSession
<1>2. CASE session.live /\ Fail(t) /\ UNCHANGED session
  <2>1. Alone(t) /\ turn'[t].pc = "failed" /\ turn'[t].born = 0
    BY <1>1, <1>2, Fails DEF ChatInv
  <2>2. 0 <= session.born
    BY DEF ChatInv, TypeOK
  <2> QED BY <1>1, <2>1, <2>2, SilentKeeps
<1>3. CASE /\ ~session.live
           /\ session' = [live |-> TRUE, title |-> "none", born |-> session.born + 1]
           /\ turn' = [turn EXCEPT ![t].pc = "title", ![t].born = session.born + 1]
  <2> DEFINE h == [turn[t] EXCEPT !.pc = "title", !.born = session.born + 1]
  <2>1. turn[t] \in Handlers /\ session.born \in Nat /\ messages = <<>>
    BY <1>3 DEF ChatInv, TypeOK
  <2>2. h \in Handlers /\ h.pc = "title" /\ h.born = session.born + 1
    <3>1. session.born + 1 \in Nat
      BY <2>1
    <3> QED BY <2>1, <3>1 DEF Handlers, Phases
  <2>3. turn' = [turn EXCEPT ![t] = h]
    BY <1>3, <2>1 DEF ChatInv, TypeOK, Handlers
  <2> HIDE DEF h
  <2>4. /\ turn' \in [Turns -> Handlers] /\ turn'[t] = h
        /\ \A q \in Turns \ {t} : turn'[q] = turn[q]
    BY <2>2, <2>3 DEF ChatInv, TypeOK
  <2>5. TypeOK'
    BY <1>1, <1>3, <2>1, <2>4 DEF ChatInv, TypeOK
  <2>6. ASSUME NEW q \in Turns PROVE TurnSound(q)'
    <3>1. CASE q = t
      BY <1>3, <2>1, <2>2, <2>4, <3>1 DEF TurnSound
    <3>2. CASE q # t
      <4>1. turn'[q] = turn[q] /\ turn[q].born \in Nat /\ turn[q].born <= session.born
        BY <2>4, <3>2 DEF ChatInv, TypeOK, Handlers, TurnSound
      <4> QED BY <1>3, <2>1, <4>1 DEF TurnSound, Current
    <3> QED BY <3>1, <3>2
  <2>7. AnswersSound'
    BY <1>1, <2>1 DEF AnswersSound
  <2> QED BY <1>3, <2>5, <2>6, <2>7 DEF ChatInv
<1> QED BY <1>2, <1>3 DEF InsertSession

LEMMA TitleKeeps ==
  ASSUME ChatInv, NEW t \in Turns, MaybeTitle(t) PROVE ChatInv'
<1> DEFINE h == [turn[t] EXCEPT !.pc = "history"]
<1>1. /\ turn[t].pc = "title" /\ UNCHANGED <<messages, faults>>
      /\ turn' = [turn EXCEPT ![t] = h]
  BY DEF MaybeTitle, Goto
<1>2. turn[t] \in Handlers /\ TurnSound(t)
  BY DEF ChatInv, TypeOK
<1>3. h \in Handlers /\ h.pc = "history" /\ h.born = turn[t].born
  BY <1>2 DEF Handlers, Phases
<1> HIDE DEF h
<1>4. /\ session' \in [live : BOOLEAN, title : {"none", "derived", "renamed"}, born : Nat]
      /\ session'.live = session.live /\ session'.born = session.born
  BY DEF MaybeTitle, ChatInv, TypeOK
<1>5. Alone(t) /\ turn'[t] = h
  BY <1>1, <1>3, <1>4 DEF Alone, ChatInv, TypeOK
<1> QED BY <1>1, <1>2, <1>3, <1>5, SilentKeeps DEF TurnSound

(* Loading, classifying, starting a run and asking the model store nothing. *)
LEMMA ThinkingKeeps ==
  ASSUME ChatInv, NEW t \in Turns,
         \/ LoadHistory(t) \/ Classify(t) \/ StartRun(t) \/ Answer(t) \/ ModelFails(t)
  PROVE  ChatInv'
<1>1. /\ turn[t] \in Handlers /\ TurnSound(t) /\ messages \in Seq(Written)
      /\ turn \in [Turns -> Handlers]
  BY DEF ChatInv, TypeOK
<1>2. PICK h \in Handlers :
        /\ turn' = [turn EXCEPT ![t] = h]
        /\ h.pc \in {"classify", "start", "model", "user", "keep"} /\ h.born = turn[t].born
  <2>1. CASE LoadHistory(t)
    <3> DEFINE h == [turn[t] EXCEPT !.pc = "classify", !.seen = messages]
    <3>1. turn' = [turn EXCEPT ![t] = h]
      BY <1>1, <2>1 DEF LoadHistory, Handlers
    <3>2. h \in Handlers /\ h.pc = "classify" /\ h.born = turn[t].born
      BY <1>1 DEF Handlers, Phases
    <3> QED BY <3>1, <3>2
  <2>2. CASE Classify(t)
    <3>1. CASE \E wf \in Workflows \cup Copilots, fetched \in BOOLEAN :
                 turn' = [turn EXCEPT ![t].pc = "start", ![t].wf = wf, ![t].fetched = fetched]
      <4>1. PICK wf \in Workflows \cup Copilots, fetched \in BOOLEAN :
              turn' = [turn EXCEPT ![t].pc = "start", ![t].wf = wf, ![t].fetched = fetched]
        BY <3>1
      <4> DEFINE h == [turn[t] EXCEPT !.pc = "start", !.wf = wf, !.fetched = fetched]
      <4>2. turn' = [turn EXCEPT ![t] = h]
        BY <1>1, <4>1 DEF Handlers
      <4>3. h \in Handlers /\ h.pc = "start" /\ h.born = turn[t].born
        BY <1>1 DEF Handlers, Phases
      <4> QED BY <4>2, <4>3
    <3>2. CASE \E general \in BOOLEAN :
                 turn' = [turn EXCEPT ![t].pc = "model",
                            ![t].remind = general /\ ~HadReminder(turn[t].seen)]
      <4>1. PICK general \in BOOLEAN :
              turn' = [turn EXCEPT ![t].pc = "model",
                         ![t].remind = general /\ ~HadReminder(turn[t].seen)]
        BY <3>2
      <4> DEFINE b == general /\ ~HadReminder(turn[t].seen)
      <4>2. b \in BOOLEAN
        OBVIOUS
      <4>3. turn' = [turn EXCEPT ![t].pc = "model", ![t].remind = b]
        BY <4>1
      <4> HIDE DEF b
      <4> DEFINE h == [turn[t] EXCEPT !.pc = "model", !.remind = b]
      <4>4. turn' = [turn EXCEPT ![t] = h]
        BY <1>1, <4>3 DEF Handlers
      <4>5. h \in Handlers /\ h.pc = "model" /\ h.born = turn[t].born
        BY <1>1, <4>2 DEF Handlers, Phases
      <4> QED BY <4>4, <4>5
    <3> QED BY <2>2, <3>1, <3>2 DEF Classify
  <2>3. CASE StartRun(t)
    <3> DEFINE h == [turn[t] EXCEPT !.pc = "model", !.wf = NoFlow, !.fetched = FALSE]
    <3>1. turn' = [turn EXCEPT ![t] = h]
      BY <1>1, <2>3 DEF StartRun, Handlers
    <3>2. h \in Handlers /\ h.pc = "model" /\ h.born = turn[t].born
      BY <1>1 DEF Handlers, Phases
    <3> QED BY <3>1, <3>2
  <2>4. CASE Answer(t)
    <3> DEFINE h == [turn[t] EXCEPT !.pc = "user"]
    <3>1. turn' = [turn EXCEPT ![t] = h]
      BY <2>4 DEF Answer, Goto
    <3>2. h \in Handlers /\ h.pc = "user" /\ h.born = turn[t].born
      BY <1>1 DEF Handlers, Phases
    <3> QED BY <3>1, <3>2
  <2>5. CASE ModelFails(t)
    <3> DEFINE h == [turn[t] EXCEPT !.pc = "keep", !.seen = <<>>, !.remind = FALSE]
    <3>1. turn' = [turn EXCEPT ![t] = h]
      BY <1>1, <2>5 DEF ModelFails, Handlers
    <3>2. h \in Handlers /\ h.pc = "keep" /\ h.born = turn[t].born
      BY <1>1, NothingWritten DEF Handlers, Phases
    <3> QED BY <3>1, <3>2
  <2> QED BY <2>1, <2>2, <2>3, <2>4, <2>5
<1>3. /\ turn[t].pc # "done" /\ UNCHANGED <<session, messages, faults>>
  BY DEF LoadHistory, Classify, StartRun, Answer, ModelFails
<1>4. Alone(t) /\ turn'[t] = h
  BY <1>1, <1>2, <1>3 DEF Alone, ChatInv, TypeOK
<1> QED BY <1>1, <1>2, <1>3, <1>4, SilentKeeps DEF TurnSound

LEMMA BreaksKeep ==
  ASSUME ChatInv, NEW t \in Turns, Disconnect(t) \/ Die(t) PROVE ChatInv'
<1>1. /\ turn[t].pc # "done" /\ UNCHANGED <<session, messages>> /\ Fail(t)
      /\ faults' = faults \/ Fault
  BY DEF Disconnect, Die, Active
<1>2. Alone(t) /\ turn'[t].pc = "failed" /\ turn'[t].born = 0
  BY <1>1, Fails DEF ChatInv
<1>3. 0 <= session.born
  BY DEF ChatInv, TypeOK
<1> QED BY <1>1, <1>2, <1>3, SilentKeeps

LEMMA KeepKeeps ==
  ASSUME ChatInv, NEW t \in Turns, KeepUserTurn(t) PROVE ChatInv'
<1>1. /\ turn[t].pc = "keep" /\ UNCHANGED session /\ Goto(t, "unavailable")
      /\ faults' = faults \/ Fault
  BY DEF KeepUserTurn
<1>2. Alone(t) /\ turn'[t].pc = "unavailable" /\ turn'[t].born = turn[t].born
  BY <1>1, Goes DEF ChatInv, Phases
<1>3. CASE session.live /\ messages' = Append(messages, Message(t, "user"))
  BY <1>1, <1>2, <1>3, StoringKeeps
<1>4. CASE UNCHANGED messages /\ (~session.live \/ Fault)
  <2>1. Fault => faults' > 0
    BY DEF Fault, ChatInv, TypeOK
  <2>2. turn[t].born <= session.born
    BY DEF ChatInv, TurnSound
  <2> QED BY <1>1, <1>2, <1>4, <2>1, <2>2, SilentKeeps
<1> QED BY <1>3, <1>4 DEF KeepUserTurn

LEMMA PersistKeeps ==
  ASSUME ChatInv, NEW t \in Turns, PersistTurn(t) PROVE ChatInv'
<1>1. PICK role \in {"user", "assistant"} :
        Persist(t, role, IF role = "user" THEN "assistant" ELSE "done")
  BY DEF PersistTurn
<1> DEFINE next == IF role = "user" THEN "assistant" ELSE "done"
<1>2. turn[t].pc = role /\ UNCHANGED <<session, faults>> /\ next \in Phases
  BY <1>1 DEF Persist, Phases
<1>3. CASE /\ session.live
           /\ messages' = Append(messages, Message(t, role))
           /\ Goto(t, next)
  <2>1. Alone(t) /\ turn'[t].pc = next /\ turn'[t].born = turn[t].born
    BY <1>2, <1>3, Goes DEF ChatInv
  <2> QED BY <1>2, <1>3, <2>1, StoringKeeps
<1>4. CASE Fail(t) /\ UNCHANGED messages
  <2>1. Alone(t) /\ turn'[t].pc = "failed" /\ turn'[t].born = 0
    BY <1>2, <1>4, Fails DEF ChatInv
  <2>2. 0 <= session.born
    BY DEF ChatInv, TypeOK
  <2> QED BY <1>2, <1>4, <2>1, <2>2, SilentKeeps
<1> QED BY <1>1, <1>3, <1>4 DEF Persist

(* Renaming changes the title only; what a deletion leaves has no messages, and
   no turn is current until the session is created again, younger than all. *)
LEMMA SessionKeeps ==
  ASSUME ChatInv, Rename \/ Delete PROVE ChatInv'
<1>1. /\ UNCHANGED <<turn, faults>>
      /\ session' \in [live : BOOLEAN, title : {"none", "derived", "renamed"}, born : Nat]
      /\ session'.born = session.born
      /\ \/ session'.live = session.live /\ UNCHANGED messages
         \/ ~session'.live /\ messages' = <<>>
  BY DEF Rename, Delete, ChatInv, TypeOK
<1>2. TypeOK'
  BY <1>1, NothingWritten DEF ChatInv, TypeOK
<1>3. ASSUME NEW t \in Turns PROVE TurnSound(t)'
  BY <1>1 DEF ChatInv, TurnSound, Current, Stored
<1>4. AnswersSound'
  BY <1>1 DEF ChatInv, AnswersSound, Current
<1> QED BY <1>1, <1>2, <1>3, <1>4 DEF ChatInv

-----------------------------------------------------------------------------
LEMMA NextKeepsChat ==
  ASSUME ChatInv, [Next]_vars PROVE ChatInv'
<1>1. CASE UNCHANGED vars
  BY <1>1 DEF vars, ChatInv, TypeOK, TurnSound, AnswersSound, Current, Stored
<1>2. ASSUME NEW t \in Turns,
             SelectSession(t) \/ Own(t) \/ ModelCall(t) \/ Disconnect(t) \/ Die(t)
      PROVE  ChatInv'
  <2>1. CASE SelectSession(t)
    BY <2>1, SelectKeeps
  <2>2. CASE InsertSession(t)
    BY <2>2, InsertSessionKeeps
  <2>3. CASE MaybeTitle(t)
    BY <2>3, TitleKeeps
  <2>4. CASE LoadHistory(t) \/ Classify(t) \/ StartRun(t) \/ ModelCall(t)
    BY <2>4, ThinkingKeeps DEF ModelCall
  <2>5. CASE KeepUserTurn(t)
    BY <2>5, KeepKeeps
  <2>6. CASE PersistTurn(t)
    BY <2>6, PersistKeeps
  <2>7. CASE Disconnect(t) \/ Die(t)
    BY <2>7, BreaksKeep
  <2> QED BY <1>2, <2>1, <2>2, <2>3, <2>4, <2>5, <2>6, <2>7 DEF Own
<1>3. CASE Rename \/ Delete
  BY <1>3, SessionKeeps
<1> QED BY <1>1, <1>2, <1>3 DEF Next

(* What the client was told and what the session holds agree, however turns,
   renaming, deletion and faults interleave: _persist stores the question before
   the answer, and a deleted session takes its messages with it. *)
THEOREM HistoryAlwaysFaithful == ASSUME ChatAssumption PROVE Spec => []HistoryFaithful
<1>1. Init => ChatInv
  BY InitChat
<1>2. ChatInv /\ [Next]_vars => ChatInv'
  BY NextKeepsChat
<1>3. ChatInv => HistoryFaithful
  BY InvIsFaithful
<1> QED BY <1>1, <1>2, <1>3, PTL DEF Spec

-----------------------------------------------------------------------------
(***************************************************************************)
(* What a turn saw, and what it makes of it.                               *)
(***************************************************************************)
Early == {"idle", "insert", "title", "history"}
Step(t) == SelectSession(t) \/ Own(t) \/ ModelCall(t) \/ Disconnect(t) \/ Die(t)

(* How a step of turn t changes what the turn has seen and the history. *)
Forgets(t) == turn'[t].seen = <<>> /\ ~turn'[t].remind /\ UNCHANGED messages
Loads(t) ==
  /\ turn[t].pc = "history" /\ UNCHANGED messages
  /\ turn'[t].seen = messages /\ turn'[t].remind = turn[t].remind
  /\ turn'[t].pc \notin Early
Judges(t) ==
  /\ turn'[t].seen = turn[t].seen /\ UNCHANGED messages
  /\ turn'[t].remind => turn[t].remind \/ ~HadReminder(turn[t].seen)
  /\ turn'[t].pc \notin Early
Stores(t) ==
  \E role \in {"user", "assistant"} :
    /\ messages' = Append(messages, Message(t, role))
    /\ role = "assistant" => turn[t].pc = "assistant"
Remembers(t) ==
  /\ turn'[t].seen = turn[t].seen /\ turn'[t].remind = turn[t].remind
  /\ turn'[t].pc \in Early => turn[t].pc \in Early
  /\ UNCHANGED messages \/ Stores(t)

LEMMA StepShape ==
  ASSUME TypeOK, TypeOK', NEW t \in Turns, Step(t)
  PROVE  /\ turn[t].pc # "done"
         /\ \A q \in Turns \ {t} : turn'[q] = turn[q]
         /\ Forgets(t) \/ Loads(t) \/ Judges(t) \/ Remembers(t)
<1>1. turn \in [Turns -> Handlers] /\ turn[t] \in Handlers
  BY DEF TypeOK
<1>2. ASSUME NEW p, Goto(t, p)
      PROVE  /\ \A q \in Turns \ {t} : turn'[q] = turn[q]
             /\ turn'[t].seen = turn[t].seen /\ turn'[t].remind = turn[t].remind
             /\ turn'[t].pc = p
  BY <1>1, <1>2 DEF Goto, Handlers
<1>3. ASSUME Fail(t), UNCHANGED messages
      PROVE  (\A q \in Turns \ {t} : turn'[q] = turn[q]) /\ Forgets(t)
  BY <1>1, <1>3 DEF Fail, Forgets, Blank
<1>4. CASE SelectSession(t)
  BY <1>1, <1>4 DEF SelectSession, Remembers, Handlers, Early
<1>5. CASE InsertSession(t)
  <2>1. CASE Fail(t)
    BY <1>3, <1>5, <2>1 DEF InsertSession
  <2>2. CASE ~Fail(t)
    BY <1>1, <1>5, <2>2 DEF InsertSession, Remembers, Handlers, Early
  <2> QED BY <2>1, <2>2
<1>6. CASE MaybeTitle(t)
  BY <1>2, <1>6 DEF MaybeTitle, Remembers, Early
<1>7. CASE LoadHistory(t)
  BY <1>1, <1>7 DEF LoadHistory, Loads, Handlers, Early
<1>8. CASE Classify(t)
  <2>1. turn[t].pc = "classify" /\ UNCHANGED messages
    BY <1>8 DEF Classify
  <2>2. CASE \E wf \in Workflows \cup Copilots, fetched \in BOOLEAN :
               turn' = [turn EXCEPT ![t].pc = "start", ![t].wf = wf, ![t].fetched = fetched]
    <3>1. PICK wf \in Workflows \cup Copilots, fetched \in BOOLEAN :
            turn' = [turn EXCEPT ![t].pc = "start", ![t].wf = wf, ![t].fetched = fetched]
      BY <2>2
    <3> QED BY <1>1, <2>1, <3>1 DEF Judges, Handlers, Early
  <2>3. CASE \E general \in BOOLEAN :
               turn' = [turn EXCEPT ![t].pc = "model",
                          ![t].remind = general /\ ~HadReminder(turn[t].seen)]
    <3>1. PICK general \in BOOLEAN :
            turn' = [turn EXCEPT ![t].pc = "model",
                       ![t].remind = general /\ ~HadReminder(turn[t].seen)]
      BY <2>3
    <3> DEFINE b == general /\ ~HadReminder(turn[t].seen)
    <3>2. turn' = [turn EXCEPT ![t].pc = "model", ![t].remind = b]
      BY <3>1
    <3>3. b => ~HadReminder(turn[t].seen)
      OBVIOUS
    <3> HIDE DEF b
    <3>4. /\ \A q \in Turns \ {t} : turn'[q] = turn[q]
          /\ turn'[t].seen = turn[t].seen /\ turn'[t].remind = b /\ turn'[t].pc = "model"
      BY <1>1, <3>2 DEF Handlers
    <3> QED BY <2>1, <3>3, <3>4 DEF Judges, Early
  <2> QED BY <1>8, <2>2, <2>3 DEF Classify
<1>9. CASE StartRun(t)
  BY <1>1, <1>9 DEF StartRun, Remembers, Handlers, Early
<1>10. CASE Answer(t)
  BY <1>2, <1>10 DEF Answer, Remembers, Early
<1>11. CASE ModelFails(t)
  BY <1>1, <1>11 DEF ModelFails, Forgets, Handlers
<1>12. CASE Disconnect(t) \/ Die(t)
  BY <1>3, <1>12 DEF Disconnect, Die, Active
<1>13. CASE KeepUserTurn(t)
  <2>1. /\ turn[t].pc = "keep" /\ Goto(t, "unavailable")
        /\ UNCHANGED messages \/ messages' = Append(messages, Message(t, "user"))
    BY <1>13 DEF KeepUserTurn
  <2>2. UNCHANGED messages \/ Stores(t)
    BY <2>1 DEF Stores
  <2> QED BY <1>2, <2>1, <2>2 DEF Remembers, Early
<1>14. CASE PersistTurn(t)
  <2>1. PICK role \in {"user", "assistant"}, next \in {"assistant", "done"} :
          Persist(t, role, next)
    BY <1>14 DEF PersistTurn
  <2>2. turn[t].pc = role
    BY <2>1 DEF Persist
  <2>3. CASE Fail(t) /\ UNCHANGED messages
    BY <1>3, <2>2, <2>3
  <2>4. CASE Goto(t, next) /\ messages' = Append(messages, Message(t, role))
    <3>1. Stores(t)
      BY <2>2, <2>4 DEF Stores
    <3> QED BY <1>2, <2>2, <2>4, <3>1 DEF Remembers, Early
  <2> QED BY <2>1, <2>3, <2>4 DEF Persist
<1> QED
  BY <1>4, <1>5, <1>6, <1>7, <1>8, <1>9, <1>10, <1>11, <1>12, <1>13, <1>14
  DEF Step, Own, ModelCall

-----------------------------------------------------------------------------
(* Answers are told apart by their turns. *)
AnswersDistinct(msgs) ==
  \A i, j \in DOMAIN msgs :
    /\ msgs[i].role = "assistant" /\ msgs[j].role = "assistant"
    /\ msgs[i].turn = msgs[j].turn
    => i = j

(* A history that was loaded is the beginning of the history as it is, or is of
   a session that was deleted since, and shares no answer with it. *)
Begins(seen, msgs) ==
  Len(seen) <= Len(msgs) /\ \A k \in DOMAIN seen : msgs[k] = seen[k]
Apart(seen, msgs) ==
  \A k \in DOMAIN seen, i \in DOMAIN msgs : seen[k].role = "assistant" => msgs[i] # seen[k]

(* What the handler h has seen: answers of turns that are done, by tr; and it is
   to remind only if the last of them did not. *)
SeenSound(h, msgs, tr) ==
  /\ \A k \in DOMAIN h.seen : h.seen[k].role = "assistant" => tr[h.seen[k].turn].pc = "done"
  /\ Begins(h.seen, msgs) \/ Apart(h.seen, msgs)
  /\ h.remind => ~HadReminder(h.seen)
  /\ h.pc \in Early => ~h.remind

RemindersSpaced(msgs, tr) ==
  \A i, j \in DOMAIN msgs :
    i < j /\ Reminded(msgs[i]) /\ Reminded(msgs[j]) =>
      \/ \E n \in (i + 1) .. (j - 1) : msgs[n].role = "assistant"
      \/ msgs[i] \notin Range(tr[msgs[j].turn].seen)

ReminderInv ==
  /\ AnswersDistinct(messages)
  /\ \A t \in Turns : SeenSound(turn[t], messages, turn)
  /\ RemindersSpaced(messages, turn)

LEMMA InitReminder == ASSUME ChatAssumption PROVE Init => ReminderInv
<1> SUFFICES ASSUME Init PROVE ReminderInv
  OBVIOUS
<1>1. ASSUME NEW t \in Turns PROVE SeenSound(turn[t], messages, turn)
  BY <1>1 DEF Init, SeenSound, Blank, Begins, HadReminder
<1>2. AnswersDistinct(messages) /\ RemindersSpaced(messages, turn)
  BY DEF Init, AnswersDistinct, RemindersSpaced
<1> QED BY <1>1, <1>2 DEF ReminderInv

(* What the history is after a message was added at its end. *)
LEMMA Added ==
  ASSUME TypeOK, NEW t \in Turns, NEW role \in {"user", "assistant"},
         messages' = Append(messages, Message(t, role))
  PROVE  LET n == Len(messages) + 1 IN
           /\ n \in Nat /\ Len(messages') = n
           /\ DOMAIN messages' = 1 .. n /\ DOMAIN messages = 1 .. (n - 1)
           /\ messages'[n] = Message(t, role)
           /\ \A i \in 1 .. (n - 1) : messages'[i] = messages[i]
<1> DEFINE m == Message(t, role)
<1>1. m \in Written
  BY DEF Message, Written, TypeOK, Handlers
<1>2. messages \in Seq(Written) /\ messages' = Append(messages, m)
  BY DEF TypeOK
<1> HIDE DEF m
<1>3. /\ Len(messages') = Len(messages) + 1 /\ Len(messages) \in Nat
      /\ DOMAIN messages' = 1 .. Len(messages) + 1 /\ DOMAIN messages = 1 .. Len(messages)
      /\ messages'[Len(messages) + 1] = m
      /\ \A i \in 1 .. Len(messages) : messages'[i] = messages[i]
  BY <1>1, <1>2
<1> QED BY <1>3 DEF m

(* What a turn has seen stays sound while the history grows, if at all, by a
   message of a turn that was not done. *)
LEMMA SeenKeeps ==
  ASSUME TypeOK, TypeOK', NEW t \in Turns, Step(t), UNCHANGED messages \/ Stores(t),
         NEW h \in Handlers, SeenSound(h, messages, turn),
         NEW g \in Handlers, g.seen = h.seen,
         g.remind => ~HadReminder(g.seen), g.pc \in Early => ~g.remind
  PROVE  SeenSound(g, messages', turn')
<1> DEFINE seen == h.seen
<1>1. seen \in Seq(Written) /\ \A k \in DOMAIN seen : seen[k].turn \in Turns
  <2>1. seen \in Seq(Written)
    BY DEF Handlers
  <2>2. \A k \in DOMAIN seen : seen[k] \in Written
    BY <2>1
  <2> QED BY <2>1, <2>2 DEF Written
<1>2. \A k \in DOMAIN seen : seen[k].role = "assistant" => turn[seen[k].turn].pc = "done"
  BY DEF SeenSound
<1>3. Begins(seen, messages) \/ Apart(seen, messages)
  BY DEF SeenSound
<1> HIDE DEF seen
<1>4. ASSUME NEW k \in DOMAIN seen, seen[k].role = "assistant"
      PROVE  turn'[seen[k].turn].pc = "done"
  BY <1>1, <1>2, <1>4, StepShape
<1>5. Begins(seen, messages') \/ Apart(seen, messages')
  <2>1. CASE UNCHANGED messages
    BY <1>3, <2>1
  <2>2. CASE Stores(t)
    <3>1. PICK role \in {"user", "assistant"} :
            messages' = Append(messages, Message(t, role))
      BY <2>2 DEF Stores
    <3> DEFINE n == Len(messages) + 1
    <3>2. /\ n \in Nat /\ Len(messages') = n /\ Len(messages) = n - 1
          /\ DOMAIN messages' = 1 .. n /\ DOMAIN messages = 1 .. (n - 1)
          /\ messages'[n] = Message(t, role)
          /\ \A i \in 1 .. (n - 1) : messages'[i] = messages[i]
      BY <3>1, Added DEF TypeOK
    <3> HIDE DEF n
    <3>3. CASE Begins(seen, messages)
      <4>1. Len(seen) \in Nat /\ DOMAIN seen = 1 .. Len(seen) /\ Len(seen) <= n - 1
        BY <1>1, <3>2, <3>3 DEF Begins
      <4>2. \A k \in DOMAIN seen : messages'[k] = seen[k]
        BY <3>2, <3>3, <4>1 DEF Begins
      <4> QED BY <3>2, <4>1, <4>2 DEF Begins
    <3>4. CASE Apart(seen, messages)
      <4>1. ASSUME NEW k \in DOMAIN seen, seen[k].role = "assistant", NEW i \in 1 .. n
            PROVE  messages'[i] # seen[k]
        <5>1. seen[k].turn # t
          BY <1>2, <4>1, StepShape
        <5>2. messages'[n].turn = t
          BY <3>2 DEF Message
        <5>3. i # n => i \in 1 .. (n - 1)
          BY <3>2
        <5>4. i \in 1 .. (n - 1) => messages'[i] # seen[k]
          BY <3>2, <3>4, <4>1 DEF Apart
        <5> QED BY <5>1, <5>2, <5>3, <5>4
      <4> QED BY <3>2, <4>1 DEF Apart
    <3> QED BY <1>3, <3>3, <3>4
  <2> QED BY <2>1, <2>2
<1> QED BY <1>4, <1>5 DEF SeenSound, seen

(* Every step of a turn leaves what every turn has seen sound. *)
LEMMA AllSeenKeep ==
  ASSUME ChatInv, TypeOK', ReminderInv, NEW t \in Turns, Step(t), NEW q \in Turns
  PROVE  SeenSound(turn'[q], messages', turn')
<1>1. /\ TypeOK /\ messages \in Seq(Written) /\ turn[q] \in Handlers /\ turn'[q] \in Handlers
      /\ SeenSound(turn[q], messages, turn)
  BY DEF ChatInv, TypeOK, ReminderInv
<1>2. UNCHANGED messages \/ Stores(t)
  BY <1>1, StepShape DEF Forgets, Loads, Judges, Remembers
<1>3. CASE q # t
  <2>1. turn'[q] = turn[q]
    BY <1>1, <1>3, StepShape
  <2> QED BY <1>1, <1>2, <2>1, SeenKeeps DEF SeenSound
<1>4. CASE q = t /\ (Judges(t) \/ Remembers(t))
  <2>1. /\ turn'[q].seen = turn[q].seen
        /\ turn'[q].remind => ~HadReminder(turn'[q].seen)
        /\ turn'[q].pc \in Early => ~turn'[q].remind
    BY <1>1, <1>4 DEF SeenSound, Judges, Remembers
  <2> QED BY <1>1, <1>2, <2>1, SeenKeeps
<1>5. CASE q = t /\ Forgets(t)
  <2>1. turn'[q].seen = <<>> /\ ~turn'[q].remind /\ messages' = messages
    BY <1>5 DEF Forgets
  <2>2. Begins(<<>>, messages)
    BY <1>1 DEF Begins
  <2> QED BY <2>1, <2>2 DEF SeenSound
<1>6. CASE q = t /\ Loads(t)
  <2>1. /\ turn'[q].seen = messages /\ turn'[q].pc \notin Early /\ messages' = messages
        /\ ~turn'[q].remind
    BY <1>1, <1>6 DEF Loads, SeenSound, Early
  <2>2. Begins(messages, messages)
    BY <1>1 DEF Begins
  <2>3. ASSUME NEW k \in DOMAIN messages, messages[k].role = "assistant"
        PROVE  turn'[messages[k].turn].pc = "done"
    <3>1. messages[k].turn \in Turns
      BY <1>1, AuthorIsTurn
    <3>2. turn[messages[k].turn].pc = "done"
      BY <2>3 DEF ChatInv, AnswersSound
    <3> QED BY <1>1, <3>1, <3>2, StepShape
  <2> QED BY <2>1, <2>2, <2>3 DEF SeenSound
<1> QED BY <1>1, <1>3, <1>4, <1>5, <1>6, StepShape

(* The answer a turn adds is the only one of that turn, ... *)
LEMMA DistinctKeeps ==
  ASSUME ChatInv, TypeOK', ReminderInv, NEW t \in Turns, Step(t), Stores(t)
  PROVE  AnswersDistinct(messages')
<1>1. TypeOK /\ messages \in Seq(Written) /\ AnswersDistinct(messages)
  BY DEF ChatInv, TypeOK, ReminderInv
<1>2. PICK role \in {"user", "assistant"} : messages' = Append(messages, Message(t, role))
  BY DEF Stores
<1> DEFINE n == Len(messages) + 1
<1>3. /\ n \in Nat
      /\ DOMAIN messages' = 1 .. n /\ DOMAIN messages = 1 .. (n - 1)
      /\ messages'[n] = Message(t, role)
      /\ \A i \in 1 .. (n - 1) : messages'[i] = messages[i]
  BY <1>1, <1>2, Added
<1>4. ASSUME NEW i \in DOMAIN messages, messages[i].role = "assistant"
      PROVE  messages[i].turn # t
  <2>1. turn[messages[i].turn].pc = "done"
    BY <1>4 DEF ChatInv, AnswersSound
  <2> QED BY <1>1, <2>1, StepShape
<1>5. messages'[n].turn = t
  BY <1>3 DEF Message
<1> HIDE DEF n
<1>6. ASSUME NEW i \in 1 .. n, NEW j \in 1 .. n,
             messages'[i].role = "assistant", messages'[j].role = "assistant",
             messages'[i].turn = messages'[j].turn
      PROVE  i = j
  <2>1. \A k \in 1 .. n : k = n \/ k \in 1 .. (n - 1)
    BY <1>3
  <2>2. CASE i \in 1 .. (n - 1) /\ j \in 1 .. (n - 1)
    BY <1>1, <1>3, <1>6, <2>2 DEF AnswersDistinct
  <2>3. CASE i = n /\ j \in 1 .. (n - 1)
    BY <1>3, <1>4, <1>5, <1>6, <2>3
  <2>4. CASE j = n /\ i \in 1 .. (n - 1)
    BY <1>3, <1>4, <1>5, <1>6, <2>4
  <2> QED BY <2>1, <2>2, <2>3, <2>4
<1> QED BY <1>3, <1>6 DEF AnswersDistinct

(* ... and carries the reminder only where the last answer the turn has seen,
   if the history still has it, does not. *)
LEMMA SpacedKeeps ==
  ASSUME ChatInv, TypeOK', ReminderInv, NEW t \in Turns, Step(t), Stores(t)
  PROVE  RemindersSpaced(messages', turn')
<1>1. /\ TypeOK /\ messages \in Seq(Written) /\ AnswersDistinct(messages)
      /\ RemindersSpaced(messages, turn) /\ SeenSound(turn[t], messages, turn)
      /\ turn[t].seen \in Seq(Written)
  BY DEF ChatInv, TypeOK, ReminderInv, Handlers
<1>2. PICK role \in {"user", "assistant"} :
        /\ messages' = Append(messages, Message(t, role))
        /\ role = "assistant" => turn[t].pc = "assistant"
  BY DEF Stores
<1> DEFINE n == Len(messages) + 1
           seen == turn[t].seen
<1>3. /\ n \in Nat /\ Len(messages) = n - 1
      /\ DOMAIN messages' = 1 .. n /\ DOMAIN messages = 1 .. (n - 1)
      /\ messages'[n] = Message(t, role)
      /\ \A i \in 1 .. (n - 1) : messages'[i] = messages[i]
  BY <1>1, <1>2, Added
<1>4. messages'[n].turn = t /\ (Reminded(messages'[n]) => turn[t].remind)
  <2> DEFINE carries == role = "assistant" /\ turn[t].remind
  <2>1. messages'[n] = [turn |-> t, role |-> role, reminded |-> carries]
    BY <1>3 DEF Message
  <2>2. carries => turn[t].remind
    OBVIOUS
  <2> HIDE DEF carries
  <2>3. messages'[n].turn = t /\ messages'[n].reminded = carries
    BY <2>1
  <2> QED BY <2>2, <2>3 DEF Reminded
<1>5. turn'[t].seen = seen
  <2>1. messages' # messages
    BY <1>3
  <2> QED BY <1>1, <2>1, StepShape DEF Forgets, Loads, Judges, Remembers
<1> HIDE DEF n, seen
<1>6. ASSUME NEW i \in 1 .. (n - 1), Reminded(messages[i]), Reminded(messages'[n]),
             messages[i] \in Range(seen)
      PROVE  \E k \in (i + 1) .. (n - 1) : messages'[k].role = "assistant"
  <2>1. ~HadReminder(seen)
    BY <1>1, <1>4, <1>6 DEF SeenSound, seen
  <2>2. PICK k \in DOMAIN seen : seen[k] = messages[i]
    BY <1>6 DEF Range
  <2>3. messages[i].role = "assistant" /\ i \in DOMAIN messages
    BY <1>3, <1>6 DEF Reminded
  <2>4. Begins(seen, messages)
    BY <1>1, <2>2, <2>3 DEF SeenSound, Apart, seen
  <2>5. /\ Len(seen) \in Nat /\ DOMAIN seen = 1 .. Len(seen) /\ Len(seen) <= n - 1
    BY <1>1, <1>3, <2>4 DEF Begins, seen
  <2>6. k \in DOMAIN messages /\ messages[k] = seen[k]
    BY <1>3, <2>4, <2>5 DEF Begins
  <2>7. k = i
    BY <1>1, <2>2, <2>3, <2>6 DEF AnswersDistinct
  <2>8. PICK l \in DOMAIN seen : l > k /\ seen[l].role = "assistant"
    BY <1>6, <2>1, <2>2 DEF HadReminder
  <2>9. l \in (i + 1) .. (n - 1) /\ l \in 1 .. (n - 1)
    BY <1>3, <2>5, <2>7, <2>8
  <2>10. messages'[l] = seen[l]
    BY <1>3, <2>4, <2>9 DEF Begins
  <2> QED BY <2>8, <2>9, <2>10
<1>7. ASSUME NEW i \in 1 .. n, NEW j \in 1 .. n, i < j,
             Reminded(messages'[i]), Reminded(messages'[j]),
             messages'[i] \in Range(turn'[messages'[j].turn].seen)
      PROVE  \E k \in (i + 1) .. (j - 1) : messages'[k].role = "assistant"
  <2>1. i \in 1 .. (n - 1) /\ messages'[i] = messages[i]
    BY <1>3, <1>7
  <2>2. CASE j = n
    BY <1>4, <1>5, <1>6, <1>7, <2>1, <2>2
  <2>3. CASE j # n
    <3>1. j \in 1 .. (n - 1) /\ messages'[j] = messages[j]
      BY <1>3, <2>3
    <3>2. messages[j].turn \in Turns /\ messages[j].role = "assistant"
      BY <1>1, <1>3, <1>7, <3>1, AuthorIsTurn DEF Reminded
    <3>3. turn[messages[j].turn].pc = "done"
      BY <1>3, <3>1, <3>2 DEF ChatInv, AnswersSound
    <3>4. turn'[messages[j].turn] = turn[messages[j].turn]
      BY <1>1, <3>2, <3>3, StepShape
    <3>5. PICK k \in (i + 1) .. (j - 1) : messages[k].role = "assistant"
      BY <1>1, <1>3, <1>7, <2>1, <3>1, <3>4 DEF RemindersSpaced
    <3>6. k \in 1 .. (n - 1)
      BY <1>3, <3>1, <3>5
    <3> QED BY <1>3, <3>5, <3>6
  <2> QED BY <2>2, <2>3
<1> QED BY <1>3, <1>7 DEF RemindersSpaced

LEMMA NextKeepsReminder ==
  ASSUME ChatInv, TypeOK', ReminderInv, [Next]_vars PROVE ReminderInv'
<1>1. CASE UNCHANGED vars
  BY <1>1 DEF vars, ReminderInv
<1>2. ASSUME NEW t \in Turns, Step(t) PROVE ReminderInv'
  <2>1. \A q \in Turns : SeenSound(turn'[q], messages', turn')
    BY <1>2, AllSeenKeep
  <2>2. CASE Stores(t)
    BY <1>2, <2>1, <2>2, DistinctKeeps, SpacedKeeps DEF ReminderInv
  <2>3. CASE ~Stores(t)
    <3>1. UNCHANGED messages
      BY <1>2, <2>3, StepShape DEF ChatInv, Forgets, Loads, Judges, Remembers
    <3>2. ASSUME NEW i \in DOMAIN messages, Reminded(messages[i])
          PROVE  turn'[messages[i].turn] = turn[messages[i].turn]
      <4>1. messages[i].turn \in Turns /\ messages[i].role = "assistant"
        BY <3>2, AuthorIsTurn DEF ChatInv, TypeOK, Reminded
      <4>2. turn[messages[i].turn].pc = "done"
        BY <4>1 DEF ChatInv, AnswersSound
      <4> QED BY <1>2, <4>1, <4>2, StepShape DEF ChatInv
    <3>3. RemindersSpaced(messages, turn')
      BY <3>2 DEF ReminderInv, RemindersSpaced
    <3> QED BY <2>1, <3>1, <3>3 DEF ReminderInv
  <2> QED BY <2>2, <2>3
<1>3. CASE Rename
  BY <1>3 DEF Rename, ReminderInv
<1>4. CASE Delete
  <2>1. messages' = <<>> /\ turn' = turn
    BY <1>4 DEF Delete
  <2>2. AnswersDistinct(<<>>) /\ RemindersSpaced(<<>>, turn)
    BY DEF AnswersDistinct, RemindersSpaced
  <2>3. ASSUME NEW q \in Turns PROVE SeenSound(turn[q], <<>>, turn)
    BY <2>3 DEF ReminderInv, SeenSound, Apart
  <2> QED BY <2>1, <2>2, <2>3 DEF ReminderInv
<1> QED BY <1>1, <1>2, <1>3, <1>4 DEF Next, Step

(* "Never twice in a row": the reminder is weighed against the history loaded at
   the start of a turn, and stored at its end, with other turns and deletions in
   between.  It repeats only where the turn had not seen the answer before. *)
THEOREM ReminderNeverTwice == ASSUME ChatAssumption PROVE Spec => []NoReminderTwice
<1>1. Init => ChatInv /\ ReminderInv
  BY InitChat, InitReminder
<1>2. (ChatInv /\ ReminderInv) /\ [Next]_vars => (ChatInv /\ ReminderInv)'
  BY NextKeepsChat, NextKeepsReminder DEF ChatInv
<1>3. ChatInv /\ ReminderInv => NoReminderTwice
  BY DEF ReminderInv, RemindersSpaced, NoReminderTwice
<1> QED BY <1>1, <1>2, <1>3, PTL DEF Spec

=============================================================================
