----------------------------- MODULE WebProofs -----------------------------
(* A web session of either channel, for any number of utterances and of chat  *)
(* requests that overlap, with refused writes and a visitor who leaves.       *)
EXTENDS Web, FiniteSetTheorems, TLAPS

USE WebAssumption

---------------------------------------------------------------------------
(* The rows.                                                                 *)

\* The rows have their types, the turns are numbered, and no two have a number.
StoreOK == /\ row \in RowType
           /\ turns \in SUBSET TurnRow /\ IsFiniteSet(turns)
           /\ TurnsAreNumbered
           /\ \A s, t \in turns : s.idx = t.idx => s = t

Stored == Cardinality(turns)

\* The rows can be counted.
LEMMA StoredIsNat == StoreOK => Stored \in Nat
BY FS_CardinalityType DEF StoreOK, Stored

\* SELECT COALESCE(MAX(idx),0)+1 is the number of rows plus one.
LEMMA NextIsNew == StoreOK => NextIdx = Stored + 1
<1> SUFFICES ASSUME StoreOK PROVE NextIdx = Stored + 1
  OBVIOUS
<1>1. Stored \in Nat
  BY StoredIsNat
<1> DEFINE Used == {t.idx : t \in turns} \cup {0}
<1>2. Used = 0 .. Stored
  BY <1>1 DEF StoreOK, TurnsAreNumbered, Stored
<1>3. Max(0 .. Stored) = Stored
  <2>1. Stored \in 0 .. Stored /\ \A y \in 0 .. Stored : Stored >= y
    BY <1>1
  <2>2. \A x \in 0 .. Stored : (\A y \in 0 .. Stored : x >= y) => x = Stored
    BY <1>1
  <2> QED BY <2>1, <2>2 DEF Max
<1>4. NextIdx = 1 + Max(Used)
  BY DEF NextIdx
<1> HIDE DEF Used
<1> QED BY <1>1, <1>2, <1>3, <1>4

\* What an insert does, when its number is at most the next one.
Appended(t) ==
    /\ turns' = turns \cup {t} /\ t \notin turns
    /\ t.idx = Stored + 1 /\ Stored' = Stored + 1
    /\ row'.ended = row.ended /\ row'.status = row.status

\* An INSERT that UNIQUE (session_id, idx) lets through appends, though its number
\* was read earlier.
LEMMA InsertKeeps ==
    ASSUME StoreOK, NEW t \in TurnRow, t.idx \in 1 .. Stored + 1, InsertTurn(t)
    PROVE  StoreOK' /\ Appended(t)
<1>1. Stored \in Nat
  BY StoredIsNat
<1>2. turns' = turns \cup {t} /\ \A s \in turns : s.idx # t.idx
  BY DEF InsertTurn, Taken
<1>3. t \notin turns
  BY <1>2
<1>4. t.idx = Stored + 1
  <2>1. t.idx \notin 1 .. Stored
    BY <1>2 DEF StoreOK, TurnsAreNumbered, Stored
  <2> QED BY <1>1, <2>1
<1>5. IsFiniteSet(turns') /\ Stored' = Stored + 1
  BY <1>2, <1>3, FS_AddElement DEF StoreOK, Stored
<1>6. /\ row' \in RowType /\ row'.total = Stored'
      /\ row'.ended = row.ended /\ row'.status = row.status
  <2>1. row \in RowType /\ Stored' \in Nat
    BY <1>1, <1>5 DEF StoreOK
  <2>2. row' = [row EXCEPT !.total = Stored']
    BY DEF InsertTurn, Stored
  <2> QED BY <2>1, <2>2 DEF RowType
<1>7. {s.idx : s \in turns'} = 1 .. Stored'
  <2>1. {s.idx : s \in turns'} = {s.idx : s \in turns} \cup {t.idx}
    BY <1>2
  <2>2. {s.idx : s \in turns} = 1 .. Stored
    BY DEF StoreOK, TurnsAreNumbered, Stored
  <2> QED BY <1>1, <1>4, <1>5, <2>1, <2>2
<1>8. \A s, u \in turns' : s.idx = u.idx => s = u
  BY <1>2 DEF StoreOK
<1>9. turns' \in SUBSET TurnRow
  BY <1>2 DEF StoreOK
<1> QED BY <1>2, <1>3, <1>4, <1>5, <1>6, <1>7, <1>8, <1>9
     DEF StoreOK, TurnsAreNumbered, Appended, Stored

\* The row alone is written.
LEMMA RowKeeps ==
    ASSUME StoreOK, UNCHANGED turns,
           \/ CreateWebSession /\ turns = {}
           \/ \E status \in {"ended", "error"},
                 error \in {NoError, "setup", "send", "asr", "bot", "tts", "endcall"} :
                   EndWebSession(status, error)
    PROVE  StoreOK'
<1>1. row' \in RowType /\ row'.total = Stored
  <2>1. CASE CreateWebSession /\ turns = {}
    <3>1. Stored = 0
      BY <2>1, FS_EmptySet DEF Stored
    <3> QED BY <2>1, <3>1 DEF CreateWebSession, NoRow, RowType, NoError
  <2>2. ASSUME NEW status \in {"ended", "error"},
               NEW error \in {NoError, "setup", "send", "asr", "bot", "tts", "endcall"},
               EndWebSession(status, error)
        PROVE  row' \in RowType /\ row'.total = Stored
    <3>1. row \in RowType /\ row.total = Stored
      BY DEF StoreOK, TurnsAreNumbered, Stored
    <3> QED BY <2>2, <3>1 DEF EndWebSession, RowType
  <2> QED BY <2>1, <2>2
<1> QED BY <1>1 DEF StoreOK, TurnsAreNumbered, Stored

---------------------------------------------------------------------------
(* The invariant of a voice session.                                         *)

VoiceAt == {"create", "setup", "greet", "listening", "listen", "thinking", "bot_open",
            "tts_open", "pipe", "action", "await_monitor", "answered", "unwind", "ending",
            "closed"}

Speaking == {"pipe", "action", "await_monitor"}

Bound == 1 + Cardinality(Utterances)

VoiceTypes ==
    /\ at \in VoiceAt
    /\ idx \in Nat /\ turn \in [n : Nat, idx : Nat, re : Utterances \cup {None}]
    /\ wavs \in [1 .. Bound -> 0 .. Bound] /\ unrecorded \in SUBSET Nat
    /\ asr \in {"off", "listen", "monitor", "over"}
    /\ heard \in Seq(Utterances) /\ mic \in Seq(Utterances) /\ Len(mic) <= Cap
    /\ said \in SUBSET Utterances /\ stale \in 0 .. MaxStale
    /\ barged \in Utterances \cup {None}
    /\ mon \in {"off", "start", "hear", "done"}
    /\ verdict \in {NoError, "setup", "send", "asr", "bot", "tts", "endcall"}
    /\ fails \in Nat

\* Every turn is the greeting or answers an utterance of its own: what has been
\* said has become a turn, is about to, is still on its way, or is lost.
Waiting == at \in {"create", "setup", "greet"}
Due     == (IF barged # None THEN 1 ELSE 0) + (IF at = "thinking" \/ Waiting THEN 1 ELSE 0)
OnItsWay == Len(heard) + Len(mic)

OneTurnEach == turn.n + Due + OnItsWay <= 1 + Cardinality(said)

\* run's counter is behind the serial number, and behind the index of a turn
\* that runs.
CountersFit ==
    /\ idx <= turn.n /\ turn.idx <= turn.n
    /\ at \in {"bot_open", "tts_open", "answered"} \cup Speaking =>
         turn.idx >= idx /\ turn.idx >= 1

\* The monitor runs beside a turn that speaks; what it accepted is there until
\* the next turn begins.
BargeFits ==
    /\ mon \in {"start", "hear"} => at \in Speaking /\ barged = None
    /\ at \in {"bot_open", "tts_open"} => mon = "off"
    /\ barged # None => /\ at \in Speaking \cup {"answered", "unwind", "ending", "closed"}
                        /\ turn.n \in cuts

\* File i is the recording of turn n, unless a barge-in started that turn or its
\* recorder failed over a spare file.
Follows(n, i) == wavs[i] # n => n - 1 \in cuts \/ (n \in unrecorded /\ SpareFile(i))

\* A recording of a number that run has not reached is that of a turn a
\* barge-in started, and a turn that begins finds no other in its place.
RecordingsFit ==
    /\ \A t \in turns : t.n > 0 => /\ t.wav \in 1 .. Bound
                                   /\ t.wav > idx => t.n - 1 \in cuts
                                   /\ Follows(t.n, t.wav)
    /\ \A i \in 1 .. Bound :
          i > idx \/ (at \in {"bot_open", "tts_open"} /\ i >= turn.idx) => SpareFile(i)
    /\ at \in {"bot_open", "tts_open"} =>
         \A t \in turns : t.n > 0 /\ t.wav >= turn.idx => t.n - 1 \in cuts
    /\ at \in {"bot_open", "tts_open"} \cup Speaking /\ turn.idx > idx => turn.n - 1 \in cuts
    /\ at \in Speaking => turn.n > 0 /\ Follows(turn.n, turn.idx)

\* While no write was refused, the last row is the user's when a turn is to
\* answer it, and the bot's otherwise.
Alternates ==
    \A t \in turns :
        IF t.idx % 2 = 1
        THEN /\ t.role = "bot"
             /\ IF t.idx = 1 THEN t.re = None
                ELSE \E u \in turns : u.idx = t.idx - 1 /\ u.re = t.re
        ELSE t.role = "user"

ToAnswer == at \in {"thinking", "bot_open", "tts_open"} \cup Speaking

DialogueFits ==
    /\ Waiting => turns = {} /\ turn.re = None
    /\ fails = 0 =>
         /\ Alternates
         /\ ToAnswer => /\ Stored % 2 = 0
                        /\ IF Stored = 0 THEN turn.re = None
                           ELSE \E u \in turns : u.idx = Stored /\ u.re = turn.re
         /\ at \in {"listening", "listen", "answered"} => Stored % 2 = 1

VoiceInv == /\ VoiceTypes /\ OneTurnEach /\ CountersFit /\ BargeFits
            /\ RecordingsFit /\ DialogueFits

\* The bound is one turn per utterance, and the greeting.
LEMMA BoundIsMax ==
    /\ MaxTurns = Bound /\ Bound \in Nat
    /\ \A S \in SUBSET Utterances : /\ IsFiniteSet(S) /\ Cardinality(S) \in Nat
                                    /\ 1 + Cardinality(S) <= Bound
<1>1. Cardinality(Utterances) \in Nat
  BY FS_CardinalityType
<1>2. ASSUME NEW S \in SUBSET Utterances
      PROVE  IsFiniteSet(S) /\ Cardinality(S) \in Nat /\ Cardinality(S) <= Cardinality(Utterances)
  BY FS_Subset, FS_CardinalityType
<1> QED BY <1>1, <1>2 DEF MaxTurns, Bound

\* The types of what is counted.
Counts == /\ turn.n \in Nat /\ turn.idx \in Nat /\ idx \in Nat /\ fails \in Nat
          /\ heard \in Seq(Utterances) /\ mic \in Seq(Utterances)
          /\ Len(heard) \in Nat /\ Len(mic) \in Nat
          /\ IsFiniteSet(said) /\ Cardinality(said) \in Nat /\ 1 + Cardinality(said) <= Bound

\* The counters have their types where VoiceTypes holds.
LEMMA CountsAreNat == (VoiceTypes => Counts) /\ (VoiceTypes' => Counts')
<1>1. ASSUME VoiceTypes PROVE Counts
  <2>1. said \in SUBSET Utterances /\ heard \in Seq(Utterances) /\ mic \in Seq(Utterances)
    BY <1>1 DEF VoiceTypes
  <2>2. turn.n \in Nat /\ turn.idx \in Nat /\ idx \in Nat /\ fails \in Nat
    BY <1>1 DEF VoiceTypes
  <2>3. IsFiniteSet(said) /\ Cardinality(said) \in Nat /\ 1 + Cardinality(said) <= Bound
    BY <2>1, BoundIsMax
  <2>4. Len(heard) \in Nat /\ Len(mic) \in Nat
    BY <2>1
  <2> QED BY <2>1, <2>2, <2>3, <2>4 DEF Counts
<1>2. ASSUME VoiceTypes' PROVE Counts'
  <2>1. said' \in SUBSET Utterances /\ heard' \in Seq(Utterances) /\ mic' \in Seq(Utterances)
    BY <1>2 DEF VoiceTypes
  <2>2. turn'.n \in Nat /\ turn'.idx \in Nat /\ idx' \in Nat /\ fails' \in Nat
    BY <1>2 DEF VoiceTypes
  <2>3. IsFiniteSet(said') /\ Cardinality(said') \in Nat /\ 1 + Cardinality(said') <= Bound
    BY <2>1, BoundIsMax
  <2>4. Len(heard') \in Nat /\ Len(mic') \in Nat
    BY <2>1
  <2> QED BY <2>1, <2>2, <2>3, <2>4 DEF Counts
<1> QED BY <1>1, <1>2

\* No turn has a number beyond the bound.
LEMMA TurnsBounded ==
    ASSUME VoiceTypes, OneTurnEach, CountersFit
    PROVE  /\ turn.n \in 0 .. Bound /\ idx \in 0 .. Bound /\ turn.idx \in 0 .. Bound
           /\ at \in {"thinking"} => turn.n + 1 <= Bound
           /\ at = "greet" => turn.n + 1 <= Bound
           /\ barged # None => turn.n + 1 <= Bound
<1>1. Counts /\ Bound \in Nat
  BY CountsAreNat, BoundIsMax
<1>2. OnItsWay \in Nat /\ Due \in Nat
  BY <1>1 DEF Counts, OnItsWay, Due
<1>3. turn.n + Due + OnItsWay <= 1 + Cardinality(said)
  BY DEF OneTurnEach
<1>4. turn.n + Due <= Bound
  BY <1>1, <1>2, <1>3 DEF Counts
<1>5. /\ at \in {"thinking"} => Due >= 1
      /\ at = "greet" => Due >= 1
      /\ barged # None => Due >= 1
  BY DEF Due, Waiting
<1>6. turn.n \in Nat /\ turn.idx \in Nat /\ idx \in Nat /\ idx <= turn.n /\ turn.idx <= turn.n
  BY <1>1 DEF Counts, CountersFit
<1> QED BY <1>1, <1>2, <1>4, <1>5, <1>6

---------------------------------------------------------------------------
(* The invariant of a chat session.                                          *)

ChatPc == {"new", "user_select", "user_insert", "open", "streaming", "bot_select",
           "bot_insert", "end", "done"}

ChatTypes == /\ pc \in [Requests -> ChatPc]
             /\ next \in [Requests -> Nat]
             /\ reply \in [Requests -> {"none", "CHAT", "ENDCALL", "ERROR"}]
             /\ known \in BOOLEAN /\ dbFails \in Nat

\* The message is on record before the answer is fetched, and its number is
\* below the one the answer will take.
Recorded(r) ==
    /\ pc[r] \in {"new", "user_select", "user_insert"} => \A t \in turns : t.re # r
    /\ pc[r] \in {"open", "streaming", "bot_select"} => StoredBy(r, "user")
    /\ pc[r] = "bot_insert" => /\ StoredBy(r, "user")
                               /\ \A t \in turns : t.re = r => t.idx < next[r]

Answered(r) ==
    \/ \E q, a \in turns : /\ q.re = r /\ q.role = "user"
                           /\ a.re = r /\ a.role = "bot" /\ q.idx < a.idx
    \/ \E t \in turns : t.idx = next[r] /\ t.re # r
    \/ dbFails > 0

\* A request inserts at a number no higher than the next free one.
RequestOK(r) ==
    /\ pc[r] \in {"user_insert", "bot_insert"} => next[r] \in 1 .. Stored + 1
    /\ Recorded(r)
    /\ pc[r] \in {"end", "done"} /\ StoredBy(r, "user") => Answered(r)
    /\ pc[r] \notin {"bot_select", "bot_insert", "end", "done"} => reply[r] = "none"
    /\ dbFails = 0 /\ pc[r] = "done" /\ reply[r] = "ENDCALL" =>
         row.ended /\ row.status = "ended"

\* Nothing happens in a chat before its first message, and it speaks no turn.
ChatInv == /\ ChatTypes
           /\ pc[First] = "new" => turns = {} /\ ~known /\ \A r \in Requests : pc[r] = "new"
           /\ \A t \in turns : t.n = 0
           /\ \A r \in Requests : RequestOK(r)

\* A session is of one channel.
SessionInv == /\ StoreOK
              /\ \/ at # "chat" /\ VoiceInv /\ ChatIdle
                 \/ at = "chat" /\ ChatInv /\ VoiceIdle

---------------------------------------------------------------------------
(* What a voice step does to the rows.                                       *)

\* A row, or a refused write that is counted.
LEMMA AppendKeeps ==
    ASSUME StoreOK, fails \in Nat, NEW t, Append1(t), t \in TurnRow, t.idx = NextIdx
    PROVE  /\ StoreOK' /\ fails' \in Nat
           /\ \/ Appended(t) /\ fails' = fails
              \/ UNCHANGED storeVars /\ fails' = fails + 1
<1>1. t.idx \in 1 .. Stored + 1
  BY StoredIsNat, NextIsNew
<1>2. CASE InsertTurn(t) /\ UNCHANGED fails
  BY <1>1, <1>2, InsertKeeps
<1>3. CASE fails' = fails + 1 /\ UNCHANGED storeVars
  BY <1>3 DEF storeVars, StoreOK, TurnsAreNumbered
<1> QED BY <1>2, <1>3 DEF Append1

\* What a turn of the caller and one of the bot are.
LEMMA TurnRows ==
    ASSUME StoreOK, VoiceTypes
    PROVE  /\ \A u \in Utterances : /\ UserTurn(u) \in TurnRow /\ UserTurn(u).idx = NextIdx
                                    /\ UserTurn(u).role = "user" /\ UserTurn(u).re = u
                                    /\ UserTurn(u).n = 0
           /\ BotTurn \in TurnRow /\ BotTurn.idx = NextIdx /\ BotTurn.role = "bot"
           /\ BotTurn.re = turn.re /\ BotTurn.n = turn.n /\ BotTurn.wav = turn.idx
<1>1. NextIdx \in Nat
  BY NextIsNew, StoredIsNat
<1> QED BY <1>1 DEF UserTurn, BotTurn, TurnRow, VoiceTypes

---------------------------------------------------------------------------
(* The parts of the invariant, one after the other.                          *)

\* Every step keeps the types and the rows.
LEMMA TypesKeep ==
    ASSUME StoreOK, VoiceTypes, OneTurnEach, CountersFit, DialogueFits, VoiceNext
    PROVE  StoreOK' /\ VoiceTypes'
<1> USE DEF turnVars, recordVars, streamVars, bargeVars, asrVars, micVars
<1>1. UNCHANGED storeVars => StoreOK'
  BY DEF storeVars, StoreOK, TurnsAreNumbered
<1>2. /\ turn.n \in 0 .. Bound /\ idx \in 0 .. Bound /\ turn.idx \in 0 .. Bound
      /\ turn.n \in Nat /\ turn.idx \in Nat /\ turn.re \in Utterances \cup {None}
      /\ Bound \in Nat
  BY TurnsBounded, BoundIsMax DEF VoiceTypes
<1>3. Min({stale + 1, MaxStale}) \in 0 .. MaxStale
  <2>1. stale + 1 \in Nat /\ MaxStale \in Nat
    BY DEF VoiceTypes
  <2>2. \A a, b \in Nat : Min({a, b}) = IF a <= b THEN a ELSE b
    BY DEF Min
  <2> QED BY <2>1, <2>2
<1>4. heard # <<>> => Head(heard) \in Utterances /\ Tail(heard) \in Seq(Utterances)
  BY DEF VoiceTypes
<1>5. CASE Create \/ End
  <2>1. CASE Create
    <3>1. StoreOK'
      BY <2>1, RowKeeps, <1>1 DEF Create, DialogueFits, Waiting, storeVars
    <3>2. VoiceTypes'
      BY <2>1 DEF Create, VoiceTypes, VoiceAt
    <3> QED BY <3>1, <3>2
  <2>2. CASE End
    <3>1. StoreOK'
      BY <2>2, RowKeeps, <1>1 DEF End, VoiceTypes
    <3>2. VoiceTypes'
      BY <2>2 DEF End, VoiceTypes, VoiceAt
    <3> QED BY <3>1, <3>2
  <2> QED BY <1>5, <2>1, <2>2
<1>6. CASE Setup \/ Listening \/ BotOpen \/ PipeEnds \/ Drained \/ EndCall \/ NextListen \/ Unwind
  <2>1. UNCHANGED storeVars
    BY <1>6 DEF Setup, Listening, BotOpen, PipeEnds, Drained, EndCall, NextListen, Unwind
  <2>2. (heard' = heard \/ heard' = <<>>) /\ asr' \in {asr, "listen"}
    BY <1>6 DEF Setup, Listening, BotOpen, PipeEnds, Drained, EndCall, NextListen, Unwind
  <2>3. /\ UNCHANGED <<turnVars, barged, micVars, fails>> /\ mon' = mon
        /\ at' \in VoiceAt /\ verdict' \in {verdict, "setup", "send", "asr", "bot", "endcall"}
    BY <1>6 DEF Setup, Listening, BotOpen, PipeEnds, Drained, EndCall, NextListen, Unwind,
                Return, VoiceAt
  <2>4. heard' \in Seq(Utterances) /\ asr' \in {"off", "listen", "monitor", "over"}
    <3>1. <<>> \in Seq(Utterances) /\ heard \in Seq(Utterances)
      BY DEF VoiceTypes
    <3>2. asr' \in {"off", "listen", "monitor", "over"}
      BY <2>2 DEF VoiceTypes
    <3> QED BY <2>2, <3>1, <3>2
  <2>5. VoiceTypes'
    BY <2>3, <2>4 DEF VoiceTypes
  <2> QED BY <1>1, <2>1, <2>5
<1>7. ASSUME NEW k \in Nat, NEW u \in Utterances \cup {None}, NEW c \in Nat,
             \/ StartTurn(k, u, c)
             \/ CannotSay("send"),
             UNCHANGED <<recordVars, asrVars, micVars>>, fails' \in Nat
      PROVE  VoiceTypes'
  <2>1. CASE StartTurn(k, u, c)
    BY <1>7, <2>1, <1>2 DEF StartTurn, VoiceTypes, VoiceAt
  <2>2. CASE CannotSay("send")
    BY <1>7, <2>2 DEF CannotSay, Return, VoiceTypes, VoiceAt
  <2> QED BY <1>7, <2>1, <2>2
<1>8. CASE Greet \/ Thinking
  <2>1. UNCHANGED storeVars /\ UNCHANGED <<recordVars, asrVars, micVars>> /\ fails' \in Nat
    BY <1>8 DEF Greet, Thinking, VoiceTypes
  <2>2. idx + 1 \in Nat
    BY <1>2
  <2>3. \/ \E u \in Utterances \cup {None} : StartTurn(idx + 1, u, idx + 1)
        \/ CannotSay("send")
    BY <1>8, <1>2 DEF Greet, Thinking
  <2> QED BY <1>1, <1>7, <2>1, <2>2, <2>3
<1>9. CASE Barge
  <2>1. barged \in Utterances /\ turn.idx + 1 \in Nat /\ idx \in Nat /\ fails \in Nat
    BY <1>9, <1>2 DEF Barge, VoiceTypes
  <2>2. StoreOK' /\ fails' \in Nat
    BY <1>9, <2>1, AppendKeeps, TurnRows DEF Barge
  <2>3. VoiceTypes'
    BY <1>9, <1>7, <2>1, <2>2 DEF Barge
  <2> QED BY <2>2, <2>3
<1>10. CASE ListenFinal
  <2>1. Head(heard) \in Utterances /\ fails \in Nat
    BY <1>10, <1>4 DEF ListenFinal, VoiceTypes
  <2>2. StoreOK' /\ fails' \in Nat
    BY <1>10, <2>1, AppendKeeps, TurnRows DEF ListenFinal
  <2>3. turn' \in [n : Nat, idx : Nat, re : Utterances \cup {None}]
    BY <1>10, <2>1 DEF ListenFinal, VoiceTypes
  <2>4. VoiceTypes'
    BY <1>10, <1>3, <2>2, <2>3 DEF ListenFinal, LeaveListen, VoiceTypes, VoiceAt
  <2> QED BY <2>2, <2>4
<1>11. CASE ListenNothing \/ ListenClosed \/ ListenPumpFails
  <2>1. UNCHANGED storeVars
    BY <1>11 DEF ListenNothing, ListenClosed, ListenPumpFails
  <2>2. /\ heard' = <<>> /\ asr' = "off" /\ stale' \in 0 .. MaxStale
        /\ UNCHANGED <<turnVars, bargeVars, mic, said, fails>>
        /\ at' \in VoiceAt /\ verdict' \in {verdict, NoError, "asr"}
    BY <1>11, <1>3 DEF ListenNothing, ListenClosed, ListenPumpFails, LeaveListen, Return,
                       VoiceTypes, VoiceAt
  <2>3. VoiceTypes'
    BY <2>2 DEF VoiceTypes
  <2> QED BY <1>1, <2>1, <2>3
<1>12. CASE TtsOpen
  <2>1. UNCHANGED storeVars
    BY <1>12 DEF TtsOpen
  <2>2. wavs' \in [1 .. Bound -> 0 .. Bound] /\ unrecorded' \in SUBSET Nat
    <3>1. wavs \in [1 .. Bound -> 0 .. Bound] /\ unrecorded \in SUBSET Nat /\ 0 \in 0 .. Bound
      BY <1>2 DEF VoiceTypes
    <3>2. \A v \in 0 .. Bound : [wavs EXCEPT ![turn.idx] = v] \in [1 .. Bound -> 0 .. Bound]
      BY <3>1
    <3>3. CASE Record
      BY <1>2, <3>1, <3>2, <3>3 DEF Record
    <3>4. CASE RecorderFails
      BY <1>2, <3>1, <3>2, <3>4 DEF RecorderFails
    <3>5. CASE UNCHANGED recordVars
      BY <3>1, <3>5 DEF recordVars
    <3> QED BY <1>12, <3>3, <3>4, <3>5 DEF TtsOpen
  <2>3. VoiceTypes'
    BY <1>12, <2>2 DEF TtsOpen, Return, VoiceTypes, VoiceAt
  <2> QED BY <1>1, <2>1, <2>3
<1>13. CASE PersistBot
  <2>1. StoreOK' /\ fails' \in Nat
    BY <1>13, AppendKeeps, TurnRows DEF PersistBot, VoiceTypes
  <2>2. VoiceTypes'
    BY <1>13, <2>1 DEF PersistBot, VoiceTypes, VoiceAt
  <2> QED BY <2>1, <2>2
<1>14. CASE BotEnds \/ TtsEnds \/ AsrEnds \/ Leave \/ ReadLoopEnds
  <2>1. UNCHANGED storeVars
    BY <1>14 DEF BotEnds, TtsEnds, AsrEnds, Leave, ReadLoopEnds
  <2>2. VoiceTypes'
    BY <1>14 DEF BotEnds, TtsEnds, AsrEnds, Leave, ReadLoopEnds, VoiceTypes
  <2> QED BY <1>1, <2>1, <2>2
<1>15. CASE Monitor
  <2>1. UNCHANGED storeVars
    BY <1>15 DEF Monitor, MonitorStart, MonitorAccepts, MonitorDrops, MonitorEnds
  <2>2. heard' \in Seq(Utterances) /\ barged' \in Utterances \cup {None}
    <3>1. <<>> \in Seq(Utterances)
      OBVIOUS
    <3> HIDE DEF turnVars, streamVars, micVars
    <3> QED BY <1>15, <1>4, <3>1
            DEF Monitor, MonitorStart, MonitorAccepts, MonitorDrops, MonitorEnds, VoiceTypes
  <2>3. /\ asr' \in {"off", "listen", "monitor", "over"}
        /\ mon' \in {"off", "start", "hear", "done"}
        /\ UNCHANGED <<at, turnVars, micVars, verdict, fails>>
    BY <1>15 DEF Monitor, MonitorStart, MonitorAccepts, MonitorDrops, MonitorEnds, VoiceTypes
  <2>4. VoiceTypes'
    BY <2>2, <2>3 DEF VoiceTypes
  <2> QED BY <1>1, <2>1, <2>4
<1>16. ASSUME \/ Pump \/ StalePumps \/ \E u \in Utterances : Say(u)
       PROVE  StoreOK' /\ VoiceTypes'
  <2>1. UNCHANGED storeVars
    BY <1>16 DEF Pump, StalePumps, Say
  <2>2. Min({stale, Frames}) \in 0 .. stale
    <3>1. \A a, b \in Nat : Min({a, b}) = IF a <= b THEN a ELSE b
      BY DEF Min
    <3>2. stale \in Nat /\ Frames \in Nat
      BY DEF VoiceTypes
    <3> QED BY <3>1, <3>2
  <2>3. stale \in 0 .. MaxStale /\ \A e \in 0 .. stale : stale - e \in 0 .. MaxStale
    BY DEF VoiceTypes
  <2>4. mic # <<>> => /\ Head(mic) \in Utterances /\ Tail(mic) \in Seq(Utterances)
                      /\ Len(Tail(mic)) <= Cap
    BY DEF VoiceTypes
  <2>5. CASE Pump
    <3>1. PICK e \in 0 .. Min({stale, Frames}) : stale' = stale - e
      BY <2>5 DEF Pump
    <3>2. stale' \in 0 .. MaxStale
      BY <3>1, <2>2, <2>3
    <3>3. heard' \in Seq(Utterances) /\ mic' \in Seq(Utterances) /\ Len(mic') <= Cap
      <4>1. heard' = heard \/ heard' = Append(heard, Head(mic))
        BY <2>5 DEF Pump
      <4>2. Append(heard, Head(mic)) \in Seq(Utterances) /\ heard \in Seq(Utterances)
        BY <2>4, <2>5 DEF Pump, VoiceTypes
      <4> QED BY <2>4, <2>5, <4>1, <4>2 DEF Pump
    <3>4. VoiceTypes'
      BY <2>5, <3>2, <3>3 DEF Pump, VoiceTypes
    <3> QED BY <1>1, <2>1, <3>4
  <2>6. CASE StalePumps
    <3>1. stale' \in 0 .. MaxStale
      BY <2>2, <2>3, <2>6 DEF StalePumps
    <3>2. mic' \in Seq(Utterances) /\ Len(mic') <= Cap
      BY <2>4, <2>6 DEF StalePumps, VoiceTypes
    <3>3. VoiceTypes'
      BY <2>6, <3>1, <3>2 DEF StalePumps, VoiceTypes
    <3> QED BY <1>1, <2>1, <3>3
  <2>7. ASSUME NEW u \in Utterances, Say(u) PROVE StoreOK' /\ VoiceTypes'
    <3>1. mic' \in Seq(Utterances) /\ Len(mic') <= Cap
      <4>1. mic \in Seq(Utterances) /\ Len(mic) \in Nat /\ Len(mic) <= Cap
        BY DEF VoiceTypes
      <4>2. Append(mic, u) \in Seq(Utterances) /\ Len(Append(mic, u)) = Len(mic) + 1
        BY <4>1
      <4> QED BY <2>7, <4>1, <4>2 DEF Say
    <3>2. VoiceTypes'
      BY <2>7, <3>1 DEF Say, VoiceTypes
    <3> QED BY <1>1, <2>1, <3>2
  <2> QED BY <1>16, <2>5, <2>6, <2>7
<1> QED BY <1>5, <1>6, <1>8, <1>9, <1>10, <1>11, <1>12, <1>13, <1>14, <1>15, <1>16
     DEF VoiceNext, Server

---------------------------------------------------------------------------
(* Steps that begin, store or cut no turn.                                   *)

\* Where the session's goroutine goes in such a step.
BargeAt == Speaking \cup {"answered", "unwind", "ending", "closed"}

CalmAt ==
    /\ at' \in {"thinking", "answered", "bot_open"} => at' = at
    /\ at' = "tts_open" => at \in {"bot_open", "tts_open"}
    /\ at' \in Speaking <=> at \in Speaking
    /\ Waiting' => Waiting
    /\ at' \in {"listening", "listen"} => at \in {"listening", "listen", "answered"}
    /\ barged # None /\ at \in BargeAt => at' \in BargeAt

\* No audio comes from nowhere, and the monitor only ends.
Calm ==
    /\ UNCHANGED <<turns, idx, turn, recordVars, barged, cuts>> /\ CalmAt
    /\ OnItsWay' + Cardinality(said) <= OnItsWay + Cardinality(said')
    /\ fails' = 0 => fails = 0
    /\ mon' \in {"start", "hear"} => mon \in {"start", "hear"}
    /\ mon = "off" => mon' = "off"

\* What the files hold is as good when another turn has been cut.
LEMMA FilesKept ==
    ASSUME UNCHANGED recordVars, cuts \subseteq cuts'
    PROVE  /\ \A i : SpareFile(i) => SpareFile(i)'
           /\ \A n, i : Follows(n, i) => Follows(n, i)'
BY DEF recordVars, SpareFile, Follows

\* A calm step keeps the invariant of a voice session.
LEMMA CalmKeeps ==
    ASSUME StoreOK, VoiceInv, VoiceTypes', Calm
    PROVE  VoiceInv'
<1>1. OneTurnEach'
  <2>1. /\ turn.n \in Nat /\ Len(heard) \in Nat /\ Len(mic) \in Nat
        /\ Len(heard') \in Nat /\ Len(mic') \in Nat
        /\ Cardinality(said) \in Nat /\ Cardinality(said') \in Nat
    BY CountsAreNat DEF VoiceInv, Counts
  <2>2. (at' = "thinking" => at = "thinking") /\ (Waiting' => Waiting)
    BY DEF Calm, CalmAt
  <2>3. Due \in Nat /\ Due' \in Nat /\ Due' <= Due
    BY <2>2 DEF Due, Calm
  <2>4. OnItsWay \in Nat /\ OnItsWay' \in Nat
    BY <2>1 DEF OnItsWay
  <2>5. OnItsWay' + Cardinality(said) <= OnItsWay + Cardinality(said')
    BY DEF Calm
  <2>6. turn' = turn /\ turn.n + Due + OnItsWay <= 1 + Cardinality(said)
    BY DEF VoiceInv, OneTurnEach, Calm
  <2>7. \A n, d, e, o, p, c, x \in Nat :
          n + d + o <= 1 + c /\ e <= d /\ p + c <= o + x => n + e + p <= 1 + x
    OBVIOUS
  <2>8. turn.n + Due' + OnItsWay' <= 1 + Cardinality(said')
    BY <2>1, <2>3, <2>4, <2>5, <2>6, <2>7
  <2> QED BY <2>6, <2>8 DEF OneTurnEach
<1>2. CountersFit'
  BY DEF VoiceInv, CountersFit, Calm, CalmAt
<1>3. BargeFits'
  BY DEF VoiceInv, BargeFits, Calm, CalmAt, BargeAt
<1>4. RecordingsFit'
  <2>1. /\ \A i : SpareFile(i) => SpareFile(i)'
        /\ \A n, i : Follows(n, i) => Follows(n, i)'
    BY FilesKept DEF Calm
  <2> QED BY <2>1 DEF VoiceInv, RecordingsFit, Calm, CalmAt
<1>5. DialogueFits'
  <2>1. Stored' = Stored /\ (Alternates => Alternates')
    BY DEF Calm, Stored, Alternates
  <2>2. ToAnswer' => ToAnswer
    BY DEF ToAnswer, Calm, CalmAt
  <2> QED BY <2>1, <2>2 DEF VoiceInv, DialogueFits, Calm, CalmAt
<1> QED BY <1>1, <1>2, <1>3, <1>4, <1>5 DEF VoiceInv

CalmServer ==
    \/ Create \/ Setup \/ Listening \/ ListenNothing \/ ListenClosed \/ ListenPumpFails
    \/ BotOpen \/ PipeEnds \/ Drained \/ EndCall \/ NextListen \/ Unwind \/ End

\* The socket takes no frame, or the TTS client opens no stream.
Unsaid == at \in {"greet", "thinking"} /\ CannotSay("send") /\ UNCHANGED <<turns, recordVars, fails>>
NoTts  == at = "tts_open" /\ Return("tts") /\ UNCHANGED <<turns, turnVars, bargeVars, fails>>

CalmStreams ==
    BotEnds \/ TtsEnds \/ AsrEnds \/ Leave \/ ReadLoopEnds \/ MonitorStart \/ MonitorEnds

\* The recogniser, the pumps, the visitor and most of the server are calm.
LEMMA CalmSteps ==
    ASSUME StoreOK, VoiceInv, VoiceTypes',
           \/ CalmServer \/ CalmStreams \/ MonitorDrops \/ Pump \/ StalePumps
           \/ \E u \in Utterances : Say(u)
           \/ (Unsaid \/ NoTts) /\ UNCHANGED <<asrVars, micVars>>
    PROVE  Calm
<1> USE DEF storeVars, turnVars, recordVars, streamVars, bargeVars, asrVars, micVars
<1> DEFINE Fewer == OnItsWay' + Cardinality(said) <= OnItsWay + Cardinality(said')
<1>1. /\ heard \in Seq(Utterances) /\ mic \in Seq(Utterances)
      /\ Len(heard) \in Nat /\ Len(mic) \in Nat
      /\ IsFiniteSet(said) /\ Cardinality(said) \in Nat /\ fails \in Nat
  BY CountsAreNat DEF VoiceInv, Counts
<1>2. ASSUME (heard' = heard \/ heard' = <<>>), mic' = mic, said' = said PROVE Fewer
  <2>1. Len(heard') <= Len(heard) /\ Len(heard') \in Nat
    BY <1>1, <1>2
  <2> QED BY <1>1, <1>2, <2>1 DEF OnItsWay
<1> HIDE DEF Fewer
<1>3. CASE CalmServer
  <2>1. /\ heard' = heard \/ heard' = <<>>
        /\ mic' = mic /\ said' = said
    BY <1>3 DEF CalmServer, Create, Setup, Listening, ListenNothing, ListenClosed,
                ListenPumpFails, BotOpen, PipeEnds, Drained, EndCall, NextListen, Unwind, End,
                LeaveListen
  <2>2. CalmAt
    BY <1>3 DEF CalmServer, Create, Setup, Listening, ListenNothing, ListenClosed,
                ListenPumpFails, BotOpen, PipeEnds, Drained, EndCall, NextListen, Unwind, End,
                Return, CalmAt, Speaking, Waiting, BargeAt
  <2>3. /\ UNCHANGED <<turns, idx, turn, recordVars, barged, cuts, mon>>
        /\ fails' = fails \/ fails' = fails + 1
    BY <1>3 DEF CalmServer, Create, Setup, Listening, ListenNothing, ListenClosed,
                ListenPumpFails, BotOpen, PipeEnds, Drained, EndCall, NextListen, Unwind, End
  <2> QED BY <1>1, <1>2, <2>1, <2>2, <2>3 DEF Calm, Fewer
<1>4. CASE CalmStreams
  <2>1. /\ heard' = heard \/ heard' = <<>>
        /\ mic' = mic /\ said' = said
    BY <1>4 DEF CalmStreams, BotEnds, TtsEnds, AsrEnds, Leave, ReadLoopEnds, MonitorStart,
                MonitorEnds
  <2>2. /\ UNCHANGED <<turns, at, idx, turn, recordVars, barged, cuts, fails>>
        /\ mon' \in {"start", "hear"} => mon \in {"start", "hear"}
        /\ mon = "off" => mon' = "off"
    BY <1>4 DEF CalmStreams, BotEnds, TtsEnds, AsrEnds, Leave, ReadLoopEnds, MonitorStart,
                MonitorEnds
  <2> QED BY <1>2, <2>1, <2>2 DEF Calm, CalmAt, Waiting, Fewer
<1>5. CASE MonitorDrops
  <2>1. Len(heard') \in Nat /\ Len(heard') <= Len(heard)
    BY <1>1, <1>5 DEF MonitorDrops
  <2> QED BY <1>1, <1>5, <2>1 DEF MonitorDrops, Calm, CalmAt, Waiting, OnItsWay
<1>6. CASE Pump
  <2>1. Len(heard') \in Nat /\ Len(heard') <= Len(heard) + 1
    <3>1. Head(mic) \in Utterances
      BY <1>1, <1>6 DEF Pump
    <3>2. heard' = heard \/ heard' = Append(heard, Head(mic))
      BY <1>6 DEF Pump
    <3> QED BY <1>1, <3>1, <3>2
  <2>2. Len(mic') \in Nat /\ Len(mic') + 1 = Len(mic)
    BY <1>1, <1>6 DEF Pump
  <2>3. UNCHANGED <<turns, at, turnVars, bargeVars, said, fails>>
    BY <1>6 DEF Pump
  <2> QED BY <1>1, <2>1, <2>2, <2>3 DEF Calm, CalmAt, Waiting, OnItsWay
<1>7. CASE StalePumps
  <2>1. Len(mic') \in Nat /\ Len(mic') <= Len(mic)
    BY <1>1, <1>7 DEF StalePumps
  <2> QED BY <1>1, <1>7, <2>1 DEF StalePumps, Calm, CalmAt, Waiting, OnItsWay
<1>8. ASSUME NEW u \in Utterances, Say(u) PROVE Calm
  <2>1. Len(mic') \in Nat /\ Len(mic') <= Len(mic) + 1
    BY <1>1, <1>8 DEF Say
  <2>2. Cardinality(said') = Cardinality(said) + 1
    BY <1>1, <1>8, FS_AddElement DEF Say
  <2> QED BY <1>1, <1>8, <2>1, <2>2 DEF Say, Calm, CalmAt, Waiting, OnItsWay
<1>9. CASE (Unsaid \/ NoTts) /\ UNCHANGED <<asrVars, micVars>>
  <2>1. CalmAt
    BY <1>9 DEF Unsaid, NoTts, CannotSay, Return, CalmAt, Speaking, Waiting, BargeAt
  <2>2. UNCHANGED <<turns, idx, turn, recordVars, barged, cuts, mon, fails>>
    BY <1>9 DEF Unsaid, NoTts, CannotSay
  <2> QED BY <1>2, <1>9, <2>1, <2>2 DEF Calm, Fewer
<1> QED BY <1>3, <1>4, <1>5, <1>6, <1>7, <1>8, <1>9

---------------------------------------------------------------------------
(* Steps that begin, store or cut a turn.                                    *)

\* A row that fits after the last one.
LEMMA AlternatesOn ==
    ASSUME Alternates, NEW t, Appended(t),
           IF t.idx % 2 = 1
           THEN /\ t.role = "bot"
                /\ IF t.idx = 1 THEN t.re = None
                   ELSE \E u \in turns : u.idx = t.idx - 1 /\ u.re = t.re
           ELSE t.role = "user"
    PROVE  Alternates'
BY DEF Alternates, Appended

\* Of two numbers that follow each other one is odd.
LEMMA Parity ==
    ASSUME NEW s \in Nat
    PROVE  /\ (s + 1) % 2 = 1 <=> s % 2 = 0
           /\ (s + 1) % 2 = 0 <=> s % 2 = 1
           /\ s % 2 \in {0, 1} /\ (s % 2 = 1 => s # 0) /\ (s + 1) - 1 = s
OBVIOUS

\* The greeting's turn, or the one that answers what listen has heard: run's
\* counter and the turn's number are one more.
LEMMA StartKeeps ==
    ASSUME StoreOK, VoiceInv, VoiceTypes', at \in {"greet", "thinking"},
           StartTurn(idx + 1, turn.re, idx + 1),
           UNCHANGED <<turns, recordVars, asrVars, micVars, fails>>
    PROVE  VoiceInv'
<1>1. /\ turn.n \in Nat /\ turn.idx \in Nat /\ idx \in Nat /\ idx <= turn.n
      /\ turn'.n = turn.n + 1 /\ turn'.idx = idx + 1 /\ turn'.re = turn.re /\ idx' = idx + 1
      /\ at' = "bot_open" /\ mon' = "off" /\ barged' = None /\ cuts' = cuts
  BY DEF VoiceInv, VoiceTypes, CountersFit, StartTurn
<1>2. OneTurnEach'
  <2>1. /\ Len(heard) \in Nat /\ Len(mic) \in Nat /\ Cardinality(said) \in Nat
        /\ UNCHANGED <<heard, mic, said>>
    BY CountsAreNat DEF VoiceInv, Counts, asrVars, micVars
  <2>2. Due \in Nat /\ Due >= 1 /\ Due' = 0
    BY <1>1 DEF Due, Waiting
  <2>3. OnItsWay \in Nat /\ OnItsWay' = OnItsWay
    BY <2>1 DEF OnItsWay
  <2>4. turn.n + Due + OnItsWay <= 1 + Cardinality(said)
    BY DEF VoiceInv, OneTurnEach
  <2>5. turn.n + 1 + Due' + OnItsWay' <= 1 + Cardinality(said)
    BY <1>1, <2>1, <2>2, <2>3, <2>4
  <2> QED BY <1>1, <2>1, <2>5 DEF OneTurnEach
<1>3. CountersFit'
  BY <1>1 DEF CountersFit, Speaking
<1>4. BargeFits'
  BY <1>1 DEF BargeFits, Speaking
<1>5. RecordingsFit'
  <2>1. \A t \in turns : t.n > 0 => /\ t.wav \in 1 .. Bound /\ t.wav \in Nat
                                    /\ t.wav > idx => t.n - 1 \in cuts
                                    /\ Follows(t.n, t.wav)'
    BY <1>1, FilesKept DEF VoiceInv, RecordingsFit, StoreOK, TurnRow
  <2>2. \A t \in turns : t.n > 0 /\ t.wav >= idx + 1 => t.n - 1 \in cuts
    BY <1>1, <2>1
  <2>3. at' \notin Speaking
    BY <1>1 DEF Speaking
  <2>4. \A i \in 1 .. Bound : i > idx => SpareFile(i)'
    BY <1>1, FilesKept DEF VoiceInv, RecordingsFit
  <2>5. \A i \in 1 .. Bound : i > idx + 1 \/ i >= idx + 1 => i > idx
    BY <1>1
  <2> QED BY <1>1, <2>1, <2>2, <2>3, <2>4, <2>5 DEF RecordingsFit
<1>6. DialogueFits'
  <2>1. Stored' = Stored /\ (Alternates => Alternates') /\ fails' = fails
    BY DEF Stored, Alternates
  <2>2. CASE at = "greet"
    <3>1. turns = {} /\ turn.re = None /\ Stored = 0
      BY <2>2, FS_EmptySet DEF VoiceInv, DialogueFits, Waiting, Stored
    <3>2. Stored' % 2 = 0 /\ Stored' = 0
      BY <2>1, <3>1
    <3>3. Alternates'
      BY <3>1 DEF Alternates
    <3> QED BY <1>1, <3>1, <3>2, <3>3 DEF DialogueFits, Waiting
  <2>3. CASE at = "thinking"
    <3>1. ToAnswer
      BY <2>3 DEF ToAnswer
    <3> QED BY <1>1, <2>1, <3>1 DEF VoiceInv, DialogueFits, Waiting
  <2> QED BY <2>2, <2>3
<1> QED BY <1>2, <1>3, <1>4, <1>5, <1>6 DEF VoiceInv

\* What the visitor said is stored, after the bot's turn: by listen's caller,
\* and by the turn a barge-in has cut.
UserRow(u) == /\ \/ Appended(UserTurn(u)) /\ fails' = fails
                 \/ UNCHANGED turns /\ fails' = fails + 1

\* The row of what the visitor said, or a refused write, is what the next turn
\* answers.
LEMMA UserRowKeeps ==
    ASSUME StoreOK, VoiceInv, at \in {"listen", "answered"}, NEW u \in Utterances, UserRow(u)
    PROVE  /\ \A t \in turns' : t.n > 0 => t \in turns
           /\ fails' = 0 => /\ Alternates' /\ Stored' % 2 = 0 /\ Stored' # 0
                            /\ \E t \in turns' : t.idx = Stored' /\ t.re = u
<1>1. Stored \in Nat /\ fails \in Nat
  BY StoredIsNat DEF VoiceInv, VoiceTypes
<1>2. /\ UserTurn(u).role = "user" /\ UserTurn(u).re = u /\ UserTurn(u).n = 0
  BY DEF UserTurn
<1>3. CASE Appended(UserTurn(u)) /\ fails' = fails
  <2>1. \A t \in turns' : t.n > 0 => t \in turns
    BY <1>2, <1>3 DEF Appended
  <2>2. ASSUME fails = 0
        PROVE  /\ Alternates' /\ Stored' % 2 = 0 /\ Stored' # 0
               /\ \E t \in turns' : t.idx = Stored' /\ t.re = u
    <3>1. Alternates /\ Stored % 2 = 1
      BY <2>2 DEF VoiceInv, DialogueFits
    <3>2. Stored' = Stored + 1 /\ UserTurn(u).idx = Stored + 1 /\ UserTurn(u) \in turns'
      BY <1>3 DEF Appended
    <3>3. Stored' % 2 = 0 /\ Stored' # 0
      BY <1>1, <3>1, <3>2, Parity
    <3>4. Alternates'
      BY <1>2, <1>3, <3>1, <3>2, <3>3, AlternatesOn
    <3> QED BY <1>2, <3>2, <3>3, <3>4
  <2> QED BY <1>3, <2>1, <2>2
<1>4. CASE UNCHANGED turns /\ fails' = fails + 1
  BY <1>1, <1>4
<1> QED BY <1>3, <1>4 DEF UserRow

\* A final transcript of listen: its utterance has become due.
LEMMA ListenFinalKeeps ==
    ASSUME StoreOK, VoiceInv, VoiceTypes', ListenFinal
    PROVE  VoiceInv'
<1> DEFINE u == Head(heard)
<1>0. /\ heard \in Seq(Utterances) /\ heard # <<>> /\ u \in Utterances /\ Len(heard) \in Nat
      /\ Len(heard) >= 1 /\ Len(mic) \in Nat /\ Cardinality(said) \in Nat /\ fails \in Nat
  <2>1. heard \in Seq(Utterances) /\ heard # <<>> /\ mic \in Seq(Utterances)
    BY DEF ListenFinal, VoiceInv, VoiceTypes
  <2>2. Cardinality(said) \in Nat /\ fails \in Nat
    BY CountsAreNat DEF VoiceInv, Counts
  <2> QED BY <2>1, <2>2
<1>1. /\ turn'.n = turn.n /\ turn'.idx = turn.idx /\ turn'.re = u
      /\ turn.n \in Nat /\ at = "listen" /\ at' = "thinking" /\ heard' = <<>>
      /\ UNCHANGED <<idx, recordVars, mon, barged, cuts, mic, said>>
  BY DEF ListenFinal, LeaveListen, VoiceInv, VoiceTypes, bargeVars
<1>2. UserRow(u)
  <2>1. UserTurn(u) \in TurnRow /\ UserTurn(u).idx = NextIdx
    BY <1>0, TurnRows DEF VoiceInv
  <2>2. Append1(UserTurn(u))
    BY DEF ListenFinal
  <2> QED BY <1>0, <2>1, <2>2, AppendKeeps DEF UserRow, storeVars
<1>3. /\ \A t \in turns' : t.n > 0 => t \in turns
      /\ fails' = 0 => /\ Alternates' /\ Stored' % 2 = 0 /\ Stored' # 0
                       /\ \E t \in turns' : t.idx = Stored' /\ t.re = u
  BY <1>0, <1>1, <1>2, UserRowKeeps
<1> HIDE DEF u
<1>4. OneTurnEach'
  <2>1. Due \in Nat /\ Due' \in Nat /\ Due' <= Due + 1
    BY <1>1 DEF Due, Waiting
  <2>2. OnItsWay \in Nat /\ OnItsWay' \in Nat /\ OnItsWay' + 1 <= OnItsWay
    BY <1>0, <1>1 DEF OnItsWay
  <2>3. turn.n + Due + OnItsWay <= 1 + Cardinality(said)
    BY DEF VoiceInv, OneTurnEach
  <2>4. \A n, d, e, o, p, c \in Nat :
          n + d + o <= 1 + c /\ e <= d + 1 /\ p + 1 <= o => n + e + p <= 1 + c
    OBVIOUS
  <2>5. turn.n + Due' + OnItsWay' <= 1 + Cardinality(said)
    BY <1>0, <1>1, <2>1, <2>2, <2>3, <2>4
  <2> QED BY <1>1, <2>5 DEF OneTurnEach
<1>5. CountersFit'
  BY <1>1 DEF VoiceInv, CountersFit, Speaking
<1>6. BargeFits'
  BY <1>1 DEF VoiceInv, BargeFits, Speaking
<1>7. RecordingsFit'
  BY <1>1, <1>3, FilesKept DEF VoiceInv, RecordingsFit, Speaking
<1>8. DialogueFits'
  BY <1>1, <1>3 DEF DialogueFits, Waiting
<1> QED BY <1>4, <1>5, <1>6, <1>7, <1>8 DEF VoiceInv

\* A turn inside the turn that a barge-in cut: the number of the turn is one
\* more, run's counter stays.
LEMMA BargeKeeps ==
    ASSUME StoreOK, VoiceInv, VoiceTypes', Barge
    PROVE  VoiceInv'
<1>0. /\ barged \in Utterances /\ barged # None /\ Cardinality(said) \in Nat
      /\ fails \in Nat /\ turn.n \in Nat /\ turn.idx \in Nat /\ idx \in Nat
      /\ Len(heard) \in Nat /\ Len(mic) \in Nat /\ at = "answered" /\ None \notin Utterances
  <2>1. Counts /\ barged \in Utterances \cup {None}
    BY CountsAreNat DEF VoiceInv, VoiceTypes
  <2> QED BY <2>1 DEF Barge, Counts
<1>1. UserRow(barged)
  <2>1. UserTurn(barged) \in TurnRow /\ UserTurn(barged).idx = NextIdx
    BY <1>0, TurnRows DEF VoiceInv
  <2>2. Append1(UserTurn(barged))
    BY DEF Barge
  <2> QED BY <1>0, <2>1, <2>2, AppendKeeps DEF UserRow, storeVars
<1>2. /\ \A t \in turns' : t.n > 0 => t \in turns
      /\ fails' = 0 => /\ Alternates' /\ Stored' % 2 = 0 /\ Stored' # 0
                       /\ \E t \in turns' : t.idx = Stored' /\ t.re = barged
  BY <1>0, <1>1, UserRowKeeps
<1>3. UNCHANGED <<recordVars, heard, mic, said>> /\ OnItsWay \in Nat /\ OnItsWay' = OnItsWay
  BY <1>0 DEF Barge, asrVars, micVars, OnItsWay
<1>4. turn.n + Due + OnItsWay <= 1 + Cardinality(said)
  BY DEF VoiceInv, OneTurnEach
<1>5. CASE StartTurn(turn.idx + 1, barged, idx)
  <2>1. /\ turn'.n = turn.n + 1 /\ turn'.idx = turn.idx + 1 /\ turn'.re = barged /\ idx' = idx
        /\ at' = "bot_open" /\ mon' = "off" /\ barged' = None /\ cuts' = cuts
    BY <1>5 DEF StartTurn
  <2>2. OneTurnEach'
    <3>1. Due \in Nat /\ Due >= 1 /\ Due' = 0
      BY <1>0, <2>1 DEF Due, Waiting
    <3>2. turn.n + 1 + Due' + OnItsWay' <= 1 + Cardinality(said)
      BY <1>0, <1>3, <1>4, <3>1
    <3> QED BY <1>3, <2>1, <3>2 DEF OneTurnEach
  <2>3. turn.idx >= idx /\ turn.idx >= 1 /\ turn.idx <= turn.n /\ idx <= turn.n
    BY <1>0 DEF VoiceInv, CountersFit
  <2>4. CountersFit'
    BY <1>0, <2>1, <2>3 DEF CountersFit
  <2>5. BargeFits'
    BY <2>1 DEF BargeFits, Speaking
  <2>6. RecordingsFit'
    <3>1. \A t \in turns : t.n > 0 => /\ t.wav \in 1 .. Bound /\ t.wav \in Nat
                                      /\ t.wav > idx => t.n - 1 \in cuts
                                      /\ Follows(t.n, t.wav)'
      BY <1>3, <2>1, FilesKept DEF VoiceInv, RecordingsFit, StoreOK, TurnRow
    <3>2. \A t \in turns : t.n > 0 /\ t.wav >= turn.idx + 1 => t.n - 1 \in cuts
      BY <1>0, <2>3, <3>1
    <3>3. turn'.n - 1 \in cuts
      BY <1>0, <2>1 DEF VoiceInv, BargeFits
    <3>4. at' \notin Speaking
      BY <2>1 DEF Speaking
    <3>5. \A i \in 1 .. Bound : i > idx => SpareFile(i)'
      BY <1>3, <2>1, FilesKept DEF VoiceInv, RecordingsFit
    <3>6. \A i \in 1 .. Bound : i >= turn.idx + 1 => i > idx
      BY <1>0, <2>3
    <3> QED BY <1>2, <1>3, <2>1, <3>1, <3>2, <3>3, <3>4, <3>5, <3>6 DEF RecordingsFit
  <2>7. DialogueFits'
    BY <1>2, <2>1 DEF DialogueFits, Waiting
  <2> QED BY <2>2, <2>4, <2>5, <2>6, <2>7 DEF VoiceInv
<1>6. CASE CannotSay("send")
  <2>1. at' = "unwind" /\ UNCHANGED <<idx, turn, mon, barged, cuts>>
    BY <1>6 DEF CannotSay, Return, bargeVars
  <2>2. OneTurnEach'
    <3>1. Due' <= Due /\ Due \in Nat /\ Due' \in Nat
      BY <2>1 DEF Due, Waiting
    <3>2. turn.n + Due' + OnItsWay' <= 1 + Cardinality(said)
      BY <1>0, <1>3, <1>4, <3>1
    <3> QED BY <1>3, <2>1, <3>2 DEF OneTurnEach
  <2>3. CountersFit' /\ BargeFits'
    BY <1>0, <2>1 DEF VoiceInv, CountersFit, BargeFits, Speaking
  <2>4. RecordingsFit'
    BY <1>2, <1>3, <2>1, FilesKept DEF VoiceInv, RecordingsFit, Speaking
  <2>5. DialogueFits'
    BY <1>2, <2>1 DEF DialogueFits, ToAnswer, Speaking, Waiting
  <2> QED BY <2>2, <2>3, <2>4, <2>5 DEF VoiceInv
<1> QED BY <1>5, <1>6 DEF Barge

\* The recording is made: of the number it takes, only turns a barge-in
\* started had one.
LEMMA TtsKeeps ==
    ASSUME StoreOK, VoiceInv, VoiceTypes', TtsOpen
    PROVE  VoiceInv'
<1>1. CASE NoTts
  BY <1>1, CalmSteps, CalmKeeps DEF TtsOpen
<1>2. CASE /\ at' = "pipe" /\ mon' = "start"
           /\ Record \/ RecorderFails
  <2>1. /\ UNCHANGED <<turns, idx, turn, barged, cuts, heard, mic, said, fails>>
        /\ at = "tts_open" /\ barged = None
    BY DEF TtsOpen, VoiceInv, BargeFits, Speaking, asrVars, micVars, storeVars
  <2>2. /\ turn.idx \in 1 .. Bound /\ turn.idx \in Nat /\ idx \in Nat /\ turn.n > 0
        /\ turn.idx >= idx
    <3>1. /\ turn.idx >= idx /\ turn.idx >= 1 /\ turn.idx <= turn.n
          /\ idx \in Nat /\ turn.idx \in Nat /\ turn.n \in Nat
      BY <2>1 DEF VoiceInv, VoiceTypes, CountersFit
    <3>2. turn.idx \in 0 .. Bound /\ Bound \in Nat
      BY TurnsBounded, BoundIsMax DEF VoiceInv
    <3> QED BY <3>1, <3>2
  <2>3. /\ SpareFile(turn.idx)
        /\ unrecorded \subseteq unrecorded'
        /\ \/ wavs'[turn.idx] = turn.n
           \/ turn.n \in unrecorded' /\ wavs'[turn.idx] \in {0, wavs[turn.idx]}
        /\ \A i \in 1 .. Bound : i # turn.idx => wavs'[i] = wavs[i]
    BY <1>2, <2>1, <2>2 DEF VoiceInv, VoiceTypes, RecordingsFit, Record, RecorderFails
  <2>4. OneTurnEach'
    BY <1>2, <2>1 DEF VoiceInv, OneTurnEach, Due, OnItsWay, Waiting
  <2>5. CountersFit' /\ BargeFits'
    BY <1>2, <2>1 DEF VoiceInv, CountersFit, BargeFits, Speaking
  <2>6. RecordingsFit'
    <3>1. \A t \in turns : t.n > 0 => /\ t.wav \in 1 .. Bound /\ t.wav \in Nat
                                      /\ t.wav > idx => t.n - 1 \in cuts
                                      /\ Follows(t.n, t.wav)
                                      /\ t.wav >= turn.idx => t.n - 1 \in cuts
      BY <2>1 DEF VoiceInv, RecordingsFit, StoreOK, TurnRow
    <3>2. \A t \in turns : t.n > 0 => Follows(t.n, t.wav)'
      <4>1. SUFFICES ASSUME NEW t \in turns, t.n > 0 PROVE Follows(t.n, t.wav)'
        OBVIOUS
      <4>2. CASE t.wav = turn.idx
        <5>1. t.n - 1 \in cuts'
          BY <2>1, <2>2, <3>1, <4>1, <4>2
        <5> QED BY <5>1 DEF Follows
      <4>3. CASE t.wav # turn.idx
        <5>1. wavs'[t.wav] = wavs[t.wav] /\ Follows(t.n, t.wav)
          BY <2>3, <3>1, <4>1, <4>3
        <5> QED BY <2>1, <2>3, <5>1 DEF Follows, SpareFile
      <4> QED BY <4>2, <4>3
    <3>5. Follows(turn.n, turn.idx)'
      BY <2>1, <2>3 DEF Follows, SpareFile
    <3>3. turn.idx > idx => turn.n - 1 \in cuts
      BY <2>1 DEF VoiceInv, RecordingsFit
    <3>4. at' \notin {"bot_open", "tts_open"}
      BY <1>2
    <3>6. \A i \in 1 .. Bound : i > idx => SpareFile(i)'
      <4>1. SUFFICES ASSUME NEW i \in 1 .. Bound, i > idx PROVE SpareFile(i)'
        OBVIOUS
      <4>2. CASE i = turn.idx
        BY <2>1, <2>3, <3>3, <4>1, <4>2 DEF SpareFile
      <4>3. CASE i # turn.idx
        BY <2>1, <2>3, <4>1, <4>3 DEF SpareFile, VoiceInv, RecordingsFit
      <4> QED BY <4>2, <4>3
    <3> QED BY <2>1, <2>2, <3>1, <3>2, <3>3, <3>4, <3>5, <3>6 DEF RecordingsFit
  <2>7. DialogueFits'
    <3>1. Stored' = Stored /\ (Alternates => Alternates') /\ (ToAnswer /\ ToAnswer')
      BY <1>2, <2>1 DEF Stored, Alternates, ToAnswer, Speaking
    <3> QED BY <1>2, <2>1, <3>1 DEF VoiceInv, DialogueFits, Waiting
  <2> QED BY <2>4, <2>5, <2>6, <2>7 DEF VoiceInv
<1> QED BY <1>1, <1>2 DEF TtsOpen, NoTts, storeVars, turnVars, recordVars, bargeVars, asrVars, micVars

\* The bot's row: its recording is the one under its number.
LEMMA PersistKeeps ==
    ASSUME StoreOK, VoiceInv, VoiceTypes', PersistBot
    PROVE  VoiceInv'
<1>1. /\ at = "await_monitor" /\ at' = "answered" /\ mon = "done" /\ mon' = mon
      /\ UNCHANGED <<idx, turn, recordVars, barged, cuts, heard, mic, said>>
  BY DEF PersistBot, turnVars, recordVars, bargeVars, asrVars, micVars
<1>2. \/ Appended(BotTurn) /\ fails' = fails
      \/ UNCHANGED turns /\ fails' = fails + 1
  BY AppendKeeps, TurnRows DEF PersistBot, VoiceInv, VoiceTypes, storeVars
<1>3. BotTurn.role = "bot" /\ BotTurn.re = turn.re /\ BotTurn.n = turn.n /\ BotTurn.wav = turn.idx
  BY DEF BotTurn
<1>4. at \in Speaking /\ at' \notin Speaking
  BY <1>1 DEF Speaking
<1>5. OneTurnEach'
  BY <1>1 DEF VoiceInv, OneTurnEach, Due, OnItsWay, Waiting
<1>6. CountersFit' /\ BargeFits'
  BY <1>1, <1>4 DEF VoiceInv, CountersFit, BargeFits
<1>7. RecordingsFit'
  <2>1. /\ turn.idx \in 1 .. Bound /\ turn.n > 0 /\ Follows(turn.n, turn.idx)
        /\ turn.idx > idx => turn.n - 1 \in cuts
    <3>1. turn.idx \in 0 .. Bound /\ turn.idx >= 1
      BY <1>4, TurnsBounded DEF VoiceInv, CountersFit
    <3> QED BY <1>4, <3>1, BoundIsMax DEF VoiceInv, RecordingsFit
  <2>2. \A t \in turns' : t \in turns \/ (t.n = turn.n /\ t.wav = turn.idx)
    BY <1>2, <1>3 DEF Appended
  <2>3. /\ \A i : SpareFile(i) => SpareFile(i)'
        /\ \A n, i : Follows(n, i) => Follows(n, i)'
    BY <1>1, FilesKept
  <2> QED BY <1>1, <1>4, <2>1, <2>2, <2>3 DEF VoiceInv, RecordingsFit
<1>8. DialogueFits'
  <2>1. CASE Appended(BotTurn) /\ fails' = fails /\ fails = 0
    <3>1. Stored \in Nat /\ Stored' = Stored + 1 /\ BotTurn.idx = Stored + 1
      BY <2>1, StoredIsNat DEF Appended
    <3>2. /\ Alternates /\ Stored % 2 = 0
          /\ IF Stored = 0 THEN turn.re = None
             ELSE \E u \in turns : u.idx = Stored /\ u.re = turn.re
      BY <1>4, <2>1 DEF VoiceInv, DialogueFits, ToAnswer
    <3>3. /\ BotTurn.idx % 2 = 1 /\ Stored' % 2 = 1 /\ BotTurn.idx - 1 = Stored
          /\ BotTurn.idx = 1 => Stored = 0
      BY <3>1, <3>2, Parity
    <3>4. Alternates'
      <4>1. IF BotTurn.idx = 1 THEN BotTurn.re = None
            ELSE \E u \in turns : u.idx = BotTurn.idx - 1 /\ u.re = BotTurn.re
        BY <1>3, <3>1, <3>2, <3>3
      <4> QED BY <1>3, <2>1, <3>2, <3>3, <4>1, AlternatesOn
    <3> QED BY <1>1, <1>4, <3>3, <3>4 DEF DialogueFits, ToAnswer, Waiting
  <2>2. CASE fails' # 0
    BY <1>1, <2>2 DEF DialogueFits, Waiting
  <2> QED BY <1>2, <2>1, <2>2 DEF VoiceInv, VoiceTypes
<1> QED BY <1>5, <1>6, <1>7, <1>8 DEF VoiceInv

\* The monitor hands over what it accepted, and the turn counts as cut.
LEMMA AcceptKeeps ==
    ASSUME StoreOK, VoiceInv, VoiceTypes', MonitorAccepts
    PROVE  VoiceInv'
<1>1. /\ mon = "hear" /\ mon' = "done" /\ at' = at /\ at \in Speaking /\ barged = None
      /\ heard # <<>> /\ heard' = <<>> /\ cuts' = cuts \cup {turn.n}
      /\ UNCHANGED <<turns, idx, turn, recordVars, mic, said, fails>>
  BY DEF MonitorAccepts, VoiceInv, BargeFits, turnVars, recordVars, micVars, storeVars
<1>2. OneTurnEach'
  <2>1. /\ heard \in Seq(Utterances) /\ mic \in Seq(Utterances)
        /\ Cardinality(said) \in Nat /\ turn.n \in Nat
    BY CountsAreNat DEF VoiceInv, Counts
  <2>2. Len(heard) \in Nat /\ Len(heard) >= 1 /\ Len(mic) \in Nat /\ Len(heard') = 0
    BY <1>1, <2>1
  <2>3. OnItsWay \in Nat /\ OnItsWay' \in Nat /\ OnItsWay' + 1 <= OnItsWay
    BY <1>1, <2>2 DEF OnItsWay
  <2>4. Due \in Nat /\ Due' \in Nat /\ Due' <= Due + 1
    BY <1>1 DEF Due, Waiting
  <2>5. turn.n + Due + OnItsWay <= 1 + Cardinality(said)
    BY DEF VoiceInv, OneTurnEach
  <2>6. \A n, d, e, o, p, c \in Nat :
          n + d + o <= 1 + c /\ e <= d + 1 /\ p + 1 <= o => n + e + p <= 1 + c
    OBVIOUS
  <2>7. turn.n + Due' + OnItsWay' <= 1 + Cardinality(said)
    BY <2>1, <2>3, <2>4, <2>5, <2>6
  <2> QED BY <1>1, <2>7 DEF OneTurnEach
<1>3. CountersFit' /\ BargeFits'
  BY <1>1 DEF VoiceInv, CountersFit, BargeFits, Speaking
<1>4. RecordingsFit'
  BY <1>1, FilesKept DEF VoiceInv, RecordingsFit
<1>5. DialogueFits'
  BY <1>1 DEF VoiceInv, DialogueFits, Stored, Alternates, ToAnswer, Waiting
<1> QED BY <1>2, <1>3, <1>4, <1>5 DEF VoiceInv

---------------------------------------------------------------------------
(* A voice session.                                                          *)

\* Every step of a voice session keeps its invariant.
LEMMA VoiceKeeps ==
    ASSUME StoreOK, VoiceInv, VoiceNext
    PROVE  StoreOK' /\ VoiceInv'
<1>1. StoreOK' /\ VoiceTypes'
  BY TypesKeep DEF VoiceInv
<1>2. CASE Greet \/ Thinking
  <2>1. CASE Unsaid
    BY <1>1, <1>2, <2>1, CalmSteps, CalmKeeps DEF Greet, Thinking
  <2>2. CASE StartTurn(idx + 1, turn.re, idx + 1)
    BY <1>1, <1>2, <2>2, StartKeeps DEF Greet, Thinking, storeVars
  <2>3. at = "greet" => turn.re = None
    BY DEF VoiceInv, DialogueFits, Waiting
  <2> QED BY <1>2, <2>1, <2>2, <2>3 DEF Greet, Thinking, Unsaid, storeVars
<1> QED BY <1>1, <1>2, CalmSteps, CalmKeeps, ListenFinalKeeps, BargeKeeps, TtsKeeps,
          PersistKeeps, AcceptKeeps
     DEF VoiceNext, Server, Monitor, CalmServer, CalmStreams

\* What the monitor accepted leaves the slot only for the turn that answers it.
LEMMA BargedIsTaken ==
    ASSUME VoiceInv, VoiceNext, barged # None, barged' # barged
    PROVE  barged' = None /\ turn'.re = barged /\ at' = "bot_open"
<1> USE DEF turnVars, recordVars, streamVars, bargeVars, asrVars, micVars
<1>1. at \notin {"greet", "thinking"} /\ mon # "hear"
  BY DEF VoiceInv, BargeFits, Speaking
<1>2. CASE Server
  <2>1. CASE Barge
    BY <2>1 DEF Barge, StartTurn, CannotSay
  <2>2. ~(Greet \/ Thinking)
    BY <1>1 DEF Greet, Thinking
  <2> QED
    BY <1>2, <2>1, <2>2 DEF Server, Create, Setup, Listening, ListenFinal, ListenNothing,
       ListenClosed, ListenPumpFails, BotOpen, TtsOpen, PipeEnds, Drained, PersistBot, EndCall,
       NextListen, Unwind, End
<1>3. CASE Monitor
  BY <1>1, <1>3 DEF Monitor, MonitorStart, MonitorAccepts, MonitorDrops, MonitorEnds
<1>4. ~(BotEnds \/ TtsEnds \/ AsrEnds \/ Pump \/ StalePumps \/ ReadLoopEnds \/ Leave)
  BY DEF BotEnds, TtsEnds, AsrEnds, Pump, StalePumps, ReadLoopEnds, Leave
<1>5. \A u \in Utterances : ~Say(u)
  BY DEF Say
<1> QED BY <1>2, <1>3, <1>4, <1>5 DEF VoiceNext

---------------------------------------------------------------------------
(* A chat session.                                                           *)

\* What a step of r does: r moves, writes rows of its own and closes the
\* session at most.
Grows(r) ==
    /\ \A s \in Requests \ {r} : pc'[s] = pc[s] /\ next'[s] = next[s] /\ reply'[s] = reply[s]
    /\ turns \subseteq turns' /\ \A t \in turns' \ turns : t.re = r /\ t.n = 0
    /\ Stored' \in Nat /\ Stored <= Stored'
    /\ dbFails' \in Nat /\ dbFails <= dbFails'
    /\ pc[First] # "new" /\ row.ended /\ row.status = "ended"
         => row'.ended /\ row'.status = "ended"

\* A request keeps what it has while others move.
LEMMA OtherRequests ==
    ASSUME StoreOK, ChatInv, NEW r \in Requests, NEW s \in Requests \ {r}, Grows(r)
    PROVE  RequestOK(s)'
<1>0. /\ pc'[s] = pc[s] /\ next'[s] = next[s] /\ reply'[s] = reply[s]
      /\ turns \subseteq turns' /\ \A t \in turns' : t.re = s => t \in turns
      /\ Stored' \in Nat /\ Stored \in Nat /\ Stored <= Stored'
      /\ dbFails' \in Nat /\ dbFails \in Nat /\ dbFails <= dbFails'
  BY StoredIsNat DEF Grows, ChatInv, ChatTypes
<1>1. RequestOK(s) /\ next[s] \in Nat
  BY DEF ChatInv, ChatTypes
<1>2. pc'[s] \in {"user_insert", "bot_insert"} => next'[s] \in 1 .. Stored' + 1
  BY <1>0, <1>1 DEF RequestOK
<1>3. /\ StoredBy(s, "user") <=> StoredBy(s, "user")'
      /\ Answered(s) => Answered(s)'
  BY <1>0 DEF StoredBy, Answered
<1>4. Recorded(s)'
  BY <1>0, <1>1, <1>3 DEF RequestOK, Recorded
<1>5. dbFails' = 0 /\ pc'[s] = "done" /\ reply'[s] = "ENDCALL"
        => row'.ended /\ row'.status = "ended"
  <2>1. pc[s] = "done" => pc[First] # "new"
    BY DEF ChatInv
  <2>2. dbFails' = 0 => dbFails = 0
    BY <1>0
  <2> QED BY <1>0, <1>1, <2>1, <2>2 DEF RequestOK, Grows
<1> QED BY <1>0, <1>1, <1>2, <1>3, <1>4, <1>5 DEF RequestOK

\* Where a request goes, and what it notes.
Notes(r, where) ==
    /\ pc' \in [Requests -> ChatPc] /\ pc'[r] = where
    /\ \A s \in Requests \ {r} : pc'[s] = pc[s]

\* A request that only moves on changes its own place.
LEMMA Goes ==
    ASSUME ChatTypes, NEW r \in Requests, NEW where \in ChatPc, Goto(r, where)
    PROVE  Notes(r, where)
BY DEF ChatTypes, Goto, Notes

\* The invariant of the session from that of the request that moved.
LEMMA ChatSums ==
    ASSUME StoreOK, ChatInv, NEW r \in Requests, Grows(r), ChatTypes', RequestOK(r)',
           pc[First] # "new" \/ r = First, pc'[r] # "new"
    PROVE  ChatInv'
<1>1. \A s \in Requests : RequestOK(s)'
  BY OtherRequests
<1>2. pc'[First] # "new"
  BY DEF Grows
<1>3. \A t \in turns' : t.n = 0
  BY DEF Grows, ChatInv
<1> QED BY <1>1, <1>2, <1>3 DEF ChatInv

\* A request that has begun, or is the one that may.
LEMMA ChatBegun ==
    ASSUME ChatInv, NEW r \in Requests
    PROVE  /\ ChatTypes /\ RequestOK(r)
           /\ pc[r] # "new" => pc[First] # "new"
           /\ known => pc[First] # "new"
BY DEF ChatInv

\* A message is posted.
LEMMA PostKeeps ==
    ASSUME StoreOK, ChatInv, NEW r \in Requests, Post(r)
    PROVE  StoreOK' /\ ChatInv'
<1>0. ChatTypes /\ RequestOK(r) /\ pc[r] = "new" /\ "user_select" \in ChatPc
  BY DEF ChatInv, Post, ChatPc
<1>1. Goto(r, "user_select") /\ UNCHANGED <<turns, next, reply, known, dbFails>>
  BY DEF Post
<1>2. Notes(r, "user_select")
  BY <1>0, <1>1, Goes
<1>3. Stored \in Nat /\ Stored' = Stored
  BY <1>1, StoredIsNat DEF Stored
<1>4. StoreOK' /\ (pc[First] # "new" => row' = row) /\ (pc[First] # "new" \/ r = First)
  <2>1. CASE r = First /\ CreateWebSession
    BY <1>0, <1>1, <2>1, RowKeeps DEF ChatInv
  <2>2. CASE known /\ UNCHANGED row
    BY <1>1, <2>2 DEF StoreOK, TurnsAreNumbered, ChatInv
  <2> QED BY <2>1, <2>2 DEF Post
<1>5. Grows(r)
  BY <1>0, <1>1, <1>2, <1>3, <1>4 DEF Grows, Notes, ChatTypes
<1>6. ChatTypes'
  BY <1>0, <1>1, <1>2 DEF ChatTypes, Notes
<1>7. RequestOK(r)'
  BY <1>0, <1>1, <1>2 DEF RequestOK, Recorded, Notes
<1> QED BY <1>2, <1>4, <1>5, <1>6, <1>7, ChatSums DEF Notes

\* The numbers are computed from what is committed.
LEMMA SelectKeeps ==
    ASSUME StoreOK, ChatInv, NEW r \in Requests, Select(r)
    PROVE  StoreOK' /\ ChatInv'
<1>0. /\ ChatTypes /\ RequestOK(r) /\ pc[r] \in {"user_select", "bot_select"}
      /\ {"user_insert", "bot_insert"} \subseteq ChatPc /\ Stored \in Nat
  BY StoredIsNat DEF ChatInv, Select, ChatPc
<1>1. UNCHANGED <<row, turns, reply, known, dbFails>> /\ next' = [next EXCEPT ![r] = Stored + 1]
  BY NextIsNew DEF Select, storeVars
<1>2. \/ pc[r] = "user_select" /\ Notes(r, "user_insert")
      \/ pc[r] = "bot_select" /\ Notes(r, "bot_insert")
  BY <1>0, Goes DEF Select
<1>3. /\ next' \in [Requests -> Nat] /\ next'[r] = Stored + 1
      /\ \A s \in Requests \ {r} : next'[s] = next[s]
  BY <1>0, <1>1 DEF ChatTypes
<1>4. Stored' = Stored
  BY <1>1 DEF Stored
<1>5. Grows(r)
  BY <1>0, <1>1, <1>2, <1>3, <1>4 DEF Grows, Notes, ChatTypes
<1>6. ChatTypes'
  BY <1>0, <1>1, <1>2, <1>3 DEF ChatTypes, Notes
<1>7. RequestOK(r)'
  <2>1. \A t \in turns : t.idx \in 1 .. Stored
    BY DEF StoreOK, TurnsAreNumbered, Stored
  <2>2. \A t \in turns : t.idx < next'[r]
    BY <1>0, <1>3, <2>1
  <2>3. next'[r] \in 1 .. Stored' + 1
    BY <1>0, <1>3, <1>4
  <2> QED BY <1>0, <1>1, <1>2, <2>2, <2>3 DEF RequestOK, Recorded, StoredBy, Notes
<1> QED BY <1>0, <1>1, <1>2, <1>5, <1>6, <1>7, ChatSums, ChatBegun
     DEF Notes, StoreOK, TurnsAreNumbered

\* Steps that write no row and note no number.
LEMMA MoveKeeps ==
    ASSUME StoreOK, ChatInv, NEW r \in Requests,
           NoBotClient(r) \/ Open(r) \/ Streamed(r)
    PROVE  StoreOK' /\ ChatInv'
<1>0. /\ ChatTypes /\ RequestOK(r) /\ pc[r] # "new" /\ Stored \in Nat
      /\ {"streaming", "bot_select", "done"} \subseteq ChatPc
  BY StoredIsNat DEF ChatInv, NoBotClient, Open, Streamed, ChatPc
<1>1. UNCHANGED <<row, turns, next, dbFails>> /\ known' \in BOOLEAN
  BY <1>0 DEF NoBotClient, Open, Streamed, storeVars, ChatTypes
<1>2. \/ pc[r] = "user_select" /\ Goto(r, "done") /\ reply' = reply
      \/ pc[r] = "open" /\ Goto(r, "streaming") /\ reply' = reply
      \/ /\ pc[r] \in {"open", "streaming"} /\ Goto(r, "bot_select")
         /\ \E a \in {"CHAT", "ENDCALL", "ERROR"} : reply' = [reply EXCEPT ![r] = a]
  BY DEF NoBotClient, Open, Streamed
<1>3. /\ reply' \in [Requests -> {"none", "CHAT", "ENDCALL", "ERROR"}]
      /\ \A s \in Requests \ {r} : reply'[s] = reply[s]
  BY <1>0, <1>2 DEF ChatTypes
<1>4. \/ pc[r] = "user_select" /\ Notes(r, "done") /\ reply' = reply
      \/ pc[r] = "open" /\ Notes(r, "streaming") /\ reply' = reply
      \/ pc[r] \in {"open", "streaming"} /\ Notes(r, "bot_select")
  BY <1>0, <1>2, Goes
<1>5. Stored' = Stored
  BY <1>1 DEF Stored
<1>6. Grows(r)
  BY <1>0, <1>1, <1>3, <1>4, <1>5 DEF Grows, Notes, ChatTypes
<1>7. ChatTypes'
  BY <1>0, <1>1, <1>3, <1>4 DEF ChatTypes, Notes
<1>8. RequestOK(r)'
  BY <1>0, <1>1, <1>4 DEF RequestOK, Recorded, StoredBy, Notes
<1> QED BY <1>0, <1>1, <1>4, <1>6, <1>7, <1>8, ChatSums, ChatBegun
     DEF Notes, StoreOK, TurnsAreNumbered

\* A row of r, as InsertTurn leaves it.
LEMMA ChatInsert ==
    ASSUME StoreOK, ChatInv, NEW r \in Requests, NEW role \in {"user", "bot"},
           pc[r] \in {"user_insert", "bot_insert"}, InsertTurn(ChatTurn(r, role))
    PROVE  StoreOK' /\ Appended(ChatTurn(r, role))
<1>1. next[r] \in 1 .. Stored + 1 /\ next[r] \in Nat
  BY DEF ChatInv, ChatTypes, RequestOK
<1>2. ChatTurn(r, role) \in TurnRow /\ ChatTurn(r, role).idx \in 1 .. Stored + 1
  BY <1>1 DEF ChatTurn, TurnRow
<1> QED BY <1>2, InsertKeeps

\* The message is stored, refused because its number was taken, or fails.
LEMMA InsertUserKeeps ==
    ASSUME StoreOK, ChatInv, NEW r \in Requests, InsertUser(r)
    PROVE  StoreOK' /\ ChatInv'
<1>0. /\ ChatTypes /\ RequestOK(r) /\ pc[r] = "user_insert" /\ Stored \in Nat
      /\ {"open", "done"} \subseteq ChatPc
  BY StoredIsNat DEF ChatInv, InsertUser, ChatPc
<1>1. UNCHANGED <<next, reply, known, dbFails>>
  BY DEF InsertUser
<1>2. CASE InsertTurn(ChatTurn(r, "user")) /\ Goto(r, "open")
  <2>1. StoreOK' /\ Appended(ChatTurn(r, "user"))
    BY <1>0, <1>2, ChatInsert
  <2>2. ChatTurn(r, "user").re = r /\ ChatTurn(r, "user").role = "user" /\ ChatTurn(r, "user").n = 0
    BY DEF ChatTurn
  <2>3. Notes(r, "open")
    BY <1>0, <1>2, Goes
  <2>4. Grows(r)
    BY <1>0, <1>1, <2>1, <2>2, <2>3 DEF Grows, Notes, ChatTypes, Appended
  <2>5. ChatTypes'
    BY <1>0, <1>1, <2>3 DEF ChatTypes, Notes
  <2>6. RequestOK(r)'
    BY <1>0, <1>1, <2>1, <2>2, <2>3 DEF RequestOK, Recorded, StoredBy, Notes, Appended
  <2> QED BY <1>0, <2>1, <2>3, <2>4, <2>5, <2>6, ChatSums, ChatBegun DEF Notes
<1>3. CASE Goto(r, "done") /\ UNCHANGED storeVars
  <2>1. UNCHANGED <<row, turns>> /\ Stored' = Stored
    BY <1>3 DEF storeVars, Stored
  <2>2. Notes(r, "done")
    BY <1>0, <1>3, Goes
  <2>3. Grows(r)
    BY <1>0, <1>1, <2>1, <2>2 DEF Grows, Notes, ChatTypes
  <2>4. ChatTypes'
    BY <1>0, <1>1, <2>2 DEF ChatTypes, Notes
  <2>5. RequestOK(r)'
    BY <1>0, <1>1, <2>1, <2>2 DEF RequestOK, Recorded, StoredBy, Notes
  <2> QED BY <1>0, <2>1, <2>2, <2>3, <2>4, <2>5, ChatSums, ChatBegun
       DEF Notes, StoreOK, TurnsAreNumbered
<1> QED BY <1>2, <1>3 DEF InsertUser

\* The bot's row follows the user's, or a row of another request is in its
\* place, or the database has refused it.
LEMMA InsertBotKeeps ==
    ASSUME StoreOK, ChatInv, NEW r \in Requests, InsertBot(r)
    PROVE  StoreOK' /\ ChatInv'
<1>0. /\ ChatTypes /\ RequestOK(r) /\ pc[r] = "bot_insert" /\ Stored \in Nat
      /\ {"end", "done"} \subseteq ChatPc /\ dbFails \in Nat
  BY StoredIsNat DEF ChatInv, InsertBot, ChatPc, ChatTypes
<1>1. UNCHANGED <<next, reply, known>>
  BY DEF InsertBot
<1>2. \/ Notes(r, "end")
      \/ Notes(r, "done") /\ reply[r] # "ENDCALL"
  BY <1>0, Goes DEF InsertBot
<1>3. /\ StoredBy(r, "user") /\ next[r] \in Nat
      /\ \A t \in turns : t.re = r => t.idx < next[r]
  BY <1>0 DEF RequestOK, Recorded, ChatTypes
<1>4. StoreOK' /\ Grows(r) /\ Answered(r)'
  <2>1. CASE InsertTurn(ChatTurn(r, "bot")) /\ UNCHANGED dbFails
    <3>1. StoreOK' /\ Appended(ChatTurn(r, "bot"))
      BY <1>0, <2>1, ChatInsert
    <3>2. /\ ChatTurn(r, "bot").re = r /\ ChatTurn(r, "bot").role = "bot"
          /\ ChatTurn(r, "bot").n = 0 /\ ChatTurn(r, "bot").idx = next[r]
      BY DEF ChatTurn
    <3>3. Answered(r)'
      BY <1>3, <3>1, <3>2 DEF Answered, StoredBy, Appended
    <3> QED BY <1>0, <1>1, <1>2, <2>1, <3>1, <3>2, <3>3 DEF Grows, Notes, Appended
  <2>2. CASE Taken(next[r]) /\ UNCHANGED <<storeVars, dbFails>>
    <3>1. UNCHANGED <<row, turns>> /\ Stored' = Stored
      BY <2>2 DEF storeVars, Stored
    <3>2. \E t \in turns : t.idx = next[r] /\ t.re # r
      BY <1>3, <2>2 DEF Taken
    <3>3. Answered(r)'
      BY <1>1, <3>1, <3>2 DEF Answered
    <3> QED BY <1>0, <1>1, <1>2, <2>2, <3>1, <3>3 DEF Grows, Notes, StoreOK, TurnsAreNumbered
  <2>3. CASE DbRefuses
    <3>1. UNCHANGED <<row, turns>> /\ Stored' = Stored /\ dbFails' = dbFails + 1
      BY <2>3 DEF DbRefuses, storeVars, Stored
    <3> QED BY <1>0, <1>1, <1>2, <3>1 DEF Grows, Notes, StoreOK, TurnsAreNumbered, Answered
  <2> QED BY <2>1, <2>2, <2>3 DEF InsertBot
<1>5. ChatTypes'
  BY <1>0, <1>1, <1>2, <1>4 DEF ChatTypes, Notes, Grows
<1>6. RequestOK(r)'
  BY <1>0, <1>1, <1>2, <1>4 DEF RequestOK, Recorded, Notes
<1> QED BY <1>0, <1>2, <1>4, <1>5, <1>6, ChatSums, ChatBegun DEF Notes

\* ENDCALL closes the row, or its write fails.
LEMMA EndChatKeeps ==
    ASSUME StoreOK, ChatInv, NEW r \in Requests, EndChat(r)
    PROVE  StoreOK' /\ ChatInv'
<1>0. /\ ChatTypes /\ RequestOK(r) /\ pc[r] = "end" /\ Stored \in Nat
      /\ "done" \in ChatPc /\ dbFails \in Nat
  BY StoredIsNat DEF ChatInv, EndChat, ChatPc, ChatTypes
<1>1. UNCHANGED <<turns, next, reply, known>> /\ Stored' = Stored /\ Notes(r, "done")
  BY <1>0, Goes DEF EndChat, DbRefuses, storeVars, Stored
<1>2. /\ StoreOK' /\ dbFails' \in Nat /\ dbFails <= dbFails'
      /\ \/ row'.ended /\ row'.status = "ended"
         \/ dbFails' > 0 /\ row' = row
  <2>1. CASE EndWebSession("ended", NoError) /\ UNCHANGED dbFails
    <3>1. StoreOK'
      BY <1>1, <2>1, RowKeeps
    <3>2. row \in RowType
      BY DEF StoreOK
    <3> QED BY <1>0, <2>1, <3>1, <3>2 DEF EndWebSession, RowType
  <2>2. CASE DbRefuses
    BY <1>0, <1>1, <2>2 DEF DbRefuses, storeVars, StoreOK, TurnsAreNumbered
  <2> QED BY <2>1, <2>2 DEF EndChat
<1>3. Grows(r)
  BY <1>0, <1>1, <1>2 DEF Grows, Notes
<1>4. ChatTypes'
  BY <1>0, <1>1, <1>2 DEF ChatTypes, Notes
<1>5. RequestOK(r)'
  <2>1. StoredBy(r, "user")' => Answered(r)'
    BY <1>0, <1>1, <1>2 DEF RequestOK, StoredBy, Answered
  <2> QED BY <1>0, <1>1, <1>2, <2>1 DEF RequestOK, Recorded, Notes
<1> QED BY <1>0, <1>1, <1>2, <1>3, <1>4, <1>5, ChatSums, ChatBegun DEF Notes

\* Every step of a chat keeps its invariant.
LEMMA ChatKeeps ==
    ASSUME StoreOK, ChatInv, ChatNext
    PROVE  StoreOK' /\ ChatInv'
BY PostKeeps, SelectKeeps, MoveKeeps, InsertUserKeeps, InsertBotKeeps, EndChatKeeps DEF ChatNext

---------------------------------------------------------------------------
(* The session, of either channel.                                           *)

\* A session begins with no turn and with nothing asked.
LEMMA SessionInitInv == Init => SessionInv
<1> SUFFICES ASSUME Init PROVE SessionInv
  OBVIOUS
<1>1. turns = {} /\ row = NoRow /\ IsFiniteSet(turns) /\ Stored = 0
  BY FS_EmptySet DEF Init, NoSession, Stored
<1>2. StoreOK
  BY <1>1 DEF StoreOK, TurnsAreNumbered, NoRow, NoError, RowType, Stored
<1>3. CASE at = "create"
  <2>1. VoiceTypes
    <3>1. Bound \in Nat /\ MaxTurns = Bound
      BY BoundIsMax
    <3> QED BY <1>3, <3>1 DEF Init, VoiceIdle, NoTurn, VoiceTypes, VoiceAt
  <2>2. OneTurnEach
    <3>1. Due = 1 /\ OnItsWay = 0 /\ turn.n = 0
      BY <1>3 DEF Init, VoiceIdle, NoTurn, Due, OnItsWay, Waiting
    <3>2. Cardinality(said) = 0
      BY FS_EmptySet DEF Init, VoiceIdle
    <3> QED BY <3>1, <3>2 DEF OneTurnEach
  <2>3. CountersFit /\ BargeFits /\ RecordingsFit
    BY <1>1, <1>3, BoundIsMax DEF Init, VoiceIdle, NoTurn, CountersFit, BargeFits, RecordingsFit,
                      SpareFile, Speaking
  <2>4. DialogueFits
    BY <1>1, <1>3 DEF Init, VoiceIdle, NoTurn, DialogueFits, Alternates, ToAnswer, Speaking
  <2> QED BY <1>2, <1>3, <2>1, <2>2, <2>3, <2>4 DEF SessionInv, VoiceInv, Init
<1>4. CASE at = "chat"
  <2>1. ChatTypes
    BY DEF Init, ChatIdle, ChatTypes, ChatPc
  <2>2. \A r \in Requests : RequestOK(r)
    BY <1>1 DEF Init, ChatIdle, RequestOK, Recorded
  <2>3. ChatInv
    BY <1>1, <2>1, <2>2 DEF Init, ChatIdle, ChatInv
  <2> QED BY <1>2, <1>4, <2>3 DEF SessionInv, Init
<1> QED BY <1>3, <1>4 DEF Init

\* Every step of either channel keeps the invariant.
LEMMA SessionStep ==
    ASSUME SessionInv, [Next]_vars
    PROVE  SessionInv'
<1>0. StoreOK
  BY DEF SessionInv
<1>1. CASE Voice(VoiceNext)
  <2>1. at # "chat" /\ VoiceInv /\ ChatIdle /\ UNCHANGED chatVars
    BY <1>1 DEF SessionInv, Voice
  <2>2. StoreOK' /\ VoiceInv'
    BY <1>0, <1>1, <2>1, VoiceKeeps DEF Voice
  <2>3. ChatIdle'
    BY <2>1 DEF ChatIdle, chatVars, reqVars
  <2>4. at' # "chat"
    BY <2>2 DEF VoiceInv, VoiceTypes, VoiceAt
  <2> QED BY <2>2, <2>3, <2>4 DEF SessionInv
<1>2. CASE at = "chat" /\ ChatNext /\ UNCHANGED voiceVars
  <2>1. ChatInv /\ VoiceIdle
    BY <1>2 DEF SessionInv
  <2>2. StoreOK' /\ ChatInv'
    BY <1>0, <1>2, <2>1, ChatKeeps
  <2>3. at' = "chat" /\ VoiceIdle'
    BY <1>2, <2>1 DEF VoiceIdle, voiceVars, turnVars, recordVars, streamVars, bargeVars, asrVars, micVars
  <2> QED BY <2>2, <2>3 DEF SessionInv
<1>3. CASE UNCHANGED vars
  <2> USE <1>3 DEF vars, storeVars, voiceVars, turnVars, recordVars, streamVars, bargeVars, asrVars, micVars,
                   chatVars, reqVars
  <2>1. StoreOK'
    BY <1>0 DEF StoreOK, TurnsAreNumbered
  <2>2. VoiceInv => VoiceInv'
    <3>1. VoiceTypes => VoiceTypes'
      BY DEF VoiceTypes
    <3>2. OneTurnEach => OneTurnEach'
      BY DEF OneTurnEach, Due, OnItsWay, Waiting
    <3>3. CountersFit /\ BargeFits /\ RecordingsFit => CountersFit' /\ BargeFits' /\ RecordingsFit'
      BY DEF CountersFit, BargeFits, RecordingsFit, Follows, SpareFile
    <3>4. DialogueFits => DialogueFits'
      BY DEF DialogueFits, Alternates, ToAnswer, Stored, Waiting
    <3> QED BY <3>1, <3>2, <3>3, <3>4 DEF VoiceInv
  <2>3. (ChatIdle => ChatIdle') /\ (VoiceIdle => VoiceIdle')
    BY DEF ChatIdle, VoiceIdle
  <2>4. ChatInv => ChatInv'
    <3>1. ChatTypes => ChatTypes'
      BY DEF ChatTypes
    <3>2. ASSUME NEW r \in Requests, RequestOK(r) PROVE RequestOK(r)'
      BY <3>2 DEF RequestOK, Recorded, Answered, StoredBy, Stored
    <3> QED BY <3>1, <3>2 DEF ChatInv
  <2> QED BY <2>1, <2>2, <2>3, <2>4 DEF SessionInv
<1> QED BY <1>1, <1>2, <1>3 DEF Next

\* So the invariant always holds.
LEMMA SessionAlways == Spec => []SessionInv
<1> QED BY SessionInitInv, SessionStep, PTL DEF Spec

\* Whatever a session's goroutines or overlapping requests do, its turns are
\* numbered from 1 without a gap and total_turns counts them, and every value
\* keeps its type (web_sessions.go:104).
THEOREM SessionsAreNumbered == Spec => []WebInv
<1>1. SessionInv => WebInv
  <2> SUFFICES ASSUME SessionInv PROVE WebInv
    OBVIOUS
  <2>0. TurnsAreNumbered /\ row \in RowType /\ turns \subseteq TurnRow
    BY DEF SessionInv, StoreOK
  <2>1. MaxTurns = Bound /\ Bound \in Nat
    BY BoundIsMax
  <2>2. CASE at # "chat" /\ VoiceInv /\ ChatIdle
    <3>1. turn.n \in 0 .. Bound /\ idx \in 0 .. Bound /\ turn.idx \in 0 .. Bound
      BY <2>2, TurnsBounded DEF VoiceInv
    <3>2. VoiceTypes
      BY <2>2 DEF VoiceInv
    <3>3. pc \in [Requests -> ChatPc]
      BY <2>2 DEF ChatIdle, ChatPc
    <3> QED BY <2>0, <2>1, <3>1, <3>2, <3>3 DEF WebInv, WebTypeOK, VoiceTypes, VoiceAt, ChatPc
  <2>3. CASE at = "chat" /\ ChatInv /\ VoiceIdle
    <3>1. /\ turn.n \in 0 .. Bound /\ idx \in 0 .. Bound /\ turn.idx \in 0 .. Bound
          /\ wavs \in [1 .. Bound -> 0 .. Bound] /\ unrecorded \subseteq Nat
      BY <2>1, <2>3 DEF VoiceIdle, NoTurn
    <3>2. asr = "off" /\ mon = "off" /\ Len(mic) <= Cap /\ stale \in 0 .. MaxStale
      BY <2>3 DEF VoiceIdle
    <3>3. pc \in [Requests -> ChatPc]
      BY <2>3 DEF ChatInv, ChatTypes
    <3> QED BY <2>0, <2>1, <2>3, <3>1, <3>2, <3>3 DEF WebInv, WebTypeOK, ChatPc
  <2> QED BY <2>2, <2>3 DEF SessionInv
<1> QED BY <1>1, SessionAlways, PTL

\* A recording is overwritten only when a barge-in started the turn it was of,
\* however barge-ins nest (web_voice.go: run's turnIdx).
THEOREM RecordingsAreKept == Spec => []RecordingsFollowTurns
<1>1. SessionInv => RecordingsFollowTurns
  BY DEF SessionInv, VoiceInv, RecordingsFit, ChatInv, RecordingsFollowTurns, SpokenTurns, Follows
<1> QED BY <1>1, SessionAlways, PTL

\* Unless the database has refused a row, every stored answer follows what it
\* answers.
THEOREM DialoguesAlternate == Spec => []DialogueAlternates
<1>1. SessionInv => DialogueAlternates
  BY DEF SessionInv, VoiceInv, DialogueFits, Alternates, DialogueAlternates
<1> QED BY <1>1, SessionAlways, PTL

\* A chat request that is over has its answer on record after its message,
\* whichever requests it overlapped, and a chat the bot ended is complete.
THEOREM ChatsAreKept == Spec => []ChatIsKept
<1>1. SessionInv => ChatIsKept
  <2> SUFFICES ASSUME SessionInv PROVE ChatIsKept
    OBVIOUS
  <2>1. CASE at # "chat" /\ VoiceInv /\ ChatIdle
    BY <2>1 DEF ChatIdle, ChatIsKept, AnswerIsRecorded, EndedChatIsComplete
  <2>2. CASE at = "chat" /\ ChatInv /\ VoiceIdle
    BY <2>2 DEF ChatInv, RequestOK, Answered, ChatIsKept, AnswerIsRecorded, EndedChatIsComplete
  <2> QED BY <2>1, <2>2 DEF SessionInv
<1> QED BY <1>1, SessionAlways, PTL

\* No answer of the visitor that the monitor accepted is dropped: it leaves the
\* slot only for the turn that answers it (web_voice.go:462).
THEOREM BargesAreAnswered == Spec => AcceptedBargeIsAnswered
<1>1. ASSUME SessionInv, [Next]_vars
      PROVE  [barged # None /\ barged' # barged
                => barged' = None /\ turn'.re = barged /\ at' = "bot_open"]_voiceVars
  <2>1. CASE Voice(VoiceNext)
    BY <1>1, <2>1, BargedIsTaken DEF SessionInv, Voice
  <2>2. CASE UNCHANGED voiceVars
    BY <2>2
  <2> QED BY <1>1, <2>1, <2>2 DEF Next, vars
<1> QED BY <1>1, SessionAlways, PTL DEF Spec, AcceptedBargeIsAnswered
---------------------------------------------------------------------------
(* The record as a log.  Its lines are new because each utterance is in one  *)
(* place at a time: on its way, accepted by the monitor, or in a turn.       *)

InSeq(u, s) == \E i \in DOMAIN s : s[i] = u
Distinct(s) == \A i, j \in DOMAIN s : s[i] = s[j] => i = j
Coming(u)   == InSeq(u, heard) \/ InSeq(u, mic)
NoRowOf(u)  == \A t \in turns : t.re # u

\* Audio is in one queue, once.
ComesOnce ==
    /\ Distinct(heard) /\ Distinct(mic)
    /\ \A u \in Utterances : ~(InSeq(u, heard) /\ InSeq(u, mic))

\* What is on its way, or accepted and not yet stored, has no row; the turn that
\* runs has no answer on record; a session that was ended has returned.
VoiceOnce ==
    /\ ComesOnce
    /\ \A u \in Utterances :
         Coming(u) => u \in said /\ u # barged /\ u # turn.re /\ NoRowOf(u)
    /\ barged \in said \cup {None}
    /\ barged # None /\ at \in Speaking \cup {"answered"} => barged # turn.re /\ NoRowOf(barged)
    /\ turn.re \in said \cup {None} /\ \A t \in turns : t.re \in said \cup {None}
    /\ ToAnswer => \A t \in turns : t.re = turn.re => t.role = "user"
    /\ row.ended => at = "closed"

\* A chat request's own rows, until its answer is stored, are its message.
ChatOnce ==
    /\ pc[First] = "new" => ~row.ended
    /\ \A r \in Requests : pc[r] \in {"open", "streaming", "bot_select", "bot_insert"} =>
         \A t \in turns : t.re = r => t.role = "user"

OnceInv == IF at = "chat" THEN ChatOnce ELSE VoiceOnce

\* Nothing is in the empty queue.
LEMMA EmptyOnce == Distinct(<<>>) /\ \A u : ~InSeq(u, <<>>)
BY DEF Distinct, InSeq

\* What leaves a queue is not in it any more.
LEMMA TailOnce ==
    ASSUME NEW s \in Seq(Utterances), s # <<>>, Distinct(s)
    PROVE  /\ Head(s) \in Utterances /\ InSeq(Head(s), s)
           /\ Distinct(Tail(s)) /\ ~InSeq(Head(s), Tail(s))
           /\ \A u : InSeq(u, Tail(s)) => InSeq(u, s)
<1>1. PICK n \in Nat : n = Len(s) /\ n >= 1
  OBVIOUS
<1>2. /\ DOMAIN s = 1 .. n /\ DOMAIN Tail(s) = 1 .. n - 1 /\ Head(s) = s[1]
      /\ \A i \in 1 .. n - 1 : Tail(s)[i] = s[i + 1] /\ i + 1 \in 1 .. n /\ i \in Nat
  BY <1>1
<1>3. 1 \in 1 .. n /\ s[1] \in Utterances
  BY <1>1
<1> HIDE DEF Distinct
<1>4. Distinct(Tail(s))
  BY <1>2 DEF Distinct
<1>5. ~InSeq(Head(s), Tail(s))
  BY <1>2, <1>3 DEF Distinct, InSeq
<1> QED BY <1>2, <1>3, <1>4, <1>5 DEF InSeq

\* What joins a queue is in it once.
LEMMA AppendOnce ==
    ASSUME NEW s \in Seq(Utterances), NEW e \in Utterances, Distinct(s), ~InSeq(e, s)
    PROVE  /\ Distinct(Append(s, e))
           /\ \A u : InSeq(u, Append(s, e)) => InSeq(u, s) \/ u = e
<1>1. PICK n \in Nat : n = Len(s)
  OBVIOUS
<1>2. /\ DOMAIN s = 1 .. n /\ DOMAIN Append(s, e) = 1 .. n + 1
      /\ Append(s, e)[n + 1] = e /\ \A i \in 1 .. n : Append(s, e)[i] = s[i]
  BY <1>1
<1>3. \A i \in 1 .. n + 1 : i \in 1 .. n \/ i = n + 1
  BY <1>1
<1> QED BY <1>2, <1>3 DEF Distinct, InSeq

\* The queues keep what is in them apart; what is new in them was never said.
LEMMA QueuesKeep ==
    ASSUME VoiceTypes, VoiceOnce, VoiceNext
    PROVE  /\ ComesOnce' /\ said \subseteq said'
           /\ \A u \in Utterances : Coming(u)' => u \in said' /\ (Coming(u) \/ u \notin said)
<1> USE DEF micVars, asrVars
<1>1. /\ heard \in Seq(Utterances) /\ mic \in Seq(Utterances) /\ ComesOnce
      /\ \A u \in Utterances : Coming(u) => u \in said
  BY DEF VoiceTypes, VoiceOnce
<1> DEFINE Goal == /\ ComesOnce' /\ said \subseteq said'
                   /\ \A u \in Utterances : Coming(u)' => u \in said' /\ (Coming(u) \/ u \notin said)
<1>2. ASSUME heard' = heard \/ heard' = <<>>, mic' = mic, said' = said PROVE Goal
  BY <1>1, <1>2, EmptyOnce DEF ComesOnce, Coming
<1> HIDE DEF Goal
<1>3. CASE \/ Server \/ MonitorStart \/ MonitorAccepts \/ MonitorEnds
           \/ BotEnds \/ TtsEnds \/ AsrEnds \/ ReadLoopEnds \/ Leave
  <2>1. (heard' = heard \/ heard' = <<>>) /\ mic' = mic /\ said' = said
    BY <1>3 DEF Server, Create, Setup, Greet, Listening, Thinking, ListenFinal, ListenNothing,
       ListenClosed, ListenPumpFails, BotOpen, TtsOpen, PipeEnds, Drained, PersistBot, Barge,
       EndCall, NextListen, Unwind, End, LeaveListen, MonitorStart, MonitorAccepts, MonitorEnds,
       BotEnds, TtsEnds, AsrEnds, ReadLoopEnds, Leave
  <2> QED BY <1>2, <2>1 DEF Goal
<1>4. CASE MonitorDrops
  <2>1. heard # <<>> /\ heard' = Tail(heard) /\ mic' = mic /\ said' = said
    BY <1>4 DEF MonitorDrops
  <2> QED BY <1>1, <2>1, TailOnce DEF Goal, ComesOnce, Coming
<1>5. CASE Pump
  <2>1. /\ mic # <<>> /\ mic' = Tail(mic) /\ said' = said
        /\ heard' = heard \/ heard' = Append(heard, Head(mic))
    BY <1>5 DEF Pump
  <2>2. /\ Head(mic) \in Utterances /\ InSeq(Head(mic), mic) /\ ~InSeq(Head(mic), heard)
        /\ Distinct(Tail(mic)) /\ ~InSeq(Head(mic), Tail(mic))
        /\ \A u : InSeq(u, Tail(mic)) => InSeq(u, mic)
    BY <1>1, <2>1, TailOnce DEF ComesOnce
  <2>3. Distinct(heard') /\ \A u : InSeq(u, heard') => InSeq(u, heard) \/ u = Head(mic)
    BY <1>1, <2>1, <2>2, AppendOnce DEF ComesOnce
  <2> QED BY <1>1, <2>1, <2>2, <2>3 DEF Goal, ComesOnce, Coming
<1>6. CASE StalePumps
  <2>1. mic # <<>> /\ (mic' = mic \/ mic' = Tail(mic)) /\ heard' = heard /\ said' = said
    BY <1>6 DEF StalePumps
  <2>2. Distinct(mic') /\ \A u : InSeq(u, mic') => InSeq(u, mic)
    BY <1>1, <2>1, TailOnce DEF ComesOnce
  <2> QED BY <1>1, <2>1, <2>2 DEF Goal, ComesOnce, Coming
<1>7. ASSUME NEW v \in Utterances, Say(v) PROVE Goal
  <2>1. /\ v \notin said /\ said' = said \cup {v} /\ heard' = heard
        /\ mic' = mic \/ mic' = Append(mic, v)
    BY <1>7 DEF Say
  <2>2. ~InSeq(v, mic) /\ ~InSeq(v, heard)
    BY <1>1, <2>1 DEF Coming
  <2>3. Distinct(mic') /\ \A u : InSeq(u, mic') => InSeq(u, mic) \/ u = v
    BY <1>1, <2>1, <2>2, AppendOnce DEF ComesOnce
  <2> QED BY <1>1, <2>1, <2>2, <2>3 DEF Goal, ComesOnce, Coming
<1> QED BY <1>3, <1>4, <1>5, <1>6, <1>7 DEF VoiceNext, Monitor, Goal

\* What a voice step does to the rows and to what the turn answers.
RowStep ==
    \/ /\ UNCHANGED <<turns, turn, barged>> /\ (ToAnswer' => ToAnswer)
       /\ barged # None /\ at' \in Speaking \cup {"answered"} => at \in Speaking \cup {"answered"}
    \/ /\ UNCHANGED turns /\ turn'.re = turn.re /\ barged' = None
       /\ ToAnswer \/ turns = {}
    \/ /\ barged = None /\ barged' \in Utterances /\ Coming(barged') /\ UNCHANGED <<turns, turn, at>>
       /\ \A u \in Utterances : Coming(u)' => Coming(u) /\ u # barged'
    \/ \E u \in Utterances :
         /\ UserRow(u) /\ turn'.re = u /\ barged' = barged
         /\ at = "listen" /\ at' = "thinking" /\ Coming(u)
         /\ \A v \in Utterances : Coming(v)' => Coming(v) /\ v # u
    \/ /\ barged # None /\ at = "answered" /\ UserRow(barged)
       /\ \/ turn'.re = barged /\ barged' = None /\ at' = "bot_open"
          \/ UNCHANGED <<turn, barged>> /\ at' = "unwind"
    \/ /\ at = "await_monitor" /\ at' = "answered" /\ UNCHANGED <<turn, barged>>
       /\ \/ Appended(BotTurn)
          \/ UNCHANGED turns

\* Each step is one of these.
LEMMA RowSteps ==
    ASSUME StoreOK, VoiceInv, VoiceTypes', VoiceOnce, VoiceNext
    PROVE  RowStep
<1> USE DEF turnVars, recordVars, bargeVars, asrVars, micVars, storeVars
<1>1. ASSUME Calm PROVE RowStep
  BY <1>1 DEF Calm, CalmAt, RowStep, ToAnswer, Speaking
<1>2. ASSUME StartTurn(idx + 1, turn.re, idx + 1), at \in {"greet", "thinking"}, UNCHANGED turns
      PROVE  RowStep
  BY <1>2 DEF RowStep, StartTurn, ToAnswer, VoiceInv, DialogueFits, Waiting
<1>3. /\ heard \in Seq(Utterances) /\ fails \in Nat /\ ComesOnce
      /\ heard # <<>> => Head(heard) \in Utterances /\ InSeq(Head(heard), heard)
      /\ heard' = <<>> /\ mic' = mic /\ heard # <<>> =>
           \A u \in Utterances : Coming(u)' => Coming(u) /\ u # Head(heard)
  <2>1. heard \in Seq(Utterances) /\ fails \in Nat /\ ComesOnce
    BY DEF VoiceInv, VoiceTypes, VoiceOnce
  <2>2. heard # <<>> => Head(heard) \in Utterances /\ InSeq(Head(heard), heard)
    BY <2>1, TailOnce DEF ComesOnce
  <2> QED BY <2>1, <2>2, EmptyOnce DEF ComesOnce, Coming
<1>4. CASE ListenFinal
  <2>1. Append1(UserTurn(Head(heard)))
    BY <1>4 DEF ListenFinal
  <2>2. /\ heard # <<>> /\ heard' = <<>> /\ mic' = mic /\ turn'.re = Head(heard)
        /\ barged' = barged /\ at = "listen" /\ at' = "thinking"
    BY <1>4 DEF ListenFinal, LeaveListen, VoiceInv, VoiceTypes
  <2>3. UserRow(Head(heard))
    BY <1>3, <2>1, <2>2, AppendKeeps, TurnRows DEF UserRow, VoiceInv
  <2> QED BY <1>3, <2>2, <2>3 DEF RowStep, Coming
<1>5. CASE Barge
  <2>1. barged # None /\ barged \in Utterances /\ at = "answered" /\ Append1(UserTurn(barged))
    BY <1>5 DEF Barge, VoiceInv, VoiceTypes
  <2>2. UserRow(barged)
    BY <1>3, <2>1, AppendKeeps, TurnRows DEF UserRow, VoiceInv
  <2>3. \/ turn'.re = barged /\ barged' = None /\ at' = "bot_open"
        \/ UNCHANGED <<turn, barged>> /\ at' = "unwind"
    BY <1>5 DEF Barge, StartTurn, CannotSay, Return
  <2> QED BY <2>1, <2>2, <2>3 DEF RowStep
<1>6. CASE PersistBot
  <2>1. Appended(BotTurn) \/ UNCHANGED turns
    BY <1>3, <1>6, AppendKeeps, TurnRows DEF PersistBot, VoiceInv
  <2> QED BY <1>6, <2>1 DEF PersistBot, RowStep
<1>7. CASE TtsOpen
  <2>1. CASE NoTts
    BY <1>1, <1>7, <2>1, CalmSteps DEF TtsOpen
  <2>2. CASE at' = "pipe" /\ mon' = "start"
    BY <1>7, <2>2 DEF TtsOpen, RowStep, ToAnswer, VoiceInv, BargeFits, Speaking
  <2> QED BY <1>7, <2>1, <2>2 DEF TtsOpen, NoTts
<1>8. CASE MonitorAccepts
  <2>1. /\ heard # <<>> /\ heard' = <<>> /\ mic' = mic /\ barged' = Head(heard) /\ barged = None
        /\ UNCHANGED <<turns, turn, at>>
    BY <1>8 DEF MonitorAccepts, VoiceInv, BargeFits
  <2> QED BY <1>3, <2>1 DEF RowStep, Coming
<1>9. CASE Greet \/ Thinking
  <2>1. at = "greet" => turn.re = None
    BY DEF VoiceInv, DialogueFits, Waiting
  <2>2. CASE Unsaid
    BY <1>1, <1>9, <2>2, CalmSteps DEF Greet, Thinking
  <2> QED BY <1>2, <1>9, <2>1, <2>2 DEF Greet, Thinking, Unsaid
<1> QED BY <1>1, <1>4, <1>5, <1>6, <1>7, <1>8, <1>9, CalmSteps
     DEF VoiceNext, Server, Monitor, CalmServer, CalmStreams

\* A session that was ended has returned from its handler.
LEMMA EndedIsClosed ==
    ASSUME StoreOK, VoiceInv, row.ended => at = "closed", VoiceNext
    PROVE  /\ row'.ended => at' = "closed"
           /\ turns' # turns => ~row.ended
           /\ row'.ended = row.ended \/ (row'.ended = TRUE /\ turns' = turns)
<1> USE DEF storeVars
<1>1. row \in RowType /\ row.ended \in BOOLEAN
  BY DEF StoreOK, RowType
<1>2. ASSUME NEW t, Append1(t) PROVE row'.ended = row.ended
  BY <1>1, <1>2 DEF Append1, InsertTurn, RowType
<1>3. CASE ListenFinal \/ Barge \/ PersistBot
  <2>1. at \in {"listen", "answered", "await_monitor"}
    BY <1>3 DEF ListenFinal, Barge, PersistBot
  <2>2. row'.ended = row.ended
    BY <1>2, <1>3 DEF ListenFinal, Barge, PersistBot
  <2> QED BY <2>1, <2>2
<1>4. CASE Create
  BY <1>1, <1>4 DEF Create, CreateWebSession, NoRow
<1>5. CASE End
  BY <1>1, <1>5 DEF End, EndWebSession, RowType
<1>6. CASE \/ Setup \/ Greet \/ Listening \/ Thinking \/ ListenNothing \/ ListenClosed
           \/ ListenPumpFails \/ BotOpen \/ TtsOpen \/ PipeEnds \/ Drained \/ EndCall
           \/ NextListen \/ Unwind
  BY <1>6 DEF Setup, Greet, Listening, Thinking, ListenNothing, ListenClosed,
     ListenPumpFails, BotOpen, TtsOpen, PipeEnds, Drained, EndCall, NextListen, Unwind
<1>7. CASE \/ Monitor \/ BotEnds \/ TtsEnds \/ AsrEnds \/ Pump \/ StalePumps \/ ReadLoopEnds
           \/ (\E u \in Utterances : Say(u)) \/ Leave
  BY <1>7 DEF Monitor, MonitorStart, MonitorAccepts, MonitorDrops, MonitorEnds, BotEnds, TtsEnds,
     AsrEnds, Pump, StalePumps, ReadLoopEnds, Say, Leave
<1> QED BY <1>3, <1>4, <1>5, <1>6, <1>7 DEF VoiceNext, Server

\* What a step of either channel does to the record: it writes one line, of a
\* message of which there is at most itself, or it may end the session.
LogStep ==
    \/ \E t \in TurnRow :
         /\ Appended(t) /\ (at = "chat" \/ ~row.ended)
         /\ \A s \in turns : s.re = t.re => s.role = "user" /\ t.role = "bot"
    \/ UNCHANGED turns /\ (row'.ended = row.ended \/ row'.ended = TRUE)

\* A voice step keeps its part, and writes at most one line.
LEMMA VoiceOnceKeeps ==
    ASSUME StoreOK, VoiceInv, VoiceTypes', VoiceOnce, VoiceNext
    PROVE  VoiceOnce' /\ LogStep
<1>1. /\ ComesOnce' /\ said \subseteq said'
      /\ \A u \in Utterances : Coming(u)' => u \in said' /\ (Coming(u) \/ u \notin said)
  BY QueuesKeep DEF VoiceInv
<1>2. /\ row'.ended => at' = "closed"
      /\ turns' # turns => ~row.ended
      /\ row'.ended = row.ended \/ (row'.ended = TRUE /\ turns' = turns)
  BY EndedIsClosed DEF VoiceOnce
<1>3. RowStep
  BY RowSteps
<1>4. /\ \A u \in Utterances :
           Coming(u) => u \in said /\ u # barged /\ u # turn.re /\ NoRowOf(u)
      /\ \A u \in Utterances : u \notin said => u # barged /\ u # turn.re /\ NoRowOf(u)
      /\ barged \in said \cup {None} /\ turn.re \in said \cup {None}
      /\ \A t \in turns : t.re \in said \cup {None}
      /\ said \subseteq Utterances
  BY DEF VoiceOnce, VoiceInv, VoiceTypes, NoRowOf
<1>5. ASSUME \A u \in Utterances : Coming(u)' => u # barged' /\ u # turn'.re /\ NoRowOf(u)',
             barged' \in said' \cup {None},
             barged' # None /\ at' \in Speaking \cup {"answered"}
               => barged' # turn'.re /\ NoRowOf(barged)',
             turn'.re \in said' \cup {None}, \A t \in turns' : t.re \in said' \cup {None},
             ToAnswer' => \A t \in turns' : t.re = turn'.re => t.role = "user"
      PROVE  VoiceOnce'
  BY <1>1, <1>2, <1>5 DEF VoiceOnce, Speaking
<1>6. UNCHANGED turns => LogStep
  BY <1>2 DEF LogStep
<1>7. ASSUME NEW u \in Utterances, UserRow(u), NoRowOf(u)
      PROVE  /\ LogStep /\ \A t \in turns' : t \in turns \/ (t.re = u /\ t.role = "user")
  <2>1. UserTurn(u) \in TurnRow /\ UserTurn(u).re = u /\ UserTurn(u).role = "user"
    BY TurnRows DEF VoiceInv
  <2>2. CASE Appended(UserTurn(u))
    <3>1. turns' = turns \cup {UserTurn(u)} /\ turns' # turns
      BY <2>2 DEF Appended
    <3>2. LogStep
      BY <1>2, <1>7, <2>1, <2>2, <3>1 DEF LogStep, NoRowOf
    <3> QED BY <2>1, <3>1, <3>2
  <2> QED BY <1>6, <1>7, <2>2 DEF UserRow
<1>8. CASE /\ UNCHANGED <<turns, turn, barged>> /\ (ToAnswer' => ToAnswer)
           /\ barged # None /\ at' \in Speaking \cup {"answered"} => at \in Speaking \cup {"answered"}
  BY <1>1, <1>4, <1>5, <1>6, <1>8 DEF VoiceOnce, NoRowOf
<1>9. CASE /\ UNCHANGED turns /\ turn'.re = turn.re /\ barged' = None
           /\ ToAnswer \/ turns = {}
  BY <1>1, <1>4, <1>5, <1>6, <1>9 DEF VoiceOnce, NoRowOf
<1>10. CASE /\ barged = None /\ barged' \in Utterances /\ Coming(barged')
            /\ UNCHANGED <<turns, turn, at>>
            /\ \A u \in Utterances : Coming(u)' => Coming(u) /\ u # barged'
  BY <1>1, <1>4, <1>5, <1>6, <1>10 DEF VoiceOnce, NoRowOf, ToAnswer
<1>11. ASSUME NEW u \in Utterances, UserRow(u), turn'.re = u, barged' = barged,
              at = "listen", at' = "thinking", Coming(u),
              \A v \in Utterances : Coming(v)' => Coming(v) /\ v # u
       PROVE  VoiceOnce' /\ LogStep
  <2>1. NoRowOf(u) /\ u \in said
    BY <1>4, <1>11
  <2>2. LogStep /\ \A t \in turns' : t \in turns \/ (t.re = u /\ t.role = "user")
    BY <1>7, <1>11, <2>1
  <2>3. at' \notin Speaking \cup {"answered"}
    BY <1>11 DEF Speaking
  <2> QED BY <1>1, <1>4, <1>5, <1>11, <2>1, <2>2, <2>3 DEF NoRowOf
<1>12. CASE /\ barged # None /\ at = "answered" /\ UserRow(barged)
            /\ \/ turn'.re = barged /\ barged' = None /\ at' = "bot_open"
               \/ UNCHANGED <<turn, barged>> /\ at' = "unwind"
  <2>1. NoRowOf(barged) /\ barged \in said /\ barged \in Utterances
    BY <1>4, <1>12 DEF VoiceOnce
  <2>2. LogStep /\ \A t \in turns' : t \in turns \/ (t.re = barged /\ t.role = "user")
    BY <1>7, <1>12, <2>1
  <2>3. /\ at' = "unwind" => at' \notin Speaking \cup {"answered"} /\ ~ToAnswer'
    BY DEF Speaking, ToAnswer
  <2> QED BY <1>1, <1>4, <1>5, <1>12, <2>1, <2>2, <2>3 DEF NoRowOf
<1>13. CASE /\ at = "await_monitor" /\ at' = "answered" /\ UNCHANGED <<turn, barged>>
            /\ \/ Appended(BotTurn)
               \/ UNCHANGED turns
  <2>1. BotTurn \in TurnRow /\ BotTurn.re = turn.re /\ BotTurn.role = "bot"
    BY TurnRows DEF VoiceInv
  <2>2. /\ \A t \in turns : t.re = turn.re => t.role = "user"
        /\ barged # None => barged # turn.re /\ NoRowOf(barged)
    BY <1>13 DEF VoiceOnce, ToAnswer, Speaking
  <2>3. LogStep
    <3>1. CASE Appended(BotTurn)
      BY <1>2, <2>1, <2>2, <3>1 DEF LogStep, Appended
    <3> QED BY <1>6, <1>13, <3>1
  <2>4. \A t \in turns' : t \in turns \/ t.re = turn.re
    BY <1>13, <2>1 DEF Appended
  <2>5. ~ToAnswer'
    BY <1>13 DEF ToAnswer, Speaking
  <2> QED BY <1>1, <1>4, <1>5, <1>13, <2>2, <2>3, <2>4, <2>5 DEF NoRowOf
<1> QED BY <1>3, <1>8, <1>9, <1>10, <1>11, <1>12, <1>13 DEF RowStep

\* A chat step does, too: a request writes its message, then its answer.
LEMMA ChatOnceKeeps ==
    ASSUME StoreOK, ChatInv, at = "chat", ChatOnce, ChatNext
    PROVE  ChatOnce' /\ LogStep
<1> PICK r \in Requests :
        \/ Post(r) \/ NoBotClient(r) \/ Select(r) \/ InsertUser(r) \/ Open(r)
        \/ Streamed(r) \/ InsertBot(r) \/ EndChat(r)
  BY DEF ChatNext
<1>0. ChatTypes /\ RequestOK(r) /\ row \in RowType /\ First \in Requests
  BY DEF ChatInv, StoreOK
<1>1. \A s \in Requests \ {r} : pc'[s] = pc[s]
  BY <1>0 DEF ChatTypes, Goto, Post, NoBotClient, Select, InsertUser, Open, Streamed, InsertBot, EndChat
<1>2. pc'[r] # "new"
  BY <1>0 DEF ChatTypes, Goto, Post, NoBotClient, Select, InsertUser, Open, Streamed, InsertBot, EndChat
<1>3. pc'[First] # "new"
  BY <1>0, <1>1, <1>2 DEF ChatInv, Post, NoBotClient, Select, InsertUser, Open, Streamed, InsertBot, EndChat
<1> DEFINE Own(s) == \A t \in turns : t.re = s => t.role = "user"
           Before == {"open", "streaming", "bot_select", "bot_insert"}
<1>4. ASSUME pc'[r] \in Before => Own(r)', \A t \in turns' : t \in turns \/ t.re = r
      PROVE  ChatOnce'
  BY <1>1, <1>3, <1>4 DEF ChatOnce
<1>5. CASE Post(r) \/ NoBotClient(r) \/ Select(r) \/ Open(r) \/ Streamed(r)
  <2>1. UNCHANGED turns /\ (row' = row \/ row'.ended = FALSE)
    BY <1>5 DEF Post, NoBotClient, Select, Open, Streamed, CreateWebSession, NoRow, storeVars
  <2>2. row'.ended = row.ended \/ row'.ended = TRUE
    <3>1. Post(r) /\ r = First => ~row.ended
      BY DEF ChatOnce, Post
    <3> QED BY <1>0, <1>5, <3>1
         DEF Post, NoBotClient, Select, Open, Streamed, CreateWebSession, NoRow, storeVars, RowType
  <2>3. pc'[r] \in Before => pc[r] \in Before
    BY <1>0, <1>5 DEF ChatTypes, Goto, Post, NoBotClient, Select, Open, Streamed
  <2> QED BY <1>4, <2>1, <2>2, <2>3 DEF LogStep, ChatOnce
<1>6. CASE InsertUser(r)
  <2>1. \A t \in turns : t.re # r
    BY <1>0, <1>6 DEF InsertUser, RequestOK, Recorded
  <2>2. CASE InsertTurn(ChatTurn(r, "user"))
    <3>1. Appended(ChatTurn(r, "user")) /\ ChatTurn(r, "user") \in TurnRow
      BY <1>0, <1>6, <2>2, ChatInsert DEF InsertUser, ChatTurn, TurnRow, ChatTypes
    <3>2. ChatTurn(r, "user").re = r /\ ChatTurn(r, "user").role = "user"
      BY DEF ChatTurn
    <3> QED BY <1>4, <2>1, <3>1, <3>2 DEF LogStep, Appended
  <2>3. CASE UNCHANGED storeVars
    BY <1>4, <2>1, <2>3 DEF LogStep, storeVars
  <2> QED BY <1>6, <2>2, <2>3 DEF InsertUser
<1>7. CASE InsertBot(r)
  <2>1. /\ \A t \in turns : t.re = r => t.role = "user"
        /\ pc[r] = "bot_insert" /\ pc'[r] \notin Before
    BY <1>0, <1>7 DEF InsertBot, ChatOnce, Goto, ChatTypes
  <2>2. CASE InsertTurn(ChatTurn(r, "bot"))
    <3>1. Appended(ChatTurn(r, "bot")) /\ ChatTurn(r, "bot") \in TurnRow
      BY <1>0, <2>1, <2>2, ChatInsert DEF ChatTurn, TurnRow, ChatTypes
    <3>2. ChatTurn(r, "bot").re = r /\ ChatTurn(r, "bot").role = "bot"
      BY DEF ChatTurn
    <3> QED BY <1>4, <2>1, <3>1, <3>2 DEF LogStep, Appended
  <2>3. CASE UNCHANGED storeVars
    BY <1>4, <2>1, <2>3 DEF LogStep, storeVars
  <2> QED BY <1>7, <2>2, <2>3 DEF InsertBot, DbRefuses
<1>8. CASE EndChat(r)
  <2>1. UNCHANGED turns /\ (row'.ended = row.ended \/ row'.ended = TRUE)
    BY <1>0, <1>8 DEF EndChat, EndWebSession, DbRefuses, storeVars, RowType
  <2>2. pc'[r] \notin Before
    BY <1>0, <1>8 DEF EndChat, Goto, ChatTypes
  <2> QED BY <1>4, <2>1, <2>2 DEF LogStep
<1> QED BY <1>5, <1>6, <1>7, <1>8

\* With its numbers a reader finds every row.
LEMMA RowsByNumber ==
    ASSUME StoreOK
    PROVE  /\ \A t \in turns : t.idx \in 1 .. Stored /\ RowAt(t.idx) = t
           /\ \A i \in 1 .. Stored : RowAt(i) \in turns /\ RowAt(i).idx = i
<1>1. {t.idx : t \in turns} = 1 .. Stored
  BY DEF StoreOK, TurnsAreNumbered, Stored
<1>2. ASSUME NEW t \in turns PROVE RowAt(t.idx) = t
  BY <1>2 DEF RowAt, StoreOK
<1>3. ASSUME NEW i \in 1 .. Stored PROVE RowAt(i) \in turns /\ RowAt(i).idx = i
  <2>1. \E t \in turns : t.idx = i
    BY <1>1
  <2> QED BY <2>1 DEF RowAt
<1> QED BY <1>1, <1>2, <1>3

LineOf(t) == [role |-> t.role, re |-> t.re]

\* A row that is appended is a line that is.
LEMMA RowIsLine ==
    ASSUME StoreOK, StoreOK', NEW t \in TurnRow, Appended(t)
    PROVE  Log' = Append(Log, LineOf(t))
<1>1. Stored \in Nat /\ Stored' = Stored + 1 /\ t.idx = Stored + 1 /\ turns' = turns \cup {t}
  BY StoredIsNat DEF Appended
<1>2. \A i \in 1 .. Stored : RowAt(i) \in turns /\ RowAt(i).idx = i
  BY RowsByNumber
<1>3. \A s \in turns' : RowAt(s.idx)' = s
  <2>1. \A s \in turns' : \A u \in turns' : u.idx = s.idx => u = s
    BY DEF StoreOK
  <2> QED BY <2>1 DEF RowAt
<1>4. \A i : i = Stored + 1 => RowAt(i)' = t
  <2>1. RowAt(t.idx)' = t
    BY <1>1, <1>3
  <2> QED BY <1>1, <2>1
<1>5. \A i \in 1 .. Stored : RowAt(i)' = RowAt(i)
  BY <1>1, <1>2, <1>3
<1>6. Log = [i \in 1 .. Stored |-> LineOf(RowAt(i))]
  BY DEF Log, Stored, LineOf
<1>7. Log' = [i \in 1 .. Stored' |-> LineOf(RowAt(i)')]
  BY DEF Log, Stored, LineOf
<1>8. Len(Log) = Stored /\ Append(Log, LineOf(t)) = [i \in 1 .. Stored + 1 |->
                             IF i \in 1 .. Stored THEN Log[i] ELSE LineOf(t)]
  <2>1. Log \in Seq({LineOf(RowAt(i)) : i \in 1 .. Stored}) /\ Len(Log) = Stored
    BY <1>1, <1>6
  <2> QED BY <1>1, <1>6, <2>1
<1>9. \A i \in 1 .. Stored + 1 : i \in 1 .. Stored \/ i = Stored + 1
  BY <1>1
<1> HIDE DEF LineOf
<1>10. \A i \in 1 .. Stored + 1 :
         LineOf(RowAt(i)') = IF i \in 1 .. Stored THEN Log[i] ELSE LineOf(t)
  <2> SUFFICES ASSUME NEW i \in 1 .. Stored + 1
               PROVE  LineOf(RowAt(i)') = IF i \in 1 .. Stored THEN Log[i] ELSE LineOf(t)
    OBVIOUS
  <2>1. CASE i \in 1 .. Stored
    BY <1>5, <1>6, <2>1
  <2>2. CASE i = Stored + 1
    BY <1>1, <1>4, <2>2
  <2> QED BY <1>9, <2>1, <2>2
<1> QED BY <1>1, <1>7, <1>8, <1>10

\* A session begins with nothing on record.
LEMMA OnceInit == Init => OnceInv /\ Rows!LogInit
<1> SUFFICES ASSUME Init PROVE OnceInv /\ Rows!LogInit
  OBVIOUS
<1>1. turns = {} /\ Cardinality(turns) = 0 /\ row.ended = FALSE
  BY FS_EmptySet DEF Init, NoSession, NoRow
<1>2. Log = <<>>
  BY <1>1 DEF Log
<1>3. OnceInv
  BY <1>1, EmptyOnce DEF Init, VoiceIdle, ChatIdle, NoTurn, OnceInv, ChatOnce, VoiceOnce, ComesOnce,
     Coming, NoRowOf
<1> QED BY <1>1, <1>2, <1>3 DEF Rows!LogInit

\* Every step of a session keeps that, and is a line, its end or nothing.
LEMMA OnceStep ==
    ASSUME SessionInv, SessionInv', OnceInv, [Next]_vars
    PROVE  OnceInv' /\ [Rows!LogNext]_(Rows!logVars)
<1>0. StoreOK /\ StoreOK'
  BY DEF SessionInv
<1>1. ASSUME LogStep, (at = "chat") <=> (at = "chat")'
      PROVE  [Rows!LogNext]_(Rows!logVars)
  <2>1. ASSUME NEW t \in TurnRow, Appended(t), at = "chat" \/ ~row.ended,
               \A s \in turns : s.re = t.re => s.role = "user" /\ t.role = "bot"
        PROVE  Rows!LogNext
    <3>1. Log' = Append(Log, LineOf(t)) /\ row'.ended = row.ended
      BY <1>0, <2>1, RowIsLine DEF Appended
    <3>2. LineOf(t) \in Rows!Line /\ LineOf(t).re = t.re /\ LineOf(t).role = t.role
      BY DEF LineOf, TurnRow, Rows!Line
    <3>3. \A i \in DOMAIN Log : /\ RowAt(i) \in turns
                                /\ Log[i].re = RowAt(i).re /\ Log[i].role = RowAt(i).role
      BY <1>0, RowsByNumber DEF Log, Stored
    <3>4. \A i \in DOMAIN Log :
            Log[i].re = LineOf(t).re => Log[i].role = "user" /\ LineOf(t).role = "bot"
      BY <2>1, <3>2, <3>3
    <3>5. Rows!Write(LineOf(t))
      BY <1>1, <2>1, <3>1, <3>4 DEF Rows!Write
    <3> QED BY <3>2, <3>5 DEF Rows!LogNext
  <2>2. CASE UNCHANGED turns /\ (row'.ended = row.ended \/ row'.ended = TRUE)
    <3>1. Log' = Log
      BY <2>2 DEF Log, RowAt
    <3> QED BY <1>1, <2>2, <3>1 DEF Rows!LogNext, Rows!Close, Rows!logVars
  <2> QED BY <1>1, <2>1, <2>2 DEF LogStep
<1>2. CASE Voice(VoiceNext)
  <2>1. at # "chat" /\ at' # "chat" /\ VoiceInv /\ VoiceTypes'
    <3>1. at # "chat" /\ VoiceInv /\ VoiceNext
      BY <1>2 DEF SessionInv, Voice
    <3>2. VoiceTypes'
      BY <1>0, <3>1, VoiceKeeps DEF VoiceInv
    <3> QED BY <3>1, <3>2 DEF VoiceTypes, VoiceAt
  <2>2. VoiceOnce' /\ LogStep
    BY <1>0, <1>2, <2>1, VoiceOnceKeeps DEF Voice, OnceInv
  <2> QED BY <1>1, <2>1, <2>2 DEF OnceInv
<1>3. CASE at = "chat" /\ ChatNext /\ UNCHANGED voiceVars
  <2>1. at' = "chat" /\ ChatInv
    BY <1>3 DEF SessionInv, voiceVars
  <2>2. ChatOnce' /\ LogStep
    BY <1>0, <1>3, <2>1, ChatOnceKeeps DEF OnceInv
  <2> QED BY <1>1, <1>3, <2>1, <2>2 DEF OnceInv
<1>4. CASE UNCHANGED vars
  <2> USE <1>4 DEF vars, storeVars, voiceVars, turnVars, recordVars, streamVars, bargeVars, asrVars, micVars,
                   chatVars, reqVars
  <2>1. OnceInv'
    BY DEF OnceInv, ChatOnce, VoiceOnce, ComesOnce, Coming, NoRowOf, ToAnswer
  <2>2. Log' = Log
    BY DEF Log, RowAt
  <2> QED BY <2>1, <2>2 DEF Rows!logVars
<1> QED BY <1>2, <1>3, <1>4 DEF Next

\* A session's rows are the dialogue as it went, whatever barges in, overlaps
\* or is refused: lines are appended, none twice and no message behind its
\* answer, and to a voice session none after its end (web_sessions.go:104).
THEOREM RecordIsALog == Spec => ImplementsTurnLog
<1>1. Spec => []OnceInv
  <2>1. Init => OnceInv
    BY OnceInit
  <2>2. SessionInv /\ SessionInv' /\ OnceInv /\ [Next]_vars => OnceInv'
    BY OnceStep
  <2> QED BY <2>1, <2>2, SessionAlways, PTL DEF Spec
<1>2. Init => Rows!LogInit
  BY OnceInit
<1>3. SessionInv /\ SessionInv' /\ OnceInv /\ [Next]_vars => [Rows!LogNext]_(Rows!logVars)
  BY OnceStep
<1> QED BY <1>1, <1>2, <1>3, SessionAlways, PTL DEF Spec, ImplementsTurnLog, Rows!LogSpec
=============================================================================
