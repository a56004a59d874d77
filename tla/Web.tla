--------------------------------- MODULE Web --------------------------------
(* A web session: its channel, voice or chat, is fixed by the share link, and *)
(* both channels write the same tables.                                       *)
EXTENDS WebVoice, WebChat

\* None is neither an utterance nor a message, one message creates the chat,
\* and the capacities are counts.
ASSUME WebAssumption ==
    /\ IsFiniteSet(Utterances) /\ None \notin Utterances \cup Requests
    /\ First \in Requests
    /\ Cap \in Nat /\ Frames \in Nat /\ MaxStale \in Nat

vars == <<storeVars, voiceVars, chatVars>>

NoSession == row = NoRow /\ turns = {}

Init ==
    /\ NoSession /\ VoiceIdle /\ ChatIdle
    /\ at \in {"create", "chat"}

Voice(step) == at # "chat" /\ step /\ UNCHANGED chatVars

Next ==
    \/ Voice(VoiceNext)
    \/ at = "chat" /\ ChatNext /\ UNCHANGED voiceVars

\* The goroutines run on, the bot and TTS services answer and the recogniser
\* ends a stream in the end; a pump is served in one of the periods it waits.
Fairness ==
    /\ WF_vars(Voice(Server)) /\ WF_vars(Voice(Monitor))
    /\ WF_vars(Voice(ReadLoopEnds)) /\ WF_vars(Voice(BotEnds))
    /\ WF_vars(Voice(TtsEnds)) /\ WF_vars(Voice(AsrEnds))
    /\ SF_vars(Voice(Pump)) /\ SF_vars(Voice(ListenClosed))

Spec == Init /\ [][Next]_vars /\ Fairness

RowType == [status : {"none", "active", "ended", "error"}, ended : BOOLEAN,
            error : {NoError, "setup", "send", "asr", "bot", "tts", "endcall"},
            total : Nat]

TurnRow == [idx : Nat, role : {"user", "bot"},
            re : Utterances \cup Requests \cup {None}, n : Nat, wav : Nat]

WebTypeOK ==
    /\ row \in RowType /\ turns \subseteq TurnRow
    /\ at \in {"create", "chat", "setup", "greet", "listening", "listen", "thinking",
               "bot_open", "tts_open", "pipe", "action", "await_monitor", "answered",
               "unwind", "ending", "closed"}
    /\ idx \in 0 .. MaxTurns /\ turn.n \in 0 .. MaxTurns /\ turn.idx \in 0 .. MaxTurns
    /\ wavs \in [1 .. MaxTurns -> 0 .. MaxTurns]
    /\ unrecorded \subseteq Nat
    /\ asr \in {"off", "listen", "monitor", "over"}
    /\ mon \in {"off", "start", "hear", "done"}
    /\ Len(mic) <= Cap /\ stale \in 0 .. MaxStale
    /\ pc \in [Requests -> {"new", "user_select", "user_insert", "open", "streaming",
                            "bot_select", "bot_insert", "end", "done"}]

\* The types of both channels, and the numbering both write.
WebInv == WebTypeOK /\ TurnsAreNumbered

Rows == INSTANCE TurnLog
        WITH Messages <- Utterances \cup Requests, log <- Log, over <- row.ended,
             many <- at = "chat"

\* The rows are the dialogue as it went (web_sessions.go:104): whatever barges in
\* or overlaps, lines are only appended, none twice and no message behind its
\* answer, and to a voice session none once it is stamped as ended.
ImplementsTurnLog == Rows!LogSpec
=============================================================================
