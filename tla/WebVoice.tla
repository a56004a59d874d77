------------------------------ MODULE WebVoice ------------------------------
(* One voice session of the web playground (api/web_voice.go): the goroutine  *)
(* of voice/run/listen/runBotTurn, readLoop, the barge-in monitor, the bot    *)
(* and TTS streams of a turn, and the visitor.  Audio is counted in           *)
(* utterances: an utterance is what the recogniser returns one final          *)
(* transcript for.                                                            *)
EXTENDS WebStore, Sequences

CONSTANTS Utterances,   \* what the visitor may say, each at most once
          Long,         \* those of at least BargeInMinWords words
          None,         \* no utterance: the greeting turn answers it
          Cap,          \* utterances audioCh holds (64 frames of 20 ms)
          Frames,       \* frames that make an utterance: a stale pump eats one
          MaxStale,     \* bound: stale pumps counted; |Utterances| * Frames is enough
          MaxFails,     \* bound: database writes that fail
          MaxUnrecorded \* bound: WAV files that do not open

VARIABLES at,        \* program counter of the session's goroutine
          idx,       \* run's turnIdx
          turn,      \* the bot turn: its serial number, its idx, what it answers
          bot,       \* bot stream of the turn
          action,    \* what botStream.Action returns once it is over
          tts,       \* TTS stream of the turn with its forwarder
          cut,       \* turnCtx is cancelled
          mon,       \* bargeMonitor
          barged,    \* bargedTranscript
          asr,       \* the open ASR stream: of listen or of the monitor
          heard,     \* utterances that stream has received, not yet transcribed
          mic,       \* audioCh
          closed,    \* readLoop has ended: audioCh and stopRead are closed
          visitor,   \* "on", "end" (sent end or bye), "gone" (socket closed)
          said,      \* utterances the visitor has said
          stale,     \* pump goroutines of earlier listens, waiting for a frame
          verdict,   \* why run returned: endErr
          fails,     \* database writes that failed
          wavs,      \* owner (serial) of <idx>.wav, 0 if it holds no recording
          unrecorded,\* history: serials of the turns whose recorder failed
          cuts       \* history: serials of the turns a barge-in cut

recordVars == <<wavs, unrecorded>>
turnVars  == <<idx, turn, recordVars>>
streamVars == <<bot, action, tts>>
bargeVars == <<cut, mon, barged, cuts>>
asrVars   == <<asr, heard>>
micVars   == <<mic, closed, visitor, said, stale>>
voiceVars == <<at, turnVars, streamVars, bargeVars, asrVars, micVars,
               verdict, fails>>

\* The greeting and one bot turn per utterance at most.
MaxTurns == 1 + Cardinality(Utterances)

NoTurn == [n |-> 0, idx |-> 0, re |-> None]

VoiceIdle ==
    /\ idx = 0 /\ turn = NoTurn /\ wavs = [i \in 1 .. MaxTurns |-> 0]
    /\ unrecorded = {}
    /\ bot = "off" /\ action = "none" /\ tts = "off"
    /\ cut = FALSE /\ mon = "off" /\ barged = None /\ cuts = {}
    /\ asr = "off" /\ heard = <<>>
    /\ mic = <<>> /\ closed = FALSE /\ visitor = "on" /\ said = {} /\ stale = 0
    /\ verdict = NoError /\ fails = 0

\* ------------------------------------------------------------ small helpers

\* Writing to a socket the visitor has closed may fail; it may also succeed,
\* until the peer's reset arrives.
MayNotSend == visitor = "gone"

UserTurn(u) == [idx |-> NextIdx, role |-> "user", re |-> u, n |-> 0, wav |-> 0]
BotTurn     == [idx |-> NextIdx, role |-> "bot", re |-> turn.re,
                n |-> turn.n, wav |-> turn.idx]

\* AppendWebTurn by the session's only writer; the callers drop its error.
Append1(t) ==
    \/ InsertTurn(t) /\ UNCHANGED fails
    \/ fails < MaxFails /\ fails' = fails + 1 /\ UNCHANGED storeVars

\* run returns: its first deferred call waits for readLoop.
Return(why) == at' = "unwind" /\ verdict' = why

\* ----------------------------------------------------------- voice and run

\* The upgrade succeeded; the row is inserted, or the socket is closed.
Create ==
    /\ at = "create"
    /\ \/ CreateWebSession /\ at' = "setup"
       \/ at' = "closed" /\ UNCHANGED row
    /\ UNCHANGED <<turns, turnVars, streamVars, bargeVars, asrVars, micVars,
                   verdict, fails>>

\* ASR client, TTS client and bot client, then the session frame.
Setup ==
    /\ at = "setup"
    /\ \/ at' = "greet" /\ UNCHANGED verdict
       \/ at' = "ending" /\ verdict' = "setup"
       \/ MayNotSend /\ at' = "ending" /\ UNCHANGED verdict
    /\ UNCHANGED <<storeVars, turnVars, streamVars, bargeVars, asrVars, micVars,
                   fails>>

\* State "thinking", then runBotTurn(turnIdx + 1, u): k is the new index, run
\* advances its own counter unless runBotTurn calls itself.
StartTurn(k, u, counter) ==
    /\ turn' = [n |-> turn.n + 1, idx |-> k, re |-> u]
    /\ idx' = counter
    /\ at' = "bot_open"
    /\ cut' = FALSE /\ mon' = "off" /\ barged' = None
    /\ bot' = "off" /\ action' = "none" /\ tts' = "off"
    /\ UNCHANGED <<cuts, verdict>>

CannotSay(why) ==
    /\ MayNotSend
    /\ Return(why)
    /\ UNCHANGED <<idx, turn, streamVars, bargeVars>>

Greet ==
    /\ at = "greet"
    /\ StartTurn(idx + 1, None, idx + 1) \/ CannotSay("send")
    /\ UNCHANGED <<storeVars, recordVars, asrVars, micVars, fails>>

Listening ==
    /\ at = "listening"
    /\ \/ asr' = "listen" /\ heard' = <<>> /\ at' = "listen" /\ UNCHANGED verdict
       \/ Return("asr") /\ UNCHANGED asrVars
       \/ MayNotSend /\ Return("send") /\ UNCHANGED asrVars
    /\ UNCHANGED <<storeVars, turnVars, streamVars, bargeVars, micVars, fails>>

\* ------------------------------------------------------------------- listen

\* Leaving listen closes its stream, but its pump goes on waiting for a frame
\* as long as the session lives.
LeaveListen == asr' = "off" /\ heard' = <<>> /\ stale' = Min({stale + 1, MaxStale})

\* A final transcript; run persists it as a user turn.
ListenFinal ==
    /\ at = "listen" /\ heard # <<>>
    /\ LeaveListen
    /\ at' = "thinking"
    /\ turn' = [turn EXCEPT !.re = Head(heard)]
    /\ Append1(UserTurn(Head(heard)))
    /\ UNCHANGED <<idx, recordVars, streamVars, bargeVars, mic, closed, visitor, said,
                   verdict>>

\* Silence, an empty final or the end of the stream: listen again.
ListenNothing ==
    /\ at = "listen" /\ asr \in {"listen", "over"}
    /\ LeaveListen
    /\ at' = "listening"
    /\ UNCHANGED <<storeVars, turnVars, streamVars, bargeVars, mic, closed,
                   visitor, said, verdict, fails>>

\* A bug: only the silent timeout ends a listen.
ListenClosed_KeepsListening ==
    /\ at = "listen" /\ closed /\ mic = <<>>
    /\ asr' = "off" /\ heard' = <<>>
    /\ at' = "listening"
    /\ UNCHANGED <<storeVars, turnVars, streamVars, bargeVars, micVars, verdict,
                   fails>>

\* The pump finds audioCh closed and ends: nothing is left behind.
ListenClosed ==
    /\ at = "listen" /\ closed /\ mic = <<>>
    /\ asr' = "off" /\ heard' = <<>>
    /\ Return(NoError)
    /\ UNCHANGED <<storeVars, turnVars, streamVars, bargeVars, micVars, fails>>

\* The pump sends a frame to a stream the server has already ended.  Its
\* error and the results still in the stream race in the select.
ListenPumpFails ==
    /\ at = "listen" /\ asr = "over" /\ mic # <<>>
    /\ asr' = "off" /\ heard' = <<>>
    /\ Return("asr")
    /\ UNCHANGED <<storeVars, turnVars, streamVars, bargeVars, micVars, fails>>

\* A bug: a turn that was listened for keeps the number of the last one.
Thinking_CounterKept ==
    /\ at = "thinking"
    /\ StartTurn(idx + 1, turn.re, idx) \/ CannotSay("send")
    /\ UNCHANGED <<storeVars, recordVars, asrVars, micVars, fails>>

Thinking ==
    /\ at = "thinking"
    /\ StartTurn(idx + 1, turn.re, idx + 1) \/ CannotSay("send")
    /\ UNCHANGED <<storeVars, recordVars, asrVars, micVars, fails>>

\* -------------------------------------------------------------- runBotTurn

BotOpen ==
    /\ at = "bot_open"
    /\ \/ at' = "tts_open" /\ bot' = "open" /\ UNCHANGED verdict
       \/ Return("bot") /\ UNCHANGED bot
    /\ UNCHANGED <<storeVars, turnVars, action, tts, bargeVars, asrVars, micVars,
                   fails>>

\* newWavRecorder: os.Create truncates a file of that name, and the header is
\* written.
Record == wavs' = [wavs EXCEPT ![turn.idx] = turn.n] /\ UNCHANGED unrecorded

\* Its error, before os.Create or at the header, is logged and the turn goes on;
\* the turn's row names the file all the same.
RecorderFails ==
    /\ Cardinality(unrecorded) < MaxUnrecorded
    /\ unrecorded' = unrecorded \cup {turn.n}
    /\ wavs' \in {wavs, [wavs EXCEPT ![turn.idx] = 0]}

\* The TTS stream, the WAV file, the forwarder and the monitor (without barge-in
\* it is over at once, as when its ASR stream does not start).
TtsOpen ==
    /\ at = "tts_open"
    /\ \/ /\ at' = "pipe" /\ tts' = "open" /\ mon' = "start"
          /\ Record \/ RecorderFails
          /\ UNCHANGED verdict
       \/ Return("tts") /\ UNCHANGED <<tts, mon, recordVars>>
    /\ UNCHANGED <<storeVars, idx, turn, bot, action, cut, barged, cuts,
                   asrVars, micVars, fails>>

\* Sentences go to the TTS stream until the bot stream ends or the TTS
\* stream refuses one; then EOS.
PipeEnds ==
    /\ at = "pipe"
    /\ bot = "over" \/ tts = "over"
    /\ at' = "action"
    /\ tts' = IF tts = "open" THEN "eos" ELSE tts
    /\ UNCHANGED <<storeVars, turnVars, bot, action, bargeVars, asrVars, micVars,
                   verdict, fails>>

\* botStream.Action waits for the bot stream, then: ttsDone or turnCtx.
Drained ==
    /\ at = "action"
    /\ bot = "over"
    /\ tts = "over" \/ cut
    /\ at' = "await_monitor"
    /\ UNCHANGED <<storeVars, turnVars, streamVars, bargeVars, asrVars, micVars,
                   verdict, fails>>

\* A bug: the monitor is not waited for.
PersistBot_NoWait ==
    /\ at = "await_monitor"
    /\ at' = "answered"
    /\ Append1(BotTurn)
    /\ UNCHANGED <<turnVars, streamVars, bargeVars, asrVars, micVars, verdict>>

\* <-bargeStop, bot_done, and the bot turn's row.
PersistBot ==
    /\ at = "await_monitor"
    /\ mon = "done"
    /\ at' = "answered"
    /\ Append1(BotTurn)
    /\ UNCHANGED <<turnVars, streamVars, bargeVars, asrVars, micVars, verdict>>

\* A bug: the barge-in's transcript is not stored as a user turn.
Barge_NotPersisted ==
    /\ at = "answered" /\ barged # None
    /\ StartTurn(turn.idx + 1, barged, idx) \/ CannotSay("send")
    /\ UNCHANGED <<storeVars, fails, recordVars, asrVars, micVars>>

\* A barged transcript: interrupt, its user turn, and a turn inside the turn.
Barge ==
    /\ at = "answered" /\ barged # None
    /\ Append1(UserTurn(barged))
    /\ \/ StartTurn(turn.idx + 1, barged, idx)
       \/ CannotSay("send")
    /\ UNCHANGED <<recordVars, asrVars, micVars>>

EndCall ==
    /\ at = "answered" /\ barged = None /\ action = "ENDCALL"
    /\ Return("endcall")
    /\ UNCHANGED <<storeVars, turnVars, streamVars, bargeVars, asrVars, micVars,
                   fails>>

NextListen ==
    /\ at = "answered" /\ barged = None /\ action # "ENDCALL"
    /\ at' = "listening"
    /\ cut' = TRUE
    /\ UNCHANGED <<storeVars, turnVars, streamVars, mon, barged, cuts,
                   asrVars, micVars, verdict, fails>>

\* The deferred receive from stopRead, then voice's error frame.
Unwind ==
    /\ at = "unwind" /\ closed
    /\ at' = "ending"
    /\ UNCHANGED <<storeVars, turnVars, streamVars, bargeVars, asrVars, micVars,
                   verdict, fails>>

\* voice's deferred function: an error of run makes the status "error".
End ==
    /\ at = "ending"
    /\ at' = "closed"
    /\ \/ /\ EndWebSession(IF verdict = NoError THEN "ended" ELSE "error", verdict)
          /\ UNCHANGED <<turns, fails>>
       \/ fails < MaxFails /\ fails' = fails + 1 /\ UNCHANGED storeVars
    /\ UNCHANGED <<turnVars, streamVars, bargeVars, asrVars, micVars, verdict>>

\* ------------------------------------------------- goroutines of the streams

\* The bot's reply ends with an action, or the stream fails or is cancelled.
BotEnds ==
    /\ bot = "open"
    /\ bot' = "over"
    /\ action' \in IF cut THEN {"none"} ELSE {"CHAT", "ENDCALL", "none"}
    /\ UNCHANGED <<storeVars, at, turnVars, tts, bargeVars, asrVars, micVars,
                   verdict, fails>>

\* The TTS server ends its stream after EOS, or the stream fails, or turnCtx
\* closed its socket; the forwarder closes ttsDone.
TtsEnds ==
    /\ tts \in {"open", "eos"}
    /\ tts' = "over"
    /\ UNCHANGED <<storeVars, at, turnVars, bot, action, bargeVars, asrVars,
                   micVars, verdict, fails>>

\* ------------------------------------------------------------- bargeMonitor

MonitorStart ==
    /\ mon = "start"
    /\ \/ mon' = "hear" /\ asr' = "monitor" /\ heard' = <<>>
       \/ mon' = "done" /\ UNCHANGED asrVars
    /\ UNCHANGED <<storeVars, at, turnVars, streamVars, cut, barged, cuts,
                   micVars, verdict, fails>>

\* A long enough final: stored, turnCtx cancelled, done closed.
MonitorAccepts ==
    /\ mon = "hear" /\ heard # <<>> /\ Head(heard) \in Long
    /\ barged' = Head(heard)
    /\ cut' = TRUE /\ cuts' = cuts \cup {turn.n}
    /\ mon' = "done" /\ asr' = "off" /\ heard' = <<>>
    /\ UNCHANGED <<storeVars, at, turnVars, streamVars, micVars,
                   verdict, fails>>

\* A final with too few words is dropped.
MonitorDrops ==
    /\ mon = "hear" /\ heard # <<>> /\ Head(heard) \notin Long
    /\ heard' = Tail(heard)
    /\ UNCHANGED <<storeVars, at, turnVars, streamVars, bargeVars, asr, micVars,
                   verdict, fails>>

\* The recogniser ended the stream (silence_timeout 60 s, one sentence).
MonitorEnds ==
    /\ mon = "hear" /\ asr = "over"
    /\ mon' = "done" /\ asr' = "off" /\ heard' = <<>>
    /\ UNCHANGED <<storeVars, at, turnVars, streamVars, cut, barged, cuts,
                   micVars, verdict, fails>>

\* ------------------------------------------------ the recogniser and audioCh

\* The server ends the open stream after a silence or a sentence.
AsrEnds ==
    /\ asr \in {"listen", "monitor"}
    /\ asr' = "over"
    /\ UNCHANGED <<storeVars, at, turnVars, streamVars, bargeVars, heard, micVars,
                   verdict, fails>>

\* The frames of the next utterance reach the goroutines that wait for one:
\* each stale pump takes a frame and ends, the pump of the open stream the
\* rest.
Pump ==
    /\ mic # <<>> /\ asr \in {"listen", "monitor"}
    /\ \E eaten \in 0 .. Min({stale, Frames}) :
          /\ stale' = stale - eaten
          /\ heard' = IF eaten < Frames THEN Append(heard, Head(mic)) ELSE heard
    /\ mic' = Tail(mic)
    /\ UNCHANGED <<storeVars, at, turnVars, streamVars, bargeVars, asr, closed,
                   visitor, said, verdict, fails>>

\* No stream is open: only stale pumps take frames.
StalePumps ==
    /\ mic # <<>> /\ asr \notin {"listen", "monitor"} /\ stale > 0
    /\ stale' = stale - Min({stale, Frames})
    /\ mic' = IF stale >= Frames THEN Tail(mic) ELSE mic
    /\ UNCHANGED <<storeVars, at, turnVars, streamVars, bargeVars, asrVars,
                   closed, visitor, said, verdict, fails>>

\* ---------------------------------------------------- visitor and readLoop

\* The visitor speaks; readLoop drops what audioCh has no room for.
Say(u) ==
    /\ visitor = "on" /\ ~closed /\ u \notin said
    /\ at \notin {"create", "setup", "ending", "closed"}
    /\ said' = said \cup {u}
    /\ mic' = IF Len(mic) < Cap THEN Append(mic, u) ELSE mic
    /\ UNCHANGED <<storeVars, at, turnVars, streamVars, bargeVars, asrVars,
                   closed, visitor, stale, verdict, fails>>

Leave ==
    /\ visitor = "on" /\ at # "closed"
    /\ visitor' \in {"end", "gone"}
    /\ UNCHANGED <<storeVars, at, turnVars, streamVars, bargeVars, asrVars, mic,
                   closed, said, stale, verdict, fails>>

ReadLoopEnds ==
    /\ ~closed /\ visitor # "on"
    /\ at \notin {"create", "setup", "ending", "closed"}
    /\ closed' = TRUE
    /\ UNCHANGED <<storeVars, at, turnVars, streamVars, bargeVars, asrVars, mic,
                   visitor, said, stale, verdict, fails>>

\* ---------------------------------------------------------------------------

Server == \/ Create \/ Setup \/ Greet \/ Listening \/ Thinking
          \/ ListenFinal \/ ListenNothing \/ ListenClosed \/ ListenPumpFails
          \/ BotOpen \/ TtsOpen \/ PipeEnds \/ Drained \/ PersistBot
          \/ Barge \/ EndCall \/ NextListen \/ Unwind \/ End

Monitor == MonitorStart \/ MonitorAccepts \/ MonitorDrops \/ MonitorEnds

VoiceNext ==
    \/ Server \/ Monitor \/ BotEnds \/ TtsEnds
    \/ AsrEnds \/ Pump \/ StalePumps \/ ReadLoopEnds
    \/ \E u \in Utterances : Say(u)
    \/ Leave

\* ---------------------------------------------------------------- properties

SpokenTurns == {t \in turns : t.n > 0}

\* The transcript the monitor accepted is given up only to the turn that
\* answers it: runBotTurn waits for bargeStop before it looks (web_voice.go
\* 462), so no accepted answer of the visitor is dropped.
AcceptedBargeIsAnswered ==
    [][barged # None /\ barged' # barged
         => barged' = None /\ turn'.re = barged /\ at' = "bot_open"]_voiceVars

\* The file of number i holds no recording, or that of a turn a barge-in began.
SpareFile(i) == wavs[i] = 0 \/ wavs[i] - 1 \in cuts

\* Recordings are numbered by turn; run's counter does not follow the turns
\* that barge-ins nest.  So the next turn overwrites the recording of a turn a
\* barge-in started, and of no other turn; and a row whose recorder failed names
\* no file or the file such a turn left, never another turn's recording.
RecordingsFollowTurns ==
    \A t \in SpokenTurns :
        wavs[t.wav] # t.n =>
            \/ t.n - 1 \in cuts
            \/ t.n \in unrecorded /\ SpareFile(t.wav)

\* Without a failed write the stored turns alternate, from the greeting on:
\* each bot turn answers the user turn stored just before it, also when a
\* barge-in cut the turn before.
DialogueAlternates ==
    at # "chat" /\ fails = 0 =>
      \A t \in turns :
        IF t.idx % 2 = 1
        THEN /\ t.role = "bot"
             /\ IF t.idx = 1 THEN t.re = None
                ELSE \E u \in turns : u.idx = t.idx - 1 /\ u.re = t.re
        ELSE t.role = "user"

\* After the visitor has left, the session's goroutine ends and closes its
\* row unless the database refuses.
SessionEnds ==
    visitor # "on" ~> /\ at = "closed"
                      /\ row.ended \/ fails > 0 \/ row.status = "none"

\* voice ends a session "ended" when the visitor closes or the bot says
\* ENDCALL (run's comment, web_voice.go:206; a chat session is, too).
EndCallIsNormalEnd == row.ended /\ verdict = "endcall" => row.status = "ended"
=============================================================================
