-------------------------------- MODULE Turn --------------------------------
(***************************************************************************)
(* The conversation loop of one call: RunGreeting and RunTurn, and inside  *)
(* each Speak the bot's HTTP reader, the sentence pump, the barge-in       *)
(* monitor (bargein.go) and the main flow of turn.go.  TurnAudio has the   *)
(* sink, the filler and FreeSWITCH; here the audio goroutine only ends.    *)
(***************************************************************************)
EXTENDS Integers

CONSTANTS BargeIn,  \* Pipeline.BargeIn, with an ASR client
          SentCap,  \* capacity of the sentence channel (8 in the code)
          MaxSent,  \* bound: sentences of one bot answer
          MaxTurns  \* bound: Speaks in the call

ASSUME TurnAssumption ==
    /\ BargeIn \in BOOLEAN
    /\ SentCap \in Nat \ {0} /\ MaxSent \in Nat /\ MaxTurns \in Nat \ {0}

VARIABLES
    main,    \* where RunTurn / Speak is
    turn,    \* Speaks begun
    msg,     \* the message Speak posts to the bot
    pending, \* Pipeline.pendingTranscript
    action,  \* what Action() returned
    bot,     \* the reader of the HTTP stream: "off", "read", "ok", "canceled", "err"
    left,    \* external: sentences the bot has yet to send
    queue,   \* sentences in the channel
    pump,    \* [run, got, sent, eos]: the sentence pump and its SendTexts
    tts,     \* "off", "open", "closed" (Close, or its context), "broken"
    cut,     \* botCtx is canceled
    audio,   \* the audio goroutine has ended
    fired,   \* bargeFired
    mon,     \* the transcript watcher: "off", "pre", "post", "ended"
    asr,     \* the monitor's ASR stream is open
    heard,   \* [last, captured, final]: lastText, transcript, finalCh
    ctxDone  \* the session's context is canceled

botVars == <<action, bot, left, queue, pump, cut>>
monVars == <<mon, asr, heard>>
turnVars == <<main, turn, msg, pending, botVars, tts, audio, fired, monVars,
              ctxDone>>

\* A transcript, abstracted to whether it has BargeMinWords words and to the
\* number of Speaks begun when it was heard.
Words == {"few", "many"}
Text == [turn : 0..MaxTurns, words : Words]
NoText == [turn |-> 0, words |-> "none"]
SpokenNow == {[turn |-> turn, words |-> w] : w \in Words}

Speaking == {"select", "sentences", "drain", "play", "capture"}
triggered == mon # "off" /\ heard.captured # NoText
Silent == [last |-> NoText, captured |-> NoText, final |-> NoText]

TurnInit ==
    /\ main = "idle" /\ turn = 0
    /\ msg = NoText /\ pending = NoText
    /\ action = "CHAT" /\ bot = "off" /\ left = 0 /\ queue = 0
    /\ pump = [run |-> FALSE, got |-> 0, sent |-> 0, eos |-> FALSE]
    /\ tts = "off" /\ cut = FALSE /\ audio = TRUE /\ fired = FALSE
    /\ mon = "off" /\ asr = FALSE /\ heard = Silent
    /\ ctxDone = FALSE

---------------------------------------------------------------------------
(* Starting a turn.                                                        *)

\* Speak up to its select: the monitor (or the drain that replaces it), the
\* bot stream and the TTS stream are up and the goroutines run.
Speak(m) ==
    /\ turn < MaxTurns
    /\ turn' = turn + 1
    /\ msg' = m
    /\ main' = "select"
    /\ action' = "CHAT" /\ bot' = "read" /\ left' \in 0..MaxSent /\ queue' = 0
    /\ pump' = [run |-> TRUE, got |-> 0, sent |-> 0, eos |-> FALSE]
    /\ tts' = "open" /\ cut' = FALSE /\ audio' = FALSE /\ fired' = FALSE
    /\ heard' = Silent
    /\ \/ BargeIn /\ mon' = "pre" /\ asr' = TRUE
       \/ mon' = "off" /\ asr' = FALSE

Greeting ==
    /\ main = "idle" /\ turn = 0 /\ ~ctxDone
    /\ Speak(NoText)
    /\ UNCHANGED <<pending, ctxDone>>

\* A bug: the transcript is used but stays pending.
PendingTurn_Keep ==
    /\ main = "idle" /\ turn > 0 /\ ~ctxDone /\ pending # NoText
    /\ Speak(pending)
    /\ UNCHANGED <<pending, ctxDone>>

\* The last Speak was barged: its transcript is the message, Listen is not
\* called.
PendingTurn ==
    /\ main = "idle" /\ turn > 0 /\ ~ctxDone /\ pending # NoText
    /\ Speak(pending)
    /\ pending' = NoText
    /\ UNCHANGED ctxDone

\* Listen returned a transcript.  (An empty one ends the turn without a
\* Speak, which leaves everything here as it was.)
ListenTurn ==
    /\ main = "idle" /\ turn > 0 /\ ~ctxDone /\ pending = NoText
    /\ \E m \in SpokenNow : Speak(m)
    /\ UNCHANGED <<pending, ctxDone>>

\* The session loop sees the context done, Listen fails, or a stream cannot
\* be opened: the call's loop ends.
LoopEnds ==
    /\ main = "idle"
    /\ main' = "over"
    /\ UNCHANGED <<turn, msg, pending, botVars, tts, audio, fired, monVars,
                   ctxDone>>

---------------------------------------------------------------------------
(* httpTurnStream.read.  It blocks on a full channel until its context ends. *)

BotSentence ==
    /\ bot = "read" /\ left > 0 /\ queue < SentCap
    /\ left' = left - 1 /\ queue' = queue + 1
    /\ UNCHANGED <<main, turn, msg, pending, action, bot, pump, tts, cut,
                   audio, fired, monVars, ctxDone>>

BotEnds ==
    /\ bot = "read"
    /\ \/ left = 0 /\ bot' = "ok" /\ action' \in {"CHAT", "ENDCALL"}
       \/ cut /\ bot' = "canceled" /\ UNCHANGED action
       \/ bot' = "err" /\ UNCHANGED action \* a read error, or the timeout
    /\ UNCHANGED <<main, turn, msg, pending, left, queue, pump, tts, cut,
                   audio, fired, monVars, ctxDone>>

---------------------------------------------------------------------------
(* The sentence pump holds one sentence back, to mark the last one.        *)

PumpSentence ==
    /\ pump.run /\ queue > 0
    /\ queue' = queue - 1
    /\ pump' = IF pump.got = 0 THEN [pump EXCEPT !.got = 1]
               ELSE IF tts = "open"
               THEN [pump EXCEPT !.got = @ + 1, !.sent = @ + 1]
               ELSE [pump EXCEPT !.got = @ + 1, !.run = FALSE]
    /\ UNCHANGED <<main, turn, msg, pending, action, bot, left, tts, cut,
                   audio, fired, monVars, ctxDone>>

\* A bug: the sentence held back is never sent.
PumpEnds_DropLast ==
    /\ pump.run /\ queue = 0 /\ bot # "read"
    /\ pump' = [pump EXCEPT !.run = FALSE, !.eos = (tts = "open")]
    /\ UNCHANGED <<main, turn, msg, pending, action, bot, left, queue, tts,
                   cut, audio, fired, monVars, ctxDone>>

\* The channel is closed: the last SendText carries the end of stream.
PumpEnds ==
    /\ pump.run /\ queue = 0 /\ bot # "read"
    /\ pump' = IF tts = "open"
               THEN [run |-> FALSE, got |-> pump.got, sent |-> pump.got,
                     eos |-> TRUE]
               ELSE [pump EXCEPT !.run = FALSE]
    /\ UNCHANGED <<main, turn, msg, pending, action, bot, left, queue, tts,
                   cut, audio, fired, monVars, ctxDone>>

\* External: the TTS connection breaks.
TtsBreaks ==
    /\ tts = "open" /\ main \in Speaking
    /\ tts' = "broken"
    /\ UNCHANGED <<main, turn, msg, pending, botVars, audio, fired, monVars,
                   ctxDone>>

\* The audio goroutine ends: after the last frame, when the stream is gone,
\* or on a sink error at any time.
AudioEnds ==
    /\ ~audio
    /\ audio' = TRUE
    /\ UNCHANGED <<main, turn, msg, pending, botVars, tts, fired, monVars,
                   ctxDone>>

AudioRunsOut == (pump.eos \/ tts # "open") /\ AudioEnds

---------------------------------------------------------------------------
(* The barge-in monitor.                                                   *)

\* A bug: an empty final is handed over as it is.
FinalText_NoFallback(text, last) == text

\* An empty final falls back to the last partial.
FinalText(text, last) == IF text = NoText THEN last ELSE text

\* One result of the ASR stream, watched in two phases.  Before the trigger
\* a short or empty result is skipped, final or not.
AsrResult(text, isFinal) ==
    /\ asr /\ mon \in {"pre", "post"} /\ main \in Speaking
    /\ LET last == IF text # NoText THEN text ELSE heard.last
           seen == [heard EXCEPT !.last = last]
           final == FinalText(text, last)
       IN IF mon = "pre" /\ text.words # "many"
          THEN mon' = mon /\ heard' = seen
          ELSE IF isFinal
          THEN /\ mon' = "ended"
               /\ heard' = [seen EXCEPT !.captured = final, !.final = final]
          ELSE /\ mon' = "post"
               /\ heard' = IF mon = "pre" THEN [seen EXCEPT !.captured = text]
                                          ELSE seen
    /\ UNCHANGED <<main, turn, msg, pending, botVars, tts, audio, fired, asr,
                   ctxDone>>

\* External: the ASR server ends the stream (a final, a limit, an error).
AsrCloses ==
    /\ asr /\ main \in Speaking
    /\ asr' = FALSE
    /\ UNCHANGED <<main, turn, msg, pending, botVars, tts, audio, fired, mon,
                   heard, ctxDone>>

\* The watcher's loop ends with the stream: a triggered monitor hands over
\* the latest text.
WatcherEnds ==
    /\ ~asr /\ mon \in {"pre", "post"}
    /\ mon' = "ended"
    /\ heard' = IF triggered THEN [heard EXCEPT !.final = heard.last]
                             ELSE heard
    /\ UNCHANGED <<main, turn, msg, pending, botVars, tts, audio, fired, asr,
                   ctxDone>>

---------------------------------------------------------------------------
(* Speak's main flow.                                                      *)

\* A bug: the chain forgets to close the TTS stream.
TriggerBargeIn_KeepTts ==
    /\ triggered /\ ~fired
    /\ fired' = TRUE /\ cut' = TRUE
    /\ UNCHANGED tts

\* triggerBargeIn: close TTS, break playback, cancel the bot; once per Speak.
TriggerBargeIn ==
    /\ triggered /\ ~fired
    /\ fired' = TRUE /\ tts' = "closed" /\ cut' = TRUE

\* No trigger was seen, or its chain has run already.
NoTrigger == (~triggered \/ fired) /\ UNCHANGED <<fired, tts, cut>>

SelectTrigger ==
    /\ main = "select"
    /\ TriggerBargeIn
    /\ UNCHANGED <<main, turn, msg, pending, action, bot, left, queue, pump,
                   audio, monVars, ctxDone>>

\* Action() answered; a cancellation is no error when the trigger came first.
SelectAction ==
    /\ main = "select" /\ bot # "read"
    /\ main' = "sentences"
    /\ TriggerBargeIn \/ NoTrigger
    /\ bot' = IF bot = "canceled" /\ ~fired THEN "err" ELSE bot
    /\ UNCHANGED <<turn, msg, pending, action, left, queue, pump, audio,
                   monVars, ctxDone>>

\* The pump is done: Speak fails with the bot's error or waits for the audio.
SentencesDone ==
    /\ main = "sentences" /\ ~pump.run
    /\ IF bot = "err" THEN main' = "over" /\ tts' = "closed"
                      ELSE main' = "drain" /\ UNCHANGED tts
    /\ UNCHANGED <<turn, msg, pending, botVars, audio, fired, mon, asr, heard,
                   ctxDone>>

DrainTrigger ==
    /\ main = "drain"
    /\ TriggerBargeIn
    /\ UNCHANGED <<main, turn, msg, pending, action, bot, left, queue, pump,
                   audio, monVars, ctxDone>>

\* The audio is drained; the wait for the playback is skipped after a
\* barge-in and in a turn without a sink.
DrainDone ==
    /\ main = "drain" /\ audio
    /\ \/ ~fired /\ main' = "play"
       \/ main' = "capture"
    /\ UNCHANGED <<turn, msg, pending, botVars, tts, audio, fired, monVars,
                   ctxDone>>

PlayTrigger ==
    /\ main = "play"
    /\ TriggerBargeIn
    /\ main' = "capture"
    /\ UNCHANGED <<turn, msg, pending, action, bot, left, queue, pump, audio,
                   monVars, ctxDone>>

\* PLAYBACK_STOP or the deadline; a trigger that is ready too may lose.
PlayDone ==
    /\ main = "play"
    /\ main' = "capture"
    /\ UNCHANGED <<turn, msg, pending, botVars, tts, audio, fired, monVars,
                   ctxDone>>

\* The drain and the playback wait return ctx.Err().
SpeakCtxDone ==
    /\ main \in {"drain", "play"} /\ ctxDone
    /\ main' = "over"
    /\ UNCHANGED <<turn, msg, pending, botVars, tts, audio, fired, mon, asr,
                   heard, ctxDone>>

\* Speak returns: the TTS stream and the monitor are stopped, RunTurn goes on
\* unless the bot ended the call.
Return ==
    /\ main' = IF action = "ENDCALL" THEN "over" ELSE "idle"
    /\ tts' = "closed"
    /\ UNCHANGED <<turn, msg, botVars, audio, fired, mon, asr, heard, ctxDone>>

CaptureNothing ==
    /\ main = "capture" /\ ~fired
    /\ Return
    /\ UNCHANGED pending

\* waitForFinal: the final transcript, or what was captured at the trigger
\* when maxWaitFinal passes first.
CaptureFinal ==
    /\ main = "capture" /\ fired /\ heard.final # NoText
    /\ pending' = heard.final
    /\ Return

\* A bug: no time limit on the wait for the final transcript.
CaptureTimeout_Never ==
    /\ main = "capture" /\ fired /\ heard.final # NoText
    /\ pending' = heard.captured
    /\ Return

CaptureTimeout ==
    /\ main = "capture" /\ fired
    /\ pending' = heard.captured
    /\ Return

\* The call hangs up; every stream's context ends with the session's.
CtxDone ==
    /\ ~ctxDone
    /\ ctxDone' = TRUE
    /\ cut' = TRUE /\ asr' = FALSE
    /\ tts' = IF tts = "off" THEN tts ELSE "closed"
    /\ UNCHANGED <<main, turn, msg, pending, action, bot, left, queue, pump,
                   audio, fired, mon, heard>>

MainStep ==
    \/ SelectTrigger \/ SelectAction \/ SentencesDone
    \/ DrainTrigger \/ DrainDone \/ PlayTrigger \/ PlayDone \/ SpeakCtxDone
    \/ CaptureNothing \/ CaptureFinal \/ CaptureTimeout

BotStep == BotSentence \/ BotEnds
PumpStep == PumpSentence \/ PumpEnds

CallOver == main = "over" /\ UNCHANGED turnVars

TurnNext ==
    \/ Greeting \/ PendingTurn \/ ListenTurn \/ LoopEnds
    \/ MainStep \/ BotStep \/ PumpStep
    \/ TtsBreaks \/ AudioEnds
    \/ \E t \in SpokenNow \cup {NoText}, f \in BOOLEAN : AsrResult(t, f)
    \/ AsrCloses \/ WatcherEnds
    \/ CtxDone \/ CallOver

TurnSpec == TurnInit /\ [][TurnNext]_turnVars

\* The goroutines run, the bot's total timeout ends a request that does
\* nothing, a TTS stream that got its end of stream or was closed ends.
\* Nothing makes the ASR server answer or the caller speak.
FairTurnSpec ==
    /\ TurnSpec
    /\ WF_turnVars(MainStep) /\ WF_turnVars(BotStep) /\ WF_turnVars(PumpStep)
    /\ WF_turnVars(AudioRunsOut)

---------------------------------------------------------------------------
(* Properties.                                                             *)

\* Every variable keeps its type.
TurnTypeOK ==
    /\ main \in {"idle", "over"} \cup Speaking
    /\ turn \in 0..MaxTurns
    /\ msg \in Text \cup {NoText} /\ pending \in Text \cup {NoText}
    /\ action \in {"CHAT", "ENDCALL"}
    /\ bot \in {"off", "read", "ok", "canceled", "err"}
    /\ left \in 0..MaxSent /\ queue \in 0..SentCap
    /\ pump \in [run : BOOLEAN, got : 0..MaxSent, sent : 0..MaxSent,
                 eos : BOOLEAN]
    /\ tts \in {"off", "open", "closed", "broken"}
    /\ cut \in BOOLEAN /\ audio \in BOOLEAN /\ fired \in BOOLEAN
    /\ mon \in {"off", "pre", "post", "ended"} /\ asr \in BOOLEAN
    /\ heard \in [last : Text \cup {NoText}, captured : Text \cup {NoText},
                  final : Text \cup {NoText}]
    /\ ctxDone \in BOOLEAN

\* A turn that was cut by the caller hands over what the caller said: after
\* an empty final, a closed ASR stream or a timeout too, RunTurn has text for
\* the bot and does not listen again.
FiredTurnHasTranscript == main = "idle" /\ fired => pending # NoText

\* The types of the module, and text for every turn that was interrupted.
TurnInv == TurnTypeOK /\ FiredTurnHasTranscript

\* What RunTurn posts was said since the Speak before it began: a transcript
\* is neither posted twice nor kept for a later turn.
MessageIsFresh == msg # NoText => msg.turn = turn - 1

\* An answer that nothing interrupted is spoken to its last sentence, which
\* carries the end of stream, before Speak waits for the audio.
WholeAnswerSpoken ==
    main \in {"drain", "play"} /\ bot = "ok" /\ tts = "open" =>
        pump.sent = pump.got /\ pump.eos

\* Once the caller interrupts, no further sentence of the answer goes to TTS,
\* although the pump still has some.
SilentAfterBarge ==
    [][fired /\ turn' = turn => pump'.sent = pump.sent]_turnVars

\* Speak always comes back, with the channel full and the pump gone, the TTS
\* stream dead or the ASR server silent.
SpeakComesBack == main \in Speaking ~> main \in {"idle", "over"}

\* The next RunTurn picks the caller up "regardless of which Speak phase the
\* bargein fired in", the playback wait included (turn.go 685-688): a trigger
\* that is there when that wait ends is acted on.
TriggerIsKept ==
    [][main = "play" /\ triggered /\ main' = "capture" => fired']_turnVars

=============================================================================
