----------------------------- MODULE TurnProofs -----------------------------
(* What a call says and hears through any number of turns: for every bound of *)
(* Turn, every capacity of the sentence channel, with and without barge-in.   *)
EXTENDS Turn, TLAPS

USE TurnAssumption

\* Sentences are counted once on their way from the bot to TTS.
SentencesCounted ==
    /\ left + queue + pump.got <= MaxSent
    /\ pump.sent <= pump.got

\* Speak goes on when the pump is done, and a pump that ended while TTS is
\* still open has said everything.
PumpSaysAll ==
    /\ ~pump.run /\ tts = "open" => pump.sent = pump.got /\ pump.eos
    /\ main \in {"drain", "play", "capture"} => ~pump.run

\* The chain of a barge-in closes TTS for the rest of the turn.
FiredIsMute == fired => tts # "open"

\* What the monitor has heard was said in this turn, and it has text to fall
\* back to as soon as it has triggered.
HeardNow ==
    /\ \A f \in {"last", "captured", "final"} :
         heard[f] # NoText => heard[f].turn = turn
    /\ heard.captured # NoText => heard.last # NoText
    /\ mon = "post" => heard.captured # NoText

\* A chain that fired has a transcript, in Speak and after it.
FiredHasText ==
    /\ main \in Speaking /\ fired => heard.captured # NoText
    /\ FiredTurnHasTranscript

\* A pending transcript is the one of the last Speak; no Speak has one.
PendingIsFresh ==
    /\ pending # NoText => pending.turn = turn /\ main \in {"idle", "over"}
    /\ main \in Speaking \/ pending # NoText => turn > 0

TalkInv ==
    /\ TurnTypeOK /\ SentencesCounted /\ PumpSaysAll /\ FiredIsMute
    /\ HeardNow /\ FiredHasText /\ PendingIsFresh /\ MessageIsFresh

\* A text is not the empty one.
LEMMA TextIsNotEmpty == NoText \notin Text
BY DEF NoText, Text, Words

\* Before the first turn nothing was said.
LEMMA TurnInitInv == TurnInit => TalkInv
<1> SUFFICES ASSUME TurnInit PROVE TalkInv
  OBVIOUS
<1> USE DEF TurnInit, Silent
<1>1. TurnTypeOK
  <2>1. /\ pump \in [run : BOOLEAN, got : 0 .. MaxSent, sent : 0 .. MaxSent, eos : BOOLEAN]
        /\ heard \in [last : Text \cup {NoText}, captured : Text \cup {NoText},
                      final : Text \cup {NoText}]
    OBVIOUS
  <2>2. /\ main \in {"idle", "over"} \cup Speaking
        /\ action \in {"CHAT", "ENDCALL"}
        /\ bot \in {"off", "read", "ok", "canceled", "err"}
        /\ tts \in {"off", "open", "closed", "broken"}
        /\ mon \in {"off", "pre", "post", "ended"}
    OBVIOUS
  <2>3. turn \in 0 .. MaxTurns /\ left \in 0 .. MaxSent /\ queue \in 0 .. SentCap
    OBVIOUS
  <2>4. /\ msg \in Text \cup {NoText} /\ pending \in Text \cup {NoText}
        /\ cut \in BOOLEAN /\ audio \in BOOLEAN /\ fired \in BOOLEAN
        /\ asr \in BOOLEAN /\ ctxDone \in BOOLEAN
    OBVIOUS
  <2> QED BY <2>1, <2>2, <2>3, <2>4 DEF TurnTypeOK
<1>2. SentencesCounted /\ PumpSaysAll /\ FiredIsMute
  BY DEF SentencesCounted, PumpSaysAll, FiredIsMute
<1>3. HeardNow /\ FiredHasText /\ PendingIsFresh /\ MessageIsFresh
  BY DEF Speaking, HeardNow, FiredHasText, FiredTurnHasTranscript, PendingIsFresh, MessageIsFresh
<1> QED BY <1>1, <1>2, <1>3 DEF TalkInv

\* A Speak begins with what was said in the turn before it, or nothing.
LEMMA SpeakKeeps ==
    ASSUME TalkInv, Greeting \/ PendingTurn \/ ListenTurn
    PROVE  TalkInv'
<1> USE DEF TalkInv
<1>1. \E m \in Text \cup {NoText} :
        /\ Speak(m)
        /\ m # NoText => m.turn = turn
  <2>1. CASE Greeting
    BY <2>1 DEF Greeting
  <2>2. CASE PendingTurn
    BY <2>2 DEF PendingTurn, TurnTypeOK, PendingIsFresh
  <2>3. CASE ListenTurn
    BY <2>3 DEF ListenTurn, SpokenNow, Text, TurnTypeOK
  <2> QED BY <2>1, <2>2, <2>3
<1>2. pending' = NoText /\ ctxDone' \in BOOLEAN
  <2>1. CASE Greeting
    BY <2>1 DEF Greeting, PendingIsFresh, TurnTypeOK
  <2>2. CASE PendingTurn
    BY <2>2 DEF PendingTurn, TurnTypeOK
  <2>3. CASE ListenTurn
    BY <2>3 DEF ListenTurn, TurnTypeOK
  <2> QED BY <2>1, <2>2, <2>3
<1>3. PICK m \in Text \cup {NoText} : Speak(m) /\ (m # NoText => m.turn = turn)
  BY <1>1
<1>4. turn' = turn + 1 /\ turn' \in 0 .. MaxTurns /\ main' = "select" /\ msg' = m
  BY <1>3 DEF Speak, TurnTypeOK
<1>5. /\ ~fired' /\ fired' \in BOOLEAN /\ heard' = Silent
      /\ mon' \in {"off", "pre"} /\ asr' \in BOOLEAN
      /\ left' \in 0 .. MaxSent /\ queue' = 0 /\ tts' = "open"
      /\ pump' = [run |-> TRUE, got |-> 0, sent |-> 0, eos |-> FALSE]
  BY <1>3 DEF Speak
<1>6. TurnTypeOK'
  <2>1. /\ pump' \in [run : BOOLEAN, got : 0 .. MaxSent, sent : 0 .. MaxSent, eos : BOOLEAN]
        /\ heard' \in [last : Text \cup {NoText}, captured : Text \cup {NoText},
                       final : Text \cup {NoText}]
    BY <1>5 DEF Silent
  <2>2. action' = "CHAT" /\ bot' = "read" /\ cut' \in BOOLEAN /\ audio' \in BOOLEAN
    BY <1>3 DEF Speak
  <2> QED BY <2>1, <2>2, <1>2, <1>4, <1>5 DEF TurnTypeOK, Speaking
<1>7. SentencesCounted' /\ PumpSaysAll' /\ FiredIsMute'
  <2>1. pump'.got = 0 /\ pump'.sent = 0 /\ pump'.run
    BY <1>5
  <2>2. left' \in 0 .. MaxSent /\ queue' = 0
    BY <1>5
  <2>3. SentencesCounted'
    <3>1. \A a, b, c : a \in 0 .. MaxSent /\ b = 0 /\ c = 0 => a + b + c <= MaxSent
      OBVIOUS
    <3>2. left' + queue' + pump'.got <= MaxSent
      BY <2>1, <2>2, <3>1
    <3>3. pump'.sent <= pump'.got
      BY <2>1
    <3> QED BY <3>2, <3>3 DEF SentencesCounted
  <2>4. PumpSaysAll' /\ FiredIsMute'
    BY <2>1, <1>4, <1>5 DEF PumpSaysAll, FiredIsMute
  <2> QED BY <2>3, <2>4
<1>8. HeardNow' /\ FiredHasText' /\ PendingIsFresh'
  <2>1. HeardNow'
    BY <1>5 DEF HeardNow, Silent
  <2>2. FiredHasText'
    BY <1>4, <1>5 DEF FiredHasText, FiredTurnHasTranscript
  <2>3. turn' > 0
    BY <1>4 DEF TurnTypeOK
  <2> QED BY <2>1, <2>2, <2>3, <1>2 DEF PendingIsFresh
<1>9. MessageIsFresh'
  BY <1>3, <1>4 DEF MessageIsFresh, TurnTypeOK
<1> QED BY <1>6, <1>7, <1>8, <1>9

\* The bot's reader and the pump pass sentences on.
LEMMA SentencesKeep ==
    ASSUME TalkInv, BotStep \/ PumpStep
    PROVE  TalkInv'
<1> USE DEF TalkInv, monVars
<1>1. UNCHANGED <<main, turn, msg, pending, tts, cut, audio, fired, monVars, ctxDone>>
  BY DEF BotStep, BotSentence, BotEnds, PumpStep, PumpSentence, PumpEnds
<1>2. FiredIsMute' /\ HeardNow' /\ FiredHasText' /\ PendingIsFresh' /\ MessageIsFresh'
  BY <1>1 DEF FiredIsMute, HeardNow, FiredHasText, FiredTurnHasTranscript,
     PendingIsFresh, MessageIsFresh
<1>3. CASE BotSentence \/ BotEnds
  <2>1. TurnTypeOK'
    BY <1>1, <1>3 DEF BotSentence, BotEnds, TurnTypeOK
  <2>2. SentencesCounted' /\ PumpSaysAll'
    BY <1>1, <1>3 DEF BotSentence, BotEnds, SentencesCounted, PumpSaysAll, TurnTypeOK
  <2> QED BY <1>2, <2>1, <2>2
<1>4. CASE PumpSentence
  <2>1. /\ pump.run /\ queue > 0 /\ queue' = queue - 1
        /\ UNCHANGED <<action, bot, left>>
        /\ pump'.got = pump.got + 1 /\ pump'.sent <= pump'.got
        /\ pump' \in [run : BOOLEAN, got : Nat, sent : Nat, eos : BOOLEAN]
        /\ ~pump'.run => tts # "open"
    <3>1. /\ pump.run /\ queue > 0 /\ queue' = queue - 1 /\ UNCHANGED <<action, bot, left>>
          /\ pump \in [run : BOOLEAN, got : 0 .. MaxSent, sent : 0 .. MaxSent, eos : BOOLEAN]
          /\ pump.sent <= pump.got
      BY <1>4 DEF PumpSentence, TurnTypeOK, SentencesCounted
    <3>2. CASE pump' = [pump EXCEPT !.got = 1] /\ pump.got = 0
      BY <3>1, <3>2
    <3>3. CASE pump' = [pump EXCEPT !.got = @ + 1, !.sent = @ + 1]
      <4>1. /\ pump'.got = pump.got + 1 /\ pump'.sent = pump.sent + 1
            /\ pump'.run = pump.run
            /\ pump' \in [run : BOOLEAN, got : Nat, sent : Nat, eos : BOOLEAN]
        <5>1. /\ pump.run \in BOOLEAN /\ pump.eos \in BOOLEAN
              /\ pump.got \in Nat /\ pump.sent \in Nat
          BY <3>1
        <5>2. pump' = [run |-> pump.run, got |-> pump.got + 1, sent |-> pump.sent + 1,
                       eos |-> pump.eos]
          BY <3>1, <3>3
        <5> QED BY <5>1, <5>2
      <4> QED BY <3>1, <4>1
    <3>4. CASE pump' = [pump EXCEPT !.got = @ + 1, !.run = FALSE] /\ tts # "open"
      <4>1. /\ pump'.got = pump.got + 1 /\ pump'.sent = pump.sent
            /\ pump' \in [run : BOOLEAN, got : Nat, sent : Nat, eos : BOOLEAN]
        <5>1. /\ pump.run \in BOOLEAN /\ pump.eos \in BOOLEAN
              /\ pump.got \in Nat /\ pump.sent \in Nat
          BY <3>1
        <5>2. pump' = [run |-> FALSE, got |-> pump.got + 1, sent |-> pump.sent,
                       eos |-> pump.eos]
          BY <3>1, <3>4
        <5> QED BY <5>1, <5>2
      <4> QED BY <3>1, <3>4, <4>1
    <3> QED BY <1>4, <3>2, <3>3, <3>4 DEF PumpSentence
  <2>2. SentencesCounted'
    BY <2>1 DEF SentencesCounted, TurnTypeOK
  <2>3. pump' \in [run : BOOLEAN, got : 0 .. MaxSent, sent : 0 .. MaxSent, eos : BOOLEAN]
    BY <2>1, <2>2 DEF SentencesCounted, TurnTypeOK
  <2>4. TurnTypeOK'
    BY <1>1, <2>1, <2>3 DEF TurnTypeOK
  <2>5. PumpSaysAll'
    BY <1>1, <2>1 DEF PumpSaysAll
  <2> QED BY <1>2, <2>2, <2>4, <2>5
<1>5. CASE PumpEnds
  <2>1. /\ pump.run /\ queue = 0
        /\ UNCHANGED <<action, bot, left, queue>>
        /\ pump'.got = pump.got /\ pump'.sent <= pump'.got /\ ~pump'.run
        /\ pump' \in [run : BOOLEAN, got : 0 .. MaxSent, sent : 0 .. MaxSent, eos : BOOLEAN]
        /\ tts = "open" => pump'.sent = pump'.got /\ pump'.eos
    <3>1. /\ pump.run /\ queue = 0 /\ UNCHANGED <<action, bot, left, queue>>
          /\ pump \in [run : BOOLEAN, got : 0 .. MaxSent, sent : 0 .. MaxSent, eos : BOOLEAN]
          /\ pump.sent <= pump.got
      BY <1>5 DEF PumpEnds, TurnTypeOK, SentencesCounted
    <3>2. CASE pump' = [run |-> FALSE, got |-> pump.got, sent |-> pump.got, eos |-> TRUE]
      BY <3>1, <3>2
    <3>3. CASE pump' = [pump EXCEPT !.run = FALSE] /\ tts # "open"
      BY <3>1, <3>3
    <3> QED BY <1>5, <3>2, <3>3 DEF PumpEnds
  <2>2. SentencesCounted' /\ PumpSaysAll'
    BY <1>1, <2>1 DEF SentencesCounted, PumpSaysAll
  <2>3. TurnTypeOK'
    BY <1>1, <2>1 DEF TurnTypeOK
  <2> QED BY <1>2, <2>2, <2>3
<1> QED BY <1>3, <1>4, <1>5 DEF BotStep, PumpStep

\* TTS and the audio goroutine may end at any time, the session as well.
LEMMA StreamsKeep ==
    ASSUME TalkInv, TtsBreaks \/ AudioEnds \/ AsrCloses \/ CtxDone \/ LoopEnds
    PROVE  TalkInv'
<1> USE DEF TalkInv
<1>1. /\ UNCHANGED <<turn, msg, pending, action, bot, left, queue, pump, fired, mon, heard>>
      /\ main' = main \/ main' = "over"
      /\ tts' \in {tts, "closed", "broken"}
      /\ cut' \in BOOLEAN /\ audio' \in BOOLEAN /\ asr' \in BOOLEAN /\ ctxDone' \in BOOLEAN
  BY DEF TtsBreaks, AudioEnds, AsrCloses, CtxDone, LoopEnds, TurnTypeOK, botVars, monVars
<1>2. TurnTypeOK'
  BY <1>1 DEF TurnTypeOK
<1>3. SentencesCounted' /\ PumpSaysAll' /\ FiredIsMute'
  BY <1>1 DEF SentencesCounted, PumpSaysAll, FiredIsMute
<1>4. HeardNow' /\ FiredHasText' /\ PendingIsFresh' /\ MessageIsFresh'
  BY <1>1 DEF HeardNow, FiredHasText, FiredTurnHasTranscript, PendingIsFresh,
     MessageIsFresh, Speaking
<1> QED BY <1>2, <1>3, <1>4

\* The monitor replaces what it heard by something said in the same turn.
LEMMA MonitorKeeps ==
    ASSUME TalkInv,
           \/ \E t \in SpokenNow \cup {NoText}, f \in BOOLEAN : AsrResult(t, f)
           \/ WatcherEnds
    PROVE  TalkInv'
<1> USE DEF TalkInv
<1>1. UNCHANGED <<main, turn, msg, pending, botVars, tts, audio, fired, asr, ctxDone>>
  BY DEF AsrResult, WatcherEnds
<1> DEFINE Now == SpokenNow \cup {NoText}
<1>2. /\ mon' \in {"off", "pre", "post", "ended"}
      /\ heard' \in [last : Text \cup {NoText}, captured : Text \cup {NoText},
                     final : Text \cup {NoText}]
      /\ HeardNow'
      /\ heard.captured # NoText => heard'.captured # NoText
  <2>1. \A t \in Now : t \in Text \cup {NoText} /\ (t # NoText => t.turn = turn)
    BY DEF SpokenNow, Text, TurnTypeOK
  <2>2. CASE WatcherEnds
    BY <2>2, <1>1 DEF WatcherEnds, TurnTypeOK, HeardNow
  <2>3. ASSUME NEW t \in Now, NEW f \in BOOLEAN, AsrResult(t, f) PROVE <1>2
    <3> DEFINE last == IF t # NoText THEN t ELSE heard.last
               seen == [heard EXCEPT !.last = last]
               final == FinalText(t, last)
    <3>1. /\ last \in Text \cup {NoText} /\ (last # NoText => last.turn = turn)
          /\ heard.captured # NoText => last # NoText
      BY <2>1, <2>3 DEF TurnTypeOK, HeardNow
    <3>2. final = last
      BY DEF FinalText
    <3>3. /\ seen.last = last /\ seen.captured = heard.captured /\ seen.final = heard.final
          /\ seen \in [last : Text \cup {NoText}, captured : Text \cup {NoText},
                       final : Text \cup {NoText}]
      BY <3>1 DEF TurnTypeOK
    <3>4. t.words = "many" => t # NoText
      BY DEF NoText
    <3> HIDE DEF last, seen, final
    <3>5. CASE mon' = mon /\ heard' = seen
      BY <3>1, <3>3, <3>5, <1>1 DEF HeardNow, TurnTypeOK
    <3>6. CASE mon' = "ended" /\ heard' = [seen EXCEPT !.captured = final, !.final = final]
               /\ (mon = "pre" => t.words = "many")
      <4>1. /\ heard'.last = last /\ heard'.captured = last /\ heard'.final = last
            /\ heard' \in [last : Text \cup {NoText}, captured : Text \cup {NoText},
                           final : Text \cup {NoText}]
        BY <3>1, <3>2, <3>3, <3>6
      <4> QED BY <4>1, <3>1, <3>6, <1>1 DEF HeardNow, TurnTypeOK
    <3>7. CASE mon' = "post" /\ mon = "pre" /\ t.words = "many"
               /\ heard' = [seen EXCEPT !.captured = t]
      <4>1. t # NoText /\ last = t
        BY <3>4, <3>7 DEF last
      <4>2. /\ heard'.last = t /\ heard'.captured = t /\ heard'.final = heard.final
            /\ heard' \in [last : Text \cup {NoText}, captured : Text \cup {NoText},
                           final : Text \cup {NoText}]
        BY <2>1, <3>3, <3>7, <4>1
      <4> QED BY <2>1, <4>1, <4>2, <3>7, <1>1 DEF HeardNow, TurnTypeOK
    <3>8. CASE mon' = "post" /\ mon = "post" /\ heard' = seen
      BY <3>1, <3>3, <3>8, <1>1 DEF HeardNow, TurnTypeOK
    <3> QED BY <2>3, <3>5, <3>6, <3>7, <3>8 DEF AsrResult, last, seen, final
  <2> QED BY <2>2, <2>3
<1>3. TurnTypeOK'
  BY <1>1, <1>2 DEF TurnTypeOK, botVars
<1>4. SentencesCounted' /\ PumpSaysAll' /\ FiredIsMute'
  BY <1>1 DEF SentencesCounted, PumpSaysAll, FiredIsMute, botVars
<1>5. FiredHasText' /\ PendingIsFresh' /\ MessageIsFresh'
  BY <1>1, <1>2 DEF FiredHasText, FiredTurnHasTranscript, PendingIsFresh, MessageIsFresh
<1> QED BY <1>2, <1>3, <1>4, <1>5

\* Speak: the chain fires with a transcript, and what it captures is handed on.
LEMMA MainKeeps ==
    ASSUME TalkInv, MainStep
    PROVE  TalkInv'
<1> USE DEF TalkInv, monVars
<1>1. /\ UNCHANGED <<turn, msg, left, queue, pump, audio, action, monVars, ctxDone>>
      /\ main \in Speaking
      /\ bot' \in {bot, "err"} /\ cut' \in BOOLEAN
      /\ tts' \in {tts, "closed"}
  BY DEF MainStep, SelectTrigger, SelectAction, SentencesDone, DrainTrigger, DrainDone,
     PlayTrigger, PlayDone, SpeakCtxDone, CaptureNothing, CaptureFinal, CaptureTimeout,
     Return, TriggerBargeIn, NoTrigger, Speaking, botVars, TurnTypeOK
<1>2. /\ fired' \in BOOLEAN
      /\ fired' /\ ~fired => heard.captured # NoText /\ tts' = "closed"
      /\ fired => fired'
  <2>1. CASE TriggerBargeIn
    BY <2>1 DEF TriggerBargeIn, triggered
  <2>2. CASE UNCHANGED fired
    BY <2>2 DEF TurnTypeOK
  <2> QED
    BY <2>1, <2>2 DEF MainStep, SelectTrigger, SelectAction, SentencesDone, DrainTrigger,
       DrainDone, PlayTrigger, PlayDone, SpeakCtxDone, CaptureNothing, CaptureFinal,
       CaptureTimeout, Return, NoTrigger
<1>3. /\ main' \in Speaking \cup {"idle", "over"}
      /\ main' \in {"drain", "play", "capture"} => ~pump.run
  BY DEF MainStep, SelectTrigger, SelectAction, SentencesDone, DrainTrigger, DrainDone,
     PlayTrigger, PlayDone, SpeakCtxDone, CaptureNothing, CaptureFinal, CaptureTimeout,
     Return, Speaking, PumpSaysAll
<1>4. \/ pending' = pending /\ (main' = "idle" => ~fired')
      \/ main' \in {"idle", "over"} /\ pending' \in {heard.final, heard.captured} \ {NoText}
  <2>1. CASE SelectTrigger \/ SelectAction \/ SentencesDone \/ DrainTrigger \/ DrainDone
             \/ PlayTrigger \/ PlayDone \/ SpeakCtxDone
    BY <2>1 DEF SelectTrigger, SelectAction, SentencesDone, DrainTrigger, DrainDone,
       PlayTrigger, PlayDone, SpeakCtxDone
  <2>2. CASE CaptureNothing
    BY <2>2 DEF CaptureNothing, Return
  <2>3. CASE CaptureFinal
    BY <2>3 DEF CaptureFinal, Return
  <2>4. CASE CaptureTimeout
    BY <2>4, <1>1 DEF CaptureTimeout, Return, FiredHasText
  <2> QED BY <2>1, <2>2, <2>3, <2>4 DEF MainStep
<1>5. pending = NoText
  BY <1>1 DEF PendingIsFresh, Speaking
<1>6. TurnTypeOK'
  BY <1>1, <1>2, <1>3, <1>4 DEF TurnTypeOK
<1>7. SentencesCounted' /\ PumpSaysAll' /\ FiredIsMute'
  BY <1>1, <1>2, <1>3 DEF SentencesCounted, PumpSaysAll, FiredIsMute
<1>8. HeardNow' /\ MessageIsFresh'
  BY <1>1 DEF HeardNow, MessageIsFresh
<1>9. FiredHasText' /\ PendingIsFresh'
  BY <1>1, <1>2, <1>3, <1>4, <1>5 DEF FiredHasText, FiredTurnHasTranscript,
     PendingIsFresh, HeardNow
<1> QED BY <1>6, <1>7, <1>8, <1>9

\* The invariant holds in every reachable state.
LEMMA TalkInvariant == TurnSpec => []TalkInv
<1>1. ASSUME TalkInv, UNCHANGED turnVars PROVE TalkInv'
  BY <1>1 DEF turnVars, botVars, monVars, TalkInv, TurnTypeOK, SentencesCounted,
     PumpSaysAll, FiredIsMute, HeardNow, FiredHasText, FiredTurnHasTranscript,
     PendingIsFresh, MessageIsFresh
<1>2. TalkInv /\ [TurnNext]_turnVars => TalkInv'
  BY <1>1, SpeakKeeps, SentencesKeep, StreamsKeep, MonitorKeeps, MainKeeps
     DEF TurnNext, CallOver
<1> QED BY <1>2, TurnInitInv, PTL DEF TurnSpec

\* Types, and text for every interrupted turn: after an empty final, a closed
\* ASR stream or a timeout RunTurn does not listen again to what it has heard.
THEOREM InterruptedHasText == TurnSpec => []TurnInv
<1>1. TalkInv => TurnInv
  BY DEF TalkInv, TurnInv, FiredHasText
<1> QED BY <1>1, TalkInvariant, PTL

\* A transcript is posted in the turn after the one it was heard in, once.
THEOREM FreshMessages == TurnSpec => []MessageIsFresh
<1>1. TalkInv => MessageIsFresh
  BY DEF TalkInv
<1> QED BY <1>1, TalkInvariant, PTL

\* An answer that nothing interrupted reaches TTS to its last sentence before
\* Speak waits for the audio, whatever the channel's capacity.
THEOREM AnswersAreWhole == TurnSpec => []WholeAnswerSpoken
<1>1. TalkInv => WholeAnswerSpoken
  BY DEF TalkInv, PumpSaysAll, WholeAnswerSpoken
<1> QED BY <1>1, TalkInvariant, PTL

\* After a barge-in no sentence of the interrupted answer goes to TTS.
THEOREM BargedIsSilent == TurnSpec => SilentAfterBarge
<1>1. TalkInv /\ [TurnNext]_turnVars
        => [fired /\ turn' = turn => pump'.sent = pump.sent]_turnVars
  <2> SUFFICES ASSUME TalkInv, TurnNext, fired, turn' = turn
               PROVE  pump'.sent = pump.sent
    OBVIOUS
  <2>1. tts # "open" /\ turn \in Nat
    BY DEF TalkInv, FiredIsMute, TurnTypeOK
  <2>2. CASE PumpStep
    BY <2>1, <2>2 DEF PumpStep, PumpSentence, PumpEnds, TalkInv, TurnTypeOK
  <2>3. CASE Greeting \/ PendingTurn \/ ListenTurn
    BY <2>1, <2>3 DEF Greeting, PendingTurn, ListenTurn, Speak
  <2>4. CASE BotStep \/ MainStep \/ LoopEnds \/ CallOver
    BY <2>4 DEF BotStep, BotSentence, BotEnds, MainStep, SelectTrigger, SelectAction,
       SentencesDone, DrainTrigger, DrainDone, PlayTrigger, PlayDone, SpeakCtxDone,
       CaptureNothing, CaptureFinal, CaptureTimeout, Return, LoopEnds, CallOver,
       turnVars, botVars
  <2>5. CASE \/ TtsBreaks \/ AudioEnds \/ AsrCloses \/ WatcherEnds \/ CtxDone
             \/ \E t \in SpokenNow \cup {NoText}, f \in BOOLEAN : AsrResult(t, f)
    BY <2>5 DEF TtsBreaks, AudioEnds, AsrCloses, WatcherEnds, CtxDone, AsrResult, botVars
  <2> QED BY <2>2, <2>3, <2>4, <2>5 DEF TurnNext
<1> QED BY <1>1, TalkInvariant, PTL DEF TurnSpec, SilentAfterBarge
=============================================================================
