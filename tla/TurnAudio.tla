----------------------------- MODULE TurnAudio -----------------------------
(***************************************************************************)
(* What the caller hears during one Pipeline.Speak on the live path: the   *)
(* filler controller (filler_ctrl.go), the goroutine that drains TTS audio *)
(* into a FIFO opened on the first frame (turn.go), Speak itself with      *)
(* triggerBargeIn and its defers, the playbackStops registry               *)
(* (session_runner.go) and FreeSWITCH's broadcast queue (external).  All   *)
(* three threads can issue "uuid_break all", which empties the whole queue.*)
(***************************************************************************)
EXTENDS Integers, Sequences, FiniteSets, SequencesExt

CONSTANTS Filler,     \* newFillerController's "wanted"
          BargeIn,    \* the barge-in monitor is running
          ApiErrors,  \* an ESL API call may return an error
          MaxFrames   \* bound: frames TTS sends in the turn

ASSUME TurnAudioAssumption ==
    /\ Filler \in BOOLEAN /\ BargeIn \in BOOLEAN /\ ApiErrors \in BOOLEAN
    /\ MaxFrames \in Nat

VARIABLES
    pc,        \* where each thread is
    resolver,  \* the decider has a label resolver to wait for
    stopped,   \* fillerController.stopped (its context is canceled too)
    stopFn,    \* fillerController.stopFn is set
    firstSent, \* firstSentenceCh is closed
    frames,    \* [sent, buf, end]: AudioChan of the TTS stream
    ttsClosed, \* ttsStream.Close was called, or its context is done
    sink,      \* the utterance's FIFO: "none", "open" or "closed"
    barge,     \* [triggered, fired]: triggerCh is closed; bargeFired
    regs,      \* playbackStops: playbacks with a registered handle
    done,      \* handles whose done channel is closed
    fsq,       \* external: FreeSWITCH's queue for the channel, head playing
    stops,     \* external: PLAYBACK_STOP events not yet handled
    line,      \* "up", "down" (hung up) or "seen" (ctx is done as well)
    late,      \* external: calls that returned an error and may still be run
    failed     \* history: calls that returned an error

ctrlVars == <<resolver, stopped, stopFn, firstSent>>
ttsVars == <<frames, ttsClosed, sink, barge>>
playVars == <<regs, done>>
fsVars == <<fsq, stops, line, late, failed>>
audioVars == <<pc, ctrlVars, ttsVars, playVars, fsVars>>

Thread == {"dec", "aud", "main"}
Playback == {"filler", "tts"}

\* The API calls of one turn: the two broadcasts, and the uuid_break of the
\* filler's stop() and of triggerBargeIn.
Call == Playback \cup {"stop", "barge"}

\* "break" and "wait" are inside the filler's stop(), "lock" is before c.mu.
DecPc  == {"off", "deciding", "play", "lock", "break", "wait", "exit"}
AudPc  == {"off", "recv", "lock", "break", "wait", "resolve", "opening",
           "write", "end"}
MainPc == {"setup", "stream", "drain", "playwait", "lock", "break", "wait",
           "close", "returned"}

\* What follows the filler's stop() in each thread.
After == [dec |-> "exit", aud |-> "resolve", main |-> "close"]

Goto(t, label) == pc' = [pc EXCEPT ![t] = label]
Head1(q) == {q[i] : i \in DOMAIN q \cap {1}}

AudioInit ==
    /\ pc = [dec |-> IF Filler THEN "deciding" ELSE "off",
             aud |-> "off", main |-> "setup"]
    /\ resolver \in BOOLEAN
    /\ stopped = FALSE /\ stopFn = FALSE /\ firstSent = FALSE
    /\ frames = [sent |-> 0, buf |-> 0, end |-> FALSE]
    /\ ttsClosed = FALSE
    /\ sink = "none"
    /\ barge = [triggered |-> FALSE, fired |-> FALSE]
    /\ regs = {} /\ done = {}
    /\ fsq = <<>> /\ stops = {}
    /\ line = "up"
    /\ late = {} /\ failed = {}

---------------------------------------------------------------------------
(* External: FreeSWITCH.  A broadcast to a channel that is gone answers    *)
(* -ERR in the body, which PlayAudio does not look at.  An error may be     *)
(* SendAPI's 5 s timeout: FreeSWITCH has the command and may run it yet.   *)

CallFails(call) ==
    /\ ApiErrors
    /\ failed' = failed \cup {call}
    /\ late' = late \cup {call}
    /\ UNCHANGED <<fsq, stops>>

\* PlayAudio(path): the handle is registered before the command is sent and
\* dropped after an error.
PlayAudio(k, ok) ==
    /\ \/ /\ ok
          /\ regs' = regs \cup {k}
          /\ fsq' = IF line = "up" THEN Append(fsq, k) ELSE fsq
          /\ UNCHANGED <<stops, late, failed>>
       \/ ~ok /\ CallFails(k) /\ UNCHANGED regs
    /\ UNCHANGED <<done, line>>

\* uuid_break <uuid> all, when it is run.  Only the playback that had started
\* gets a PLAYBACK_STOP.
Emptied == fsq' = <<>> /\ stops' = stops \cup Head1(fsq)

StopPlayback(call) ==
    \/ Emptied /\ UNCHANGED <<late, failed>>
    \/ CallFails(call)

\* A call whose caller gave it up is run after all.  Who starts the TTS playback
\* now has it wait for a writer of the FIFO until it is broken: the opener has
\* removed the file.
FsRunsLate(call) ==
    /\ call \in late /\ line = "up"
    /\ late' = late \ {call}
    /\ IF call \in Playback THEN fsq' = Append(fsq, call) /\ UNCHANGED stops ELSE Emptied
    /\ UNCHANGED <<pc, ctrlVars, ttsVars, playVars, line, failed>>

\* The head of the queue ends: a filler at its end, a FIFO at EOF.
FsPlaybackEnds ==
    /\ fsq # <<>>
    /\ Head(fsq) = "tts" => sink = "closed"
    /\ fsq' = Tail(fsq)
    /\ stops' = stops \cup Head1(fsq)
    /\ UNCHANGED <<pc, ctrlVars, ttsVars, playVars, line, late, failed>>

FsHangup ==
    /\ line = "up"
    /\ line' = "down"
    /\ Emptied
    /\ UNCHANGED <<pc, ctrlVars, ttsVars, playVars, late, failed>>

\* CHANNEL_HANGUP reaches the session and its context is canceled; the TTS
\* stream's watchCtx closes the connection.
CtxDone ==
    /\ line = "down"
    /\ line' = "seen"
    /\ ttsClosed' = TRUE
    /\ UNCHANGED <<pc, ctrlVars, frames, sink, barge, playVars, fsq, stops,
                   late, failed>>

---------------------------------------------------------------------------
(* onPlaybackStop.                                                         *)

\* A bug: match by call uuid, so any stop of the channel finds every handle.
StopMatches_ByUUID(k) == regs

StopMatches(k) == regs \cap {k}

PlaybackStop(k) ==
    /\ k \in stops
    /\ stops' = stops \ {k}
    /\ done' = done \cup StopMatches(k)
    /\ regs' = regs \ StopMatches(k)
    /\ UNCHANGED <<pc, ctrlVars, ttsVars, fsq, line, late, failed>>

---------------------------------------------------------------------------
(* The filler's stop(), run by whichever thread got hold of it.            *)

StopBreak(t) ==
    /\ pc[t] = "break"
    /\ StopPlayback("stop")
    /\ Goto(t, "wait")
    /\ UNCHANGED <<ctrlVars, ttsVars, playVars, line>>

\* PLAYBACK_STOP, or 1.5 s without one; the handle is dropped.
StopWaited(t) ==
    /\ pc[t] = "wait"
    /\ regs' = regs \ {"filler"}
    /\ Goto(t, After[t])
    /\ UNCHANGED <<ctrlVars, ttsVars, done, fsVars>>

---------------------------------------------------------------------------
(* The decider goroutine.  It holds c.mu while it runs stop().             *)

MuFree == pc["dec"] \notin {"break", "wait"}

DecideSkip ==
    /\ pc["dec"] = "deciding"
    /\ firstSent \/ stopped \/ line = "seen"
    /\ Goto("dec", "exit")
    /\ UNCHANGED <<ctrlVars, ttsVars, playVars, fsVars>>

\* A label arrived or the resolver took too long; without a resolver, only
\* when nothing else is ready.
DecidePlay ==
    /\ pc["dec"] = "deciding"
    /\ resolver \/ ~(firstSent \/ stopped \/ line = "seen")
    /\ Goto("dec", "play")
    /\ UNCHANGED <<ctrlVars, ttsVars, playVars, fsVars>>

\* Filler.Play: no file to play, a failed broadcast, or a queued filler.
FillerPlay ==
    /\ pc["dec"] = "play"
    /\ \/ /\ Goto("dec", "exit")
          /\ UNCHANGED <<playVars, fsVars>>
       \/ /\ PlayAudio("filler", FALSE)
          /\ Goto("dec", "exit")
       \/ /\ PlayAudio("filler", TRUE)
          /\ Goto("dec", "lock")
    /\ UNCHANGED <<ctrlVars, ttsVars>>

\* A bug: the decider does not look at stopped again after Play.
DecideLock_NoRecheck ==
    /\ pc["dec"] = "lock"
    /\ Goto("dec", "exit") /\ stopFn' = TRUE
    /\ UNCHANGED <<resolver, stopped, firstSent, ttsVars, playVars, fsVars>>

DecideLock ==
    /\ pc["dec"] = "lock"
    /\ IF stopped THEN Goto("dec", "break") /\ UNCHANGED stopFn
                  ELSE Goto("dec", "exit") /\ stopFn' = TRUE
    /\ UNCHANGED <<resolver, stopped, firstSent, ttsVars, playVars, fsVars>>

---------------------------------------------------------------------------
(* fillerController.Cancel, by the audio goroutine and by Speak's defer.   *)

\* The first call takes stopFn and cancels the decider; later ones return.
Cancel(t) ==
    /\ t \in {"aud", "main"}
    /\ pc[t] = "lock" /\ MuFree
    /\ stopped' = TRUE
    /\ stopFn' = FALSE
    /\ Goto(t, IF ~stopped /\ stopFn THEN "break" ELSE After[t])
    /\ UNCHANGED <<resolver, firstSent, ttsVars, playVars, fsVars>>

---------------------------------------------------------------------------
(* External: the TTS provider and the bot.  A closed stream still hands    *)
(* over the frame it has buffered.                                         *)

TtsFrame ==
    /\ pc["main"] \notin {"setup", "returned"}
    /\ frames.sent < MaxFrames /\ frames.buf = 0 /\ ~frames.end /\ ~ttsClosed
    /\ frames' = [frames EXCEPT !.sent = @ + 1, !.buf = 1]
    /\ UNCHANGED <<pc, ctrlVars, ttsClosed, sink, barge, playVars, fsVars>>

\* The last frame was sent, or the connection is gone.
TtsEnds ==
    /\ pc["aud"] # "off" /\ ~frames.end
    /\ frames' = [frames EXCEPT !.end = TRUE]
    /\ UNCHANGED <<pc, ctrlVars, ttsClosed, sink, barge, playVars, fsVars>>

\* The sentence pump got a sentence: the filler is not worth starting.
FirstSentence ==
    /\ pc["main"] = "stream" /\ ~firstSent
    /\ firstSent' = TRUE
    /\ UNCHANGED <<pc, resolver, stopped, stopFn, ttsVars, playVars, fsVars>>

\* The monitor heard enough words.
Trigger ==
    /\ BargeIn /\ ~barge.triggered
    /\ pc["main"] \notin {"close", "returned"}
    /\ barge' = [barge EXCEPT !.triggered = TRUE]
    /\ UNCHANGED <<pc, ctrlVars, frames, ttsClosed, sink, playVars, fsVars>>

---------------------------------------------------------------------------
(* The audio goroutine.                                                    *)

AudFrame ==
    /\ pc["aud"] = "recv" /\ frames.buf = 1
    /\ frames' = [frames EXCEPT !.buf = 0]
    /\ Goto("aud", IF sink = "none" THEN "lock" ELSE "write")
    /\ UNCHANGED <<ctrlVars, ttsClosed, sink, barge, playVars, fsVars>>

AudDrained ==
    /\ pc["aud"] = "recv" /\ frames.buf = 0 /\ frames.end
    /\ Goto("aud", "end")
    /\ UNCHANGED <<ctrlVars, ttsVars, playVars, fsVars>>

\* makePlaybackOpener up to the open: mkfifo, register, uuid_broadcast.
AudResolve ==
    /\ pc["aud"] = "resolve"
    /\ \/ PlayAudio("tts", TRUE) /\ Goto("aud", "opening")
       \/ PlayAudio("tts", FALSE) /\ Goto("aud", "end")
    /\ UNCHANGED <<ctrlVars, ttsVars>>

\* OpenFIFOForWrite blocks until FreeSWITCH has the FIFO open for reading.
AudOpened ==
    /\ pc["aud"] = "opening"
    /\ "tts" \in Head1(fsq)
    /\ sink' = "open"
    /\ Goto("aud", "write")
    /\ UNCHANGED <<ctrlVars, frames, ttsClosed, barge, playVars, fsVars>>

\* A write fails once nobody reads the FIFO or Speak's defer closed it.
AudWrite ==
    /\ pc["aud"] = "write"
    /\ Goto("aud", IF Contains(fsq, "tts") /\ sink = "open" THEN "recv"
                                                            ELSE "end")
    /\ UNCHANGED <<ctrlVars, ttsVars, playVars, fsVars>>

---------------------------------------------------------------------------
(* Speak.                                                                  *)

SpeakStarts ==
    /\ pc["main"] = "setup"
    /\ pc' = [pc EXCEPT !["main"] = "stream", !["aud"] = "recv"]
    /\ UNCHANGED <<ctrlVars, ttsVars, playVars, fsVars>>

\* Bot.Stream or TTS.StartStream failed: nothing but the decider runs.
SpeakSetupFails ==
    /\ pc["main"] = "setup"
    /\ Goto("main", "lock")
    /\ UNCHANGED <<ctrlVars, ttsVars, playVars, fsVars>>

\* triggerBargeIn: a no-op the second time.
TriggerBargeIn ==
    /\ barge.triggered /\ ~barge.fired
    /\ barge' = [barge EXCEPT !.fired = TRUE]
    /\ ttsClosed' = TRUE
    /\ StopPlayback("barge")
    /\ UNCHANGED <<ctrlVars, frames, sink, playVars, line>>

\* Close of the sink handle: FreeSWITCH reads EOF.
CloseSink == sink' = IF sink = "open" THEN "closed" ELSE sink

\* The trigger is seen while the bot streams; Action() is still awaited.
SpeakBargedInStream ==
    /\ pc["main"] = "stream"
    /\ TriggerBargeIn
    /\ UNCHANGED pc

\* Action() and the sentence pump are done; a trigger that is already there
\* runs the chain now.
SpeakBotDone ==
    /\ pc["main"] = "stream"
    /\ Goto("main", "drain")
    /\ \/ TriggerBargeIn
       \/ /\ ~barge.triggered \/ barge.fired
          /\ UNCHANGED <<ctrlVars, ttsVars, playVars, fsVars>>

\* Action() returned an error: Speak's defers run, ttsStream.Close first.
SpeakBotFails ==
    /\ pc["main"] = "stream"
    /\ ttsClosed' = TRUE
    /\ Goto("main", "lock")
    /\ UNCHANGED <<ctrlVars, frames, sink, barge, playVars, fsVars>>

SpeakBargedInDrain ==
    /\ pc["main"] = "drain"
    /\ TriggerBargeIn
    /\ UNCHANGED pc

\* The audio goroutine has ended: close the sink and wait for FreeSWITCH,
\* unless the turn was barged or never had a sink.
SpeakDrained ==
    /\ pc["main"] = "drain" /\ pc["aud"] = "end"
    /\ IF ~barge.fired /\ sink # "none"
       THEN CloseSink /\ Goto("main", "playwait") /\ UNCHANGED ttsClosed
       ELSE ttsClosed' = TRUE /\ Goto("main", "lock") /\ UNCHANGED sink
    /\ UNCHANGED <<ctrlVars, frames, barge, playVars, fsVars>>

\* A bug: the playback wait has no deadline.
SpeakPlayed_NoDeadline ==
    /\ pc["main"] = "playwait" /\ "tts" \in done
    /\ ttsClosed' = TRUE
    /\ Goto("main", "lock")
    /\ UNCHANGED <<ctrlVars, frames, sink, barge, playVars, fsVars>>

\* PLAYBACK_STOP came, or the deadline passed without one.
SpeakPlayed ==
    /\ pc["main"] = "playwait"
    /\ ttsClosed' = TRUE
    /\ Goto("main", "lock")
    /\ UNCHANGED <<ctrlVars, frames, sink, barge, playVars, fsVars>>

SpeakBargedInPlaywait ==
    /\ pc["main"] = "playwait"
    /\ TriggerBargeIn
    /\ Goto("main", "lock")

\* A bug: the drain does not watch ctx.Done.
SpeakCtxDone_OnlyPlaywait ==
    /\ pc["main"] = "playwait" /\ line = "seen"
    /\ ttsClosed' = TRUE
    /\ Goto("main", "lock")
    /\ UNCHANGED <<ctrlVars, frames, sink, barge, playVars, fsVars>>

\* The selects of the drain and of the playback wait also watch ctx.Done.
SpeakCtxDone ==
    /\ pc["main"] \in {"drain", "playwait"} /\ line = "seen"
    /\ ttsClosed' = TRUE
    /\ Goto("main", "lock")
    /\ UNCHANGED <<ctrlVars, frames, sink, barge, playVars, fsVars>>

\* The outermost defer: close the sink if it is there.
SpeakReturns ==
    /\ pc["main"] = "close"
    /\ CloseSink
    /\ Goto("main", "returned")
    /\ UNCHANGED <<ctrlVars, frames, ttsClosed, barge, playVars, fsVars>>

SpeakStep ==
    \/ SpeakStarts \/ SpeakSetupFails
    \/ SpeakBargedInStream \/ SpeakBotDone \/ SpeakBotFails
    \/ SpeakBargedInDrain \/ SpeakDrained
    \/ SpeakPlayed \/ SpeakBargedInPlaywait
    \/ SpeakCtxDone \/ SpeakReturns
    \/ Cancel("main") \/ StopBreak("main") \/ StopWaited("main")

AudStep ==
    \/ AudFrame \/ AudDrained \/ AudResolve \/ AudOpened \/ AudWrite
    \/ Cancel("aud") \/ StopBreak("aud") \/ StopWaited("aud")

DecStep ==
    \/ DecideSkip \/ DecidePlay \/ FillerPlay \/ DecideLock
    \/ StopBreak("dec") \/ StopWaited("dec")

\* Speak returned and the goroutines it started are gone, or stuck.
TurnOver ==
    /\ pc["main"] = "returned"
    /\ pc["dec"] \in {"off", "exit"}
    /\ pc["aud"] \in {"off", "opening", "end"}
    /\ UNCHANGED audioVars

AudioNext ==
    \/ SpeakStep \/ AudStep \/ DecStep \/ TurnOver
    \/ TtsFrame \/ TtsEnds \/ FirstSentence \/ Trigger
    \/ FsPlaybackEnds \/ FsHangup \/ CtxDone
    \/ \E k \in Playback : PlaybackStop(k)
    \/ \E call \in Call : FsRunsLate(call)

AudioSpec == AudioInit /\ [][AudioNext]_audioVars

\* Threads run; the provider ends every stream it started, the bot's request
\* has a total timeout, FreeSWITCH plays what it has and reports a hangup.
\* Nothing makes the caller speak or hang up.
FairAudioSpec ==
    /\ AudioSpec
    /\ WF_audioVars(SpeakStep) /\ WF_audioVars(AudStep)
    /\ WF_audioVars(DecStep)
    /\ WF_audioVars(TtsEnds) /\ WF_audioVars(FsPlaybackEnds)
    /\ WF_audioVars(CtxDone)

---------------------------------------------------------------------------
(* Properties.                                                             *)

\* Every variable keeps its type; a channel has at most one filler and one
\* TTS playback of the turn in its queue.
AudioTypeOK ==
    /\ pc \in [Thread -> DecPc \cup AudPc \cup MainPc]
    /\ pc["dec"] \in DecPc /\ pc["aud"] \in AudPc /\ pc["main"] \in MainPc
    /\ resolver \in BOOLEAN /\ stopped \in BOOLEAN /\ stopFn \in BOOLEAN
    /\ firstSent \in BOOLEAN
    /\ frames \in [sent : 0..MaxFrames, buf : {0, 1}, end : BOOLEAN]
    /\ ttsClosed \in BOOLEAN
    /\ sink \in {"none", "open", "closed"}
    /\ barge \in [triggered : BOOLEAN, fired : BOOLEAN]
    /\ regs \subseteq Playback /\ done \subseteq Playback
    /\ fsq \in Seq(Playback) /\ IsInjective(fsq)
    /\ stops \subseteq Playback
    /\ line \in {"up", "down", "seen"}
    /\ late \subseteq failed /\ failed \subseteq Call

\* Once Cancel ran, a filler that Play reported as started and FreeSWITCH still
\* has queued is about to be broken by exactly the thread that owns its stop():
\* Cancel arriving while Play is on its way leaves no filler playing over the
\* answer (filler_ctrl.go 122-128), whatever barge-in's own uuid_break does.
\* Only the stop()'s own uuid_break can, if it fails.
FillerHasStopper ==
    stopped /\ Contains(fsq, "filler") =>
        \/ failed \cap {"filler", "stop"} # {}
        \/ pc["dec"] = "lock" \/ \E t \in Thread : pc[t] = "break"

\* The filler's stop() runs at most once and in one thread: three callers
\* compete for it and a second uuid_break would empty the queue again.
OneStopper ==
    Cardinality({t \in Thread : pc[t] \in {"break", "wait"}}) <= 1

\* The types of the module, and one stop for every filler that is canceled.
AudioInv == AudioTypeOK /\ FillerHasStopper /\ OneStopper

\* A handle is done only when its own playback is over, although every stop
\* of the channel reaches the same handler (session_runner.go 72-75): Speak
\* does not return from its playback wait on the filler's PLAYBACK_STOP.
DoneMeansOver == \A k \in done : ~Contains(fsq, k)

\* Once Cancel ran, a queued filler is about to be broken or its uuid_break
\* failed: not when the uuid_broadcast timed out, Play had no stop() to return,
\* and FreeSWITCH runs it.
FillerAlwaysStopped ==
    stopped /\ Contains(fsq, "filler") =>
        \/ "stop" \in failed
        \/ pc["dec"] = "lock" \/ \E t \in Thread : pc[t] = "break"

\* When the session's context is done, Speak returns, whatever its threads
\* and FreeSWITCH were in the middle of.
HangupEndsSpeak == line = "seen" ~> pc["main"] = "returned"

\* The only way Speak fails to return is an audio goroutine inside the open
\* of a FIFO that FreeSWITCH no longer has queued.
StuckOnlyInOpen ==
    <>(pc["main"] = "returned")
    \/ <>[](pc["aud"] = "opening" /\ ~Contains(fsq, "tts"))

\* The filler's stop() is there so that the next TTS open is not deadlocked
\* (session_runner.go 147-148): while the call is up, an open that began ends.
TtsOpens == pc["aud"] = "opening" ~> (pc["aud"] # "opening" \/ line # "up")

=============================================================================
