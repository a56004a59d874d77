-------------------------- MODULE TurnAudioProofs --------------------------
(* Who may break whose playback in one Speak, for any number of frames, with  *)
(* and without filler, barge-in and failing API calls, in every interleaving  *)
(* of the decider, the audio goroutine and Speak.                             *)
EXTENDS TurnAudio, FiniteSetTheorems, TLAPS

USE TurnAudioAssumption

---------------------------------------------------------------------------
(* The inductive invariant.                                                  *)

Stopping(t) == pc[t] \in {"break", "wait"}

\* The filler's stop() has one owner: the decider until it hands it over in
\* stopFn, then the first Cancel; nobody runs it before stopped is set.
OneOwner ==
    /\ stopFn => ~stopped /\ pc["dec"] = "exit"
    /\ \A t \in Thread : Stopping(t) => /\ stopped
                                        /\ t # "dec" => pc["dec"] = "exit"
    /\ \A t, u \in Thread : Stopping(t) /\ Stopping(u) => t = u

\* A queued filler has the decider, stopFn or a running stop() to end it.
FillerOwned ==
    Contains(fsq, "filler") =>
        \/ failed \cap {"filler", "stop"} # {} \/ stopFn \/ pc["dec"] = "lock"
        \/ \E t \in Thread : pc[t] = "break"

\* FreeSWITCH was told to play k: it has it queued, has ended it, or may start it.
Used(k) == Contains(fsq, k) \/ k \in stops \/ k \in done \/ k \in late

\* Each playback is started once: the filler before the decider locks c.mu,
\* the FIFO before the sink is opened.
OncePlayed ==
    /\ Used("filler") => pc["dec"] \in {"lock", "break", "wait", "exit"}
    /\ Used("tts") => \/ pc["aud"] \in {"opening", "write", "end"}
                      \/ pc["aud"] = "recv" /\ sink # "none"
    /\ pc["aud"] = "write" => sink # "none"
    /\ pc["main"] = "setup" => pc["aud"] = "off"

\* What has ended is in the queue no more, and what may be started is not yet.
EndedIsGone ==
    /\ \A k \in stops \cup done \cup late : ~Contains(fsq, k)
    /\ \A k \in late : k \notin stops \cup done

\* The threads are where the code says.
PcOK ==
    /\ pc \in [Thread -> DecPc \cup AudPc \cup MainPc]
    /\ pc["dec"] \in DecPc /\ pc["aud"] \in AudPc /\ pc["main"] \in MainPc

SpeakInv == AudioTypeOK /\ OneOwner /\ FillerOwned /\ OncePlayed /\ EndedIsGone

---------------------------------------------------------------------------
(* FreeSWITCH's queue.                                                       *)

\* The empty queue plays nothing.
LEMMA EmptyQueue ==
    /\ <<>> \in Seq(Playback) /\ IsInjective(<<>>)
    /\ \A k : ~Contains(<<>>, k)
BY DEF IsInjective, Contains

\* A playback that was not queued before is queued once.
LEMMA AppendQueue ==
    ASSUME NEW q \in Seq(Playback), IsInjective(q), NEW k \in Playback, ~Contains(q, k)
    PROVE  /\ Append(q, k) \in Seq(Playback) /\ IsInjective(Append(q, k))
           /\ \A j : Contains(Append(q, k), j) => j = k \/ Contains(q, j)
<1>1. /\ Append(q, k) \in Seq(Playback) /\ Len(Append(q, k)) = Len(q) + 1 /\ Len(q) \in Nat
      /\ \A i \in 1 .. Len(q) : Append(q, k)[i] = q[i]
      /\ Append(q, k)[Len(q) + 1] = k
  OBVIOUS
<1>2. \A j : Contains(Append(q, k), j) => j = k \/ Contains(q, j)
  BY <1>1 DEF Contains
<1>3. \A i \in 1 .. Len(q) : q[i] # k
  BY DEF Contains
<1>4. DOMAIN q = 1 .. Len(q) /\ DOMAIN Append(q, k) = 1 .. Len(q) + 1
  BY <1>1
<1>5. IsInjective(Append(q, k))
  <2> SUFFICES ASSUME NEW a \in 1 .. Len(q) + 1, NEW b \in 1 .. Len(q) + 1,
                      Append(q, k)[a] = Append(q, k)[b]
               PROVE  a = b
    BY <1>4 DEF IsInjective
  <2>1. CASE a \in 1 .. Len(q) /\ b \in 1 .. Len(q)
    BY <1>1, <1>4, <2>1 DEF IsInjective
  <2>2. CASE a = Len(q) + 1 \/ b = Len(q) + 1
    BY <1>1, <1>3, <2>2
  <2> QED BY <1>1, <2>1, <2>2
<1> QED BY <1>1, <1>2, <1>5

\* When the head has ended it is queued no more.
LEMMA TailQueue ==
    ASSUME NEW q \in Seq(Playback), IsInjective(q), q # <<>>
    PROVE  /\ Tail(q) \in Seq(Playback) /\ IsInjective(Tail(q))
           /\ \A j : Contains(Tail(q), j) => Contains(q, j) /\ j # Head(q)
<1>1. /\ Tail(q) \in Seq(Playback) /\ Len(q) \in Nat \ {0} /\ Len(Tail(q)) = Len(q) - 1
      /\ \A i \in 1 .. Len(q) - 1 : Tail(q)[i] = q[i + 1]
      /\ Head(q) = q[1]
  OBVIOUS
<1>2. DOMAIN q = 1 .. Len(q) /\ DOMAIN Tail(q) = 1 .. Len(q) - 1
  BY <1>1
<1>3. IsInjective(Tail(q))
  <2> SUFFICES ASSUME NEW a \in 1 .. Len(q) - 1, NEW b \in 1 .. Len(q) - 1,
                      Tail(q)[a] = Tail(q)[b]
               PROVE  a = b
    BY <1>2 DEF IsInjective
  <2>1. q[a + 1] = q[b + 1] /\ a + 1 \in 1 .. Len(q) /\ b + 1 \in 1 .. Len(q)
    BY <1>1
  <2>2. a + 1 = b + 1
    BY <1>2, <2>1 DEF IsInjective
  <2> QED BY <2>2
<1>4. ASSUME NEW i \in 1 .. Len(q) - 1
      PROVE  Contains(q, Tail(q)[i]) /\ Tail(q)[i] # Head(q)
  <2>1. Tail(q)[i] = q[i + 1] /\ i + 1 \in 1 .. Len(q) /\ 1 \in 1 .. Len(q) /\ i + 1 # 1
    BY <1>1
  <2>2. q[i + 1] # q[1]
    BY <1>2, <2>1 DEF IsInjective
  <2> QED BY <1>1, <2>1, <2>2 DEF Contains
<1> QED BY <1>1, <1>3, <1>4 DEF Contains

\* Head1 is the head, if there is one.
LEMMA HeadQueue ==
    ASSUME NEW q \in Seq(Playback)
    PROVE  /\ Head1(q) \subseteq Playback
           /\ \A j \in Head1(q) : q # <<>> /\ j = Head(q) /\ Contains(q, j)
BY DEF Head1, Contains

---------------------------------------------------------------------------
(* What the steps do to the queue.                                           *)

\* No playback is added, and what is taken from the queue has ended.
QueueShrinks ==
    /\ fsq' \in Seq(Playback) /\ IsInjective(fsq')
    /\ stops' \subseteq Playback /\ done' \subseteq Playback
    /\ late' \subseteq failed' /\ failed' \subseteq Call /\ failed \subseteq failed'
    /\ EndedIsGone'
    /\ \A k : Contains(fsq', k) => Contains(fsq, k)
    /\ (Used("filler")' => Used("filler")) /\ (Used("tts")' => Used("tts"))

\* A step that leaves the queue and its events alone.
LEMMA QueueKept ==
    ASSUME SpeakInv, UNCHANGED <<fsq, stops, done, late, failed>>
    PROVE  QueueShrinks
BY DEF SpeakInv, AudioTypeOK, QueueShrinks, EndedIsGone, Used

\* Emptying the queue ends what was in it.
LEMMA EmptiedShrinks ==
    ASSUME SpeakInv, Emptied, UNCHANGED <<done, failed>>, late' \subseteq late
    PROVE  QueueShrinks /\ \A k : ~Contains(fsq', k)
BY EmptyQueue, HeadQueue DEF Emptied, SpeakInv, AudioTypeOK, QueueShrinks, EndedIsGone, Used

\* A call that fails leaves the queue alone, for now.
LEMMA FailedShrinks ==
    ASSUME SpeakInv, NEW call \in {"stop", "barge"}, CallFails(call), UNCHANGED done
    PROVE  QueueShrinks /\ call \in failed' /\ UNCHANGED fsq
<1>1. call \in Call /\ call \notin Playback
  BY DEF Call, Playback
<1>2. \A q \in Seq(Playback) : ~Contains(q, call)
  BY <1>1 DEF Contains
<1> QED BY <1>1, <1>2 DEF CallFails, SpeakInv, AudioTypeOK, QueueShrinks, EndedIsGone, Used

\* A uuid_break empties the queue, or it fails.
LEMMA BreakShrinks ==
    ASSUME SpeakInv, NEW call \in {"stop", "barge"}, StopPlayback(call), UNCHANGED done
    PROVE  /\ QueueShrinks
           /\ call \in failed' \/ ~Contains(fsq', "filler")
BY EmptiedShrinks, FailedShrinks DEF StopPlayback

\* FreeSWITCH ends a playback or the call; a stop event reaches its handle.
LEMMA SwitchShrinks ==
    ASSUME SpeakInv,
           \/ FsPlaybackEnds \/ FsHangup
           \/ \E k \in Playback : PlaybackStop(k)
           \/ \E call \in {"stop", "barge"} : FsRunsLate(call)
    PROVE  QueueShrinks
<1>1. CASE FsPlaybackEnds
  BY <1>1, TailQueue, HeadQueue
     DEF FsPlaybackEnds, playVars, SpeakInv, AudioTypeOK, QueueShrinks, EndedIsGone, Used
<1>2. CASE FsHangup
  BY <1>2, EmptiedShrinks DEF FsHangup, playVars
<1>3. ASSUME NEW k \in Playback, PlaybackStop(k) PROVE QueueShrinks
  BY <1>3 DEF PlaybackStop, StopMatches, SpeakInv, AudioTypeOK, QueueShrinks, EndedIsGone, Used
<1>4. ASSUME NEW call \in {"stop", "barge"}, FsRunsLate(call) PROVE QueueShrinks
  <2>1. call \notin Playback
    BY DEF Playback
  <2> QED BY <1>4, <2>1, EmptiedShrinks DEF FsRunsLate, playVars
<1> QED BY <1>1, <1>2, <1>3, <1>4

\* A broadcast of what was not told before: queued once, or it may be yet.
LEMMA PlayQueues ==
    ASSUME SpeakInv, NEW k \in Playback, ~Used(k), NEW ok \in BOOLEAN, PlayAudio(k, ok)
    PROVE  /\ UNCHANGED <<stops, done, line>>
           /\ regs' \subseteq Playback /\ fsq' \in Seq(Playback) /\ IsInjective(fsq')
           /\ late' \subseteq failed' /\ failed' \subseteq Call /\ failed \subseteq failed'
           /\ \A j : Contains(fsq', j) => (ok /\ j = k) \/ Contains(fsq, j)
           /\ \A j : Used(j)' => j = k \/ Used(j)
           /\ EndedIsGone'
<1>0. /\ fsq \in Seq(Playback) /\ IsInjective(fsq) /\ regs \subseteq Playback
      /\ late \subseteq failed /\ failed \subseteq Call /\ EndedIsGone /\ k \in Call
      /\ ~Contains(fsq, k) /\ k \notin stops \cup done \cup late
  BY DEF SpeakInv, AudioTypeOK, Used, Call
<1>1. CASE ok
  <2>1. /\ UNCHANGED <<stops, done, line, late, failed>>
        /\ regs' = regs \cup {k} /\ (fsq' = fsq \/ fsq' = Append(fsq, k))
    BY <1>1 DEF PlayAudio
  <2>2. /\ fsq' \in Seq(Playback) /\ IsInjective(fsq')
        /\ \A j : Contains(fsq', j) => j = k \/ Contains(fsq, j)
    <3>1. CASE fsq' = fsq
      BY <1>0, <3>1
    <3>2. CASE fsq' = Append(fsq, k)
      BY <1>0, <3>2, AppendQueue
    <3> QED BY <2>1, <3>1, <3>2
  <2> QED BY <1>0, <1>1, <2>1, <2>2 DEF EndedIsGone, Used
<1>2. CASE ~ok
  <2>1. /\ UNCHANGED <<stops, done, line, regs, fsq>>
        /\ failed' = failed \cup {k} /\ late' = late \cup {k}
    BY <1>2 DEF PlayAudio, CallFails
  <2> QED BY <1>0, <2>1 DEF EndedIsGone, Used
<1> QED BY <1>1, <1>2

---------------------------------------------------------------------------
(* Steps that do not touch the filler's stop().                              *)

\* A thread goes to a place of its own; the others stay.
LEMMA ThreadMoves ==
    ASSUME PcOK, NEW t \in Thread, NEW p, Goto(t, p),
           \/ t = "dec" /\ p \in DecPc
           \/ t = "aud" /\ p \in AudPc
           \/ t = "main" /\ p \in MainPc
    PROVE  PcOK' /\ pc'[t] = p /\ \A u \in Thread \ {t} : pc'[u] = pc[u]
<1>1. pc' = [pc EXCEPT ![t] = p] /\ p \in DecPc \cup AudPc \cup MainPc
  BY DEF Goto
<1>2. pc' \in [Thread -> DecPc \cup AudPc \cup MainPc]
  BY <1>1 DEF PcOK
<1>3. pc'[t] = p /\ \A u \in Thread \ {t} : pc'[u] = pc[u]
  BY <1>1 DEF PcOK
<1>4. {"dec", "aud", "main"} \subseteq Thread
  BY DEF Thread
<1> QED BY <1>2, <1>3, <1>4 DEF PcOK

\* A thread that moves outside stop(), while the decider stays before or after
\* its lock, changes no ownership.
LEMMA OwnerKept ==
    ASSUME SpeakInv, QueueShrinks, UNCHANGED <<stopped, stopFn>>,
           \A t \in Thread : pc'[t] = pc[t] \/ (~Stopping(t) /\ ~Stopping(t)'),
           pc["dec"] \in {"lock", "exit"} => pc'["dec"] = pc["dec"]
    PROVE  OneOwner' /\ FillerOwned' /\ EndedIsGone'
<1>1. OneOwner'
  BY DEF SpeakInv, OneOwner, Stopping, Thread
<1>2. FillerOwned'
  BY DEF SpeakInv, FillerOwned, QueueShrinks, Stopping
<1> QED BY <1>1, <1>2 DEF QueueShrinks

\* Speak's own steps outside of Cancel, and what happens around the threads.
LEMMA SpeakKeeps ==
    ASSUME SpeakInv,
           \/ SpeakStarts \/ SpeakSetupFails \/ SpeakBotDone \/ SpeakBotFails
           \/ SpeakBargedInStream \/ SpeakBargedInDrain \/ SpeakBargedInPlaywait
           \/ SpeakDrained \/ SpeakPlayed \/ SpeakCtxDone \/ SpeakReturns
    PROVE  SpeakInv'
<1> USE DEF Goto, ctrlVars, ttsVars, playVars, fsVars, CloseSink, Thread
<1>0. AudioTypeOK
  BY DEF SpeakInv
<1>1. /\ UNCHANGED <<resolver, stopped, stopFn, firstSent, regs, done, line, frames>>
      /\ ttsClosed' \in BOOLEAN /\ sink' \in {"none", "open", "closed"}
      /\ sink' = "none" <=> sink = "none"
  <2>1. CASE \/ SpeakStarts \/ SpeakSetupFails \/ SpeakBotFails \/ SpeakDrained
             \/ SpeakPlayed \/ SpeakCtxDone \/ SpeakReturns
    BY <1>0, <2>1 DEF SpeakStarts, SpeakSetupFails, SpeakBotFails, SpeakDrained, SpeakPlayed,
       SpeakCtxDone, SpeakReturns, AudioTypeOK
  <2>2. CASE SpeakBotDone \/ SpeakBargedInStream \/ SpeakBargedInDrain \/ SpeakBargedInPlaywait
    BY <1>0, <2>2 DEF SpeakBotDone, SpeakBargedInStream, SpeakBargedInDrain,
       SpeakBargedInPlaywait, TriggerBargeIn, AudioTypeOK
  <2> QED BY <2>1, <2>2
<1>2. /\ PcOK'
      /\ pc'["dec"] = pc["dec"]
      /\ \/ pc'["aud"] = pc["aud"]
         \/ pc["main"] = "setup" /\ pc'["main"] = "stream" /\ pc'["aud"] = "recv"
      /\ \/ pc'["main"] = pc["main"]
         \/ /\ pc["main"] \in {"setup", "stream", "drain", "playwait", "close"}
            /\ pc'["main"] \in {"stream", "drain", "playwait", "lock", "returned"}
  <2>0. PcOK
    BY <1>0 DEF AudioTypeOK, PcOK
  <2>1. CASE SpeakStarts
    <3>1. pc["main"] = "setup" /\ pc' = [pc EXCEPT !["main"] = "stream", !["aud"] = "recv"]
      BY <2>1 DEF SpeakStarts
    <3>2. /\ pc' \in [Thread -> DecPc \cup AudPc \cup MainPc]
          /\ pc'["main"] = "stream" /\ pc'["aud"] = "recv" /\ pc'["dec"] = pc["dec"]
      <4>1. /\ "stream" \in MainPc /\ "recv" \in AudPc
            /\ {"dec", "aud", "main"} \subseteq Thread
        BY DEF MainPc, AudPc
      <4> HIDE DEF Thread
      <4> QED BY <2>0, <3>1, <4>1 DEF PcOK
    <3> QED BY <2>0, <3>1, <3>2 DEF PcOK, MainPc, AudPc
  <2>2. CASE \/ SpeakSetupFails \/ SpeakBotDone \/ SpeakBotFails
             \/ SpeakBargedInPlaywait \/ SpeakDrained \/ SpeakPlayed \/ SpeakCtxDone
             \/ SpeakReturns
    <3>1. /\ pc["main"] \in {"setup", "stream", "drain", "playwait", "close"}
          /\ \E p \in {"drain", "playwait", "lock", "returned"} :
               Goto("main", p)
      BY <2>2 DEF SpeakSetupFails, SpeakBotDone, SpeakBotFails, SpeakBargedInPlaywait,
         SpeakDrained, SpeakPlayed, SpeakCtxDone, SpeakReturns
    <3>2. {"drain", "playwait", "lock", "returned"} \subseteq MainPc
      BY DEF MainPc
    <3> PICK p \in {"drain", "playwait", "lock", "returned"} : Goto("main", p)
      BY <3>1
    <3> HIDE DEF Goto
    <3> QED BY <2>0, <3>1, <3>2, ThreadMoves
  <2>3. CASE SpeakBargedInStream \/ SpeakBargedInDrain
    <3>1. UNCHANGED pc
      BY <2>3 DEF SpeakBargedInStream, SpeakBargedInDrain
    <3> QED BY <2>0, <3>1 DEF PcOK
  <2> QED BY <2>1, <2>2, <2>3
<1>3. /\ QueueShrinks
      /\ barge' \in [triggered : BOOLEAN, fired : BOOLEAN]
  <2>1. CASE UNCHANGED <<barge, fsVars>>
    BY <1>0, <1>1, <2>1, QueueKept DEF AudioTypeOK
  <2>2. CASE TriggerBargeIn
    BY <1>0, <1>1, <2>2, BreakShrinks DEF TriggerBargeIn, AudioTypeOK
  <2> QED
    BY <2>1, <2>2 DEF SpeakStarts, SpeakSetupFails, SpeakBotDone, SpeakBotFails,
       SpeakBargedInStream, SpeakBargedInDrain, SpeakBargedInPlaywait, SpeakDrained,
       SpeakPlayed, SpeakCtxDone, SpeakReturns
<1>4. AudioTypeOK'
  BY <1>0, <1>1, <1>2, <1>3 DEF AudioTypeOK, PcOK, QueueShrinks
<1>5. OneOwner' /\ FillerOwned' /\ EndedIsGone'
  <2>1. \A t \in Thread : pc'[t] = pc[t] \/ (~Stopping(t) /\ ~Stopping(t)')
    BY <1>2 DEF Stopping, SpeakInv, OncePlayed
  <2>2. UNCHANGED <<stopped, stopFn>> /\ (pc["dec"] \in {"lock", "exit"} => pc'["dec"] = pc["dec"])
    BY <1>1, <1>2
  <2> QED BY <1>3, <2>1, <2>2, OwnerKept
<1>6. OncePlayed'
  <2>1. (Used("filler")' => Used("filler")) /\ (Used("tts")' => Used("tts"))
    BY <1>3 DEF QueueShrinks
  <2>2. OncePlayed
    BY DEF SpeakInv
  <2>3. CASE pc'["aud"] = pc["aud"]
    <3>1. pc'["main"] # "setup" \/ pc'["main"] = pc["main"]
      BY <1>2
    <3> QED BY <1>1, <1>2, <2>1, <2>2, <2>3, <3>1 DEF OncePlayed
  <2>4. CASE pc["main"] = "setup" /\ pc'["main"] = "stream" /\ pc'["aud"] = "recv"
    BY <1>1, <1>2, <2>1, <2>2, <2>4 DEF OncePlayed
  <2> QED BY <1>2, <2>3, <2>4
<1> QED BY <1>4, <1>5, <1>6 DEF SpeakInv

\* The TTS provider, the monitor, FreeSWITCH and the session's context.
LEMMA AroundKeeps ==
    ASSUME SpeakInv,
           \/ TtsFrame \/ TtsEnds \/ FirstSentence \/ Trigger
           \/ FsPlaybackEnds \/ FsHangup \/ CtxDone
           \/ \E k \in Playback : PlaybackStop(k)
           \/ \E call \in {"stop", "barge"} : FsRunsLate(call)
    PROVE  SpeakInv'
<1> USE DEF ctrlVars, ttsVars, playVars, fsVars
<1>0. AudioTypeOK
  BY DEF SpeakInv
<1>1. UNCHANGED <<pc, resolver, stopped, stopFn, sink, failed>>
  BY DEF TtsFrame, TtsEnds, FirstSentence, Trigger, FsPlaybackEnds, FsHangup, CtxDone,
     PlaybackStop, FsRunsLate
<1>2. QueueShrinks
  <2>1. CASE TtsFrame \/ TtsEnds \/ FirstSentence \/ Trigger \/ CtxDone
    <3>1. UNCHANGED <<fsq, stops, done, late, failed>>
      BY <2>1 DEF TtsFrame, TtsEnds, FirstSentence, Trigger, CtxDone
    <3> QED BY <3>1, QueueKept
  <2> QED BY <2>1, SwitchShrinks
<1>3. /\ frames' \in [sent : 0 .. MaxFrames, buf : {0, 1}, end : BOOLEAN]
      /\ barge' \in [triggered : BOOLEAN, fired : BOOLEAN]
      /\ firstSent' \in BOOLEAN /\ ttsClosed' \in BOOLEAN
      /\ regs' \subseteq Playback /\ line' \in {"up", "down", "seen"}
  <2>1. CASE TtsFrame
    <3>1. /\ frames \in [sent : 0 .. MaxFrames, buf : {0, 1}, end : BOOLEAN]
          /\ frames.sent < MaxFrames
          /\ frames' = [frames EXCEPT !.sent = @ + 1, !.buf = 1]
      BY <1>0, <2>1 DEF TtsFrame, AudioTypeOK
    <3>2. frames.sent + 1 \in 0 .. MaxFrames /\ frames.end \in BOOLEAN
      BY <3>1
    <3>3. frames' = [sent |-> frames.sent + 1, buf |-> 1, end |-> frames.end]
      BY <3>1
    <3>4. frames' \in [sent : 0 .. MaxFrames, buf : {0, 1}, end : BOOLEAN]
      BY <3>2, <3>3
    <3> QED BY <1>0, <2>1, <3>4 DEF TtsFrame, AudioTypeOK
  <2>2. CASE TtsEnds \/ FirstSentence \/ Trigger \/ CtxDone
    BY <1>0, <2>2 DEF TtsEnds, FirstSentence, Trigger, CtxDone, AudioTypeOK
  <2>3. CASE \/ FsPlaybackEnds \/ FsHangup \/ \E k \in Playback : PlaybackStop(k)
             \/ \E call \in {"stop", "barge"} : FsRunsLate(call)
    BY <1>0, <2>3 DEF FsPlaybackEnds, FsHangup, PlaybackStop, FsRunsLate, AudioTypeOK
  <2> QED BY <2>1, <2>2, <2>3
<1>4. AudioTypeOK'
  BY <1>0, <1>1, <1>2, <1>3 DEF AudioTypeOK, QueueShrinks
<1>5. OneOwner' /\ FillerOwned' /\ EndedIsGone'
  BY <1>1, <1>2, OwnerKept
<1>6. OncePlayed'
  BY <1>1, <1>2 DEF SpeakInv, OncePlayed, QueueShrinks
<1> QED BY <1>4, <1>5, <1>6 DEF SpeakInv

\* A broadcast that was given up queues its playback once.
LEMMA LateKeeps ==
    ASSUME SpeakInv, NEW k \in Playback, FsRunsLate(k)
    PROVE  SpeakInv'
<1>1. /\ k \in late /\ late' = late \ {k} /\ fsq' = Append(fsq, k)
      /\ UNCHANGED <<stops, pc, ctrlVars, ttsVars, playVars, line, failed>>
  BY DEF FsRunsLate
<1>2. fsq \in Seq(Playback) /\ IsInjective(fsq) /\ ~Contains(fsq, k)
  BY <1>1 DEF SpeakInv, AudioTypeOK, EndedIsGone
<1>3. /\ fsq' \in Seq(Playback) /\ IsInjective(fsq')
      /\ \A j : Contains(fsq', j) => j = k \/ Contains(fsq, j)
  BY <1>1, <1>2, AppendQueue
<1>4. AudioTypeOK'
  BY <1>1, <1>3 DEF SpeakInv, AudioTypeOK, ctrlVars, ttsVars, playVars
<1>5. OneOwner'
  BY <1>1 DEF SpeakInv, OneOwner, Stopping, ctrlVars
<1>6. FillerOwned'
  <2>1. k \in failed
    BY <1>1 DEF SpeakInv, AudioTypeOK
  <2>2. k = "filler" => "filler" \in failed
    BY <2>1
  <2> QED BY <1>1, <1>3, <2>2 DEF SpeakInv, FillerOwned, ctrlVars
<1>7. EndedIsGone'
  BY <1>1, <1>3 DEF SpeakInv, EndedIsGone, playVars
<1>8. OncePlayed'
  <2>1. \A j : Used(j)' => Used(j)
    BY <1>1, <1>3 DEF Used, playVars
  <2> QED BY <1>1, <2>1 DEF SpeakInv, OncePlayed, ttsVars
<1> QED BY <1>4, <1>5, <1>6, <1>7, <1>8 DEF SpeakInv

\* The audio goroutine outside of Cancel: it starts the FIFO's playback once.
LEMMA AudKeeps ==
    ASSUME SpeakInv, AudFrame \/ AudDrained \/ AudResolve \/ AudOpened \/ AudWrite
    PROVE  SpeakInv'
<1> USE DEF ctrlVars, ttsVars, playVars, fsVars
<1>0. AudioTypeOK /\ PcOK /\ OncePlayed
  BY DEF SpeakInv, AudioTypeOK, PcOK
<1>1. /\ PcOK' /\ pc'["dec"] = pc["dec"] /\ pc'["main"] = pc["main"]
      /\ pc["aud"] \in {"recv", "resolve", "opening", "write"}
      /\ pc'["aud"] \in {"lock", "write", "end", "opening", "recv"}
  <2>1. \E p \in {"lock", "write", "end", "opening", "recv"} : Goto("aud", p)
    BY DEF AudFrame, AudDrained, AudResolve, AudOpened, AudWrite
  <2>2. {"lock", "write", "end", "opening", "recv"} \subseteq AudPc
    BY DEF AudPc
  <2>3. {"dec", "aud", "main"} \subseteq Thread
    BY DEF Thread
  <2>4. PcOK' /\ pc'["dec"] = pc["dec"] /\ pc'["main"] = pc["main"]
        /\ pc'["aud"] \in {"lock", "write", "end", "opening", "recv"}
    BY <1>0, <2>1, <2>2, <2>3, ThreadMoves
  <2> QED BY <2>4 DEF AudFrame, AudDrained, AudResolve, AudOpened, AudWrite
<1>2. /\ UNCHANGED <<resolver, stopped, stopFn, firstSent, ttsClosed, barge, done, stops,
                     line>>
      /\ frames' \in [sent : 0 .. MaxFrames, buf : {0, 1}, end : BOOLEAN]
      /\ sink' \in {sink, "open"}
  BY <1>0 DEF AudFrame, AudDrained, AudResolve, AudOpened, AudWrite, PlayAudio, CallFails, AudioTypeOK
<1>3. CASE AudFrame \/ AudDrained \/ AudOpened \/ AudWrite
  <2>1. UNCHANGED <<fsq, stops, done, regs, late, failed>>
    BY <1>3 DEF AudFrame, AudDrained, AudOpened, AudWrite
  <2>2. QueueShrinks
    BY <2>1, QueueKept
  <2>3. AudioTypeOK'
    BY <1>0, <1>1, <1>2, <2>1, <2>2 DEF AudioTypeOK, PcOK, QueueShrinks
  <2>4. \A t \in Thread : pc'[t] = pc[t] \/ (~Stopping(t) /\ ~Stopping(t)')
    BY <1>1 DEF Stopping, Thread
  <2>5. OneOwner' /\ FillerOwned' /\ EndedIsGone'
    BY <1>1, <1>2, <2>2, <2>4, OwnerKept
  <2>6. OncePlayed'
    <3>1. /\ Used("filler")' => pc'["dec"] \in {"lock", "break", "wait", "exit"}
          /\ pc'["main"] = "setup" => pc'["aud"] = "off"
      BY <1>0, <1>1, <2>2 DEF OncePlayed, QueueShrinks
    <3>2. Used("tts")' => Used("tts")
      BY <2>2 DEF QueueShrinks
    <3>3. CASE AudFrame
      BY <1>0, <1>1, <3>1, <3>2, <3>3 DEF AudFrame, OncePlayed, Goto, PcOK, Thread
    <3>4. CASE AudDrained \/ AudOpened \/ AudWrite
      BY <1>0, <1>1, <3>1, <3>2, <3>4 DEF AudDrained, AudOpened, AudWrite, OncePlayed, Goto,
         PcOK, Thread
    <3> QED BY <1>3, <3>3, <3>4
  <2> QED BY <2>3, <2>5, <2>6 DEF SpeakInv
<1>4. CASE AudResolve
  <2>1. ~Used("tts") /\ "tts" \in Playback
    BY <1>0, <1>4 DEF AudResolve, OncePlayed, Playback
  <2>2. /\ regs' \subseteq Playback /\ fsq' \in Seq(Playback) /\ IsInjective(fsq')
        /\ late' \subseteq failed' /\ failed' \subseteq Call /\ failed \subseteq failed'
        /\ \A j : Contains(fsq', j) => j = "tts" \/ Contains(fsq, j)
        /\ \A j : Used(j)' => j = "tts" \/ Used(j)
        /\ EndedIsGone'
    <3>1. \E ok \in BOOLEAN : PlayAudio("tts", ok)
      BY <1>4 DEF AudResolve
    <3> QED BY <2>1, <3>1, PlayQueues
  <2>3. pc'["aud"] \in {"opening", "end"}
    <3>1. Goto("aud", "opening") \/ Goto("aud", "end")
      BY <1>4 DEF AudResolve
    <3>2. "aud" \in Thread /\ "opening" \in AudPc /\ "end" \in AudPc
      BY DEF Thread, AudPc
    <3> QED BY <1>0, <3>1, <3>2, ThreadMoves
  <2>4. AudioTypeOK'
    BY <1>0, <1>1, <1>2, <2>2 DEF AudioTypeOK, PcOK
  <2>5. OneOwner'
    BY <1>1, <1>2 DEF SpeakInv, OneOwner, Stopping, Thread
  <2>6. FillerOwned'
    <3>1. \A t \in Thread : pc[t] = "break" => pc'[t] = "break"
      BY <1>1 DEF Thread
    <3> QED BY <1>1, <1>2, <2>2, <3>1 DEF SpeakInv, FillerOwned
  <2>7. OncePlayed'
    BY <1>0, <1>1, <1>2, <1>4, <2>2, <2>3 DEF OncePlayed, AudResolve
  <2> QED BY <2>2, <2>4, <2>5, <2>6, <2>7 DEF SpeakInv
<1> QED BY <1>3, <1>4

---------------------------------------------------------------------------
(* The filler's stop().                                                      *)

\* The decider up to its lock: it queues the filler once.
LEMMA DeciderKeeps ==
    ASSUME SpeakInv, DecideSkip \/ DecidePlay \/ FillerPlay
    PROVE  SpeakInv'
<1> USE DEF ctrlVars, ttsVars, playVars, fsVars
<1>0. AudioTypeOK /\ PcOK /\ OncePlayed /\ OneOwner
  BY DEF SpeakInv, AudioTypeOK, PcOK
<1>1. /\ PcOK' /\ pc'["aud"] = pc["aud"] /\ pc'["main"] = pc["main"]
      /\ pc["dec"] \in {"deciding", "play"}
      /\ pc'["dec"] \in {"exit", "play", "lock"}
  <2>1. \E p \in {"exit", "play", "lock"} : Goto("dec", p)
    BY DEF DecideSkip, DecidePlay, FillerPlay
  <2>2. {"exit", "play", "lock"} \subseteq DecPc
    BY DEF DecPc
  <2>3. {"dec", "aud", "main"} \subseteq Thread
    BY DEF Thread
  <2>4. PcOK' /\ pc'["aud"] = pc["aud"] /\ pc'["main"] = pc["main"]
        /\ pc'["dec"] \in {"exit", "play", "lock"}
    BY <1>0, <2>1, <2>2, <2>3, ThreadMoves
  <2> QED BY <2>4 DEF DecideSkip, DecidePlay, FillerPlay
<1>2. UNCHANGED <<ctrlVars, ttsVars, done, stops, line>>
  BY DEF DecideSkip, DecidePlay, FillerPlay, PlayAudio, CallFails
<1>3. ~Used("filler") /\ "filler" \in Playback
  BY <1>0, <1>1 DEF OncePlayed, Playback
<1>4. OneOwner'
  BY <1>0, <1>1, <1>2 DEF OneOwner, Stopping, Thread
<1>5. CASE UNCHANGED <<fsq, regs, late, failed>>
  <2>1. QueueShrinks
    BY <1>2, <1>5, QueueKept
  <2>2. AudioTypeOK'
    BY <1>0, <1>1, <1>2, <1>5, <2>1 DEF AudioTypeOK, PcOK, QueueShrinks
  <2>3. FillerOwned' /\ EndedIsGone'
    BY <1>3, <2>1 DEF FillerOwned, QueueShrinks, Used
  <2>4. OncePlayed'
    BY <1>0, <1>1, <1>2, <1>3, <2>1 DEF OncePlayed, QueueShrinks
  <2> QED BY <1>4, <2>2, <2>3, <2>4 DEF SpeakInv
<1>6. ASSUME NEW ok \in BOOLEAN, FillerPlay, PlayAudio("filler", ok),
             Goto("dec", IF ok THEN "lock" ELSE "exit")
      PROVE  SpeakInv'
  <2>1. pc'["dec"] = IF ok THEN "lock" ELSE "exit"
    BY <1>0, <1>6 DEF Goto, PcOK, Thread
  <2>2. /\ regs' \subseteq Playback /\ fsq' \in Seq(Playback) /\ IsInjective(fsq')
        /\ late' \subseteq failed' /\ failed' \subseteq Call /\ failed \subseteq failed'
        /\ \A j : Contains(fsq', j) => (ok /\ j = "filler") \/ Contains(fsq, j)
        /\ \A j : Used(j)' => j = "filler" \/ Used(j)
        /\ EndedIsGone'
    BY <1>3, <1>6, PlayQueues
  <2>3. AudioTypeOK'
    BY <1>0, <1>1, <1>2, <2>2 DEF AudioTypeOK, PcOK
  <2>4. FillerOwned'
    <3>1. CASE ok
      BY <2>1, <3>1 DEF FillerOwned
    <3>2. CASE ~ok
      BY <1>3, <2>2, <3>2 DEF FillerOwned, Used
    <3> QED BY <3>1, <3>2
  <2>5. OncePlayed'
    BY <1>0, <1>1, <1>2, <2>1, <2>2 DEF OncePlayed
  <2> QED BY <1>4, <2>2, <2>3, <2>4, <2>5 DEF SpeakInv
<1>7. CASE FillerPlay
  <2>1. \/ UNCHANGED <<fsq, regs, late, failed>>
        \/ PlayAudio("filler", FALSE) /\ Goto("dec", "exit")
        \/ PlayAudio("filler", TRUE) /\ Goto("dec", "lock")
    BY <1>7 DEF FillerPlay
  <2> QED BY <1>5, <1>6, <1>7, <2>1
<1> QED BY <1>5, <1>7 DEF DecideSkip, DecidePlay

\* Taking over stop(): the decider at its lock when stopped is set, or the
\* first Cancel when the decider has left stopFn.
LEMMA TakeKeeps ==
    ASSUME SpeakInv, DecideLock \/ Cancel("aud") \/ Cancel("main")
    PROVE  SpeakInv'
<1> USE DEF ctrlVars, ttsVars, playVars, fsVars
<1>0. AudioTypeOK /\ PcOK /\ OncePlayed /\ OneOwner /\ FillerOwned
  BY DEF SpeakInv, AudioTypeOK, PcOK
<1>1. {"dec", "aud", "main"} \subseteq Thread
  BY DEF Thread
<1>2. UNCHANGED <<resolver, firstSent, ttsVars, playVars, fsVars>>
  BY DEF DecideLock, Cancel
<1>3. QueueShrinks
  BY <1>2, QueueKept
<1>4. CASE DecideLock
  <2>1. /\ pc["dec"] = "lock"
        /\ \/ stopped /\ Goto("dec", "break") /\ UNCHANGED <<stopped, stopFn>>
           \/ ~stopped /\ Goto("dec", "exit") /\ stopFn' = TRUE /\ UNCHANGED stopped
    BY <1>4 DEF DecideLock
  <2>2. {"break", "exit"} \subseteq DecPc
    BY DEF DecPc
  <2>3. /\ PcOK' /\ pc'["aud"] = pc["aud"] /\ pc'["main"] = pc["main"]
        /\ \/ stopped /\ pc'["dec"] = "break" /\ UNCHANGED <<stopped, stopFn>>
           \/ ~stopped /\ pc'["dec"] = "exit" /\ stopFn' = TRUE /\ UNCHANGED stopped
    BY <1>0, <1>1, <2>1, <2>2, ThreadMoves
  <2>4. AudioTypeOK'
    <3>1. stopFn' \in BOOLEAN /\ UNCHANGED stopped
      BY <1>0, <2>3 DEF AudioTypeOK
    <3> QED BY <1>0, <1>2, <2>3, <3>1 DEF AudioTypeOK, PcOK
  <2>5. OneOwner'
    BY <1>0, <2>1, <2>3 DEF OneOwner, Stopping, Thread
  <2>6. FillerOwned'
    BY <1>1, <2>3 DEF FillerOwned
  <2>7. OncePlayed'
    BY <1>0, <1>2, <1>3, <2>1, <2>3 DEF OncePlayed, QueueShrinks
  <2> QED BY <1>3, <2>4, <2>5, <2>6, <2>7 DEF SpeakInv, QueueShrinks
<1>5. ASSUME NEW t \in {"aud", "main"}, Cancel(t) PROVE SpeakInv'
  <2>1. /\ pc[t] = "lock" /\ pc["dec"] \notin {"break", "wait"}
        /\ stopped' = TRUE /\ stopFn' = FALSE
        /\ \/ ~stopped /\ stopFn /\ Goto(t, "break")
           \/ (stopped \/ ~stopFn) /\ Goto(t, After[t])
    BY <1>0, <1>5 DEF Cancel, MuFree, AudioTypeOK
  <2>2. /\ "break" \in AudPc /\ "break" \in MainPc
        /\ After["aud"] = "resolve" /\ After["main"] = "close"
        /\ After["aud"] \in AudPc /\ After["main"] \in MainPc
    BY DEF AudPc, MainPc, After
  <2>3. /\ PcOK' /\ \A u \in Thread \ {t} : pc'[u] = pc[u]
        /\ \/ ~stopped /\ stopFn /\ pc'[t] = "break"
           \/ (stopped \/ ~stopFn) /\ pc'[t] = After[t]
    BY <1>0, <1>1, <2>1, <2>2, ThreadMoves
  <2>4. AudioTypeOK'
    <3>1. stopFn' \in BOOLEAN /\ stopped' \in BOOLEAN
      BY <2>1
    <3> QED BY <1>0, <1>2, <2>3, <3>1 DEF AudioTypeOK, PcOK
  <2>5. pc'["dec"] = pc["dec"]
    BY <1>1, <2>3
  <2>6. ~Stopping(t)' \/ pc'[t] = "break"
    BY <2>2, <2>3 DEF Stopping
  <2>7. OneOwner'
    <3>1. CASE ~stopped /\ stopFn /\ pc'[t] = "break"
      BY <1>0, <1>1, <2>1, <2>3, <2>5, <3>1 DEF OneOwner, Stopping
    <3>2. CASE ~Stopping(t)'
      BY <1>0, <1>1, <2>1, <2>3, <2>5, <3>2 DEF OneOwner, Stopping
    <3> QED BY <2>2, <2>3, <3>1, <3>2 DEF Stopping
  <2>8. FillerOwned'
    <3>1. stopFn => ~stopped
      BY <1>0 DEF OneOwner
    <3>2. stopFn => pc'[t] = "break"
      BY <2>3, <3>1
    <3>3. \A u \in Thread : pc[u] = "break" => pc'[u] = "break"
      BY <2>1, <2>3
    <3> QED BY <1>0, <1>1, <1>2, <2>5, <3>2, <3>3 DEF FillerOwned
  <2>9. OncePlayed'
    <3>1. (Used("filler")' => Used("filler")) /\ (Used("tts")' => Used("tts"))
      BY <1>3 DEF QueueShrinks
    <3>2. CASE t = "aud"
      BY <1>0, <1>1, <1>2, <2>1, <2>2, <2>3, <2>5, <3>1, <3>2 DEF OncePlayed
    <3>3. CASE t = "main"
      BY <1>0, <1>1, <1>2, <2>1, <2>2, <2>3, <2>5, <3>1, <3>3 DEF OncePlayed
    <3> QED BY <3>2, <3>3
  <2> QED BY <1>3, <2>4, <2>7, <2>8, <2>9 DEF SpeakInv, QueueShrinks
<1> QED BY <1>4, <1>5

\* The thread that has stop(): it breaks the playback, then lets go.
LEMMA StopKeeps ==
    ASSUME SpeakInv, NEW t \in Thread, StopBreak(t) \/ StopWaited(t)
    PROVE  SpeakInv'
<1> USE DEF ctrlVars, ttsVars, playVars, fsVars
<1>0. AudioTypeOK /\ PcOK /\ OncePlayed /\ OneOwner /\ FillerOwned
  BY DEF SpeakInv, AudioTypeOK, PcOK
<1>1. /\ {"dec", "aud", "main"} \subseteq Thread
      /\ t \in {"dec", "aud", "main"}
  BY DEF Thread
<1>2. /\ UNCHANGED <<ctrlVars, ttsVars, done, line>>
      /\ regs' \subseteq Playback
      /\ Stopping(t)
  BY <1>0 DEF StopBreak, StopWaited, AudioTypeOK, Stopping
<1>3. \A u \in Thread \ {t} : ~Stopping(u)
  BY <1>0, <1>2 DEF OneOwner
<1>4. ~stopFn
  BY <1>0, <1>2 DEF OneOwner
<1>5. CASE StopBreak(t)
  <2>1. /\ QueueShrinks
        /\ "stop" \in failed' \/ ~Contains(fsq', "filler")
    BY <1>2, <1>5, BreakShrinks DEF StopBreak
  <2>2. "wait" \in DecPc /\ "wait" \in AudPc /\ "wait" \in MainPc
    BY DEF DecPc, AudPc, MainPc
  <2>3. PcOK' /\ pc[t] = "break" /\ pc'[t] = "wait" /\ \A u \in Thread \ {t} : pc'[u] = pc[u]
    BY <1>0, <1>1, <1>5, <2>2, ThreadMoves DEF StopBreak
  <2>4. AudioTypeOK'
    BY <1>0, <1>2, <2>1, <2>3 DEF AudioTypeOK, PcOK, QueueShrinks
  <2>5. OneOwner'
    BY <1>0, <1>1, <1>2, <2>3 DEF OneOwner, Stopping
  <2>6. FillerOwned'
    BY <2>1 DEF FillerOwned
  <2>7. OncePlayed'
    <3>1. (Used("filler")' => Used("filler")) /\ (Used("tts")' => Used("tts"))
      BY <2>1 DEF QueueShrinks
    <3>2. /\ pc["aud"] = "break" => pc'["aud"] = "wait"
          /\ pc["aud"] # "break" => pc'["aud"] = pc["aud"]
          /\ pc["dec"] = "break" => pc'["dec"] = "wait"
          /\ pc["dec"] # "break" => pc'["dec"] = pc["dec"]
          /\ pc'["main"] = "setup" => pc["main"] = "setup"
      BY <1>1, <1>3, <2>3 DEF Stopping
    <3> QED BY <1>0, <1>2, <3>1, <3>2 DEF OncePlayed
  <2> QED BY <2>1, <2>4, <2>5, <2>6, <2>7 DEF SpeakInv, QueueShrinks
<1>6. CASE StopWaited(t)
  <2>1. QueueShrinks /\ UNCHANGED failed
    BY <1>6, QueueKept DEF StopWaited
  <2>2. /\ After["dec"] = "exit" /\ After["aud"] = "resolve" /\ After["main"] = "close"
        /\ "exit" \in DecPc /\ "resolve" \in AudPc /\ "close" \in MainPc
    BY DEF DecPc, AudPc, MainPc, After
  <2>3. /\ PcOK' /\ pc[t] = "wait" /\ pc'[t] = After[t]
        /\ \A u \in Thread \ {t} : pc'[u] = pc[u]
    BY <1>0, <1>1, <1>6, <2>2, ThreadMoves DEF StopWaited
  <2>4. AudioTypeOK'
    BY <1>0, <1>2, <2>1, <2>3 DEF AudioTypeOK, PcOK, QueueShrinks
  <2>5. OneOwner'
    <3>1. \A u \in Thread : ~Stopping(u)'
      BY <1>1, <1>3, <2>2, <2>3 DEF Stopping
    <3> QED BY <1>2, <1>4, <3>1 DEF OneOwner
  <2>6. FillerOwned'
    <3>1. pc["dec"] # "lock" => pc'["dec"] # "lock"
      BY <1>1, <2>2, <2>3
    <3>2. \A u \in Thread : pc[u] # "break"
      BY <1>3, <2>3 DEF Stopping
    <3>3. pc["dec"] = "lock" => pc'["dec"] = "lock"
      BY <1>1, <2>3
    <3> QED BY <1>0, <1>4, <2>1, <3>2, <3>3 DEF FillerOwned, QueueShrinks
  <2>7. OncePlayed'
    <3>1. (Used("filler")' => Used("filler")) /\ (Used("tts")' => Used("tts"))
      BY <2>1 DEF QueueShrinks
    <3>2. /\ pc["aud"] = "wait" => pc'["aud"] \in {"wait", "resolve"}
          /\ pc["aud"] # "wait" => pc'["aud"] = pc["aud"]
          /\ pc["dec"] = "wait" => pc'["dec"] \in {"wait", "exit"}
          /\ pc["dec"] # "wait" => pc'["dec"] = pc["dec"]
          /\ pc'["main"] = "setup" => pc["main"] = "setup"
      BY <1>1, <2>2, <2>3
    <3> QED BY <1>0, <1>2, <3>1, <3>2 DEF OncePlayed
  <2> QED BY <2>1, <2>4, <2>5, <2>6, <2>7 DEF SpeakInv, QueueShrinks
<1> QED BY <1>5, <1>6

---------------------------------------------------------------------------
\* Before Speak nothing plays.
LEMMA AudioInitInv == AudioInit => SpeakInv
<1> SUFFICES ASSUME AudioInit PROVE SpeakInv
  OBVIOUS
<1>1. /\ pc["dec"] \in {"deciding", "off"} /\ pc["aud"] = "off" /\ pc["main"] = "setup"
      /\ pc \in [Thread -> DecPc \cup AudPc \cup MainPc]
  BY DEF AudioInit, Thread, DecPc, AudPc, MainPc
<1>2. ~stopped /\ ~stopFn /\ fsq = <<>> /\ stops = {} /\ done = {} /\ late = {} /\ failed = {}
  BY DEF AudioInit
<1>3. AudioTypeOK
  <2>1. /\ frames \in [sent : 0 .. MaxFrames, buf : {0, 1}, end : BOOLEAN]
        /\ barge \in [triggered : BOOLEAN, fired : BOOLEAN]
    BY DEF AudioInit
  <2>2. pc["dec"] \in DecPc /\ pc["aud"] \in AudPc /\ pc["main"] \in MainPc
    BY <1>1 DEF DecPc, AudPc, MainPc
  <2>3. /\ resolver \in BOOLEAN /\ stopped \in BOOLEAN /\ stopFn \in BOOLEAN
        /\ firstSent \in BOOLEAN /\ ttsClosed \in BOOLEAN
        /\ sink \in {"none", "open", "closed"} /\ line \in {"up", "down", "seen"}
        /\ regs \subseteq Playback
    BY DEF AudioInit
  <2> QED BY <1>1, <1>2, <2>1, <2>2, <2>3, EmptyQueue DEF AudioTypeOK
<1>4. OneOwner /\ FillerOwned
  BY <1>1, <1>2, EmptyQueue DEF OneOwner, FillerOwned, Stopping, Thread
<1>5. OncePlayed /\ EndedIsGone
  BY <1>1, <1>2, EmptyQueue DEF OncePlayed, EndedIsGone, Used
<1> QED BY <1>3, <1>4, <1>5 DEF SpeakInv

\* The invariant holds in every reachable state.
LEMMA SpeakInvariant == AudioSpec => []SpeakInv
<1>1. ASSUME SpeakInv, UNCHANGED audioVars PROVE SpeakInv'
  <2>1. UNCHANGED <<pc, resolver, stopped, stopFn, firstSent, frames, ttsClosed, sink, barge,
                    regs, done, fsq, stops, line, late, failed>>
    BY <1>1 DEF audioVars, ctrlVars, ttsVars, playVars, fsVars
  <2>2. AudioTypeOK'
    BY <1>1, <2>1 DEF SpeakInv, AudioTypeOK
  <2>3. QueueShrinks
    BY <1>1, <2>1, QueueKept
  <2>4. OneOwner' /\ FillerOwned' /\ EndedIsGone'
    BY <1>1, <2>1, <2>3, OwnerKept
  <2>5. OncePlayed'
    BY <1>1, <2>1 DEF SpeakInv, OncePlayed, Used
  <2> QED BY <2>2, <2>4, <2>5 DEF SpeakInv
<1>2. SpeakInv /\ [AudioNext]_audioVars => SpeakInv'
  <2> SUFFICES ASSUME SpeakInv, [AudioNext]_audioVars PROVE SpeakInv'
    OBVIOUS
  <2>1. {"dec", "aud", "main"} \subseteq Thread
    BY DEF Thread
  <2>2. CASE SpeakStep
    BY <2>1, <2>2, SpeakKeeps, TakeKeeps, StopKeeps DEF SpeakStep
  <2>3. CASE AudStep
    BY <2>1, <2>3, AudKeeps, TakeKeeps, StopKeeps DEF AudStep
  <2>4. CASE DecStep
    BY <2>1, <2>4, DeciderKeeps, TakeKeeps, StopKeeps DEF DecStep
  <2>5. CASE TurnOver \/ UNCHANGED audioVars
    BY <1>1, <2>5 DEF TurnOver
  <2>6. ASSUME NEW call \in Call, FsRunsLate(call) PROVE SpeakInv'
    BY <2>6, AroundKeeps, LateKeeps DEF Call
  <2> QED BY <2>2, <2>3, <2>4, <2>5, <2>6, AroundKeeps DEF AudioNext
<1> QED BY <1>2, AudioInitInv, PTL DEF AudioSpec

\* At most one thread runs the filler's stop().
LEMMA StoppersCount == SpeakInv => OneStopper
<1> SUFFICES ASSUME SpeakInv PROVE OneStopper
  OBVIOUS
<1> DEFINE S == {t \in Thread : pc[t] \in {"break", "wait"}}
<1>1. \A t, u \in S : t = u
  BY DEF SpeakInv, OneOwner, Stopping
<1>2. CASE S = {}
  BY <1>2, FS_EmptySet DEF OneStopper
<1>3. ASSUME NEW t \in S PROVE OneStopper
  <2>1. S = {t}
    BY <1>1
  <2>2. Cardinality({t}) = 1
    BY FS_Singleton
  <2> QED BY <2>1, <2>2 DEF OneStopper
<1> QED BY <1>2, <1>3

---------------------------------------------------------------------------
\* Types; a canceled filler that was reported as started and that FreeSWITCH still has is about to be broken by
\* the one thread that owns its stop(); and that stop() runs in one thread.
THEOREM FillersAreStopped == AudioSpec => []AudioInv
<1>1. SpeakInv => FillerHasStopper
  BY DEF SpeakInv, OneOwner, FillerOwned, FillerHasStopper
<1>2. SpeakInv => AudioInv
  BY <1>1, StoppersCount DEF SpeakInv, AudioInv
<1> QED BY <1>2, SpeakInvariant, PTL

\* A handle is done only when its own playback is over, whichever thread broke
\* the queue and in whatever order the PLAYBACK_STOP events are handled.
THEOREM HandlesTellTheTruth == AudioSpec => []DoneMeansOver
<1>1. SpeakInv => DoneMeansOver
  BY DEF SpeakInv, EndedIsGone, DoneMeansOver
<1> QED BY <1>1, SpeakInvariant, PTL
=============================================================================
