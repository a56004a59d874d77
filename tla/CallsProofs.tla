---------------------------- MODULE CallsProofs ----------------------------
(***************************************************************************)
(* Theorems about Calls for every number of PARK events.  The invariant    *)
(* SessionInv is inductive as it stands: that the map's entry is live      *)
(* needs a Run to begin only once, which the type invariant says (a Run is *)
(* there only when its handler has ended).                                 *)
(***************************************************************************)
EXTENDS Calls, TLAPS

USE CallsAssumption

\* What every step of the channel, its handlers and the shutdown keeps.
SessionInv == CallsTypeOK /\ SessionIsLive

\* A parked channel that nobody has handled yet satisfies the invariant.
LEMMA CallsInitInv == CallsInit => SessionInv
<1> SUFFICES ASSUME CallsInit PROVE SessionInv
  OBVIOUS
<1>1. CallsTypeOK
  BY DEF CallsInit, CallsTypeOK, HndPc, RunPc, ArchPc, MainPc
<1>2. SessionIsLive
  BY DEF CallsInit, SessionIsLive, OnCall
<1> QED BY <1>1, <1>2 DEF SessionInv

\* FreeSWITCH, the HANGUP handler, the archiver and main touch neither the map
\* nor a Run.
LEMMA OutsideKeeps ==
    ASSUME SessionInv,
           \/ FsHangup \/ FsFlush \/ HangupHandled \/ Sigterm \/ MainStep
           \/ \E p \in Park : FsPark(p) \/ ArchiveStep(p)
    PROVE  SessionInv'
<1> USE DEF SessionInv, CallsTypeOK, HndPc, RunPc, ArchPc, MainPc
<1>1. CASE FsHangup \/ FsFlush \/ HangupHandled
  <2>1. UNCHANGED <<hnd, run, sessions, storeVars, main>>
    BY <1>1 DEF FsHangup, FsFlush, HangupHandled, storeVars
  <2>2. /\ chan' \in {"parked", "up", "down"} /\ mp3' \in BOOLEAN
        /\ hup' \in {"none", "sent", "handled"}
        /\ canceled' \in [Park -> BOOLEAN]
    BY <1>1 DEF FsHangup, FsFlush, HangupHandled, HangUp, fsVars, storeVars
  <2> QED BY <2>1, <2>2 DEF storeVars, SessionIsLive, OnCall
<1>2. CASE Sigterm \/ MainStep
  <2>1. /\ UNCHANGED <<hnd, run, sessions, fsVars, storeVars>>
        /\ main' \in MainPc
        /\ canceled' \in [Park -> BOOLEAN]
    BY <1>2 DEF Sigterm, MainStep, DrainCancels, DrainEnds, WaitReturns, Exit,
       MainGoto
  <2> QED BY <2>1 DEF fsVars, storeVars, SessionIsLive, OnCall
<1>3. ASSUME NEW p \in Park, FsPark(p) PROVE SessionInv'
  <2>1. hnd[p] = "none" /\ run[p] = "none"
    BY <1>3 DEF FsPark
  <2>2. /\ UNCHANGED <<run, canceled, sessions, fsVars, storeVars, main>>
        /\ hnd' = [hnd EXCEPT ![p] = "spawned"]
    BY <1>3 DEF FsPark
  <2> QED BY <2>1, <2>2 DEF fsVars, storeVars, SessionIsLive, OnCall
<1>4. ASSUME NEW p \in Park, ArchiveStep(p) PROVE SessionInv'
  <2>1. /\ UNCHANGED <<hnd, run, canceled, sessions, fsVars, main>>
        /\ arch[p] \in {"waiting", "copied"}
        /\ \E s \in ArchPc : arch' = [arch EXCEPT ![p] = s]
        /\ row' \in {"none", "row", "url"}
    BY <1>4 DEF ArchiveStep, ArchiveCopies, ArchiveFails, ArchiveUrl
  <2> QED BY <2>1 DEF fsVars, SessionIsLive, OnCall
<1> QED BY <1>1, <1>2, <1>3, <1>4

\* A handler starts a Run whose number nobody has used, so it is not the one
\* in the map.
LEMMA ParkKeeps ==
    ASSUME SessionInv, NEW p \in Park, ParkStep(p)
    PROVE  SessionInv'
<1> USE DEF SessionInv, CallsTypeOK, HndPc, RunPc
<1>1. /\ UNCHANGED <<canceled, sessions, fsVars, storeVars, main>>
      /\ hnd[p] \in {"spawned", "lookup", "found"}
      /\ \E h \in HndPc : hnd' = [hnd EXCEPT ![p] = h]
  BY DEF ParkStep, ParkCheck, ParkLookup, ParkAccept
<1>2. run[p] = "none" /\ sessions # p
  BY <1>1 DEF SessionIsLive, None, Park
<1>3. \/ UNCHANGED run
      \/ run' = [run EXCEPT ![p] = "spawned"] /\ hnd'[p] = "ended"
  BY DEF ParkStep, ParkCheck, ParkLookup, ParkAccept
<1> QED BY <1>1, <1>2, <1>3 DEF fsVars, storeVars, SessionIsLive, OnCall

\* Only the first and the last of Run's map operations change its entry.
LEMMA RunKeeps ==
    ASSUME SessionInv, NEW p \in Park, RunStep(p) \/ RunFails(p) \/ RunEndCall(p)
    PROVE  SessionInv'
<1> USE DEF SessionInv, RunGoto
<1>1. CASE RunStart(p)
  BY <1>1 DEF RunStart, CallsTypeOK, RunPc, SessionIsLive, OnCall, None, Park,
     fsVars, storeVars
<1>2. CASE RunRemove(p)
  BY <1>2 DEF RunRemove, CallsTypeOK, RunPc, SessionIsLive, OnCall, fsVars,
     storeVars
<1>3. CASE RunArchive(p)
  BY <1>3 DEF RunArchive, CallsTypeOK, RunPc, ArchPc, SessionIsLive, OnCall, fsVars
<1>4. CASE RunInsert(p)
  BY <1>4 DEF RunInsert, Upsert, CallsTypeOK, RunPc, SessionIsLive, OnCall, fsVars
<1>5. CASE RunAnswer(p) \/ RunSetup(p) \/ RunCanceled(p) \/ RunFails(p)
           \/ RunEndCall(p)
  <2>1. /\ UNCHANGED <<hnd, canceled, sessions, mp3, storeVars, main>>
        /\ run[p] \in {"added", "answered", "loop"}
        /\ \E s \in {"answered", "loop", "unwind"} : run' = [run EXCEPT ![p] = s]
        /\ chan' \in {"parked", "up", "down"}
        /\ hup' \in {"none", "sent", "handled"}
    BY <1>5 DEF RunAnswer, RunSetup, RunCanceled, RunFails, RunEndCall, HangUp,
       CallsTypeOK, fsVars, storeVars
  <2> QED BY <2>1 DEF CallsTypeOK, RunPc, SessionIsLive, OnCall, storeVars
<1> QED BY <1>1, <1>2, <1>3, <1>4, <1>5 DEF RunStep

\* Every step keeps the invariant.
LEMMA CallsNextInv == SessionInv /\ [CallsNext]_callsVars => SessionInv'
<1>1. ASSUME SessionInv, UNCHANGED callsVars PROVE SessionInv'
  BY <1>1 DEF callsVars, fsVars, storeVars, SessionInv, CallsTypeOK,
     SessionIsLive, OnCall
<1> QED BY <1>1, OutsideKeeps, ParkKeeps, RunKeeps DEF CallsNext

\* The invariant holds in every reachable state.
THEOREM CallsInvariant == CallsSpec => []SessionInv
BY CallsInitInv, CallsNextInv, PTL DEF CallsSpec

\* Type correctness; a Run is started by a handler that has ended.
THEOREM CallsTypeCorrect == CallsSpec => []CallsTypeOK
<1>1. SessionInv => CallsTypeOK
  BY DEF SessionInv
<1> QED BY <1>1, CallsInvariant, PTL

\* The map's entry is a Run before its Remove, and an only Run is in the map
\* while it is on the call, so HANGUP and DrainAll can cancel it.
THEOREM SessionsLive == CallsSpec => []SessionIsLive
<1>1. SessionInv => SessionIsLive
  BY DEF SessionInv
<1> QED BY <1>1, CallsInvariant, PTL

\* Neither a late insert nor one of a second Run takes a recording_url away.
THEOREM UrlIsKept == CallsSpec => UrlNeverBlanked
<1>1. [CallsNext]_callsVars => [row = "url" => row' = "url"]_callsVars
  <2> SUFFICES ASSUME CallsNext, row = "url" PROVE row' = "url"
    OBVIOUS
  <2>1. ASSUME NEW p \in Park, RunInsert(p) PROVE row' = "url"
    BY <2>1 DEF RunInsert, Upsert
  <2>2. ASSUME NEW p \in Park, ArchiveStep(p) PROVE row' = "url"
    BY <2>2 DEF ArchiveStep, ArchiveCopies, ArchiveFails, ArchiveUrl
  <2>3. ASSUME NEW p \in Park,
               \/ FsPark(p) \/ ParkStep(p) \/ RunFails(p) \/ RunEndCall(p)
               \/ RunStart(p) \/ RunAnswer(p) \/ RunSetup(p) \/ RunCanceled(p)
               \/ RunRemove(p) \/ RunArchive(p)
        PROVE row' = "url"
    BY <2>3 DEF FsPark, ParkStep, ParkCheck, ParkLookup, ParkAccept, RunFails,
       RunEndCall, RunStart, RunAnswer, RunSetup, RunCanceled, RunRemove,
       RunArchive, storeVars
  <2>4. CASE FsHangup \/ FsFlush \/ HangupHandled \/ Sigterm \/ MainStep
    BY <2>4 DEF FsHangup, FsFlush, HangupHandled, Sigterm, MainStep,
       DrainCancels, DrainEnds, WaitReturns, Exit, MainGoto, storeVars
  <2> QED BY <2>1, <2>2, <2>3, <2>4 DEF CallsNext, RunStep
<1> QED BY <1>1, PTL DEF CallsSpec, UrlNeverBlanked
=============================================================================
