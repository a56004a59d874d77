------------------------------- MODULE Calls -------------------------------
(***************************************************************************)
(* One inbound channel from CHANNEL_PARK to its row in call_history: the   *)
(* PARK handlers of inbound.go, SessionRunner.Run with its defers, the     *)
(* session map, the HANGUP handler, the recording archiver, the two writes *)
(* to Postgres and the shutdown of cmd/server/main.go.  FreeSWITCH may     *)
(* park the channel more than once (onPark expects it); every event is     *)
(* handled in a goroutine of its own, and a handler that accepts starts    *)
(* one Run, which carries the number of its PARK.  All of them share the   *)
(* channel's uuid: one key in the map, one row, one recording.             *)
(***************************************************************************)
EXTENDS Integers, FiniteSets

CONSTANT MaxParks  \* bound: PARK events of the channel

ASSUME CallsAssumption == MaxParks \in Nat \ {0}

VARIABLES
    hnd,      \* [Park -> the handler of that PARK]
    run,      \* [Park -> where the Run it started is]
    canceled, \* [Park -> the session of that Run was canceled]
    sessions, \* Manager.sessions[uuid]: a Park, or None
    chan,     \* external: "parked", "up" or "down"
    hup,      \* the CHANNEL_HANGUP event: "none", "sent" or "handled"
    mp3,      \* external: FreeSWITCH's recording is there and not empty
    arch,     \* [Park -> the archive goroutine of that Run]
    row,      \* call_history: "none", "row", or "url" (recording_url is set)
    main      \* cmd/server/main.go

fsVars == <<chan, hup, mp3>>
storeVars == <<arch, row>>
callsVars == <<hnd, run, canceled, sessions, fsVars, storeVars, main>>

Park == 1..MaxParks
None == 0

\* "found": a bot was found and its providers are built.
HndPc == {"none", "spawned", "lookup", "found", "ended"}
\* "unwind" is before the deferred Cancel and Remove, "insert" before the
\* deferred write of the call record.
RunPc == {"none", "spawned", "added", "answered", "loop", "unwind",
          "removed", "insert", "done"}
ArchPc == {"none", "waiting", "copied", "failed", "done"}
MainPc == {"serving", "stopping", "draining", "waiting", "waited", "exited"}

Alive == main # "exited"
RootDone == main # "serving"

\* The Runs the handler's WaitGroup counts.
Running == {p \in Park : run[p] \notin {"none", "done"}}
\* The Runs between Sessions.Add and the first of their defers.
OnCall == {p \in Park : run[p] \in {"added", "answered", "loop"}}

\* A bug: the session's context does not come from rootCtx.
CtxDone_Detached(p) == canceled[p]
\* session.New derives the session's context from Run's parent.
CtxDone(p) == canceled[p] \/ RootDone

CallsInit ==
    /\ hnd = [p \in Park |-> "none"]
    /\ run = [p \in Park |-> "none"]
    /\ canceled = [p \in Park |-> FALSE]
    /\ sessions = None
    /\ chan = "parked" /\ hup = "none" /\ mp3 = FALSE
    /\ arch = [p \in Park |-> "none"]
    /\ row = "none"
    /\ main = "serving"

---------------------------------------------------------------------------
(* External: FreeSWITCH.                                                   *)

FsPark(p) ==
    /\ Alive /\ chan # "down" /\ hnd[p] = "none"
    /\ \A q \in Park : q < p => hnd[q] # "none"
    /\ hnd' = [hnd EXCEPT ![p] = "spawned"]
    /\ UNCHANGED <<run, canceled, sessions, fsVars, storeVars, main>>

HangUp ==
    /\ chan' = "down"
    /\ hup' = IF chan = "down" THEN hup ELSE "sent"

FsHangup ==
    /\ chan # "down"
    /\ HangUp
    /\ UNCHANGED <<hnd, run, canceled, sessions, mp3, storeVars, main>>

\* The dialplan's recording; its file gets its first bytes long before the
\* call is over.
FsFlush ==
    /\ ~mp3
    /\ mp3' = TRUE
    /\ UNCHANGED <<hnd, run, canceled, sessions, chan, hup, storeVars, main>>

---------------------------------------------------------------------------
(* onPark.                                                                 *)

\* The duplicate check reads the map before the lookup.
ParkCheck(p) ==
    /\ Alive /\ hnd[p] = "spawned"
    /\ hnd' = [hnd EXCEPT ![p] = IF sessions # None THEN "ended" ELSE "lookup"]
    /\ UNCHANGED <<run, canceled, sessions, fsVars, storeVars, main>>

\* GetBotByDID and Registry.For: no bot, an error (always one when rootCtx
\* is done), or providers.
ParkLookup(p) ==
    /\ Alive /\ hnd[p] = "lookup"
    /\ \/ hnd' = [hnd EXCEPT ![p] = "ended"]
       \/ ~RootDone /\ hnd' = [hnd EXCEPT ![p] = "found"]
    /\ UNCHANGED <<run, canceled, sessions, fsVars, storeVars, main>>

\* wg.Add and the goroutine of Run.
ParkAccept(p) ==
    /\ Alive /\ hnd[p] = "found"
    /\ hnd' = [hnd EXCEPT ![p] = "ended"]
    /\ run' = [run EXCEPT ![p] = "spawned"]
    /\ UNCHANGED <<canceled, sessions, fsVars, storeVars, main>>

---------------------------------------------------------------------------
(* SessionRunner.Run.                                                      *)

RunGoto(p, label) == Alive /\ run' = [run EXCEPT ![p] = label]

RunStart(p) ==
    /\ run[p] = "spawned"
    /\ RunGoto(p, "added")
    /\ sessions' = p
    /\ UNCHANGED <<hnd, canceled, fsVars, storeVars, main>>

\* uuid_answer.  A channel that is gone answers -ERR, which is no error here.
RunAnswer(p) ==
    /\ run[p] = "added"
    /\ \/ RunGoto(p, "answered") /\ chan' = IF chan = "parked" THEN "up" ELSE chan
       \/ RunGoto(p, "unwind") /\ UNCHANGED chan
    /\ UNCHANGED <<hnd, canceled, sessions, hup, mp3, storeVars, main>>

\* The caller's FIFO, its reader, uuid_record and the pipeline, or an error.
RunSetup(p) ==
    /\ run[p] = "answered"
    /\ RunGoto(p, "loop") \/ RunGoto(p, "unwind")
    /\ UNCHANGED <<hnd, canceled, sessions, fsVars, storeVars, main>>

\* A bug: only a turn that is under way notices that the call is over.
RunCanceled_IfUp(p) ==
    /\ run[p] = "loop" /\ CtxDone(p) /\ chan = "up"
    /\ RunGoto(p, "unwind")
    /\ UNCHANGED <<hnd, canceled, sessions, fsVars, storeVars, main>>

\* The loop, or the turn in it, sees the context done.
RunCanceled(p) ==
    /\ run[p] = "loop" /\ CtxDone(p)
    /\ RunGoto(p, "unwind")
    /\ UNCHANGED <<hnd, canceled, sessions, fsVars, storeVars, main>>

\* A turn fails: Run returns without a word to FreeSWITCH.
RunFails(p) ==
    /\ run[p] = "loop"
    /\ RunGoto(p, "unwind")
    /\ UNCHANGED <<hnd, canceled, sessions, fsVars, storeVars, main>>

\* ENDCALL: uuid_kill, whose failure is only logged.
RunEndCall(p) ==
    /\ run[p] = "loop"
    /\ RunGoto(p, "unwind")
    /\ HangUp \/ UNCHANGED <<chan, hup>>
    /\ UNCHANGED <<hnd, canceled, sessions, mp3, storeVars, main>>

\* A bug: the Remove is missing on one of the ways out.
RunRemove_OnlyIfUncanceled(p) ==
    /\ run[p] = "unwind"
    /\ RunGoto(p, "removed")
    /\ canceled' = [canceled EXCEPT ![p] = TRUE]
    /\ sessions' = IF canceled[p] THEN sessions ELSE None
    /\ UNCHANGED <<hnd, fsVars, storeVars, main>>

\* StopRecording, src.Close, sess.Cancel and Sessions.Remove, which deletes
\* whatever the uuid's entry is.
RunRemove(p) ==
    /\ run[p] = "unwind"
    /\ RunGoto(p, "removed")
    /\ canceled' = [canceled EXCEPT ![p] = TRUE]
    /\ sessions' = None
    /\ UNCHANGED <<hnd, fsVars, storeVars, main>>

\* The deferred archive goroutine starts; the record is not written yet.
RunArchive(p) ==
    /\ run[p] = "removed"
    /\ RunGoto(p, "insert")
    /\ arch' = [arch EXCEPT ![p] = "waiting"]
    /\ UNCHANGED <<hnd, canceled, sessions, fsVars, row, main>>

\* A bug: no COALESCE in ON CONFLICT DO UPDATE.
Upsert_Blanks(r) == "row"
\* INSERT ... ON CONFLICT: the record never carries a recording_url.
Upsert(r) == IF r = "none" THEN "row" ELSE r

\* Insert, which may fail or time out; then wg.Done.
RunInsert(p) ==
    /\ run[p] = "insert"
    /\ RunGoto(p, "done")
    /\ row' \in {row, Upsert(row)}
    /\ UNCHANGED <<hnd, canceled, sessions, fsVars, arch, main>>

---------------------------------------------------------------------------
(* The HANGUP handler and the archiver.                                    *)

\* Any session under the uuid is canceled; an inbound call has no pending
\* entry, so without a session nothing happens.
HangupHandled ==
    /\ Alive /\ hup = "sent"
    /\ hup' = "handled"
    /\ canceled' = [p \in Park |-> canceled[p] \/ p = sessions]
    /\ UNCHANGED <<hnd, run, sessions, chan, mp3, storeVars, main>>

\* waitForFile and the copy: the first non-empty file is taken.
ArchiveCopies(p) ==
    /\ Alive /\ arch[p] = "waiting" /\ mp3
    /\ arch' = [arch EXCEPT ![p] = "copied"]
    /\ UNCHANGED <<hnd, run, canceled, sessions, fsVars, row, main>>

\* No file in the retry window, or one that cannot be copied.
ArchiveFails(p) ==
    /\ Alive /\ arch[p] = "waiting"
    /\ arch' = [arch EXCEPT ![p] = "failed"]
    /\ UNCHANGED <<hnd, run, canceled, sessions, fsVars, row, main>>

\* SetRecordingURL: an UPDATE of no row is no error; a failure is logged.
ArchiveUrl(p) ==
    /\ Alive /\ arch[p] = "copied"
    /\ \/ /\ row' = IF row = "none" THEN row ELSE "url"
          /\ arch' = [arch EXCEPT ![p] = "done"]
       \/ /\ arch' = [arch EXCEPT ![p] = "failed"]
          /\ UNCHANGED row
    /\ UNCHANGED <<hnd, run, canceled, sessions, fsVars, main>>

---------------------------------------------------------------------------
(* main: SIGTERM cancels rootCtx; DrainAll, inbound.Wait, exit.            *)

MainGoto(from, to) ==
    /\ main = from /\ main' = to
    /\ UNCHANGED <<hnd, run, sessions, fsVars, storeVars>>

Sigterm == MainGoto("serving", "stopping") /\ UNCHANGED canceled

\* DrainAll cancels the sessions it sees once.
DrainCancels ==
    /\ MainGoto("stopping", "draining")
    /\ canceled' = [p \in Park |-> canceled[p] \/ p = sessions]

\* The map is empty, or 30 s are over.
DrainEnds == MainGoto("draining", "waiting") /\ UNCHANGED canceled

WaitReturns ==
    /\ Running = {}
    /\ MainGoto("waiting", "waited") /\ UNCHANGED canceled

\* The HTTP server is shut down and main returns, whatever else still runs.
Exit == MainGoto("waited", "exited") /\ UNCHANGED canceled

---------------------------------------------------------------------------
ParkStep(p) == ParkCheck(p) \/ ParkLookup(p) \/ ParkAccept(p)

\* What Run does without waiting for anybody outside.
RunStep(p) ==
    \/ RunStart(p) \/ RunAnswer(p) \/ RunSetup(p) \/ RunCanceled(p)
    \/ RunRemove(p) \/ RunArchive(p) \/ RunInsert(p)

ArchiveStep(p) == ArchiveCopies(p) \/ ArchiveFails(p) \/ ArchiveUrl(p)

MainStep == DrainCancels \/ DrainEnds \/ WaitReturns \/ Exit

CallsNext ==
    \/ FsHangup \/ FsFlush \/ HangupHandled
    \/ \E p \in Park :
         \/ FsPark(p) \/ ParkStep(p)
         \/ RunStep(p) \/ RunFails(p) \/ RunEndCall(p)
         \/ ArchiveStep(p)
    \/ Sigterm \/ MainStep

CallsSpec == CallsInit /\ [][CallsNext]_callsVars

\* Handlers and Runs go on: the lookup has 2 s, an API command 5 s, the insert
\* 5 s, the archive 60 s, and a turn returns when its context is done.  A
\* Run that nobody canceled may go on for ever, and so may the caller.
FairCallsSpec ==
    /\ CallsSpec
    /\ \A p \in Park : /\ WF_callsVars(ParkStep(p)) /\ WF_callsVars(RunStep(p))
                       /\ WF_callsVars(ArchiveStep(p))
    /\ WF_callsVars(MainStep)

---------------------------------------------------------------------------
(* Properties.                                                             *)

\* Every variable keeps its type; a Run is started by a handler that ended,
\* and its archive goroutine by its defers.
CallsTypeOK ==
    /\ hnd \in [Park -> HndPc] /\ run \in [Park -> RunPc]
    /\ arch \in [Park -> ArchPc] /\ canceled \in [Park -> BOOLEAN]
    /\ sessions \in Park \cup {None}
    /\ chan \in {"parked", "up", "down"} /\ hup \in {"none", "sent", "handled"}
    /\ mp3 \in BOOLEAN /\ row \in {"none", "row", "url"} /\ main \in MainPc
    /\ \A p \in Park : /\ run[p] # "none" => hnd[p] = "ended"
                       /\ arch[p] # "none" => run[p] \in {"insert", "done"}

\* The map's entry belongs to a Run that has not finished, and the only Run a
\* channel ever had is in the map as long as it is on the call: HANGUP and
\* DrainAll find it there.
SessionIsLive ==
    /\ sessions # None => run[sessions] \in {"added", "answered", "loop", "unwind"}
    /\ \A p \in OnCall :
         (\A q \in Park \ {p} : run[q] = "none") => sessions = p

\* No later write of the record blanks a recording_url that is there
\* (postgres.go:89-91), a second Run of the call included.
UrlNeverBlanked == [][row = "url" => row' = "url"]_callsVars

\* A Run whose session was canceled, by HANGUP, DrainAll or itself, writes its
\* record and is done, whatever the channel is by then.
CanceledRunEnds == \A p \in Park : canceled[p] ~> (run[p] = "done" \/ ~Alive)

\* After SIGTERM the process ends, although DrainAll cancels only the sessions
\* it sees at once and inbound.Wait has no limit.
ShutdownCompletes == main = "stopping" ~> main = "exited"

\* The handler runs "an inbound session per matching call" (inbound.go:31),
\* however its PARK events are handled.
OneSessionPerCall == Cardinality(OnCall) <= 1

\* The archiver writes the URL "AFTER the initial Insert" (postgres.go:90):
\* once a write of it was acknowledged, a row of the call has it.
UrlRecorded == (\E p \in Park : arch[p] = "done") /\ row # "none" => row = "url"

=============================================================================
