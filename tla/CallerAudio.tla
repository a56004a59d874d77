----------------------------- MODULE CallerAudio ----------------------------
(* The caller's voice on its way to the recogniser: FreeSWITCH writes a FIFO, *)
(* FIFOSource's goroutine reads it (audio/fifo_source.go), Listen or, while   *)
(* the bot speaks, the barge-in monitor sends the frames into a gRPC stream   *)
(* (asr/viettel_grpc.go), and recvLoop brings the results back.  `run` is the *)
(* goroutine of SessionRunner.Run.                                            *)
EXTENDS Naturals, FiniteSets

CONSTANTS Streams,  \* bound: gRPC streams whose recvLoop still runs
          ChanCap,  \* frames in FIFOSource.frames (8)
          Window,   \* frames the server lets a client send before it reads them
          OutCap    \* results in viettelStream.out (8)

VARIABLES run,      \* where Run is: in a Speak, in Listen, in its defers
          callCtx,  \* the session's context is done
          frames,   \* frames in FIFOSource.frames
          rdr, srcCtx, fdOpen,  \* FIFOSource: its goroutine, its context, its file
          cur,      \* the stream in use, None without one
          up,       \* its sending side: see NewUp
          str,      \* of each stream: its context, recvLoop and out
          pump,     \* the monitor's pump: "off", "take", "gate", "sending"
          watcher,  \* the monitor's other goroutine is running
          drain     \* the goroutine that replaces the monitor is running

sourceVars == <<frames, rdr, srcCtx, fdOpen>>
monVars == <<pump, watcher, drain>>
audioVars == <<run, callCtx, sourceVars, cur, up, str, monVars>>

None == "none"

\* sendMu is held, CloseSend was called, Close was called; frames the server
\* has still to read; it goes on answering.
NewUp == [mu |-> FALSE, sendClosed |-> FALSE, closed |-> FALSE, unread |-> 0, srv |-> TRUE]
NoUp == [NewUp EXCEPT !.closed = TRUE]

\* recvLoop waits for the server, has a result for out, or is over.
NewStream == [ctx |-> TRUE, recv |-> "wait", out |-> 0]
OverStream == [ctx |-> FALSE, recv |-> "done", out |-> 0]

AudioInit ==
    /\ run = "idle" /\ callCtx = TRUE
    /\ frames = 0 /\ rdr = "check" /\ srcCtx = TRUE /\ fdOpen = TRUE
    /\ cur = None /\ up = NoUp /\ str = [s \in Streams |-> OverStream]
    /\ pump = "off" /\ watcher = FALSE /\ drain = FALSE

\* A stream's own context ends with the call's; the server ends it as well.
Alive(s) == str[s].ctx /\ callCtx
Works(s) == Alive(s) /\ (s = cur => up.srv)
OutClosed(s) == str[s].recv = "done" /\ str[s].out = 0

\* ------------------------------------------------------------------ FIFOSource

\* The select before each read.
ReaderChecks ==
    /\ rdr = "check"
    /\ rdr' = IF srcCtx /\ callCtx THEN "read" ELSE "done"
    /\ UNCHANGED <<run, callCtx, frames, srcCtx, fdOpen, cur, up, str, monVars>>

\* ReadFull returns a frame that FreeSWITCH has recorded, or the error of a
\* closed file.  It does not end with the writer: the FIFO is open for writing
\* here, too.
FrameRead ==
    /\ rdr = "read" /\ fdOpen
    /\ rdr' = "send"
    /\ UNCHANGED <<run, callCtx, frames, srcCtx, fdOpen, cur, up, str, monVars>>

ReadInterrupted ==
    /\ rdr = "read" /\ ~fdOpen
    /\ rdr' = "done"
    /\ UNCHANGED <<run, callCtx, frames, srcCtx, fdOpen, cur, up, str, monVars>>

\* The select with the channel: full, it ends with the context.
ReaderSends ==
    /\ rdr = "send"
    /\ \/ frames < ChanCap /\ frames' = frames + 1 /\ rdr' = "check"
       \/ ~(srcCtx /\ callCtx) /\ rdr' = "done" /\ UNCHANGED frames
    /\ UNCHANGED <<run, callCtx, srcCtx, fdOpen, cur, up, str, monVars>>

\* A bug: the file is closed by the reader, which Close waits for.
CloseSource_KeepsFile ==
    /\ run = "defers"
    /\ srcCtx' = FALSE
    /\ run' = "srcclose"
    /\ UNCHANGED <<callCtx, frames, rdr, fdOpen, cur, up, str, monVars>>

\* Close: the context, then the file, which unblocks the read ...
CloseSource ==
    /\ run = "defers"
    /\ srcCtx' = FALSE /\ fdOpen' = FALSE
    /\ run' = "srcclose"
    /\ UNCHANGED <<callCtx, frames, rdr, cur, up, str, monVars>>

\* ... and <-done.
SourceClosed ==
    /\ run = "srcclose" /\ rdr = "done"
    /\ run' = "end"
    /\ UNCHANGED <<callCtx, sourceVars, cur, up, str, monVars>>

Reader == ReaderChecks \/ ReadInterrupted \/ ReaderSends

\* The frames channel: a frame, or the end when the reader closed it.
TakeFrame == frames > 0 /\ frames' = frames - 1 /\
             UNCHANGED <<rdr, srcCtx, fdOpen>>
SourceOver == frames = 0 /\ rdr = "done"

\* --------------------------------------------------------------- viettelStream

\* StartStream
Free == {s \in Streams : str[s].recv = "done"}
StartStream ==
    /\ Free # {} /\ cur = None
    /\ cur' = CHOOSE s \in Free : TRUE
    /\ str' = [str EXCEPT ![cur'] = NewStream]
    /\ up' = NewUp

\* grpc.Send blocks while the window is full and the stream is alive.
SendOk == Works(cur) /\ ~up.sendClosed
SendDone ==
    /\ up.unread < Window \/ ~SendOk
    /\ up' = [up EXCEPT !.mu = FALSE, !.unread = IF SendOk THEN @ + 1 ELSE @]

\* A bug: CloseSend does not wait for a Send to return.
CloseStream_NoMutex == str' = [str EXCEPT ![cur].ctx = FALSE]

\* Close cancels the context only after CloseSend, which needs sendMu.
CloseStream ==
    /\ ~up.mu
    /\ str' = [str EXCEPT ![cur].ctx = FALSE]

\* External: the server reads a frame, answers, or ends the stream.
ServerReads ==
    /\ cur # None /\ Works(cur) /\ up.unread > 0
    /\ up' = [up EXCEPT !.unread = @ - 1]
    /\ UNCHANGED <<run, callCtx, sourceVars, cur, str, monVars>>

\* recvLoop gets a reply it passes on; others it skips.
ServerAnswers(s) ==
    /\ Works(s) /\ str[s].recv = "wait"
    /\ str' = [str EXCEPT ![s].recv = "emit"]
    /\ UNCHANGED <<run, callCtx, sourceVars, cur, up, monVars>>

ServerEnds ==
    /\ cur # None /\ Works(cur)
    /\ up' = [up EXCEPT !.srv = FALSE]
    /\ UNCHANGED <<run, callCtx, sourceVars, cur, str, monVars>>

\* recvLoop hands a result over, or ends with the context while out is full.
RecvEmits(s) ==
    /\ str[s].recv = "emit"
    /\ \/ str[s].out < OutCap /\ str' = [str EXCEPT ![s].out = @ + 1, ![s].recv = "wait"]
       \/ ~Alive(s) /\ str' = [str EXCEPT ![s].recv = "done"]
    /\ UNCHANGED <<run, callCtx, sourceVars, cur, up, monVars>>

\* Recv returns the end of the stream or its cancellation.
RecvEnds(s) ==
    /\ str[s].recv = "wait" /\ ~Works(s)
    /\ str' = [str EXCEPT ![s].recv = "done"]
    /\ UNCHANGED <<run, callCtx, sourceVars, cur, up, monVars>>

Recv(s) == RecvEmits(s) \/ RecvEnds(s)
TakeResult(s) == str[s].out > 0 /\ str' = [str EXCEPT ![s].out = @ - 1]

\* ------------------------------------------- Speak: the monitor, or the drain

\* The turn begins with the monitor's stream or, without barge-in and when the
\* stream does not start, with the drain.
SpeakBegins ==
    /\ run = "idle"
    /\ run' = "speak"
    /\ \/ StartStream /\ pump' = "take" /\ watcher' = TRUE /\ UNCHANGED drain
       \/ drain' = TRUE /\ UNCHANGED <<cur, up, str, pump, watcher>>
    /\ UNCHANGED <<callCtx, sourceVars>>

\* The pump takes a frame; SendAudio refuses it when the stream is closed.
PumpTakes ==
    /\ pump = "take" /\ TakeFrame
    /\ pump' = IF up.sendClosed \/ up.closed THEN "off" ELSE "gate"
    /\ UNCHANGED <<run, callCtx, cur, up, str, watcher, drain>>

\* sendMu: Close may have come first.
PumpLocks ==
    /\ pump = "gate" /\ ~up.mu
    /\ up' = [up EXCEPT !.mu = TRUE]
    /\ pump' = "sending"
    /\ UNCHANGED <<run, callCtx, sourceVars, cur, str, watcher, drain>>

\* An error ends the pump: nobody reads the caller's frames any more.
PumpSent ==
    /\ pump = "sending" /\ SendDone
    /\ pump' = IF SendOk THEN "take" ELSE "off"
    /\ UNCHANGED <<run, callCtx, sourceVars, cur, str, watcher, drain>>

\* stopCh, the context, or the end of the source.
PumpStops ==
    /\ pump = "take"
    /\ run \in {"stopping", "join"} \/ ~callCtx \/ SourceOver
    /\ pump' = "off"
    /\ UNCHANGED <<run, callCtx, sourceVars, cur, up, str, watcher, drain>>

\* A result; a final after the trigger ends the watcher, the pump goes on.
WatcherTakes ==
    /\ watcher /\ TakeResult(cur)
    /\ watcher' \in BOOLEAN
    /\ UNCHANGED <<run, callCtx, sourceVars, cur, up, pump, drain>>

WatcherEnds ==
    /\ watcher /\ OutClosed(cur)
    /\ watcher' = FALSE
    /\ UNCHANGED <<run, callCtx, sourceVars, cur, up, str, pump, drain>>

DrainTakes ==
    /\ drain /\ TakeFrame
    /\ UNCHANGED <<run, callCtx, cur, up, str, monVars>>

DrainStops ==
    /\ drain /\ (run = "join" \/ SourceOver)
    /\ drain' = FALSE
    /\ UNCHANGED <<run, callCtx, sourceVars, cur, up, str, pump, watcher>>

\* Speak is over (Turn has the reasons): monitor.stop closes stopCh and marks
\* the stream closed, or drainStop is closed.
SpeakEnds ==
    /\ run = "speak"
    /\ IF cur = None THEN run' = "join" /\ UNCHANGED up
       ELSE run' = "stopping" /\ up' = [up EXCEPT !.closed = TRUE]
    /\ UNCHANGED <<callCtx, sourceVars, cur, str, monVars>>

\* stream.Close needs sendMu, which a blocked SendAudio holds.
StopCloses ==
    /\ run = "stopping" /\ CloseStream
    /\ up' = [up EXCEPT !.sendClosed = TRUE]
    /\ run' = "join"
    /\ UNCHANGED <<callCtx, sourceVars, cur, monVars>>

\* A bug: the drain is told to stop and not waited for.
Joined_DrainGoesOn ==
    /\ run = "join" /\ pump = "off" /\ ~watcher
    /\ run' = "between" /\ cur' = None /\ up' = NoUp
    /\ UNCHANGED <<callCtx, sourceVars, str, monVars>>

\* <-m.done or <-drainDone
Joined ==
    /\ run = "join" /\ pump = "off" /\ ~watcher /\ ~drain
    /\ run' = "between" /\ cur' = None /\ up' = NoUp
    /\ UNCHANGED <<callCtx, sourceVars, str, monVars>>

\* The next turn: Listen, or another Speak with what the monitor heard; or
\* ENDCALL, an error, the context: Run returns.
NextTurn ==
    /\ run = "between"
    /\ run' \in IF callCtx THEN {"ready", "idle", "defers"} ELSE {"defers"}
    /\ UNCHANGED <<callCtx, sourceVars, cur, up, str, monVars>>

\* ----------------------------------------------------------------------- Listen

Listening == {"listen", "sending", "draining"}

\* StartStream, or its error, which ends the call.
ListenBegins ==
    /\ run = "ready"
    /\ \/ StartStream /\ run' = "listen"
       \/ run' = "defers" /\ UNCHANGED <<cur, up, str>>
    /\ UNCHANGED <<callCtx, sourceVars, monVars>>

\* readLoop: the context, a final, an error.
ListenReturns ==
    /\ run \in {"listen", "draining"} /\ ~callCtx
    /\ run' = "leaving"
    /\ UNCHANGED <<callCtx, sourceVars, cur, up, str, monVars>>

\* The silent timeout, and the end of the caller's audio, half-close the
\* stream: the server owes a final.
ListenHalfCloses ==
    /\ run = "listen"
    /\ up' = [up EXCEPT !.sendClosed = TRUE]
    /\ run' = "draining"
    /\ UNCHANGED <<callCtx, sourceVars, cur, str, monVars>>

ListenTakes ==
    /\ run = "listen" /\ TakeFrame
    /\ run' = "sending"
    /\ up' = [up EXCEPT !.mu = TRUE]
    /\ UNCHANGED <<callCtx, cur, str, monVars>>

\* A stream that is over says io.EOF, its results are read; other errors return.
ListenSent ==
    /\ run = "sending" /\ SendDone
    /\ run' \in IF SendOk THEN {"listen"} ELSE {"draining", "leaving"}
    /\ UNCHANGED <<callCtx, sourceVars, cur, str, monVars>>

\* A partial goes on, a final returns.
ListenHears ==
    /\ run \in {"listen", "draining"} /\ TakeResult(cur)
    /\ run' \in {run, "leaving"}
    /\ UNCHANGED <<callCtx, sourceVars, cur, up, monVars>>

ListenOutClosed ==
    /\ run \in {"listen", "draining"} /\ OutClosed(cur)
    /\ run' = IF run = "listen" THEN "draining" ELSE "leaving"
    /\ UNCHANGED <<callCtx, sourceVars, cur, up, str, monVars>>

\* A bug: the drain waits for the server without a limit.
DrainTimeout_Never ==
    /\ run = "draining" /\ ~callCtx
    /\ run' = "leaving"
    /\ UNCHANGED <<callCtx, sourceVars, cur, up, str, monVars>>

\* Two seconds for the final.
DrainTimeout ==
    /\ run = "draining"
    /\ run' = "leaving"
    /\ UNCHANGED <<callCtx, sourceVars, cur, up, str, monVars>>

\* The deferred stream.Close; then a Speak, Listen again, or the end.
ListenLeaves ==
    /\ run = "leaving" /\ CloseStream
    /\ cur' = None /\ up' = NoUp
    /\ run' \in IF callCtx THEN {"idle", "ready", "defers"} ELSE {"defers"}
    /\ UNCHANGED <<callCtx, sourceVars, monVars>>

\* -------------------------------------------------------------------------------

\* The caller hangs up, or the server shuts down.
HangUp ==
    /\ callCtx /\ run # "end"
    /\ callCtx' = FALSE
    /\ UNCHANGED <<run, sourceVars, cur, up, str, monVars>>

\* The call ends before its first turn.
RunEnds ==
    /\ run = "idle"
    /\ run' = "defers"
    /\ UNCHANGED <<callCtx, sourceVars, cur, up, str, monVars>>

SpeakStep == SpeakBegins \/ SpeakEnds \/ StopCloses \/ Joined \/ NextTurn
ListenStep == \/ ListenBegins \/ ListenReturns \/ ListenTakes \/ ListenSent
              \/ ListenHears \/ ListenOutClosed \/ ListenLeaves
Timer == ListenHalfCloses \/ DrainTimeout
Defers == RunEnds \/ CloseSource \/ SourceClosed
Pump == PumpTakes \/ PumpLocks \/ PumpSent \/ PumpStops
Watcher == WatcherTakes \/ WatcherEnds
Drain == DrainTakes \/ DrainStops

AudioNext ==
    \/ SpeakStep \/ ListenStep \/ Timer \/ Defers \/ Reader \/ Pump \/ Watcher \/ Drain
    \/ FrameRead \/ HangUp
    \/ ServerReads \/ ServerEnds
    \/ \E s \in Streams : Recv(s) \/ ServerAnswers(s)

AudioSpec == AudioInit /\ [][AudioNext]_audioVars

\* ----------------------------------------------------------------- properties

\* The caller's frames have one reader: Listen never shares them with the
\* monitor or the drain of the Speak before it, which would eat some of them.
OneReader ==
    Cardinality({t \in {"listen", "pump", "drain"} :
        \/ t = "listen" /\ run \in Listening
        \/ t = "pump" /\ pump # "off"
        \/ t = "drain" /\ drain}) <= 1

\* A stream is half-closed, or given up for the next, only while no Send is under
\* way on it, whoever sends: gRPC allows no CloseSend beside a SendMsg
\* (viettel_grpc.go 77-131).
SendsAlone == [][cur' # cur \/ up'.sendClosed # up.sendClosed => ~up.mu]_audioVars

\* Once the call is hung up Run ends and nothing is left of it: not the reader
\* of a FIFO that has no writer, not a pump in a full gRPC window, not a
\* recvLoop with a result nobody takes (fifo_source.go 61-69).
HangupEndsAudio ==
    ~callCtx ~> /\ run = "end" /\ rdr = "done"
                /\ \A s \in Streams : str[s].recv = "done"

Stalled == cur # None /\ Works(cur) /\ up.unread = Window

\* As long as the recogniser goes on reading, it may be as silent as it likes:
\* a Listen and the stop of a monitor come to an end.
ReadingServerIsEnough ==
    []<>~Stalled => /\ (run \in Listening) ~> (run \notin Listening)
                    /\ (run = "stopping") ~> (run # "stopping")

\* Listen stops when "cfg.SilentTimeout elapses (master-side safety cap)"
\* (turn.go 259), whatever the recogniser does.
ListenIsCapped == (run \in Listening) ~> (run \notin Listening)
=============================================================================
