------------------------------ MODULE Outbound ------------------------------
(***************************************************************************)
(* A campaign's calls end to end: the worker pool of Campaign with its     *)
(* OriginateFunc (internal/pipeline/outbound.go), the bgapi job wait of    *)
(* internal/freeswitch/eventsocket.go, the ANSWER and HANGUP handlers and  *)
(* the session that Run keeps in session.Manager.  Every ESL event handler *)
(* is a goroutine of its own (eventsocket.go:190), so a later event may    *)
(* overtake an earlier one; BACKGROUND_JOB is handled by the reader.       *)
(* FreeSWITCH is external.  Events are not lost here: what is lost is what *)
(* the program itself drops.                                               *)
(***************************************************************************)
EXTENDS Campaign

VARIABLES
    orig,         \* [Lead -> where Originate and SendOriginate are]
    job,          \* [Lead -> result of the bgapi job, until it is read]
    chan,         \* [Lead -> the FreeSWITCH channel]
    inPending,    \* [Lead -> OutboundHandler.pending has the uuid]
    wasAnswered,  \* [Lead -> pendingCall.wasAnswered]
    ans, hup,     \* [Lead -> the ANSWER and the HANGUP handler]
    run,          \* [Lead -> the goroutine inside SessionRunner.Run]
    inSessions,   \* [Lead -> session.Manager has the uuid]
    sessCanceled, \* [Lead -> Session.Cancel was called by the HANGUP handler]
    missed        \* history: leads for which an end was reported in vain

originateVars == <<orig, job, chan>>
handlerVars == <<inPending, wasAnswered, ans, hup>>
sessionVars == <<run, inSessions, sessCanceled>>
callVars == <<originateVars, handlerVars, sessionVars, missed>>
outVars == <<campaignVars, callVars>>

\* ended: was up; noanswer and rejected: never was.
Over == {"ended", "noanswer", "rejected"}
PickedUp(l) == chan[l] \in {"up", "ended"}

OutInit ==
    /\ CampaignInit
    /\ orig = [l \in Lead |-> "idle"]
    /\ job = [l \in Lead |-> "none"]
    /\ chan = [l \in Lead |-> "none"]
    /\ inPending = [l \in Lead |-> FALSE]
    /\ wasAnswered = [l \in Lead |-> FALSE]
    /\ ans = [l \in Lead |-> "none"]
    /\ hup = [l \in Lead |-> "none"]
    /\ run = [l \in Lead |-> "none"]
    /\ inSessions = [l \in Lead |-> FALSE]
    /\ sessCanceled = [l \in Lead |-> FALSE]
    /\ missed = {}

\* A bug: the callback goes by lead, not by uuid.
LeadCallback_ByLead(l, s) ==
    /\ status' = [status EXCEPT ![l] = s]
    /\ UNCHANGED <<poolState, hasUUID, cancelState, late, missed>>

\* OnAnswered and OnEnded go to SetLeadStatus with the call's uuid.
LeadCallback(l, s) ==
    /\ Callback(l, s)
    /\ missed' = IF hasUUID[l] \/ s = "answered" THEN missed ELSE missed \cup {l}

---------------------------------------------------------------------------
(* Originate, in the lead's worker.                                        *)

\* The registry cannot build the providers: no call is placed.
NoProviders(l) ==
    /\ worker[l] = "dialing" /\ orig[l] = "idle"
    /\ orig' = [orig EXCEPT ![l] = "err"]
    /\ UNCHANGED <<campaignVars, missed, job, chan, handlerVars, sessionVars>>

\* pending.Store comes before the originate command.
RegisterPending(l) ==
    /\ worker[l] = "dialing" /\ orig[l] = "idle"
    /\ orig' = [orig EXCEPT ![l] = "registered"]
    /\ inPending' = [inPending EXCEPT ![l] = TRUE]
    /\ UNCHANGED <<campaignVars, missed, job, chan, wasAnswered, ans, hup, sessionVars>>

\* bgapi originate is sent; or Send fails: the API connection is down, or its
\* reply did not come and FreeSWITCH may have placed the call all the same.
SendBgapi(l) ==
    /\ orig[l] = "registered"
    /\ \/ /\ orig' = [orig EXCEPT ![l] = "sent"]
          /\ chan' = [chan EXCEPT ![l] = "ringing"]
       \/ /\ orig' = [orig EXCEPT ![l] = "failing"]
          /\ chan' \in {chan, [chan EXCEPT ![l] = "ringing"]}
    /\ UNCHANGED <<campaignVars, missed, job, handlerVars, sessionVars>>

\* bgJobs.Store, once the reply has told the job's uuid.
StoreJob(l) ==
    /\ orig[l] = "sent"
    /\ orig' = [orig EXCEPT ![l] = "waiting"]
    /\ UNCHANGED <<campaignVars, missed, job, chan, handlerVars, sessionVars>>

\* "+OK ..." is success, any other result an error.
JobVerdict(j) == IF j = "ok" THEN "ok" ELSE "failing"

\* The event reader gets BACKGROUND_JOB; without an entry in bgJobs the
\* result is dropped.
JobEvent(l) ==
    /\ job[l] \in {"ok", "err"}
    /\ job' = [job EXCEPT ![l] = "read"]
    /\ orig' = IF orig[l] = "waiting"
               THEN [orig EXCEPT ![l] = JobVerdict(job[l])] ELSE orig
    /\ UNCHANGED <<campaignVars, missed, chan, handlerVars, sessionVars>>

\* A bug: the timer counts only while FreeSWITCH still rings.
JobTimeout_NotWhileRinging(l) ==
    /\ orig[l] = "waiting" /\ chan[l] = "ringing"
    /\ orig' = [orig EXCEPT ![l] = "failing"]
    /\ UNCHANGED <<campaignVars, missed, job, chan, handlerVars, sessionVars>>

\* 60 s without a job result.
JobTimeout(l) ==
    /\ orig[l] = "waiting"
    /\ orig' = [orig EXCEPT ![l] = "failing"]
    /\ UNCHANGED <<campaignVars, missed, job, chan, handlerVars, sessionVars>>

\* pending.Delete, then OnEnded(failed).
FailOriginate(l) ==
    /\ orig[l] = "failing"
    /\ orig' = [orig EXCEPT ![l] = "err"]
    /\ inPending' = [inPending EXCEPT ![l] = FALSE]
    /\ LeadCallback(l, "failed")
    /\ UNCHANGED <<job, chan, wasAnswered, ans, hup, sessionVars>>

ReturnFromOriginate(l) ==
    /\ \/ orig[l] = "ok" /\ OriginateOk(l)
       \/ orig[l] = "err" /\ OriginateErr(l)
    /\ orig' = [orig EXCEPT ![l] = "returned"]
    /\ UNCHANGED <<missed, job, chan, handlerVars, sessionVars>>

---------------------------------------------------------------------------
(* FreeSWITCH: with ignore_early_media the job ends when the callee picks  *)
(* up or the attempt fails.                                                *)

FsAnswer(l) ==
    /\ chan[l] = "ringing"
    /\ chan' = [chan EXCEPT ![l] = "up"]
    /\ ans' = [ans EXCEPT ![l] = "spawned"]
    /\ job' = [job EXCEPT ![l] = "ok"]
    /\ UNCHANGED <<campaignVars, missed, orig, inPending, wasAnswered, hup, sessionVars>>

FsFail(l) ==
    /\ chan[l] = "ringing"
    /\ \E c \in {"noanswer", "rejected"} : chan' = [chan EXCEPT ![l] = c]
    /\ hup' = [hup EXCEPT ![l] = "spawned"]
    /\ job' = [job EXCEPT ![l] = "err"]
    /\ UNCHANGED <<campaignVars, missed, orig, inPending, wasAnswered, ans, sessionVars>>

FsHangup(l) ==
    /\ chan[l] = "up"
    /\ chan' = [chan EXCEPT ![l] = "ended"]
    /\ hup' = [hup EXCEPT ![l] = "spawned"]
    /\ UNCHANGED <<campaignVars, missed, orig, job, inPending, wasAnswered, ans, sessionVars>>

---------------------------------------------------------------------------
(* onAnswer.                                                               *)

AnsLoad(l) ==
    /\ ans[l] = "spawned"
    /\ ans' = [ans EXCEPT ![l] = IF inPending[l] THEN "loaded" ELSE "done"]
    /\ UNCHANGED <<campaignVars, missed, originateVars, inPending, wasAnswered, hup, sessionVars>>

\* wasAnswered is set before the check for a session that already runs.
AnsFlag(l) ==
    /\ ans[l] = "loaded"
    /\ wasAnswered' = [wasAnswered EXCEPT ![l] = TRUE]
    /\ ans' = [ans EXCEPT ![l] = IF inSessions[l] THEN "done" ELSE "accepted"]
    /\ UNCHANGED <<campaignVars, missed, originateVars, inPending, hup, sessionVars>>

\* onAnswered, then the goroutine that runs the session.
AnsAccept(l) ==
    /\ ans[l] = "accepted"
    /\ LeadCallback(l, "answered")
    /\ ans' = [ans EXCEPT ![l] = "done"]
    /\ run' = [run EXCEPT ![l] = "spawned"]
    /\ UNCHANGED <<originateVars, inPending, wasAnswered, hup, inSessions, sessCanceled>>

---------------------------------------------------------------------------
(* onHangup.                                                               *)

HupSession(l) ==
    /\ hup[l] = "spawned"
    /\ hup' = [hup EXCEPT ![l] = IF inSessions[l] THEN "done" ELSE "nosession"]
    /\ sessCanceled' = [sessCanceled EXCEPT ![l] = @ \/ inSessions[l]]
    /\ UNCHANGED <<campaignVars, missed, originateVars, inPending, wasAnswered, ans, run, inSessions>>

\* classifyHangup: only NO_ANSWER and its kin are no_answer.
ClassifyHangup(c) == IF c = "noanswer" THEN "no_answer" ELSE "failed"

\* The status the handler decides on, from wasAnswered and the cause.
Verdict(l) == IF wasAnswered[l] THEN "completed" ELSE ClassifyHangup(chan[l])

\* LoadAndDelete and the read of wasAnswered.
HupTake(l) ==
    /\ hup[l] = "nosession"
    /\ hup' = [hup EXCEPT ![l] = IF inPending[l] THEN Verdict(l) ELSE "done"]
    /\ inPending' = [inPending EXCEPT ![l] = FALSE]
    /\ UNCHANGED <<campaignVars, missed, originateVars, wasAnswered, ans, sessionVars>>

HupReport(l) ==
    /\ hup[l] \in CallbackStatus
    /\ LeadCallback(l, hup[l])
    /\ hup' = [hup EXCEPT ![l] = "done"]
    /\ UNCHANGED <<originateVars, inPending, wasAnswered, ans, sessionVars>>

---------------------------------------------------------------------------
(* SessionRunner.Run, as far as the handlers see it.                       *)

RunStart(l) ==
    /\ run[l] = "spawned"
    /\ run' = [run EXCEPT ![l] = "active"]
    /\ inSessions' = [inSessions EXCEPT ![l] = TRUE]
    /\ UNCHANGED <<campaignVars, missed, originateVars, handlerVars, sessCanceled>>

\* ENDCALL: uuid_kill hangs the channel up, if it is still there.
RunEndCall(l) ==
    /\ run[l] = "active"
    /\ run' = [run EXCEPT ![l] = "ending"]
    /\ chan' = IF chan[l] = "up" THEN [chan EXCEPT ![l] = "ended"] ELSE chan
    /\ hup' = IF chan[l] = "up" THEN [hup EXCEPT ![l] = "spawned"] ELSE hup
    /\ UNCHANGED <<campaignVars, missed, orig, job, inPending, wasAnswered, ans,
                   inSessions, sessCanceled>>

\* Run returns because its session was canceled, or on an error.
RunReturn(l) ==
    /\ run[l] = "active"
    /\ run' = [run EXCEPT ![l] = "ending"]
    /\ UNCHANGED <<campaignVars, missed, originateVars, handlerVars, inSessions, sessCanceled>>

\* A bug: a session that a hangup canceled reports nothing.
RunOnEnd_NotIfCanceled(l) ==
    /\ run[l] = "ending"
    /\ IF sessCanceled[l] THEN UNCHANGED <<campaignVars, missed>>
       ELSE LeadCallback(l, "completed")
    /\ run' = [run EXCEPT ![l] = "reported"]
    /\ UNCHANGED <<originateVars, handlerVars, inSessions, sessCanceled>>

\* The deferred OnEnd reports completed, whatever Run returned ...
RunOnEnd(l) ==
    /\ run[l] = "ending"
    /\ LeadCallback(l, "completed")
    /\ run' = [run EXCEPT ![l] = "reported"]
    /\ UNCHANGED <<originateVars, handlerVars, inSessions, sessCanceled>>

\* A bug: Sessions.Remove is skipped.
RunRemove_KeepSession(l) ==
    /\ run[l] = "reported"
    /\ run' = [run EXCEPT ![l] = "ended"]
    /\ inPending' = [inPending EXCEPT ![l] = FALSE]
    /\ UNCHANGED <<campaignVars, missed, originateVars, wasAnswered, ans, hup,
                   inSessions, sessCanceled>>

\* A bug: OnEnd does not delete the pending entry.
RunRemove_KeepPending(l) ==
    /\ run[l] = "reported"
    /\ run' = [run EXCEPT ![l] = "ended"]
    /\ inSessions' = [inSessions EXCEPT ![l] = FALSE]
    /\ UNCHANGED <<campaignVars, missed, originateVars, handlerVars, sessCanceled>>

\* ... and deletes the pending entry; then Sessions.Remove.
RunRemove(l) ==
    /\ run[l] = "reported"
    /\ run' = [run EXCEPT ![l] = "ended"]
    /\ inPending' = [inPending EXCEPT ![l] = FALSE]
    /\ inSessions' = [inSessions EXCEPT ![l] = FALSE]
    /\ UNCHANGED <<campaignVars, missed, originateVars, wasAnswered, ans, hup, sessCanceled>>

---------------------------------------------------------------------------
PoolStep ==
    /\ LoopStep \/ CancelFlag \/ CancelCtx
       \/ \E l \in Lead : StartDial(l) \/ Release(l)
    /\ UNCHANGED callVars

OriginateStep(l) ==
    \/ NoProviders(l) \/ RegisterPending(l) \/ SendBgapi(l) \/ StoreJob(l)
    \/ FailOriginate(l) \/ ReturnFromOriginate(l)
HandlerStep(l) ==
    \/ AnsLoad(l) \/ AnsFlag(l) \/ AnsAccept(l)
    \/ HupSession(l) \/ HupTake(l) \/ HupReport(l)
RunStep(l) == RunStart(l) \/ RunOnEnd(l) \/ RunRemove(l)
FsStep(l) == FsAnswer(l) \/ FsFail(l) \/ FsHangup(l)

OutNext ==
    \/ PoolStep
    \/ \E l \in Lead :
         \/ OriginateStep(l) \/ JobEvent(l) \/ JobTimeout(l)
         \/ FsStep(l) \/ HandlerStep(l) \/ RunStep(l)
         \/ RunEndCall(l) \/ RunReturn(l)

OutSpec == OutInit /\ [][OutNext]_outVars

(* Goroutines run, the 60 s timer of a waiting originate fires, a canceled
   session's Run returns.  Nothing is assumed of FreeSWITCH, the callee, the
   operator who may cancel, or of a session that nobody canceled. *)
OutFairness ==
    /\ WF_outVars((LoopStep \/ CancelCtx) /\ UNCHANGED callVars)
    /\ \A l \in Lead :
         /\ WF_outVars(StartDial(l) /\ UNCHANGED callVars)
         /\ WF_outVars(Release(l) /\ UNCHANGED callVars)
         /\ WF_outVars(OriginateStep(l))
         /\ WF_outVars(JobTimeout(l))
         /\ WF_outVars(JobEvent(l))
         /\ WF_outVars(HandlerStep(l))
         /\ WF_outVars(RunStep(l))
         /\ WF_outVars(RunReturn(l) /\ sessCanceled[l])

FairOutSpec == OutSpec /\ OutFairness

---------------------------------------------------------------------------
(* Properties.                                                             *)

\* The types of the call's variables.
OutTypeOK ==
    /\ CampaignTypeOK
    /\ orig \in [Lead -> {"idle", "registered", "sent", "waiting", "ok",
                          "failing", "err", "returned"}]
    /\ job \in [Lead -> {"none", "ok", "err", "read"}]
    /\ chan \in [Lead -> {"none", "ringing", "up"} \cup Over]
    /\ inPending \in [Lead -> BOOLEAN]
    /\ wasAnswered \in [Lead -> BOOLEAN]
    /\ ans \in [Lead -> {"none", "spawned", "loaded", "accepted", "done"}]
    /\ hup \in [Lead -> {"none", "spawned", "nosession", "done"} \cup CallbackStatus]
    /\ run \in [Lead -> {"none", "spawned", "active", "ending", "reported", "ended"}]
    /\ inSessions \in [Lead -> BOOLEAN]
    /\ sessCanceled \in [Lead -> BOOLEAN]
    /\ missed \subseteq Lead

HandlersDone(l) == ans[l] \in {"none", "done"} /\ hup[l] \in {"none", "done"}

\* Nothing more will happen to the call of l.
Quiet(l) ==
    /\ worker[l] = "exited"
    /\ chan[l] \in Over \cup {"none"}
    /\ HandlersDone(l)
    /\ run[l] \in {"none", "ended"}

\* A lead counted as answered or completed was really picked up, and only a
\* call that was picked up ever gets its CallUUID recorded, in whatever order
\* the ANSWER, HANGUP and BACKGROUND_JOB events are handled.
ReportedOnlyIfPickedUp ==
    \A l \in Lead : hasUUID[l] \/ status[l] \in {"answered", "completed"}
                    => PickedUp(l)

\* When a call is over the pending map has forgotten it: every path out of
\* Originate, onHangup and Run deletes the entry, whichever comes first.
NoPendingLeak == \A l \in Lead : Quiet(l) => ~inPending[l]

\* A session is in the manager exactly while Run is between Add and Remove,
\* and only for a call that was picked up, so DrainAll finds every session.
SessionsMatchRuns ==
    \A l \in Lead :
        /\ inSessions[l] <=> run[l] \in {"active", "ending", "reported"}
        /\ run[l] # "none" => PickedUp(l)

\* The maps of the process fit the calls: types, pending entries, sessions.
OutInv == OutTypeOK /\ NoPendingLeak /\ SessionsMatchRuns

\* outbound.go:117: OnAnswered and OnEnded "keep lead status in sync with FS
\* reality": the status of a lead says that its call is over.
Settled(l) == status[l] \in {"completed", "failed", "no_answer", "canceled"}

\* As far as the code keeps that: a lead whose call is over is settled, in any
\* order of its handlers, unless the end of the call was reported before its
\* worker had recorded the CallUUID (manager.go 219-239, lead.go 191-208).
SettlesUnlessMissed == \A l \in Lead : Quiet(l) => Settled(l) \/ l \in missed

\* What an operator reads in the status of a lead: a call that is counted was
\* picked up, and one that is over is not shown as going on.
StatusIsTrue == ReportedOnlyIfPickedUp /\ SettlesUnlessMissed

\* The pool of Campaign, with callbacks at any moment, is what the pool does
\* under these handlers.
ImplementsCampaign == CampaignSpec

\* The pool ends although job results may be dropped and callees never answer:
\* the 60 s timeout frees the worker.
OutPoolTerminates == <>(loop = "done")

\* A session that a hangup canceled leaves the manager.
CanceledSessionEnds ==
    \A l \in Lead : sessCanceled[l] ~> ~inSessions[l]

---------------------------------------------------------------------------
(* What comments promise and the code does not keep.                       *)

\* outbound.go:117, as it stands: a lead whose call is over is settled.
LeadSettles == \A l \in Lead : Quiet(l) => Settled(l)

\* outbound.go:88: the HANGUP handler cleans up: no session goes on, uncanceled,
\* for a channel whose hangup has been handled.
NoGhostSession ==
    \A l \in Lead : hup[l] = "done" =>
        run[l] \notin {"spawned", "active"} \/ sessCanceled[l]
=============================================================================
