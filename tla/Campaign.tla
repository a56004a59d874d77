------------------------------ MODULE Campaign ------------------------------
(***************************************************************************)
(* One campaign of internal/campaign: the dispatch loop of runWorkers, the *)
(* goroutine it starts per lead, the counting semaphore between them,      *)
(* Manager.Cancel and Campaign.SetLeadStatus.  c.mu makes each critical    *)
(* section one step; what the code does outside it (the check of canceled, *)
(* the select, originate, the pacing sleep) is interleaved.  A lead stands *)
(* for its own call: its CallUUID is unset or the uuid of that call.       *)
(***************************************************************************)
EXTENDS Integers, FiniteSets

CONSTANTS NumLeads,  \* rows of the CSV that have a phone
          CCU        \* CreateOpts.CCU as the caller gave it

\* The API refuses a CSV without leads; Create accepts any integer CCU.
ASSUME NumLeadsAssumption == NumLeads \in Nat \ {0}
ASSUME CCUAssumption == CCU \in Int

VARIABLES
    loop,       \* where runWorkers is: "check", "select" or "done"
    next,       \* index of the lead it looks at
    worker,     \* [Lead -> the goroutine of that lead]
    sem,        \* tokens in the semaphore channel
    status,     \* [Lead -> Lead.Status]
    hasUUID,    \* [Lead -> Lead.CallUUID is set]
    campStatus, \* Campaign.Status
    canceled,   \* Campaign.canceled
    ctxDone,    \* the campaign's context is canceled (Cancel has returned)
    late        \* history: leads whose originate began after that

poolState == <<loop, next, worker, sem>>
leadState == <<status, hasUUID>>
cancelState == <<campStatus, canceled, ctxDone>>
campaignVars == <<poolState, leadState, cancelState, late>>

Lead == 1..NumLeads

\* Create's normalisation of CCU, the capacity of the semaphore.
Slots == IF CCU <= 0 THEN 1 ELSE CCU

CallStatus == {"pending", "dialing", "answered", "completed", "failed",
               "no_answer", "canceled"}

\* The goroutine of a lead: not started; holding a slot but not yet running;
\* inside originate; in the pacing sleep; returned.
WorkerState == {"none", "spawned", "dialing", "pacing", "exited"}

In(w) == {l \in Lead : worker[l] = w}
Dialing == In("dialing")
Holders == In("spawned") \cup In("dialing") \cup In("pacing")

CampaignInit ==
    /\ loop = "check"
    /\ next = 1
    /\ worker = [l \in Lead |-> "none"]
    /\ sem = 0
    /\ status = [l \in Lead |-> "pending"]
    /\ hasUUID = [l \in Lead |-> FALSE]
    /\ campStatus = "running"
    /\ canceled = FALSE
    /\ ctxDone = FALSE
    /\ late = {}

---------------------------------------------------------------------------
(* The dispatch loop.                                                      *)

\* A lead the loop gives up on: pending becomes canceled, under c.mu.
SkipLead ==
    /\ status' = IF status[next] = "pending"
                 THEN [status EXCEPT ![next] = "canceled"] ELSE status
    /\ next' = next + 1
    /\ loop' = "check"

\* A bug: the loop does not look at canceled.
StopSeen_Ignored == FALSE
StopSeen == canceled \/ ctxDone

\* The check of canceled before a slot is taken.
LoopCheck ==
    /\ loop = "check" /\ next \in Lead
    /\ IF StopSeen
       THEN SkipLead
       ELSE loop' = "select" /\ UNCHANGED <<next, status>>
    /\ UNCHANGED <<worker, sem, hasUUID, cancelState, late>>

SlotFree == sem < Slots

\* select: a slot is free, and the lead's goroutine is started ...
LoopAcquire ==
    /\ loop = "select"
    /\ SlotFree
    /\ sem' = sem + 1
    /\ worker' = [worker EXCEPT ![next] = "spawned"]
    /\ next' = next + 1
    /\ loop' = "check"
    /\ UNCHANGED <<leadState, cancelState, late>>

\* ... or the context is done.  With both ready, Go picks either.
LoopCtxDone ==
    /\ loop = "select"
    /\ ctxDone
    /\ SkipLead
    /\ UNCHANGED <<worker, sem, hasUUID, cancelState, late>>

PoolIdle == next \notin Lead /\ \A l \in Lead : worker[l] \in {"none", "exited"}

\* A bug: the final status does not look at canceled.
LoopFinish_Overwrite ==
    /\ loop = "check" /\ PoolIdle
    /\ loop' = "done"
    /\ campStatus' = "done"
    /\ UNCHANGED <<next, worker, sem, leadState, canceled, ctxDone, late>>

\* wg.Wait returns and the final status is written.
LoopFinish ==
    /\ loop = "check" /\ PoolIdle
    /\ loop' = "done"
    /\ campStatus' = IF canceled THEN campStatus ELSE "done"
    /\ UNCHANGED <<next, worker, sem, leadState, canceled, ctxDone, late>>

---------------------------------------------------------------------------
(* The goroutine of lead l.                                                *)

StartDial(l) ==
    /\ worker[l] = "spawned"
    /\ worker' = [worker EXCEPT ![l] = "dialing"]
    /\ status' = [status EXCEPT ![l] = "dialing"]
    /\ late' = IF ctxDone THEN late \cup {l} ELSE late
    /\ UNCHANGED <<loop, next, sem, hasUUID, cancelState>>

OriginateOk(l) ==
    /\ worker[l] = "dialing"
    /\ worker' = [worker EXCEPT ![l] = "pacing"]
    /\ hasUUID' = [hasUUID EXCEPT ![l] = TRUE]
    /\ UNCHANGED <<loop, next, sem, status, cancelState, late>>

OriginateErr(l) ==
    /\ worker[l] = "dialing"
    /\ worker' = [worker EXCEPT ![l] = "pacing"]
    /\ status' = [status EXCEPT ![l] = "failed"]
    /\ UNCHANGED <<loop, next, sem, hasUUID, cancelState, late>>

\* A bug: the slot is given back on success only.
Release_OnlyAfterSuccess(l) ==
    /\ worker[l] = "pacing"
    /\ worker' = [worker EXCEPT ![l] = "exited"]
    /\ sem' = IF hasUUID[l] THEN sem - 1 ELSE sem
    /\ UNCHANGED <<loop, next, leadState, cancelState, late>>

\* The pacing sleep ends (or the context does), the deferred <-sem and
\* wg.Done run.
Release(l) ==
    /\ worker[l] = "pacing"
    /\ worker' = [worker EXCEPT ![l] = "exited"]
    /\ sem' = sem - 1
    /\ UNCHANGED <<loop, next, leadState, cancelState, late>>

---------------------------------------------------------------------------
(* Cancel, and the status callbacks of the call handlers.                  *)

\* Flag and Status under c.mu.  A second Cancel returns at once.
CancelFlag ==
    /\ ~canceled
    /\ canceled' = TRUE
    /\ campStatus' = "canceled"
    /\ UNCHANGED <<poolState, leadState, ctxDone, late>>

\* run.cancel(), after the unlock.
CancelCtx ==
    /\ canceled /\ ~ctxDone
    /\ ctxDone' = TRUE
    /\ UNCHANGED <<poolState, leadState, campStatus, canceled, late>>

\* A bug: leads without a CallUUID match too.
SetLeadStatus_ByLead(l, s) == status' = [status EXCEPT ![l] = s]

\* Finds the lead by CallUUID and overwrites its status; no match, no effect.
SetLeadStatus(l, s) ==
    status' = IF hasUUID[l] THEN [status EXCEPT ![l] = s] ELSE status

\* The statuses OnAnswered and OnEnded pass.
CallbackStatus == {"answered", "completed", "failed", "no_answer"}

Callback(l, s) ==
    /\ SetLeadStatus(l, s)
    /\ UNCHANGED <<poolState, hasUUID, cancelState, late>>

LoopStep == LoopCheck \/ LoopAcquire \/ LoopCtxDone \/ LoopFinish
OriginateReturns(l) == OriginateOk(l) \/ OriginateErr(l)

CampaignNext ==
    \/ LoopStep
    \/ \E l \in Lead : StartDial(l) \/ OriginateReturns(l) \/ Release(l)
    \/ CancelFlag
    \/ CancelCtx
    \/ \E l \in Lead, s \in CallbackStatus : Callback(l, s)

CampaignSpec == CampaignInit /\ [][CampaignNext]_campaignVars

(* Goroutines keep being scheduled; originate returns because SendOriginate
   gives up after 60 s; Cancel, once it has set the flag, calls run.cancel. *)
CampaignFairness ==
    /\ WF_campaignVars(LoopStep)
    /\ \A l \in Lead : /\ WF_campaignVars(StartDial(l))
                       /\ WF_campaignVars(OriginateReturns(l))
                       /\ WF_campaignVars(Release(l))
    /\ WF_campaignVars(CancelCtx)

FairCampaignSpec == CampaignSpec /\ CampaignFairness

---------------------------------------------------------------------------
(* Properties.                                                             *)

\* The types of the variables.
CampaignTypeOK ==
    /\ loop \in {"check", "select", "done"}
    /\ next \in 1..(NumLeads + 1)
    /\ worker \in [Lead -> WorkerState]
    /\ sem \in 0..Slots
    /\ status \in [Lead -> CallStatus]
    /\ hasUUID \in [Lead -> BOOLEAN]
    /\ campStatus \in {"running", "done", "canceled"}
    /\ canceled \in BOOLEAN
    /\ ctxDone \in BOOLEAN
    /\ late \subseteq Lead

\* The CCU bound of manager.go:34: never more than CCU leads are inside
\* originate, whatever the callbacks and a cancel do meanwhile.
DialsWithinCCU == Cardinality(Dialing) <= Slots

\* The promise behind Cancel's "stops dialing further leads"
\* (manager.go:143), as far as the code keeps it: the goroutines that had a
\* slot and the one lead the loop had already passed the check for.
LateDialsBounded == Cardinality(late) <= Slots + 1

\* A pool whose Wait has returned left no lead pending, no goroutine running
\* and no token in the semaphore: manager_test.go:108-114 for every schedule.
PoolDrained ==
    loop = "done" => /\ \A l \in Lead : status[l] # "pending"
                     /\ Holders = {}
                     /\ sem = 0

\* A lead counted as canceled was never dialed and has no call, so no later
\* answer or hangup can revive it.
CanceledNeverDialed ==
    \A l \in Lead : status[l] = "canceled" =>
        worker[l] = "none" /\ ~hasUUID[l] /\ canceled

\* The types, and the four promises of the pool to its campaign, at every moment.
PoolSafe ==
    /\ CampaignTypeOK
    /\ DialsWithinCCU /\ LateDialsBounded /\ PoolDrained /\ CanceledNeverDialed

\* Once reported canceled, a campaign is never reported running or done,
\* although runWorkers writes Status at the end without looking at it.
CancelSticks == [][campStatus = "canceled" => campStatus' = "canceled"]_campaignVars

\* A lead whose originate failed stays failed: the failure leaves CallUUID
\* unset, so no event of a call that FreeSWITCH placed anyway can touch it.
FailedOriginateIsFinal ==
    [][\A l \in Lead : status[l] = "failed" /\ ~hasUUID[l]
                       => status'[l] = "failed"]_campaignVars

\* Wait returns: the pool ends however originates fail and cancels race.
PoolTerminates == <>(loop = "done")

(* The pool implements the abstract promise of DialPool.                   *)
LeadPhase(l) ==
    CASE worker[l] = "dialing" -> "dialing"
      [] worker[l] \in {"pacing", "exited"} -> "dialed"
      [] OTHER -> IF status[l] = "canceled" THEN "skipped" ELSE "waiting"

StopPhase == IF ctxDone THEN "returned" ELSE IF canceled THEN "requested" ELSE "no"

Promise == INSTANCE DialPool WITH
    phase <- [l \in Lead |-> LeadPhase(l)],
    stop <- StopPhase,
    outcome <- campStatus

\* Every behaviour of the pool is one the abstract promise allows.
ImplementsDialPool == Promise!PoolSpec

---------------------------------------------------------------------------
(* The inductive invariant.                                                *)

\* Every token of the semaphore belongs to one running goroutine.
TokensHeld == sem = Cardinality(Holders)

\* The loop has started no goroutine for a lead it has not reached.
NotReached ==
    \A l \in Lead : l >= next =>
        worker[l] = "none" /\ ~hasUUID[l] /\ status[l] = "pending"

\* What is still to be dialed after Cancel, counting the lead in select.
LateBudget ==
    /\ ~ctxDone => late = {}
    /\ ctxDone => Cardinality(late \cup In("spawned"))
                    + (IF loop = "select" THEN 1 ELSE 0) <= Slots + 1

PoolInv ==
    /\ CampaignTypeOK
    /\ TokensHeld
    /\ NotReached
    /\ LateBudget
    /\ loop = "select" => next \in Lead
    /\ loop = "done" => PoolIdle
    /\ ctxDone => canceled
    /\ \A l \in Lead : l < next =>
         (worker[l] = "none" <=> status[l] = "canceled")
    /\ \A l \in Lead : worker[l] \in {"none", "spawned"} => ~hasUUID[l]
    /\ \A l \in Lead : worker[l] = "spawned" => status[l] = "pending"
    /\ \A l \in Lead : status[l] = "pending" => worker[l] \in {"none", "spawned"}
    /\ \A l \in Lead : status[l] = "canceled" => canceled
    /\ canceled <=> campStatus = "canceled"
=============================================================================
