------------------------------ MODULE DialPool ------------------------------
(***************************************************************************)
(* What a campaign's worker pool promises the operator who created it:     *)
(* every lead is dialed at most once, at most Slots dial attempts are in   *)
(* flight, leads are skipped only once a cancel was requested, at most     *)
(* Slots + 1 leads are dialed after Cancel has returned, and the campaign  *)
(* is reported "done" only when no lead is left waiting or dialing.        *)
(* Campaign.tla, the translation of internal/campaign/manager.go,          *)
(* implements this specification.                                          *)
(***************************************************************************)
EXTENDS Integers, FiniteSets

CONSTANTS Lead,   \* the leads of one campaign
          Slots   \* dial attempts allowed at the same time

VARIABLES phase,   \* [Lead -> Phase]
          stop,    \* "no", then "requested" (flag set), then "returned"
          late,    \* leads whose dial attempt began after Cancel returned
          outcome  \* the Status the campaign reports

poolVars == <<phase, stop, late, outcome>>

Phase == {"waiting", "dialing", "dialed", "skipped"}

InPhase(p) == {l \in Lead : phase[l] = p}

PoolInit ==
    /\ phase = [l \in Lead |-> "waiting"]
    /\ stop = "no"
    /\ late = {}
    /\ outcome = "running"

Start(l) ==
    /\ phase[l] = "waiting"
    /\ Cardinality(InPhase("dialing")) < Slots
    /\ stop = "returned" => Cardinality(late) < Slots + 1
    /\ phase' = [phase EXCEPT ![l] = "dialing"]
    /\ late' = IF stop = "returned" THEN late \cup {l} ELSE late
    /\ UNCHANGED <<stop, outcome>>

Finish(l) ==
    /\ phase[l] = "dialing"
    /\ phase' = [phase EXCEPT ![l] = "dialed"]
    /\ UNCHANGED <<stop, late, outcome>>

Skip(l) ==
    /\ phase[l] = "waiting"
    /\ stop # "no"
    /\ phase' = [phase EXCEPT ![l] = "skipped"]
    /\ UNCHANGED <<stop, late, outcome>>

RequestStop ==
    /\ stop = "no"
    /\ stop' = "requested"
    /\ outcome' = "canceled"
    /\ UNCHANGED <<phase, late>>

StopReturns ==
    /\ stop = "requested"
    /\ stop' = "returned"
    /\ UNCHANGED <<phase, late, outcome>>

ReportDone ==
    /\ stop = "no"
    /\ outcome = "running"
    /\ InPhase("waiting") \cup InPhase("dialing") = {}
    /\ outcome' = "done"
    /\ UNCHANGED <<phase, stop, late>>

PoolNext ==
    \/ \E l \in Lead : Start(l) \/ Finish(l) \/ Skip(l)
    \/ RequestStop
    \/ StopReturns
    \/ ReportDone

PoolSpec == PoolInit /\ [][PoolNext]_poolVars
=============================================================================
