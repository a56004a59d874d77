--------------------------- MODULE OutboundProofs ---------------------------
(* Theorems about a campaign, for every number of leads and every CCU.        *)
(*                                                                            *)
(* First the pool alone (CampaignSpec).  Its inductive invariant is PoolInv:  *)
(* TokensHeld ties the semaphore to the goroutines, LateBudget counts what a  *)
(* cancel can no longer prevent; and the pool implements DialPool.            *)
(*                                                                            *)
(* Then its calls (OutSpec), with the events of every call in every order:    *)
(* the handlers are within what the pool expects of its callbacks, so all     *)
(* that is proved of the pool holds under them, and their maps fit the calls. *)
EXTENDS Outbound, FiniteSetTheorems, TLAPS

USE NumLeadsAssumption, CCUAssumption

\* The leads are a finite interval.
LEMMA LeadFinite == IsFiniteSet(Lead) /\ Lead \subseteq Nat
BY FS_Interval DEF Lead

\* Create's normalisation makes the semaphore's capacity positive.
LEMMA SlotsPositive == Slots \in Nat /\ Slots >= 1
BY DEF Slots

\* Every set of leads can be counted.
LEMMA SubsetsFinite ==
    ASSUME NEW S \in SUBSET Lead
    PROVE  IsFiniteSet(S) /\ Cardinality(S) \in Nat
BY LeadFinite, FS_Subset, FS_CardinalityType

\* Adding one element to a set of leads adds at most one to its size.
LEMMA AddOne ==
    ASSUME NEW S \in SUBSET Lead, NEW x \in Lead
    PROVE  /\ Cardinality(S \cup {x}) <= Cardinality(S) + 1
           /\ x \notin S => Cardinality(S \cup {x}) = Cardinality(S) + 1
BY SubsetsFinite, FS_AddElement

\* Removing an element makes a set of leads one smaller.
LEMMA RemoveOne ==
    ASSUME NEW S \in SUBSET Lead, NEW x \in S
    PROVE  Cardinality(S \ {x}) = Cardinality(S) - 1
BY SubsetsFinite, FS_RemoveElement

\* The sets that TokensHeld and LateBudget count are sets of leads.
LEMMA HoldersInLead == Holders \in SUBSET Lead /\ In("spawned") \in SUBSET Lead
BY DEF Holders, In

\* The campaign Create returns satisfies the invariant.
LEMMA InitInv == CampaignInit => PoolInv
<1> SUFFICES ASSUME CampaignInit PROVE PoolInv
  OBVIOUS
<1> USE DEF CampaignInit
<1>1. CampaignTypeOK
  <2>1. sem \in 0..Slots /\ next \in 1..(NumLeads + 1)
    BY SlotsPositive
  <2>2. /\ worker \in [Lead -> WorkerState]
        /\ status \in [Lead -> CallStatus]
        /\ hasUUID \in [Lead -> BOOLEAN]
    BY DEF WorkerState, CallStatus
  <2> QED BY <2>1, <2>2 DEF CampaignTypeOK
<1>2. Holders = {} /\ In("spawned") = {}
  BY DEF Holders, In
<1>3. TokensHeld
  BY <1>2, FS_EmptySet DEF TokensHeld
<1>4. NotReached /\ LateBudget
  BY DEF NotReached, LateBudget
<1> QED
  BY <1>1, <1>3, <1>4 DEF PoolInv, Lead

\* The parts of PoolInv a step that leaves the goroutines alone must keep.
LEMMA SameHolders ==
    ASSUME worker' = worker, sem' = sem, TokensHeld
    PROVE  TokensHeld'
BY DEF TokensHeld, Holders, In

\* The loop passes a lead on to the select, or skips it.
LEMMA LoopCheckInv == PoolInv /\ LoopCheck => PoolInv'
<1> SUFFICES ASSUME PoolInv, LoopCheck PROVE PoolInv'
  OBVIOUS
<1> USE DEF LoopCheck, SkipLead, cancelState
<1>1. CampaignTypeOK /\ next \in Lead
  BY DEF PoolInv
<1>2. next' \in 1..(NumLeads + 1) /\ loop' \in {"check", "select"}
  BY <1>1 DEF Lead, CampaignTypeOK
<1>3. CampaignTypeOK'
  BY <1>1, <1>2 DEF CampaignTypeOK, CallStatus
<1>4. TokensHeld'
  BY SameHolders DEF PoolInv
<1>5. NotReached'
  BY <1>1 DEF NotReached, PoolInv, Lead, CampaignTypeOK
<1>6. LateBudget'
  BY DEF LateBudget, PoolInv, In, StopSeen
<1>7. \A l \in Lead : l < next' => (worker'[l] = "none" <=> status'[l] = "canceled")
  <2> SUFFICES ASSUME NEW l \in Lead, l < next'
               PROVE  worker'[l] = "none" <=> status'[l] = "canceled"
    OBVIOUS
  <2>1. l < next \/ (l = next /\ StopSeen)
    BY <1>1 DEF Lead, CampaignTypeOK
  <2>2. worker[next] = "none" /\ status[next] = "pending"
    BY <1>1 DEF PoolInv, NotReached, Lead
  <2> QED BY <1>1, <2>1, <2>2 DEF PoolInv, CampaignTypeOK, Lead
<1>8. /\ \A l \in Lead : worker'[l] \in {"none", "spawned"} => ~hasUUID'[l]
      /\ \A l \in Lead : worker'[l] = "spawned" => status'[l] = "pending"
      /\ \A l \in Lead : status'[l] = "pending" => worker'[l] \in {"none", "spawned"}
  <2>1. worker[next] = "none"
    BY <1>1 DEF PoolInv, NotReached, Lead
  <2> QED BY <1>1, <2>1 DEF PoolInv, CampaignTypeOK
<1>9. \A l \in Lead : status'[l] = "canceled" => canceled'
  BY <1>1 DEF PoolInv, CampaignTypeOK, StopSeen
<1> QED
  BY <1>1, <1>2, <1>3, <1>4, <1>5, <1>6, <1>7, <1>8, <1>9 DEF PoolInv

\* The select takes ctx.Done: the lead is skipped without a goroutine.
LEMMA LoopCtxDoneInv == PoolInv /\ LoopCtxDone => PoolInv'
<1> SUFFICES ASSUME PoolInv, LoopCtxDone PROVE PoolInv'
  OBVIOUS
<1> USE DEF LoopCtxDone, SkipLead, cancelState
<1>1. CampaignTypeOK /\ next \in Lead
  BY DEF PoolInv
<1>2. next' \in 1..(NumLeads + 1)
  BY <1>1 DEF Lead, CampaignTypeOK
<1>3. CampaignTypeOK'
  BY <1>1, <1>2 DEF CampaignTypeOK, CallStatus
<1>4. TokensHeld'
  BY SameHolders DEF PoolInv
<1>5. NotReached'
  BY <1>1 DEF NotReached, PoolInv, Lead, CampaignTypeOK
<1>6. LateBudget'
  <2>1. Cardinality(late \cup In("spawned")) \in Nat
    BY <1>1, HoldersInLead, SubsetsFinite DEF CampaignTypeOK
  <2> QED BY <2>1, SlotsPositive DEF LateBudget, PoolInv, In
<1>7. \A l \in Lead : l < next' => (worker'[l] = "none" <=> status'[l] = "canceled")
  <2> SUFFICES ASSUME NEW l \in Lead, l < next'
               PROVE  worker'[l] = "none" <=> status'[l] = "canceled"
    OBVIOUS
  <2>1. l < next \/ l = next
    BY <1>1 DEF Lead, CampaignTypeOK
  <2>2. worker[next] = "none" /\ status[next] = "pending"
    BY <1>1 DEF PoolInv, NotReached, Lead
  <2> QED BY <1>1, <2>1, <2>2 DEF PoolInv, CampaignTypeOK, Lead
<1>8. /\ \A l \in Lead : worker'[l] \in {"none", "spawned"} => ~hasUUID'[l]
      /\ \A l \in Lead : worker'[l] = "spawned" => status'[l] = "pending"
      /\ \A l \in Lead : status'[l] = "pending" => worker'[l] \in {"none", "spawned"}
  <2>1. worker[next] = "none"
    BY <1>1 DEF PoolInv, NotReached, Lead
  <2> QED BY <1>1, <2>1 DEF PoolInv, CampaignTypeOK
<1>9. \A l \in Lead : status'[l] = "canceled" => canceled'
  BY <1>1 DEF PoolInv, CampaignTypeOK
<1> QED
  BY <1>1, <1>3, <1>4, <1>5, <1>6, <1>7, <1>8, <1>9 DEF PoolInv

\* The token taken and the goroutine started keep sem and Holders equal.
LEMMA LoopAcquireInv == PoolInv /\ LoopAcquire => PoolInv'
<1> SUFFICES ASSUME PoolInv, LoopAcquire PROVE PoolInv'
  OBVIOUS
<1> USE DEF LoopAcquire, SlotFree, leadState, cancelState
<1>1. /\ CampaignTypeOK /\ next \in Lead
      /\ worker[next] = "none" /\ status[next] = "pending" /\ ~hasUUID[next]
  BY DEF PoolInv, NotReached, Lead
<1>2. next' \in 1..(NumLeads + 1) /\ sem' \in 0..Slots
  BY <1>1, SlotsPositive DEF Lead, CampaignTypeOK
<1>3. CampaignTypeOK'
  BY <1>1, <1>2 DEF CampaignTypeOK, WorkerState
<1>4. /\ Holders' = Holders \cup {next} /\ next \notin Holders
      /\ In("spawned")' = In("spawned") \cup {next}
  BY <1>1 DEF Holders, In, CampaignTypeOK
<1>5. TokensHeld'
  BY <1>1, <1>4, AddOne, HoldersInLead DEF PoolInv, TokensHeld
<1>6. NotReached'
  BY <1>1 DEF NotReached, PoolInv, Lead, CampaignTypeOK
<1>7. LateBudget'
  <2> DEFINE S == late \cup In("spawned")
  <2>1. S \in SUBSET Lead /\ (late \cup In("spawned"))' = S \cup {next}
    BY <1>1, <1>4, HoldersInLead DEF CampaignTypeOK
  <2>2. Cardinality(S) \in Nat /\ Cardinality(S \cup {next}) \in Nat
    BY <1>1, <2>1, SubsetsFinite
  <2>3. Cardinality(S \cup {next}) <= Cardinality(S) + 1
    BY <1>1, <2>1, AddOne
  <2>4. ctxDone => Cardinality(S) + 1 <= Slots + 1
    BY DEF PoolInv, LateBudget
  <2>5. ctxDone => Cardinality(S \cup {next}) <= Slots + 1
    BY <2>2, <2>3, <2>4, SlotsPositive
  <2>6. loop' # "select"
    OBVIOUS
  <2>7. ~ctxDone => late = {}
    BY DEF PoolInv, LateBudget
  <2> HIDE DEF S
  <2> QED BY <2>1, <2>2, <2>5, <2>6, <2>7 DEF LateBudget
<1>8. \A l \in Lead : l < next' => (worker'[l] = "none" <=> status'[l] = "canceled")
  <2> SUFFICES ASSUME NEW l \in Lead, l < next'
               PROVE  worker'[l] = "none" <=> status'[l] = "canceled"
    OBVIOUS
  <2>1. l < next \/ l = next
    BY <1>1 DEF Lead, CampaignTypeOK
  <2> QED BY <1>1, <2>1 DEF PoolInv, CampaignTypeOK, Lead
<1>9. /\ \A l \in Lead : worker'[l] \in {"none", "spawned"} => ~hasUUID'[l]
      /\ \A l \in Lead : worker'[l] = "spawned" => status'[l] = "pending"
      /\ \A l \in Lead : status'[l] = "pending" => worker'[l] \in {"none", "spawned"}
  BY <1>1 DEF PoolInv, CampaignTypeOK
<1> QED
  BY <1>1, <1>3, <1>5, <1>6, <1>7, <1>8, <1>9 DEF PoolInv

\* After wg.Wait the loop ends with every goroutine gone.
LEMMA LoopFinishInv == PoolInv /\ LoopFinish => PoolInv'
<1> SUFFICES ASSUME PoolInv, LoopFinish PROVE PoolInv'
  OBVIOUS
<1> USE DEF LoopFinish, leadState
<1>1. CampaignTypeOK'
  BY DEF PoolInv, CampaignTypeOK
<1>2. TokensHeld'
  BY SameHolders DEF PoolInv
<1>3. NotReached' /\ LateBudget'
  BY DEF NotReached, LateBudget, PoolInv, In
<1>4. PoolIdle'
  BY DEF PoolIdle
<1> QED
  BY <1>1, <1>2, <1>3, <1>4 DEF PoolInv

\* A goroutine that starts moves its lead from spawned to late at most.
LEMMA StartDialInv ==
    ASSUME NEW l \in Lead, PoolInv, StartDial(l)
    PROVE  PoolInv'
<1> USE DEF StartDial, cancelState
<1>1. CampaignTypeOK /\ worker[l] = "spawned" /\ l < next
  BY DEF PoolInv, NotReached, CampaignTypeOK, Lead
<1>2. CampaignTypeOK'
  BY <1>1 DEF CampaignTypeOK, WorkerState, CallStatus
<1>3. /\ Holders' = Holders
      /\ (late \cup In("spawned"))' = IF ctxDone THEN late \cup In("spawned")
                                      ELSE late \cup (In("spawned") \ {l})
  BY <1>1 DEF Holders, In, CampaignTypeOK
<1>4. TokensHeld'
  BY <1>3 DEF PoolInv, TokensHeld
<1>5. NotReached'
  BY <1>1 DEF NotReached, PoolInv, Lead, CampaignTypeOK
<1>6. LateBudget'
  BY <1>3 DEF PoolInv, LateBudget
<1> QED
  BY <1>1, <1>2, <1>4, <1>5, <1>6 DEF PoolInv, PoolIdle, CampaignTypeOK

\* Either outcome of originate leaves the token with the goroutine.
LEMMA OriginateReturnsInv ==
    ASSUME NEW l \in Lead, PoolInv, OriginateReturns(l)
    PROVE  PoolInv'
<1> USE DEF OriginateReturns, OriginateOk, OriginateErr, cancelState
<1>1. CampaignTypeOK /\ worker[l] = "dialing" /\ l < next
  BY DEF PoolInv, NotReached, CampaignTypeOK, Lead
<1>2. CampaignTypeOK'
  BY <1>1 DEF CampaignTypeOK, WorkerState, CallStatus
<1>3. Holders' = Holders /\ In("spawned")' = In("spawned")
  BY <1>1 DEF Holders, In, CampaignTypeOK
<1>4. TokensHeld' /\ LateBudget'
  <2>1. UNCHANGED <<loop, sem, ctxDone, late>>
    OBVIOUS
  <2> QED BY <1>3, <2>1 DEF PoolInv, TokensHeld, LateBudget
<1>5. NotReached'
  BY <1>1 DEF NotReached, PoolInv, Lead, CampaignTypeOK
<1> QED
  BY <1>1, <1>2, <1>4, <1>5 DEF PoolInv, PoolIdle, CampaignTypeOK

\* The deferred release gives back the token of the goroutine that ends.
LEMMA ReleaseInv ==
    ASSUME NEW l \in Lead, PoolInv, Release(l)
    PROVE  PoolInv'
<1> USE DEF Release, leadState, cancelState
<1>1. CampaignTypeOK /\ worker[l] = "pacing" /\ l < next
  BY DEF PoolInv, NotReached, CampaignTypeOK, Lead
<1>2. /\ Holders' = Holders \ {l} /\ l \in Holders
      /\ In("spawned")' = In("spawned")
  BY <1>1 DEF Holders, In, CampaignTypeOK
<1>3. TokensHeld'
  BY <1>2, RemoveOne, HoldersInLead DEF PoolInv, TokensHeld
<1>4. sem' \in 0..Slots
  <2>1. sem' = Cardinality(Holders') /\ Holders' \in SUBSET Lead
    BY <1>2, <1>3, HoldersInLead DEF TokensHeld
  <2>2. sem' \in Nat
    BY <2>1, SubsetsFinite
  <2> QED BY <1>1, <2>2, SlotsPositive DEF CampaignTypeOK
<1>5. CampaignTypeOK'
  BY <1>1, <1>4 DEF CampaignTypeOK, WorkerState
<1>6. NotReached' /\ LateBudget'
  BY <1>1, <1>2 DEF NotReached, LateBudget, PoolInv, Lead, CampaignTypeOK
<1> QED
  BY <1>1, <1>3, <1>5, <1>6 DEF PoolInv, PoolIdle, CampaignTypeOK

\* Cancel's flag and status are written together.
LEMMA CancelFlagInv == PoolInv /\ CancelFlag => PoolInv'
<1> SUFFICES ASSUME PoolInv, CancelFlag PROVE PoolInv'
  OBVIOUS
<1> USE DEF CancelFlag, poolState, leadState
<1>1. CampaignTypeOK'
  BY DEF PoolInv, CampaignTypeOK
<1>2. TokensHeld' /\ NotReached' /\ LateBudget'
  BY SameHolders DEF PoolInv, NotReached, LateBudget, In
<1> QED
  BY <1>1, <1>2 DEF PoolInv, PoolIdle

\* When Cancel returns, the goroutines that have not started yet and the
\* lead in select are all that can still be dialed.
LEMMA CancelCtxInv == PoolInv /\ CancelCtx => PoolInv'
<1> SUFFICES ASSUME PoolInv, CancelCtx PROVE PoolInv'
  OBVIOUS
<1> USE DEF CancelCtx, poolState, leadState
<1>1. CampaignTypeOK'
  BY DEF PoolInv, CampaignTypeOK
<1>2. TokensHeld' /\ NotReached'
  BY SameHolders DEF PoolInv, NotReached
<1>3. LateBudget'
  <2>1. (late \cup In("spawned"))' = In("spawned")
    BY DEF PoolInv, LateBudget, In
  <2>2. In("spawned") \in SUBSET Holders /\ IsFiniteSet(Holders)
    BY HoldersInLead, SubsetsFinite DEF Holders
  <2>3. Cardinality(In("spawned")) <= Cardinality(Holders)
    BY <2>2, FS_Subset
  <2>4. Cardinality(Holders) <= Slots /\ Cardinality(Holders) \in Nat
    BY HoldersInLead, SubsetsFinite DEF PoolInv, TokensHeld, CampaignTypeOK
  <2>5. Cardinality(In("spawned")) \in Nat
    BY HoldersInLead, SubsetsFinite
  <2> QED BY <2>1, <2>3, <2>4, <2>5, SlotsPositive DEF LateBudget
<1> QED
  BY <1>1, <1>2, <1>3 DEF PoolInv, PoolIdle

\* A status callback touches only a lead whose originate has succeeded.
LEMMA CallbackInv ==
    ASSUME NEW l \in Lead, NEW s \in CallbackStatus, PoolInv, Callback(l, s)
    PROVE  PoolInv'
<1> USE DEF Callback, SetLeadStatus, poolState, cancelState
<1>1. CampaignTypeOK
  BY DEF PoolInv
<1>2. CampaignTypeOK'
  BY <1>1 DEF CampaignTypeOK, CallStatus, CallbackStatus
<1>3. TokensHeld' /\ LateBudget'
  BY SameHolders DEF PoolInv, LateBudget, In
<1>4. NotReached'
  BY <1>1 DEF NotReached, PoolInv, CampaignTypeOK
<1>5. s \notin {"pending", "canceled"}
  BY DEF CallbackStatus
<1>6. /\ \A k \in Lead : k < next => (worker'[k] = "none" <=> status'[k] = "canceled")
      /\ \A k \in Lead : worker'[k] = "spawned" => status'[k] = "pending"
      /\ \A k \in Lead : status'[k] = "pending" => worker'[k] \in {"none", "spawned"}
      /\ \A k \in Lead : status'[k] = "canceled" => canceled'
  BY <1>1, <1>5 DEF PoolInv, CampaignTypeOK
<1> QED
  BY <1>1, <1>2, <1>3, <1>4, <1>6 DEF PoolInv, PoolIdle

\* Every step of the pool, of Cancel and of the callbacks keeps PoolInv.
LEMMA StepInv == PoolInv /\ [CampaignNext]_campaignVars => PoolInv'
<1> SUFFICES ASSUME PoolInv, [CampaignNext]_campaignVars PROVE PoolInv'
  OBVIOUS
<1>1. CASE LoopStep
  BY <1>1, LoopCheckInv, LoopAcquireInv, LoopCtxDoneInv, LoopFinishInv DEF LoopStep
<1>2. ASSUME NEW l \in Lead, StartDial(l) \/ OriginateReturns(l) \/ Release(l)
      PROVE  PoolInv'
  BY <1>2, StartDialInv, OriginateReturnsInv, ReleaseInv
<1>3. CASE CancelFlag
  BY <1>3, CancelFlagInv
<1>4. CASE CancelCtx
  BY <1>4, CancelCtxInv
<1>5. ASSUME NEW l \in Lead, NEW s \in CallbackStatus, Callback(l, s)
      PROVE  PoolInv'
  BY <1>5, CallbackInv
<1>6. CASE UNCHANGED campaignVars
  BY <1>6 DEF campaignVars, poolState, leadState, cancelState, PoolInv, CampaignTypeOK,
     TokensHeld, NotReached, LateBudget, Holders, In, PoolIdle
<1> QED
  BY <1>1, <1>2, <1>3, <1>4, <1>5, <1>6 DEF CampaignNext

---------------------------------------------------------------------------
\* The inductive invariant of the dispatch loop, its goroutines and Cancel.
THEOREM PoolInvariant == CampaignSpec => []PoolInv
<1> QED BY InitInv, StepInv, PTL DEF CampaignSpec

\* Type correctness of the campaign's state.
THEOREM CampaignTypeCorrect == CampaignSpec => []CampaignTypeOK
<1>1. PoolInv => CampaignTypeOK
  BY DEF PoolInv
<1> QED BY <1>1, PoolInvariant, PTL

\* Every goroutine inside originate holds one of Slots tokens.
LEMMA DialsCounted == PoolInv => DialsWithinCCU
<1> SUFFICES ASSUME PoolInv PROVE Cardinality(Dialing) <= Slots
  BY DEF DialsWithinCCU
<1>1. Dialing \in SUBSET Holders /\ IsFiniteSet(Holders)
  BY HoldersInLead, SubsetsFinite DEF Holders, Dialing
<1>2. Cardinality(Dialing) <= Cardinality(Holders)
  BY <1>1, FS_Subset
<1>3. Cardinality(Holders) <= Slots /\ Cardinality(Holders) \in Nat
  BY HoldersInLead, SubsetsFinite DEF PoolInv, TokensHeld, CampaignTypeOK
<1>4. Cardinality(Dialing) \in Nat
  BY <1>1, FS_Subset, FS_CardinalityType
<1> QED BY <1>2, <1>3, <1>4, SlotsPositive

\* The CCU bound of the pool.
THEOREM DialsBounded == CampaignSpec => []DialsWithinCCU
BY DialsCounted, PoolInvariant, PTL

\* However the cancel races with the loop, at most Slots + 1 leads are dialed
\* after Cancel has returned.
THEOREM LateDials == CampaignSpec => []LateDialsBounded
<1>1. PoolInv => LateDialsBounded
  <2> SUFFICES ASSUME PoolInv PROVE Cardinality(late) <= Slots + 1
    BY DEF LateDialsBounded
  <2> DEFINE S == late \cup In("spawned")
  <2>1. S \in SUBSET Lead /\ late \in SUBSET S
    BY HoldersInLead DEF PoolInv, CampaignTypeOK
  <2>2. /\ Cardinality(late) <= Cardinality(S)
        /\ Cardinality(late) \in Nat /\ Cardinality(S) \in Nat
    BY <2>1, SubsetsFinite, FS_Subset
  <2>3. CASE ctxDone
    <3>1. Cardinality(S) + (IF loop = "select" THEN 1 ELSE 0) <= Slots + 1
      BY <2>3 DEF PoolInv, LateBudget
    <3> HIDE DEF S
    <3> QED BY <2>2, <3>1, SlotsPositive
  <2>4. CASE ~ctxDone
    BY <2>4, SlotsPositive, FS_EmptySet DEF PoolInv, LateBudget
  <2> QED BY <2>3, <2>4
<1> QED BY <1>1, PoolInvariant, PTL

\* A lead reported as canceled was never dialed.
THEOREM CanceledUntouched == CampaignSpec => []CanceledNeverDialed
<1>1. PoolInv => CanceledNeverDialed
  <2> SUFFICES ASSUME PoolInv, NEW l \in Lead, status[l] = "canceled"
               PROVE  worker[l] = "none" /\ ~hasUUID[l] /\ canceled
    BY DEF CanceledNeverDialed
  <2>1. l < next
    BY DEF PoolInv, NotReached, CampaignTypeOK, Lead
  <2> QED BY <2>1 DEF PoolInv
<1> QED BY <1>1, PoolInvariant, PTL

\* When the pool's Wait returns nothing is pending and no slot is held.
THEOREM Drained == CampaignSpec => []PoolDrained
<1>1. PoolInv => PoolDrained
  <2> SUFFICES ASSUME PoolInv, loop = "done"
               PROVE  /\ \A l \in Lead : status[l] # "pending"
                      /\ Holders = {}
                      /\ sem = 0
    BY DEF PoolDrained
  <2>1. PoolIdle
    BY DEF PoolInv
  <2>2. Holders = {}
    BY <2>1 DEF PoolIdle, Holders, In
  <2>3. sem = 0
    BY <2>2, FS_EmptySet DEF PoolInv, TokensHeld
  <2>4. \A l \in Lead : l < next
    BY <2>1 DEF PoolIdle, PoolInv, CampaignTypeOK, Lead
  <2>5. \A l \in Lead : status[l] # "pending"
    BY <2>1, <2>4 DEF PoolIdle, PoolInv
  <2> QED BY <2>2, <2>3, <2>5
<1> QED BY <1>1, PoolInvariant, PTL

\* The pool's types and its four promises to the campaign hold together, from the
\* theorems above.
THEOREM PoolIsSafe == CampaignSpec => []PoolSafe
BY CampaignTypeCorrect, DialsBounded, LateDials, CanceledUntouched, Drained, PTL DEF PoolSafe

\* A canceled campaign stays canceled: runWorkers' last write respects it.
THEOREM CancelIsSticky == CampaignSpec => CancelSticks
<1>1. PoolInv /\ [CampaignNext]_campaignVars
        => [campStatus = "canceled" => campStatus' = "canceled"]_campaignVars
  <2> SUFFICES ASSUME PoolInv, CampaignNext, campStatus = "canceled"
               PROVE  campStatus' = "canceled"
    OBVIOUS
  <2> USE DEF cancelState
  <2>1. CASE LoopStep
    BY <2>1 DEF LoopStep, LoopCheck, LoopAcquire, LoopCtxDone, LoopFinish, PoolInv
  <2>2. ASSUME NEW l \in Lead, StartDial(l) \/ OriginateReturns(l) \/ Release(l)
        PROVE  campStatus' = "canceled"
    BY <2>2 DEF StartDial, OriginateReturns, OriginateOk, OriginateErr, Release
  <2>3. CASE CancelFlag \/ CancelCtx
    BY <2>3 DEF CancelFlag, CancelCtx
  <2>4. ASSUME NEW l \in Lead, NEW s \in CallbackStatus, Callback(l, s)
        PROVE  campStatus' = "canceled"
    BY <2>4 DEF Callback
  <2> QED BY <2>1, <2>2, <2>3, <2>4 DEF CampaignNext
<1> QED BY <1>1, PoolInvariant, PTL DEF CampaignSpec, CancelSticks

---------------------------------------------------------------------------
(* Campaign implements DialPool.  StartDial is Start, originate's return is *)
(* Finish, the two ways of skipping a lead are Skip, Cancel's two steps are *)
(* RequestStop and StopReturns, the loop's last step is ReportDone; every   *)
(* other step stutters.                                                     *)


\* A goroutine is counted late only once it has entered originate, so that
\* each lead uses up LateBudget once.
LateStarted == \A l \in late : worker[l] \notin {"none", "spawned"}

\* No goroutine goes back to a state before originate.
LEMMA LateStartedStep ==
    PoolInv /\ LateStarted /\ [CampaignNext]_campaignVars => LateStarted'
<1> SUFFICES ASSUME PoolInv, LateStarted, [CampaignNext]_campaignVars
             PROVE  LateStarted'
  OBVIOUS
<1> USE DEF LateStarted
<1>0. CampaignTypeOK
  BY DEF PoolInv
<1>1. CASE LoopCheck \/ LoopCtxDone \/ LoopFinish
  BY <1>1 DEF LoopCheck, LoopCtxDone, LoopFinish
<1>2. CASE LoopAcquire
  <2>1. next \in Lead /\ worker[next] = "none"
    BY <1>2 DEF LoopAcquire, PoolInv, NotReached, Lead
  <2>2. next \notin late
    BY <2>1
  <2> QED BY <1>0, <1>2, <2>2 DEF LoopAcquire, CampaignTypeOK
<1>3. ASSUME NEW l \in Lead, StartDial(l) \/ OriginateReturns(l) \/ Release(l)
      PROVE  LateStarted'
  BY <1>0, <1>3 DEF StartDial, OriginateReturns, OriginateOk, OriginateErr,
     Release, CampaignTypeOK
<1>4. CASE CancelFlag \/ CancelCtx
  BY <1>4 DEF CancelFlag, CancelCtx, poolState
<1>5. ASSUME NEW l \in Lead, NEW s \in CallbackStatus, Callback(l, s)
      PROVE  LateStarted'
  BY <1>5 DEF Callback, poolState
<1>6. CASE UNCHANGED campaignVars
  BY <1>6 DEF campaignVars, poolState
<1> QED
  BY <1>1, <1>2, <1>3, <1>4, <1>5, <1>6 DEF CampaignNext, LoopStep

---------------------------------------------------------------------------
(* How the phase of a lead is read off its goroutine.                      *)

\* The phases of the pool are those of DialPool.
LEMMA PhaseOf ==
    ASSUME NEW l \in Lead
    PROVE  /\ worker[l] = "dialing" => LeadPhase(l) = "dialing"
           /\ worker[l] \in {"pacing", "exited"} => LeadPhase(l) = "dialed"
           /\ worker[l] \in {"none", "spawned"} =>
                LeadPhase(l) = IF status[l] = "canceled" THEN "skipped"
                                                         ELSE "waiting"
BY DEF LeadPhase

\* The same after a step.
LEMMA PhaseOfNext ==
    ASSUME NEW l \in Lead
    PROVE  /\ worker'[l] = "dialing" => LeadPhase(l)' = "dialing"
           /\ worker'[l] \in {"pacing", "exited"} => LeadPhase(l)' = "dialed"
           /\ worker'[l] \in {"none", "spawned"} =>
                LeadPhase(l)' = IF status'[l] = "canceled" THEN "skipped"
                                                           ELSE "waiting"
BY DEF LeadPhase

\* A step that leaves a lead's goroutine and whether it is canceled alone
\* leaves its phase alone.
LEMMA PhaseKept ==
    ASSUME NEW l \in Lead, worker'[l] = worker[l],
           (status'[l] = "canceled") <=> (status[l] = "canceled")
    PROVE  LeadPhase(l)' = LeadPhase(l)
BY DEF LeadPhase

\* The promise counts as Campaign does.
LEMMA SameCardinality == \A S : Promise!Cardinality(S) = Cardinality(S)
BY DEF Cardinality, Promise!Cardinality

\* DialPool's dials in flight are the goroutines inside originate.
LEMMA DialingPhase == Promise!InPhase("dialing") = Dialing
BY DEF Promise!InPhase, Dialing, In, LeadPhase

---------------------------------------------------------------------------
(* Every step of the pool is a step of the promise, or stutters.           *)

Phases == [l \in Lead |-> LeadPhase(l)]
PromiseVars == <<Phases, StopPhase, late, campStatus>>

\* A step that moves one lead to phase p and leaves the others alone.
LEMMA PhaseMoves ==
    ASSUME NEW l \in Lead, NEW p, LeadPhase(l)' = p,
           \A k \in Lead \ {l} : LeadPhase(k)' = LeadPhase(k)
    PROVE  Phases' = [Phases EXCEPT ![l] = p]
<1>1. \A k \in Lead : LeadPhase(k)' = IF k = l THEN p ELSE LeadPhase(k)
  OBVIOUS
<1>2. Phases' = [k \in Lead |-> IF k = l THEN p ELSE LeadPhase(k)]
  BY <1>1 DEF Phases
<1> QED BY <1>2 DEF Phases

\* The state Create leaves is an initial state of the promise.
LEMMA InitImplements == CampaignInit => Promise!PoolInit
<1> SUFFICES ASSUME CampaignInit PROVE Promise!PoolInit
  OBVIOUS
<1>1. \A l \in Lead : LeadPhase(l) = "waiting"
  BY PhaseOf DEF CampaignInit
<1>2. [l \in Lead |-> LeadPhase(l)] = [l \in Lead |-> "waiting"]
  BY <1>1
<1> QED BY <1>2 DEF Promise!PoolInit, CampaignInit, StopPhase

\* Only Cancel moves what the operator sees of a stop.
LEMMA StopKept ==
    ASSUME UNCHANGED <<canceled, ctxDone>>
    PROVE  StopPhase' = StopPhase
BY DEF StopPhase

\* A skipped lead was waiting, and a cancel has been requested.
LEMMA SkipImplements ==
    ASSUME PoolInv, LoopCheck \/ LoopCtxDone
    PROVE  (\E l \in Lead : Promise!Skip(l)) \/ UNCHANGED PromiseVars
<1>0. CampaignTypeOK /\ next \in Lead /\ StopPhase' = StopPhase
  BY StopKept DEF LoopCheck, LoopCtxDone, PoolInv, cancelState
<1> PICK n \in Lead : n = next
  BY <1>0
<1>1. worker[n] = "none" /\ status[n] = "pending"
  BY <1>0 DEF PoolInv, NotReached, Lead
<1>2. CASE SkipLead /\ StopSeen
  <2>1. /\ UNCHANGED <<worker, campStatus, late>>
        /\ status' = [status EXCEPT ![n] = "canceled"]
    BY <1>1, <1>2 DEF LoopCheck, LoopCtxDone, SkipLead, cancelState
  <2>2. worker'[n] = "none" /\ status'[n] = "canceled"
    BY <1>0, <1>1, <2>1 DEF CampaignTypeOK
  <2>3. LeadPhase(n) = "waiting" /\ LeadPhase(n)' = "skipped"
    BY <1>1, <2>2, PhaseOf, PhaseOfNext, Zenon
  <2>4. \A k \in Lead \ {n} : LeadPhase(k)' = LeadPhase(k)
    BY <1>0, <2>1, PhaseKept DEF CampaignTypeOK
  <2>5. Phases' = [Phases EXCEPT ![n] = "skipped"]
    BY <2>3, <2>4, PhaseMoves
  <2>6. StopPhase # "no"
    BY <1>2 DEF StopSeen, StopPhase
  <2> QED
    BY <1>0, <2>1, <2>3, <2>5, <2>6 DEF Promise!Skip, Phases
<1>3. CASE ~(SkipLead /\ StopSeen)
  <2>1. UNCHANGED <<worker, status, campStatus, late>>
    BY <1>3 DEF LoopCheck, LoopCtxDone, StopSeen, cancelState
  <2>2. Phases' = Phases
    BY <2>1, PhaseKept DEF Phases
  <2> QED BY <1>0, <2>1, <2>2 DEF PromiseVars
<1> QED BY <1>2, <1>3

\* Entering originate is a Start: the token bounds the dials in flight and
\* LateBudget those after Cancel.
LEMMA StartImplements ==
    ASSUME PoolInv, LateStarted, NEW l \in Lead, StartDial(l)
    PROVE  Promise!Start(l)
<1>0. CampaignTypeOK /\ StopPhase' = StopPhase
  BY StopKept DEF StartDial, PoolInv, cancelState
<1>1. worker[l] = "spawned" /\ status[l] = "pending"
  BY DEF StartDial, PoolInv
<1>2. /\ worker' = [worker EXCEPT ![l] = "dialing"]
      /\ status' = [status EXCEPT ![l] = "dialing"]
      /\ campStatus' = campStatus
  BY DEF StartDial, cancelState
<1>3. worker'[l] = "dialing"
  BY <1>0, <1>2 DEF CampaignTypeOK
<1>4. LeadPhase(l) = "waiting" /\ LeadPhase(l)' = "dialing"
  BY <1>1, <1>3, PhaseOf, PhaseOfNext, Zenon
<1>5. \A k \in Lead \ {l} : LeadPhase(k)' = LeadPhase(k)
  BY <1>0, <1>2, PhaseKept DEF CampaignTypeOK
<1>6. Phases' = [Phases EXCEPT ![l] = "dialing"]
  BY <1>4, <1>5, PhaseMoves
<1>7. Cardinality(Promise!InPhase("dialing")) < Slots
  <2>1. Promise!InPhase("dialing") = Dialing
    BY DialingPhase
  <2>2. /\ Dialing \in SUBSET Lead /\ l \notin Dialing
        /\ Dialing \cup {l} \in SUBSET Holders
    BY <1>1 DEF Dialing, Holders, In
  <2>3. Cardinality(Dialing \cup {l}) = Cardinality(Dialing) + 1
    BY <2>2, AddOne
  <2>4. Cardinality(Dialing \cup {l}) <= Cardinality(Holders)
    BY <2>2, HoldersInLead, SubsetsFinite, FS_Subset
  <2>5. Cardinality(Holders) <= Slots /\ Cardinality(Holders) \in Nat
    BY HoldersInLead, SubsetsFinite DEF PoolInv, TokensHeld, CampaignTypeOK
  <2>6. Cardinality(Dialing) \in Nat
    BY <2>2, SubsetsFinite
  <2> QED BY <2>1, <2>3, <2>4, <2>5, <2>6, SlotsPositive
<1>8. StopPhase = "returned" => Cardinality(late) < Slots + 1
  <2> SUFFICES ASSUME StopPhase = "returned" PROVE Cardinality(late) < Slots + 1
    OBVIOUS
  <2>1. ctxDone
    BY DEF StopPhase
  <2>2. /\ late \in SUBSET Lead /\ l \notin late
        /\ late \cup {l} \in SUBSET (late \cup In("spawned"))
        /\ late \cup In("spawned") \in SUBSET Lead
    BY <1>0, <1>1 DEF CampaignTypeOK, LateStarted, In
  <2>3. Cardinality(late \cup {l}) = Cardinality(late) + 1
    BY <2>2, AddOne
  <2>4. Cardinality(late \cup {l}) <= Cardinality(late \cup In("spawned"))
    BY <2>2, SubsetsFinite, FS_Subset
  <2>5. Cardinality(late \cup In("spawned")) <= Slots + 1
    <3> DEFINE n == Cardinality(late \cup In("spawned"))
    <3>1. n + (IF loop = "select" THEN 1 ELSE 0) <= Slots + 1 /\ n \in Nat
      BY <2>1, <2>2, SubsetsFinite DEF PoolInv, LateBudget
    <3> HIDE DEF n
    <3>2. n <= Slots + 1
      BY <3>1, SlotsPositive
    <3> QED BY <3>2 DEF n
  <2>6. Cardinality(late) \in Nat /\ Cardinality(late \cup In("spawned")) \in Nat
    BY <2>2, SubsetsFinite
  <2> QED BY <2>3, <2>4, <2>5, <2>6, SlotsPositive
<1>9. late' = IF StopPhase = "returned" THEN late \cup {l} ELSE late
  <2>1. ctxDone => canceled
    BY DEF PoolInv
  <2> QED BY <2>1 DEF StartDial, StopPhase
<1>10. /\ Phases[l] = "waiting"
       /\ UNCHANGED <<StopPhase, campStatus>>
  BY <1>0, <1>2, <1>4 DEF Phases
<1> HIDE DEF Phases
<1> QED
  BY <1>6, <1>7, <1>8, <1>9, <1>10, SameCardinality DEF Promise!Start, Phases

\* Whatever originate answered, the attempt is over.
LEMMA FinishImplements ==
    ASSUME PoolInv, NEW l \in Lead, OriginateReturns(l)
    PROVE  Promise!Finish(l)
<1> USE DEF OriginateReturns, OriginateOk, OriginateErr
<1>0. CampaignTypeOK /\ StopPhase' = StopPhase
  BY StopKept DEF PoolInv, cancelState
<1>1. /\ worker[l] = "dialing"
      /\ worker' = [worker EXCEPT ![l] = "pacing"]
      /\ status' = status \/ status' = [status EXCEPT ![l] = "failed"]
      /\ UNCHANGED <<campStatus, late>>
  BY DEF cancelState
<1>2. worker'[l] = "pacing"
  BY <1>0, <1>1 DEF CampaignTypeOK
<1>3. LeadPhase(l) = "dialing" /\ LeadPhase(l)' = "dialed"
  BY <1>1, <1>2, PhaseOf, PhaseOfNext, Zenon
<1>4. \A k \in Lead \ {l} : LeadPhase(k)' = LeadPhase(k)
  BY <1>0, <1>1, PhaseKept DEF CampaignTypeOK
<1>5. Phases' = [Phases EXCEPT ![l] = "dialed"]
  BY <1>3, <1>4, PhaseMoves
<1> QED BY <1>0, <1>1, <1>3, <1>5 DEF Promise!Finish, Phases

\* The end of a goroutine and a started one that does not dial yet are
\* invisible, and so are status callbacks: a canceled lead has no uuid.
LEMMA InvisibleSteps ==
    ASSUME PoolInv
    PROVE  /\ LoopAcquire => UNCHANGED PromiseVars
           /\ \A l \in Lead : Release(l) => UNCHANGED PromiseVars
           /\ \A l \in Lead, s \in CallbackStatus :
                Callback(l, s) => UNCHANGED PromiseVars
<1>0. CampaignTypeOK
  BY DEF PoolInv
<1>1. ASSUME LoopAcquire PROVE UNCHANGED PromiseVars
  <2>1. /\ UNCHANGED <<status, campStatus, late>> /\ StopPhase' = StopPhase
        /\ worker' = [worker EXCEPT ![next] = "spawned"]
    BY <1>1, StopKept DEF LoopAcquire, leadState, cancelState
  <2> PICK n \in Lead : n = next
    BY <1>1 DEF LoopAcquire, PoolInv
  <2>2. worker[n] = "none" /\ worker'[n] = "spawned" /\ status'[n] = status[n]
    BY <1>0, <2>1 DEF PoolInv, NotReached, Lead, CampaignTypeOK
  <2>3. LeadPhase(n)' = LeadPhase(n)
    BY <2>2, PhaseOf, PhaseOfNext, Zenon
  <2>4. \A k \in Lead \ {n} : LeadPhase(k)' = LeadPhase(k)
    BY <1>0, <2>1, PhaseKept DEF CampaignTypeOK
  <2>5. Phases' = Phases
    BY <2>3, <2>4 DEF Phases
  <2> QED BY <2>1, <2>5 DEF PromiseVars
<1>2. ASSUME NEW l \in Lead, Release(l) PROVE UNCHANGED PromiseVars
  <2>1. /\ UNCHANGED <<status, campStatus, late>> /\ StopPhase' = StopPhase
        /\ worker[l] = "pacing" /\ worker' = [worker EXCEPT ![l] = "exited"]
    BY <1>2, StopKept DEF Release, leadState, cancelState
  <2>2. worker'[l] = "exited"
    BY <1>0, <2>1 DEF CampaignTypeOK
  <2>3. LeadPhase(l)' = LeadPhase(l)
    BY <2>1, <2>2, PhaseOf, PhaseOfNext, Zenon
  <2>4. \A k \in Lead \ {l} : LeadPhase(k)' = LeadPhase(k)
    BY <1>0, <2>1, PhaseKept DEF CampaignTypeOK
  <2>5. Phases' = Phases
    BY <2>3, <2>4 DEF Phases
  <2> QED BY <2>1, <2>5 DEF PromiseVars
<1>3. ASSUME NEW l \in Lead, NEW s \in CallbackStatus, Callback(l, s)
      PROVE  UNCHANGED PromiseVars
  <2>1. /\ UNCHANGED <<worker, campStatus, late>> /\ StopPhase' = StopPhase
        /\ s # "canceled"
        /\ status' = IF hasUUID[l] THEN [status EXCEPT ![l] = s] ELSE status
    BY <1>3, StopKept DEF Callback, SetLeadStatus, CallbackStatus, poolState,
       cancelState
  <2>2. \A k \in Lead : (status'[k] = "canceled") <=> (status[k] = "canceled")
    <3>1. hasUUID[l] => status[l] # "canceled"
      BY <1>0 DEF PoolInv, NotReached, CampaignTypeOK, Lead
    <3> QED BY <1>0, <2>1, <3>1 DEF CampaignTypeOK
  <2>3. Phases' = Phases
    BY <2>1, <2>2, PhaseKept DEF Phases
  <2> QED BY <2>1, <2>3 DEF PromiseVars
<1> QED BY <1>1, <1>2, <1>3

\* The pool's end is reported only when no lead waits or is being dialed.
LEMMA FinishedImplements ==
    ASSUME PoolInv, LoopFinish
    PROVE  Promise!ReportDone \/ UNCHANGED PromiseVars
<1>0. CampaignTypeOK /\ PoolIdle /\ StopPhase' = StopPhase
  BY StopKept DEF LoopFinish, PoolInv
<1>1. /\ UNCHANGED <<worker, status, late>>
      /\ campStatus' = IF canceled THEN campStatus ELSE "done"
  BY DEF LoopFinish, leadState
<1>2. Phases' = Phases
  BY <1>1, PhaseKept DEF Phases
<1>3. \A l \in Lead : LeadPhase(l) \in {"dialed", "skipped"}
  <2> SUFFICES ASSUME NEW l \in Lead PROVE LeadPhase(l) \in {"dialed", "skipped"}
    OBVIOUS
  <2>1. worker[l] = "none" => status[l] = "canceled"
    BY <1>0, NumLeadsAssumption DEF PoolIdle, PoolInv, CampaignTypeOK, Lead
  <2>2. worker[l] \in {"none", "exited"}
    BY <1>0 DEF PoolIdle
  <2> QED BY <2>1, <2>2, PhaseOf, Zenon
<1>4. CASE ~canceled /\ campStatus = "running"
  <2>1. StopPhase = "no"
    BY <1>4 DEF StopPhase, PoolInv
  <2>2. Promise!InPhase("waiting") \cup Promise!InPhase("dialing") = {}
    BY <1>3 DEF Promise!InPhase
  <2> QED BY <1>0, <1>1, <1>2, <1>4, <2>1, <2>2 DEF Promise!ReportDone, Phases
<1>5. CASE canceled \/ campStatus # "running"
  <2>1. campStatus' = campStatus
    BY <1>0, <1>1, <1>5 DEF CampaignTypeOK, PoolInv
  <2> QED BY <1>0, <1>1, <1>2, <2>1 DEF PromiseVars
<1> QED BY <1>4, <1>5

\* Cancel's two steps are the two steps of the promise's stop.
LEMMA CancelImplements ==
    ASSUME PoolInv, CancelFlag \/ CancelCtx
    PROVE  Promise!RequestStop \/ Promise!StopReturns
<1>1. UNCHANGED <<worker, status, late>>
  BY DEF CancelFlag, CancelCtx, poolState, leadState
<1>2. Phases' = Phases
  BY <1>1, PhaseKept DEF Phases
<1>3. CASE CancelFlag
  BY <1>1, <1>2, <1>3 DEF CancelFlag, PoolInv, StopPhase, Promise!RequestStop, Phases
<1>4. CASE CancelCtx
  BY <1>1, <1>2, <1>4 DEF CancelCtx, PoolInv, StopPhase, Promise!StopReturns, Phases
<1> QED BY <1>3, <1>4

\* Every step of Campaign is a step of DialPool or leaves it alone.
LEMMA StepImplements ==
    PoolInv /\ LateStarted /\ [CampaignNext]_campaignVars
        => [Promise!PoolNext]_(Promise!poolVars)
<1> SUFFICES ASSUME PoolInv, LateStarted, [CampaignNext]_campaignVars
             PROVE  Promise!PoolNext \/ UNCHANGED PromiseVars
  BY DEF Promise!poolVars, PromiseVars, Phases
<1> USE DEF Promise!PoolNext
<1>1. CASE LoopStep
  BY <1>1, SkipImplements, InvisibleSteps, FinishedImplements DEF LoopStep
<1>2. ASSUME NEW l \in Lead, StartDial(l) PROVE Promise!PoolNext
  BY <1>2, StartImplements
<1>3. ASSUME NEW l \in Lead, OriginateReturns(l) PROVE Promise!PoolNext
  BY <1>3, FinishImplements
<1>4. ASSUME NEW l \in Lead, Release(l) PROVE UNCHANGED PromiseVars
  BY <1>4, InvisibleSteps
<1>5. CASE CancelFlag \/ CancelCtx
  BY <1>5, CancelImplements
<1>6. ASSUME NEW l \in Lead, NEW s \in CallbackStatus, Callback(l, s)
      PROVE  UNCHANGED PromiseVars
  BY <1>6, InvisibleSteps
<1>7. CASE UNCHANGED campaignVars
  <2>1. UNCHANGED <<worker, status, late, campStatus>> /\ StopPhase' = StopPhase
    BY <1>7, StopKept DEF campaignVars, poolState, leadState, cancelState
  <2>2. Phases' = Phases
    BY <2>1, PhaseKept DEF Phases
  <2> QED BY <2>1, <2>2 DEF PromiseVars
<1> QED
  BY <1>1, <1>2, <1>3, <1>4, <1>5, <1>6, <1>7 DEF CampaignNext

---------------------------------------------------------------------------
\* The worker pool of manager.go keeps the promise of DialPool: each lead is
\* dialed once at most, within CCU, skipped only after a cancel, and the
\* outcome is reported when nothing is left to do.
THEOREM PoolImplements == CampaignSpec => ImplementsDialPool
<1>1. CampaignInit => LateStarted
  BY DEF CampaignInit, LateStarted
<1>2. CampaignSpec => []LateStarted
  BY <1>1, LateStartedStep, PoolInvariant, PTL DEF CampaignSpec
<1> QED
  BY <1>2, InitImplements, StepImplements, PoolInvariant, PTL
     DEF CampaignSpec, ImplementsDialPool, Promise!PoolSpec

\* A lead whose originate failed keeps that status: its call, should
\* FreeSWITCH have placed it after all, has no uuid a callback could match.
THEOREM FailureIsFinal == CampaignSpec => FailedOriginateIsFinal
<1>1. PoolInv /\ [CampaignNext]_campaignVars
        => [\A l \in Lead : status[l] = "failed" /\ ~hasUUID[l]
              => status'[l] = "failed"]_campaignVars
  <2> SUFFICES ASSUME PoolInv, CampaignNext, NEW l \in Lead,
                      status[l] = "failed", ~hasUUID[l]
               PROVE  status'[l] = "failed"
    OBVIOUS
  <2>0. CampaignTypeOK
    BY DEF PoolInv
  <2>1. CASE LoopStep
    BY <2>0, <2>1 DEF LoopStep, LoopCheck, LoopAcquire, LoopCtxDone, LoopFinish,
       SkipLead, leadState, CampaignTypeOK
  <2>2. ASSUME NEW k \in Lead, StartDial(k) \/ OriginateReturns(k) \/ Release(k)
        PROVE  status'[l] = "failed"
    BY <2>0, <2>2 DEF StartDial, OriginateReturns, OriginateOk, OriginateErr,
       Release, leadState, PoolInv, CampaignTypeOK
  <2>3. CASE CancelFlag \/ CancelCtx
    BY <2>3 DEF CancelFlag, CancelCtx, leadState
  <2>4. ASSUME NEW k \in Lead, NEW s \in CallbackStatus, Callback(k, s)
        PROVE  status'[l] = "failed"
    BY <2>0, <2>4 DEF Callback, SetLeadStatus, CampaignTypeOK
  <2> QED BY <2>1, <2>2, <2>3, <2>4 DEF CampaignNext
<1> QED BY <1>1, PoolInvariant, PTL DEF CampaignSpec, FailedOriginateIsFinal

---------------------------------------------------------------------------
(* The pool keeps running as Campaign says.                                  *)

\* Every step of a call is a return of originate, a status callback, or no
\* business of the pool.
LEMMA StepRefines == [OutNext]_outVars => [CampaignNext]_campaignVars
<1> SUFFICES ASSUME [OutNext]_outVars PROVE CampaignNext \/ UNCHANGED campaignVars
  OBVIOUS
<1>1. CASE UNCHANGED outVars
  BY <1>1 DEF outVars
<1>2. CASE PoolStep
  BY <1>2 DEF PoolStep, CampaignNext
<1>3. ASSUME NEW l \in Lead, OriginateStep(l) PROVE CampaignNext \/ UNCHANGED campaignVars
  <2>1. CASE FailOriginate(l)
    <3>1. Callback(l, "failed") /\ "failed" \in CallbackStatus
      BY <2>1 DEF FailOriginate, LeadCallback, CallbackStatus
    <3> QED BY <3>1 DEF CampaignNext
  <2>2. CASE ReturnFromOriginate(l)
    BY <2>2 DEF ReturnFromOriginate, CampaignNext, OriginateReturns
  <2> QED
    BY <1>3, <2>1, <2>2 DEF OriginateStep, NoProviders, RegisterPending, SendBgapi, StoreJob
<1>4. ASSUME NEW l \in Lead, HandlerStep(l) PROVE CampaignNext \/ UNCHANGED campaignVars
  <2>1. CASE AnsAccept(l)
    <3>1. Callback(l, "answered") /\ "answered" \in CallbackStatus
      BY <2>1 DEF AnsAccept, LeadCallback, CallbackStatus
    <3> QED BY <3>1 DEF CampaignNext
  <2>2. CASE HupReport(l)
    BY <2>2 DEF HupReport, LeadCallback, CampaignNext
  <2> QED
    BY <1>4, <2>1, <2>2 DEF HandlerStep, AnsLoad, AnsFlag, HupSession, HupTake
<1>5. ASSUME NEW l \in Lead, RunStep(l) PROVE CampaignNext \/ UNCHANGED campaignVars
  <2>1. CASE RunOnEnd(l)
    <3>1. Callback(l, "completed") /\ "completed" \in CallbackStatus
      BY <2>1 DEF RunOnEnd, LeadCallback, CallbackStatus
    <3> QED BY <3>1 DEF CampaignNext
  <2> QED BY <1>5, <2>1 DEF RunStep, RunStart, RunRemove
<1>6. ASSUME NEW l \in Lead, JobEvent(l) \/ JobTimeout(l) \/ FsStep(l)
                               \/ RunEndCall(l) \/ RunReturn(l)
      PROVE  UNCHANGED campaignVars
  BY <1>6 DEF JobEvent, JobTimeout, FsStep, FsAnswer, FsFail, FsHangup, RunEndCall, RunReturn
<1> QED BY <1>1, <1>2, <1>3, <1>4, <1>5, <1>6 DEF OutNext

\* The pool under these handlers is the pool of Campaign: they call it back in
\* no way Campaign has not allowed for, so all that is proved of it holds here.
THEOREM OutboundImplements == OutSpec => ImplementsCampaign
<1>1. OutInit => CampaignInit
  BY DEF OutInit
<1> QED BY <1>1, StepRefines, PTL DEF OutSpec, CampaignSpec, ImplementsCampaign

---------------------------------------------------------------------------
(* The inductive invariant of one call.                                      *)

\* Originate returns once, and a channel exists after it was asked for.
OriginateInOrder(l) ==
    /\ worker[l] \in {"pacing", "exited"} => orig[l] = "returned"
    /\ orig[l] \in {"idle", "registered"} => chan[l] = "none"

\* What says that a call was picked up comes from a call that was.
PickedUpFirst(l) ==
    (\/ job[l] = "ok" \/ orig[l] = "ok" \/ ans[l] # "none" \/ run[l] # "none"
     \/ hasUUID[l] \/ status[l] \in {"answered", "completed"})
       => PickedUp(l)

\* One ANSWER spawns one Run, which is in the manager between Add and Remove.
OneRun(l) ==
    /\ ans[l] \in {"spawned", "loaded", "accepted"} => run[l] = "none"
    /\ inSessions[l] <=> run[l] \in {"active", "ending", "reported"}

\* Whoever is to delete a pending entry is still there: Originate, until it has
\* succeeded; then the hangup handler, until it has seen a session; then Run.
PendingHasOwner(l) ==
    inPending[l] =>
        /\ orig[l] \notin {"idle", "err"}
        /\ orig[l] = "returned" => PickedUp(l)
        /\ chan[l] = "ended" => \/ hup[l] \in {"spawned", "nosession"}
                                \/ run[l] \in {"active", "ending", "reported"}

\* The goroutine of a lead calls Originate, and records the uuid when it is back.
DialedInOrder(l) ==
    /\ orig[l] # "idle" => worker[l] \in {"dialing", "pacing", "exited"}
    /\ hasUUID[l] => orig[l] = "returned"
    /\ orig[l] = "returned" /\ ~hasUUID[l] => status[l] = "failed"

\* Originate has placed the call and has not given it up.
Placed(l) ==
    orig[l] \in {"sent", "waiting", "ok"} \/ (orig[l] = "returned" /\ hasUUID[l])

\* The end of a placed call is reported: the pending entry is there until the
\* hangup handler or Run has it, and who is through has reported or left it to Run.
EndIsReported(l) ==
    /\ hup[l] = "none" <=> chan[l] \in {"none", "ringing", "up"}
    /\ hup[l] # "answered"
    /\ orig[l] = "registered" => inPending[l]
    /\ Placed(l) =>
         /\ hup[l] \in {"none", "spawned", "nosession"} /\ run[l] # "ended" => inPending[l]
         /\ run[l] \in {"reported", "ended"} => Settled(l) \/ l \in missed
         /\ hup[l] = "done" => \/ Settled(l) \/ l \in missed
                               \/ run[l] \in {"spawned", "active", "ending"}

CallInv(l) ==
    /\ OriginateInOrder(l) /\ PickedUpFirst(l) /\ OneRun(l) /\ PendingHasOwner(l)
    /\ DialedInOrder(l) /\ EndIsReported(l)

OutboundInv == OutTypeOK /\ \A l \in Lead : CallInv(l)

\* All that CallInv reads of the call of k.
CallOf(k) == <<worker[k], status[k], hasUUID[k], orig[k], job[k], chan[k],
               inPending[k], ans[k], hup[k], run[k], inSessions[k], k \in missed>>

\* A call that no step has touched keeps its invariant.
LEMMA OthersKeep ==
    ASSUME NEW k, CallInv(k), UNCHANGED CallOf(k)
    PROVE  CallInv(k)'
BY DEF CallInv, OriginateInOrder, PickedUpFirst, OneRun, PendingHasOwner, DialedInOrder, Placed,
     EndIsReported, Settled, PickedUp, CallOf

\* Before the pool starts there is no call.
LEMMA OutboundInitInv == OutInit => OutboundInv
<1> SUFFICES ASSUME OutInit PROVE OutboundInv
  OBVIOUS
<1>1. PoolInv
  BY InitInv DEF OutInit
<1>2. OutTypeOK
  BY <1>1 DEF OutInit, OutTypeOK, PoolInv
<1>3. ASSUME NEW l \in Lead PROVE CallInv(l)
  BY DEF OutInit, CampaignInit, CallInv, OriginateInOrder, PickedUpFirst, OneRun,
     PendingHasOwner, DialedInOrder, Placed, EndIsReported, Settled
<1> QED BY <1>2, <1>3 DEF OutboundInv

---------------------------------------------------------------------------
(* Every step keeps the invariant.                                           *)

\* The pool moves leads that have no call yet, or are done with originate.
LEMMA PoolKeeps ==
    ASSUME OutboundInv, PoolInv, CampaignTypeOK', PoolStep
    PROVE  OutboundInv'
<1> USE DEF poolState, leadState, cancelState
<1>0. CampaignTypeOK /\ UNCHANGED callVars
  BY DEF OutboundInv, OutTypeOK, PoolStep
<1>1. OutTypeOK'
  BY <1>0 DEF OutboundInv, OutTypeOK, callVars, originateVars, handlerVars, sessionVars
<1> DEFINE Kept(k) ==
      /\ worker'[k] \in {"pacing", "exited"} => worker[k] \in {"pacing", "exited"}
      /\ hasUUID'[k] = hasUUID[k]
      /\ status'[k] \in {"answered", "completed"} => status'[k] = status[k]
      /\ orig[k] # "idle" =>
           /\ worker'[k] \in {"dialing", "pacing", "exited"}
           /\ status'[k] = status[k] \/ (status[k] = "pending" /\ status'[k] = "canceled")
<1>2. ASSUME NEW k \in Lead PROVE Kept(k)
  <2>0. orig[k] # "idle" => worker[k] \in {"dialing", "pacing", "exited"}
    BY DEF OutboundInv, CallInv, DialedInOrder
  <2>1. CASE LoopStep
    <3>1. CASE LoopAcquire
      BY <1>0, <2>0, <3>1 DEF LoopAcquire, CampaignTypeOK, PoolInv, NotReached
    <3>2. CASE LoopCheck \/ LoopCtxDone \/ LoopFinish
      BY <1>0, <2>0, <3>2 DEF LoopCheck, LoopCtxDone, LoopFinish, SkipLead, CampaignTypeOK
    <3> QED BY <2>1, <3>1, <3>2 DEF LoopStep
  <2>2. CASE CancelFlag \/ CancelCtx
    BY <2>0, <2>2 DEF CancelFlag, CancelCtx
  <2>3. ASSUME NEW l \in Lead, StartDial(l) \/ Release(l)
        PROVE  Kept(k)
    BY <1>0, <2>0, <2>3 DEF StartDial, Release, CampaignTypeOK
  <2> QED BY <2>1, <2>2, <2>3 DEF PoolStep
<1>4. ASSUME NEW k \in Lead PROVE CallInv(k)'
  <2>1. CallInv(k)
    BY DEF OutboundInv
  <2> QED
    BY <1>0, <1>2, <2>1 DEF CallInv, OriginateInOrder, PickedUpFirst, OneRun,
       PendingHasOwner, DialedInOrder, Placed,
     EndIsReported, Settled, PickedUp, callVars, originateVars, handlerVars, sessionVars
<1> QED BY <1>1, <1>4 DEF OutboundInv

\* Originate: its job's success is the channel's, and a failure deletes.
LEMMA OriginateKeeps ==
    ASSUME OutboundInv, CampaignTypeOK', NEW l \in Lead,
           OriginateStep(l) \/ JobEvent(l) \/ JobTimeout(l)
    PROVE  OutboundInv'
<1> USE DEF campaignVars, poolState, leadState, cancelState, handlerVars, sessionVars
<1> USE DEF OriginateStep, NoProviders, RegisterPending, SendBgapi, StoreJob, FailOriginate,
        ReturnFromOriginate, JobEvent, JobTimeout, JobVerdict, LeadCallback, Callback,
        SetLeadStatus, OriginateOk, OriginateErr
<1>0. OutTypeOK /\ CampaignTypeOK /\ CallInv(l)
  BY DEF OutboundInv, OutTypeOK
<1>1. OutTypeOK'
  <2>1. CASE NoProviders(l) \/ RegisterPending(l) \/ SendBgapi(l) \/ StoreJob(l)
    BY <1>0, <2>1 DEF OutTypeOK
  <2>2. CASE FailOriginate(l) \/ ReturnFromOriginate(l)
    BY <1>0, <2>2 DEF OutTypeOK
  <2>3. CASE JobEvent(l) \/ JobTimeout(l)
    BY <1>0, <2>3 DEF OutTypeOK
  <2> QED BY <2>1, <2>2, <2>3
<1>2. ASSUME NEW k \in Lead \ {l} PROVE UNCHANGED CallOf(k)
  BY <1>0 DEF OutTypeOK, CampaignTypeOK, CallOf
<1>3. CallInv(l)'
  BY <1>0 DEF CallInv, OriginateInOrder, PickedUpFirst, OneRun, PendingHasOwner, DialedInOrder, Placed,
     EndIsReported, Settled, PickedUp,
     OutTypeOK, CampaignTypeOK
<1>4. ASSUME NEW k \in Lead PROVE CallInv(k)'
  BY <1>2, <1>3, OthersKeep DEF OutboundInv
<1> QED BY <1>1, <1>4 DEF OutboundInv

\* FreeSWITCH answers, fails or hangs up a call once.
LEMMA ChannelKeeps ==
    ASSUME OutboundInv, CampaignTypeOK', NEW l \in Lead, FsStep(l) \/ RunEndCall(l)
    PROVE  OutboundInv'
<1> USE DEF campaignVars, poolState, leadState, cancelState, handlerVars, sessionVars
<1> USE DEF FsStep, FsAnswer, FsFail, FsHangup, RunEndCall
<1>0. OutTypeOK /\ CampaignTypeOK /\ CallInv(l)
  BY DEF OutboundInv, OutTypeOK
<1>1. OutTypeOK'
  BY <1>0 DEF OutTypeOK, Over
<1>2. ASSUME NEW k \in Lead \ {l} PROVE UNCHANGED CallOf(k)
  BY <1>0 DEF OutTypeOK, CampaignTypeOK, CallOf
<1>3. CallInv(l)'
  BY <1>0 DEF CallInv, OriginateInOrder, PickedUpFirst, OneRun, PendingHasOwner, DialedInOrder, Placed,
     EndIsReported, Settled, PickedUp,
     OutTypeOK, CampaignTypeOK
<1>4. ASSUME NEW k \in Lead PROVE CallInv(k)'
  BY <1>2, <1>3, OthersKeep DEF OutboundInv
<1> QED BY <1>1, <1>4 DEF OutboundInv

\* The handlers: a status reaches only a lead whose call was picked up, and a
\* hangup that leaves the pending entry alone has seen the session.
LEMMA HandlersKeep ==
    ASSUME OutboundInv, CampaignTypeOK', NEW l \in Lead, HandlerStep(l)
    PROVE  OutboundInv'
<1> USE DEF campaignVars, poolState, leadState, cancelState, originateVars, sessionVars
<1> USE DEF HandlerStep, AnsLoad, AnsFlag, AnsAccept, HupSession, HupTake, HupReport,
        LeadCallback, Callback, SetLeadStatus
<1>0. OutTypeOK /\ CampaignTypeOK /\ CallInv(l)
  BY DEF OutboundInv, OutTypeOK
<1>1. OutTypeOK'
  <2>1. CASE AnsLoad(l) \/ AnsAccept(l)
    BY <1>0, <2>1 DEF OutTypeOK
  <2>2. CASE AnsFlag(l)
    BY <1>0, <2>2 DEF OutTypeOK
  <2>3. CASE HupSession(l) \/ HupReport(l)
    BY <1>0, <2>3 DEF OutTypeOK, CallbackStatus
  <2>4. CASE HupTake(l)
    <3>1. Verdict(l) \in CallbackStatus
      BY DEF Verdict, ClassifyHangup, CallbackStatus
    <3> QED BY <1>0, <2>4, <3>1 DEF OutTypeOK
  <2> QED BY <2>1, <2>2, <2>3, <2>4
<1>2. ASSUME NEW k \in Lead \ {l} PROVE UNCHANGED CallOf(k)
  BY <1>0 DEF OutTypeOK, CampaignTypeOK, CallOf
<1>3. CallInv(l)'
  <2>1. CASE AnsLoad(l)
    BY <1>0, <2>1 DEF CallInv, OriginateInOrder, PickedUpFirst, OneRun,
       PendingHasOwner, DialedInOrder, Placed, EndIsReported, Settled, PickedUp, OutTypeOK,
       CampaignTypeOK, CallbackStatus
  <2>2. CASE AnsFlag(l)
    BY <1>0, <2>2 DEF CallInv, OriginateInOrder, PickedUpFirst, OneRun,
       PendingHasOwner, DialedInOrder, Placed, EndIsReported, Settled, PickedUp, OutTypeOK,
       CampaignTypeOK, CallbackStatus
  <2>3. CASE AnsAccept(l)
    BY <1>0, <2>3 DEF CallInv, OriginateInOrder, PickedUpFirst, OneRun,
       PendingHasOwner, DialedInOrder, Placed, EndIsReported, Settled, PickedUp, OutTypeOK,
       CampaignTypeOK, CallbackStatus
  <2>4. CASE HupSession(l)
    BY <1>0, <2>4 DEF CallInv, OriginateInOrder, PickedUpFirst, OneRun,
       PendingHasOwner, DialedInOrder, Placed, EndIsReported, Settled, PickedUp, OutTypeOK,
       CampaignTypeOK, CallbackStatus
  <2>5. CASE HupTake(l)
    BY <1>0, <2>5 DEF CallInv, OriginateInOrder, PickedUpFirst, OneRun,
       PendingHasOwner, DialedInOrder, Placed, EndIsReported, Settled, PickedUp, OutTypeOK,
       CampaignTypeOK, CallbackStatus, Verdict, ClassifyHangup
  <2>6. CASE HupReport(l)
    BY <1>0, <2>6 DEF CallInv, OriginateInOrder, PickedUpFirst, OneRun,
       PendingHasOwner, DialedInOrder, Placed, EndIsReported, Settled, PickedUp, OutTypeOK,
       CampaignTypeOK, CallbackStatus
  <2> QED BY <2>1, <2>2, <2>3, <2>4, <2>5, <2>6
<1>4. ASSUME NEW k \in Lead PROVE CallInv(k)'
  BY <1>2, <1>3, OthersKeep DEF OutboundInv
<1> QED BY <1>1, <1>4 DEF OutboundInv

\* Run: the session leaves the manager together with the pending entry.
LEMMA RunKeeps ==
    ASSUME OutboundInv, CampaignTypeOK', NEW l \in Lead, RunStep(l) \/ RunReturn(l)
    PROVE  OutboundInv'
<1> USE DEF campaignVars, poolState, leadState, cancelState, originateVars, handlerVars
<1> USE DEF RunStep, RunStart, RunReturn, RunOnEnd, RunRemove, LeadCallback, Callback,
        SetLeadStatus
<1>0. OutTypeOK /\ CampaignTypeOK /\ CallInv(l)
  BY DEF OutboundInv, OutTypeOK
<1>1. OutTypeOK'
  <2>1. CASE RunStart(l)
    BY <1>0, <2>1 DEF OutTypeOK
  <2>2. CASE RunOnEnd(l) \/ RunReturn(l)
    BY <1>0, <2>2 DEF OutTypeOK
  <2>3. CASE RunRemove(l)
    BY <1>0, <2>3 DEF OutTypeOK
  <2> QED BY <2>1, <2>2, <2>3
<1>2. ASSUME NEW k \in Lead \ {l} PROVE UNCHANGED CallOf(k)
  BY <1>0 DEF OutTypeOK, CampaignTypeOK, CallOf
<1>3. CallInv(l)'
  BY <1>0 DEF CallInv, OriginateInOrder, PickedUpFirst, OneRun, PendingHasOwner, DialedInOrder, Placed,
     EndIsReported, Settled, PickedUp,
     OutTypeOK, CampaignTypeOK
<1>4. ASSUME NEW k \in Lead PROVE CallInv(k)'
  BY <1>2, <1>3, OthersKeep DEF OutboundInv
<1> QED BY <1>1, <1>4 DEF OutboundInv

\* The invariant holds in every reachable state.
LEMMA OutboundInvariant == OutSpec => []OutboundInv
<1>1. OutSpec => []PoolInv
  BY OutboundImplements, PoolInvariant, PTL DEF ImplementsCampaign
<1>2. OutboundInv /\ PoolInv /\ PoolInv' /\ [OutNext]_outVars => OutboundInv'
  <2> SUFFICES ASSUME OutboundInv, PoolInv, PoolInv', [OutNext]_outVars PROVE OutboundInv'
    OBVIOUS
  <2>1. CampaignTypeOK'
    BY DEF PoolInv
  <2>2. CASE UNCHANGED outVars
    <3>1. UNCHANGED <<orig, job, chan, inPending, wasAnswered, ans, hup, run, inSessions,
                      sessCanceled, missed, worker, status, hasUUID>>
      BY <2>2 DEF outVars, callVars, originateVars, handlerVars, sessionVars, campaignVars,
         poolState, leadState
    <3>2. OutTypeOK'
      BY <2>1, <3>1 DEF OutboundInv, OutTypeOK
    <3>3. ASSUME NEW k \in Lead PROVE CallInv(k)'
      BY <3>1, OthersKeep DEF OutboundInv, CallOf
    <3> QED BY <3>2, <3>3 DEF OutboundInv
  <2>3. CASE PoolStep
    BY <2>1, <2>3, PoolKeeps
  <2>4. ASSUME NEW l \in Lead,
               \/ OriginateStep(l) \/ JobEvent(l) \/ JobTimeout(l)
               \/ FsStep(l) \/ HandlerStep(l) \/ RunStep(l)
               \/ RunEndCall(l) \/ RunReturn(l)
        PROVE  OutboundInv'
    BY <2>1, <2>4, OriginateKeeps, ChannelKeeps, HandlersKeep, RunKeeps
  <2> QED BY <2>2, <2>3, <2>4 DEF OutNext
<1> QED BY <1>1, <1>2, OutboundInitInv, PTL DEF OutSpec

---------------------------------------------------------------------------
\* Only calls that were picked up are counted as answered or completed, or get
\* their uuid recorded.
THEOREM CountsAreReal == OutSpec => []ReportedOnlyIfPickedUp
<1>1. OutboundInv => ReportedOnlyIfPickedUp
  BY DEF OutboundInv, CallInv, PickedUpFirst, ReportedOnlyIfPickedUp
<1> QED BY <1>1, OutboundInvariant, PTL

\* The pending map forgets every call that is over, and the manager holds a
\* session exactly while its Run is between Add and Remove.
THEOREM MapsFitCalls == OutSpec => []OutInv
<1>1. OutboundInv => NoPendingLeak
  BY DEF OutboundInv, CallInv, OriginateInOrder, PendingHasOwner, NoPendingLeak, Quiet,
     HandlersDone, PickedUp, Over
<1>2. OutboundInv => SessionsMatchRuns
  BY DEF OutboundInv, CallInv, OneRun, PickedUpFirst, SessionsMatchRuns
<1>3. OutboundInv => OutInv
  BY <1>1, <1>2 DEF OutInv, OutboundInv
<1> QED BY <1>3, OutboundInvariant, PTL

\* A lead whose call is over says so, unless the end was reported before the
\* worker had recorded the uuid: the report is the hangup handler's or Run's,
\* whichever has the call last, and no later status overwrites it.
THEOREM EndsAreRecorded == OutSpec => []SettlesUnlessMissed
<1>1. OutboundInv => SettlesUnlessMissed
  <2> SUFFICES ASSUME OutboundInv, NEW l \in Lead, Quiet(l)
               PROVE  Settled(l) \/ l \in missed
    BY DEF SettlesUnlessMissed
  <2>1. CallInv(l) /\ orig[l] = "returned"
    BY DEF OutboundInv, CallInv, OriginateInOrder, Quiet
  <2>2. CASE ~hasUUID[l]
    BY <2>1, <2>2 DEF CallInv, DialedInOrder, Settled
  <2>3. CASE hasUUID[l]
    <3>1. chan[l] = "ended"
      BY <2>1, <2>3 DEF CallInv, PickedUpFirst, PickedUp, Quiet, Over
    <3>2. hup[l] = "done" /\ run[l] \in {"none", "ended"}
      BY <2>1, <3>1 DEF CallInv, EndIsReported, Quiet, HandlersDone
    <3> QED BY <2>1, <2>3, <3>2 DEF CallInv, EndIsReported, Placed
  <2> QED BY <2>2, <2>3
<1> QED BY <1>1, OutboundInvariant, PTL

\* What the status of a lead says of its call is true, and in the end complete.
THEOREM StatusesAreTrue == OutSpec => []StatusIsTrue
BY CountsAreReal, EndsAreRecorded, PTL DEF StatusIsTrue

\* What Campaign promises of its pool holds under the real handlers.
THEOREM PoolIsSafeUnderCalls == OutSpec => []PoolSafe /\ CancelSticks /\ ImplementsDialPool
BY OutboundImplements, PoolIsSafe, CancelIsSticky, PoolImplements, PTL DEF ImplementsCampaign
=============================================================================
