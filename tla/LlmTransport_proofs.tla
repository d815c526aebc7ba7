------------------------- MODULE LlmTransport_proofs -------------------------
(***************************************************************************)
(* Proofs about ProviderBreaker and LlmTransport, for any number of        *)
(* threads, attempts and replies, any threshold and any cooldown. A        *)
(* breaker is open exactly within a cooldown of the last of enough         *)
(* consecutive outages. Whatever the transport's layers do below a call, a *)
(* request is to the breakers what ProviderBreaker says a call is, so what *)
(* is proved of that module holds here; past an accounting fault a thread  *)
(* completes at most the call it had under way, and one for each gate that *)
(* a parked fault slipped past; and a request sends no more than a limit,  *)
(* however its layers retry.                                               *)
(***************************************************************************)
EXTENDS LlmTransport, TLAPS

-----------------------------------------------------------------------------
(* The breakers.                                                           *)

\* What the breaker counts is the outages since the last success.
CountsOutages == failures = consecutive

\* A tripped breaker's cooldown runs from the last outage.
AgeIsSinceOutage == \A p \in Provider : age[p] # NotOpen => age[p] = since[p]

BreakerInv == TypeOK /\ CountsOutages /\ AgeIsSinceOutage

USE DEF Provider, NotOpen

LEMMA InitBreakerInv == Init => BreakerInv
  BY ParametersAssumption DEF Init, BreakerInv, TypeOK, CountsOutages, AgeIsSinceOutage

\* The counts and the clocks of the breakers before a step.
LEMMA BreakerTypes ==
  ASSUME BreakerInv, NEW p \in Provider
  PROVE  /\ Threshold \in Nat \ {0} /\ Cooldown \in Nat \ {0}
         /\ failures[p] \in 0..Threshold /\ age[p] \in 0..NotOpen
         /\ since[p] \in 0..Cooldown /\ probes \in 0..2
  BY ParametersAssumption DEF BreakerInv, TypeOK

\* A success closes the breaker.
LEMMA SuccessKeeps ==
  ASSUME BreakerInv, NEW p \in Provider, RecordSuccess(p)
  PROVE  /\ failures' \in [Provider -> 0..Threshold] /\ age' \in [Provider -> 0..NotOpen]
         /\ consecutive' \in [Provider -> 0..Threshold] /\ since' \in [Provider -> 0..Cooldown]
         /\ probes' \in 0..2
         /\ \A q \in Provider : failures'[q] = Threshold <=> age'[q] # NotOpen
         /\ CountsOutages' /\ AgeIsSinceOutage'
  BY BreakerTypes DEF RecordSuccess, BreakerInv, TypeOK, CountsOutages, AgeIsSinceOutage

\* An outage counts, and at the threshold it starts a cooldown.
LEMMA FailureKeeps ==
  ASSUME BreakerInv, NEW p \in Provider, RecordFailure(p)
  PROVE  /\ failures' \in [Provider -> 0..Threshold] /\ age' \in [Provider -> 0..NotOpen]
         /\ consecutive' \in [Provider -> 0..Threshold] /\ since' \in [Provider -> 0..Cooldown]
         /\ probes' \in 0..2
         /\ \A q \in Provider : failures'[q] = Threshold <=> age'[q] # NotOpen
         /\ CountsOutages' /\ AgeIsSinceOutage'
<1>1. failures[p] + 1 >= Threshold <=> UpTo(failures[p] + 1, Threshold) = Threshold
  BY BreakerTypes DEF UpTo
<1>2. UpTo(failures[p] + 1, Threshold) \in 0..Threshold
  BY BreakerTypes DEF UpTo
<1>3. failures = consecutive
  BY DEF BreakerInv, CountsOutages
<1> QED
  BY <1>1, <1>2, <1>3, BreakerTypes
  DEF RecordFailure, BreakerInv, TypeOK, CountsOutages, AgeIsSinceOutage

LEMMA NextBreakerInv == BreakerInv /\ [Next]_vars => BreakerInv'
<1> SUFFICES ASSUME BreakerInv, [Next]_vars PROVE BreakerInv'
  OBVIOUS
<1>1. ASSUME NEW t \in Caller, StartCall(t) PROVE BreakerInv'
  BY <1>1, ParametersAssumption
  DEF StartCall, SkipPrimary, UpTo, BreakerInv, TypeOK, CountsOutages, AgeIsSinceOutage
<1>2. ASSUME NEW t \in Caller, Answers(t) PROVE BreakerInv'
  BY <1>2, SuccessKeeps DEF Answers, Return, BreakerInv, TypeOK
<1>3. ASSUME NEW t \in Caller, OwnError(t) PROVE BreakerInv'
  BY <1>3 DEF OwnError, Return, BreakerInv, TypeOK, CountsOutages, AgeIsSinceOutage
<1>4. ASSUME NEW t \in Caller, ProviderFails(t) PROVE BreakerInv'
  <2>1. pc[t] \in Provider
    BY <1>4 DEF ProviderFails, BreakerInv, TypeOK
  <2> QED BY <1>4, <2>1, FailureKeeps DEF ProviderFails, Return, BreakerInv, TypeOK
<1>5. ASSUME Tick PROVE BreakerInv'
  <2>1. \A p \in Provider : age'[p] \in 0..NotOpen /\ since'[p] \in 0..Cooldown
    BY <1>5, BreakerTypes DEF Tick, UpTo
  <2>2. \A p \in Provider : age'[p] = NotOpen <=> age[p] = NotOpen
    BY <1>5, BreakerTypes DEF Tick
  <2>3. AgeIsSinceOutage'
    BY <1>5, BreakerTypes DEF Tick, UpTo, BreakerInv, AgeIsSinceOutage
  <2> QED BY <1>5, <2>1, <2>2, <2>3 DEF Tick, BreakerInv, TypeOK, CountsOutages
<1>6. ASSUME Outage PROVE BreakerInv'
  BY <1>6 DEF Outage, BreakerInv, TypeOK, CountsOutages, AgeIsSinceOutage
<1>7. ASSUME UNCHANGED vars PROVE BreakerInv'
  BY <1>7 DEF vars, BreakerInv, TypeOK, CountsOutages, AgeIsSinceOutage
<1> QED BY <1>1, <1>2, <1>3, <1>4, <1>5, <1>6, <1>7 DEF Next, CallStep

LEMMA BreakerInvariant == Spec => []BreakerInv
  BY InitBreakerInv, NextBreakerInv, PTL DEF Spec

\* Every variable of the router keeps its type, and a breaker is tripped exactly when it
\* has counted to the threshold.
THEOREM TypeCorrect == Spec => []TypeOK
<1>1. BreakerInv => TypeOK
  BY DEF BreakerInv
<1> QED BY <1>1, BreakerInvariant, PTL

\* A breaker is open exactly within a cooldown of the last of enough consecutive outages
\* of that provider.
THEOREM OpenAfterOutages == Spec => []TripsOnConsecutiveOutages
<1>1. BreakerInv => TripsOnConsecutiveOutages
  BY BreakerTypes DEF BreakerInv, TypeOK, CountsOutages, AgeIsSinceOutage,
     TripsOnConsecutiveOutages, BreakerIsOpen
<1> QED BY <1>1, BreakerInvariant, PTL

HIDE DEF Provider, NotOpen
-----------------------------------------------------------------------------
(* A request is a call to the breakers.                                    *)

\* A step of a request is a step of its call, or none.
LEMMA RequestStepRefines ==
  ASSUME NEW t \in Requester, Begin(t) \/ RequestStep(t)
  PROVE  [Next]_vars
<1>0. t \in Caller
  BY RequestAssumption
<1>1. CASE Begin(t)
  BY <1>0, <1>1 DEF Begin, Next
<1>2. CASE AskAgain(t)
  BY <1>0, <1>2 DEF AskAgain, Next
<1>3. CASE Refused(t)
  BY <1>0, <1>3 DEF Refused, Next, CallStep
<1>4. CASE GateLooks(t) \/ Send(t) \/ BackOff(t) \/ ToolCalled(t)
  BY <1>4 DEF GateLooks, Send, BackOff, ToolCalled
<1>5. CASE Errors(t)
  BY <1>0, <1>5 DEF Errors, CallFails, Next, CallStep
<1>6. CASE AnswersNothing(t)
  BY <1>0, <1>6 DEF AnswersNothing, CallFails, Next, CallStep
<1>7. CASE ToolDeclined(t) \/ Accepted(t) \/ Rejected(t)
  BY <1>0, <1>7 DEF ToolDeclined, Accepted, Rejected, Next, CallStep
<1> QED BY <1>1, <1>2, <1>3, <1>4, <1>5, <1>6, <1>7 DEF RequestStep

LEMMA TransportStepRefines == [TransportNext]_transportVars => [Next]_vars
<1> SUFFICES ASSUME [TransportNext]_transportVars PROVE [Next]_vars
  OBVIOUS
<1>1. CASE \E t \in Requester : Begin(t) \/ RequestStep(t)
  BY <1>1, RequestStepRefines
<1>2. CASE CoarseCall
  BY <1>2 DEF CoarseCall, Coarse, Next
<1>3. CASE Elapse
  BY <1>3 DEF Elapse, Next
<1>4. CASE FaultElsewhere \/ Park \/ Reconciled \/ UNCHANGED transportVars
  BY <1>4 DEF FaultElsewhere, Park, Reconciled, transportVars
<1> QED BY <1>1, <1>2, <1>3, <1>4 DEF TransportNext

\* Through retries, repairs and tool loops a request is to the breakers what
\* ProviderBreaker says a call is.
THEOREM TransportImplementsBreaker == TransportSpec => ImplementsBreaker
<1>1. TransportInit => Init
  BY DEF TransportInit
<1> QED BY <1>1, TransportStepRefines, PTL DEF TransportSpec, Spec, ImplementsBreaker

\* So the breakers trip under these layers exactly as they do under coarse calls.
THEOREM TransportTripsOnOutages == TransportSpec => []TripsOnConsecutiveOutages
  BY TransportImplementsBreaker, OpenAfterOutages, PTL DEF ImplementsBreaker
-----------------------------------------------------------------------------
(* The cost of a fault.                                                    *)

\* A thread that has completed a call since a fault is held has another under way only if a
\* fault slipped past its gate; a gate half way will find the fault in memory.
Behind(t) == overrun[t] = 1 /\ \/ gate[t] = "slipped"
                               \/ attempt[t] = 0 /\ (gate[t] = "none" \/ unparked)

FaultTypes == /\ kind \in [Requester -> {"none", "json", "tools"}]
              /\ stage \in [Requester -> {"tool", "final"}]
              /\ attempt \in [Requester -> 0..Attempts]
              /\ gate \in [Requester -> {"none", "clear", "slipped"}]
              /\ overrun \in [Requester -> 0..2]
              /\ unparked \in BOOLEAN /\ parked \in BOOLEAN

FaultInv == FaultTypes /\ (Held => \A t \in Requester : overrun[t] = 0 \/ Behind(t))

USE DEF FirstStage

\* A step of one thread that keeps the faults and what was completed.
OneMoves(t) == \A r \in Requester \ {t} : attempt'[r] = attempt[r] /\ gate'[r] = gate[r]

\* A completion is the last the thread sees of the call under way: behind a fault it can
\* only have been the first, or one that slipped past.
LEMMA BilledKeeps ==
  ASSUME FaultInv, NEW t \in Requester, Sent(t), Billed(t), OneMoves(t),
         attempt'[t] = 0, gate'[t] = "none"
  PROVE  /\ overrun' \in [Requester -> 0..2] /\ unparked' \in BOOLEAN /\ parked' \in BOOLEAN
         /\ Held' => \A r \in Requester : overrun'[r] = 0 \/ Behind(r)'
<1>0. unparked' \in BOOLEAN /\ parked' \in BOOLEAN
  BY Zenon DEF Billed, FaultInv, FaultTypes
<1>1. CASE Held
  <2>1. unparked => unparked'
    BY Zenon DEF Billed
  <2>2. \/ gate[t] = "slipped" /\ overrun' = overrun
        \/ gate[t] # "slipped" /\ overrun' = [overrun EXCEPT ![t] = UpTo(@ + 1, 2)]
    BY <1>1 DEF Billed
  <2>3. overrun[t] = 0 \/ (overrun[t] = 1 /\ gate[t] = "slipped")
    BY <1>1 DEF FaultInv, FaultTypes, Behind, Sent
  <2>4. overrun' \in [Requester -> 0..2] /\ overrun'[t] \in {0, 1}
        /\ \A r \in Requester \ {t} : overrun'[r] = overrun[r]
    BY <2>2, <2>3 DEF FaultInv, FaultTypes, UpTo
  <2>5. ASSUME NEW r \in Requester \ {t} PROVE overrun'[r] = 0 \/ Behind(r)'
    BY <1>1, <2>1, <2>4 DEF FaultInv, OneMoves, Behind
  <2>6. overrun'[t] = 0 \/ Behind(t)'
    BY <2>4 DEF Behind
  <2> QED BY <1>0, <2>4, <2>5, <2>6
<1>2. CASE ~Held
  <2>1. overrun' = [r \in Requester |-> 0]
    BY <1>2 DEF Billed, NoneOver
  <2> QED BY <1>0, <2>1
<1> QED BY <1>1, <1>2

\* Every step that ends a call of a provider leaves none under way, and no gate asked.
Settled(t) == Over(t) \/ BadReply(t) \/ CrossOver(t)

LEMMA SettledEnds ==
  ASSUME FaultTypes, NEW t \in Requester, Settled(t)
  PROVE  /\ kind' \in [Requester -> {"none", "json", "tools"}]
         /\ stage' \in [Requester -> {"tool", "final"}]
         /\ attempt' \in [Requester -> 0..Attempts] /\ attempt'[t] = 0
         /\ gate' \in [Requester -> {"none", "clear", "slipped"}] /\ gate'[t] = "none"
         /\ OneMoves(t)
<1>1. CASE Over(t)
  BY <1>1, RequestAssumption DEF FaultTypes, Over, NewCreate, OneMoves
<1>2. CASE BadReply(t) /\ ~LastReply(t)
  BY <1>2, RequestAssumption DEF FaultTypes, BadReply, NewCreate, OneMoves
<1>3. CASE CrossOver(t)
  BY <1>3, RequestAssumption DEF FaultTypes, CrossOver, NewCreate, OneMoves
<1> QED BY <1>1, <1>2, <1>3 DEF Settled, BadReply

LEMMA SettledKeeps ==
  ASSUME FaultInv, NEW t \in Requester, Settled(t),
         (Sent(t) /\ Billed(t)) \/ (UNCHANGED <<faults, overrun>>)
  PROVE  FaultInv'
<1>1. /\ kind' \in [Requester -> {"none", "json", "tools"}]
      /\ stage' \in [Requester -> {"tool", "final"}]
      /\ attempt' \in [Requester -> 0..Attempts] /\ attempt'[t] = 0
      /\ gate' \in [Requester -> {"none", "clear", "slipped"}] /\ gate'[t] = "none"
      /\ OneMoves(t)
  BY SettledEnds DEF FaultInv
<1>2. CASE Sent(t) /\ Billed(t)
  BY <1>1, <1>2, BilledKeeps, Zenon DEF FaultInv, FaultTypes
<1>3. CASE UNCHANGED <<faults, overrun>>
  <2>1. FaultTypes'
    BY <1>1, <1>3, Zenon DEF FaultInv, FaultTypes, faults
  <2>2. ASSUME Held, NEW r \in Requester PROVE overrun'[r] = 0 \/ Behind(r)'
    <3>1. overrun[r] = 0 \/ Behind(r)
      BY <2>2 DEF FaultInv
    <3>2. CASE r = t
      BY <1>1, <1>3, <3>1, <3>2 DEF Behind
    <3>3. CASE r # t
      BY <1>1, <1>3, <3>1, <3>3 DEF Behind, OneMoves, faults
    <3> QED BY <3>2, <3>3
  <2>3. Held' = Held
    BY <1>3 DEF Held, faults
  <2> QED BY <2>1, <2>2, <2>3 DEF FaultInv
<1> QED BY <1>2, <1>3

\* The gate's two reads and the first send behind them.
LEMMA GateKeeps ==
  ASSUME FaultInv, NEW t \in Requester, GateLooks(t) \/ Send(t)
  PROVE  FaultInv'
<1>0. UNCHANGED <<kind, stage, overrun, unparked, parked>>
  BY DEF GateLooks, Send, faults
<1>1. CASE GateLooks(t)
  <2>1. gate' = [gate EXCEPT ![t] = "clear"] /\ attempt' = attempt /\ attempt[t] = 0
        /\ gate[t] = "none" /\ ~parked
    BY <1>1 DEF GateLooks, Gated, GateClosed
  <2>2. Held => unparked
    BY <2>1 DEF Held
  <2>3. FaultTypes'
    BY <1>0, <2>1 DEF FaultInv, FaultTypes
  <2>4. Held => \A r \in Requester : overrun[r] = 0 \/ Behind(r)'
    BY <1>0, <2>1, <2>2 DEF FaultInv, FaultTypes, Behind
  <2> QED BY <1>0, <2>3, <2>4 DEF FaultInv, Held
<1>2. CASE Send(t)
  <2>1. attempt' = [attempt EXCEPT ![t] = 1] /\ gate' = gate /\ gate[t] # "none" /\ ~unparked
    BY <1>2 DEF Send, GateClosed
  <2>2. FaultTypes'
    BY <1>0, <2>1, RequestAssumption DEF FaultInv, FaultTypes
  <2>3. Held => \A r \in Requester : overrun[r] = 0 \/ Behind(r)'
    BY <1>0, <2>1 DEF FaultInv, FaultTypes, Behind
  <2> QED BY <1>0, <2>2, <2>3 DEF FaultInv, Held
<1> QED BY <1>1, <1>2

LEMMA RequestStepKeeps ==
  ASSUME FaultInv, NEW t \in Requester, Begin(t) \/ RequestStep(t)
  PROVE  FaultInv'
<1>1. CASE Begin(t)
  <2>1. /\ FaultTypes' /\ UNCHANGED <<overrun, unparked, parked>>
        /\ attempt'[t] = 0 /\ gate'[t] = "none" /\ OneMoves(t)
    BY <1>1, RequestAssumption DEF Begin, NewCreate, FaultInv, FaultTypes, OneMoves, faults
  <2>2. Held => \A r \in Requester : overrun[r] = 0 \/ Behind(r)'
    BY <2>1 DEF FaultInv, Behind, OneMoves
  <2> QED BY <2>1, <2>2 DEF FaultInv, Held
<1>2. CASE AskAgain(t)
  BY <1>2 DEF AskAgain, request, faults, FaultInv, FaultTypes, Held, Behind
<1>3. CASE Refused(t)
  BY <1>3, SettledKeeps DEF Refused, Settled
<1>4. CASE GateLooks(t) \/ Send(t)
  BY <1>4, GateKeeps
<1>5. CASE BackOff(t)
  <2>1. attempt[t] > 0 /\ attempt[t] < Attempts
    BY <1>5 DEF BackOff, Sent, MayRetry
  <2>2. /\ attempt' = [attempt EXCEPT ![t] = @ + 1]
        /\ UNCHANGED <<kind, stage, gate, overrun, unparked, parked>>
    BY <1>5 DEF BackOff, faults
  <2>3. FaultTypes'
    BY <2>1, <2>2, RequestAssumption DEF FaultInv, FaultTypes
  <2>4. Held => \A r \in Requester : overrun[r] = 0 \/ Behind(r)'
    BY <2>1, <2>2 DEF FaultInv, FaultTypes, Behind
  <2> QED BY <2>2, <2>3, <2>4 DEF FaultInv, Held
<1>6. CASE Errors(t)
  BY <1>6, SettledKeeps DEF Errors, CallFails, Settled
<1>7. CASE AnswersNothing(t)
  <2>1. Sent(t) /\ Billed(t) /\ Settled(t)
    BY <1>7 DEF AnswersNothing, CallFails, Settled
  <2> QED BY <2>1, SettledKeeps
<1>8. CASE ToolCalled(t)
  <2>1. Sent(t) /\ Billed(t)
    BY <1>8 DEF ToolCalled, Arrives
  <2>2. /\ NewCreate(t) /\ UNCHANGED kind /\ stage' = [stage EXCEPT ![t] = "final"]
    BY <1>8 DEF ToolCalled
  <2>3. /\ attempt' \in [Requester -> 0..Attempts] /\ attempt'[t] = 0
        /\ gate' \in [Requester -> {"none", "clear", "slipped"}] /\ gate'[t] = "none"
        /\ OneMoves(t)
    BY <2>2, RequestAssumption DEF FaultInv, FaultTypes, NewCreate, OneMoves
  <2>4. stage' \in [Requester -> {"tool", "final"}]
        /\ kind' \in [Requester -> {"none", "json", "tools"}]
    BY <2>2 DEF FaultInv, FaultTypes
  <2> QED BY <2>1, <2>3, <2>4, BilledKeeps, Zenon DEF FaultInv, FaultTypes
<1>9. CASE ToolDeclined(t) \/ Accepted(t) \/ Rejected(t)
  <2>1. Sent(t) /\ Billed(t) /\ Settled(t)
    BY <1>9 DEF ToolDeclined, Accepted, Rejected, Arrives, Settled
  <2> QED BY <2>1, SettledKeeps
<1> QED BY <1>1, <1>2, <1>3, <1>4, <1>5, <1>6, <1>7, <1>8, <1>9 DEF RequestStep

\* A fault that latches elsewhere, is parked or is replayed.
LEMMA ElsewhereKeeps ==
  ASSUME FaultInv, FaultElsewhere \/ Park \/ Reconciled
  PROVE  FaultInv'
<1>1. CASE Park
  <2>1. FaultTypes' /\ overrun' = overrun /\ attempt' = attempt /\ unparked /\ Held
    BY <1>1 DEF Park, FaultInv, FaultTypes, Held
  <2>2. \A r \in Requester : \/ gate'[r] = gate[r] /\ (attempt[r] # 0 \/ gate[r] # "clear")
                             \/ gate'[r] = "slipped"
    BY <1>1 DEF Park
  <2>3. \A r \in Requester : overrun[r] = 0 \/ Behind(r)'
    BY <2>1, <2>2 DEF FaultInv, FaultTypes, Behind
  <2> QED BY <2>1, <2>3 DEF FaultInv
<1>2. CASE FaultElsewhere \/ Reconciled
  <2>1. UNCHANGED <<kind, stage, attempt, gate>>
    BY <1>2 DEF FaultElsewhere, Reconciled
  <2>2. unparked' \in BOOLEAN /\ parked' \in BOOLEAN /\ (unparked => unparked')
    BY <1>2, Zenon DEF FaultElsewhere, Reconciled, FaultInv, FaultTypes
  <2>3. overrun' = [r \in Requester |-> 0] \/ (overrun' = overrun /\ Held)
    BY <1>2 DEF FaultElsewhere, Reconciled, NoneOver, Held
  <2>4. FaultTypes'
    BY <2>1, <2>2, <2>3 DEF FaultInv, FaultTypes
  <2>5. \A r \in Requester : overrun'[r] = 0 \/ Behind(r)'
    BY <2>1, <2>2, <2>3 DEF FaultInv, Behind
  <2> QED BY <2>4, <2>5 DEF FaultInv
<1> QED BY <1>1, <1>2

LEMMA NextFaultInv == FaultInv /\ [TransportNext]_transportVars => FaultInv'
<1> SUFFICES ASSUME FaultInv, [TransportNext]_transportVars PROVE FaultInv'
  OBVIOUS
<1>1. CASE \E t \in Requester : Begin(t) \/ RequestStep(t)
  BY <1>1, RequestStepKeeps
<1>2. CASE CoarseCall \/ Elapse \/ UNCHANGED transportVars
  <2>1. UNCHANGED request
    BY <1>2 DEF CoarseCall, Elapse, transportVars
  <2> QED BY <2>1 DEF request, faults, FaultInv, FaultTypes, Held, Behind
<1>3. CASE FaultElsewhere \/ Park \/ Reconciled
  BY <1>3, ElsewhereKeeps
<1> QED BY <1>1, <1>2, <1>3 DEF TransportNext

LEMMA FaultsKept == TransportSpec => []FaultInv
<1>1. TransportInit => FaultInv
  <2> SUFFICES ASSUME TransportInit PROVE FaultInv
    OBVIOUS
  <2>1. unparked \in BOOLEAN /\ parked \in BOOLEAN /\ ~unparked /\ ~parked
    BY Zenon DEF TransportInit
  <2>2. /\ kind = [t \in Requester |-> "none"] /\ stage = [t \in Requester |-> "final"]
        /\ attempt = [t \in Requester |-> 0] /\ overrun = [t \in Requester |-> 0]
        /\ gate = [t \in Requester |-> "none"]
    BY DEF TransportInit
  <2> QED BY <2>1, <2>2, RequestAssumption DEF FaultInv, FaultTypes, Held
<1> QED BY <1>1, NextFaultInv, PTL DEF TransportSpec

\* Once spend could not be counted, a thread completes at most the call it had under way,
\* besides the calls whose gate a parked fault slipped past.
THEOREM NothingPastAFault == TransportSpec => []NothingBilledPastAFault
<1>1. FaultInv => NothingBilledPastAFault
  BY DEF FaultInv, Behind, NothingBilledPastAFault
<1> QED BY <1>1, FaultsKept, PTL
-----------------------------------------------------------------------------
(* The cost of a request: what it has sent and what its layers may still   *)
(* send never add up to more than they might have sent at its beginning.   *)

Share(n) == n * Attempts

\* A reply more is a share more.
LEMMA Shares ==
  /\ \A n \in Nat : Share(n) \in Nat
  /\ \A n \in Nat \ {0} : Share(n) = Share(n - 1) + Attempts
  /\ SendLimit("json") = 2 * Share(Replies)
  /\ SendLimit("tools") = 2 * Share(Replies + 1)
<1>1. Attempts \in Nat \ {0} /\ Replies \in Nat \ {0}
  BY RequestAssumption
<1>2. \A n \in Nat : Share(n) \in Nat
  BY <1>1 DEF Share
<1>3. ASSUME NEW n \in Nat \ {0} PROVE Share(n) = Share(n - 1) + Attempts
  BY <1>1 DEF Share
<1>4. SendLimit("json") = 2 * Share(Replies)
  BY <1>1 DEF Share, SendLimit
<1>5. SendLimit("tools") = 2 * Share(Replies + 1)
  BY <1>1 DEF Share, SendLimit
<1> QED BY <1>2, <1>3, <1>4, <1>5

\* What the provider serving the call may still send for the reply under way and, in a
\* tool loop, for those after it.
ThisReply(t) == Attempts - attempt[t]
RestOfLoop(t) == IF stage[t] = "tool" THEN Share(Replies) ELSE Share(replies[t] - 1)

\* A call of chat is routed reply by reply, a tool loop as a whole; the primary's share
\* may be asked of the fallback too.
Owed(t) ==
  IF kind[t] = "json"
  THEN IF pc[t] = "idle" THEN 2 * Share(replies[t])
       ELSE 2 * Share(replies[t] - 1) + (IF pc[t] = "primary" THEN Attempts ELSE 0) + ThisReply(t)
  ELSE (IF pc[t] = "primary" THEN Share(Replies + 1) ELSE 0) + RestOfLoop(t) + ThisReply(t)

WithinLimit(t) == kind[t] # "none" =>
  /\ replies[t] # 0
  /\ stage[t] = "tool" => kind[t] = "tools" /\ replies[t] = Replies
  /\ kind[t] = "tools" => pc[t] # "idle"
  /\ spent[t] + Owed(t) <= SendLimit(kind[t])

RequestTypes == /\ kind \in [Requester -> {"none", "json", "tools"}]
                /\ stage \in [Requester -> {"tool", "final"}]
                /\ replies \in [Requester -> 0..Replies]
                /\ attempt \in [Requester -> 0..Attempts]
                /\ spent \in [Requester -> Nat]

CostInv == RequestTypes /\ \A t \in Requester : WithinLimit(t)

\* One request's values.
LEMMA RequestFacts ==
  ASSUME TypeOK, RequestTypes, NEW t \in Requester
  PROVE  /\ Attempts \in Nat \ {0} /\ Replies \in Nat \ {0}
         /\ kind[t] \in {"none", "json", "tools"} /\ stage[t] \in {"tool", "final"}
         /\ replies[t] \in 0..Replies /\ attempt[t] \in 0..Attempts /\ spent[t] \in Nat
         /\ pc[t] \in {"idle", "primary", "fallback"}
         /\ Share(Replies) \in Nat /\ Share(Replies + 1) = Share(Replies) + Attempts
         /\ replies[t] # 0 => /\ Share(replies[t]) = Share(replies[t] - 1) + Attempts
                              /\ Share(replies[t] - 1) \in Nat
<1>1. /\ Attempts \in Nat \ {0} /\ Replies \in Nat \ {0} /\ t \in Caller
  BY RequestAssumption
<1>2. /\ Share(Replies) \in Nat /\ Share(Replies + 1) = Share(Replies + 1 - 1) + Attempts
      /\ Replies + 1 - 1 = Replies
  BY <1>1, Shares
<1>3. replies[t] \in 0..Replies
  BY DEF RequestTypes
<1>4. ASSUME replies[t] # 0
      PROVE  /\ Share(replies[t]) = Share(replies[t] - 1) + Attempts
             /\ Share(replies[t] - 1) \in Nat
  BY <1>1, <1>3, <1>4, Shares
<1> QED BY <1>1, <1>2, <1>3, <1>4 DEF TypeOK, RequestTypes

\* A step of a request leaves the other requests alone.
Others(t) == \A r \in Requester \ {t} :
  /\ kind'[r] = kind[r] /\ stage'[r] = stage[r] /\ replies'[r] = replies[r]
  /\ attempt'[r] = attempt[r] /\ spent'[r] = spent[r] /\ pc'[r] = pc[r]

LEMMA OthersKeep ==
  ASSUME CostInv, NEW t \in Requester, Others(t), RequestTypes', WithinLimit(t)'
  PROVE  CostInv'
<1>1. ASSUME NEW r \in Requester \ {t} PROVE WithinLimit(r)'
  <2>1. Owed(r)' = Owed(r)
    BY DEF Others, Owed, ThisReply, RestOfLoop
  <2> QED BY <2>1 DEF CostInv, WithinLimit, Others
<1> QED BY <1>1 DEF CostInv

\* What a step of the router does to its caller.
LEMMA RouterMoves ==
  ASSUME TypeOK, NEW t \in Requester
  PROVE  /\ StartCall(t) => pc[t] = "idle" /\ pc'[t] \in {"primary", "fallback"}
         /\ Answers(t) \/ OwnError(t) => pc'[t] = "idle"
         /\ ProviderFails(t) => pc'[t] = "idle" \/ (pc[t] = "primary" /\ pc'[t] = "fallback")
         /\ StartCall(t) \/ CallStep(t) => \A r \in Requester \ {t} : pc'[r] = pc[r]
<1>1. t \in Caller /\ Requester \subseteq Caller
  BY RequestAssumption
<1> QED BY <1>1 DEF TypeOK, StartCall, CallStep, Answers, OwnError, ProviderFails, Return,
           SkipPrimary

\* A request that is over owes nothing.
LEMMA OverPays ==
  ASSUME TypeOK, CostInv, NEW t \in Requester, Over(t),
         \A r \in Requester \ {t} : pc'[r] = pc[r]
  PROVE  CostInv'
<1>1. /\ RequestTypes' /\ Others(t) /\ kind'[t] = "none"
  BY RequestAssumption DEF CostInv, RequestTypes, Over, NewCreate, Others
<1>2. WithinLimit(t)'
  BY <1>1 DEF WithinLimit
<1> QED BY <1>1, <1>2, OthersKeep

\* Crossing over spends the primary's part of the limit.
LEMMA CrossOverPays ==
  ASSUME TypeOK, CostInv, NEW t \in Requester, Sent(t), CrossOver(t),
         pc[t] = "primary", pc'[t] = "fallback",
         \A r \in Requester \ {t} : pc'[r] = pc[r]
  PROVE  CostInv'
<1>1. RequestTypes' /\ Others(t)
  BY RequestAssumption DEF CostInv, RequestTypes, CrossOver, NewCreate, Others
<1>2. /\ kind'[t] = kind[t] /\ spent'[t] = spent[t] /\ attempt'[t] = 0
      /\ stage'[t] = FirstStage(kind[t])
      /\ replies'[t] = IF kind[t] = "tools" THEN Replies ELSE replies[t]
  BY DEF CostInv, RequestTypes, CrossOver, NewCreate
<1>3. WithinLimit(t)'
  <2>1. kind[t] \in {"json", "tools"} /\ WithinLimit(t)
    BY DEF CostInv, RequestTypes, Sent
  <2>2. CASE kind[t] = "json"
    <3>1. Owed(t)' = 2 * Share(replies[t] - 1) + 0 + (Attempts - 0)
      BY <1>2, <2>2 DEF Owed, ThisReply
    <3>2. Owed(t) = 2 * Share(replies[t] - 1) + Attempts + (Attempts - attempt[t])
      BY <2>2 DEF Owed, ThisReply
    <3> QED BY <1>2, <2>1, <2>2, <3>1, <3>2, RequestFacts, Shares DEF WithinLimit, CostInv
  <2>3. CASE kind[t] = "tools"
    <3>1. Owed(t)' = 0 + Share(Replies) + (Attempts - 0)
      BY <1>2, <2>3 DEF Owed, ThisReply, RestOfLoop
    <3>2. Owed(t) = Share(Replies + 1) + RestOfLoop(t) + (Attempts - attempt[t])
      BY <2>3 DEF Owed, ThisReply
    <3>3. RestOfLoop(t) \in Nat
      BY <2>1, <2>3, RequestFacts DEF RestOfLoop, WithinLimit, CostInv
    <3> QED BY <1>2, <2>1, <2>3, <3>1, <3>2, <3>3, RequestFacts, Shares DEF WithinLimit, CostInv
  <2> QED BY <2>1, <2>2, <2>3
<1> QED BY <1>1, <1>3, OthersKeep

\* A reply refused, by the router's chat or inside a tool loop.
LEMMA BadReplyPays ==
  ASSUME TypeOK, CostInv, NEW t \in Requester, Sent(t), BadReply(t),
         kind[t] = "json" => pc'[t] = "idle",
         kind[t] = "tools" => stage[t] = "final",
         kind[t] = "tools" /\ ~LastReply(t) => pc'[t] = pc[t],
         \A r \in Requester \ {t} : pc'[r] = pc[r]
  PROVE  CostInv'
<1>1. CASE LastReply(t)
  BY <1>1, OverPays DEF BadReply
<1>2. CASE ~LastReply(t)
  <2>1. kind[t] \in {"json", "tools"} /\ WithinLimit(t) /\ pc[t] \in {"primary", "fallback"}
    BY RequestFacts DEF CostInv, RequestTypes, Sent
  <2>2. replies[t] \in 0..Replies /\ replies[t] # 0 /\ replies[t] # 1
    BY <1>2, <2>1, RequestFacts DEF CostInv, LastReply, WithinLimit
  <2>3. /\ replies' = [replies EXCEPT ![t] = @ - 1] /\ attempt' = [attempt EXCEPT ![t] = 0]
        /\ UNCHANGED <<kind, stage, spent>>
    BY <1>2 DEF BadReply, NewCreate
  <2>4. RequestTypes' /\ Others(t)
    BY <2>2, <2>3, RequestAssumption DEF CostInv, RequestTypes, Others
  <2>5. /\ kind'[t] = kind[t] /\ spent'[t] = spent[t] /\ attempt'[t] = 0
        /\ stage'[t] = stage[t] /\ replies'[t] = replies[t] - 1
    BY <2>3 DEF CostInv, RequestTypes
  <2>6. /\ Share(replies[t] - 1) = Share(replies[t] - 1 - 1) + Attempts
        /\ Share(replies[t] - 1 - 1) \in Nat
    <3>1. replies[t] - 1 \in Nat \ {0} /\ replies[t] - 1 - 1 \in Nat
      BY <2>2, RequestAssumption
    <3> QED BY <3>1, Shares
  <2>7. stage[t] = "final"
    BY <2>1, RequestFacts DEF WithinLimit, CostInv
  <2>8. WithinLimit(t)'
    <3>1. CASE kind[t] = "json"
      <4>1. Owed(t)' = 2 * Share(replies[t] - 1)
        BY <2>5, <3>1 DEF Owed
      <4>2. Owed(t) \in Nat /\ Owed(t) >= 2 * Share(replies[t] - 1)
        BY <2>1, <2>2, <3>1, RequestFacts DEF Owed, ThisReply, CostInv
      <4> QED BY <2>1, <2>2, <2>5, <2>7, <3>1, <4>1, <4>2, RequestFacts, Shares
              DEF WithinLimit, CostInv
    <3>2. CASE kind[t] = "tools"
      <4> DEFINE Before == IF pc[t] = "primary" THEN Share(Replies + 1) ELSE 0
      <4>1. Owed(t)' = Before + Share(replies[t] - 1 - 1) + (Attempts - 0)
        BY <1>2, <2>5, <2>7, <3>2 DEF Owed, RestOfLoop, ThisReply
      <4>2. Owed(t) = Before + Share(replies[t] - 1) + (Attempts - attempt[t])
        BY <2>7, <3>2 DEF Owed, RestOfLoop, ThisReply
      <4>3. Before \in Nat
        BY RequestFacts DEF CostInv
      <4>4. pc'[t] # "idle"
        BY <1>2, <2>1, <3>2
      <4> HIDE DEF Before
      <4> QED BY <2>1, <2>2, <2>5, <2>6, <2>7, <3>2, <4>1, <4>2, <4>3, <4>4, RequestFacts, Shares
              DEF WithinLimit, CostInv
    <3> QED BY <2>1, <3>1, <3>2
  <2> QED BY <2>4, <2>8, OthersKeep
<1> QED BY <1>1, <1>2

\* A request begins with the whole limit before it.
LEMMA BeginPays ==
  ASSUME TypeOK, CostInv, NEW t \in Requester, Begin(t)
  PROVE  CostInv'
<1>1. PICK k \in {"json", "tools"} :
        /\ kind' = [kind EXCEPT ![t] = k] /\ stage' = [stage EXCEPT ![t] = FirstStage(k)]
  BY DEF Begin
<1>2. /\ replies' = [replies EXCEPT ![t] = Replies] /\ attempt' = [attempt EXCEPT ![t] = 0]
      /\ spent' = [spent EXCEPT ![t] = 0] /\ StartCall(t)
  BY DEF Begin, NewCreate
<1>3. /\ pc'[t] \in {"primary", "fallback"} /\ \A r \in Requester \ {t} : pc'[r] = pc[r]
  BY <1>2, RouterMoves
<1>4. RequestTypes' /\ Others(t)
  BY <1>1, <1>2, <1>3, RequestAssumption DEF CostInv, RequestTypes, Others
<1>5. /\ kind'[t] = k /\ spent'[t] = 0 /\ attempt'[t] = 0
      /\ stage'[t] = FirstStage(k) /\ replies'[t] = Replies
  BY <1>1, <1>2 DEF CostInv, RequestTypes
<1>6. /\ Attempts \in Nat \ {0} /\ Replies \in Nat \ {0} /\ Share(Replies) \in Nat
      /\ Share(Replies + 1) = Share(Replies) + Attempts
      /\ Share(Replies) = Share(Replies - 1) + Attempts /\ Share(Replies - 1) \in Nat
  <2>1. Attempts \in Nat \ {0} /\ Replies \in Nat \ {0}
    BY RequestAssumption
  <2>2. /\ Replies - 1 \in Nat /\ Replies + 1 \in Nat \ {0}
        /\ (Replies + 1) - 1 = Replies
    BY <2>1
  <2>3. Share(Replies + 1) = Share((Replies + 1) - 1) + Attempts
    BY <2>2, Shares
  <2> QED BY <2>1, <2>2, <2>3, Shares
<1>7. WithinLimit(t)'
  <2>1. CASE k = "json"
    <3>1. Owed(t)' <= 2 * Share(Replies) /\ Owed(t)' \in Nat
      BY <1>3, <1>5, <1>6, <2>1 DEF Owed, ThisReply
    <3> QED BY <1>5, <1>6, <2>1, <3>1, Shares DEF WithinLimit
  <2>2. CASE k = "tools"
    <3>1. Owed(t)' <= 2 * Share(Replies + 1) /\ Owed(t)' \in Nat
      BY <1>3, <1>5, <1>6, <2>2 DEF Owed, ThisReply, RestOfLoop
    <3> QED BY <1>3, <1>5, <1>6, <2>2, <3>1, Shares DEF WithinLimit
  <2> QED BY <2>1, <2>2
<1> QED BY <1>4, <1>7, OthersKeep

\* chat_json's next reply is asked of the router anew.
LEMMA AskAgainPays ==
  ASSUME TypeOK, CostInv, NEW t \in Requester, AskAgain(t)
  PROVE  CostInv'
<1>1. /\ kind[t] = "json" /\ pc[t] = "idle" /\ pc'[t] \in {"primary", "fallback"}
      /\ \A r \in Requester \ {t} : pc'[r] = pc[r]
  BY RouterMoves DEF AskAgain
<1>2. UNCHANGED <<kind, stage, replies, attempt, spent>>
  BY DEF AskAgain, request
<1>3. RequestTypes' /\ Others(t)
  BY <1>1, <1>2 DEF CostInv, RequestTypes, Others
<1>4. WithinLimit(t)'
  <2>1. WithinLimit(t) /\ Owed(t) = 2 * Share(replies[t])
    BY <1>1 DEF CostInv, Owed
  <2>2. Owed(t)' = IF pc'[t] = "primary"
                   THEN 2 * Share(replies[t] - 1) + Attempts + (Attempts - attempt[t])
                   ELSE 2 * Share(replies[t] - 1) + 0 + (Attempts - attempt[t])
    BY <1>1, <1>2 DEF Owed, ThisReply
  <2> QED BY <1>1, <1>2, <2>1, <2>2, RequestFacts, Shares DEF WithinLimit, CostInv
<1> QED BY <1>3, <1>4, OthersKeep

\* Asking the gate sends nothing.
LEMMA GateLooksPays ==
  ASSUME TypeOK, CostInv, NEW t \in Requester, GateLooks(t)
  PROVE  CostInv'
<1>1. UNCHANGED <<kind, stage, replies, attempt, spent, pc>>
  BY DEF GateLooks, vars
<1>2. ASSUME NEW r \in Requester PROVE WithinLimit(r)'
  <2>1. Owed(r)' = Owed(r)
    BY <1>1 DEF Owed, ThisReply, RestOfLoop
  <2> QED BY <1>1, <2>1 DEF CostInv, WithinLimit
<1> QED BY <1>1, <1>2 DEF CostInv, RequestTypes

\* One more send is one less owed.
LEMMA SendPays ==
  ASSUME TypeOK, CostInv, NEW t \in Requester, kind[t] # "none", pc[t] # "idle",
         attempt[t] < Attempts, attempt' = [attempt EXCEPT ![t] = @ + 1],
         spent' = [spent EXCEPT ![t] = @ + 1], UNCHANGED <<vars, kind, stage, replies>>
  PROVE  CostInv'
<1>1. RequestTypes' /\ Others(t)
  BY RequestAssumption DEF CostInv, RequestTypes, Others, vars
<1>2. /\ kind'[t] = kind[t] /\ stage'[t] = stage[t] /\ replies'[t] = replies[t]
      /\ pc'[t] = pc[t] /\ attempt'[t] = attempt[t] + 1 /\ spent'[t] = spent[t] + 1
  BY DEF CostInv, RequestTypes, vars
<1>3. ThisReply(t)' = ThisReply(t) - 1 /\ ThisReply(t) \in Nat /\ ThisReply(t)' \in Nat
  BY <1>2, RequestFacts DEF ThisReply, CostInv
<1>4. WithinLimit(t)'
  <2>1. kind[t] \in {"json", "tools"} /\ WithinLimit(t) /\ pc[t] \in {"primary", "fallback"}
    BY RequestFacts DEF CostInv, RequestTypes
  <2>2. CASE kind[t] = "json"
    <3>1. PICK n \in Nat : Owed(t) = n + ThisReply(t) /\ Owed(t)' = n + ThisReply(t)'
      <4>1. CASE pc[t] = "primary"
        <5>1. 2 * Share(replies[t] - 1) + Attempts \in Nat
          BY <2>1, <2>2, RequestFacts DEF CostInv, WithinLimit
        <5> QED BY <1>2, <2>2, <4>1, <5>1 DEF Owed
      <4>2. CASE pc[t] = "fallback"
        <5>1. 2 * Share(replies[t] - 1) \in Nat
          BY <2>1, <2>2, RequestFacts DEF CostInv, WithinLimit
        <5> QED BY <1>2, <2>2, <4>2, <5>1 DEF Owed
      <4> QED BY <2>1, <4>1, <4>2
    <3> QED BY <1>2, <1>3, <2>1, <2>2, <3>1, RequestFacts, Shares DEF WithinLimit, CostInv
  <2>3. CASE kind[t] = "tools"
    <3>1. RestOfLoop(t) \in Nat /\ RestOfLoop(t)' = RestOfLoop(t)
      BY <1>2, <2>1, <2>3, RequestFacts DEF CostInv, WithinLimit, RestOfLoop
    <3>2. PICK n \in Nat : Owed(t) = n + ThisReply(t) /\ Owed(t)' = n + ThisReply(t)'
      <4> DEFINE n == (IF pc[t] = "primary" THEN Share(Replies + 1) ELSE 0) + RestOfLoop(t)
      <4>1. n \in Nat
        BY <3>1, RequestFacts DEF CostInv
      <4>2. Owed(t) = n + ThisReply(t) /\ Owed(t)' = n + ThisReply(t)'
        BY <1>2, <2>3, <3>1 DEF Owed
      <4> QED BY <4>1, <4>2
    <3> QED BY <1>2, <1>3, <2>1, <2>3, <3>2, RequestFacts, Shares DEF WithinLimit, CostInv
  <2> QED BY <2>1, <2>2, <2>3
<1> QED BY <1>1, <1>4, OthersKeep

\* The forced tool call has a share of its own.
LEMMA ToolCalledPays ==
  ASSUME TypeOK, CostInv, NEW t \in Requester, ToolCalled(t)
  PROVE  CostInv'
<1>1. /\ stage[t] = "tool" /\ kind[t] # "none"
      /\ stage' = [stage EXCEPT ![t] = "final"] /\ attempt' = [attempt EXCEPT ![t] = 0]
      /\ UNCHANGED <<vars, kind, replies, spent>>
  BY DEF ToolCalled, NewCreate, Arrives, Sent
<1>2. RequestTypes' /\ Others(t)
  BY <1>1, RequestAssumption DEF CostInv, RequestTypes, Others, vars
<1>3. /\ kind'[t] = kind[t] /\ stage'[t] = "final" /\ replies'[t] = replies[t]
      /\ pc'[t] = pc[t] /\ attempt'[t] = 0 /\ spent'[t] = spent[t]
  BY <1>1 DEF CostInv, RequestTypes, vars
<1>4. WithinLimit(t) /\ kind[t] = "tools" /\ replies[t] = Replies
  BY <1>1 DEF CostInv, WithinLimit
<1>5. WithinLimit(t)'
  <2> DEFINE Before == IF pc[t] = "primary" THEN Share(Replies + 1) ELSE 0
  <2>1. Owed(t) = Before + Share(Replies) + (Attempts - attempt[t])
    BY <1>1, <1>4 DEF Owed, RestOfLoop, ThisReply
  <2>2. Owed(t)' = Before + Share(Replies - 1) + (Attempts - 0)
    BY <1>3, <1>4 DEF Owed, RestOfLoop, ThisReply
  <2>3. Before \in Nat
    BY RequestFacts DEF CostInv
  <2> HIDE DEF Before
  <2> QED BY <1>3, <1>4, <2>1, <2>2, <2>3, RequestFacts, Shares DEF WithinLimit, CostInv
<1> QED BY <1>2, <1>5, OthersKeep

\* A call that failed crosses over, is over, or was one reply of chat_json.
LEMMA CallFailsPays ==
  ASSUME TypeOK, CostInv, NEW t \in Requester, Sent(t), ProviderFails(t),
         pc'[t] = "fallback" => CrossOver(t),
         pc'[t] # "fallback" => Over(t) \/ (BadReply(t) /\ kind[t] = "json")
  PROVE  CostInv'
<1>1. \A r \in Requester \ {t} : pc'[r] = pc[r]
  BY RouterMoves DEF CallStep
<1>2. CASE pc'[t] = "fallback"
  <2>1. pc[t] = "primary"
    BY <1>2, RouterMoves
  <2> QED BY <1>1, <1>2, <2>1, CrossOverPays
<1>3. CASE pc'[t] # "fallback"
  <2>1. pc'[t] = "idle"
    BY <1>3, RouterMoves
  <2> QED BY <1>1, <1>3, <2>1, OverPays, BadReplyPays
<1> QED BY <1>2, <1>3

\* An empty completion is one of the three.
LEMMA AnswersNothingPays ==
  ASSUME TypeOK, CostInv, NEW t \in Requester, AnswersNothing(t)
  PROVE  CostInv'
<1>0. Sent(t)
  BY DEF AnswersNothing
<1>1. CASE kind[t] = "json" /\ CallFails(t, BadReply(t))
  BY <1>0, <1>1, CallFailsPays DEF CallFails
<1>2. CASE /\ kind[t] = "tools" /\ stage[t] = "final" /\ BadReply(t)
           /\ IF LastReply(t) THEN OwnError(t) ELSE UNCHANGED vars
  <2>1. /\ \A r \in Requester \ {t} : pc'[r] = pc[r]
        /\ ~LastReply(t) => pc'[t] = pc[t]
    BY <1>2, RouterMoves DEF CallStep, vars
  <2> QED BY <1>0, <1>2, <2>1, BadReplyPays
<1>3. CASE OwnError(t) /\ Over(t)
  <2>1. \A r \in Requester \ {t} : pc'[r] = pc[r]
    BY <1>3, RouterMoves DEF CallStep
  <2> QED BY <1>3, <2>1, OverPays
<1> QED BY <1>1, <1>2, <1>3 DEF AnswersNothing

\* An invalid answer is a reply less to ask for.
LEMMA RejectedPays ==
  ASSUME TypeOK, CostInv, NEW t \in Requester, Rejected(t)
  PROVE  CostInv'
<1>1. Sent(t) /\ BadReply(t) /\ stage[t] = "final"
  BY DEF Rejected, Arrives
<1>2. CASE kind[t] = "json"
  <2>1. pc'[t] = "idle" /\ \A r \in Requester \ {t} : pc'[r] = pc[r]
    BY <1>2, RouterMoves DEF Rejected, CallStep
  <2> QED BY <1>1, <1>2, <2>1, BadReplyPays
<1>3. CASE kind[t] # "json"
  <2>1. /\ \A r \in Requester \ {t} : pc'[r] = pc[r]
        /\ ~LastReply(t) => pc'[t] = pc[t]
    BY <1>3, RouterMoves DEF Rejected, CallStep, vars
  <2> QED BY <1>1, <1>3, <2>1, BadReplyPays
<1> QED BY <1>2, <1>3

\* No step of a request raises what it sent and owes together.
LEMMA RequestStepPays ==
  ASSUME TypeOK, CostInv, NEW t \in Requester, Begin(t) \/ RequestStep(t)
  PROVE  CostInv'
<1>1. CASE Begin(t)
  BY <1>1, BeginPays
<1>2. CASE AskAgain(t)
  BY <1>2, AskAgainPays
<1>3. CASE Refused(t) \/ ToolDeclined(t) \/ Accepted(t)
  <2>1. Over(t) /\ (OwnError(t) \/ Answers(t))
    BY <1>3 DEF Refused, ToolDeclined, Accepted
  <2>2. \A r \in Requester \ {t} : pc'[r] = pc[r]
    BY <2>1, RouterMoves DEF CallStep
  <2> QED BY <1>3, <2>2, OverPays DEF Refused, ToolDeclined, Accepted
<1>4. CASE Send(t)
  <2>1. /\ kind[t] # "none" /\ pc[t] # "idle" /\ attempt[t] = 0
        /\ attempt' = [attempt EXCEPT ![t] = 1] /\ spent' = [spent EXCEPT ![t] = @ + 1]
        /\ UNCHANGED <<vars, kind, stage, replies>>
    BY <1>4 DEF Send, Gated
  <2>2. attempt[t] < Attempts /\ attempt' = [attempt EXCEPT ![t] = @ + 1]
    BY <2>1, RequestFacts DEF CostInv
  <2> QED BY <2>1, <2>2, SendPays
<1>5. CASE BackOff(t)
  BY <1>5, SendPays DEF BackOff, Sent, MayRetry
<1>6. CASE Errors(t)
  BY <1>6, CallFailsPays DEF Errors, CallFails
<1>7. CASE AnswersNothing(t)
  BY <1>7, AnswersNothingPays
<1>8. CASE ToolCalled(t)
  BY <1>8, ToolCalledPays
<1>10. CASE GateLooks(t)
  BY <1>10, GateLooksPays
<1>9. CASE Rejected(t)
  BY <1>9, RejectedPays
<1> QED BY <1>1, <1>2, <1>3, <1>4, <1>5, <1>6, <1>7, <1>8, <1>9, <1>10 DEF RequestStep

\* Nor does anything else in the process.
LEMMA NextCostInv == TypeOK /\ CostInv /\ [TransportNext]_transportVars => CostInv'
<1> SUFFICES ASSUME TypeOK, CostInv, [TransportNext]_transportVars PROVE CostInv'
  OBVIOUS
<1>1. CASE \E t \in Requester : Begin(t) \/ RequestStep(t)
  BY <1>1, RequestStepPays
<1>2. CASE CoarseCall \/ Elapse \/ FaultElsewhere \/ Park \/ Reconciled \/ UNCHANGED transportVars
  <2>1. UNCHANGED <<kind, stage, replies, attempt, spent>>
    BY <1>2 DEF CoarseCall, Elapse, FaultElsewhere, Park, Reconciled, transportVars, request
  <2>2. \A r \in Requester : pc'[r] = pc[r]
    <3>1. CASE CoarseCall
      <4>1. PICK c \in Caller \ Requester : StartCall(c) \/ CallStep(c)
        BY <3>1 DEF CoarseCall, Coarse
      <4> QED BY <4>1, RequestAssumption DEF TypeOK, StartCall, CallStep, Answers, OwnError,
                 ProviderFails, Return
    <3> QED BY <1>2, <3>1 DEF Elapse, Tick, Outage, FaultElsewhere, Park, Reconciled, transportVars, vars
  <2>3. ASSUME NEW r \in Requester PROVE WithinLimit(r)'
    <3>1. Owed(r)' = Owed(r)
      BY <2>1, <2>2 DEF Owed, ThisReply, RestOfLoop
    <3> QED BY <2>1, <2>2, <3>1 DEF CostInv, WithinLimit
  <2> QED BY <2>1, <2>3 DEF CostInv, RequestTypes
<1> QED BY <1>1, <1>2 DEF TransportNext

LEMMA CostsKept == TransportSpec => [](TypeOK /\ CostInv)
<1>1. TransportInit => CostInv
  <2> SUFFICES ASSUME TransportInit PROVE CostInv
    OBVIOUS
  <2>1. /\ kind = [t \in Requester |-> "none"] /\ stage = [t \in Requester |-> "final"]
        /\ replies = [t \in Requester |-> 0] /\ attempt = [t \in Requester |-> 0]
        /\ spent = [t \in Requester |-> 0]
    BY DEF TransportInit
  <2> QED BY <2>1, RequestAssumption DEF CostInv, RequestTypes, WithinLimit
<1>2. TransportSpec => []TypeOK
  BY TransportImplementsBreaker, TypeCorrect, PTL DEF ImplementsBreaker
<1> QED BY <1>1, <1>2, NextCostInv, PTL DEF TransportSpec

\* The layers' retries do not stack: however failures, repairs, tool calls and the fallback
\* combine, a request never sends more than each provider's share of every reply.
THEOREM BoundedRetries == TransportSpec => []RetriesDoNotStack
<1>1. TypeOK /\ CostInv => RetriesDoNotStack
  <2> SUFFICES ASSUME TypeOK, CostInv, NEW t \in Requester, kind[t] # "none"
               PROVE  spent[t] <= SendLimit(kind[t])
    BY DEF RetriesDoNotStack
  <2>1. Owed(t) \in Nat
    <3>1. WithinLimit(t) /\ kind[t] \in {"json", "tools"}
      BY DEF CostInv, RequestTypes
    <3>2. ThisReply(t) \in Nat
      BY RequestFacts DEF ThisReply, CostInv
    <3>3. CASE kind[t] = "json"
      BY <3>1, <3>2, <3>3, RequestFacts DEF Owed, CostInv, WithinLimit
    <3>4. CASE kind[t] = "tools"
      <4>1. RestOfLoop(t) \in Nat
        BY <3>1, <3>4, RequestFacts DEF CostInv, WithinLimit, RestOfLoop
      <4> QED BY <3>2, <3>4, <4>1, RequestFacts DEF Owed, CostInv
    <3> QED BY <3>1, <3>3, <3>4
  <2>2. spent[t] + Owed(t) <= SendLimit(kind[t]) /\ kind[t] \in {"json", "tools"}
    BY DEF CostInv, RequestTypes, WithinLimit
  <2> QED BY <2>1, <2>2, RequestFacts, Shares, RequestAssumption DEF CostInv
<1> QED BY <1>1, CostsKept, PTL

\* Every variable of the requests keeps its type: no layer counts past its own limit, and a
\* thread is never two calls past a fault.
THEOREM TransportTypeCorrect == TransportSpec => []TransportTypeOK
<1>1. TypeOK /\ CostInv /\ FaultInv => TransportTypeOK
  BY DEF CostInv, RequestTypes, FaultInv, FaultTypes, TransportTypeOK
<1> QED BY <1>1, CostsKept, FaultsKept, PTL
=============================================================================
