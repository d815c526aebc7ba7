-------------------------- MODULE ProviderBreaker --------------------------
(***************************************************************************)
(* Routing and circuit breaking of LLM calls (llm.py, LLMRouter). The      *)
(* breakers belong to the process: every Session thread's router reads and *)
(* writes them, each access under _BREAKER_LOCK. chat and chat_with_tools  *)
(* differ in when the fallback is usable, which is a choice of the call.   *)
(*                                                                         *)
(* A breaker's opened_at is kept as its age, saturating at the cooldown,   *)
(* and its failure count saturates at the threshold: the code compares     *)
(* neither with anything larger.                                           *)
(***************************************************************************)
EXTENDS Naturals

CONSTANTS Caller,     \* Session threads
          Threshold,  \* BREAKER_FAILURE_THRESHOLD
          Cooldown    \* BREAKER_COOLDOWN_SECONDS, in ticks

ASSUME ParametersAssumption == Threshold \in Nat \ {0} /\ Cooldown \in Nat \ {0}

Provider == {"primary", "fallback"}
NotOpen == Cooldown + 1    \* opened_at is None

VARIABLES down,         \* the environment: providers that fail every call now
          failures,     \* _Breaker.failures
          age,          \* age of _Breaker.opened_at, or NotOpen
          pc,           \* which provider a caller is waiting for
          usable,       \* the fallback configured can serve this call
          consecutive,  \* history: outages recorded since the last success
          since,        \* history: ticks since the last of them, up to the cooldown;
                        \* the cooldown when there is none
          probes        \* history: calls let through to a tripped primary since
                        \* opened_at was last stamped, counted up to two; one
                        \* that meets an error of its own never reached it

vars == <<down, failures, age, pc, usable, consecutive, since, probes>>

TypeOK == /\ down \subseteq Provider
          /\ failures \in [Provider -> 0..Threshold]
          /\ age \in [Provider -> 0..NotOpen]
          /\ pc \in [Caller -> {"idle", "primary", "fallback"}]
          /\ usable \in [Caller -> BOOLEAN]
          /\ consecutive \in [Provider -> 0..Threshold]
          /\ since \in [Provider -> 0..Cooldown]
          /\ probes \in 0..2
          \* a breaker is tripped exactly when it has counted to the threshold
          /\ \A p \in Provider : failures[p] = Threshold <=> age[p] # NotOpen

Init == /\ down = {}
        /\ failures = [p \in Provider |-> 0]
        /\ age = [p \in Provider |-> NotOpen]
        /\ pc = [t \in Caller |-> "idle"]
        /\ usable = [t \in Caller |-> FALSE]
        /\ consecutive = [p \in Provider |-> 0]
        /\ since = [p \in Provider |-> Cooldown]
        /\ probes = 0
-----------------------------------------------------------------------------
(* The breakers.                                                           *)

UpTo(n, bound) == IF n < bound THEN n ELSE bound

OpenForEver(p) == age[p] # NotOpen

\* Tripped and inside the cooldown; false again is half-open.
BreakerIsOpen(p) == age[p] < Cooldown

RecordSuccess(p) == /\ failures' = [failures EXCEPT ![p] = 0]
                    /\ age' = [age EXCEPT ![p] = NotOpen]
                    /\ consecutive' = [consecutive EXCEPT ![p] = 0]
                    /\ since' = [since EXCEPT ![p] = Cooldown]
                    /\ probes' = IF p = "primary" THEN 0 ELSE probes

RecordFailureStampOnce(p) ==
  /\ failures' = [failures EXCEPT ![p] = UpTo(@ + 1, Threshold)]
  /\ consecutive' = [consecutive EXCEPT ![p] = UpTo(@ + 1, Threshold)]
  /\ since' = [since EXCEPT ![p] = 0]
  /\ age' = [age EXCEPT ![p] = IF failures[p] + 1 = Threshold THEN 0 ELSE @]
  /\ probes' = IF p = "primary" /\ failures[p] + 1 = Threshold THEN 0 ELSE probes

\* At or past the threshold every failure stamps a fresh cooldown.
RecordFailure(p) == LET tripped == failures[p] + 1 >= Threshold IN
  /\ failures' = [failures EXCEPT ![p] = UpTo(@ + 1, Threshold)]
  /\ consecutive' = [consecutive EXCEPT ![p] = UpTo(@ + 1, Threshold)]
  /\ since' = [since EXCEPT ![p] = 0]
  /\ age' = [age EXCEPT ![p] = IF tripped THEN 0 ELSE @]
  /\ probes' = IF p = "primary" /\ tripped THEN 0 ELSE probes

-----------------------------------------------------------------------------
(* One call of a router.                                                   *)

\* Bypass a tripped primary only when something else can serve.
SkipPrimary(t, fb) == fb /\ BreakerIsOpen("primary")

StartCall(t) == \E fb \in BOOLEAN :
  /\ pc[t] = "idle"
  /\ usable' = [usable EXCEPT ![t] = fb]
  /\ pc' = [pc EXCEPT ![t] = IF SkipPrimary(t, fb) THEN "fallback" ELSE "primary"]
  /\ probes' = IF fb /\ age["primary"] = Cooldown THEN UpTo(probes + 1, 2) ELSE probes
  /\ UNCHANGED <<down, failures, age, consecutive, since>>

Return(t) == pc' = [pc EXCEPT ![t] = "idle"]

Answers(t) == /\ pc[t] \in Provider \ down
              /\ RecordSuccess(pc[t])
              /\ Return(t)
              /\ UNCHANGED <<down, usable>>

\* A bug, a misconfiguration or a model's own failure propagates as it is.
OwnError(t) == /\ pc[t] # "idle"
               /\ probes' = IF pc[t] = "primary" /\ usable[t] /\ probes > 0 THEN probes - 1 ELSE probes
               /\ Return(t)
               /\ UNCHANGED <<down, usable, failures, age, consecutive, since>>

\* An outage: it counts against the provider; the primary's crosses over.
ProviderFails(t) == /\ pc[t] \in down
                    /\ RecordFailure(pc[t])
                    /\ IF pc[t] = "primary" /\ usable[t]
                         THEN pc' = [pc EXCEPT ![t] = "fallback"]
                         ELSE Return(t)
                    /\ UNCHANGED <<down, usable>>

Tick == /\ age' = [p \in Provider |-> IF age[p] < Cooldown THEN age[p] + 1 ELSE age[p]]
        /\ since' = [p \in Provider |-> UpTo(since[p] + 1, Cooldown)]
        /\ UNCHANGED <<down, failures, pc, usable, consecutive, probes>>

Outage == \E p \in Provider :
  /\ down' = IF p \in down THEN down \ {p} ELSE down \cup {p}
  /\ UNCHANGED <<failures, age, pc, usable, consecutive, since, probes>>
-----------------------------------------------------------------------------
CallStep(t) == Answers(t) \/ OwnError(t) \/ ProviderFails(t)

Next == \/ \E t \in Caller : StartCall(t) \/ CallStep(t)
        \/ Tick \/ Outage

\* Time passes, calls return, and a workload assumption of this property alone:
\* Sessions keep calling, and not every call meets an error of its own.
Fairness == /\ WF_vars(Tick)
            /\ \A t \in Caller : /\ WF_vars(StartCall(t))
                                 /\ WF_vars(CallStep(t))
                                 /\ SF_vars(Answers(t) /\ pc[t] = "primary")

Spec == Init /\ [][Next]_vars
FairSpec == Spec /\ Fairness
-----------------------------------------------------------------------------
(* Properties.                                                             *)

\* A breaker is open exactly within a cooldown of the last of enough consecutive
\* outages of that provider: neither errors of our own nor another provider's
\* outage push it there (llm.py:796-804), and a probe that fails opens it again.
TripsOnConsecutiveOutages == \A p \in Provider :
  BreakerIsOpen(p) <=> consecutive[p] = Threshold /\ since[p] < Cooldown

\* "only one probe per cooldown window ever reaches a provider that is still
\* down" (llm.py:748-749).
OneProbePerWindow == "primary" \in down => probes < 2

\* A provider that is back is used again, as long as Sessions keep calling.
RecoveryNoticed == []<>("primary" \in down \/ failures["primary"] = 0)
=============================================================================
