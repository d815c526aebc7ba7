---------------------------- MODULE LlmTransport ----------------------------
(***************************************************************************)
(* The layers below one structured LLM request (llm.py): the parse-and-    *)
(* repair loop of chat_json, the native tool round-trip, the accounting    *)
(* gate and transport retries of _create, and the record of what each      *)
(* completion cost. It refines ProviderBreaker: a coarse caller's call is  *)
(* one step there, a Requester's is the run of steps described here.       *)
(*                                                                         *)
(* A provider that is down errors or answers with nothing, as it likes at  *)
(* each attempt; one that is up answers, usefully or not. Of the accounting *)
(* faults only where some are held is kept: in this process's memory, in   *)
(* the sidecar that all processes share, or in both.                       *)
(***************************************************************************)
EXTENDS ProviderBreaker

CONSTANTS Requester,   \* the callers whose requests are followed in detail
          Attempts,    \* _TRANSPORT_ATTEMPTS
          Replies      \* chat_json's max_retries + 1

ASSUME RequestAssumption == /\ Requester \subseteq Caller
                            /\ Attempts \in Nat \ {0} /\ Replies \in Nat \ {0}

Coarse == Caller \ Requester

VARIABLES kind,      \* which method the request uses, "none" between requests
          stage,     \* "tool": the forced tool call; "final": the JSON answer
          replies,   \* replies chat_json may still ask for
          attempt,   \* transport attempts made by the _create under way; 0: not gated yet
          gate,      \* how far the gate of that _create has come: "none" read yet, a
                     \* "clear" sidecar, or one that a fault has "slipped" into since
          unparked,  \* spend the ledger could not count is latched in _FAULTS only
          parked,    \* the sidecar holds such a fault
          spent,     \* history: attempts of the request under way
          overrun    \* history: completions of a thread since a fault is held, up to 2;
                     \* those whose gate a fault slipped past are not counted

faults == <<unparked, parked>>
request == <<kind, stage, replies, attempt, gate, faults, spent, overrun>>
transportVars == <<vars, request>>

TransportTypeOK == /\ TypeOK
                   /\ kind \in [Requester -> {"none", "json", "tools"}]
                   /\ stage \in [Requester -> {"tool", "final"}]
                   /\ replies \in [Requester -> 0..Replies]
                   /\ attempt \in [Requester -> 0..Attempts]
                   /\ gate \in [Requester -> {"none", "clear", "slipped"}]
                   /\ unparked \in BOOLEAN /\ parked \in BOOLEAN
                   /\ spent \in [Requester -> Nat]
                   /\ overrun \in [Requester -> 0..2]

TransportInit == /\ Init
                 /\ kind = [t \in Requester |-> "none"]
                 /\ stage = [t \in Requester |-> "final"]
                 /\ replies = [t \in Requester |-> 0]
                 /\ attempt = [t \in Requester |-> 0]
                 /\ gate = [t \in Requester |-> "none"]
                 /\ unparked = FALSE /\ parked = FALSE
                 /\ spent = [t \in Requester |-> 0]
                 /\ overrun = [t \in Requester |-> 0]
-----------------------------------------------------------------------------
(* A request and the router calls it makes.                                *)

\* The next completion is a _create of its own, which has asked the gate nothing yet.
NewCreate(t) == /\ attempt' = [attempt EXCEPT ![t] = 0]
                /\ gate' = [gate EXCEPT ![t] = "none"]

FirstStage(k) == IF k = "tools" THEN "tool" ELSE "final"

Begin(t) == \E k \in {"json", "tools"} :
  /\ kind[t] = "none" /\ StartCall(t)
  /\ kind' = [kind EXCEPT ![t] = k]
  /\ stage' = [stage EXCEPT ![t] = FirstStage(k)]
  /\ replies' = [replies EXCEPT ![t] = Replies]
  /\ NewCreate(t)
  /\ spent' = [spent EXCEPT ![t] = 0]
  /\ UNCHANGED <<faults, overrun>>

\* chat_json feeds the error back: another call of the router.
AskAgain(t) == /\ kind[t] = "json" /\ StartCall(t)
               /\ UNCHANGED request

\* What the caller does next is its own affair: the request is over.
Over(t) == /\ kind' = [kind EXCEPT ![t] = "none"]
           /\ stage' = [stage EXCEPT ![t] = "final"]
           /\ replies' = [replies EXCEPT ![t] = 0]
           /\ NewCreate(t)
           /\ spent' = [spent EXCEPT ![t] = 0]

\* A reply chat_json cannot use costs one of its attempts; none left is a
\* StructuredOutputError.
LastReply(t) == replies[t] = 1

BadReply(t) == IF LastReply(t) THEN Over(t)
               ELSE /\ replies' = [replies EXCEPT ![t] = @ - 1]
                    /\ NewCreate(t)
                    /\ UNCHANGED <<kind, stage, spent>>

\* The fallback serves the call from the start, with a _create of its own.
CrossOverUngated(t) ==
  /\ stage' = [stage EXCEPT ![t] = FirstStage(kind[t])]
  /\ replies' = [replies EXCEPT ![t] = IF kind[t] = "tools" THEN Replies ELSE @]
  /\ attempt' = [attempt EXCEPT ![t] = 1]
  /\ gate' = [gate EXCEPT ![t] = "clear"]
  /\ UNCHANGED <<kind, spent>>
CrossOverAfresh(t) ==
  /\ stage' = [stage EXCEPT ![t] = FirstStage(kind[t])]
  /\ replies' = [replies EXCEPT ![t] = Replies]
  /\ NewCreate(t)
  /\ UNCHANGED <<kind, spent>>
CrossOver(t) == /\ stage' = [stage EXCEPT ![t] = FirstStage(kind[t])]
                /\ replies' = [replies EXCEPT ![t] = IF kind[t] = "tools" THEN Replies ELSE @]
                /\ NewCreate(t)
                /\ UNCHANGED <<kind, spent>>

\* The provider failed the call: the router records it, and the primary's failure
\* crosses over when something else can serve.
CallFails(t, unserved) == /\ ProviderFails(t)
                          /\ IF pc'[t] = "fallback" THEN CrossOver(t) ELSE unserved
-----------------------------------------------------------------------------
(* _create: one gate, up to Attempts sends.                                *)

Gated(t) == kind[t] # "none" /\ pc[t] # "idle" /\ attempt[t] = 0

\* accounting_gate reads the sidecar, and then the faults not parked.
GateClosed(t) == IF gate[t] = "none" THEN parked ELSE unparked

GateLooks(t) == /\ Gated(t) /\ gate[t] = "none" /\ ~GateClosed(t)
                /\ gate' = [gate EXCEPT ![t] = "clear"]
                /\ UNCHANGED <<vars, kind, stage, replies, attempt, faults, spent, overrun>>

\* A sidecar that cannot be read is a fault, and a ledger that cannot be opened refuses
\* too. AccountingUnavailable is nobody's outage and no ValueError: it escapes every layer.
Refused(t) == \E unopened \in BOOLEAN :
  /\ Gated(t) /\ (GateClosed(t) \/ unopened)
  /\ OwnError(t) /\ Over(t)
  /\ UNCHANGED <<faults, overrun>>

Send(t) == /\ Gated(t) /\ gate[t] # "none" /\ ~GateClosed(t)
           /\ attempt' = [attempt EXCEPT ![t] = 1]
           /\ spent' = [spent EXCEPT ![t] = @ + 1]
           /\ UNCHANGED <<vars, kind, stage, replies, gate, faults, overrun>>

Sent(t) == kind[t] # "none" /\ pc[t] # "idle" /\ attempt[t] > 0

\* A 429, a timeout or a 5xx is tried again, by the same client and behind no new gate.
MayRetry(t) == attempt[t] < Attempts

BackOffCounted(t) ==
  /\ Sent(t) /\ pc[t] \in down /\ MayRetry(t)
  /\ RecordFailure(pc[t])
  /\ attempt' = [attempt EXCEPT ![t] = @ + 1]
  /\ spent' = [spent EXCEPT ![t] = @ + 1]
  /\ UNCHANGED <<down, pc, usable, kind, stage, replies, gate, faults, overrun>>
BackOff(t) == /\ Sent(t) /\ pc[t] \in down /\ MayRetry(t)
              /\ attempt' = [attempt EXCEPT ![t] = @ + 1]
              /\ spent' = [spent EXCEPT ![t] = @ + 1]
              /\ UNCHANGED <<vars, kind, stage, replies, gate, faults, overrun>>

\* The attempts are spent, the error is not worth retrying, or the day's quota is: an
\* APIError or ProviderQuotaExhausted, which chat_json lets through.
Errors(t) == /\ Sent(t)
             /\ CallFails(t, Over(t))
             /\ UNCHANGED <<faults, overrun>>

Held == unparked \/ parked
NoneOver == [r \in Requester |-> 0]

\* _record_usage: a completion is counted, or it latches a fault.
Billed(t) == \E counted \in BOOLEAN :
  /\ unparked' = (unparked \/ ~counted)
  /\ UNCHANGED parked
  /\ overrun' = IF ~Held THEN NoneOver
                ELSE IF gate[t] = "slipped" THEN overrun
                ELSE [overrun EXCEPT ![t] = UpTo(@ + 1, 2)]

\* An empty completion: a failure of the provider to the router's chat, a bad reply to
\* the chat_json inside a tool loop, no tool call to the loop itself.
AnswersNothing(t) ==
  /\ Sent(t) /\ Billed(t)
  /\ \/ kind[t] = "json" /\ CallFails(t, BadReply(t))
     \/ /\ kind[t] = "tools" /\ stage[t] = "final"
        /\ pc[t] \in down /\ BadReply(t)
        /\ IF LastReply(t) THEN OwnError(t) ELSE UNCHANGED vars
     \/ /\ kind[t] = "tools" /\ stage[t] = "tool"
        /\ pc[t] \in down /\ OwnError(t) /\ Over(t)
-----------------------------------------------------------------------------
(* What a provider that is up answers.                                     *)

Arrives(t) == Sent(t) /\ pc[t] \notin down /\ Billed(t)

\* No tool call (ToolCallingUnsupported), arguments that are no JSON (ValueError) or a
\* name the executor does not know (UnknownToolCall): the loop is over.
ToolDeclined(t) == /\ stage[t] = "tool" /\ Arrives(t)
                   /\ OwnError(t) /\ Over(t)

ToolCalled(t) == /\ stage[t] = "tool" /\ Arrives(t)
                 /\ stage' = [stage EXCEPT ![t] = "final"]
                 /\ NewCreate(t)
                 /\ UNCHANGED <<vars, kind, replies, spent>>

\* The validators of the response model accept it.
Accepted(t) == /\ stage[t] = "final" /\ Arrives(t)
               /\ Answers(t) /\ Over(t)

\* They do not: to the router an answer of its chat like any other, but a tool loop is
\* one call, which ends only with the loop.
Rejected(t) == /\ stage[t] = "final" /\ Arrives(t) /\ BadReply(t)
               /\ IF kind[t] = "json" THEN Answers(t)
                  ELSE IF LastReply(t) THEN OwnError(t) ELSE UNCHANGED vars
-----------------------------------------------------------------------------
(* The rest of the process.                                                *)

CoarseCall == \E t \in Coarse : (StartCall(t) \/ CallStep(t)) /\ UNCHANGED request

Elapse == (Tick \/ Outage) /\ UNCHANGED request

\* A completion of another thread could not be counted, or one of another process, which
\* parked it.
FaultElsewhere == /\ \/ ~unparked /\ unparked' = TRUE /\ UNCHANGED parked
                     \/ ~parked /\ parked' = TRUE /\ UNCHANGED unparked
                  /\ overrun' = IF Held THEN overrun ELSE NoneOver
                  /\ UNCHANGED <<vars, kind, stage, replies, attempt, gate, spent>>

\* _flush_faults, by the thread that latched a fault or by one that is refused. It may
\* fail, and what it parks is missed by a gate that has read the sidecar.
Park == /\ unparked /\ unparked' = FALSE /\ parked' = TRUE
        /\ gate' = [r \in Requester |-> IF attempt[r] = 0 /\ gate[r] = "clear" THEN "slipped"
                                       ELSE gate[r]]
        /\ UNCHANGED <<vars, kind, stage, replies, attempt, spent, overrun>>

\* An operator's process replays what is parked.
Reconciled == /\ parked /\ parked' = FALSE /\ UNCHANGED unparked
              /\ overrun' = IF unparked THEN overrun ELSE NoneOver
              /\ UNCHANGED <<vars, kind, stage, replies, attempt, gate, spent>>

RequestStep(t) == \/ AskAgain(t) \/ GateLooks(t) \/ Refused(t) \/ Send(t) \/ BackOff(t) \/ Errors(t)
                  \/ AnswersNothing(t) \/ ToolDeclined(t) \/ ToolCalled(t)
                  \/ Accepted(t) \/ Rejected(t)

TransportNext == \/ \E t \in Requester : Begin(t) \/ RequestStep(t)
                 \/ CoarseCall \/ Elapse \/ FaultElsewhere \/ Park \/ Reconciled

TransportSpec == TransportInit /\ [][TransportNext]_transportVars

\* As in ProviderBreaker, where the workload assumption is on the coarse callers; a
\* request may stay under way for ever.
TransportFairness ==
  /\ WF_transportVars(Tick /\ UNCHANGED request)
  /\ \A t \in Coarse : /\ WF_transportVars(StartCall(t) /\ UNCHANGED request)
                       /\ WF_transportVars(CallStep(t) /\ UNCHANGED request)
                       /\ SF_transportVars(Answers(t) /\ pc[t] = "primary" /\ UNCHANGED request)

FairTransportSpec == TransportSpec /\ TransportFairness
-----------------------------------------------------------------------------
(* Properties.                                                             *)

\* Through retries, repairs and tool loops a request is to the breakers what
\* ProviderBreaker says a call is: each call of a provider ends in one recorded outcome,
\* and only an outage crosses over (llm.py:790-806, 846-937).
ImplementsBreaker == Spec

\* Once spend could not be counted, a thread completes at most the call it had under
\* way: no repair, tool answer or fallback follows it (llm.py:485-492). One more gets
\* through for each gate that a fault was parked behind, between its reads of the sidecar
\* and of memory (usage.py:619-664): LatchBlocks of UsageLedger.
NothingBilledPastAFault == Held => \A t \in Requester : overrun[t] <= 1

\* What the code says without that exception: "the whole promise is that the call after the
\* unrecorded one does not happen" (llm.py:488-489).
NoCallAfterTheUnrecorded == Held => \A t \in Requester : overrun[t] = 1 => attempt[t] = 0

\* The layers' retries do not stack: however they combine, a request never sends more
\* than each provider's share of every reply, and a tool call on top (llm.py:41-49).
SendLimit(k) == 2 * Attempts * (IF k = "tools" THEN Replies + 1 ELSE Replies)

RetriesDoNotStack == \A t \in Requester : kind[t] # "none" => spent[t] <= SendLimit(kind[t])
=============================================================================
