-------------------------- MODULE SessionRegistry --------------------------
(***************************************************************************)
(* The web API's registry of Session ids (web_runtime.py, web_api.py,      *)
(* web_session_driver.py): which socket owns an id, whose graph thread     *)
(* drives its checkpoint, and how a reconnect takes over a stale run.      *)
(*                                                                         *)
(* Socket handlers and claims are coroutines of one event loop: they give  *)
(* way only at an await, so a handler that is inside a segment (pc in      *)
(* MidSegment) excludes every other coroutine. Graph threads are real      *)
(* threads and step between any two actions. A section under               *)
(* WebApiState.lock is one action.                                         *)
(*                                                                         *)
(* Definitions named after a mistake (TakenByAnOpenSocket, ...) are the      *)
(* mutants the project's properties are tried against; Next uses none.     *)
(***************************************************************************)
EXTENDS Naturals, FiniteSets

CONSTANTS Socket,         \* connection slots; one RuntimeSession each
          Id,             \* Session ids a client may name
          Named,          \* the ids the client behind each connection may name
          None,           \* no socket
          MaxStaleJoins,  \* MAX_CONCURRENT_STALE_JOINS
          Hung            \* connections whose run may never unwind

ASSUME NoneAssumption == None \notin Socket /\ None \notin Id
ASSUME NamedAssumption == Named \in [Socket -> SUBSET Id]
ASSUME MaxStaleJoinsAssumption == MaxStaleJoins \in Nat
ASSUME HungAssumption == Hung \subseteq Socket

VARIABLES pc,          \* where each connection's coroutine stands
          sid,         \* RuntimeSession.session_id
          thread,      \* the run thread, with run_finished folded in
          cancelled,   \* RuntimeSession.cancelled
          stale,       \* the local `stale` of a claim that waits
          runtimes,    \* WebApiState.runtimes
          waiting      \* WebApiState.waiting

vars == <<pc, sid, thread, cancelled, stale, runtimes, waiting>>

MidSegment == {"stale", "joined", "reclaim", "closing"}
Claiming == {"stale", "joining", "joined", "reclaim"}
Gone == {"idle", "refused", "closed"}

TypeOK ==
  /\ pc \in [Socket -> MidSegment \cup Claiming \cup Gone \cup {"open"}]
  /\ sid \in [Socket -> Id \cup {None}]
  /\ thread \in [Socket -> {"none", "running", "released", "dead"}]
  /\ cancelled \in [Socket -> BOOLEAN]
  /\ stale \in [Socket -> Socket \cup {None}]
  /\ runtimes \in [Id -> Socket \cup {None}]
  /\ waiting \in SUBSET Id
  /\ IsFiniteSet(waiting)
  /\ Cardinality(waiting) <= MaxStaleJoins   \* the join pool has no queue

Init == /\ pc = [c \in Socket |-> "idle"]
        /\ sid = [c \in Socket |-> None]
        /\ thread = [c \in Socket |-> "none"]
        /\ cancelled = [c \in Socket |-> FALSE]
        /\ stale = [c \in Socket |-> None]
        /\ runtimes = [i \in Id |-> None]
        /\ waiting = {}
-----------------------------------------------------------------------------
(* Views the code takes of a RuntimeSession.                               *)

\* Thread.is_alive(): still true for a thread past its own `finally`.
IsAlive(c) == thread[c] \in {"running", "released"}

\* run_in_flight: false from the moment the thread's `finally` ran.
RunInFlight(c) == thread[c] = "running"

SocketClosed(c) == pc[c] = "closed"

\* The event loop is free for c: no other coroutine is inside a segment.
LoopFree(c) == \A d \in Socket \ {c} : pc[d] \notin MidSegment

\* A slot whose RuntimeSession nothing refers to any more.
Unreferenced(c) == /\ pc[c] \in Gone
                   /\ ~IsAlive(c)
                   /\ \A i \in Id : runtimes[i] # c
                   /\ \A d \in Socket : stale[d] # c

\* session_socket builds a fresh RuntimeSession for the connection.
NewRuntime(c, i) == /\ LoopFree(c)
                    /\ Unreferenced(c)
                    /\ i \in Named[c]
                    /\ sid' = [sid EXCEPT ![c] = i]
                    /\ thread' = [thread EXCEPT ![c] = "none"]
                    /\ cancelled' = [cancelled EXCEPT ![c] = FALSE]
-----------------------------------------------------------------------------
(* _claim_session_id, first section under the lock.                        *)

ClaimFresh(c, i) == /\ NewRuntime(c, i)
                    /\ runtimes[i] = None
                    /\ runtimes' = [runtimes EXCEPT ![i] = c]
                    /\ pc' = [pc EXCEPT ![c] = "open"]
                    /\ UNCHANGED <<stale, waiting>>

MayWait(i) == /\ SocketClosed(runtimes[i])
              /\ i \notin waiting
              /\ Cardinality(waiting) < MaxStaleJoins

\* An open socket, a reconnect already waiting, or too many joins: refused at once.
ClaimRefused(c, i) == /\ NewRuntime(c, i)
                      /\ runtimes[i] # None
                      /\ ~MayWait(i)
                      /\ pc' = [pc EXCEPT ![c] = "refused"]
                      /\ UNCHANGED <<stale, runtimes, waiting>>

ClaimWaits(c, i) == /\ NewRuntime(c, i)
                    /\ runtimes[i] # None
                    /\ MayWait(i)
                    /\ stale' = [stale EXCEPT ![c] = runtimes[i]]
                    /\ waiting' = waiting \cup {i}
                    /\ pc' = [pc EXCEPT ![c] = "stale"]
                    /\ UNCHANGED runtimes

(* The rest of the claim, for a reconnect that waits.                      *)

CheckStale(c) ==
  /\ pc[c] = "stale"
  /\ pc' = [pc EXCEPT ![c] = IF IsAlive(stale[c]) THEN "joining" ELSE "reclaim"]
  /\ UNCHANGED <<sid, thread, cancelled, stale, runtimes, waiting>>

JoinWithoutTimeout(c) == /\ LoopFree(c)
                         /\ pc[c] = "joining"
                         /\ ~IsAlive(stale[c])
                         /\ pc' = [pc EXCEPT ![c] = "joined"]
                         /\ UNCHANGED <<sid, thread, cancelled, stale, runtimes, waiting>>

\* The join in the pool ends: the thread died, or the join's timeout passed.
JoinReturns(c) == /\ LoopFree(c)
                  /\ pc[c] = "joining"
                  /\ pc' = [pc EXCEPT ![c] = "joined"]
                  /\ UNCHANGED <<sid, thread, cancelled, stale, runtimes, waiting>>

EndClaimOnlyFreesOnSuccess(c, to) ==
  /\ pc' = [pc EXCEPT ![c] = to]
  /\ stale' = [stale EXCEPT ![c] = None]
  /\ waiting' = IF to = "open" THEN waiting \ {sid[c]} ELSE waiting
  /\ UNCHANGED <<sid, thread, cancelled>>

\* Every return runs the `finally` that gives the waiting slot back.
EndClaim(c, to) == /\ pc' = [pc EXCEPT ![c] = to]
                   /\ stale' = [stale EXCEPT ![c] = None]
                   /\ waiting' = waiting \ {sid[c]}
                   /\ UNCHANGED <<sid, thread, cancelled>>

CheckJoined(c) == /\ pc[c] = "joined"
                  /\ \/ /\ IsAlive(stale[c])
                        /\ EndClaim(c, "refused")
                        /\ UNCHANGED runtimes
                     \/ /\ ~IsAlive(stale[c])
                        /\ pc' = [pc EXCEPT ![c] = "reclaim"]
                        /\ UNCHANGED <<sid, thread, cancelled, stale, runtimes, waiting>>

TakenByAnOpenSocket(c) == /\ runtimes[sid[c]] \notin {None, stale[c]}
                          /\ ~SocketClosed(runtimes[sid[c]])

\* Someone took the id while this claim waited, and still needs it.
TakenMeanwhile(c) == LET current == runtimes[sid[c]] IN
  /\ current \notin {None, stale[c]}
  /\ ~SocketClosed(current) \/ RunInFlight(current)

\* Second section under the lock.
Reclaim(c) == /\ pc[c] = "reclaim"
              /\ \/ /\ TakenMeanwhile(c)
                    /\ EndClaim(c, "refused")
                    /\ UNCHANGED runtimes
                 \/ /\ ~TakenMeanwhile(c)
                    /\ EndClaim(c, "open")
                    /\ runtimes' = [runtimes EXCEPT ![sid[c]] = c]
-----------------------------------------------------------------------------
(* The frame loop of a connected socket, and its `finally`.                *)

\* A start or resume frame, refused while the last run's thread is alive.
StartRun(c) == /\ LoopFree(c)
               /\ pc[c] = "open"
               /\ ~IsAlive(c)
               /\ thread' = [thread EXCEPT ![c] = "running"]
               /\ cancelled' = [cancelled EXCEPT ![c] = FALSE]
               /\ UNCHANGED <<pc, sid, stale, runtimes, waiting>>

CancelRun(c) == /\ LoopFree(c)
                /\ pc[c] = "open"
                /\ cancelled' = [cancelled EXCEPT ![c] = TRUE]
                /\ UNCHANGED <<pc, sid, thread, stale, runtimes, waiting>>

\* The socket ends, for whatever reason: the run is told first ...
Disconnect(c) == /\ LoopFree(c)
                 /\ pc[c] = "open"
                 /\ cancelled' = [cancelled EXCEPT ![c] = TRUE]
                 /\ pc' = [pc EXCEPT ![c] = "closing"]
                 /\ UNCHANGED <<sid, thread, stale, runtimes, waiting>>

CloseAndAlwaysPop(c) ==
  /\ pc[c] = "closing"
  /\ pc' = [pc EXCEPT ![c] = "closed"]
  /\ runtimes' = IF runtimes[sid[c]] = c THEN [runtimes EXCEPT ![sid[c]] = None] ELSE runtimes
  /\ UNCHANGED <<sid, thread, cancelled, stale, waiting>>

\* ... and under the lock the registration goes, unless a run still holds it.
CloseSocket(c) ==
  /\ pc[c] = "closing"
  /\ pc' = [pc EXCEPT ![c] = "closed"]
  /\ runtimes' = IF runtimes[sid[c]] = c /\ ~RunInFlight(c)
                   THEN [runtimes EXCEPT ![sid[c]] = None]
                   ELSE runtimes
  /\ UNCHANGED <<sid, thread, cancelled, stale, waiting>>
-----------------------------------------------------------------------------
(* The run thread.                                                         *)

\* The `finally` of _run_session_thread, however the run ended.
ReleaseRun(c) ==
  /\ thread[c] = "running"
  /\ thread' = [thread EXCEPT ![c] = "released"]
  /\ runtimes' = IF SocketClosed(c) /\ runtimes[sid[c]] = c
                   THEN [runtimes EXCEPT ![sid[c]] = None]
                   ELSE runtimes
  /\ UNCHANGED <<pc, sid, cancelled, stale, waiting>>

ThreadExits(c) == /\ thread[c] = "released"
                  /\ thread' = [thread EXCEPT ![c] = "dead"]
                  /\ UNCHANGED <<pc, sid, cancelled, stale, runtimes, waiting>>
-----------------------------------------------------------------------------
Next == \E c \in Socket :
           \/ \E i \in Id : ClaimFresh(c, i) \/ ClaimRefused(c, i) \/ ClaimWaits(c, i)
           \/ CheckStale(c) \/ JoinReturns(c) \/ CheckJoined(c) \/ Reclaim(c)
           \/ StartRun(c) \/ CancelRun(c) \/ Disconnect(c) \/ CloseSocket(c)
           \/ ReleaseRun(c) \/ ThreadExits(c)

\* The event loop runs what is ready in FIFO order (so a join that has ended is
\* not overtaken for ever: strong fairness, as its turn comes and goes with the
\* other coroutines), a join ends within its timeout, and a cancelled run unwinds: it polls the flag between provider calls, which the
\* transport bounds. Nothing makes a client act or an uncancelled run end.
LoopFairness == \A c \in Socket :
                  /\ WF_vars(CheckStale(c)) /\ SF_vars(JoinReturns(c))
                  /\ WF_vars(CheckJoined(c)) /\ WF_vars(Reclaim(c))
                  /\ WF_vars(CloseSocket(c))

\* A run of Hung may sit in a provider call for ever.
ThreadFairness == \A c \in Socket \ Hung :
                    /\ WF_vars(cancelled[c] /\ ReleaseRun(c))
                    /\ WF_vars(ThreadExits(c))

Spec == Init /\ [][Next]_vars
FairSpec == Spec /\ LoopFairness /\ ThreadFairness
-----------------------------------------------------------------------------
(* Properties.                                                             *)

\* Two graphs never drive one Session's checkpoint (web_runtime.py:254-259),
\* and a socket that is being served never shares its id with another's run.
OneOwnerPerId == \A c, d \in Socket :
  /\ c # d
  /\ sid[c] = sid[d]
  /\ thread[c] = "running" \/ pc[c] \in {"open", "closing"}
  => thread[d] # "running" /\ pc[d] \notin {"open", "closing"}

\* The waiting set is exactly the ids of the claims that wait, one claim each:
\* no path out of a claim leaks its slot in the join pool, which would lock the
\* id (and, MAX_CONCURRENT_STALE_JOINS leaks later, every id) out of reconnects.
WaitersAccounted ==
  LET claims == {c \in Socket : pc[c] \in Claiming} IN
  /\ waiting = {sid[c] : c \in claims}
  /\ \A c, d \in claims : sid[c] = sid[d] => c = d

\* A claim never waits on a runtime that could be started again: its socket is
\* closed for good, so the thread it joins is the last one.
JoinsAClosedRun == \A c \in Socket :
  pc[c] \in Claiming => /\ SocketClosed(stale[c])
                        /\ sid[stale[c]] = sid[c]

\* A reconnect that waits is always answered, granted or refused, even behind a
\* run that never unwinds (STALE_RUNTIME_JOIN_SECONDS bounds the join).
ClaimAnswered == \A c \in Socket :
  pc[c] \in Claiming ~> pc[c] \in {"open", "refused"}

\* "a thread nobody feeds would hold the registration forever"
\* (web_api.py:230-231): whatever the order of the two `finally` blocks, the
\* registration of a closed socket goes away by itself once its run unwinds.
ClosedIsReleased == \A c \in Socket \ Hung : \A i \in Id :
  (pc[c] = "closed" /\ runtimes[i] = c) ~> runtimes[i] # c

\* The registry keeps the promise of SessionLease.
Lease == INSTANCE SessionLease WITH
  sockets <- [i \in Id |-> {c \in Socket : sid[c] = i /\ pc[c] \in {"open", "closing"}}],
  graphs <- [i \in Id |-> {c \in Socket : sid[c] = i /\ thread[c] = "running"}]

LeaseSpec == Lease!Spec
=============================================================================
