----------------------- MODULE SessionRegistry_proofs -----------------------
(* Safety of the Session registry for every set of connections and ids and *)
(* every size of the join pool.                                            *)
EXTENDS SessionRegistry, FiniteSetTheorems, TLAPS

\* Whoever drives or serves an id is the runtime registered for it.
HoldersRegistered == \A c \in Socket :
  thread[c] = "running" \/ pc[c] \in {"open", "closing"}
  => /\ sid[c] \in Id
     /\ runtimes[sid[c]] = c

RegisteredServe == \A i \in Id :
  runtimes[i] # None => /\ sid[runtimes[i]] = i
                        /\ pc[runtimes[i]] \in {"open", "closing", "closed"}

RunsBelongToSockets == \A c \in Socket :
  thread[c] = "running" => pc[c] \in {"open", "closing", "closed"}

\* A waiting claim joins a runtime that can no longer start a thread.
ClaimsJoinClosedRuns == \A c \in Socket :
  pc[c] \in Claiming => /\ sid[c] \in Id
                        /\ stale[c] \in Socket
                        /\ SocketClosed(stale[c])
                        /\ sid[stale[c]] = sid[c]
                        /\ pc[c] = "reclaim" => ~IsAlive(stale[c])

IInv == /\ TypeOK
        /\ HoldersRegistered
        /\ RegisteredServe
        /\ RunsBelongToSockets
        /\ ClaimsJoinClosedRuns

\* Types and the bound of the join pool are kept by every step.
LEMMA TypeStep == ASSUME TypeOK, ClaimsJoinClosedRuns, HoldersRegistered, [Next]_vars PROVE TypeOK'
<1> USE NoneAssumption, MaxStaleJoinsAssumption
<1>1. CASE UNCHANGED vars
  BY <1>1 DEF TypeOK, vars
<1>2. ASSUME NEW c \in Socket, NEW i \in Id, ClaimFresh(c, i) PROVE TypeOK'
  BY <1>2 DEF TypeOK, ClaimFresh, NewRuntime
<1>3. ASSUME NEW c \in Socket, NEW i \in Id, ClaimRefused(c, i) PROVE TypeOK'
  BY <1>3 DEF TypeOK, ClaimRefused, NewRuntime, Gone
<1>4. ASSUME NEW c \in Socket, NEW i \in Id, ClaimWaits(c, i) PROVE TypeOK'
  <2>1. /\ IsFiniteSet(waiting')
        /\ Cardinality(waiting') = Cardinality(waiting) + 1
    BY <1>4, FS_AddElement DEF TypeOK, ClaimWaits, MayWait
  <2>2. Cardinality(waiting) \in Nat
    BY FS_CardinalityType DEF TypeOK
  <2>3. Cardinality(waiting') <= MaxStaleJoins
    BY <1>4, <2>1, <2>2 DEF ClaimWaits, MayWait
  <2> QED
    BY <1>4, <2>1, <2>3 DEF TypeOK, ClaimWaits, NewRuntime, Claiming, MidSegment
<1>5. ASSUME NEW c \in Socket, CheckStale(c) \/ JoinReturns(c) PROVE TypeOK'
  BY <1>5 DEF TypeOK, CheckStale, JoinReturns, Claiming, MidSegment
<1>6. ASSUME NEW c \in Socket, NEW to \in {"open", "refused"}, EndClaim(c, to)
      PROVE /\ IsFiniteSet(waiting')
            /\ Cardinality(waiting') <= MaxStaleJoins
            /\ waiting' \in SUBSET Id
            /\ pc' \in [Socket -> MidSegment \cup Claiming \cup Gone \cup {"open"}]
            /\ stale' \in [Socket -> Socket \cup {None}]
  <2>1. /\ IsFiniteSet(waiting') /\ Cardinality(waiting') <= Cardinality(waiting)
        /\ Cardinality(waiting) \in Nat /\ Cardinality(waiting') \in Nat
    BY <1>6, FS_Subset, FS_CardinalityType DEF TypeOK, EndClaim
  <2> QED
    BY <1>6, <2>1 DEF TypeOK, EndClaim, Gone
<1>7. ASSUME NEW c \in Socket, CheckJoined(c) PROVE TypeOK'
  <2>1. CASE EndClaim(c, "refused") /\ UNCHANGED runtimes
    BY <2>1, <1>6 DEF TypeOK, EndClaim
  <2>2. CASE ~EndClaim(c, "refused")
    BY <2>2, <1>7 DEF TypeOK, CheckJoined, Claiming
  <2> QED
    BY <1>7, <2>1, <2>2 DEF CheckJoined
<1>8. ASSUME NEW c \in Socket, Reclaim(c) PROVE TypeOK'
  <2>1. CASE EndClaim(c, "refused") /\ UNCHANGED runtimes
    BY <2>1, <1>6 DEF TypeOK, EndClaim
  <2>2. CASE EndClaim(c, "open") /\ runtimes' = [runtimes EXCEPT ![sid[c]] = c]
    BY <2>2, <1>6 DEF TypeOK, EndClaim
  <2> QED
    BY <1>8, <2>1, <2>2 DEF Reclaim
<1>9. ASSUME NEW c \in Socket, StartRun(c) \/ CancelRun(c) \/ Disconnect(c) PROVE TypeOK'
  BY <1>9 DEF TypeOK, StartRun, CancelRun, Disconnect, MidSegment
<1>10. ASSUME NEW c \in Socket, CloseSocket(c) PROVE TypeOK'
  BY <1>10 DEF TypeOK, CloseSocket, Gone
<1>11. ASSUME NEW c \in Socket, ReleaseRun(c) \/ ThreadExits(c) PROVE TypeOK'
  BY <1>11 DEF TypeOK, ReleaseRun, ThreadExits
<1> QED
  BY <1>1, <1>2, <1>3, <1>4, <1>5, <1>7, <1>8, <1>9, <1>10, <1>11 DEF Next

\* One action of one connection keeps the ownership part of the invariant.
LEMMA OwnershipStep == ASSUME IInv, TypeOK', Next
                       PROVE IInv'
<1> DEFINE Own == HoldersRegistered /\ RegisteredServe /\ RunsBelongToSockets /\ ClaimsJoinClosedRuns
<1> USE NoneAssumption DEF MidSegment, Claiming, Gone, SocketClosed, IsAlive, RunInFlight
<1> USE DEF IInv, TypeOK
<1>1. ASSUME NEW c \in Socket, NEW i \in Id, ClaimFresh(c, i) PROVE Own'
  BY <1>1 DEF ClaimFresh, NewRuntime, Unreferenced, HoldersRegistered, RegisteredServe,
              RunsBelongToSockets, ClaimsJoinClosedRuns
<1>2. ASSUME NEW c \in Socket, NEW i \in Id, ClaimRefused(c, i) PROVE Own'
  BY <1>2 DEF ClaimRefused, NewRuntime, Unreferenced, HoldersRegistered, RegisteredServe,
              RunsBelongToSockets, ClaimsJoinClosedRuns
<1>3. ASSUME NEW c \in Socket, NEW i \in Id, ClaimWaits(c, i) PROVE Own'
  BY <1>3 DEF ClaimWaits, MayWait, NewRuntime, Unreferenced, HoldersRegistered, RegisteredServe,
              RunsBelongToSockets, ClaimsJoinClosedRuns
<1>4. ASSUME NEW c \in Socket, CheckStale(c) \/ JoinReturns(c) PROVE Own'
  BY <1>4 DEF CheckStale, JoinReturns, HoldersRegistered, RegisteredServe,
              RunsBelongToSockets, ClaimsJoinClosedRuns
<1>5. ASSUME NEW c \in Socket, CheckJoined(c) PROVE Own'
  BY <1>5 DEF CheckJoined, EndClaim, HoldersRegistered, RegisteredServe,
              RunsBelongToSockets, ClaimsJoinClosedRuns
<1>6. ASSUME NEW c \in Socket, Reclaim(c) PROVE Own'
  <2>1. CASE TakenMeanwhile(c)
    BY <1>6, <2>1 DEF Reclaim, EndClaim, HoldersRegistered, RegisteredServe,
                      RunsBelongToSockets, ClaimsJoinClosedRuns
  <2>2. CASE ~TakenMeanwhile(c)
    \* Whoever held the id is gone: no entry, a dead stale run, or a closed socket without a run.
    <3>1. ASSUME NEW d \in Socket, sid[d] = sid[c]
          PROVE thread[d] # "running" /\ pc[d] \notin {"open", "closing"}
      BY <1>6, <2>2, <3>1 DEF Reclaim, TakenMeanwhile, HoldersRegistered, ClaimsJoinClosedRuns
    <3>2. EndClaim(c, "open") /\ runtimes' = [runtimes EXCEPT ![sid[c]] = c] /\ pc[c] = "reclaim"
      BY <1>6, <2>2 DEF Reclaim
    <3>3. sid[c] \in Id
      BY <3>2 DEF ClaimsJoinClosedRuns
    <3> QED
      BY <3>1, <3>2, <3>3 DEF EndClaim, HoldersRegistered, RegisteredServe,
                              RunsBelongToSockets, ClaimsJoinClosedRuns
  <2> QED BY <2>1, <2>2
<1>7. ASSUME NEW c \in Socket, StartRun(c) \/ CancelRun(c) \/ Disconnect(c) PROVE Own'
  BY <1>7 DEF StartRun, CancelRun, Disconnect, HoldersRegistered, RegisteredServe,
              RunsBelongToSockets, ClaimsJoinClosedRuns
<1>8. ASSUME NEW c \in Socket, CloseSocket(c) PROVE Own'
  BY <1>8 DEF CloseSocket, HoldersRegistered, RegisteredServe,
              RunsBelongToSockets, ClaimsJoinClosedRuns
<1>9. ASSUME NEW c \in Socket, ReleaseRun(c) \/ ThreadExits(c) PROVE Own'
  BY <1>9 DEF ReleaseRun, ThreadExits, HoldersRegistered, RegisteredServe,
              RunsBelongToSockets, ClaimsJoinClosedRuns
<1> QED
  BY <1>1, <1>2, <1>3, <1>4, <1>5, <1>6, <1>7, <1>8, <1>9 DEF Next

LEMMA InductiveInvariant == Spec => []IInv
<1>1. Init => IInv
  <2> SUFFICES ASSUME Init PROVE IInv
    OBVIOUS
  <2>1. IsFiniteSet(waiting) /\ Cardinality(waiting) = 0
    BY FS_EmptySet DEF Init
  <2> QED
    BY <2>1, NoneAssumption, MaxStaleJoinsAssumption
    DEF Init, IInv, TypeOK, HoldersRegistered, RegisteredServe, RunsBelongToSockets,
        ClaimsJoinClosedRuns, Gone, Claiming, MidSegment
<1>2. IInv /\ [Next]_vars => IInv'
  <2> SUFFICES ASSUME IInv, [Next]_vars PROVE IInv'
    OBVIOUS
  <2>1. TypeOK'
    BY TypeStep DEF IInv
  <2>2. CASE UNCHANGED vars
    BY <2>1, <2>2 DEF vars, IInv, HoldersRegistered, RegisteredServe, RunsBelongToSockets,
                 ClaimsJoinClosedRuns, SocketClosed, IsAlive
  <2> QED
    BY <2>1, <2>2, OwnershipStep
<1> QED
  BY <1>1, <1>2, PTL DEF Spec

\* Every reachable registry is well typed, and the claims that wait for a stale
\* run never exceed the join pool (MAX_CONCURRENT_STALE_JOINS).
THEOREM TypeCorrect == Spec => []TypeOK
BY InductiveInvariant, PTL DEF IInv

\* At no time do two graphs drive one Session's checkpoint, and no socket is
\* served on an id that another socket or another's run holds.
THEOREM OneOwner == Spec => []OneOwnerPerId
<1>1. IInv => OneOwnerPerId
  BY DEF IInv, HoldersRegistered, OneOwnerPerId
<1> QED
  BY <1>1, InductiveInvariant, PTL

\* A reconnect only ever waits for a runtime whose socket is closed, so the
\* thread it joins is the last that runtime will have.
THEOREM JoinsClosed == Spec => []JoinsAClosedRun
<1>1. IInv => JoinsAClosedRun
  BY DEF IInv, ClaimsJoinClosedRuns, JoinsAClosedRun
<1> QED
  BY <1>1, InductiveInvariant, PTL

-----------------------------------------------------------------------------
\* The sets the refinement mapping reads off a registry.
Served(i) == {c \in Socket : sid[c] = i /\ pc[c] \in {"open", "closing"}}
Driving(i) == {c \in Socket : sid[c] = i /\ thread[c] = "running"}

\* An id has at most one holder, and the holder is registered.
LEMMA HoldersUnique ==
  ASSUME IInv, NEW i \in Id
  PROVE /\ \A c \in Served(i) : Served(i) = {c} /\ Driving(i) \subseteq {c}
        /\ \A c \in Driving(i) : Driving(i) = {c} /\ Served(i) \subseteq {c}
        /\ runtimes[i] = None => Served(i) = {} /\ Driving(i) = {}
<1>1. \A c \in Served(i) \cup Driving(i) : c \in Socket /\ runtimes[i] = c
  BY DEF IInv, HoldersRegistered, Served, Driving
<1>2. None \notin Socket
  BY NoneAssumption
<1> HIDE DEF Served, Driving
<1> QED
  BY <1>1, <1>2

\* Every step of the registry is a step of the lease, or changes nothing there.
LEMMA LeaseStep == ASSUME IInv, IInv', [Next]_vars PROVE [Lease!Next]_(Lease!vars)
<1> DEFINE Sockets == [i \in Id |-> Served(i)]
           Graphs == [i \in Id |-> Driving(i)]
           Same == /\ \A i \in Id : Served(i)' = Served(i)
                   /\ \A i \in Id : Driving(i)' = Driving(i)
<1> USE NoneAssumption DEF Gone, MidSegment, Claiming, SocketClosed, IsAlive, RunInFlight
<1>0. ASSUME Same PROVE [Lease!Next]_(Lease!vars)
  BY <1>0 DEF Lease!vars, Served, Driving
<1>a. ASSUME NEW c \in Socket, NEW i \in Id, Served(i) = {}, Driving(i) = {},
             \A j \in Id : Served(j)' = IF j = i THEN {c} ELSE Served(j),
             \A j \in Id : Driving(j)' = Driving(j)
      PROVE [Lease!Next]_(Lease!vars)
  <2>1. Lease!Grant(i, c)
    BY <1>a DEF Lease!Grant, Served, Driving
  <2> QED BY <2>1 DEF Lease!Next
<1>1. CASE UNCHANGED vars
  BY <1>1, <1>0 DEF vars, Served, Driving
<1>2. ASSUME NEW c \in Socket, NEW i \in Id, ClaimFresh(c, i) PROVE [Lease!Next]_(Lease!vars)
  <2>1. Served(i) = {} /\ Driving(i) = {}
    BY <1>2, HoldersUnique DEF ClaimFresh
  <2>2. \A j \in Id : Served(j)' = IF j = i THEN {c} ELSE Served(j)
    BY <1>2, <2>1 DEF ClaimFresh, NewRuntime, Unreferenced, Served, IInv, TypeOK
  <2>3. \A j \in Id : Driving(j)' = Driving(j)
    BY <1>2 DEF ClaimFresh, NewRuntime, Unreferenced, Driving, IInv, TypeOK
  <2> QED BY <1>a, <2>1, <2>2, <2>3
<1>3. ASSUME NEW c \in Socket, NEW i \in Id, ClaimRefused(c, i) \/ ClaimWaits(c, i)
      PROVE Same
  BY <1>3 DEF ClaimRefused, ClaimWaits, NewRuntime, Unreferenced, Served, Driving, IInv, TypeOK
<1>4. ASSUME NEW c \in Socket, CheckStale(c) \/ JoinReturns(c) \/ CheckJoined(c) PROVE Same
  BY <1>4 DEF CheckStale, JoinReturns, CheckJoined, EndClaim, Served, Driving, IInv, TypeOK
<1>5. ASSUME NEW c \in Socket, Reclaim(c) PROVE [Lease!Next]_(Lease!vars)
  <2>1. CASE TakenMeanwhile(c)
    <3>1. Same
      BY <1>5, <2>1 DEF Reclaim, EndClaim, Served, Driving, IInv, TypeOK
    <3> QED BY <3>1, <1>0
  <2>2. CASE ~TakenMeanwhile(c)
    <3>1. EndClaim(c, "open") /\ pc[c] = "reclaim" /\ sid[c] \in Id
      BY <1>5, <2>2 DEF Reclaim, IInv, ClaimsJoinClosedRuns
    <3>2. Served(sid[c]) = {} /\ Driving(sid[c]) = {}
      BY <1>5, <2>2 DEF Reclaim, TakenMeanwhile, IInv, HoldersRegistered, ClaimsJoinClosedRuns,
                        Served, Driving, TypeOK
    <3>3. \A j \in Id : Served(j)' = IF j = sid[c] THEN {c} ELSE Served(j)
      BY <3>1, <3>2 DEF EndClaim, Served, IInv, TypeOK
    <3>4. \A j \in Id : Driving(j)' = Driving(j)
      BY <3>1 DEF EndClaim, Driving, IInv, TypeOK
    <3> QED BY <1>a, <3>1, <3>2, <3>3, <3>4
  <2> QED BY <2>1, <2>2
<1>6. ASSUME NEW c \in Socket, NEW i \in Id, sid[c] = i, StartRun(c)
      PROVE [Lease!Next]_(Lease!vars)
  <2>1. c \in Served(i) /\ c \notin Driving(i)
    BY <1>6 DEF StartRun, IInv, HoldersRegistered, Served, Driving
  <2>2. Served(i) = {c} /\ Driving(i) = {}
    BY <2>1, HoldersUnique
  <2>3. \A j \in Id : Driving(j)' = IF j = i THEN {c} ELSE Driving(j)
    BY <1>6, <2>2 DEF StartRun, Driving, IInv, TypeOK
  <2>4. \A j \in Id : Served(j)' = Served(j)
    BY <1>6 DEF StartRun, Served
  <2>5. Sockets[i] = {c} /\ Graphs[i] = {}
    BY <2>2
  <2>6. Graphs' = [Graphs EXCEPT ![i] = {c}] /\ Sockets' = Sockets
    BY <2>3, <2>4
  <2>7. Lease!Begin(i, c)
    BY <2>5, <2>6 DEF Lease!Begin, Served, Driving
  <2> QED BY <2>7 DEF Lease!Next
<1>7. ASSUME NEW c \in Socket, CancelRun(c) \/ Disconnect(c) \/ ThreadExits(c) PROVE Same
  BY <1>7 DEF CancelRun, Disconnect, ThreadExits, Served, Driving, IInv, TypeOK
<1>8. ASSUME NEW c \in Socket, NEW i \in Id, sid[c] = i, CloseSocket(c)
      PROVE [Lease!Next]_(Lease!vars)
  <2>1. c \in Served(i)
    BY <1>8 DEF CloseSocket, IInv, HoldersRegistered, Served
  <2>2. Served(i) = {c}
    BY <2>1, HoldersUnique
  <2>3. \A j \in Id : Served(j)' = IF j = i THEN {} ELSE Served(j)
    BY <1>8, <2>2 DEF CloseSocket, Served, IInv, TypeOK
  <2>4. \A j \in Id : Driving(j)' = Driving(j)
    BY <1>8 DEF CloseSocket, Driving
  <2>5. Sockets[i] = {c}
    BY <2>2
  <2>6. Sockets' = [Sockets EXCEPT ![i] = {}] /\ Graphs' = Graphs
    BY <2>3, <2>4
  <2>7. Lease!Close(i, c)
    BY <2>5, <2>6 DEF Lease!Close, Served, Driving
  <2> QED BY <2>7 DEF Lease!Next
<1>9. ASSUME NEW c \in Socket, NEW i \in Id, sid[c] = i, ReleaseRun(c)
      PROVE [Lease!Next]_(Lease!vars)
  <2>1. c \in Driving(i)
    BY <1>9 DEF ReleaseRun, IInv, HoldersRegistered, Driving
  <2>2. Driving(i) = {c}
    BY <2>1, HoldersUnique
  <2>3. \A j \in Id : Driving(j)' = IF j = i THEN {} ELSE Driving(j)
    BY <1>9, <2>2 DEF ReleaseRun, Driving, IInv, TypeOK
  <2>4. \A j \in Id : Served(j)' = Served(j)
    BY <1>9 DEF ReleaseRun, Served
  <2>5. Graphs[i] = {c}
    BY <2>2
  <2>6. Graphs' = [Graphs EXCEPT ![i] = {}] /\ Sockets' = Sockets
    BY <2>3, <2>4
  <2>7. Lease!End(i, c)
    BY <2>5, <2>6 DEF Lease!End, Served, Driving
  <2> QED BY <2>7 DEF Lease!Next
<1>10. \A c \in Socket : StartRun(c) \/ CloseSocket(c) \/ ReleaseRun(c) => sid[c] \in Id
  BY DEF StartRun, CloseSocket, ReleaseRun, IInv, HoldersRegistered
<1> QED
  BY <1>10, <1>0, <1>1, <1>2, <1>3, <1>4, <1>5, <1>6, <1>7, <1>8, <1>9 DEF Next

\* The registry implements SessionLease: the code's two locked sections, the
\* join between them and the two `finally` blocks amount to an exclusive lease.
THEOREM RegistryRefinesLease == Spec => LeaseSpec
<1>1. Init => Lease!Init
  BY DEF Init, Lease!Init
<1>2. IInv /\ IInv' /\ [Next]_vars => [Lease!Next]_(Lease!vars)
  BY LeaseStep
<1> QED
  BY <1>1, <1>2, InductiveInvariant, PTL DEF Spec, LeaseSpec, Lease!Spec

\* The waiting set, claim by claim: who waits is in it, who is in it waits, and each once.
Accounted ==
  /\ \A c \in Socket : pc[c] \in Claiming => sid[c] \in waiting
  /\ \A i \in waiting : \E c \in Socket : pc[c] \in Claiming /\ sid[c] = i
  /\ \A c, d \in Socket : pc[c] \in Claiming /\ pc[d] \in Claiming /\ sid[c] = sid[d] => c = d

\* Accounted is kept by every step: an id enters the set with the one claim that waits for it,
\* and leaves it with that claim.
LEMMA AccountedStep == ASSUME TypeOK, Accounted, [Next]_vars PROVE Accounted'
<1> USE DEF TypeOK, Accounted, MidSegment, Claiming, Gone
<1>1. CASE UNCHANGED vars
  BY <1>1 DEF vars
<1>2. ASSUME NEW c \in Socket, NEW i \in Id, ClaimFresh(c, i) \/ ClaimRefused(c, i) PROVE Accounted'
  <2>1. /\ pc[c] \notin Claiming /\ pc'[c] \notin Claiming /\ waiting' = waiting
        /\ \A d \in Socket \ {c} : pc'[d] = pc[d] /\ sid'[d] = sid[d]
    BY <1>2 DEF ClaimFresh, ClaimRefused, NewRuntime, Unreferenced
  <2> QED BY <2>1
<1>3. ASSUME NEW c \in Socket, NEW i \in Id, ClaimWaits(c, i) PROVE Accounted'
  <2>1. /\ pc[c] \notin Claiming /\ pc'[c] = "stale" /\ sid'[c] = i
        /\ i \notin waiting /\ waiting' = waiting \cup {i}
        /\ \A d \in Socket \ {c} : pc'[d] = pc[d] /\ sid'[d] = sid[d]
    BY <1>3 DEF ClaimWaits, MayWait, NewRuntime, Unreferenced
  <2> QED BY <2>1
<1>4. ASSUME NEW c \in Socket, NEW to \in {"open", "refused"}, EndClaim(c, to),
             pc[c] \in Claiming
      PROVE Accounted'
  <2>1. /\ pc'[c] \notin Claiming /\ waiting' = waiting \ {sid[c]} /\ sid' = sid
        /\ \A d \in Socket \ {c} : pc'[d] = pc[d]
    BY <1>4 DEF EndClaim
  <2>2. \A d \in Socket \ {c} : pc[d] \in Claiming => sid[d] # sid[c]
    BY <1>4
  <2> QED BY <2>1, <2>2
<1>5. ASSUME NEW c \in Socket, CheckStale(c) \/ JoinReturns(c) PROVE Accounted'
  <2>1. /\ pc[c] \in Claiming /\ pc'[c] \in Claiming /\ UNCHANGED <<waiting, sid>>
        /\ \A d \in Socket \ {c} : pc'[d] = pc[d]
    BY <1>5 DEF CheckStale, JoinReturns
  <2>2. \A d \in Socket : pc'[d] \in Claiming <=> pc[d] \in Claiming
    BY <2>1
  <2> QED BY <2>1, <2>2
<1>6. ASSUME NEW c \in Socket, CheckJoined(c) PROVE Accounted'
  <2>1. CASE IsAlive(stale[c])
    BY <1>6, <2>1, <1>4 DEF CheckJoined
  <2>2. CASE ~IsAlive(stale[c])
    <3>1. /\ pc[c] \in Claiming /\ pc'[c] \in Claiming /\ UNCHANGED <<waiting, sid>>
          /\ \A d \in Socket \ {c} : pc'[d] = pc[d]
      BY <1>6, <2>2 DEF CheckJoined
    <3>2. \A d \in Socket : pc'[d] \in Claiming <=> pc[d] \in Claiming
      BY <3>1
    <3> QED BY <3>1, <3>2
  <2> QED BY <2>1, <2>2
<1>7. ASSUME NEW c \in Socket, Reclaim(c) PROVE Accounted'
  BY <1>7, <1>4 DEF Reclaim
<1>8. ASSUME NEW c \in Socket, Disconnect(c) \/ CloseSocket(c) PROVE Accounted'
  <2>1. /\ pc[c] \notin Claiming /\ pc'[c] \notin Claiming /\ UNCHANGED <<waiting, sid>>
        /\ \A d \in Socket \ {c} : pc'[d] = pc[d]
    BY <1>8 DEF Disconnect, CloseSocket
  <2>2. \A d \in Socket : pc'[d] \in Claiming <=> pc[d] \in Claiming
    BY <2>1
  <2> QED BY <2>1, <2>2
<1>9. ASSUME NEW c \in Socket, StartRun(c) \/ CancelRun(c) \/ ReleaseRun(c) \/ ThreadExits(c)
      PROVE Accounted'
  <2>1. UNCHANGED <<pc, sid, waiting>>
    BY <1>9 DEF StartRun, CancelRun, ReleaseRun, ThreadExits
  <2> QED BY <2>1
<1> QED
  BY <1>1, <1>2, <1>3, <1>5, <1>6, <1>7, <1>8, <1>9 DEF Next

\* No path out of a claim leaks its slot in the join pool, and no id is waited for twice, for
\* any connections, ids and pool (web_runtime.py:231-262).
THEOREM WaitersCounted == Spec => []WaitersAccounted
<1>1. Init => Accounted
  BY DEF Init, Accounted, Claiming
<1>2. IInv /\ Accounted /\ [Next]_vars => Accounted'
  BY AccountedStep DEF IInv
<1>3. Accounted => WaitersAccounted
  BY DEF Accounted, WaitersAccounted
<1> QED BY <1>1, <1>2, <1>3, InductiveInvariant, PTL DEF Spec
=============================================================================
