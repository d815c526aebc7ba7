---------------------------- MODULE Usage_proofs ----------------------------
(***************************************************************************)
(* Proofs about the usage ledger. UsageLedger, for any number of calling   *)
(* threads, reconcile processes, calls and crashes: a billed call is       *)
(* counted once, and once more at most for each reconcile that could not   *)
(* read the ledger; unless an append tears, no held row that a reconcile   *)
(* read is forgiven; the two races the code has are shown to be the only   *)
(* ways to lose a spend or to pass the latch. QuestionCap, for             *)
(* any finite set of Sessions of any sizes, any cap, days and crashes: as  *)
(* long as a checkpoint that is there is read, the books cover every       *)
(* Session, and no Session of one day gets past the cap; and whatever is   *)
(* read, a day passes it by no more than was given back on that day.       *)
(***************************************************************************)
EXTENDS UsageLedger, QuestionCap, FiniteSetTheorems, TLAPS

\* A gate that may let a call through was entered with a call to spare, and a call
\* under way has a number.
CallsNumbered == \A t \in Caller : /\ pc[t] = "gate" => calls[t] < MaxCalls
                                   /\ pc[t] \in {"calling", "billed", "flush"} => calls[t] >= 1

\* The calls no file and no list can know of: not begun yet, or not recorded yet.
Unrecorded(t, n) == n > calls[t] \/ (n = calls[t] /\ pc[t] \in {"calling", "billed"})
Unknown(k) == rows[k] = 0 /\ k \notin replayed \cup sidecar \cup memory \cup readOnce
UnrecordedUnknown == \A t \in Caller, n \in 1..MaxCalls : Unrecorded(t, n) => Unknown(<<t, n>>)

\* A reconcile works under the ledger's write lock.
ReconcilesLocked == \A r \in Reconciler : rpc[r] # "idle" => lock = r

\* A fault in memory was never on disk: parking is for good.
MemoryNotParked == memory \cap (sidecar \cup readOnce) = {}

\* While a reconcile works, what it read is still parked, what it may still replay or keep
\* is of that, and what it may still append is not in the ledger, unless some reconcile
\* could not read it.
HeldStayParked == \A r \in Reconciler :
  /\ rpc[r] \in {"read", "replay"} => held[r] \subseteq sidecar /\ sidecar \cap readOnce \subseteq held[r]
  /\ rpc[r] = "replay" => /\ todo[r] \cup kept[r] \subseteq held[r]
                          /\ \A k \in todo[r] \ done[r] : rows[k] <= misreads

\* A held row that is in the ledger carries its fault id there.
HeldRowsMarked == \A k \in sidecar \cup memory : rows[k] >= 1 => k \in replayed

\* A second row of a call costs a reconcile that could not read the ledger.
RowsBounded == \A k \in Call : rows[k] <= 1 + misreads

AccountingInv == /\ TypeOK /\ CallsNumbered /\ UnrecordedUnknown /\ ReconcilesLocked
                 /\ MemoryNotParked /\ HeldStayParked /\ HeldRowsMarked /\ RowsBounded

\* Where no append tears: what a reconcile has told the ledger of, or will.
InLedger == {k \in Call : rows[k] >= 1}
ReplaysTold == \A r \in Reconciler : rpc[r] = "replay" =>
  /\ done[r] \subseteq replayed
  /\ held[r] \ unmeasured \subseteq todo[r] \cup kept[r] \cup InLedger
  /\ todo[r] = {} \/ kept[r] = {}
ToldInv == /\ torn = FALSE
           /\ replayed \subseteq InLedger
           /\ ReplaysTold
           /\ readOnce \ unmeasured \subseteq InLedger \cup sidecar

\* TypeOK with its two quantifiers over variables written out.
Types ==
  /\ ledgerOk \in BOOLEAN /\ sidecarOk \in BOOLEAN /\ torn \in BOOLEAN /\ proven \in BOOLEAN
  /\ rows \in [Call -> 0..(1 + MaxMisreads)]
  /\ pc \in [Caller -> {"idle", "gate", "refused", "calling", "billed", "flush"}]
  /\ calls \in [Caller -> 0..MaxCalls]
  /\ sawFault \in [Caller -> BOOLEAN]
  /\ lock \in Reconciler \cup {"nobody"}
  /\ rpc \in [Reconciler -> {"idle", "locked", "read", "replay", "rewrite"}]
  /\ crashes \in 0..MaxCrashes /\ misreads \in 0..MaxMisreads
  /\ replayed \in SUBSET Call /\ sidecar \in SUBSET Call /\ memory \in SUBSET Call
  /\ billed \in SUBSET Call /\ unmeasured \in SUBSET Call
  /\ forgotten \in SUBSET Call /\ readOnce \in SUBSET Call
  /\ held \in [Reconciler -> SUBSET Call] /\ todo \in [Reconciler -> SUBSET Call]
  /\ done \in [Reconciler -> SUBSET Call] /\ kept \in [Reconciler -> SUBSET Call]
  /\ latchedAt \in [Caller -> SUBSET Call]

LEMMA TypesAreTypeOK == (TypeOK <=> Types) /\ (TypeOK' <=> Types')
BY DEF TypeOK, Types

\* A call under way is a call.
LEMMA CurrentCallTyped ==
  ASSUME TypeOK, CallsNumbered, NEW t \in Caller, pc[t] \in {"calling", "billed", "flush"}
  PROVE  CurrentCall(t) \in Call
<1>1. calls[t] \in 1..MaxCalls
  BY BoundsAssumption DEF TypeOK, CallsNumbered
<1> QED BY <1>1 DEF CurrentCall, Call

\* A call the provider has not been told the row of is in no file and on no list.
LEMMA CurrentCallUnknown ==
  ASSUME AccountingInv, NEW t \in Caller, pc[t] \in {"calling", "billed"}
  PROVE  CurrentCall(t) \in Call /\ Unknown(CurrentCall(t))
<1>1. calls[t] \in 1..MaxCalls
  BY BoundsAssumption DEF AccountingInv, TypeOK, CallsNumbered
<1> QED BY <1>1 DEF AccountingInv, UnrecordedUnknown, Unrecorded, CurrentCall, Call

LEMMA AccountingInit == Init => AccountingInv
<1> SUFFICES ASSUME Init PROVE AccountingInv
  OBVIOUS
<1>1. TypeOK
  <2>1. /\ rows \in [Call -> 0..(1 + MaxMisreads)] /\ calls \in [Caller -> 0..MaxCalls] /\ crashes \in 0..MaxCrashes
        /\ misreads \in 0..MaxMisreads
        /\ pc \in [Caller -> {"idle", "gate", "refused", "calling", "billed", "flush"}]
        /\ sawFault \in [Caller -> BOOLEAN]
        /\ rpc \in [Reconciler -> {"idle", "locked", "read", "replay", "rewrite"}]
    BY BoundsAssumption DEF Init
  <2>2. /\ held \in [Reconciler -> SUBSET Call] /\ todo \in [Reconciler -> SUBSET Call]
        /\ done \in [Reconciler -> SUBSET Call] /\ kept \in [Reconciler -> SUBSET Call]
        /\ latchedAt \in [Caller -> SUBSET Call]
    BY DEF Init
  <2>3. /\ ledgerOk \in BOOLEAN /\ sidecarOk \in BOOLEAN /\ torn \in BOOLEAN /\ proven \in BOOLEAN
        /\ lock \in Reconciler \cup {"nobody"}
        /\ \A s \in {replayed, sidecar, memory, billed, unmeasured, forgotten, readOnce} : s = {}
    BY DEF Init
  <2> QED BY <2>1, <2>2, <2>3 DEF TypeOK
<1>2. CallsNumbered /\ ReconcilesLocked /\ MemoryNotParked /\ HeldStayParked /\ HeldRowsMarked
      /\ RowsBounded
  BY BoundsAssumption DEF Init, CallsNumbered, ReconcilesLocked, MemoryNotParked, HeldStayParked, HeldRowsMarked, RowsBounded
<1>3. UnrecordedUnknown
  BY DEF Init, UnrecordedUnknown, Unknown, Call
<1> QED BY <1>1, <1>2, <1>3 DEF AccountingInv
-----------------------------------------------------------------------------
(* The callers' steps.                                                     *)

\* A step of the gate moves one caller; a call it lets through is the next one.
LEMMA GateKeepsAccounts ==
  ASSUME AccountingInv, NEW t \in Caller, GateReadsSidecar(t) \/ GateReadsMemory(t)
  PROVE  AccountingInv'
<1> USE BoundsAssumption DEF AccountingInv, GateReadsSidecar, GateReadsMemory, Step
<1>t. Types
  BY TypesAreTypeOK
<1>u. UNCHANGED <<rows, replayed, torn, sidecar, memory, readOnce, misreads, rpc, lock, held, todo, done, kept>>
  BY DEF files, reconcilers
<1>1. TypeOK'
  <2>1. CASE GateReadsSidecar(t)
    BY <1>t, <2>1, TypesAreTypeOK DEF Types, files, reconcilers, Call
  <2>2. CASE GateReadsMemory(t)
    <3>1. calls' \in [Caller -> 0..MaxCalls]
      BY <1>t, <2>2 DEF Types, CallsNumbered
    <3> QED BY <1>t, <2>2, <3>1, TypesAreTypeOK DEF Types, files, reconcilers, Call
  <2> QED BY <2>1, <2>2
<1>2. CallsNumbered'
  BY <1>t DEF Types, CallsNumbered
<1>3. UnrecordedUnknown'
  <2> SUFFICES ASSUME NEW u \in Caller, NEW n \in 1..MaxCalls, Unrecorded(u, n)'
               PROVE  Unrecorded(u, n)
    BY <1>u DEF UnrecordedUnknown, Unknown
  <2> QED BY <1>t DEF Types, Unrecorded
<1>4. (ReconcilesLocked /\ MemoryNotParked /\ HeldStayParked /\ HeldRowsMarked /\ RowsBounded)'
  BY <1>u DEF ReconcilesLocked, MemoryNotParked, HeldStayParked, HeldRowsMarked, RowsBounded
<1> QED BY <1>1, <1>2, <1>3, <1>4

\* Parking moves memory's faults to the sidecar, where none of them has been.
LEMMA FlushKeepsAccounts ==
  ASSUME AccountingInv, NEW t \in Caller, Refuse(t) \/ ParkFault(t)
  PROVE  AccountingInv'
<1> USE BoundsAssumption DEF AccountingInv, Refuse, ParkFault, Step
<1>t. Types
  BY TypesAreTypeOK
<1>u. UNCHANGED <<rows, replayed, calls, readOnce, misreads, rpc, lock, held, todo, done, kept>>
  BY DEF reconcilers
<1>m. /\ sidecar' \cup memory' = sidecar \cup memory
      /\ sidecar \subseteq sidecar' /\ memory' \subseteq memory
      /\ memory' = {} \/ sidecar' = sidecar
  BY DEF FlushFaults
<1>1. TypeOK'
  <2>1. sidecar' \in SUBSET Call /\ memory' \in SUBSET Call
    BY <1>t, <1>m DEF Types
  <2> QED BY <1>t, <2>1, TypesAreTypeOK DEF Types, reconcilers, Call
<1>2. CallsNumbered'
  BY <1>t, <1>u DEF Types, CallsNumbered
<1>3. UnrecordedUnknown'
  BY <1>t, <1>u, <1>m DEF Types, UnrecordedUnknown, Unrecorded, Unknown
<1>4. ReconcilesLocked' /\ HeldRowsMarked' /\ RowsBounded'
  BY <1>u, <1>m DEF ReconcilesLocked, HeldRowsMarked, RowsBounded
<1>5. MemoryNotParked'
  BY <1>u, <1>m DEF MemoryNotParked
<1>6. HeldStayParked'
  BY <1>u, <1>m DEF HeldStayParked, MemoryNotParked
<1> QED BY <1>1, <1>2, <1>3, <1>4, <1>5, <1>6

LEMMA AnswerKeepsAccounts ==
  ASSUME AccountingInv, NEW t \in Caller, ProviderAnswers(t)
  PROVE  AccountingInv'
<1> USE BoundsAssumption DEF AccountingInv, ProviderAnswers, Step
<1>t. Types /\ CurrentCall(t) \in Call
  BY TypesAreTypeOK, CurrentCallUnknown
<1>u. UNCHANGED <<rows, replayed, sidecar, memory, calls, readOnce, misreads, rpc, lock, held, todo, done, kept>>
  BY DEF reconcilers, files
<1>1. TypeOK'
  BY <1>t, TypesAreTypeOK DEF Types, reconcilers, files, Call
<1>2. CallsNumbered'
  BY <1>t, <1>u DEF Types, CallsNumbered
<1>3. UnrecordedUnknown'
  BY <1>t, <1>u DEF Types, UnrecordedUnknown, Unrecorded, Unknown
<1>4. (ReconcilesLocked /\ MemoryNotParked /\ HeldStayParked /\ HeldRowsMarked /\ RowsBounded)'
  BY <1>u DEF ReconcilesLocked, MemoryNotParked, HeldStayParked, HeldRowsMarked, RowsBounded
<1> QED BY <1>1, <1>2, <1>3, <1>4

\* The row or the fault of a call nothing knew of: the call is recorded afterwards.
LEMMA RecordKeepsAccounts ==
  ASSUME AccountingInv, NEW t \in Caller, RecordUsage(t)
  PROVE  AccountingInv'
<1> USE BoundsAssumption DEF AccountingInv
<1> DEFINE k == CurrentCall(t)
<1>p. pc[t] = "billed" /\ pc' \in {[pc EXCEPT ![t] = "idle"], [pc EXCEPT ![t] = "flush"]}
  BY DEF RecordUsage, Step, Latch
<1>k. k \in Call /\ Unknown(k)
  BY <1>p, CurrentCallUnknown
<1>t. Types
  BY TypesAreTypeOK
<1>u. UNCHANGED <<ledgerOk, sidecarOk, replayed, sidecar, proven, calls, sawFault, latchedAt, billed,
                  unmeasured, readOnce, misreads, rpc, lock, held, todo, done, kept, crashes, forgotten>>
  BY DEF RecordUsage, reconcilers
<1>r. \/ rows' \in {rows, [rows EXCEPT ![k] = @ + 1]} /\ memory' = memory
      \/ rows' = rows /\ memory' = memory \cup {k}
  BY DEF RecordUsage, Latch, AppendRow, AppendFails, Recorded
<1>n. torn' \in BOOLEAN
  BY <1>t DEF Types, RecordUsage, AppendRow, AppendFails, Recorded
<1> HIDE DEF k
<1>0. rows[k] = 0 /\ k \notin replayed \cup sidecar \cup memory \cup readOnce
  BY <1>k DEF Unknown
<1>1. TypeOK'
  <2>1. rows' \in [Call -> 0..(1 + MaxMisreads)]
    BY <1>0, <1>k, <1>t, <1>r DEF Types
  <2>2. memory' \in SUBSET Call /\ pc' \in [Caller -> {"idle", "gate", "refused", "calling", "billed", "flush"}]
    BY <1>k, <1>t, <1>r, <1>p DEF Types
  <2> QED BY <1>t, <1>u, <1>n, <2>1, <2>2, TypesAreTypeOK DEF Types, Call
<1>2. CallsNumbered'
  BY <1>t, <1>u, <1>p DEF Types, CallsNumbered
<1>3. UnrecordedUnknown'
  <2> SUFFICES ASSUME NEW u \in Caller, NEW n \in 1..MaxCalls, Unrecorded(u, n)'
               PROVE  Unknown(<<u, n>>)'
    BY DEF UnrecordedUnknown
  <2>1. Unrecorded(u, n) /\ <<u, n>> # k
    <3>1. CASE u = t
      BY <3>1, <1>t, <1>u, <1>p DEF Types, Unrecorded, k, CurrentCall
    <3>2. CASE u # t
      BY <3>2, <1>t, <1>u, <1>p DEF Types, Unrecorded, k, CurrentCall
    <3> QED BY <3>1, <3>2
  <2>2. Unknown(<<u, n>>) /\ <<u, n>> \in Call
    BY <2>1 DEF UnrecordedUnknown, Call
  <2> QED BY <2>1, <2>2, <1>t, <1>u, <1>r DEF Unknown, Types
<1>4. ReconcilesLocked' /\ HeldStayParked'
  <2>1. \A j \in sidecar : rows'[j] = rows[j]
    BY <1>0, <1>k, <1>t, <1>r DEF Types
  <2> QED BY <2>1, <1>u DEF ReconcilesLocked, HeldStayParked
<1>5. MemoryNotParked'
  BY <1>0, <1>u, <1>r DEF MemoryNotParked
<1>6. HeldRowsMarked' /\ RowsBounded'
  BY <1>0, <1>k, <1>t, <1>u, <1>r DEF HeldRowsMarked, RowsBounded, Types
<1> QED BY <1>1, <1>2, <1>3, <1>4, <1>5, <1>6

LEMMA CrashKeepsAccounts ==
  ASSUME AccountingInv, CrashCallers \/ Repair
  PROVE  AccountingInv'
<1> USE BoundsAssumption DEF AccountingInv
<1>t. Types
  BY TypesAreTypeOK
<1>u. /\ UNCHANGED <<rows, replayed, torn, sidecar, calls, readOnce, misreads, rpc, lock, held, todo, done, kept>>
      /\ memory' \subseteq memory
      /\ pc' \in {pc, [t \in Caller |-> "idle"]}
  BY DEF CrashCallers, Repair, reconcilers, files, callers
<1>1. TypeOK'
  <2>1. CASE CrashCallers
    <3>1. forgotten' \in SUBSET Call
      <4>1. \A t \in {u \in Caller : pc[u] \in {"calling", "billed"}} : CurrentCall(t) \in Call
        BY CurrentCallUnknown
      <4> QED BY <4>1, <1>t, <2>1 DEF CrashCallers, Types
    <3>2. crashes' \in 0..MaxCrashes
      BY <1>t, <2>1 DEF CrashCallers, Types
    <3> QED BY <1>t, <2>1, <3>1, <3>2, TypesAreTypeOK DEF CrashCallers, Types, reconcilers, files, Call
  <2>2. CASE Repair
    BY <1>t, <2>2, TypesAreTypeOK DEF Repair, Types, reconcilers, callers, Call
  <2> QED BY <2>1, <2>2
<1>2. CallsNumbered'
  BY <1>t, <1>u DEF Types, CallsNumbered
<1>3. UnrecordedUnknown'
  BY <1>t, <1>u DEF Types, UnrecordedUnknown, Unrecorded, Unknown
<1>4. (ReconcilesLocked /\ MemoryNotParked /\ HeldStayParked /\ HeldRowsMarked /\ RowsBounded)'
  BY <1>u DEF ReconcilesLocked, MemoryNotParked, HeldStayParked, HeldRowsMarked, RowsBounded
<1> QED BY <1>1, <1>2, <1>3, <1>4
-----------------------------------------------------------------------------
(* The reconciles' steps: the lock makes the one that works the only one.  *)

LEMMA OthersIdle ==
  ASSUME ReconcilesLocked, NEW r \in Reconciler, lock = "nobody" \/ rpc[r] # "idle"
  PROVE  \A q \in Reconciler : q # r => rpc[q] = "idle"
BY LockAssumption DEF ReconcilesLocked

\* Taking the lock and dying release or take it, and touch no file.
LEMMA LockKeepsAccounts ==
  ASSUME AccountingInv, NEW r \in Reconciler, TakeLock(r) \/ CrashReconcile(r)
  PROVE  AccountingInv'
<1> USE BoundsAssumption DEF AccountingInv, TakeLock, CrashReconcile, RStep
<1>t. Types
  BY TypesAreTypeOK
<1>o. \A q \in Reconciler : q # r => rpc[q] = "idle"
  BY OthersIdle
<1>u. UNCHANGED <<rows, replayed, torn, sidecar, memory, pc, calls, readOnce, misreads, held, todo, done, kept>>
  BY DEF files, callers
<1>1. TypeOK'
  <2>1. crashes' \in 0..MaxCrashes
    BY <1>t DEF Types
  <2> QED BY <1>t, <2>1, TypesAreTypeOK DEF Types, files, callers, Call
<1>2. CallsNumbered' /\ UnrecordedUnknown' /\ MemoryNotParked' /\ HeldRowsMarked' /\ RowsBounded'
  BY <1>u DEF CallsNumbered, UnrecordedUnknown, Unrecorded, Unknown, MemoryNotParked, HeldRowsMarked, RowsBounded
<1>3. ReconcilesLocked'
  BY <1>t, <1>o DEF Types, ReconcilesLocked
<1>4. HeldStayParked'
  BY <1>t, <1>u, <1>o DEF Types, HeldStayParked
<1> QED BY <1>1, <1>2, <1>3, <1>4

LEMMA ReadFaultsKeepsAccounts ==
  ASSUME AccountingInv, NEW r \in Reconciler, ReadFaults(r)
  PROVE  AccountingInv'
<1> USE BoundsAssumption DEF AccountingInv, ReadFaults, RStep
<1>t. Types
  BY TypesAreTypeOK
<1>o. \A q \in Reconciler : q # r => rpc[q] = "idle"
  BY OthersIdle
<1>u. UNCHANGED <<rows, replayed, torn, sidecar, memory, pc, calls, misreads, todo, done, kept>>
  BY DEF files, callers
<1>1. TypeOK'
  BY <1>t, TypesAreTypeOK DEF Types, files, callers, Call
<1>2. CallsNumbered' /\ UnrecordedUnknown' /\ MemoryNotParked' /\ HeldRowsMarked' /\ RowsBounded'
  BY <1>u DEF CallsNumbered, UnrecordedUnknown, Unrecorded, Unknown, MemoryNotParked, HeldRowsMarked, RowsBounded
<1>3. ReconcilesLocked'
  BY <1>t, <1>o DEF Types, ReconcilesLocked
<1>4. HeldStayParked'
  BY <1>t, <1>u, <1>o DEF Types, HeldStayParked
<1> QED BY <1>1, <1>2, <1>3, <1>4

\* What the ledger told of is not replayed; a ledger that told of nothing is one misread more.
LEMMA ReadLedgerKeepsAccounts ==
  ASSUME AccountingInv, NEW r \in Reconciler, ReadLedger(r)
  PROVE  AccountingInv'
<1> USE BoundsAssumption DEF AccountingInv, ReadLedger, RStep
<1>t. Types
  BY TypesAreTypeOK
<1>o. \A q \in Reconciler : q # r => rpc[q] = "idle"
  BY OthersIdle
<1>u. UNCHANGED <<rows, replayed, torn, sidecar, memory, pc, calls, readOnce, lock, held>>
  BY DEF files, callers
<1>m. \/ done' = [done EXCEPT ![r] = replayed] /\ misreads' = misreads
      \/ done' = [done EXCEPT ![r] = {}] /\ misreads' = misreads + 1 /\ misreads < MaxMisreads
  BY DEF ReadReplayed, FindsReplayed
<1>n. misreads' \in 0..MaxMisreads /\ misreads \in Nat /\ misreads <= misreads'
  BY <1>t, <1>m DEF Types
<1>1. TypeOK'
  <2>1. done' \in [Reconciler -> SUBSET Call]
    BY <1>t, <1>m DEF Types
  <2> QED BY <1>t, <1>n, <2>1, TypesAreTypeOK DEF Types, files, callers, Call
<1>2. CallsNumbered' /\ UnrecordedUnknown' /\ MemoryNotParked' /\ HeldRowsMarked'
  BY <1>u DEF CallsNumbered, UnrecordedUnknown, Unrecorded, Unknown, MemoryNotParked, HeldRowsMarked
<1>3. RowsBounded'
  BY <1>u, <1>n, <1>t DEF RowsBounded, Types
<1>4. ReconcilesLocked'
  BY <1>t, <1>u DEF Types, ReconcilesLocked
<1>5. HeldStayParked'
  <2>1. \A k \in held[r] \ done'[r] : rows[k] <= misreads'
    <3> SUFFICES ASSUME NEW k \in held[r] \ done'[r] PROVE rows[k] <= misreads'
      OBVIOUS
    <3>1. k \in sidecar /\ k \in Call /\ rows[k] \in Nat /\ rows[k] <= 1 + misreads
      BY <1>t DEF Types, HeldStayParked, RowsBounded
    <3>2. k \notin replayed => rows[k] = 0
      BY <3>1 DEF HeldRowsMarked
    <3>3. k \notin replayed \/ misreads' = misreads + 1
      BY <1>m, <1>t DEF Types
    <3> QED BY <3>1, <3>2, <3>3, <1>n
  <2>2. \A q \in Reconciler : q # r => rpc'[q] = "idle"
    BY <1>t, <1>o DEF Types
  <2>3. rpc[r] = "read" /\ todo'[r] \subseteq held[r] /\ kept'[r] = {}
    BY <1>t DEF Types
  <2> QED BY <1>u, <2>1, <2>2, <2>3 DEF HeldStayParked
<1> QED BY <1>1, <1>2, <1>3, <1>4, <1>5

\* A replayed row is one that no earlier replay wrote, unless the ledger was not read.
LEMMA ReplayKeepsAccounts ==
  ASSUME AccountingInv, NEW r \in Reconciler, NEW k \in Call, ReplayRow(r, k)
  PROVE  AccountingInv'
<1> USE BoundsAssumption DEF AccountingInv
<1>t. Types
  BY TypesAreTypeOK
<1>u. UNCHANGED <<ledgerOk, sidecarOk, sidecar, memory, proven, pc, calls, sawFault, latchedAt, billed,
                  unmeasured, readOnce, misreads, lock, rpc, held, crashes, forgotten>>
  BY DEF ReplayRow, callers
<1>k. rpc[r] = "replay" /\ k \in todo[r] /\ k \in sidecar /\ k \notin memory
  BY DEF ReplayRow, HeldStayParked, MemoryNotParked
<1>o. \A q \in Reconciler : q # r => rpc[q] = "idle"
  BY <1>k, OthersIdle
<1>d. /\ replayed' \in {replayed, replayed \cup {k}}
      /\ \/ done' = done /\ replayed' = replayed
         \/ done' = [done EXCEPT ![r] = @ \cup {k}]
      /\ todo' \in {[todo EXCEPT ![r] = @ \ {k}], [todo EXCEPT ![r] = {}]}
      /\ kept' \in {kept, [kept EXCEPT ![r] = todo[r]]}
  BY DEF ReplayRow
<1>r. \/ rows' = rows
      \/ rows[k] <= misreads /\ rows' = [rows EXCEPT ![k] = @ + 1] /\ replayed' = replayed \cup {k}
  <2>1. k \notin done[r] => rows[k] <= misreads
    BY <1>k DEF HeldStayParked
  <2> QED BY <2>1 DEF ReplayRow, AppendRow, AppendFails, Recorded
<1>n. torn' \in BOOLEAN
  BY <1>t DEF Types, ReplayRow, AppendRow, AppendFails, Recorded
<1>1. TypeOK'
  <2>1. rows' \in [Call -> 0..(1 + MaxMisreads)]
    BY <1>t, <1>r DEF Types
  <2>2. replayed' \in SUBSET Call /\ done' \in [Reconciler -> SUBSET Call]
    BY <1>t, <1>d DEF Types
  <2>3. todo' \in [Reconciler -> SUBSET Call] /\ kept' \in [Reconciler -> SUBSET Call]
    BY <1>t, <1>d DEF Types
  <2> QED BY <1>t, <1>u, <1>n, <2>1, <2>2, <2>3, TypesAreTypeOK DEF Types, Call
<1>2. CallsNumbered' /\ ReconcilesLocked' /\ MemoryNotParked'
  BY <1>u DEF CallsNumbered, ReconcilesLocked, MemoryNotParked
<1>3. UnrecordedUnknown'
  <2> SUFFICES ASSUME NEW t \in Caller, NEW n \in 1..MaxCalls, Unrecorded(t, n)
               PROVE  Unknown(<<t, n>>)'
    BY <1>u DEF UnrecordedUnknown, Unrecorded
  <2>1. Unknown(<<t, n>>) /\ <<t, n>> \in Call /\ <<t, n>> # k
    BY <1>k DEF UnrecordedUnknown, Unknown, Call
  <2> QED BY <2>1, <1>t, <1>u, <1>d, <1>r DEF Unknown, Types
<1>4. HeldStayParked'
  <2> SUFFICES ASSUME NEW q \in Reconciler, rpc[q] \in {"read", "replay"}
               PROVE  (/\ held[q] \subseteq sidecar /\ sidecar \cap readOnce \subseteq held[q]
                       /\ rpc[q] = "replay" => /\ todo[q] \cup kept[q] \subseteq held[q]
                                               /\ \A j \in todo[q] \ done[q] : rows[j] <= misreads)'
    BY <1>u DEF HeldStayParked
  <2>1. q = r
    BY <1>o
  <2>2. todo'[r] \subseteq todo[r] /\ kept'[r] \subseteq kept[r] \cup todo[r]
    BY <1>t, <1>d DEF Types
  <2>3. \A j \in todo'[r] \ done'[r] : j \in todo[r] \ done[r] /\ rows'[j] = rows[j]
    BY <1>t, <1>k DEF Types, ReplayRow, AppendRow, AppendFails, Recorded
  <2> QED BY <2>1, <2>2, <2>3, <1>u, <1>k DEF HeldStayParked
<1>5. HeldRowsMarked' /\ RowsBounded'
  BY <1>t, <1>u, <1>d, <1>r DEF HeldRowsMarked, RowsBounded, Types
<1> QED BY <1>1, <1>2, <1>3, <1>4, <1>5

\* The rewrite keeps on the sidecar only what it read there.
LEMMA RewriteKeepsAccounts ==
  ASSUME AccountingInv, NEW r \in Reconciler, RewriteSidecar(r)
  PROVE  AccountingInv'
<1> USE BoundsAssumption DEF AccountingInv, RewriteSidecar, RStep
<1>t. Types
  BY TypesAreTypeOK
<1>o. \A q \in Reconciler : q # r => rpc[q] = "idle"
  BY OthersIdle
<1>u. UNCHANGED <<rows, replayed, torn, memory, pc, calls, readOnce, misreads, held, todo, done, kept>>
  BY DEF callers
<1>s. sidecar' \subseteq sidecar
  BY DEF KeepUnreplayed, HeldStayParked
<1>1. TypeOK'
  <2>1. sidecar' \in SUBSET Call
    BY <1>t, <1>s DEF Types
  <2> QED BY <1>t, <2>1, TypesAreTypeOK DEF Types, callers, Call
<1>2. CallsNumbered' /\ UnrecordedUnknown' /\ MemoryNotParked' /\ HeldRowsMarked' /\ RowsBounded'
  BY <1>u, <1>s DEF CallsNumbered, UnrecordedUnknown, Unrecorded, Unknown, MemoryNotParked, HeldRowsMarked, RowsBounded
<1>3. ReconcilesLocked'
  BY <1>t, <1>o DEF Types, ReconcilesLocked
<1>4. HeldStayParked'
  BY <1>t, <1>o DEF Types, HeldStayParked
<1> QED BY <1>1, <1>2, <1>3, <1>4

LEMMA AccountingStep == AccountingInv /\ [Next]_vars => AccountingInv'
<1> SUFFICES ASSUME AccountingInv, [Next]_vars PROVE AccountingInv'
  OBVIOUS
<1>1. CASE Repair \/ CrashCallers
  BY <1>1, CrashKeepsAccounts
<1>2. ASSUME NEW t \in Caller,
             \/ GateReadsSidecar(t) \/ GateReadsMemory(t) \/ Refuse(t)
             \/ ProviderAnswers(t) \/ RecordUsage(t) \/ ParkFault(t)
      PROVE  AccountingInv'
  BY <1>2, GateKeepsAccounts, FlushKeepsAccounts, AnswerKeepsAccounts, RecordKeepsAccounts
<1>3. ASSUME NEW r \in Reconciler,
             \/ TakeLock(r) \/ ReadFaults(r) \/ ReadLedger(r) \/ (\E k \in Call : ReplayRow(r, k))
             \/ RewriteSidecar(r) \/ CrashReconcile(r)
      PROVE  AccountingInv'
  BY <1>3, LockKeepsAccounts, ReadFaultsKeepsAccounts, ReadLedgerKeepsAccounts,
     ReplayKeepsAccounts, RewriteKeepsAccounts
<1>4. CASE UNCHANGED vars
  BY <1>4 DEF vars, files, callers, reconcilers, AccountingInv, TypeOK, CallsNumbered, UnrecordedUnknown,
              Unrecorded, Unknown, ReconcilesLocked, MemoryNotParked, HeldStayParked, HeldRowsMarked,
              RowsBounded
<1> QED BY <1>1, <1>2, <1>3, <1>4 DEF Next

\* The accounting invariant holds in every reachable state of every thread and reconcile.
THEOREM AccountsKept == Spec => []AccountingInv
BY AccountingInit, AccountingStep, PTL DEF Spec

\* A billed call is counted once, and once more at most for each reconcile that could not
\* read the ledger, whatever is retried, replayed, torn or killed; and a row with no fault
\* id is no longer held anywhere.
THEOREM CountedOnce == Spec => []SpendCountedOnce
<1>1. AccountingInv => SpendCountedOnce
  BY DEF AccountingInv, TypeOK, HeldRowsMarked, RowsBounded, SpendCountedOnce
<1> QED BY <1>1, AccountsKept, PTL

\* Every variable keeps the type UsageLedger gives it.
THEOREM TypeCorrect == Spec => []TypeOK
<1>1. AccountingInv => TypeOK
  BY DEF AccountingInv
<1> QED BY <1>1, AccountsKept, PTL
-----------------------------------------------------------------------------
(* Nothing forgiven: appends that write all of a line or none of it.       *)

\* A step that only adds to the sidecar and to what has no cost forgives nothing.
LEMMA AddingKeepsTold ==
  ASSUME ToldInv,
         UNCHANGED <<rows, replayed, torn, readOnce, rpc, held, todo, done, kept>>,
         sidecar \subseteq sidecar', unmeasured \subseteq unmeasured'
  PROVE  ToldInv'
BY DEF ToldInv, ReplaysTold, InLedger

LEMMA RecordKeepsTold ==
  ASSUME AccountingInv, ToldInv, ~MayTear, NEW t \in Caller, RecordUsage(t)
  PROVE  ToldInv'
<1> DEFINE k == CurrentCall(t)
<1>t. Types
  BY TypesAreTypeOK DEF AccountingInv
<1>1. rows[k] = 0 /\ k \in Call
  BY CurrentCallUnknown DEF RecordUsage, Step, Latch, Unknown
<1>2. rows' = rows \/ rows' = [rows EXCEPT ![k] = @ + 1]
  BY DEF RecordUsage, AppendRow, AppendFails, Recorded
<1>3. torn' = FALSE
  BY DEF RecordUsage, AppendRow, AppendFails, Recorded, ToldInv
<1> HIDE DEF k
<1>4. InLedger \subseteq InLedger'
  BY <1>t, <1>1, <1>2 DEF InLedger, Types
<1>5. UNCHANGED <<replayed, sidecar, unmeasured, readOnce, rpc, held, todo, done, kept>>
  BY DEF RecordUsage, reconcilers
<1> QED BY <1>3, <1>4, <1>5 DEF ToldInv, ReplaysTold

\* A replay that is cut short is begun again from what the ledger tells.
LEMMA StartsKeepTold ==
  ASSUME AccountingInv, ToldInv, NEW r \in Reconciler,
         TakeLock(r) \/ CrashReconcile(r) \/ ReadFaults(r) \/ ReadLedger(r)
  PROVE  ToldInv'
<1>t. Types
  BY TypesAreTypeOK DEF AccountingInv
<1>u. UNCHANGED <<rows, replayed, torn, sidecar, unmeasured>>
  BY DEF TakeLock, CrashReconcile, ReadFaults, ReadLedger, files, callers
<1>1. readOnce' \subseteq readOnce \cup sidecar
  BY DEF TakeLock, CrashReconcile, ReadFaults, ReadLedger
<1>2. ReplaysTold'
  <2>1. \A q \in Reconciler \ {r} : /\ rpc'[q] = rpc[q] /\ held'[q] = held[q] /\ todo'[q] = todo[q]
                                    /\ done'[q] = done[q] /\ kept'[q] = kept[q]
    BY <1>t DEF Types, TakeLock, CrashReconcile, ReadFaults, ReadLedger, ReadReplayed, FindsReplayed, RStep
  <2>2. CASE ReadLedger(r)
    <3>1. /\ done'[r] \subseteq replayed /\ todo'[r] = held[r] \ unmeasured /\ kept'[r] = {}
          /\ held'[r] = held[r]
      BY <2>2, <1>t DEF Types, ReadLedger, ReadReplayed, FindsReplayed
    <3> QED BY <3>1, <2>1, <1>u DEF ToldInv, ReplaysTold, InLedger
  <2>3. CASE ~ReadLedger(r)
    <3>1. rpc'[r] # "replay"
      BY <2>3, <1>t DEF Types, TakeLock, CrashReconcile, ReadFaults, RStep
    <3> QED BY <3>1, <2>1, <1>u DEF ToldInv, ReplaysTold, InLedger
  <2> QED BY <2>2, <2>3
<1> QED BY <1>u, <1>1, <1>2 DEF ToldInv, InLedger

LEMMA ReplayKeepsTold ==
  ASSUME AccountingInv, ToldInv, ~MayTear, NEW r \in Reconciler, NEW k \in Call, ReplayRow(r, k)
  PROVE  ToldInv'
<1>t. Types
  BY TypesAreTypeOK DEF AccountingInv
<1>u. UNCHANGED <<sidecar, unmeasured, readOnce, rpc, held>>
  BY DEF ReplayRow, callers
<1>k. rpc[r] = "replay" /\ k \in todo[r] /\ done[r] \subseteq replayed /\ kept[r] = {}
  BY DEF ReplayRow, ToldInv, ReplaysTold
<1>o. \A q \in Reconciler : q # r => rpc[q] = "idle"
  BY <1>k, OthersIdle DEF AccountingInv
<1>n. torn = FALSE /\ torn' = FALSE
  BY DEF ReplayRow, AppendRow, AppendFails, Recorded, ToldInv
<1>1. \* already in the ledger, or appended, or the rest kept
      \/ /\ k \in replayed /\ UNCHANGED <<rows, replayed, done, kept>>
         /\ todo' = [todo EXCEPT ![r] = @ \ {k}]
      \/ /\ rows' = [rows EXCEPT ![k] = @ + 1] /\ replayed' = replayed \cup {k}
         /\ done' = [done EXCEPT ![r] = @ \cup {k}]
         /\ todo' = [todo EXCEPT ![r] = @ \ {k}] /\ UNCHANGED kept
      \/ /\ UNCHANGED <<rows, replayed, done>>
         /\ kept' = [kept EXCEPT ![r] = todo[r]] /\ todo' = [todo EXCEPT ![r] = {}]
  BY <1>k, <1>n DEF ReplayRow, AppendRow, AppendFails, Recorded
<1>2. /\ InLedger \subseteq InLedger' /\ replayed' \subseteq InLedger'
      /\ k \in InLedger' \/ kept'[r] = todo[r]
  BY <1>1, <1>t DEF Types, InLedger, ToldInv
<1>3. done'[r] \subseteq replayed'
  BY <1>1, <1>k, <1>t DEF Types
<1>4. /\ todo[r] \subseteq todo'[r] \cup kept'[r] \cup InLedger'
      /\ todo'[r] = {} \/ kept'[r] = {}
  BY <1>1, <1>2, <1>k, <1>t DEF Types
<1>5. ReplaysTold'
  BY <1>2, <1>3, <1>4, <1>u, <1>o, <1>k DEF ToldInv, ReplaysTold
<1> QED BY <1>n, <1>2, <1>5, <1>u DEF ToldInv

LEMMA RewriteKeepsTold ==
  ASSUME AccountingInv, ToldInv, NEW r \in Reconciler, RewriteSidecar(r)
  PROVE  ToldInv'
<1>t. Types
  BY TypesAreTypeOK DEF AccountingInv
<1>u. UNCHANGED <<rows, replayed, torn, unmeasured, readOnce, held, todo, done, kept>>
  BY DEF RewriteSidecar, callers
<1>1. rpc[r] = "replay" /\ todo[r] = {} /\ (sidecar' = sidecar \/ sidecar' = kept[r])
  BY DEF RewriteSidecar, RStep, KeepUnreplayed
<1>2. (sidecar \cap readOnce) \ unmeasured \subseteq kept[r] \cup InLedger
  BY <1>1 DEF AccountingInv, HeldStayParked, ToldInv, ReplaysTold
<1>3. ReplaysTold'
  BY <1>t, <1>u DEF Types, RewriteSidecar, RStep, ToldInv, ReplaysTold, InLedger
<1> QED BY <1>1, <1>2, <1>3, <1>u DEF ToldInv, InLedger

LEMMA ToldStep ==
  ASSUME ~MayTear PROVE AccountingInv /\ ToldInv /\ [Next]_vars => ToldInv'
<1> SUFFICES ASSUME AccountingInv, ToldInv, [Next]_vars PROVE ToldInv'
  OBVIOUS
<1>1. CASE Repair \/ CrashCallers \/ UNCHANGED vars
  BY <1>1, AddingKeepsTold DEF Repair, CrashCallers, vars, files, callers, reconcilers
<1>2. ASSUME NEW t \in Caller,
             \/ GateReadsSidecar(t) \/ GateReadsMemory(t) \/ Refuse(t)
             \/ ProviderAnswers(t) \/ RecordUsage(t) \/ ParkFault(t)
      PROVE  ToldInv'
  <2>1. CASE GateReadsSidecar(t) \/ GateReadsMemory(t)
    BY <2>1, AddingKeepsTold DEF GateReadsSidecar, GateReadsMemory, files, reconcilers
  <2>2. CASE Refuse(t) \/ ParkFault(t)
    BY <2>2, AddingKeepsTold DEF Refuse, ParkFault, FlushFaults, reconcilers
  <2>3. CASE ProviderAnswers(t)
    BY <2>3, AddingKeepsTold DEF ProviderAnswers, files, reconcilers
  <2> QED BY <1>2, <2>1, <2>2, <2>3, RecordKeepsTold
<1>3. ASSUME NEW r \in Reconciler,
             \/ TakeLock(r) \/ ReadFaults(r) \/ ReadLedger(r) \/ (\E k \in Call : ReplayRow(r, k))
             \/ RewriteSidecar(r) \/ CrashReconcile(r)
      PROVE  ToldInv'
  BY <1>3, StartsKeepTold, ReplayKeepsTold, RewriteKeepsTold
<1> QED BY <1>1, <1>2, <1>3 DEF Next

\* "Reconciliation replays rather than forgives" (usage.py:784): where a failing append
\* leaves no part of a line, a held row that a reconcile has read is in the ledger or
\* held still, however often appends fail, reconciles die and faults are parked meanwhile.
THEOREM NothingForgiven == ASSUME ~MayTear PROVE Spec => []ReplayedNotForgiven
<1>1. Init => ToldInv
  BY DEF Init, ToldInv, ReplaysTold, InLedger
<1>2. AccountingInv /\ ToldInv /\ [Next]_vars => (AccountingInv /\ ToldInv)'
  BY AccountingStep, ToldStep
<1>3. ToldInv => ReplayedNotForgiven
  BY DEF ToldInv, InLedger, ReplayedNotForgiven
<1> QED BY <1>1, <1>2, <1>3, AccountingInit, PTL DEF Spec
-----------------------------------------------------------------------------
(* Nothing lost: appends that write all of a line or none of it, and no    *)
(* fault parked under a reconcile.                                         *)

\* What a reconcile has read is all that is parked.
HeldIsAll == \A r \in Reconciler : rpc[r] \in {"read", "replay"} => sidecar \subseteq held[r]

BeingWritten == {CurrentCall(t) : t \in {u \in Caller : pc[u] = "billed"}}
Lost == billed \ (forgotten \cup unmeasured \cup InLedger \cup sidecar \cup memory \cup BeingWritten)

SpendInv == AccountingInv /\ ToldInv /\ HeldIsAll /\ Lost = {}

LEMMA SpendInvCovers == SpendInv => SpendAccounted
BY DEF SpendInv, Lost, SpendAccounted, InLedger, BeingWritten

\* A reconcile starts from the whole sidecar, which then only shrinks.
LEMMA HeldStaysAll ==
  ASSUME SpendInv, [Next]_vars, [NoneParkedMeanwhile]_vars PROVE HeldIsAll'
<1> SUFFICES ASSUME NEW r \in Reconciler, rpc'[r] \in {"read", "replay"}
             PROVE  sidecar' \subseteq held'[r]
  BY DEF HeldIsAll
<1>t. Types
  BY TypesAreTypeOK DEF SpendInv, AccountingInv
<1>1. \/ rpc[r] \in {"read", "replay"} /\ held'[r] = held[r]
      \/ held'[r] = sidecar /\ sidecar' = sidecar
  <2> USE <1>t DEF Types, RStep
  <2>1. CASE Repair \/ CrashCallers
    BY <2>1 DEF Repair, CrashCallers, files, reconcilers
  <2>2. ASSUME NEW t \in Caller,
               \/ GateReadsSidecar(t) \/ GateReadsMemory(t) \/ Refuse(t)
               \/ ProviderAnswers(t) \/ RecordUsage(t) \/ ParkFault(t)
        PROVE  rpc' = rpc /\ held' = held
    BY <2>2 DEF GateReadsSidecar, GateReadsMemory, Refuse, ProviderAnswers, RecordUsage,
                ParkFault, reconcilers
  <2>3. ASSUME NEW q \in Reconciler, TakeLock(q) \/ ReadLedger(q) \/ RewriteSidecar(q)
                                     \/ CrashReconcile(q) \/ (\E k \in Call : ReplayRow(q, k))
        PROVE  rpc[r] \in {"read", "replay"} /\ held'[r] = held[r]
    BY <2>3 DEF TakeLock, ReadLedger, RewriteSidecar, CrashReconcile, ReplayRow
  <2>4. ASSUME NEW q \in Reconciler, ReadFaults(q)
        PROVE  \/ rpc[r] \in {"read", "replay"} /\ held'[r] = held[r]
               \/ held'[r] = sidecar /\ sidecar' = sidecar
    BY <2>4 DEF ReadFaults, files
  <2>5. CASE UNCHANGED vars
    BY <2>5 DEF vars, reconcilers
  <2> QED BY <2>1, <2>2, <2>3, <2>4, <2>5 DEF Next
<1>2. rpc[r] \in {"read", "replay"} => sidecar' \subseteq sidecar
  BY DEF NoneParkedMeanwhile, vars, files
<1> QED BY <1>1, <1>2 DEF SpendInv, HeldIsAll

\* A call's spend goes from hand to hand: from the caller that writes it to the ledger or to
\* memory, from there to the sidecar, and from there to the ledger.
LEMMA NothingIsLost ==
  ASSUME ~MayTear, SpendInv, [Next]_vars PROVE Lost' = {}
<1>t. Types
  BY TypesAreTypeOK DEF SpendInv, AccountingInv
<1>0. billed \subseteq forgotten \cup unmeasured \cup InLedger \cup sidecar \cup memory \cup BeingWritten
  BY DEF SpendInv, Lost
<1> SUFFICES billed' \subseteq forgotten' \cup unmeasured' \cup InLedger' \cup sidecar' \cup memory'
                               \cup BeingWritten'
  BY DEF Lost
<1>1. CASE Repair \/ UNCHANGED vars
  BY <1>0, <1>1 DEF Repair, vars, files, callers, InLedger, BeingWritten, CurrentCall
<1>2. CASE CrashCallers
  <2>1. /\ UNCHANGED <<billed, unmeasured, rows, sidecar>>
        /\ memory \cup BeingWritten \cup forgotten \subseteq forgotten'
    BY <1>2 DEF CrashCallers, files, BeingWritten
  <2> QED BY <1>0, <2>1 DEF InLedger
<1>3. ASSUME NEW t \in Caller, GateReadsSidecar(t) \/ GateReadsMemory(t) \/ Refuse(t) \/ ParkFault(t)
      PROVE  /\ UNCHANGED <<billed, unmeasured, rows, forgotten>>
             /\ sidecar \cup memory \subseteq sidecar' \cup memory'
             /\ BeingWritten \subseteq BeingWritten'
  <2>1. /\ UNCHANGED <<billed, unmeasured, rows, forgotten>>
        /\ sidecar \cup memory \subseteq sidecar' \cup memory'
    BY <1>3 DEF GateReadsSidecar, GateReadsMemory, Refuse, ParkFault, FlushFaults, files
  <2>2. \A u \in Caller : pc[u] = "billed" => pc'[u] = "billed" /\ calls'[u] = calls[u]
    BY <1>3, <1>t DEF Types, GateReadsSidecar, GateReadsMemory, Refuse, ParkFault, Step
  <2>3. BeingWritten \subseteq BeingWritten'
    BY <2>2 DEF BeingWritten, CurrentCall
  <2> QED BY <2>1, <2>3
<1>4. ASSUME NEW t \in Caller, ProviderAnswers(t)
      PROVE  /\ UNCHANGED <<rows, sidecar, memory, forgotten>> /\ unmeasured \subseteq unmeasured'
             /\ billed' \subseteq billed \cup BeingWritten' /\ BeingWritten \subseteq BeingWritten'
  <2>1. /\ UNCHANGED <<rows, sidecar, memory, forgotten, calls>> /\ unmeasured \subseteq unmeasured'
        /\ billed' = billed \cup {CurrentCall(t)}
    BY <1>4 DEF ProviderAnswers, files
  <2>2. pc'[t] = "billed" /\ \A u \in Caller : pc[u] = "billed" => pc'[u] = "billed"
    BY <1>4, <1>t DEF Types, ProviderAnswers, Step
  <2>3. CurrentCall(t) \in BeingWritten' /\ BeingWritten \subseteq BeingWritten'
    BY <2>1, <2>2 DEF BeingWritten, CurrentCall
  <2> QED BY <2>1, <2>3
<1>5. ASSUME NEW t \in Caller, RecordUsage(t)
      PROVE  /\ UNCHANGED <<billed, unmeasured, sidecar, forgotten>>
             /\ InLedger \subseteq InLedger' /\ memory \subseteq memory'
             /\ BeingWritten \subseteq BeingWritten' \cup InLedger' \cup memory'
  <2> DEFINE k == CurrentCall(t)
  <2>1. rows[k] = 0 /\ k \in Call
    BY <1>5, CurrentCallUnknown DEF SpendInv, RecordUsage, Step, Latch, Unknown
  <2>2. torn = FALSE
    BY DEF SpendInv, ToldInv
  <2>3. \/ rows' = [rows EXCEPT ![k] = @ + 1] /\ memory' = memory
        \/ rows' = rows /\ memory' = memory \cup {k}
    BY <1>5, <2>2 DEF RecordUsage, AppendRow, AppendFails, Recorded, Latch
  <2>4. /\ UNCHANGED <<billed, unmeasured, sidecar, forgotten, calls>>
        /\ \A u \in Caller \ {t} : pc'[u] = pc[u]
    BY <1>5, <1>t DEF Types, RecordUsage, Latch, Step
  <2> HIDE DEF k
  <2>5. InLedger \subseteq InLedger' /\ memory \subseteq memory' /\ k \in InLedger' \cup memory'
    BY <1>t, <2>1, <2>3 DEF Types, InLedger
  <2>6. BeingWritten \subseteq BeingWritten' \cup {k}
    BY <2>4 DEF BeingWritten, CurrentCall, k
  <2> QED BY <2>4, <2>5, <2>6
<1>6. ASSUME NEW r \in Reconciler,
             TakeLock(r) \/ ReadFaults(r) \/ ReadLedger(r) \/ CrashReconcile(r)
      PROVE  UNCHANGED <<files, callers, forgotten>>
  BY <1>6 DEF TakeLock, ReadFaults, ReadLedger, CrashReconcile
<1>7. ASSUME NEW r \in Reconciler, NEW k \in Call, ReplayRow(r, k)
      PROVE  UNCHANGED <<sidecar, callers, forgotten>> /\ InLedger \subseteq InLedger'
  <2>1. UNCHANGED <<sidecar, callers, forgotten>> /\ \/ rows' = rows
                                                     \/ rows' = [rows EXCEPT ![k] = @ + 1]
    BY <1>7 DEF ReplayRow, AppendRow, AppendFails, Recorded
  <2> QED BY <1>t, <2>1 DEF Types, InLedger
<1>8. ASSUME NEW r \in Reconciler, RewriteSidecar(r)
      PROVE  UNCHANGED <<rows, callers, forgotten>> /\ sidecar \subseteq sidecar' \cup InLedger \cup unmeasured
  <2>1. /\ UNCHANGED <<rows, callers, forgotten>> /\ rpc[r] = "replay" /\ todo[r] = {}
        /\ sidecar' = sidecar \/ sidecar' = kept[r]
    BY <1>8 DEF RewriteSidecar, RStep, KeepUnreplayed
  <2>2. sidecar \subseteq held[r] /\ held[r] \ unmeasured \subseteq kept[r] \cup InLedger
    BY <2>1 DEF SpendInv, HeldIsAll, ToldInv, ReplaysTold
  <2> QED BY <2>1, <2>2
<1>9. ASSUME UNCHANGED callers PROVE BeingWritten' = BeingWritten
  BY <1>9 DEF callers, BeingWritten, CurrentCall
<1>10. ASSUME NEW t \in Caller,
              \/ GateReadsSidecar(t) \/ GateReadsMemory(t) \/ Refuse(t)
              \/ ProviderAnswers(t) \/ RecordUsage(t) \/ ParkFault(t)
       PROVE  billed' \subseteq forgotten' \cup unmeasured' \cup InLedger' \cup sidecar' \cup memory'
                                \cup BeingWritten'
  <2>1. CASE GateReadsSidecar(t) \/ GateReadsMemory(t) \/ Refuse(t) \/ ParkFault(t)
    BY <1>0, <1>3, <2>1 DEF InLedger
  <2>2. CASE ProviderAnswers(t)
    BY <1>0, <1>4, <2>2 DEF InLedger
  <2>3. CASE RecordUsage(t)
    BY <1>0, <1>5, <2>3
  <2> QED BY <1>10, <2>1, <2>2, <2>3
<1>11. ASSUME NEW r \in Reconciler,
              \/ TakeLock(r) \/ ReadFaults(r) \/ ReadLedger(r) \/ (\E k \in Call : ReplayRow(r, k))
              \/ RewriteSidecar(r) \/ CrashReconcile(r)
       PROVE  billed' \subseteq forgotten' \cup unmeasured' \cup InLedger' \cup sidecar' \cup memory'
                                \cup BeingWritten'
  <2>1. CASE TakeLock(r) \/ ReadFaults(r) \/ ReadLedger(r) \/ CrashReconcile(r)
    BY <1>0, <1>6, <1>9, <2>1 DEF InLedger, files, callers
  <2>2. ASSUME NEW k \in Call, ReplayRow(r, k)
        PROVE  billed' \subseteq forgotten' \cup unmeasured' \cup InLedger' \cup sidecar' \cup memory'
                                 \cup BeingWritten'
    BY <1>0, <1>7, <1>9, <2>2 DEF callers
  <2>3. CASE RewriteSidecar(r)
    BY <1>0, <1>8, <1>9, <2>3 DEF InLedger, callers
  <2> QED BY <1>11, <2>1, <2>2, <2>3
<1> QED BY <1>1, <1>2, <1>10, <1>11 DEF Next

\* The race that accounting_park_race shows is the only way to lose spend: where a failing
\* append leaves no part of a line, and no fault is parked between a reconcile's read and
\* its rewrite (usage.py:858), every billed call whose cost is known is in the ledger, held,
\* or being written, whatever fails, is retried, replayed or killed; what a crash takes is
\* only what was in memory or under way.
THEOREM OnlyTheRaceLoses ==
  ASSUME ~MayTear PROVE Spec /\ [][NoneParkedMeanwhile]_vars => []SpendAccounted
<1>1. Init => SpendInv
  BY AccountingInit DEF Init, SpendInv, ToldInv, ReplaysTold, InLedger, HeldIsAll, Lost
<1>2. SpendInv /\ [Next]_vars /\ [NoneParkedMeanwhile]_vars => SpendInv'
  BY AccountingStep, ToldStep, HeldStaysAll, NothingIsLost DEF SpendInv
<1> QED BY <1>1, <1>2, SpendInvCovers, PTL DEF Spec
-----------------------------------------------------------------------------
(* The gate, when no fault is parked between its two reads.                *)

\* A gate that found the sidecar empty knows that what was latched then is in memory; a
\* caller past the gate found nothing latched.
GateKnows == \A t \in Caller :
  /\ pc[t] = "gate" /\ ~sawFault[t] => latchedAt[t] \subseteq memory
  /\ pc[t] = "calling" => latchedAt[t] = {}

LEMMA GateStillKnows ==
  ASSUME AccountingInv, GateKnows, [Next]_vars, [NoneParkedInGate]_vars PROVE GateKnows'
<1> SUFFICES ASSUME NEW t \in Caller
             PROVE  /\ pc'[t] = "gate" /\ ~sawFault'[t] => latchedAt'[t] \subseteq memory'
                    /\ pc'[t] = "calling" => latchedAt'[t] = {}
  BY DEF GateKnows
<1>t. Types
  BY TypesAreTypeOK DEF AccountingInv
<1>k. /\ pc[t] = "gate" /\ ~sawFault[t] => latchedAt[t] \subseteq memory
      /\ pc[t] = "calling" => latchedAt[t] = {}
  BY DEF GateKnows
<1>1. CASE Repair \/ UNCHANGED vars
  BY <1>1, <1>k DEF Repair, vars, files, callers
<1>2. CASE CrashCallers
  BY <1>2 DEF CrashCallers
<1>3. ASSUME NEW r \in Reconciler,
             \/ TakeLock(r) \/ ReadFaults(r) \/ ReadLedger(r) \/ (\E k \in Call : ReplayRow(r, k))
             \/ RewriteSidecar(r) \/ CrashReconcile(r)
      PROVE  UNCHANGED callers
  BY <1>3 DEF TakeLock, ReadFaults, ReadLedger, ReplayRow, RewriteSidecar, CrashReconcile
<1>4. ASSUME NEW u \in Caller, GateReadsSidecar(u)
      PROVE  /\ pc'[t] = "gate" /\ ~sawFault'[t] => latchedAt'[t] \subseteq memory'
             /\ pc'[t] = "calling" => latchedAt'[t] = {}
  <2>1. CASE u = t
    <3>1. /\ (sidecar # {} => sawFault'[t]) /\ latchedAt'[t] = sidecar \cup memory
          /\ pc'[t] = "gate" /\ memory' = memory
      BY <1>4, <1>t, <2>1 DEF Types, GateReadsSidecar, Step
    <3> QED BY <3>1
  <2>2. CASE u # t
    BY <1>4, <1>k, <1>t, <2>2 DEF Types, GateReadsSidecar, Step
  <2> QED BY <2>1, <2>2
<1>5. ASSUME NEW u \in Caller, GateReadsMemory(u)
      PROVE  /\ pc'[t] = "gate" /\ ~sawFault'[t] => latchedAt'[t] \subseteq memory'
             /\ pc'[t] = "calling" => latchedAt'[t] = {}
  <2>1. UNCHANGED <<sawFault, latchedAt, memory>> /\ \A q \in Caller \ {u} : pc'[q] = pc[q]
    BY <1>5, <1>t DEF Types, GateReadsMemory, Step
  <2>2. pc[u] = "gate" /\ pc'[u] # "gate" /\ (pc'[u] = "calling" => ~sawFault[u] /\ memory = {})
    BY <1>5, <1>t DEF Types, GateReadsMemory, Step
  <2> QED BY <1>k, <2>1, <2>2
<1>6. ASSUME NEW u \in Caller, Refuse(u) \/ ParkFault(u)
      PROVE  /\ pc'[t] = "gate" /\ ~sawFault'[t] => latchedAt'[t] \subseteq memory'
             /\ pc'[t] = "calling" => latchedAt'[t] = {}
  <2>1. /\ UNCHANGED <<sawFault, latchedAt>> /\ pc'[u] = "idle" /\ \A q \in Caller \ {u} : pc'[q] = pc[q]
        /\ \/ memory' = memory
           \/ sidecar' = sidecar \cup memory /\ memory' = {}
    BY <1>6, <1>t DEF Types, Refuse, ParkFault, Step, FlushFaults
  <2>2. pc[t] = "gate" => sidecar' \subseteq sidecar
    BY DEF NoneParkedInGate, vars, files
  <2>3. pc[t] = "gate" => memory \subseteq memory'
    BY <2>1, <2>2 DEF AccountingInv, MemoryNotParked
  <2> QED BY <1>k, <2>1, <2>3
<1>7. ASSUME NEW u \in Caller, ProviderAnswers(u) \/ RecordUsage(u)
      PROVE  /\ pc'[t] = "gate" /\ ~sawFault'[t] => latchedAt'[t] \subseteq memory'
             /\ pc'[t] = "calling" => latchedAt'[t] = {}
  <2>1. UNCHANGED <<sawFault, latchedAt>> /\ memory \subseteq memory'
    BY <1>7 DEF ProviderAnswers, RecordUsage, Latch
  <2>2. pc'[u] \notin {"gate", "calling"} /\ \A q \in Caller \ {u} : pc'[q] = pc[q]
    BY <1>7, <1>t DEF Types, ProviderAnswers, RecordUsage, Latch, Step
  <2> QED BY <1>k, <2>1, <2>2
<1> QED BY <1>k, <1>1, <1>2, <1>3, <1>4, <1>5, <1>6, <1>7 DEF Next, callers

\* "A latch blocks metered work" (usage.py:456): a call gets past a fault that was latched
\* when its gate began, and is held still, in no other way than that the fault is parked
\* between the gate's reads of the sidecar and of memory (usage.py:662).
THEOREM OnlyParkingSlipsPast == Spec /\ [][NoneParkedInGate]_vars => []LatchBlocks
<1>1. Init => GateKnows
  BY DEF Init, GateKnows
<1>2. AccountingInv /\ GateKnows /\ [Next]_vars /\ [NoneParkedInGate]_vars
        => (AccountingInv /\ GateKnows)'
  BY AccountingStep, GateStillKnows
<1>3. GateKnows => LatchBlocks
  BY DEF GateKnows, LatchBlocks
<1> QED BY <1>1, <1>2, <1>3, AccountingInit, PTL DEF Spec
-----------------------------------------------------------------------------
(* The question cap.                                                       *)

\* Where a run stands, and what its Session has on the books.
RunsShaped == \A s \in Session :
  /\ run[s] = "starting" <=> s \in inside
  /\ run[s] \in {"starting", "fresh"} => checkpoint[s] = "none"
  /\ run[s] \in {"off", "starting"} => reservation[s] = 0
  /\ run[s] = "fresh" => reservation[s] = Size[s]
  /\ run[s] = "on" => checkpoint[s] = "open"
  /\ run[s] \in {"fresh", "ending"} \/ checkpoint[s] # "none" => startedOn[s] # NoDay

\* What a Session can still ask or release: what its reservation must cover.
Charge(s) == IF startedOn[s] = NoDay \/ run[s] = "starting" THEN 0
             ELSE IF checkpoint[s] = "none" THEN reservation[s]
             ELSE IF checkpoint[s] = "open" \/ reservation[s] > 0 THEN Size[s]
             ELSE asked[s]
Charges == [s \in Session |-> Charge(s)]

ChargesCovered == Total(Charges) + Total(released) <= Total(reserved)

\* On the first day: the books stand below the cap, and at what a start inside the lock
\* counted.
FirstDayCapped ==
  /\ \A d \in Day : d > day => reserved[d] = 0 /\ released[d] = 0
  /\ day = 1 => /\ reserved[1] <= Cap + released[1]
                /\ \A s \in inside : reserved[1] <= counted[s] + released[1]

OneInside == \A s, q \in inside : s = q

CapInv == CapTypeOK /\ RunsShaped /\ OneInside /\ ChargesCovered /\ FirstDayCapped
-----------------------------------------------------------------------------
(* Sums.                                                                   *)

LEMMA PairsOf ==
  ASSUME NEW S, NEW f \in [S -> Nat], NEW p
  PROVE  p \in Pairs(f) <=> \E x \in S : \E i \in 1..f[x] : p = <<x, i>>
BY DEF Pairs

LEMMA ColumnCounted ==
  ASSUME NEW x, NEW n \in Nat
  PROVE  IsFiniteSet({x} \X (1..n)) /\ Cardinality({x} \X (1..n)) = n
<1>1. IsFiniteSet(1..n) /\ Cardinality(1..n) = n
  <2>1. 1 \in Int /\ n \in Int
    OBVIOUS
  <2> QED BY <2>1, FS_Interval
<1>2. IsFiniteSet({x}) /\ Cardinality({x}) = 1
  BY FS_Singleton
<1>3. IsFiniteSet({x} \X (1..n)) /\ Cardinality({x} \X (1..n)) = Cardinality({x}) * Cardinality(1..n)
  BY <1>1, <1>2, FS_Product
<1> QED BY <1>1, <1>2, <1>3

LEMMA PairsFinite ==
  ASSUME NEW S, IsFiniteSet(S), NEW f \in [S -> Nat]
  PROVE  IsFiniteSet(Pairs(f)) /\ Total(f) \in Nat
<1> DEFINE Column(x) == {x} \X (1..f[x])
           C == {Column(x) : x \in S}
           g == [x \in S |-> Column(x)]
<1>1. g \in Surjection(S, C)
  BY DEF Surjection
<1>2. IsFiniteSet(C)
  BY <1>1, FS_Surjection
<1>3. \A T \in C : IsFiniteSet(T)
  <2> SUFFICES ASSUME NEW x \in S PROVE IsFiniteSet(Column(x))
    OBVIOUS
  <2>1. f[x] \in Nat
    OBVIOUS
  <2> QED BY <2>1, ColumnCounted
<1>4. Pairs(f) = UNION C
  BY DEF Pairs
<1>5. IsFiniteSet(Pairs(f))
  BY <1>2, <1>3, <1>4, FS_UNION
<1> QED BY <1>5, FS_CardinalityType DEF Total

\* A sum over more elements, of values as large, is as large.
LEMMA TotalMonotone ==
  ASSUME NEW S, NEW T, IsFiniteSet(T), S \subseteq T, NEW f \in [S -> Nat], NEW g \in [T -> Nat],
         \A x \in S : f[x] <= g[x]
  PROVE  Total(f) <= Total(g)
<1>1. Pairs(f) \subseteq Pairs(g)
  <2> SUFFICES ASSUME NEW p \in Pairs(f) PROVE p \in Pairs(g)
    OBVIOUS
  <2>1. PICK x \in S : \E i \in 1..f[x] : p = <<x, i>>
    BY PairsOf
  <2>2. x \in T /\ f[x] \in Nat /\ g[x] \in Nat /\ f[x] <= g[x]
    OBVIOUS
  <2>3. PICK i \in 1..f[x] : p = <<x, i>>
    BY <2>1
  <2>4. i \in 1..g[x]
    BY <2>2
  <2> QED BY <2>2, <2>3, <2>4, PairsOf
<1>2. IsFiniteSet(Pairs(g))
  BY PairsFinite
<1> QED BY <1>1, <1>2, FS_Subset DEF Total

\* Two sums that differ in one element differ by its values.
LEMMA TotalChanged ==
  ASSUME NEW S, IsFiniteSet(S), NEW f \in [S -> Nat], NEW g \in [S -> Nat], NEW x \in S,
         \A y \in S \ {x} : f[y] = g[y]
  PROVE  Total(f) + g[x] = Total(g) + f[x]
<1> DEFINE Rest(h) == Pairs(h) \ ({x} \X (1..h[x]))
<1>1. ASSUME NEW h \in [S -> Nat]
      PROVE  IsFiniteSet(Rest(h)) /\ Cardinality(Rest(h)) \in Nat /\ Total(h) = Cardinality(Rest(h)) + h[x]
  <2> DEFINE Col == {x} \X (1..h[x])
  <2>1. IsFiniteSet(Pairs(h)) /\ Total(h) \in Nat
    BY PairsFinite
  <2>2. h[x] \in Nat
    OBVIOUS
  <2>3. IsFiniteSet(Col) /\ Cardinality(Col) = h[x]
    BY <2>2, ColumnCounted
  <2>4. Pairs(h) \cap Col = Col
    BY DEF Pairs
  <2>5. IsFiniteSet(Rest(h)) /\ Cardinality(Rest(h)) = Cardinality(Pairs(h)) - Cardinality(Pairs(h) \cap Col)
    BY <2>1, FS_Difference
  <2>6. Cardinality(Rest(h)) \in Nat
    BY <2>5, FS_CardinalityType
  <2> QED BY <2>1, <2>2, <2>3, <2>4, <2>5, <2>6 DEF Total
<1>2. Rest(f) = Rest(g)
  <2>1. ASSUME NEW h \in [S -> Nat], NEW p
        PROVE  p \in Rest(h) <=> \E y \in S \ {x} : \E i \in 1..h[y] : p = <<y, i>>
    BY PairsOf
  <2> QED BY <2>1
<1>3. f[x] \in Nat /\ g[x] \in Nat
  OBVIOUS
<1> HIDE DEF Rest
<1> QED BY <1>1, <1>2, <1>3

LEMMA TotalZero ==
  ASSUME NEW S, NEW f \in [S -> Nat], \A x \in S : f[x] = 0
  PROVE  Total(f) = 0
<1>1. ASSUME NEW p PROVE p \notin Pairs(f)
  <2>1. \A x \in S : 1..f[x] = {}
    OBVIOUS
  <2> QED BY <2>1, PairsOf
<1>2. Pairs(f) = {}
  BY <1>1
<1> QED BY <1>2, FS_EmptySet DEF Total

\* A function that is 0 but in one element sums up to its value there.
LEMMA TotalOfOne ==
  ASSUME NEW S, IsFiniteSet(S), NEW f \in [S -> Nat], NEW x \in S,
         \A y \in S \ {x} : f[y] = 0
  PROVE  Total(f) = f[x]
<1> DEFINE zero == [y \in S |-> 0]
<1>1. zero \in [S -> Nat] /\ zero[x] = 0 /\ \A y \in S \ {x} : f[y] = zero[y]
  OBVIOUS
<1>2. Total(zero) = 0
  BY TotalZero
<1>3. Total(f) \in Nat /\ f[x] \in Nat
  BY PairsFinite
<1> HIDE DEF zero
<1>4. Total(f) + zero[x] = Total(zero) + f[x]
  BY <1>1, TotalChanged
<1> QED BY <1>1, <1>2, <1>3, <1>4

LEMMA DaysFinite == IsFiniteSet(Day) /\ 1 \in Day
<1>1. 1 \in Int /\ MaxDay \in Int /\ MaxDay >= 1
  BY CapAssumption
<1> QED BY <1>1, FS_Interval DEF Day
-----------------------------------------------------------------------------
(* The invariant of the question cap, conjunct by conjunct.                *)

LEMMA CapInitial == CapInit => CapInv
<1> SUFFICES ASSUME CapInit PROVE CapInv
  OBVIOUS
<1>1. CapTypeOK
  <2>1. Cardinality(inside) = 0
    BY FS_EmptySet DEF CapInit
  <2>2. \A s \in Session : Size[s] \in Nat
    BY SizeAssumption
  <2> QED BY <2>1, <2>2, DaysFinite DEF CapInit, CapTypeOK, NoDay
<1>2. RunsShaped /\ OneInside
  BY DEF CapInit, RunsShaped, OneInside
<1>3. ChargesCovered
  <2>1. Charges \in [Session -> Nat] /\ \A s \in Session : Charges[s] = 0
    BY DEF CapInit, Charges, Charge
  <2>2. reserved \in [Day -> Nat] /\ \A d \in Day : reserved[d] = 0
    BY DEF CapInit
  <2>3. released \in [Day -> Nat] /\ \A d \in Day : released[d] = 0
    BY DEF CapInit
  <2>4. Total(Charges) = 0
    BY <2>1, TotalZero
  <2>5. Total(reserved) = 0 /\ Total(released) = 0
    BY <2>2, <2>3, TotalZero
  <2> QED BY <2>4, <2>5 DEF ChargesCovered
<1>4. FirstDayCapped
  BY DaysFinite, CapAssumption DEF CapInit, FirstDayCapped
<1> QED BY <1>1, <1>2, <1>3, <1>4 DEF CapInv

\* A step of one Session's run leaves what the others have alone.
LEMMA OthersKept ==
  ASSUME CapTypeOK, NEW s \in Session, RunStep(s), NEW q \in Session \ {s}
  PROVE  /\ run'[q] = run[q] /\ checkpoint'[q] = checkpoint[q] /\ asked'[q] = asked[q]
         /\ reservation'[q] = reservation[q] /\ startedOn'[q] = startedOn[q]
         /\ counted'[q] = counted[q] /\ (q \in inside' <=> q \in inside)
<1> USE DEF CapTypeOK, To
<1>1. CASE StartRun(s)         BY <1>1 DEF StartRun
<1>2. CASE Reserve(s)          BY <1>2 DEF Reserve
<1>3. CASE FirstCheckpoint(s)  BY <1>3 DEF FirstCheckpoint
<1>4. CASE AskQuestion(s)      BY <1>4 DEF AskQuestion
<1>5. CASE Complete(s)         BY <1>5 DEF Complete
<1>6. CASE Stop(s)             BY <1>6 DEF Stop
<1>7. CASE EndRun(s)           BY <1>7 DEF EndRun
<1>8. CASE Resume(s)           BY <1>8 DEF Resume
<1>9. CASE Crash(s)            BY <1>9 DEF Crash
<1> QED BY <1>1, <1>2, <1>3, <1>4, <1>5, <1>6, <1>7, <1>8, <1>9 DEF RunStep

LEMMA UnusedIsNat ==
  ASSUME CapTypeOK, NEW s \in Session, NEW seen \in {"none", "open", "complete"}
  PROVE  Unused(s, seen) \in Nat
<1>1. Size[s] \in Nat /\ asked[s] \in 0..Size[s] /\ reservation[s] \in {0, Size[s]}
  BY SizeAssumption DEF CapTypeOK
<1> QED BY <1>1 DEF Unused

LEMMA SeenIsThere ==
  ASSUME ~MayMisread, NEW s \in Session, NEW seen \in Seen(s)
  PROVE  seen = checkpoint[s]
BY DEF Seen

LEMMA InsideStaysOne ==
  ASSUME CapTypeOK, OneInside, NEW s \in Session, RunStep(s)
  PROVE  /\ inside' \subseteq Session /\ (inside' \subseteq inside \/ inside' = {s})
         /\ OneInside' /\ Cardinality(inside') <= 1
<1>1. inside' \subseteq Session /\ (inside' \subseteq inside \/ inside' = {s})
  <2> USE DEF CapTypeOK
  <2>1. CASE StartRun(s)
    BY <2>1 DEF StartRun, LockIsFree
  <2>2. CASE Reserve(s) \/ Crash(s)
    BY <2>2 DEF Reserve, Crash
  <2>3. CASE FirstCheckpoint(s) \/ AskQuestion(s) \/ Complete(s) \/ Stop(s) \/ EndRun(s) \/ Resume(s)
    BY <2>3 DEF FirstCheckpoint, AskQuestion, Complete, Stop, EndRun, Resume
  <2> QED BY <2>1, <2>2, <2>3 DEF RunStep
<1>2. Cardinality(inside') <= 1
  <2>1. CASE inside' = {s}
    <3>1. Cardinality({s}) = 1
      BY FS_Singleton
    <3>2. Cardinality(inside') = 1
      BY <2>1, <3>1
    <3> QED BY <3>2
  <2>2. CASE inside' \subseteq inside
    <3>1. IsFiniteSet(inside)
      BY SizeAssumption, FS_Subset DEF CapTypeOK
    <3>2. Cardinality(inside') <= Cardinality(inside) /\ IsFiniteSet(inside')
      BY <2>2, <3>1, FS_Subset
    <3>3. Cardinality(inside') \in Nat /\ Cardinality(inside) \in Nat /\ Cardinality(inside) <= 1
      BY <3>1, <3>2, FS_CardinalityType DEF CapTypeOK
    <3> QED BY <3>2, <3>3
  <2> QED BY <1>1, <2>1, <2>2
<1>3. OneInside'
  BY <1>1 DEF OneInside
<1> QED BY <1>1, <1>2, <1>3

LEMMA TypeStep ==
  ASSUME CapTypeOK, OneInside, NEW s \in Session, RunStep(s)
  PROVE  CapTypeOK'
<1> USE DEF CapTypeOK, To
<1>1. /\ Size[s] \in Nat \ {0} /\ asked[s] \in 0..Size[s] /\ reservation[s] \in {0, Size[s]}
      /\ \A q \in Session : Size[q] \in Nat
  BY SizeAssumption
<1>2. inside' \subseteq Session /\ Cardinality(inside') <= 1
  BY InsideStaysOne
<1>3. CASE StartRun(s)
  <2>1. QuestionsToday \in Nat
    BY DEF QuestionsToday
  <2> QED BY <1>2, <1>3, <2>1 DEF StartRun
<1>4. CASE Reserve(s)
  BY <1>1, <1>2, <1>4 DEF Reserve
<1>5. CASE FirstCheckpoint(s)
  BY <1>1, <1>5 DEF FirstCheckpoint
<1>6. CASE AskQuestion(s)
  BY <1>1, <1>6 DEF AskQuestion
<1>7. CASE Complete(s)
  BY <1>7 DEF Complete
<1>8. CASE Stop(s)
  BY <1>8 DEF Stop
<1>9. CASE EndRun(s)
  <2>1. PICK seen \in Seen(s) :
          /\ released' = [released EXCEPT ![day] = @ + Unused(s, seen)]
          /\ run[s] = "ending" /\ run' = [run EXCEPT ![s] = "off"]
          /\ reservation' = [reservation EXCEPT ![s] = 0]
          /\ UNCHANGED <<day, reserved, inside, counted, checkpoint, asked, startedOn>>
    BY <1>9 DEF EndRun
  <2>2. seen \in {"none", "open", "complete"}
    BY DEF Seen
  <2>3. Unused(s, seen) \in Nat
    BY <2>2, UnusedIsNat
  <2> QED BY <1>1, <1>2, <2>1, <2>3
<1>10. CASE Resume(s)
  BY <1>10 DEF Resume
<1>11. CASE Crash(s)
  BY <1>1, <1>2, <1>11 DEF Crash
<1> QED BY <1>3, <1>4, <1>5, <1>6, <1>7, <1>8, <1>9, <1>10, <1>11 DEF RunStep

\* A fresh start finds no checkpoint, and a resume finds an open one.
LEMMA ShapeStep ==
  ASSUME ~MayMisread, CapTypeOK, OneInside, RunsShaped, NEW s \in Session, RunStep(s)
  PROVE  RunsShaped'
<1> SUFFICES ASSUME NEW q \in Session
    PROVE /\ run'[q] = "starting" <=> q \in inside'
          /\ run'[q] \in {"starting", "fresh"} => checkpoint'[q] = "none"
          /\ run'[q] \in {"off", "starting"} => reservation'[q] = 0
          /\ run'[q] = "fresh" => reservation'[q] = Size[q]
          /\ run'[q] = "on" => checkpoint'[q] = "open"
          /\ run'[q] \in {"fresh", "ending"} \/ checkpoint'[q] # "none" => startedOn'[q] # NoDay
  BY DEF RunsShaped
<1>1. CASE q # s
  <2>1. /\ run'[q] = run[q] /\ checkpoint'[q] = checkpoint[q] /\ reservation'[q] = reservation[q]
        /\ startedOn'[q] = startedOn[q] /\ (q \in inside' <=> q \in inside)
    BY <1>1, OthersKept
  <2> QED BY <2>1 DEF RunsShaped
<1>2. CASE q = s
  <2> USE <1>2 DEF CapTypeOK, RunsShaped, To
  <2>1. CASE StartRun(s)
    BY <2>1, SeenIsThere DEF StartRun
  <2>2. CASE Reserve(s)
    BY <2>2 DEF Reserve, Day, NoDay
  <2>3. CASE FirstCheckpoint(s)
    BY <2>3 DEF FirstCheckpoint
  <2>4. CASE AskQuestion(s)
    BY <2>4 DEF AskQuestion
  <2>5. CASE Complete(s)
    BY <2>5 DEF Complete
  <2>6. CASE Stop(s)
    BY <2>6 DEF Stop
  <2>7. CASE EndRun(s)
    BY <2>7 DEF EndRun
  <2>8. CASE Resume(s)
    BY <2>8 DEF Resume
  <2>9. CASE Crash(s)
    BY <2>9 DEF Crash
  <2> QED BY <2>1, <2>2, <2>3, <2>4, <2>5, <2>6, <2>7, <2>8, <2>9 DEF RunStep
<1> QED BY <1>1, <1>2

LEMMA ChargeIsNat ==
  ASSUME CapTypeOK, NEW s \in Session
  PROVE  Charge(s) \in Nat
<1>1. Size[s] \in Nat /\ asked[s] \in Nat /\ reservation[s] \in Nat
  BY SizeAssumption DEF CapTypeOK
<1> QED BY <1>1 DEF Charge

\* Where the books gain a, and b is released, the charges may grow by no more than a - b.
LEMMA BooksKept ==
  ASSUME CapTypeOK, CapTypeOK', ChargesCovered, NEW s \in Session, RunStep(s),
         NEW a \in Nat, NEW b \in Nat, Charge(s)' + b <= Charge(s) + a,
         reserved'[day] = reserved[day] + a, \A d \in Day \ {day} : reserved'[d] = reserved[d],
         released'[day] = released[day] + b, \A d \in Day \ {day} : released'[d] = released[d]
  PROVE  ChargesCovered'
<1> DEFINE old == Charges
           new == [q \in Session |-> Charge(q)']
<1>1. \A q \in Session : Charge(q) \in Nat /\ Charge(q)' \in Nat
  <2>1. \A q \in Session : Charge(q) \in Nat
    BY ChargeIsNat
  <2>2. ASSUME NEW q \in Session PROVE Charge(q)' \in Nat
    <3>1. Size[q] \in Nat /\ asked'[q] \in Nat /\ reservation'[q] \in Nat
      BY SizeAssumption DEF CapTypeOK
    <3> QED BY <3>1 DEF Charge
  <2> QED BY <2>1, <2>2
<1>2. \A q \in Session \ {s} : old[q] = new[q]
  BY OthersKept DEF Charge, Charges
<1>3. /\ old \in [Session -> Nat] /\ new \in [Session -> Nat]
      /\ old[s] = Charge(s) /\ new[s] = Charge(s)'
  BY <1>1 DEF Charges
<1>4. Total(Charges)' = Total(new)
  BY DEF Charges, Total, Pairs
<1>5. Total(released)' = Total(released') /\ Total(reserved)' = Total(reserved')
  BY DEF Total, Pairs
<1>6. /\ day \in Day /\ reserved \in [Day -> Nat] /\ released \in [Day -> Nat]
      /\ reserved' \in [Day -> Nat] /\ released' \in [Day -> Nat]
  BY DEF CapTypeOK
<1> HIDE DEF new
<1>7. Total(old) + new[s] = Total(new) + old[s]
  BY <1>2, <1>3, SizeAssumption, TotalChanged DEF Charges
<1>8. Total(reserved) + reserved'[day] = Total(reserved') + reserved[day]
  BY <1>6, DaysFinite, TotalChanged
<1>9. Total(released) + released'[day] = Total(released') + released[day]
  BY <1>6, DaysFinite, TotalChanged
<1>10. /\ Total(old) \in Nat /\ Total(new) \in Nat
       /\ Total(reserved) \in Nat /\ Total(reserved') \in Nat
       /\ Total(released) \in Nat /\ Total(released') \in Nat
  BY <1>3, <1>6, DaysFinite, SizeAssumption, PairsFinite
<1>11. reserved[day] \in Nat /\ released[day] \in Nat /\ Charge(s) \in Nat /\ Charge(s)' \in Nat
  BY <1>1, <1>6
<1>12. Total(new) <= Total(old) + a - b
  BY <1>3, <1>7, <1>10, <1>11
<1>13. Total(reserved') = Total(reserved) + a /\ Total(released') = Total(released) + b
  BY <1>8, <1>9, <1>10, <1>11
<1>14. Total(old) + Total(released) <= Total(reserved)
  BY DEF ChargesCovered
<1>15. Total(new) + Total(released') <= Total(reserved')
  BY <1>10, <1>12, <1>13, <1>14
<1> QED BY <1>4, <1>5, <1>15 DEF ChargesCovered

\* What each step of a run does to the books and to its Session's charge.
LEMMA BooksStep ==
  ASSUME ~MayMisread, CapTypeOK, OneInside, RunsShaped, ChargesCovered, NEW s \in Session, RunStep(s)
  PROVE  ChargesCovered'
<1>1. CapTypeOK' /\ RunsShaped'
  BY TypeStep, ShapeStep
<1>2. /\ Size[s] \in Nat \ {0} /\ asked[s] \in 0..Size[s] /\ reservation[s] \in {0, Size[s]}
      /\ day \in Day /\ reserved \in [Day -> Nat] /\ released \in [Day -> Nat]
  BY SizeAssumption DEF CapTypeOK
<1>3. asked'[s] \in 0..Size[s] /\ reservation'[s] \in {0, Size[s]}
  BY <1>1 DEF CapTypeOK
<1>4. Charge(s) \in Nat /\ Charge(s)' \in Nat
  <2>1. Charge(s) \in Nat
    BY ChargeIsNat
  <2>2. Charge(s)' \in Nat
    BY <1>2, <1>3 DEF Charge
  <2> QED BY <2>1, <2>2
<1>5. SUFFICES ASSUME ~Reserve(s) \/ UNCHANGED reserved
      PROVE  ChargesCovered'
  <2>1. CASE Reserve(s) /\ reserved' = [reserved EXCEPT ![day] = @ + Size[s]] /\ ReserveFits(s)
    <3>1. Charge(s) = 0
      BY <2>1 DEF Reserve, RunsShaped, Charge
    <3>2. Charge(s)' <= Size[s]
      BY <1>2, <1>3, <2>1 DEF Reserve, Charge, CapTypeOK
    <3>3. /\ reserved'[day] = reserved[day] + Size[s] /\ \A d \in Day \ {day} : reserved'[d] = reserved[d]
          /\ released' = released /\ released[day] \in Nat
      BY <1>2, <2>1 DEF Reserve
    <3>4. Charge(s)' + 0 <= Charge(s) + Size[s] /\ released'[day] = released[day] + 0
      BY <1>2, <1>4, <3>1, <3>2, <3>3
    <3> QED BY <1>1, <1>2, <3>3, <3>4, BooksKept
  <2> QED BY <1>5, <2>1 DEF Reserve
<1>6. CASE ~EndRun(s)
  <2>1. reserved' = reserved /\ released' = released
    BY <1>5, <1>6 DEF RunStep, StartRun, Reserve, FirstCheckpoint, AskQuestion, Complete, Stop, Resume, Crash
  <2>2. Charge(s)' <= Charge(s)
    <3> USE <1>2, <1>3, <1>4 DEF Charge, To, CapTypeOK, RunsShaped
    <3>1. CASE StartRun(s)
      BY <3>1 DEF StartRun
    <3>2. CASE Reserve(s)
      BY <1>5, <3>2 DEF Reserve
    <3>3. CASE FirstCheckpoint(s)
      BY <3>3 DEF FirstCheckpoint
    <3>4. CASE AskQuestion(s)
      BY <3>4 DEF AskQuestion
    <3>5. CASE Complete(s)
      BY <3>5 DEF Complete
    <3>6. CASE Stop(s)
      BY <3>6 DEF Stop
    <3>7. CASE Resume(s)
      BY <3>7 DEF Resume
    <3>8. CASE Crash(s)
      BY <3>8 DEF Crash
    <3> QED BY <1>6, <3>1, <3>2, <3>3, <3>4, <3>5, <3>6, <3>7, <3>8 DEF RunStep
  <2>3. /\ Charge(s)' + 0 <= Charge(s) + 0
        /\ reserved'[day] = reserved[day] + 0 /\ released'[day] = released[day] + 0
    BY <1>2, <1>4, <2>1, <2>2
  <2> QED BY <1>1, <2>1, <2>3, BooksKept
<1>7. CASE EndRun(s)
  <2> DEFINE b == Unused(s, checkpoint[s])
  <2>1. /\ run[s] = "ending" /\ run'[s] = "off" /\ reservation'[s] = 0
        /\ released' = [released EXCEPT ![day] = @ + b]
        /\ UNCHANGED <<day, reserved, checkpoint, asked, startedOn>>
    BY <1>7, SeenIsThere DEF EndRun, To, CapTypeOK
  <2>2. b \in Nat
    BY UnusedIsNat DEF CapTypeOK
  <2>3. startedOn[s] # NoDay
    BY <2>1 DEF RunsShaped
  <2>4. Charge(s)' + b <= Charge(s)
    <3>1. CASE checkpoint[s] = "none"
      BY <1>2, <2>1, <2>3, <3>1 DEF Charge, Unused
    <3>2. CASE checkpoint[s] = "open"
      BY <1>2, <2>1, <2>3, <3>2 DEF Charge, Unused
    <3>3. CASE checkpoint[s] = "complete"
      BY <1>2, <2>1, <2>3, <3>3 DEF Charge, Unused
    <3> QED BY <3>1, <3>2, <3>3 DEF CapTypeOK
  <2> HIDE DEF b
  <2>5. /\ released'[day] = released[day] + b /\ \A d \in Day \ {day} : released'[d] = released[d]
        /\ reserved' = reserved /\ reserved[day] \in Nat
    BY <1>2, <2>1
  <2>6. Charge(s)' + b <= Charge(s) + 0 /\ reserved'[day] = reserved[day] + 0
    BY <1>2, <1>4, <2>4, <2>5
  <2> QED BY <1>1, <2>2, <2>5, <2>6, BooksKept
<1> QED BY <1>6, <1>7

\* Nobody else reserves between a start's count and its row: the lock.
LEMMA FirstDayStep ==
  ASSUME ~MayMisread, CapTypeOK, OneInside, FirstDayCapped, NEW s \in Session, RunStep(s)
  PROVE  FirstDayCapped'
<1>1. /\ Size[s] \in Nat /\ Cap \in Nat /\ day \in Day /\ 1 \in Day
      /\ reserved \in [Day -> Nat] /\ released \in [Day -> Nat] /\ counted \in [Session -> Nat]
  BY SizeAssumption, CapAssumption, DaysFinite DEF CapTypeOK
<1>2. reserved[1] \in Nat /\ released[1] \in Nat /\ reserved[day] \in Nat /\ released[day] \in Nat
  BY <1>1
<1>3. day \in Nat /\ day' = day
  BY <1>1, CapAssumption DEF Day, RunStep, StartRun, Reserve, FirstCheckpoint, AskQuestion, Complete, Stop,
     EndRun, Resume, Crash
<1> USE <1>1, <1>2, <1>3 DEF FirstDayCapped
<1>4. CASE StartRun(s)
  <2>1. inside' = {s} /\ counted'[s] = QuestionsToday /\ UNCHANGED <<reserved, released>>
    BY <1>4 DEF StartRun, LockIsFree
  <2>2. day = 1 => reserved[1] <= QuestionsToday + released[1]
    BY DEF QuestionsToday
  <2> QED BY <2>1, <2>2
<1>5. CASE Reserve(s)
  <2>1. inside' = {} /\ released' = released /\ s \in inside
    BY <1>5 DEF Reserve, OneInside
  <2>2. CASE reserved' = reserved
    BY <2>1, <2>2
  <2>3. CASE ReserveFits(s) /\ reserved' = [reserved EXCEPT ![day] = @ + Size[s]]
    <3>1. \A d \in Day : d > day => reserved'[d] = 0 /\ released'[d] = 0
      BY <2>1, <2>3
    <3>2. ASSUME day = 1 PROVE reserved'[1] <= Cap + released'[1]
      <4>1. reserved'[1] = reserved[1] + Size[s] /\ reserved[1] <= counted[s] + released[1]
        BY <2>1, <2>3, <3>2
      <4>2. counted[s] + Size[s] <= Cap /\ counted[s] \in Nat
        BY <2>3 DEF ReserveFits
      <4> QED BY <2>1, <4>1, <4>2
    <3> QED BY <2>1, <3>1, <3>2
  <2> QED BY <1>5, <2>2, <2>3 DEF Reserve
<1>6. CASE EndRun(s)
  <2>1. PICK seen \in {"none", "open", "complete"} :
          released' = [released EXCEPT ![day] = @ + Unused(s, seen)]
    BY <1>6 DEF EndRun, Seen, CapTypeOK
  <2>2. Unused(s, seen) \in Nat
    BY UnusedIsNat
  <2>3. reserved' = reserved /\ inside' = inside /\ counted' = counted
    BY <1>6 DEF EndRun
  <2>4. released'[1] \in Nat /\ released'[1] >= released[1] /\ \A d \in Day : d > day => released'[d] = 0
    BY <2>1, <2>2
  <2>5. \A q \in inside : counted[q] \in Nat
    BY DEF CapTypeOK
  <2>6. day = 1 => reserved[1] <= Cap + released'[1]
    BY <2>4
  <2>7. day = 1 => \A q \in inside : reserved[1] <= counted[q] + released'[1]
    BY <2>4, <2>5
  <2> QED BY <2>3, <2>4, <2>6, <2>7
<1>7. CASE Crash(s)
  BY <1>7 DEF Crash, CapTypeOK
<1>8. CASE FirstCheckpoint(s) \/ AskQuestion(s) \/ Complete(s) \/ Stop(s) \/ Resume(s)
  BY <1>8 DEF FirstCheckpoint, AskQuestion, Complete, Stop, Resume
<1> QED BY <1>4, <1>5, <1>6, <1>7, <1>8 DEF RunStep

LEMMA MidnightStep == CapInv /\ Midnight => CapInv'
<1> SUFFICES ASSUME CapInv, Midnight PROVE CapInv'
  OBVIOUS
<1>1. /\ day \in Nat /\ day >= 1 /\ day' = day + 1 /\ day' \in Day
  BY CapAssumption DEF CapInv, CapTypeOK, Midnight, Day
<1>2. CapTypeOK'
  BY <1>1 DEF CapInv, CapTypeOK, Midnight
<1>3. RunsShaped' /\ OneInside'
  BY DEF CapInv, RunsShaped, OneInside, Midnight
<1>4. ChargesCovered'
  BY DEF CapInv, ChargesCovered, Charges, Charge, Total, Pairs, Midnight
<1>5. FirstDayCapped'
  <2>1. \A d \in Day : d \in Nat
    BY DEF Day
  <2>2. \A d \in Day : d > day' => d > day
    BY <1>1, <2>1
  <2>3. day' # 1
    BY <1>1
  <2>4. reserved' = reserved /\ released' = released
    BY DEF Midnight
  <2> QED BY <2>2, <2>3, <2>4 DEF CapInv, FirstDayCapped
<1> QED BY <1>2, <1>3, <1>4, <1>5 DEF CapInv

LEMMA CapStep == ASSUME ~MayMisread PROVE CapInv /\ [CapNext]_capVars => CapInv'
<1> SUFFICES ASSUME CapInv, [CapNext]_capVars PROVE CapInv'
  OBVIOUS
<1>1. ASSUME NEW s \in Session, RunStep(s) PROVE CapInv'
  <2>1. CapTypeOK' /\ RunsShaped' /\ OneInside'
    BY <1>1, TypeStep, ShapeStep, InsideStaysOne DEF CapInv
  <2>2. ChargesCovered' /\ FirstDayCapped'
    BY <1>1, BooksStep, FirstDayStep DEF CapInv
  <2> QED BY <2>1, <2>2 DEF CapInv
<1>2. CASE UNCHANGED capVars
  BY <1>2 DEF capVars, CapInv, CapTypeOK, RunsShaped, OneInside, ChargesCovered, FirstDayCapped,
     Charges, Charge, Total, Pairs
<1> QED BY <1>1, <1>2, MidnightStep DEF CapNext

\* Where no read of a checkpoint fails, the invariant holds in every reachable state.
THEOREM CapKept == ASSUME ~MayMisread PROVE CapSpec => []CapInv
BY CapInitial, CapStep, PTL DEF CapSpec

LEMMA PotentialCharged ==
  ASSUME CapInv, NEW s \in Session
  PROVE  Potential(s) \in Nat /\ Potential(s) <= Charge(s)
<1>1. /\ Size[s] \in Nat \ {0} /\ asked[s] \in 0..Size[s] /\ reservation[s] \in {0, Size[s]}
      /\ run[s] \in {"off", "starting", "fresh", "on", "ending"}
      /\ checkpoint[s] \in {"none", "open", "complete"}
  BY SizeAssumption DEF CapInv, CapTypeOK
<1>2. /\ run[s] \in {"starting", "fresh"} => checkpoint[s] = "none"
      /\ run[s] = "starting" => reservation[s] = 0
  BY DEF CapInv, RunsShaped
<1>3. CASE startedOn[s] = NoDay \/ run[s] \in {"fresh", "starting"}
  BY <1>1, <1>2, <1>3 DEF Potential, Charge
<1>4. CASE startedOn[s] # NoDay /\ run[s] \notin {"fresh", "starting"}
  BY <1>1, <1>2, <1>4 DEF Potential, Charge
<1> QED BY <1>3, <1>4

\* What some of the Sessions can ask is no more than all the charges.
LEMMA PotentialsCharged ==
  ASSUME CapInv, NEW S, S \subseteq Session
  PROVE  PotentialOf(S) \in Nat /\ PotentialOf(S) + Total(released) <= Total(reserved)
<1> DEFINE f == [s \in S |-> Potential(s)]
<1>1. f \in [S -> Nat] /\ Charges \in [Session -> Nat] /\ \A s \in S : f[s] <= Charges[s]
  BY PotentialCharged, ChargeIsNat DEF CapInv, Charges
<1>2. IsFiniteSet(S) /\ IsFiniteSet(Session)
  BY SizeAssumption, FS_Subset
<1> HIDE DEF f
<1>3. Total(f) <= Total(Charges)
  BY <1>1, <1>2, TotalMonotone
<1>4. Total(f) \in Nat /\ Total(Charges) \in Nat
  BY <1>1, <1>2, PairsFinite
<1>5. Total(released) \in Nat /\ Total(reserved) \in Nat
  BY DaysFinite, PairsFinite DEF CapInv, CapTypeOK
<1>6. Total(Charges) + Total(released) <= Total(reserved)
  BY DEF CapInv, ChargesCovered
<1>7. PotentialOf(S) = Total(f)
  BY DEF f, PotentialOf
<1> QED BY <1>3, <1>4, <1>5, <1>6, <1>7

\* Where no read of a checkpoint fails, the books cover, for any number of Sessions and over
\* all days, what the Sessions can still ask or have asked: no release is doubled, and none
\* is handed out for a run that comes back, whatever crashes and resumes.
THEOREM BooksCover == ASSUME ~MayMisread PROVE CapSpec => []BooksCoverSessions
<1>1. CapInv => BooksCoverSessions
  BY PotentialsCharged DEF BooksCoverSessions
<1> QED BY <1>1, CapKept, PTL

\* Where no read of a checkpoint fails, the Sessions started on the first day never get to
\* ask more than the cap, however their starts, crashes, resumes and releases interleave.
THEOREM CapHoldsOnTheFirstDay == ASSUME ~MayMisread PROVE CapSpec => []CapHoldsBeforeMidnight
<1>1. CapInv => CapHoldsBeforeMidnight
  <2> SUFFICES ASSUME CapInv, day = 1 PROVE CapHolds
    BY DEF CapHoldsBeforeMidnight
  <2> DEFINE S == {s \in Session : startedOn[s] = day}
  <2>1. /\ reserved \in [Day -> Nat] /\ released \in [Day -> Nat]
        /\ \A d \in Day \ {1} : reserved[d] = 0 /\ released[d] = 0
        /\ reserved[1] <= Cap + released[1]
    <3>1. \A d \in Day \ {1} : d > day
      BY DEF Day
    <3> QED BY <3>1 DEF CapInv, CapTypeOK, FirstDayCapped
  <2>2. Total(reserved) = reserved[1] /\ Total(released) = released[1]
    BY <2>1, DaysFinite, TotalOfOne
  <2>3. PotentialOf(S) \in Nat /\ PotentialOf(S) + Total(released) <= Total(reserved)
    BY PotentialsCharged
  <2>4. reserved[1] \in Nat /\ released[1] \in Nat /\ Cap \in Nat
    BY <2>1, DaysFinite, CapAssumption
  <2>5. PotentialOf(S) <= Cap
    BY <2>1, <2>2, <2>3, <2>4
  <2> QED BY <2>5 DEF CapHolds
<1> QED BY <1>1, CapKept, PTL
-----------------------------------------------------------------------------
(* Day by day, whatever a read of a checkpoint says.                       *)

\* No day's books pass the cap by more than what was given back on it, nothing is booked
\* ahead, and a start inside the lock knows today's count but for what midnight cleared.
DaysCapped == /\ \A d \in Day : /\ reserved[d] <= Cap + released[d]
                                /\ d > day => reserved[d] = 0
              /\ \A s \in inside : reserved[day] <= counted[s] + released[day]

\* The sizes of the Sessions last started on the day.
SizesOn(d) == [s \in Session |-> IF startedOn[s] = d THEN Size[s] ELSE 0]

StartsBooked == \A d \in Day : Total(SizesOn(d)) <= reserved[d]

DayInv == CapTypeOK /\ OneInside /\ DaysCapped /\ StartsBooked

LEMMA SizesTyped ==
  ASSUME NEW d PROVE SizesOn(d) \in [Session -> Nat]
BY SizeAssumption DEF SizesOn

LEMMA DayInitial == CapInit => DayInv
<1> SUFFICES ASSUME CapInit PROVE DayInv
  OBVIOUS
<1>1. CapTypeOK /\ OneInside
  BY CapInitial DEF CapInv
<1>2. DaysCapped
  BY CapAssumption DEF CapInit, DaysCapped
<1>3. StartsBooked
  <2> SUFFICES ASSUME NEW d \in Day PROVE Total(SizesOn(d)) <= reserved[d]
    BY DEF StartsBooked
  <2>1. \A s \in Session : SizesOn(d)[s] = 0
    BY DEF CapInit, SizesOn, Day, NoDay
  <2>2. Total(SizesOn(d)) = 0
    BY <2>1, SizesTyped, TotalZero
  <2> QED BY <2>2 DEF CapInit
<1> QED BY <1>1, <1>2, <1>3 DEF DayInv

\* The books of today's starts only ever rise by what a start inside the lock has counted
\* room for, and a release makes room on its own day.
LEMMA DaysCappedStep ==
  ASSUME DayInv, NEW s \in Session, RunStep(s) PROVE DaysCapped'
<1>1. /\ Size[s] \in Nat /\ Cap \in Nat /\ day \in Day
      /\ reserved \in [Day -> Nat] /\ released \in [Day -> Nat] /\ counted \in [Session -> Nat]
      /\ inside \subseteq Session
  BY SizeAssumption, CapAssumption DEF DayInv, CapTypeOK
<1>2. day \in Nat /\ day' = day
  BY <1>1, CapAssumption DEF Day, RunStep, StartRun, Reserve, FirstCheckpoint, AskQuestion,
     Complete, Stop, EndRun, Resume, Crash
<1>3. reserved[day] \in Nat /\ released[day] \in Nat
  BY <1>1
<1> USE <1>1, <1>2, <1>3 DEF DayInv, DaysCapped
<1>4. CASE StartRun(s)
  <2>1. inside' = {s} /\ counted'[s] = QuestionsToday /\ UNCHANGED <<reserved, released>>
    BY <1>4 DEF StartRun, LockIsFree
  <2>2. reserved[day] <= QuestionsToday + released[day]
    BY DEF QuestionsToday
  <2> QED BY <2>1, <2>2
<1>5. CASE Reserve(s)
  <2>1. inside' = {} /\ released' = released /\ s \in inside
    BY <1>5 DEF Reserve, OneInside
  <2>2. CASE reserved' = reserved
    BY <2>1, <2>2
  <2>3. CASE ReserveFits(s) /\ reserved' = [reserved EXCEPT ![day] = @ + Size[s]]
    <3>1. counted[s] + Size[s] <= Cap /\ counted[s] \in Nat
      BY <2>3 DEF ReserveFits
    <3>2. reserved'[day] <= Cap + released'[day]
      BY <2>1, <2>3, <3>1
    <3>3. \A d \in Day \ {day} : reserved'[d] = reserved[d]
      BY <2>3
    <3> QED BY <2>1, <3>2, <3>3
  <2> QED BY <1>5, <2>2, <2>3 DEF Reserve
<1>6. CASE EndRun(s)
  <2>1. PICK seen \in {"none", "open", "complete"} :
          released' = [released EXCEPT ![day] = @ + Unused(s, seen)]
    BY <1>6 DEF EndRun, Seen, CapTypeOK
  <2>2. Unused(s, seen) \in Nat
    BY UnusedIsNat
  <2>3. reserved' = reserved /\ inside' = inside /\ counted' = counted
    BY <1>6 DEF EndRun
  <2>4. \A d \in Day : /\ released'[d] \in Nat /\ released[d] \in Nat /\ reserved[d] \in Nat
                       /\ released'[d] >= released[d]
    BY <2>1, <2>2
  <2>5. \A d \in Day : reserved[d] <= Cap + released'[d]
    BY <2>4
  <2>6. \A q \in inside : counted[q] \in Nat /\ reserved[day] <= counted[q] + released'[day]
    BY <2>4
  <2> QED BY <2>3, <2>5, <2>6
<1>7. CASE Crash(s)
  <2>1. UNCHANGED <<reserved, released>> /\ \A q \in inside' : q \in inside /\ counted'[q] = counted[q]
    BY <1>7 DEF Crash, CapTypeOK
  <2> QED BY <2>1
<1>8. CASE FirstCheckpoint(s) \/ AskQuestion(s) \/ Complete(s) \/ Stop(s) \/ Resume(s)
  BY <1>8 DEF FirstCheckpoint, AskQuestion, Complete, Stop, Resume
<1> QED BY <1>4, <1>5, <1>6, <1>7, <1>8 DEF RunStep

\* A start moves its Session to today, and books its size there.
LEMMA StartsBookedStep ==
  ASSUME DayInv, NEW s \in Session, RunStep(s) PROVE StartsBooked'
<1>1. /\ Size[s] \in Nat /\ day \in Day /\ reserved \in [Day -> Nat]
      /\ startedOn \in [Session -> Day \cup {NoDay}] /\ IsFiniteSet(Session)
  BY SizeAssumption DEF DayInv, CapTypeOK
<1>2. CASE UNCHANGED <<reserved, startedOn>>
  BY <1>2 DEF DayInv, StartsBooked, SizesOn
<1>3. CASE /\ reserved' = [reserved EXCEPT ![day] = @ + Size[s]]
           /\ startedOn' = [startedOn EXCEPT ![s] = day]
  <2> SUFFICES ASSUME NEW d \in Day PROVE Total(SizesOn(d)') <= reserved'[d]
    BY DEF StartsBooked, SizesOn
  <2> DEFINE f == SizesOn(d)
             g == [q \in Session |-> IF startedOn'[q] = d THEN Size[q] ELSE 0]
  <2>1. f \in [Session -> Nat] /\ g \in [Session -> Nat]
    BY SizeAssumption, SizesTyped
  <2>2. g[s] = (IF d = day THEN Size[s] ELSE 0) /\ \A q \in Session \ {s} : f[q] = g[q]
    BY <1>1, <1>3 DEF SizesOn
  <2>3. SizesOn(d)' = g
    BY DEF SizesOn
  <2>4. f[s] \in Nat /\ reserved[d] \in Nat
    BY <1>1, <2>1
  <2>5. Total(f) <= reserved[d]
    BY DEF DayInv, StartsBooked
  <2>6. reserved'[d] = reserved[d] + (IF d = day THEN Size[s] ELSE 0)
    BY <1>1, <1>3
  <2> HIDE DEF f, g
  <2>7. Total(f) + g[s] = Total(g) + f[s]
    BY <1>1, <2>1, <2>2, TotalChanged
  <2>8. Total(f) \in Nat /\ Total(g) \in Nat
    BY <1>1, <2>1, PairsFinite
  <2>9. Total(g) <= reserved'[d]
    BY <1>1, <2>2, <2>4, <2>5, <2>6, <2>7, <2>8
  <2> QED BY <2>3, <2>9
<1>4. \/ UNCHANGED <<reserved, startedOn>>
      \/ /\ reserved' = [reserved EXCEPT ![day] = @ + Size[s]]
         /\ startedOn' = [startedOn EXCEPT ![s] = day]
  BY DEF RunStep, StartRun, Reserve, FirstCheckpoint, AskQuestion, Complete, Stop, EndRun, Resume,
     Crash
<1> QED BY <1>2, <1>3, <1>4

\* Midnight opens a day on which nothing is booked.
LEMMA DayMidnight == DayInv /\ Midnight => DayInv'
<1> SUFFICES ASSUME DayInv, Midnight PROVE DayInv'
  OBVIOUS
<1>1. /\ day \in Nat /\ day' = day + 1 /\ day' \in Day
      /\ UNCHANGED <<reserved, released, inside, counted, startedOn>>
      /\ released \in [Day -> Nat] /\ counted \in [Session -> Nat] /\ inside \subseteq Session
  BY CapAssumption DEF DayInv, CapTypeOK, Midnight, Day
<1>2. CapTypeOK' /\ OneInside'
  BY <1>1 DEF DayInv, CapTypeOK, OneInside, Midnight
<1>3. DaysCapped'
  <2>1. \A d \in Day : d \in Nat
    BY DEF Day
  <2>2. reserved[day'] = 0 /\ released[day'] \in Nat /\ \A s \in inside : counted[s] \in Nat
    BY <1>1, <2>1 DEF DayInv, DaysCapped
  <2> QED BY <1>1, <2>1, <2>2 DEF DayInv, DaysCapped
<1>4. StartsBooked'
  BY <1>1 DEF DayInv, StartsBooked, SizesOn
<1> QED BY <1>2, <1>3, <1>4 DEF DayInv

LEMMA DayStep == DayInv /\ [CapNext]_capVars => DayInv'
<1> SUFFICES ASSUME DayInv, [CapNext]_capVars PROVE DayInv'
  OBVIOUS
<1>1. ASSUME NEW s \in Session, RunStep(s) PROVE DayInv'
  <2>1. CapTypeOK' /\ OneInside'
    BY <1>1, TypeStep, InsideStaysOne DEF DayInv
  <2> QED BY <1>1, <2>1, DaysCappedStep, StartsBookedStep DEF DayInv
<1>2. CASE UNCHANGED capVars
  BY <1>2 DEF capVars, DayInv, CapTypeOK, OneInside, DaysCapped, StartsBooked, SizesOn
<1> QED BY <1>1, <1>2, DayMidnight DEF CapNext

\* What a Session can ask is never more than its size.
LEMMA PotentialWithinSize ==
  ASSUME CapTypeOK, NEW s \in Session
  PROVE  Potential(s) \in Nat /\ Potential(s) <= Size[s]
<1>1. /\ Size[s] \in Nat \ {0} /\ asked[s] \in 0..Size[s] /\ reservation[s] \in {0, Size[s]}
  BY SizeAssumption DEF CapTypeOK
<1> QED BY <1>1 DEF Potential

\* On every day, and whatever reads of a checkpoint fail, the Sessions started on it get to
\* ask no more than the cap and what was given back on it: neither interleaved starts nor
\* crashes, resumes, restarts or a midnight inside the lock pass the cap by anything else
\* (usage.py:1227-1233, web_session_driver.py:325-329).
THEOREM OvershootBounded == CapSpec => []OvershootIsGivenBack
<1>1. CapInit => DayInv
  BY DayInitial
<1>2. DayInv /\ [CapNext]_capVars => DayInv'
  BY DayStep
<1>3. DayInv => OvershootIsGivenBack
  <2> SUFFICES ASSUME DayInv, NEW d \in Day
      PROVE  PotentialOf({s \in Session : startedOn[s] = d}) <= Cap + released[d]
    BY DEF OvershootIsGivenBack
  <2> DEFINE S == {s \in Session : startedOn[s] = d}
             f == [s \in S |-> Potential(s)]
  <2>1. f \in [S -> Nat] /\ SizesOn(d) \in [Session -> Nat] /\ \A s \in S : f[s] <= SizesOn(d)[s]
    BY PotentialWithinSize, SizesTyped DEF DayInv, SizesOn
  <2>2. IsFiniteSet(Session) /\ S \subseteq Session /\ IsFiniteSet(S)
    BY SizeAssumption, FS_Subset
  <2>3. PotentialOf(S) = Total(f)
    BY DEF PotentialOf
  <2> HIDE DEF S, f
  <2>4. Total(f) <= Total(SizesOn(d))
    BY <2>1, <2>2, TotalMonotone
  <2>5. Total(f) \in Nat /\ Total(SizesOn(d)) \in Nat
    BY <2>1, <2>2, PairsFinite
  <2>6. Total(SizesOn(d)) <= reserved[d] /\ reserved[d] <= Cap + released[d]
    BY DEF DayInv, DaysCapped, StartsBooked
  <2>7. reserved[d] \in Nat /\ released[d] \in Nat /\ Cap \in Nat
    BY CapAssumption DEF DayInv, CapTypeOK
  <2>8. PotentialOf(S) <= Cap + released[d]
    BY <2>3, <2>4, <2>5, <2>6, <2>7
  <2> QED BY <2>8 DEF S
<1> QED BY <1>1, <1>2, <1>3, PTL DEF CapSpec
=============================================================================
