---------------------------- MODULE UsageLedger ----------------------------
(***************************************************************************)
(* The accounting of billed provider calls (usage.py; the call boundary in *)
(* llm.py): the gate before a call, the row after it, the fault that is    *)
(* latched when the row cannot be written, and the reconcile that replays  *)
(* held rows. Callers are threads of one process and share its fault list; *)
(* reconciles are processes of their own (`coach usage --reconcile`) that  *)
(* share only the files. Every file access is a step of its own.           *)
(*                                                                         *)
(* A row is known by the call it accounts for. A fault's id is that call:  *)
(* one call latches at most one fault.                                     *)
(***************************************************************************)
EXTENDS Naturals, FiniteSets

CONSTANTS Caller,      \* threads of the process that make metered calls
          Reconciler,  \* reconcile processes
          MaxCalls,    \* bound: calls per caller
          MaxCrashes,  \* bound: crashes of the calling process, of a reconcile
          MaxMisreads, \* bound: reconciles that fail to read the ledger
          MayTear      \* whether a failing append can leave part of a line

ASSUME BoundsAssumption == /\ MaxCalls \in Nat /\ MaxCrashes \in Nat /\ MaxMisreads \in Nat
                           /\ MayTear \in BOOLEAN
\* The lock's holder when nobody holds it is no process.
ASSUME LockAssumption == "nobody" \notin Reconciler

Call == Caller \X (1..MaxCalls)

VARIABLES ledgerOk, sidecarOk,  \* the environment: would a write succeed now
          rows,       \* [Call -> rows of the call in the ledger that parse]
          replayed,   \* calls whose row in the ledger carries its fault id
          torn,       \* the ledger ends in part of a line
          sidecar,    \* faults parked on disk
          memory,     \* _FAULTS entries not parked
          proven,     \* the ledger's path is in _PROVEN_WRITABLE
          pc, calls,  \* callers: where they stand, calls begun
          sawFault,   \* what the gate has found so far
          lock,       \* who holds the ledger's write lock, or "nobody"
          rpc, held, todo, done, kept,  \* reconcilers: place and locals
          crashes,
          billed,     \* history: calls the provider was paid for
          unmeasured, \* history: of those, calls whose cost was not stated
          forgotten,  \* history: spend that a crash took with the process
          readOnce,   \* history: faults some reconcile has read
          misreads,   \* history: reconciles that could not read the ledger
          latchedAt   \* history: faults held when the caller's gate began

files == <<ledgerOk, sidecarOk, rows, replayed, torn, sidecar>>
callers == <<memory, proven, pc, calls, sawFault, latchedAt, billed, unmeasured>>
reconcilers == <<lock, rpc, held, todo, done, kept, readOnce, misreads>>
vars == <<files, callers, reconcilers, crashes, forgotten>>

CurrentCall(t) == <<t, calls[t]>>

TypeOK ==
  /\ ledgerOk \in BOOLEAN /\ sidecarOk \in BOOLEAN
  /\ rows \in [Call -> 0..(1 + MaxMisreads)]
  /\ torn \in BOOLEAN /\ proven \in BOOLEAN
  /\ pc \in [Caller -> {"idle", "gate", "refused", "calling", "billed", "flush"}]
  /\ calls \in [Caller -> 0..MaxCalls]
  /\ sawFault \in [Caller -> BOOLEAN]
  /\ lock \in Reconciler \cup {"nobody"}
  /\ rpc \in [Reconciler -> {"idle", "locked", "read", "replay", "rewrite"}]
  /\ crashes \in 0..MaxCrashes /\ misreads \in 0..MaxMisreads
  /\ \A s \in {replayed, sidecar, memory, billed, unmeasured, forgotten, readOnce} : s \subseteq Call
  /\ \A f \in {held, todo, done, kept} : f \in [Reconciler -> SUBSET Call]
  /\ latchedAt \in [Caller -> SUBSET Call]

Init == /\ ledgerOk \in BOOLEAN /\ sidecarOk \in BOOLEAN
        /\ rows = [k \in Call |-> 0] /\ replayed = {} /\ torn = FALSE
        /\ sidecar = {} /\ memory = {} /\ proven = FALSE
        /\ pc = [t \in Caller |-> "idle"] /\ calls = [t \in Caller |-> 0]
        /\ sawFault = [t \in Caller |-> FALSE]
        /\ latchedAt = [t \in Caller |-> {}]
        /\ lock = "nobody" /\ rpc = [r \in Reconciler |-> "idle"]
        /\ held = [r \in Reconciler |-> {}] /\ todo = held /\ done = held /\ kept = held
        /\ crashes = 0 /\ misreads = 0
        /\ billed = {} /\ unmeasured = {} /\ forgotten = {} /\ readOnce = {}
-----------------------------------------------------------------------------
(* Files.                                                                  *)

\* A row appended after part of a line shares its line and does not parse.
Recorded(k) == /\ rows' = IF torn THEN rows ELSE [rows EXCEPT ![k] = @ + 1]
               /\ torn' = FALSE

\* _write_row on the ledger: succeeds, or raises, perhaps midway.
AppendRow(k) == ledgerOk /\ Recorded(k)
AppendFails == ~ledgerOk /\ UNCHANGED rows /\ torn' \in {torn, torn \/ MayTear}

\* _flush_faults, one hold of _FAULT_LOCK: park what is not parked.
FlushFaults == IF sidecarOk
                 THEN sidecar' = sidecar \cup memory /\ memory' = {}
                 ELSE UNCHANGED <<sidecar, memory>>

Repair == /\ \/ ledgerOk' = ~ledgerOk /\ UNCHANGED sidecarOk
             \/ sidecarOk' = ~sidecarOk /\ UNCHANGED ledgerOk
          /\ UNCHANGED <<rows, replayed, torn, sidecar, callers, reconcilers, crashes, forgotten>>
-----------------------------------------------------------------------------
(* A metered call: OpenAICompatibleClient._create.                         *)

Step(t, from, to) == pc[t] = from /\ pc' = [pc EXCEPT ![t] = to]

\* accounting_gate, first half: the sidecar is read; one that cannot be is a fault ...
GateReadsSidecar(t) == /\ calls[t] < MaxCalls
                       /\ Step(t, "idle", "gate")
                       /\ sawFault' \in {[sawFault EXCEPT ![t] = s] : s \in {sidecar # {}, TRUE}}
                       /\ latchedAt' = [latchedAt EXCEPT ![t] = sidecar \cup memory]
                       /\ UNCHANGED <<files, memory, proven, calls, billed, unmeasured,
                                      reconcilers, crashes, forgotten>>

MayCall == proven \/ ledgerOk

\* ... second half: the faults in memory, then the path, probed until it works. The
\* probe reads the ledger too, and may fail on that alone.
GateReadsMemory(t) ==
  /\ \/ /\ sawFault[t] \/ memory # {}
        /\ Step(t, "gate", "refused")
        /\ UNCHANGED <<calls, proven>>
     \/ /\ ~sawFault[t] /\ memory = {} /\ ~proven
        /\ Step(t, "gate", "idle")
        /\ UNCHANGED <<calls, proven>>
     \/ /\ ~sawFault[t] /\ memory = {} /\ MayCall
        /\ Step(t, "gate", "calling")
        /\ calls' = [calls EXCEPT ![t] = @ + 1]
        /\ proven' = TRUE
  /\ UNCHANGED <<files, memory, sawFault, latchedAt, billed, unmeasured, reconcilers, crashes, forgotten>>

\* A refusal retries the parking before it is raised.
Refuse(t) == /\ Step(t, "refused", "idle")
             /\ FlushFaults
             /\ UNCHANGED <<ledgerOk, sidecarOk, rows, replayed, torn, proven, calls, sawFault,
                            latchedAt, billed, unmeasured, reconcilers, crashes, forgotten>>

\* The provider answers and is paid; its reply may state no token count.
ProviderAnswers(t) ==
  /\ Step(t, "calling", "billed")
  /\ billed' = billed \cup {CurrentCall(t)}
  /\ unmeasured' \in {unmeasured, unmeasured \cup {CurrentCall(t)}}
  /\ UNCHANGED <<files, memory, proven, calls, sawFault, latchedAt, reconcilers, crashes, forgotten>>

Latch(t) == /\ memory' = memory \cup {CurrentCall(t)}
            /\ Step(t, "billed", "flush")

\* _record_usage: the row is written, or the fault is latched in memory.
RecordUsage(t) ==
  /\ \/ /\ CurrentCall(t) \notin unmeasured
        /\ \/ AppendRow(CurrentCall(t)) /\ Step(t, "billed", "idle") /\ UNCHANGED memory
           \/ AppendFails /\ Latch(t)
     \/ /\ CurrentCall(t) \in unmeasured
        /\ Latch(t)
        /\ UNCHANGED <<rows, torn>>
  /\ UNCHANGED <<ledgerOk, sidecarOk, replayed, sidecar, proven, calls, sawFault, latchedAt,
                 billed, unmeasured, reconcilers, crashes, forgotten>>

ParkFault(t) == /\ Step(t, "flush", "idle")
                /\ FlushFaults
                /\ UNCHANGED <<ledgerOk, sidecarOk, rows, replayed, torn, proven, calls, sawFault,
                               latchedAt, billed, unmeasured, reconcilers, crashes, forgotten>>

\* The calling process dies and starts again: its memory is gone.
CrashCallers ==
  /\ crashes < MaxCrashes /\ crashes' = crashes + 1
  /\ forgotten' = forgotten \cup memory \cup {CurrentCall(t) : t \in {u \in Caller : pc[u] \in {"calling", "billed"}}}
  /\ memory' = {} /\ proven' = FALSE
  /\ pc' = [t \in Caller |-> "idle"]
  /\ UNCHANGED <<files, calls, sawFault, latchedAt, billed, unmeasured, reconcilers>>
-----------------------------------------------------------------------------
(* reconcile_accounting, under the write lock from the read to the rewrite. *)

RStep(r, from, to) == rpc[r] = from /\ rpc' = [rpc EXCEPT ![r] = to]

TakeLock(r) == /\ lock = "nobody" /\ lock' = r
               /\ RStep(r, "idle", "locked")
               /\ UNCHANGED <<files, callers, held, todo, done, kept, readOnce, misreads, crashes, forgotten>>

\* The held rows are read. A sidecar with nothing in it, or one that cannot be read,
\* ends the reconcile with nothing changed.
ReadFaults(r) ==
  /\ \/ /\ sidecar # {}
        /\ RStep(r, "locked", "read")
        /\ held' = [held EXCEPT ![r] = sidecar]
        /\ readOnce' = readOnce \cup sidecar
        /\ UNCHANGED lock
     \/ /\ RStep(r, "locked", "idle")
        /\ lock' = "nobody"
        /\ UNCHANGED <<held, readOnce>>
  /\ UNCHANGED <<files, callers, todo, done, kept, misreads, crashes, forgotten>>

FindsReplayed(r, found) == done' = [done EXCEPT ![r] = found]

ForgetReplayed(r) == FindsReplayed(r, {}) /\ UNCHANGED misreads

\* _replayed_fault_ids: what an interrupted reconcile has already folded in. A ledger
\* that cannot be read is logged and tells of nothing (_all_rows).
ReadReplayed(r) ==
  \/ FindsReplayed(r, replayed) /\ UNCHANGED misreads
  \/ /\ misreads < MaxMisreads
     /\ FindsReplayed(r, {})
     /\ misreads' = misreads + 1

ReadLedger(r) == /\ RStep(r, "read", "replay")
                 /\ ReadReplayed(r)
                 /\ todo' = [todo EXCEPT ![r] = held[r] \ unmeasured]
                 /\ kept' = [kept EXCEPT ![r] = {}]
                 /\ UNCHANGED <<files, callers, lock, held, readOnce, crashes, forgotten>>

\* One held row: skipped when already in the ledger, replayed with its fault id,
\* or the first failure, which keeps it and every row after it held.
ReplayRow(r, k) ==
  /\ rpc[r] = "replay" /\ k \in todo[r]
  /\ \/ /\ k \in done[r]
        /\ todo' = [todo EXCEPT ![r] = @ \ {k}]
        /\ UNCHANGED <<rows, replayed, torn, done, kept>>
     \/ /\ k \notin done[r]
        /\ AppendRow(k)
        /\ replayed' = IF torn THEN replayed ELSE replayed \cup {k}
        /\ done' = [done EXCEPT ![r] = @ \cup {k}]
        /\ todo' = [todo EXCEPT ![r] = @ \ {k}]
        /\ UNCHANGED kept
     \/ /\ k \notin done[r]
        /\ AppendFails
        /\ kept' = [kept EXCEPT ![r] = todo[r]]
        /\ todo' = [todo EXCEPT ![r] = {}]
        /\ UNCHANGED <<replayed, done>>
  /\ UNCHANGED <<ledgerOk, sidecarOk, sidecar, callers, lock, rpc, held, readOnce, misreads, crashes,
                 forgotten>>

EmptySidecar(r) == sidecar' = {}

\* _rewrite_fault_sidecar publishes exactly what could not be replayed.
KeepUnreplayed(r) == sidecar' = kept[r]

RewriteSidecar(r) ==
  /\ todo[r] = {}
  /\ RStep(r, "replay", "idle")
  /\ lock' = "nobody"
  /\ IF sidecarOk THEN KeepUnreplayed(r) ELSE UNCHANGED sidecar
  /\ UNCHANGED <<ledgerOk, sidecarOk, rows, replayed, torn, callers, held, todo, done, kept,
                 readOnce, misreads, crashes, forgotten>>

\* A reconcile killed at any point; the system releases its flock.
CrashReconcile(r) == /\ crashes < MaxCrashes /\ crashes' = crashes + 1
                     /\ rpc[r] # "idle" /\ rpc' = [rpc EXCEPT ![r] = "idle"]
                     /\ lock' = "nobody"
                     /\ UNCHANGED <<files, callers, held, todo, done, kept, readOnce, misreads, forgotten>>
-----------------------------------------------------------------------------
Next == \/ Repair \/ CrashCallers
        \/ \E t \in Caller : \/ GateReadsSidecar(t) \/ GateReadsMemory(t) \/ Refuse(t)
                             \/ ProviderAnswers(t) \/ RecordUsage(t) \/ ParkFault(t)
        \/ \E r \in Reconciler : \/ TakeLock(r) \/ ReadFaults(r) \/ ReadLedger(r)
                                 \/ \E k \in Call : ReplayRow(r, k)
                                 \/ RewriteSidecar(r) \/ CrashReconcile(r)

Spec == Init /\ [][Next]_vars
-----------------------------------------------------------------------------
(* Properties.                                                             *)

\* A billed call is counted once, and once more at most for each reconcile that could
\* not read the ledger: neither a replay of a row that did reach it, nor a second
\* reconcile after a crash between the replay and the rewrite, invents spend
\* (usage.py:789-797, 835-837).
SpendCountedOnce == \A k \in Call :
  /\ rows[k] <= 1 + misreads
  /\ rows[k] >= 1 /\ k \notin replayed => k \notin sidecar \cup memory

\* What the code says without that exception: a replay that landed "cannot bill the same
\* call a second time" (usage.py:837).
BilledOnce == \A k \in Call : rows[k] <= 1

\* "Reconciliation replays rather than forgives" (usage.py:784): a held row that
\* a reconcile has read is in the ledger or still held, whatever failed midway.
ReplayedNotForgiven == readOnce \ unmeasured \subseteq
  {k \in Call : rows[k] >= 1} \cup sidecar \cup memory

\* Every billed call whose cost is known is in the ledger, held as a fault, or
\* being written; only a crash takes the ones a process had in memory.
\* (usage.py:789-792: "a fault another process parks between the read and the
\* rewrite" must not be "deleted by that rewrite").
SpendAccounted == billed \ (forgotten \cup unmeasured) \subseteq
  {k \in Call : rows[k] >= 1} \cup sidecar \cup memory
  \cup {CurrentCall(t) : t \in {u \in Caller : pc[u] = "billed"}}

\* What SpendAccounted needs of the other processes, and the code does not see to: no
\* fault is parked between a reconcile's read and its rewrite (usage.py:858).
NoneParkedMeanwhile ==
  (\E r \in Reconciler : rpc[r] \in {"read", "replay"}) => sidecar' \subseteq sidecar

\* What LatchBlocks needs: no fault is parked between a gate's two reads (usage.py:662).
NoneParkedInGate == (\E t \in Caller : pc[t] = "gate") => sidecar' \subseteq sidecar

\* "So a failed write latches, and a latch blocks metered work" (usage.py:456): a
\* caller past the gate found no fault that was latched before and is held still.
LatchBlocks == \A t \in Caller :
  pc[t] = "calling" => latchedAt[t] \cap (sidecar \cup memory) = {}
=============================================================================
