-------------------------- MODULE CheckpointClaim --------------------------
(***************************************************************************)
(* Who drives one checkpoint thread. Shells resume or start a Session      *)
(* under a flock on a sidecar of the checkpoint file (cli_session.py,      *)
(* filelock.py); the server's run threads, one at a time for an id         *)
(* (SessionLease), take no such claim (web_session_driver.py); and the     *)
(* server sweeps stale threads when it starts (web_ops.py).                *)
(*                                                                         *)
(* LangGraph loads a thread when a stream begins and from then on writes   *)
(* what it has in memory, the newest checkpoint being the thread. A thread *)
(* is kept as the answers in its transcript and its status. A file system  *)
(* that refuses locks is left out.                                         *)
(***************************************************************************)
EXTENDS Naturals

CONSTANTS Shell,       \* coach session processes on this id
          Run,         \* the server's run of it, if any: the registry grants the id
                       \* once, so it has at most one element
          Unclaimed,   \* no process, and no shell
          MaxAnswers   \* bound: questions resolved over all drives

Driver == Shell \cup Run

\* What the proofs rest on: a process is on one surface, and the registry's grant.
Surfaces == /\ Unclaimed \notin Shell \cup Run /\ Shell \cap Run = {}
            /\ \A q, r \in Run : q = r
            /\ MaxAnswers \in Nat

VARIABLES thread,     \* the newest checkpoint
          stale,      \* whether it is older than checkpoint_ttl_seconds
          claim,      \* the process that holds the flock
          pc,         \* where each driver is
          resume,     \* whether it resumes or starts afresh
          memory,     \* what its graph holds
          condemned,  \* whether a sweep under way found the thread stale
          answered,   \* history: questions resolved so far
          crossed     \* history: whether a shell and the server were both at work
                      \* since nobody was

claimVars == <<thread, stale, claim, pc, resume, memory, condemned, answered, crossed>>

Thread == [items : SUBSET (1..MaxAnswers), status : {"none", "active", "complete"}]
NoThread == [items |-> {}, status |-> "none"]
NewThread == [items |-> {}, status |-> "active"]

ClaimTypeOK == /\ thread \in Thread /\ stale \in BOOLEAN
               /\ claim \in Shell \cup {Unclaimed}
               /\ pc \in [Driver -> {"out", "entered", "cleared", "driving"}]
               /\ resume \in [Driver -> BOOLEAN]
               /\ memory \in [Driver -> Thread]
               /\ condemned \in BOOLEAN
               /\ answered \in 0..MaxAnswers /\ crossed \in BOOLEAN

ClaimInit == /\ thread = NoThread /\ stale = FALSE
             /\ claim = Unclaimed
             /\ pc = [d \in Driver |-> "out"]
             /\ resume = [d \in Driver |-> FALSE]
             /\ memory = [d \in Driver |-> NoThread]
             /\ condemned = FALSE
             /\ answered = 0 /\ crossed = FALSE

ShellsAtWork == \E s \in Shell : pc[s] # "out"
ServerAtWork == condemned \/ \E r \in Run : pc[r] # "out"

Crossing == crossed' = /\ ShellsAtWork' \/ ServerAtWork'
                       /\ crossed \/ (ShellsAtWork' /\ ServerAtWork')
-----------------------------------------------------------------------------
(* A drive.                                                                *)

MoveTo(d, place) == pc' = [pc EXCEPT ![d] = place]

\* Whether the flock is to be had. A driver that is told no prints so and is gone.
Claimable == claim = Unclaimed

Claim(s) == /\ s \in Shell /\ pc[s] = "out" /\ Claimable
            /\ claim' = s /\ MoveTo(s, "entered")
            /\ \E again \in BOOLEAN : resume' = [resume EXCEPT ![s] = again]
            /\ UNCHANGED <<thread, stale, memory, condemned, answered>> /\ Crossing

\* The registry has granted the id; the server serves once its start-up sweep is done.
StartRun(r) == /\ r \in Run /\ pc[r] = "out" /\ ~condemned
               /\ MoveTo(r, "entered")
               /\ \E again \in BOOLEAN : resume' = [resume EXCEPT ![r] = again]
               /\ UNCHANGED <<thread, stale, claim, memory, condemned, answered>> /\ Crossing

\* The process ends or the with-block is left, for whatever reason: the kernel frees
\* the flock with its last descriptor.
Leave(d) == /\ MoveTo(d, "out")
            /\ claim' = IF claim = d THEN Unclaimed ELSE claim
            /\ memory' = [memory EXCEPT ![d] = NoThread]

\* A start over any checkpoint is refused, and so is a resume of none; a shell also
\* refuses to resume a finished interview.
Refuses(d) == IF resume[d] THEN thread.status = "none" \/ (d \in Shell /\ thread.status = "complete")
              ELSE thread.status # "none"

Look(d) == /\ pc[d] = "entered"
           /\ IF Refuses(d) THEN Leave(d)
              ELSE MoveTo(d, "cleared") /\ UNCHANGED <<claim, memory>>
           /\ UNCHANGED <<thread, stale, resume, condemned, answered>> /\ Crossing

\* A fresh stream writes its input over whatever is there; a resume reads the thread
\* again, and a shell's first stamps its started_at.
BeginFresh(d) == /\ pc[d] = "cleared" /\ ~resume[d]
                 /\ thread' = NewThread /\ memory' = [memory EXCEPT ![d] = NewThread]
                 /\ stale' = FALSE /\ MoveTo(d, "driving")
                 /\ UNCHANGED <<claim, resume, condemned, answered>> /\ Crossing

BeginResumed(d) == /\ pc[d] = "cleared" /\ resume[d]
                   /\ IF thread.status = "none" THEN Leave(d) /\ UNCHANGED stale
                      ELSE /\ memory' = [memory EXCEPT ![d] = thread]
                           /\ stale' = (stale /\ d \notin Shell)
                           /\ MoveTo(d, "driving") /\ UNCHANGED claim
                   /\ UNCHANGED <<thread, resume, condemned, answered>> /\ Crossing

Write(d, state) == /\ memory' = [memory EXCEPT ![d] = state]
                   /\ thread' = state /\ stale' = FALSE
                   /\ UNCHANGED <<claim, pc, resume, condemned>> /\ Crossing

Driving(d) == pc[d] = "driving" /\ memory[d].status = "active"

\* A question is resolved, or the Supervisor completes the interview; the Study Plan
\* after it changes neither.
Resolve(d) == /\ Driving(d) /\ answered < MaxAnswers
              /\ answered' = answered + 1
              /\ Write(d, [memory[d] EXCEPT !.items = @ \cup {answered'}])
End(d) == /\ Driving(d) /\ memory[d].items # {}
          /\ Write(d, [memory[d] EXCEPT !.status = "complete"])
          /\ UNCHANGED answered

\* Finished, suspended, interrupted or killed.
Quit(d) == /\ pc[d] # "out" /\ Leave(d)
           /\ UNCHANGED <<thread, stale, resume, condemned, answered>> /\ Crossing
-----------------------------------------------------------------------------
(* The sweep at the server's start.                                        *)

\* checkpointer.list(None): which threads were last written too long ago.
Enumerate == /\ ~condemned /\ stale /\ \A r \in Run : pc[r] = "out"
             /\ condemned' = TRUE
             /\ UNCHANGED <<thread, stale, claim, pc, resume, memory, answered>> /\ Crossing

Delete == /\ condemned /\ condemned' = FALSE
          /\ thread' = NoThread /\ stale' = FALSE
          /\ UNCHANGED <<claim, pc, resume, memory, answered>> /\ Crossing

\* Between sittings.
Expire == /\ thread.status # "none" /\ ~stale /\ \A d \in Driver : pc[d] = "out"
          /\ stale' = TRUE
          /\ UNCHANGED <<thread, claim, pc, resume, memory, condemned, answered>> /\ Crossing
-----------------------------------------------------------------------------
Drive(d) == \/ Claim(d) \/ StartRun(d) \/ Look(d) \/ BeginFresh(d) \/ BeginResumed(d)
            \/ Resolve(d) \/ End(d) \/ Quit(d)

ClaimNext == (\E d \in Driver : Drive(d)) \/ Enumerate \/ Delete \/ Expire

ClaimSpec == ClaimInit /\ [][ClaimNext]_claimVars
-----------------------------------------------------------------------------
(* Properties.                                                             *)

\* What a driver was told about the thread is still so when its stream begins, through
\* stops, deaths and other shells: only the other surface can have come in between
\* (cli_session.py:329-352, web_session_driver.py:107-132).
GuardStillHolds == ~crossed => \A d \in Driver : pc[d] = "cleared" => ~Refuses(d)

\* An answer in the checkpoint is never written over and goes with an expired thread
\* only, unless a shell and the server were at work together.
AnswersKept == [][thread.items \subseteq thread'.items \/ condemned \/ crossed]_claimVars

\* "One checkpoint thread takes one writer" (cli_session.py:231).
OneWriterPerThread == \A d, e \in Driver : pc[d] = "driving" /\ pc[e] = "driving" => d = e

\* The sweep drops "threads whose newest checkpoint is older than" the limit
\* (web_ops.py:154): what it is about to drop is still that old.
CondemnedIsStale == condemned => stale
=============================================================================
