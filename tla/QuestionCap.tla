---------------------------- MODULE QuestionCap ----------------------------
(***************************************************************************)
(* The daily question cap of one identity (usage.py, reserve_questions and *)
(* questions_today; web_session_driver.py, the reservation of a run and    *)
(* its release). Sessions run in threads of several processes; the ledger  *)
(* is what they share, and check-and-record holds its lock. Rows are kept  *)
(* as what questions_today sums: reserved and released per UTC day.        *)
(***************************************************************************)
EXTENDS Naturals, FiniteSets

CONSTANTS Session,     \* Session ids
          Size,        \* questions each Session asks for: [Session -> Nat]
          Cap,         \* COACH_DAILY_QUESTION_CAP
          MaxDay,      \* bound: UTC days the model runs for
          MaxBooked,   \* bound: questions reserved on one day, released or not
          MayCrash,    \* whether a run's process may die
          MayMisread   \* whether a checkpoint read may fail

ASSUME SizeAssumption == IsFiniteSet(Session) /\ Size \in [Session -> Nat \ {0}]
ASSUME CapAssumption == /\ Cap \in Nat /\ MaxBooked \in Nat /\ MaxDay \in Nat \ {0}
                        /\ MayCrash \in BOOLEAN /\ MayMisread \in BOOLEAN

Day == 1..MaxDay
NoDay == 0

VARIABLES day,
          reserved, released,  \* [Day -> Nat]: the rows' sums
          inside,       \* the Session whose start is inside the ledger's lock
          counted,      \* what the start inside the lock read the day's count as
          run,          \* off, starting, fresh, on, ending: the Session's run thread
          reservation,  \* the run's local `reservation`, 0 for None
          checkpoint,   \* none, open, complete
          asked,        \* question_count in the checkpoint
          startedOn     \* history: the day of the Session's last reservation

capVars == <<day, reserved, released, inside, counted, run, reservation, checkpoint, asked, startedOn>>

CapTypeOK == /\ day \in Day
             /\ reserved \in [Day -> Nat] /\ released \in [Day -> Nat]
             /\ inside \subseteq Session /\ Cardinality(inside) <= 1
             /\ counted \in [Session -> Nat]
             /\ run \in [Session -> {"off", "starting", "fresh", "on", "ending"}]
             /\ checkpoint \in [Session -> {"none", "open", "complete"}]
             /\ startedOn \in [Session -> Day \cup {NoDay}]
             /\ asked \in [Session -> Nat] /\ reservation \in [Session -> Nat]
             /\ \A s \in Session : asked[s] \in 0..Size[s] /\ reservation[s] \in {0, Size[s]}

CapInit == /\ day = 1
           /\ reserved = [d \in Day |-> 0] /\ released = [d \in Day |-> 0]
           /\ inside = {}
           /\ counted = [s \in Session |-> 0]
           /\ run = [s \in Session |-> "off"]
           /\ reservation = [s \in Session |-> 0]
           /\ checkpoint = [s \in Session |-> "none"]
           /\ asked = [s \in Session |-> 0]
           /\ startedOn = [s \in Session |-> NoDay]
-----------------------------------------------------------------------------
(* The ledger's arithmetic.                                                *)

QuestionsToday == IF released[day] > reserved[day] THEN 0 ELSE reserved[day] - released[day]

LockNotTaken == TRUE
LockIsFree == inside = {}
-----------------------------------------------------------------------------
(* A run.                                                                  *)

To(s, from, to) == run[s] = from /\ run' = [run EXCEPT ![s] = to]

\* What _checkpoint_values may say: a failed read looks like no checkpoint.
Seen(s) == {checkpoint[s]} \cup (IF MayMisread THEN {"none"} ELSE {})

\* A fresh start: only on an id without a checkpoint.
StartRun(s) == /\ "none" \in Seen(s)
               /\ reserved[day] + Size[s] <= MaxBooked
               /\ To(s, "off", "starting")
               /\ LockIsFree
               /\ inside' = inside \cup {s}
               /\ counted' = [counted EXCEPT ![s] = QuestionsToday]
               /\ UNCHANGED <<day, reserved, released, reservation, checkpoint, asked, startedOn>>

ReserveFits(s) == counted[s] + Size[s] <= Cap

\* reserve_questions' second half: record, or refuse the start.
Reserve(s) == /\ s \in inside
              /\ inside' = inside \ {s} /\ counted' = [counted EXCEPT ![s] = 0]
              /\ \/ /\ ReserveFits(s)
                    /\ To(s, "starting", "fresh")
                    /\ reserved' = [reserved EXCEPT ![day] = @ + Size[s]]
                    /\ reservation' = [reservation EXCEPT ![s] = Size[s]]
                    /\ startedOn' = [startedOn EXCEPT ![s] = day]
                 \/ /\ ~ReserveFits(s)
                    /\ To(s, "starting", "off")
                    /\ UNCHANGED <<reserved, reservation, startedOn>>
              /\ UNCHANGED <<day, released, checkpoint, asked>>

FirstCheckpoint(s) == /\ To(s, "fresh", "on")
                      /\ checkpoint' = [checkpoint EXCEPT ![s] = "open"]
                      /\ asked' = [asked EXCEPT ![s] = 0]
                      /\ UNCHANGED <<day, reserved, released, inside, counted, reservation, startedOn>>

AskQuestion(s) == /\ run[s] = "on" /\ asked[s] < Size[s]
                  /\ asked' = [asked EXCEPT ![s] = @ + 1]
                  /\ UNCHANGED <<day, reserved, released, inside, counted, run, reservation, checkpoint, startedOn>>

\* The Supervisor may end early, but never before a question was resolved.
Complete(s) == /\ asked[s] > 0
               /\ To(s, "on", "ending")
               /\ checkpoint' = [checkpoint EXCEPT ![s] = "complete"]
               /\ UNCHANGED <<day, reserved, released, inside, counted, reservation, asked, startedOn>>

\* A cancel, a suspension or a failure, before or after the first checkpoint.
Stop(s) == /\ To(s, "fresh", "ending") \/ To(s, "on", "ending")
           /\ UNCHANGED <<day, reserved, released, inside, counted, reservation, checkpoint, asked, startedOn>>

UnusedOfAnyRun(s, seen) ==
  CASE seen = "none" -> reservation[s]
    [] OTHER -> IF reservation[s] > 0 THEN reservation[s] - asked[s] ELSE 0

\* Only a run that can never come back for its questions hands them back.
Unused(s, seen) ==
  CASE seen = "none" -> reservation[s]
    [] seen = "complete" -> IF reservation[s] > 0 THEN reservation[s] - asked[s] ELSE 0
    [] seen = "open" -> 0

\* The `finally`: _release_unused_questions reads the checkpoint once more.
EndRun(s) == \E seen \in Seen(s) :
  /\ To(s, "ending", "off")
  /\ released' = [released EXCEPT ![day] = @ + Unused(s, seen)]
  /\ reservation' = [reservation EXCEPT ![s] = 0]
  /\ UNCHANGED <<day, reserved, inside, counted, checkpoint, asked, startedOn>>

\* A resume carries no reservation of its own.
Resume(s) == /\ checkpoint[s] = "open"
             /\ To(s, "off", "on")
             /\ UNCHANGED <<day, reserved, released, inside, counted, reservation, checkpoint, asked, startedOn>>

\* The run's process dies, without a `finally`.
Crash(s) == /\ MayCrash /\ run[s] # "off"
            /\ run' = [run EXCEPT ![s] = "off"]
            /\ inside' = inside \ {s} /\ counted' = [counted EXCEPT ![s] = 0]
            /\ reservation' = [reservation EXCEPT ![s] = 0]
            /\ UNCHANGED <<day, reserved, released, checkpoint, asked, startedOn>>

Midnight == /\ day < MaxDay /\ day' = day + 1
            /\ UNCHANGED <<reserved, released, inside, counted, run, reservation, checkpoint, asked, startedOn>>
-----------------------------------------------------------------------------
RunStep(s) == \/ StartRun(s) \/ Reserve(s) \/ FirstCheckpoint(s) \/ AskQuestion(s)
              \/ Complete(s) \/ Stop(s) \/ EndRun(s) \/ Resume(s) \/ Crash(s)

CapNext == Midnight \/ \E s \in Session : RunStep(s)

CapSpec == CapInit /\ [][CapNext]_capVars
-----------------------------------------------------------------------------
(* Properties.                                                             *)

\* What a Session that got a reservation has asked or can still ask.
Potential(s) == IF startedOn[s] = NoDay THEN 0
                ELSE IF run[s] \in {"fresh", "starting"} THEN reservation[s]
                ELSE IF checkpoint[s] = "none" THEN 0
                ELSE IF checkpoint[s] = "complete" THEN asked[s]
                ELSE Size[s]

\* The sum of f's values, as the number of pairs of an element and a number below its value.
Pairs(f) == UNION {{x} \X (1..f[x]) : x \in DOMAIN f}
Total(f) == Cardinality(Pairs(f))

PotentialOf(S) == Total([s \in S |-> Potential(s)])

\* Today's Sessions never get to ask more than the cap.
CapHolds == PotentialOf({s \in Session : startedOn[s] = day}) <= Cap

\* The cap holds against Sessions that are abandoned, crash, resume or restart
\* (usage.py:1227-1233, web_session_driver.py:325-329), as long as no release
\* answers a reservation of the day before.
CapHoldsBeforeMidnight == day = 1 => CapHolds

\* Where the cap is passed, it is by no more than what was given back on the day: a release
\* after midnight, or of a run that comes back, lets in what it gives and nothing else.
OvershootIsGivenBack ==
  \A d \in Day : PotentialOf({s \in Session : startedOn[s] = d}) <= Cap + released[d]

\* The books, over all days, never owe a Session fewer questions than it can ask:
\* no release is doubled or handed out for a run that comes back.
BooksCoverSessions == PotentialOf(Session) + Total(released) <= Total(reserved)

\* "A run that ends without asking what it reserved gives the remainder back"
\* (usage.py:1099-1101): a Session that completed is charged what it asked.
CompletedPayForWhatTheyAsked ==
  (\A s \in Session : startedOn[s] # NoDay => checkpoint[s] = "complete" /\ run[s] = "off")
  => QuestionsToday <= PotentialOf(Session)
=============================================================================
