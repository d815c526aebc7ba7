--------------------------- MODULE QuestionForge ---------------------------
(***************************************************************************)
(* The Question Forge (forge.py): the Writer's drafts and the three gates  *)
(* each goes through. Pure operators; OperatorCommands makes the calls.    *)
(*                                                                         *)
(* A draft is its prompt, whether everything else the bank's contract asks *)
(* for is right, and whether it has follow-up seeds. Near is the prompts   *)
(* too similar to one of the bank or the pack.                             *)
(***************************************************************************)
EXTENDS JudgeBench

CONSTANTS MaxDrafts, Near

ASSUME ForgeAssumption == MaxDrafts \in Nat \ {0}

\* draft_questions: the Writer may send more than it was asked for, and never nothing.
ValidDraftSet(drafts) == drafts # << >>
Truncated(drafts, n) == SubSeq(drafts, 1, IF n < Len(drafts) THEN n ELSE Len(drafts))

\* validate_question: the prompt is new to the batch and the rest is right.
Validates(draft, seen) == draft.prompt \notin seen /\ draft.sound
UnseenSince(draft, seen) == seen
\* A prompt that validated is seen, whatever the draft's follow-up seeds.
SeenAfter(draft, seen) == IF Validates(draft, seen) THEN seen \cup {draft.prompt} ELSE seen

ContractHolds(draft, seen) == Validates(draft, seen) /\ draft.seeded
IsNovel(draft) == draft.prompt \notin Near

\* The gate a draft is rejected at before any call is made for it.
CheapRejection(draft, seen) == IF ~ContractHolds(draft, seen) THEN "contract"
                               ELSE IF ~IsNovel(draft) THEN "novelty" ELSE "none"

StrongBand == [min |-> 35, max |-> 50]
WeakBand == [min |-> 10, max |-> 30]
Admits(strong, weak) == HarnessPasses(StrongBand, strong) /\ HarnessPasses(WeakBand, weak)

\* One row of the run: how a draft fared, and what its answers scored.
Outcome(draft, rejection, strong, weak) ==
  [draft |-> draft, rejection |-> rejection, strong |-> strong, weak |-> weak]

\* The rows of the review queue, by their place in the run.
Queue(outcomes) == {i \in DOMAIN outcomes : outcomes[i].rejection = "none"}
RejectedAt(outcomes, gate) == Cardinality({i \in DOMAIN outcomes : outcomes[i].rejection = gate})

\* gate_yield: the survivors of each gate, by subtraction.
GateYield(outcomes) ==
  LET contract == Len(outcomes) - RejectedAt(outcomes, "contract")
      novelty == contract - RejectedAt(outcomes, "novelty")
  IN [drafted |-> Len(outcomes), contract |-> contract, novelty |-> novelty,
      admission |-> novelty - RejectedAt(outcomes, "admission")]
=============================================================================
