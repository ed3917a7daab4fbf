--------------------------- MODULE ReviewOutcome ---------------------------
(***************************************************************************)
(* What a document review promises about its outcome: the first decision   *)
(* given to it is its verdict, and what is recorded, once and for good, is *)
(* that verdict.  DocumentReview implements this.                          *)
(***************************************************************************)
CONSTANTS Deciders,  \* the decisions that may be given
          Nobody     \* no decision yet

VARIABLES verdict,   \* the decision that won
          recorded   \* the decision the review's row names

outcomeVars == <<verdict, recorded>>

OutcomeInit == verdict = Nobody /\ recorded = Nobody

Give == /\ verdict = Nobody
        /\ verdict' \in Deciders
        /\ UNCHANGED recorded

Record == /\ verdict # Nobody
          /\ recorded = Nobody
          /\ recorded' = verdict
          /\ UNCHANGED verdict

OutcomeSpec == OutcomeInit /\ [][Give \/ Record]_outcomeVars
=============================================================================
