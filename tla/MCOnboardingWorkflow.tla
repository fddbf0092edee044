------------------------ MODULE MCOnboardingWorkflow ------------------------
(* Instances of OnboardingWorkflow for TLC. *)
EXTENDS OnboardingWorkflow

CONSTANTS p1, p2

TwoProducts == {p1, p2}

\* Values of selected_products: enough to be empty, to shrink and to grow.
PairOrNone == {<<>>, <<p1, p2>>}
PairOrSingle == {<<p2>>, <<p1, p2>>}

\* The to_stage values sent by the code under src/ (README, "Senders").
SentTargets == {"REVIEW", "SALES_REVIEW", "KYC"}

\* The values the declared interface of the signals admits.
AnyTarget == Stages
DecidedStages == {"SALES_REVIEW", "REVIEW", "ESCALATED"}
AnyDecision == {"APPROVED", "REJECTED", "MORE_INFO_REQUESTED"}

=============================================================================
