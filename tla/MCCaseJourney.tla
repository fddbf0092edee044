---------------------------- MODULE MCCaseJourney ----------------------------
(* Instances of CaseJourney for TLC. *)
EXTENDS CaseJourney

CONSTANTS p1, p2, d1

OneProduct == {p1}
TwoProducts == {p1, p2}

\* p1 is institutional, p2 is not.
NoneOrFirst == {<<>>, <<p1>>}
NoneOrEither == {<<>>, <<p1>>, <<p2>>}

SentTargets == {"REVIEW", "SALES_REVIEW", "KYC"}
WrittenRows == {"REVIEW", "SALES_REVIEW", "KYC", "PARALLEL_PRODUCTS", "COMPLETE"}

\* Every entry point, and those that keep to the documented route.
AllCalls == {"submit_intake", "handle_message", "upload", "update_document_status",
             "decide_task", "advisor_approve_case", "decide_sales_review",
             "decide_review", "patch_case_products", "resume_case"}
RouteCalls == AllCalls \ {"handle_message", "patch_case_products", "resume_case"}

=============================================================================
