-------------------------- MODULE ClientClearance --------------------------
(***************************************************************************)
(* What a wealth-management onboarding promises, stripped of how it is run: *)
(* a client is screened, only a client who is cleared gets products, and a  *)
(* screening that does not clear the client ends the onboarding.  A client  *)
(* who comes back from the products keeps the clearance until screened again. *)
(***************************************************************************)
CONSTANT Products

VARIABLES
  phase,       \* where the client is
  cleared,     \* the last screening cleared the client
  provisioned  \* products for which the client has an account

Phases == {"collecting", "screening", "onboarding", "complete", "escalated"}

Init ==
  /\ phase = "collecting"
  /\ cleared = FALSE
  /\ provisioned = {}

\* The data asked for is there: screen the client.
Screen ==
  /\ phase = "collecting"
  /\ phase' = "screening"
  /\ UNCHANGED <<cleared, provisioned>>

\* The screening clears the client, or does not and ends the onboarding.
Clear ==
  /\ phase = "screening"
  /\ cleared' = TRUE
  /\ phase' = "onboarding"
  /\ UNCHANGED provisioned

Refuse ==
  /\ phase = "screening"
  /\ cleared' = FALSE
  /\ phase' = "escalated"
  /\ UNCHANGED provisioned

\* The products are onboarded, or one has an issue that sends the client back.
Onboarded ==
  /\ phase = "onboarding"
  /\ phase' \in {"complete", "collecting"}
  /\ UNCHANGED <<cleared, provisioned>>

\* Accounts are opened once the onboarding is complete.
Provision ==
  /\ phase = "complete"
  /\ provisioned' \in (SUBSET Products) \ {{}}
  /\ UNCHANGED <<phase, cleared>>

\* Whoever is not yet screened may be escalated; nobody comes back from there.
Escalate ==
  /\ phase = "collecting"
  /\ phase' = "escalated"
  /\ UNCHANGED <<cleared, provisioned>>

Next == Screen \/ Clear \/ Refuse \/ Onboarded \/ Provision \/ Escalate

Spec == Init /\ [][Next]_<<phase, cleared, provisioned>>

=============================================================================
