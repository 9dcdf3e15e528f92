---------------------------- MODULE MCAssistant -----------------------------
(***************************************************************************)
(* Finite instances of Assistant for TLC.                                  *)
(***************************************************************************)
EXTENDS Assistant, TLC

CONSTANTS q1, q2, q3, d1

SmallEnvironments == {{"FAKE_PROVIDERS"}, {"STRIPE_SECRET_KEY", "ANTHROPIC_API_KEY"},
                      {"FAKE_PROVIDERS", "ANTHROPIC_API_KEY"}, {"STRIPE_SECRET_KEY"}}

AskSymmetry == Permutations(Asks)
=============================================================================
