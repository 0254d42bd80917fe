----------------------------- MODULE MCOnboarding ------------------------------
(***************************************************************************)
(* Small instances of Onboarding: one address, two ids (a person that signs *)
(* up again, or twice at once), three uploads.                             *)
(***************************************************************************)
EXTENDS Onboarding, TLC

CONSTANTS a1, a2, m1, r1, r2

\* An owner's documents, a provider's, and a provider's without the consent.
MCTicks == {{"privacy_notice", "owner_terms"},
            {"privacy_notice", "provider_agreement", "identity_verification_consent"},
            {"privacy_notice", "provider_agreement"}}

MCCrowds == {{"signup", "addRole"}, {"signup", "submit", "review"}}

MCTraffic == MCCrowds \cup
             {{"signup", "submit", "review", "match"},
              {"signup", "addRole", "review"},
              {"signup", "review", "delete"},
              {"submit", "match", "move", "review"},
              {"match", "review", "accept"},
              {"signup", "submit", "move", "delete"}}

Symmetric == Permutations({r1, r2}) \cup Permutations({a1, a2})
================================================================================
