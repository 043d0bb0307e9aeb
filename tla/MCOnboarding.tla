---------------------------- MODULE MCOnboarding ----------------------------
(***************************************************************************)
(* Small instances of Onboarding: one of the owners is a reviewer as well. *)
(***************************************************************************)
EXTENDS Onboarding, TLC

CONSTANTS owner, grandee, operator, bus1, noBus, unknownBus, h1, h2
=============================================================================
