----------------------------- MODULE MCBootstrap -----------------------------
(***************************************************************************)
(* The GKE bootstrap for TLC: one operator, and other hands that stand for *)
(* further ones.                                                           *)
(***************************************************************************)
EXTENDS Bootstrap

MCOperators == {"operator"}

\* A kind at least for every method of the inspector.
MCProfile == Range(Kinds) \ {"subscription", "role", "github-provider", "github-binding"}

\* What is there all along, though it may come to differ.
MCStanding == {"api", "cluster", "registry", "firestore", "topic", "github-pool", "image"}

MCKubernetes == {"namespace", "ksa"}
=============================================================================
