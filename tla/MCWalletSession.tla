--------------------------- MODULE MCWalletSession ---------------------------
(* Small instances of WalletSession for TLC. *)
EXTENDS WalletSession, TLC

\* Two concurrent requests of one kind: answers race each other.
SignKinds == {"SignMessage"}

\* One kind for each way the core handles an acceptance.
MixedKinds == {"Login", "Sign", "SignMessage", "Pay"}

\* Requests and bodies are told apart only by equality.
RequestSymmetry == Permutations(Ids) \cup Permutations(Bodies)
=============================================================================
