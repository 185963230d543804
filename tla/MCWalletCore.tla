---------------------------- MODULE MCWalletCore ----------------------------
(* A small instance of WalletCore for TLC. *)
EXTENDS WalletCore

\* A login bound to a service key or not, a signature by the wallet key, which
\* needs a live request, and one by the host, which does not.
MCKinds == {"Login", "SignMessage", "Sign"}

\* No step reads `effects`, and no property but its type: states that differ in
\* nothing else are one.  (The equality makes TLC evaluate it.)
CoreView == <<core, history, effects = effects, effects \in EffectsType>>
=============================================================================
