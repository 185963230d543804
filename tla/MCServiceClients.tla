-------------------------- MODULE MCServiceClients --------------------------
(* A small instance of ServiceClients for TLC. *)
EXTENDS ServiceClients, TLC

CONSTANTS w1, w2, s1

\* Two keys whose ids collide.
MCShort == (w1 :> s1) @@ (w2 :> s1)
\* Everything on, everything off.
MCSettings == {[by_contact_hash |-> b, by_handle |-> b] : b \in BOOLEAN}
\* Prices of 1/2 and 3/2, quotes with and without blinded addresses and inputs.
MCQuotes == [num: {1, 3}, den: {2}, fixed_fee: {0, 2}, blinded: BOOLEAN, utxos: {0, 1}]
=============================================================================
