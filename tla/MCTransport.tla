----------------------------- MODULE MCTransport -----------------------------
(* Small instances of Transport for TLC. *)
EXTENDS Transport
=============================================================================
