----------------------------- MODULE MCVenueHost -----------------------------
(* A small instance of VenueHost for TLC. *)
EXTENDS VenueHost, TLC

CONSTANTS a, good, good_ct, bad, s1

MCDomains == {<<a>>, <<a, a>>}
\* Texts that make concatenations run into each other, one with a NUL in it.
MCTexts == {<<>>, <<a>>, <<a, a>>, <<NUL, a>>}
MCAddresses == {good, good_ct, bad}
\* Two addresses of one script (one blinded) and a string that is no address.
MCScriptOf == (good :> s1) @@ (good_ct :> s1) @@ (bad :> None)
In(utxo, final) == [utxo |-> utxo, final |-> final]
Inputs == {In("raw", FALSE), In("tweaked", FALSE), In("raw", TRUE), In("foreign", FALSE), In("absent", FALSE)}
\* Every choice of one or two inputs, and a PSET that does not make a transaction.
MCPsets ==
    [inputs: {<<i>> : i \in Inputs} \cup {<<i, j>> : i, j \in Inputs}, extracts: {TRUE}]
    \cup [inputs: {<<In("raw", FALSE)>>}, extracts: {FALSE}]
MCMessagePsets == [inputs: {<<In("raw", FALSE)>>}, extracts: {TRUE}]
=============================================================================
