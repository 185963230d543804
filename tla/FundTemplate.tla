---------------------------- MODULE FundTemplate ----------------------------
(***************************************************************************)
(* verify_fund_template_owned of lc-wallet-core/src/approval.rs: the loops *)
(* over a PSET template's inputs and outputs that decide, before anything  *)
(* is shown, whether a fund request really asks for `amount` of one asset. *)
(*                                                                         *)
(* A row moves an asset and a value, which a confidential row hides, and   *)
(* comes with what the template states of them.  The relying party chooses *)
(* the rows, one by one.  Two facts come from outside: a blind proof that  *)
(* verifies shows the truth (secp256k1-zkp), and what the host declares of *)
(* a hidden coin of its own is the truth (the contract of OwnedInput).     *)
(***************************************************************************)
EXTENDS Naturals, Sequences

CONSTANTS
    Assets,                 \* asset ids
    Amounts,                \* the values rows may carry
    MaxU64,                 \* largest value of the u64 sums
    MaxInputs, MaxOutputs   \* bounds on the rows of a template

ASSUME AmountsAssumption == MaxU64 \in Nat /\ Amounts \subseteq 0..MaxU64
ASSUME RowsAssumption == MaxInputs \in Nat /\ MaxOutputs \in Nat

VARIABLES
    want_asset, amount,   \* the request: how much of which asset
    owned,                \* indices (from 0) of the inputs the host declares
    inputs_len, outputs_len,
    phase,                \* where the function is
    pos,                  \* rows of this phase already read
    sums_in, sums_out,    \* the u64 sums per asset
    fee, fee_outputs, proven_rows,
    (* History, in unbounded integers: what the rows read so far do. *)
    true_in, true_out,    \* what they move, per asset
    veiled,               \* assets that inputs mint without stating how much
    on_trust,             \* assets whose stated issue is not what is committed to
    own_rows,             \* inputs read as the host's own
    fee_paid              \* what leaves as fee

request == <<want_asset, amount, owned, inputs_len, outputs_len>>
sums == <<sums_in, sums_out>>
counts == <<fee, fee_outputs, proven_rows>>
truth == <<true_in, true_out, veiled, on_trust, own_rows, fee_paid>>
vars == <<request, phase, pos, sums, counts, truth>>

-----------------------------------------------------------------------------
(* Rows                                                                    *)

Forms == {"Explicit", "Confidential", "Half"}

\* What the template states of a confidential row, and whether the asset and
\* the value proof are there and verify.
Statements == [asset: Assets, value: Amounts, assetProof: BOOLEAN, valueProof: BOOLEAN]

\* A proof that verifies shows the committed asset or value.
Sound(row) ==
    /\ row.stated.assetProof => row.stated.asset = row.asset
    /\ row.stated.valueProof => row.stated.value = row.value

\* Only the statements of a confidential row are looked at.
Stated(row) ==
    row.form # "Confidential" =>
        row.stated = [asset |-> row.asset, value |-> row.value,
                      assetProof |-> FALSE, valueProof |-> FALSE]

\* The issuance fields of an input: what it mints, and the issuance_value_amount it
\* states.  "New" mints a new asset in the clear; "Committed" states an amount beside
\* an issuance_value_comm, with blinded_issuance 0 or absent; "Hidden" states none;
\* the others state one and are marked as blinded, mint reissuance tokens, reissue,
\* or lack the entropy the asset id comes from.
Issuances == [form: {"None", "New", "Committed", "Hidden",
                     "Blinded", "Tokens", "Reissue", "NoEntropy"},
              asset: Assets, value: Amounts, stated: Amounts]

\* A commitment decides what is minted, whatever is stated beside it; a new asset is
\* not the one the coin holds, since its id comes from the coin's outpoint.
Minting(row) ==
    /\ row.issuance.form \in {"New", "Committed", "Hidden"} => row.issuance.asset # row.asset
    /\ row.issuance.form \in {"Hidden", "Committed"} => row.issuance.value > 0
    /\ row.issuance.form # "Committed" => row.issuance.stated = row.issuance.value
    /\ row.issuance.form \notin {"New", "Committed", "Hidden"} =>
          row.issuance.asset = row.asset /\ row.issuance.value = 0

\* `agrees`: the host's declaration, if it makes one, is what the row moves.
InputRows ==
    {row \in [form: Forms \cup {"NoUtxo"}, asset: Assets, value: Amounts,
              stated: Statements, issuance: Issuances, agrees: BOOLEAN] :
        /\ Sound(row) /\ Stated(row) /\ Minting(row)
        /\ row.form # "Explicit" => row.agrees}

\* A fee output is one with an empty script.
OutputRows ==
    {row \in [form: Forms, asset: Assets, value: Amounts,
              stated: Statements, isFee: BOOLEAN] : Sound(row) /\ Stated(row)}

-----------------------------------------------------------------------------

Zero == [a \in Assets |-> 0]

Plus(s, asset, value) == [s EXCEPT ![asset] = @ + value]

Init ==
    /\ want_asset \in Assets /\ amount \in Amounts
    /\ inputs_len \in 0..MaxInputs /\ outputs_len \in 0..MaxOutputs
    /\ owned \in UNION {[1..n -> 0..MaxInputs] : n \in 0..MaxInputs}
    /\ phase = "Start" /\ pos = 0
    /\ sums_in = Zero /\ sums_out = Zero
    /\ fee = 0 /\ fee_outputs = 0 /\ proven_rows = 0
    /\ true_in = Zero /\ true_out = Zero
    /\ veiled = {} /\ on_trust = {} /\ own_rows = 0 /\ fee_paid = 0

Refuse ==
    /\ phase' = "Refused"
    /\ UNCHANGED <<request, pos, sums, counts, truth>>

-----------------------------------------------------------------------------

\* Fault: an input may be declared twice.
OwnedInRange == \A i \in 1..Len(owned) : owned[i] < inputs_len

\* Every declared index is a template input, and none is declared twice.
OwnedOk ==
    /\ \A i \in 1..Len(owned) : owned[i] < inputs_len
    /\ \A i, j \in 1..Len(owned) : i # j => owned[i] # owned[j]

\* The checks before the rows; the asset id or the template may not decode.
Begin ==
    /\ phase = "Start"
    /\ \/ Refuse
       \/ /\ amount > 0 /\ outputs_len > 0 /\ OwnedOk
          /\ phase' = "Inputs"
          /\ UNCHANGED <<request, pos, sums, counts, truth>>

Declared == \E i \in 1..Len(owned) : owned[i] = pos

\* Fault: only the value proof is verified.
ProvenValueOnly(stated) == stated.valueProof

\* A confidential row's own statement counts only with two good proofs.
Proven(stated) == stated.assetProof /\ stated.valueProof

\* The input has a UTXO whose asset and value can be relied on.
InputReadable(row) ==
    \/ row.form = "Explicit" /\ (Declared => row.agrees)
    \/ row.form = "Confidential" /\ (Declared \/ Proven(row.stated))

\* The asset and value the input enters the sums with.
InputFacts(row) ==
    IF row.form = "Explicit" \/ Declared THEN [asset |-> row.asset, value |-> row.value]
    ELSE [asset |-> row.stated.asset, value |-> row.stated.value]

\* The code looks at an issuance only if it states its amount, and never at its
\* commitment.
IssuanceReadable(row) == row.issuance.form \in {"None", "New", "Committed", "Hidden"}

Issued(row) ==
    IF row.issuance.form \in {"New", "Committed"} THEN row.issuance.stated ELSE 0

\* Fault: the sum is not checked against the width of u64.
FitsAlways(s, asset, value) == TRUE

\* checked_add: the new sum of the asset is still a u64.
Fits(s, asset, value) == s[asset] + value <= MaxU64

\* One turn of the input loop.
ReadInput(row) ==
    LET facts == InputFacts(row)
        moved == Plus(sums_in, facts.asset, facts.value)
        accepted == /\ InputReadable(row)
                    /\ Fits(sums_in, facts.asset, facts.value)
                    /\ IssuanceReadable(row)
                    /\ Fits(moved, row.issuance.asset, Issued(row))
    IN  /\ phase = "Inputs" /\ pos < inputs_len
        /\ \/ ~accepted /\ Refuse
           \/ /\ accepted
              /\ sums_in' = Plus(moved, row.issuance.asset, Issued(row))
              /\ proven_rows' = proven_rows +
                    (IF row.form = "Confidential" /\ ~Declared THEN 1 ELSE 0)
              /\ pos' = pos + 1
              /\ true_in' = Plus(Plus(true_in, row.asset, row.value),
                                 row.issuance.asset, row.issuance.value)
              /\ veiled' = IF row.issuance.form = "Hidden"
                           THEN veiled \cup {row.issuance.asset} ELSE veiled
              /\ on_trust' = IF row.issuance.stated # row.issuance.value
                             THEN on_trust \cup {row.issuance.asset} ELSE on_trust
              /\ own_rows' = own_rows + (IF Declared THEN 1 ELSE 0)
              /\ UNCHANGED <<request, phase, sums_out, fee, fee_outputs, true_out, fee_paid>>

EndInputs ==
    /\ phase = "Inputs" /\ pos = inputs_len
    /\ phase' = "Outputs" /\ pos' = 0
    /\ UNCHANGED <<request, sums, counts, truth>>

\* A blinded output needs its proofs and must not be the fee.
OutputReadable(row) ==
    \/ row.form = "Explicit"
    \/ row.form = "Confidential" /\ Proven(row.stated) /\ ~row.isFee

\* One turn of the output loop.
ReadOutput(row) ==
    LET asset == IF row.form = "Explicit" THEN row.asset ELSE row.stated.asset
        value == IF row.form = "Explicit" THEN row.value ELSE row.stated.value
        accepted == OutputReadable(row) /\ Fits(sums_out, asset, value)
    IN  /\ phase = "Outputs" /\ pos < outputs_len
        /\ \/ ~accepted /\ Refuse
           \/ /\ accepted
              /\ sums_out' = Plus(sums_out, asset, value)
              /\ proven_rows' = proven_rows + (IF row.form = "Confidential" THEN 1 ELSE 0)
              /\ fee' = IF row.isFee THEN value ELSE fee
              /\ fee_outputs' = fee_outputs + (IF row.isFee THEN 1 ELSE 0)
              /\ pos' = pos + 1
              /\ true_out' = Plus(true_out, row.asset, row.value)
              /\ fee_paid' = fee_paid + (IF row.isFee THEN row.value ELSE 0)
              /\ UNCHANGED <<request, phase, sums_in, true_in, veiled, on_trust, own_rows>>

\* The deficit of the requested asset is the amount, of no other positive.
Balanced ==
    /\ sums_out[want_asset] >= sums_in[want_asset]
    /\ sums_out[want_asset] - sums_in[want_asset] = amount
    /\ \A a \in Assets \ {want_asset} : sums_out[a] <= sums_in[a]

\* Fault: the fee outputs are not counted.
FeeAny == fee > 0

FeeOk == fee_outputs = 1 /\ fee > 0

Judge ==
    /\ phase = "Outputs" /\ pos = outputs_len
    /\ \/ ~(FeeOk /\ Balanced) /\ Refuse
       \/ /\ FeeOk /\ Balanced
          /\ phase' = "Accepted"
          /\ UNCHANGED <<request, pos, sums, counts, truth>>

\* The function has returned.
Returned == phase \in {"Accepted", "Refused"} /\ UNCHANGED vars

Next ==
    \/ Begin \/ EndInputs \/ Judge \/ Returned
    \/ \E row \in InputRows : ReadInput(row)
    \/ \E row \in OutputRows : ReadOutput(row)

Spec == Init /\ [][Next]_vars

-----------------------------------------------------------------------------
(* Properties                                                              *)

\* Types of the request, of the sums, which stay within u64, and of the truth.
TypeOK ==
    /\ want_asset \in Assets /\ amount \in Amounts
    /\ owned \in Seq(0..MaxInputs)
    /\ inputs_len \in 0..MaxInputs /\ outputs_len \in 0..MaxOutputs
    /\ phase \in {"Start", "Inputs", "Outputs", "Accepted", "Refused"}
    /\ pos \in Nat
    /\ sums_in \in [Assets -> 0..MaxU64] /\ sums_out \in [Assets -> 0..MaxU64]
    /\ fee \in 0..MaxU64 /\ fee_outputs \in Nat /\ proven_rows \in Nat
    /\ true_in \in [Assets -> Nat] /\ true_out \in [Assets -> Nat]
    /\ veiled \subseteq Assets /\ on_trust \subseteq Assets /\ own_rows \in Nat /\ fee_paid \in Nat

\* "These rules bound its net outflow to exactly amount": the rows of an
\* accepted template truly lack no more than `amount` of the requested asset
\* and nothing of any other, whatever is hidden or declared; and they lack
\* exactly `amount`, unless the requested asset itself is minted by an input
\* that does not state how much.  An asset that an input mints differently from
\* what it states is outside, and the only thing that is: HiddenIssuanceRefused.
AsksExactlyAmount ==
    phase = "Accepted" =>
        /\ amount > 0
        /\ want_asset \notin on_trust => true_out[want_asset] <= true_in[want_asset] + amount
        /\ want_asset \notin on_trust \cup veiled =>
              true_out[want_asset] = true_in[want_asset] + amount
        /\ \A a \in Assets \ ({want_asset} \cup on_trust) : true_out[a] <= true_in[a]

\* The fee the summary reports is positive and is all that leaves as fee.
FeeIsWhatIsPaid == phase = "Accepted" => 0 < fee /\ fee = fee_paid

\* Of an accepted template the summary's owned_inputs, the length of the
\* declared list, is the number of inputs that were read as the host's own:
\* the dialog lists each of them once.
OwnedListedOnce == phase = "Accepted" => Len(owned) = own_rows

\* "Blinded issuances are unverifiable and refused", and no number that enters the
\* sums is "the relying party's word": the inputs of an accepted template bring what
\* was counted of them, neither more, minted unstated, nor less, stated and not minted.
HiddenIssuanceRefused == phase = "Accepted" => sums_in = true_in

=============================================================================
