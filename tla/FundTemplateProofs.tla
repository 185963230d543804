------------------------- MODULE FundTemplateProofs -------------------------
(***************************************************************************)
(* What verify_fund_template_owned promises of a template it accepts, for  *)
(* any number of assets and rows and any width of the sums.                *)
(***************************************************************************)
EXTENDS FundTemplate, FiniteSetTheorems, TLAPS

USE AmountsAssumption, RowsAssumption

(***************************************************************************)
(* Rows                                                                    *)
(***************************************************************************)

\* What is known of an input row.
LEMMA InputRowFacts ==
    ASSUME NEW row \in InputRows
    PROVE  /\ row.asset \in Assets /\ row.value \in 0..MaxU64
           /\ row.stated.asset \in Assets /\ row.stated.value \in 0..MaxU64
           /\ row.issuance.asset \in Assets /\ row.issuance.value \in 0..MaxU64
           /\ row.issuance.stated \in 0..MaxU64
           /\ Sound(row) /\ Minting(row)
BY DEF InputRows, Statements, Issuances

\* What is known of an output row.
LEMMA OutputRowFacts ==
    ASSUME NEW row \in OutputRows
    PROVE  /\ row.asset \in Assets /\ row.value \in 0..MaxU64
           /\ row.stated.asset \in Assets /\ row.stated.value \in 0..MaxU64
           /\ row.isFee \in BOOLEAN
           /\ Sound(row)
BY DEF OutputRows, Statements

\* Adding to one asset keeps a sum a sum.
LEMMA PlusType ==
    ASSUME NEW s \in [Assets -> Nat], NEW asset \in Assets, NEW value \in Nat
    PROVE  /\ Plus(s, asset, value) \in [Assets -> Nat]
           /\ Plus(s, asset, value)[asset] = s[asset] + value
           /\ \A a \in Assets \ {asset} : Plus(s, asset, value)[a] = s[a]
BY DEF Plus

\* A checked addition that fits stays within the width.
LEMMA CheckedType ==
    ASSUME NEW s \in [Assets -> 0..MaxU64], NEW asset \in Assets, NEW value \in 0..MaxU64,
           Fits(s, asset, value)
    PROVE  Plus(s, asset, value) \in [Assets -> 0..MaxU64]
BY DEF Fits, Plus

\* An input that can be read enters the sums with what it truly moves.
LEMMA InputTrue ==
    ASSUME NEW row \in InputRows, InputReadable(row)
    PROVE  InputFacts(row) = [asset |-> row.asset, value |-> row.value]
BY InputRowFacts DEF InputReadable, InputFacts, Proven, Sound

\* An output that can be read enters the sums with what it truly moves.
LEMMA OutputTrue ==
    ASSUME NEW row \in OutputRows, OutputReadable(row)
    PROVE  /\ (IF row.form = "Explicit" THEN row.asset ELSE row.stated.asset) = row.asset
           /\ (IF row.form = "Explicit" THEN row.value ELSE row.stated.value) = row.value
BY OutputRowFacts DEF OutputReadable, Proven, Sound

(***************************************************************************)
(* The inductive invariant                                                 *)
(***************************************************************************)

\* The sums are the truth, save for what inputs mint without stating it, which is
\* not counted, and for what they mint other than they state.
SumsAreTrue ==
    /\ sums_out = true_out
    /\ \A a \in Assets \ on_trust : sums_in[a] <= true_in[a]
    /\ \A a \in Assets \ (on_trust \cup veiled) : sums_in[a] = true_in[a]

\* Before the verdict nothing has passed it.
VerdictJustified ==
    phase = "Accepted" => FeeOk /\ Balanced /\ amount > 0

\* Once the rows are being read, the amount is known to be positive.
AmountPositive == phase \in {"Inputs", "Outputs"} => amount > 0

\* One fee output: what was last seen is all that was paid.
FeeCounted ==
    /\ fee_outputs = 0 => fee_paid = 0
    /\ fee_outputs = 1 => fee_paid = fee

TemplateInv == TypeOK /\ SumsAreTrue /\ VerdictJustified /\ AmountPositive /\ FeeCounted

\* The initial states satisfy the inductive invariant.
LEMMA TemplateInit == Init => TemplateInv
<1> SUFFICES ASSUME Init PROVE TemplateInv
  OBVIOUS
<1>1. owned \in Seq(0..MaxInputs)
  BY DEF Init
<1>2. TypeOK
  BY <1>1 DEF Init, TypeOK, Zero
<1> QED
  BY <1>2 DEF Init, TemplateInv, SumsAreTrue, VerdictJustified, AmountPositive, FeeCounted, Zero

\* A refusal keeps it.
LEMMA RefuseStep == TemplateInv /\ Refuse => TemplateInv'
BY DEF TemplateInv, Refuse, TypeOK, SumsAreTrue, VerdictJustified, AmountPositive, FeeCounted,
       request, sums, counts, truth

\* A turn of the input loop keeps it.
LEMMA ReadInputStep ==
    ASSUME TemplateInv, NEW row \in InputRows, ReadInput(row)
    PROVE  TemplateInv'
<1> DEFINE facts == InputFacts(row)
           moved == Plus(sums_in, facts.asset, facts.value)
           accepted == /\ InputReadable(row)
                       /\ Fits(sums_in, facts.asset, facts.value)
                       /\ IssuanceReadable(row)
                       /\ Fits(moved, row.issuance.asset, Issued(row))
<1>1. CASE ~accepted /\ Refuse
  BY <1>1, RefuseStep
<1>2. CASE accepted /\ ~Refuse
  <2>1. /\ phase = "Inputs" /\ accepted
        /\ sums_in' = Plus(moved, row.issuance.asset, Issued(row))
        /\ proven_rows' = proven_rows +
              (IF row.form = "Confidential" /\ ~Declared THEN 1 ELSE 0)
        /\ pos' = pos + 1
        /\ true_in' = Plus(Plus(true_in, row.asset, row.value),
                           row.issuance.asset, row.issuance.value)
        /\ veiled' = IF row.issuance.form = "Hidden"
                     THEN veiled \cup {row.issuance.asset} ELSE veiled
        /\ on_trust' = IF row.issuance.stated # row.issuance.value
                       THEN on_trust \cup {row.issuance.asset} ELSE on_trust
        /\ own_rows' = own_rows + (IF Declared THEN 1 ELSE 0)
        /\ UNCHANGED <<request, phase, sums_out, fee, fee_outputs, true_out, fee_paid>>
    BY <1>2, Zenon DEF ReadInput
  <2>2. facts = [asset |-> row.asset, value |-> row.value]
    BY <2>1, InputTrue
  <2>3. /\ moved = Plus(sums_in, row.asset, row.value)
        /\ Fits(sums_in, row.asset, row.value)
    BY <2>1, <2>2
  <2>4. /\ row.asset \in Assets /\ row.value \in 0..MaxU64
        /\ row.issuance.asset \in Assets /\ row.issuance.value \in 0..MaxU64
        /\ Issued(row) \in 0..MaxU64
        /\ row.issuance.stated = row.issuance.value => Issued(row) <= row.issuance.value
        /\ (row.issuance.stated = row.issuance.value /\ row.issuance.form # "Hidden") =>
              Issued(row) = row.issuance.value
    BY <2>1, InputRowFacts DEF Minting, Issued, IssuanceReadable
  <2> HIDE DEF facts, moved
  <2>types. /\ sums_in \in [Assets -> 0..MaxU64] /\ true_in \in [Assets -> Nat]
        /\ proven_rows \in Nat /\ own_rows \in Nat /\ pos \in Nat
    BY DEF TemplateInv, TypeOK
  <2>values. row.value \in Nat /\ row.issuance.value \in Nat
    BY <2>4
  <2>5. moved \in [Assets -> 0..MaxU64]
    BY <2>types, <2>3, <2>4, CheckedType
  <2>6. sums_in' \in [Assets -> 0..MaxU64]
    BY <2>1, <2>4, <2>5, CheckedType
  <2> HIDE DEF accepted
  <2>8. true_in' \in [Assets -> Nat]
    <3>1. Plus(true_in, row.asset, row.value) \in [Assets -> Nat]
      BY <2>types, <2>values, <2>4, PlusType
    <3> QED
      BY <2>1, <2>values, <2>4, <3>1, PlusType
  <2>9. TypeOK'
    <3>1. proven_rows' \in Nat /\ own_rows' \in Nat /\ pos' \in Nat
      BY <2>1, <2>types
    <3>2. veiled' \subseteq Assets /\ on_trust' \subseteq Assets
      BY <2>1, <2>4 DEF TemplateInv, TypeOK
    <3> QED
      BY <2>1, <2>6, <2>8, <3>1, <3>2 DEF TemplateInv, TypeOK, request
  <2>10. \A a \in Assets : a \notin on_trust' =>
             /\ sums_in'[a] <= true_in'[a]
             /\ a \notin veiled' => sums_in'[a] = true_in'[a]
    <3> SUFFICES ASSUME NEW a \in Assets, a \notin on_trust'
                 PROVE  /\ sums_in'[a] <= true_in'[a]
                        /\ a \notin veiled' => sums_in'[a] = true_in'[a]
      OBVIOUS
    <3>0. /\ a \in Assets /\ a \notin on_trust
          /\ a = row.issuance.asset => row.issuance.stated = row.issuance.value
      BY <2>1
    <3>1. /\ sums_in[a] \in Nat /\ true_in[a] \in Nat /\ sums_in[a] <= true_in[a]
          /\ a \notin veiled => sums_in[a] = true_in[a]
      BY <3>0 DEF TemplateInv, TypeOK, SumsAreTrue
    <3>2. sums_in'[a] = sums_in[a] + (IF a = row.asset THEN row.value ELSE 0)
                          + (IF a = row.issuance.asset THEN Issued(row) ELSE 0)
      <4>1. moved[a] = sums_in[a] + (IF a = row.asset THEN row.value ELSE 0)
        BY <2>types, <2>3, <2>values, <2>4, <3>1 DEF Plus
      <4>2. moved[a] \in Nat
        BY <2>5
      <4>3. sums_in'[a] = moved[a] + (IF a = row.issuance.asset THEN Issued(row) ELSE 0)
        BY <2>1, <2>4, <2>5, <4>2 DEF Plus
      <4> QED
        BY <4>1, <4>3
    <3>3. true_in'[a] = true_in[a] + (IF a = row.asset THEN row.value ELSE 0)
                          + (IF a = row.issuance.asset THEN row.issuance.value ELSE 0)
      BY <2>1, <2>types, <2>values, <2>4, <3>1 DEF Plus
    <3>4. CASE a = row.issuance.asset
      BY <2>1, <2>4, <3>0, <3>1, <3>2, <3>3, <3>4
    <3>5. CASE a # row.issuance.asset
      BY <2>1, <2>4, <3>1, <3>2, <3>3, <3>5
    <3> QED
      BY <3>4, <3>5
  <2>11. SumsAreTrue'
    <3>1. sums_out' = true_out'
      BY <2>1 DEF TemplateInv, SumsAreTrue
    <3> QED
      BY <2>10, <3>1 DEF SumsAreTrue
  <2>12. VerdictJustified' /\ AmountPositive' /\ FeeCounted'
    BY <2>1 DEF TemplateInv, VerdictJustified, AmountPositive, FeeCounted, request
  <2> QED
    BY <2>9, <2>11, <2>12 DEF TemplateInv
<1>3. CASE Refuse
  BY <1>3, RefuseStep
<1> QED
  BY <1>1, <1>2, <1>3 DEF ReadInput

\* A turn of the output loop keeps it.
LEMMA ReadOutputStep ==
    ASSUME TemplateInv, NEW row \in OutputRows, ReadOutput(row)
    PROVE  TemplateInv'
<1> DEFINE asset == IF row.form = "Explicit" THEN row.asset ELSE row.stated.asset
           value == IF row.form = "Explicit" THEN row.value ELSE row.stated.value
           accepted == OutputReadable(row) /\ Fits(sums_out, asset, value)
<1>1. CASE Refuse
  BY <1>1, RefuseStep
<1>2. CASE ~Refuse
  <2>1. /\ phase = "Outputs" /\ accepted
        /\ sums_out' = Plus(sums_out, asset, value)
        /\ proven_rows' = proven_rows + (IF row.form = "Confidential" THEN 1 ELSE 0)
        /\ fee' = IF row.isFee THEN value ELSE fee
        /\ fee_outputs' = fee_outputs + (IF row.isFee THEN 1 ELSE 0)
        /\ pos' = pos + 1
        /\ true_out' = Plus(true_out, row.asset, row.value)
        /\ fee_paid' = fee_paid + (IF row.isFee THEN row.value ELSE 0)
        /\ UNCHANGED <<request, phase, sums_in, true_in, veiled, on_trust, own_rows>>
    BY <1>2, Zenon DEF ReadOutput
  <2>2. asset = row.asset /\ value = row.value
    BY <2>1, OutputTrue
  <2>3. row.asset \in Assets /\ row.value \in 0..MaxU64 /\ row.isFee \in BOOLEAN
    BY OutputRowFacts
  <2> HIDE DEF asset, value
  <2>4. sums_out' \in [Assets -> 0..MaxU64]
    BY <2>1, <2>2, <2>3, CheckedType DEF TemplateInv, TypeOK
  <2>5. sums_out' = Plus(sums_out, row.asset, row.value)
    BY <2>1, <2>2
  <2> HIDE DEF accepted
  <2>6. true_out' = sums_out'
    BY <2>1, <2>5 DEF TemplateInv, SumsAreTrue
  <2>7. true_out' \in [Assets -> Nat]
    BY <2>4, <2>6
  <2>8. TypeOK'
    <3>1. /\ proven_rows' \in Nat /\ fee_outputs' \in Nat /\ pos' \in Nat
          /\ fee' \in 0..MaxU64 /\ fee_paid' \in Nat
      BY <2>1, <2>2, <2>3 DEF TemplateInv, TypeOK
    <3> QED
      BY <2>1, <2>4, <2>7, <3>1 DEF TemplateInv, TypeOK, request
  <2>9. SumsAreTrue'
    BY <2>1, <2>6 DEF TemplateInv, SumsAreTrue
  <2>10. FeeCounted'
    BY <2>1, <2>2, <2>3 DEF TemplateInv, TypeOK, FeeCounted
  <2>11. VerdictJustified' /\ AmountPositive'
    BY <2>1 DEF TemplateInv, VerdictJustified, AmountPositive, request
  <2> QED
    BY <2>8, <2>9, <2>10, <2>11 DEF TemplateInv
<1> QED
  BY <1>1, <1>2

\* Every step of the function keeps the inductive invariant.
LEMMA TemplateStep == TemplateInv /\ [Next]_vars => TemplateInv'
<1> SUFFICES ASSUME TemplateInv, [Next]_vars PROVE TemplateInv'
  OBVIOUS
<1> USE DEF TemplateInv, TypeOK, SumsAreTrue, VerdictJustified, AmountPositive, FeeCounted,
            request, sums, counts, truth
<1>1. CASE Begin
  <2>1. CASE Refuse
    BY <2>1, RefuseStep
  <2>2. CASE /\ phase' = "Inputs" /\ amount > 0
             /\ UNCHANGED <<request, pos, sums, counts, truth>>
    BY <2>2
  <2> QED
    BY <1>1, <2>1, <2>2 DEF Begin
<1>2. CASE EndInputs
  BY <1>2 DEF EndInputs
<1>3. CASE Judge
  <2>1. CASE Refuse
    BY <2>1, RefuseStep
  <2>2. CASE /\ phase = "Outputs" /\ FeeOk /\ Balanced /\ phase' = "Accepted"
             /\ UNCHANGED <<request, pos, sums, counts, truth>>
    BY <2>2 DEF FeeOk, Balanced
  <2> QED
    BY <1>3, <2>1, <2>2 DEF Judge
<1>4. CASE Returned \/ UNCHANGED vars
  BY <1>4 DEF Returned, vars, FeeOk, Balanced
<1>5. CASE \E row \in InputRows : ReadInput(row)
  BY <1>5, ReadInputStep
<1>6. CASE \E row \in OutputRows : ReadOutput(row)
  BY <1>6, ReadOutputStep
<1> QED
  BY <1>1, <1>2, <1>3, <1>4, <1>5, <1>6 DEF Next

\* The inductive invariant holds throughout.
LEMMA TemplateInvariant == Spec => []TemplateInv
BY TemplateInit, TemplateStep, PTL DEF Spec

-----------------------------------------------------------------------------

\* The running sums never leave u64 and every variable keeps its type.
THEOREM TemplateTypeCorrect == Spec => []TypeOK
<1>1. TemplateInv => TypeOK
  BY DEF TemplateInv
<1> QED
  BY <1>1, TemplateInvariant, PTL

\* verify_fund_template_owned accepts a template only if what its rows truly
\* lack is the requested amount of the requested asset and nothing else; of an asset
\* minted other than stated nothing is said.
THEOREM AskIsTrue == Spec => []AsksExactlyAmount
<1>1. TemplateInv => AsksExactlyAmount
  BY DEF TemplateInv, TypeOK, SumsAreTrue, VerdictJustified, Balanced, AsksExactlyAmount
<1> QED
  BY <1>1, TemplateInvariant, PTL

\* The fee verify_fund_template_owned reports is what the template pays.
THEOREM FeeIsTrue == Spec => []FeeIsWhatIsPaid
<1>1. TemplateInv => FeeIsWhatIsPaid
  BY DEF TemplateInv, TypeOK, VerdictJustified, FeeOk, FeeCounted, FeeIsWhatIsPaid
<1> QED
  BY <1>1, TemplateInvariant, PTL

(***************************************************************************)
(* The host's own inputs                                                   *)
(***************************************************************************)

\* The declarations about the first p inputs.
About(p) == {i \in 1..Len(owned) : owned[i] < p}

\* Each declaration about an input that was read has been met once: the list has no
\* index twice and none beyond the inputs.
OwnedInv ==
    /\ phase = "Start" => pos = 0 /\ own_rows = 0
    /\ phase \in {"Inputs", "Outputs", "Accepted"} => OwnedOk
    /\ phase = "Inputs" => pos <= inputs_len /\ own_rows = Cardinality(About(pos))
    /\ phase \in {"Outputs", "Accepted"} => own_rows = Len(owned)

\* The set of declarations is finite, empty at first, and all of them at the end.
LEMMA AboutFacts ==
    ASSUME TypeOK
    PROVE  /\ Cardinality(About(0)) = 0
           /\ \A p \in Nat : IsFiniteSet(About(p))
           /\ OwnedOk => Cardinality(About(inputs_len)) = Len(owned)
<1>1. /\ Len(owned) \in Nat /\ DOMAIN owned = 1..Len(owned) /\ inputs_len \in Nat
      /\ \A i \in 1..Len(owned) : owned[i] \in Nat
  BY DEF TypeOK
<1>2. IsFiniteSet(1..Len(owned)) /\ Cardinality(1..Len(owned)) = Len(owned)
  <2> DEFINE n == Len(owned)
  <2>1. n \in Int /\ 1 \in Int
    BY <1>1
  <2> HIDE DEF n
  <2>2. IsFiniteSet(1..n) /\ Cardinality(1..n) = IF 1 > n THEN 0 ELSE n - 1 + 1
    BY <2>1, FS_Interval
  <2>3. n \in Nat
    BY <1>1 DEF n
  <2>4. Cardinality(1..n) = n
    BY <2>2, <2>3
  <2> QED BY <2>2, <2>4 DEF n
<1>3. \A p \in Nat : IsFiniteSet(About(p))
  <2> TAKE p \in Nat
  <2>1. About(p) \in SUBSET (1..Len(owned))
    BY DEF About
  <2> QED BY <1>2, <2>1, FS_Subset
<1>4. About(0) = {}
  BY <1>1 DEF About
<1>5. OwnedOk => About(inputs_len) = 1..Len(owned)
  BY DEF About, OwnedOk
<1> QED BY <1>2, <1>3, <1>4, <1>5, FS_EmptySet

\* The next input is declared by one entry of the list, or by none.
LEMMA AboutGrows ==
    ASSUME TypeOK, OwnedOk
    PROVE  Cardinality(About(pos + 1)) = Cardinality(About(pos)) + (IF Declared THEN 1 ELSE 0)
<1>1. /\ pos \in Nat /\ \A i \in 1..Len(owned) : owned[i] \in Nat
      /\ IsFiniteSet(About(pos)) /\ Cardinality(About(pos)) \in Nat
  <2>1. pos \in Nat /\ \A i \in 1..Len(owned) : owned[i] \in Nat
    BY DEF TypeOK
  <2>2. IsFiniteSet(About(pos))
    BY <2>1, AboutFacts
  <2> QED BY <2>1, <2>2, FS_CardinalityType
<1>2. CASE Declared
  <2>1. PICK i \in 1..Len(owned) : owned[i] = pos
    BY <1>2 DEF Declared
  <2>2. i \notin About(pos)
    BY <1>1, <2>1 DEF About
  <2>3. About(pos + 1) = About(pos) \cup {i}
    BY <1>1, <2>1 DEF About, OwnedOk
  <2> QED BY <1>1, <1>2, <2>2, <2>3, FS_AddElement
<1>3. CASE ~Declared
  <2>1. About(pos + 1) = About(pos)
    BY <1>1, <1>3 DEF About, Declared
  <2> QED BY <1>1, <1>3, <2>1
<1> QED BY <1>2, <1>3

\* OwnedInv is kept.
LEMMA OwnedStep == TypeOK /\ OwnedInv /\ [Next]_vars => OwnedInv'
<1> SUFFICES ASSUME TypeOK, OwnedInv, [Next]_vars PROVE OwnedInv'
  OBVIOUS
<1>0. ASSUME Refuse PROVE OwnedInv'
  BY <1>0 DEF Refuse, OwnedInv
<1>1. ASSUME UNCHANGED request
      PROVE  /\ OwnedOk' <=> OwnedOk
             /\ inputs_len' = inputs_len /\ Len(owned)' = Len(owned)
             /\ About(pos)' = {i \in 1..Len(owned) : owned[i] < pos'}
  BY <1>1 DEF OwnedOk, About, request
<1>2. CASE Begin
  <2>1. CASE /\ phase = "Start" /\ OwnedOk /\ phase' = "Inputs"
             /\ UNCHANGED <<request, pos, sums, counts, truth>>
    <3>1. pos' = 0 /\ own_rows' = 0 /\ OwnedOk' /\ About(pos)' = About(0) /\ inputs_len \in Nat
      BY <1>1, <2>1 DEF OwnedInv, About, truth, TypeOK
    <3> QED BY <1>1, <2>1, <3>1, AboutFacts DEF OwnedInv
  <2> QED BY <1>0, <1>2, <2>1 DEF Begin
<1>3. CASE EndInputs
  <2>1. /\ phase = "Inputs" /\ pos = inputs_len /\ phase' = "Outputs"
        /\ own_rows' = own_rows /\ UNCHANGED request
    BY <1>3 DEF EndInputs, truth
  <2>2. OwnedOk /\ own_rows = Len(owned)
    BY <2>1, AboutFacts DEF OwnedInv
  <2> QED BY <1>1, <2>1, <2>2 DEF OwnedInv
<1>4. CASE Judge
  <2>1. CASE /\ phase = "Outputs" /\ phase' = "Accepted"
             /\ UNCHANGED <<request, pos, sums, counts, truth>>
    <3>1. own_rows' = own_rows
      BY <2>1 DEF truth
    <3> QED BY <1>1, <2>1, <3>1 DEF OwnedInv
  <2> QED BY <1>0, <1>4, <2>1 DEF Judge
<1>5. CASE Returned \/ UNCHANGED vars
  <2>1. UNCHANGED <<request, phase, pos, own_rows>>
    BY <1>5 DEF Returned, vars, truth
  <2>2. About(pos)' = About(pos)
    BY <1>1, <2>1 DEF About
  <2> QED BY <1>1, <2>1, <2>2 DEF OwnedInv
<1>6. ASSUME NEW row \in InputRows, ReadInput(row) PROVE OwnedInv'
  <2>1. CASE /\ phase = "Inputs" /\ pos < inputs_len /\ pos' = pos + 1
             /\ own_rows' = own_rows + (IF Declared THEN 1 ELSE 0)
             /\ UNCHANGED <<request, phase>>
    <3>1. OwnedOk /\ own_rows = Cardinality(About(pos))
      BY <2>1 DEF OwnedInv
    <3>2. About(pos)' = About(pos + 1)
      BY <1>1, <2>1 DEF About
    <3>3. pos' <= inputs_len
      BY <2>1 DEF TypeOK
    <3> QED BY <1>1, <2>1, <3>1, <3>2, <3>3, AboutGrows DEF OwnedInv
  <2> QED BY <1>0, <1>6, <2>1, Zenon DEF ReadInput
<1>7. ASSUME NEW row \in OutputRows, ReadOutput(row) PROVE OwnedInv'
  <2>1. CASE phase = "Outputs" /\ UNCHANGED <<request, phase, own_rows>>
    BY <1>1, <2>1 DEF OwnedInv
  <2>2. Refuse \/ (phase = "Outputs" /\ UNCHANGED <<request, phase, own_rows>>)
    BY <1>7 DEF ReadOutput
  <2> QED BY <1>0, <2>1, <2>2
<1> QED BY <1>2, <1>3, <1>4, <1>5, <1>6, <1>7 DEF Next

\* OwnedListedOnce: the number of own inputs that the summary of an accepted template
\* reports is the number of its inputs that were read as the host's own.
THEOREM OwnedCorrect == Spec => []OwnedListedOnce
<1>1. Init => OwnedInv
  BY DEF Init, OwnedInv
<1>2. OwnedInv => OwnedListedOnce
  BY DEF OwnedInv, OwnedListedOnce
<1> QED BY <1>1, <1>2, OwnedStep, TemplateTypeCorrect, PTL DEF Spec

=============================================================================
