---------------------------- MODULE LendingFund ----------------------------
(***************************************************************************)
(* Typed lending funds, lc-wallet-core/src/lending.rs: parse_typed_fund    *)
(* tells a typed memo from text, and verify_typed_fund compares the claim  *)
(* in it with the rows of a template that verify_fund_template_owned has   *)
(* passed.  What is verified is what the approval dialog shows.            *)
(*                                                                         *)
(* A relying party proposes a claim with the template it describes, but    *)
(* may have changed the template, the request or the spent coin.  Hashes   *)
(* are free constructors: a digest is the record of what it commits to, a  *)
(* script hash is the script.                                              *)
(***************************************************************************)
EXTENDS Naturals, Sequences, FiniteSets, FiniteSetsExt

CONSTANTS
    Assets, PolicyAsset,
    Tokens,                     \* assets of which a single unit exists
    MaxU64,                     \* largest u64
    Heights,                    \* block heights
    OfferRows, ZeroTermRows,    \* quote rows; those with a term that is zero
    ZeroRow,                    \* the row whose bytes are all zero
    MAX_LIST,                   \* coins, and rows, an offer may have: 4
    CANCEL_FEE_MAX, CLAIM_FEE_MAX,  \* 5 000 (also of a sold right), 20 000
    Claims,                     \* the claims relying parties make
    MaxChanges                  \* bound, by kind: places where a proposal is not as claimed

Amounts == 0..MaxU64

\* A fill has a version, 1 to 6.
Kinds == {"Fill", "Offer", "OfferCancel", "Claim", "SellRight", "Exercise"}

ASSUME AssetsAssumption == PolicyAsset \in Assets /\ Tokens \subseteq Assets
ASSUME NumbersAssumption ==
    /\ MaxU64 \in Nat /\ MaxU64 > 0 /\ Heights \subseteq Nat
    /\ {MAX_LIST, CANCEL_FEE_MAX, CLAIM_FEE_MAX} \subseteq Nat
    /\ MaxChanges \in [Kinds -> Nat]
\* The memo's fields are parsed into u64s, heights, assets and lists of them.
ASSUME ClaimsAssumption ==
    \A c \in Claims :
        /\ c.kind \in Kinds
        /\ c.kind = "Fill" =>
              /\ c.version \in 1..6
              /\ {c.size, c.sale, c.buyback, c.fee} \subseteq Amounts
              /\ {c.expiry, c.lastlook_height} \subseteq Heights
              /\ {c.cash, c.token, c.lender_nft} \cup c.collateral \subseteq Assets
        /\ c.kind = "Offer" =>
              /\ c.amounts \in Seq(Amounts) /\ c.rows \in Seq(OfferRows)
              /\ {c.cash, c.lender_token} \subseteq Assets /\ c.token_output \subseteq Nat
        /\ c.kind = "OfferCancel" =>
              {c.amount, c.fee} \subseteq Amounts /\ {c.cash, c.lender_token} \subseteq Assets
        /\ c.kind = "Claim" =>
              /\ c.fee \in Amounts /\ c.lender_token \in Assets
              /\ c.receives \in Seq([asset: Assets, amount: Amounts])
        /\ c.kind = "SellRight" =>
              {c.price, c.fee} \subseteq Amounts /\ {c.cash, c.token} \subseteq Assets
        /\ c.kind = "Exercise" =>
              /\ {c.amount, c.released, c.remaining} \subseteq Amounts
              /\ {c.cash, c.token} \cup c.collateral \subseteq Assets
ASSUME OfferRowsAssumption == ZeroRow \in ZeroTermRows /\ ZeroTermRows \subseteq OfferRows

VARIABLES
    memo,           \* what the memo is: "Text", "Malformed" or "Typed"
    claim,          \* the typed claim it carries
    asset, amount,  \* the fund request
    owned,          \* the wallet's own coin at input 0: none, or one
    outputs,        \* rows of the template
    phase,
    receives,       \* TypedFundCheck.receives
    changes         \* how often the relying party departed from the claim

vars == <<memo, claim, asset, amount, owned, outputs, phase, receives, changes>>

-----------------------------------------------------------------------------
(* Scripts and digests                                                     *)

Wallet(n) == [program |-> "Wallet", address |-> n]
Foreign == [program |-> "Foreign"]
BareReturn == [program |-> "BareReturn"]

\* OP_RETURN and one push; the creation metadata is a push of METADATA_LEN.
Return(len, cash, buyback, expiry) ==
    [program |-> "Return", len |-> len, cash |-> cash, buyback |-> buyback, expiry |-> expiry]

METADATA_LEN == 80
Push == Return(1, PolicyAsset, 0, 0)

op_return_payload(script) == script.program = "Return"

position_script(leaf, digest, remaining_debt) ==
    [program |-> leaf, digest |-> digest, debt |-> remaining_debt]

claim_script(token) == [program |-> "Claim", token |-> token]

v2_terms_digest(collateral, c, borrower_nft, lender_nft) ==
    [collateral |-> collateral, cash |-> c.cash, size |-> c.size,
     buyback |-> c.buyback, expiry |-> c.expiry,
     borrower_nft |-> borrower_nft, lender_nft |-> lender_nft, payout |-> c.payout]

\* v5 commits to the same terms.
v4_terms_digest(collateral, c, borrower_nft, lender_nft, borrower_payout) ==
    [collateral |-> collateral, cash |-> c.cash, size |-> c.size,
     buyback |-> c.buyback, expiry |-> c.expiry,
     borrower_nft |-> borrower_nft, lender_nft |-> lender_nft, payout |-> c.payout,
     borrower_payout |-> borrower_payout,
     lastlook |-> c.lastlook, lastlook_height |-> c.lastlook_height]

\* Four rows always; an unused row is all zero.
offer_terms_digest(c) ==
    [cash |-> c.cash, lender_token |-> c.lender_token, claim |-> c.claim,
     fee_script |-> c.fee_script, position_leaf |-> c.position_leaf,
     fee_min |-> c.fee_min, cutoff |-> c.cutoff,
     rows |-> [i \in 1..MAX_LIST |-> IF i <= Len(c.rows) THEN c.rows[i] ELSE ZeroRow]]

-----------------------------------------------------------------------------
(* Reading the template; rows are numbered from 0                          *)

Has(i) == i < Len(outputs)
Out(i) == outputs[i + 1]

Row(a, v, script) == [asset |-> a, value |-> v, script |-> script]

\* `mine`: the outputs whose scripts the host recognises as its own.
Mine(i) == Out(i).script.program = "Wallet"

\* `explicit`: the template has this row, and it is `v` of `a`.
Explicit(i, a, v) == Has(i) /\ Out(i).asset = a /\ Out(i).value = v

mine_paying(a) ==
    {Out(i).value : i \in {j \in 0..(Len(outputs) - 1) : Mine(j) /\ Out(j).asset = a}}

\* No collateral in the memo means the policy asset.
Collateral(c) == IF c.collateral = {} THEN PolicyAsset ELSE CHOOSE a \in c.collateral : TRUE

\* Input 0 is a one-unit coin of this wallet.
OwnsToken(a) == owned = {[asset |-> a, amount |-> 1]}
TokenSpent == \E a \in Assets : OwnsToken(a)

-----------------------------------------------------------------------------
(* Fills                                                                   *)

\* v6 is the v5 program, filled from an offer.
Leaf(version) ==
    [v \in 1..6 |-> CASE v = 2 -> "V2" [] v = 3 -> "V3" [] v = 4 -> "V4" [] OTHER -> "V5"][version]

\* In a fill from an offer the memo names the lender token.
LenderNft(c) == IF c.version = 6 THEN c.lender_nft ELSE Out(2).asset

\* Fault: the borrower's payout is not taken from the wallet's own row.
TermsDigestPayingVenue(c) ==
    IF c.version < 4 THEN v2_terms_digest(Collateral(c), c, Out(1).asset, LenderNft(c))
    ELSE v4_terms_digest(Collateral(c), c, Out(1).asset, LenderNft(c), Foreign)

TermsDigest(c) ==
    IF c.version < 4 THEN v2_terms_digest(Collateral(c), c, Out(1).asset, LenderNft(c))
    ELSE v4_terms_digest(Collateral(c), c, Out(1).asset, LenderNft(c), Out(1).script)

PositionScript(c) == position_script(Leaf(c.version), TermsDigest(c), c.buyback)

\* v1: the metadata at output 3 repeats the terms.
MetadataOk(c) ==
    /\ Has(3) /\ op_return_payload(Out(3).script)
    /\ Out(3).script = Return(METADATA_LEN, c.cash, c.buyback, c.expiry)

\* From v3 on the lender is paid at the claim script of its token.
LenderPayoutOk(c) ==
    /\ c.version \in 2..5 => Has(2) /\ Out(2).value = 1
    /\ c.version \in 3..6 => c.payout = claim_script(LenderNft(c))

\* Fault: the last look may not start with the position.
LastLookPositive(c) == c.version >= 4 => 0 < c.lastlook_height /\ c.lastlook_height < c.expiry

LastLookOk(c) == c.version >= 4 => c.lastlook_height = 0 \/ c.lastlook_height < c.expiry

\* v2 and later: output 0 is the position program with exactly these terms.
CovenantOk(c) ==
    /\ LenderPayoutOk(c) /\ LastLookOk(c)
    /\ Out(0).script = PositionScript(c)

\* Fault: the fee is taken off with wrap-around.
ProceedsWrap(c) == ((c.sale + MaxU64 + 1 - c.fee) % (MaxU64 + 1)) \in mine_paying(c.cash)

ProceedsOk(c) == c.fee <= c.sale /\ (c.sale - c.fee) \in mine_paying(c.cash)

FillOk(c) ==
    /\ asset = Collateral(c) /\ amount = c.size /\ c.buyback > c.sale
    /\ Explicit(0, Collateral(c), c.size)
    /\ Has(1) /\ Out(1).value = 1 /\ Mine(1)
    /\ IF c.version = 1 THEN MetadataOk(c) ELSE CovenantOk(c)
    /\ ProceedsOk(c)

-----------------------------------------------------------------------------
(* Offers                                                                  *)

Total(amounts) == MapThenSumSet(LAMBDA i : amounts[i], DOMAIN amounts)

\* Fault: the sum wraps.
TotalWraps(c, sum) == sum = Total(c.amounts) % (MaxU64 + 1)

\* try_fold with checked_add.
TotalIs(c, sum) == sum = Total(c.amounts) /\ sum <= MaxU64

\* Fault: a row with a zero term is let through.
RowsCounted(c) == Len(c.rows) \in 1..MAX_LIST

RowsOk(c) ==
    /\ Len(c.rows) \in 1..MAX_LIST
    /\ \A i \in 1..Len(c.rows) : c.rows[i] \notin ZeroTermRows

\* Coin i is escrowed under the offer program with these terms, whole.
CoinOk(c, i) ==
    /\ Explicit(i, c.cash, c.amounts[i + 1])
    /\ Out(i).script = position_script("Offer", offer_terms_digest(c), c.amounts[i + 1])

OfferOk(c) ==
    /\ asset = c.cash
    /\ Len(c.amounts) \in 1..MAX_LIST
    /\ TotalIs(c, amount)
    /\ RowsOk(c)
    /\ c.position_leaf = "V5"
    /\ c.claim = claim_script(c.lender_token)
    /\ \A i \in 0..(Len(c.amounts) - 1) : CoinOk(c, i)
    /\ \A t \in c.token_output : Explicit(t, c.lender_token, 1) /\ Mine(t)

-----------------------------------------------------------------------------
(* Steps that spend a token                                                *)

FundsOnlyFee(c, cap) == asset = PolicyAsset /\ amount = c.fee /\ c.fee <= cap

\* Fault: the token need not come back.
TokenSpentOnly(token) == OwnsToken(token)

\* Input 0 is the lender token, and output 0 returns it.
TokenRoundTrip(token) == OwnsToken(token) /\ Explicit(0, token, 1) /\ Mine(0)

PaysAtLeast(a, v) == \E paid \in mine_paying(a) : paid >= v

OfferCancelOk(c) ==
    /\ FundsOnlyFee(c, CANCEL_FEE_MAX)
    /\ TokenRoundTrip(c.lender_token)
    /\ PaysAtLeast(c.cash, c.amount)

ClaimOk(c) ==
    /\ FundsOnlyFee(c, CLAIM_FEE_MAX)
    /\ c.receives # <<>>
    /\ TokenRoundTrip(c.lender_token)
    /\ \A i \in 1..Len(c.receives) : PaysAtLeast(c.receives[i].asset, c.receives[i].amount)

SellRightOk(c) ==
    /\ TokenSpent
    /\ FundsOnlyFee(c, CANCEL_FEE_MAX)
    /\ c.price > 0
    /\ PaysAtLeast(c.cash, c.price)

\* Debt is left: the token comes back and a row of collateral follows it.
TokenReturned(c) ==
    /\ \E a \in Assets : TokenRoundTrip(a)
    /\ ~op_return_payload(Out(0).script)
    /\ Has(1) /\ Out(1).asset = Collateral(c)

\* Nothing is left: output 0 burns the token.
TokenBurned ==
    /\ Has(0) /\ op_return_payload(Out(0).script)
    /\ OwnsToken(Out(0).asset)

ExerciseOk(c) ==
    /\ asset = c.cash /\ amount = c.amount /\ TokenSpent
    /\ IF c.remaining > 0 THEN TokenReturned(c) ELSE TokenBurned
    /\ PaysAtLeast(Collateral(c), c.released)

-----------------------------------------------------------------------------
(* The two functions                                                       *)

Verified ==
    CASE claim.kind = "Fill" -> FillOk(claim)
      [] claim.kind = "Offer" -> OfferOk(claim)
      [] claim.kind = "OfferCancel" -> OfferCancelOk(claim)
      [] claim.kind = "Claim" -> ClaimOk(claim)
      [] claim.kind = "SellRight" -> SellRightOk(claim)
      [] claim.kind = "Exercise" -> ExerciseOk(claim)

\* What the wallet is told it receives: for the `>=` checks, the largest row.
Received ==
    CASE claim.kind = "Fill" -> claim.sale - claim.fee
      [] claim.kind = "Offer" -> 0
      [] claim.kind = "Claim" -> claim.receives[1].amount
      [] claim.kind = "Exercise" -> Max(mine_paying(Collateral(claim)))
      [] OTHER -> Max(mine_paying(claim.cash))

Indices(P(_)) == {i \in 1..Len(outputs) : P(outputs[i])}
Sum(P(_)) == MapThenSumSet(LAMBDA i : outputs[i].value, Indices(P))

\* verify_fund_template_owned has passed: something is asked for, every row
\* states its asset and value, and no token is paid out twice.
TemplatePassed ==
    /\ amount > 0
    /\ \A t \in Tokens : Sum(LAMBDA row : row.asset = t) <= 1

parse_typed_fund ==
    /\ phase = "Memo"
    /\ phase' = CASE memo = "Text" -> "Plain" [] memo = "Malformed" -> "Refused" [] OTHER -> "Parsed"
    /\ UNCHANGED <<memo, claim, asset, amount, owned, outputs, receives, changes>>

verify_typed_fund ==
    /\ phase = "Parsed"
    /\ \/ TemplatePassed /\ Verified /\ phase' = "Accepted" /\ receives' = Received
       \/ ~(TemplatePassed /\ Verified) /\ phase' = "Refused" /\ UNCHANGED receives
    /\ UNCHANGED <<memo, claim, asset, amount, owned, outputs, changes>>

-----------------------------------------------------------------------------
(* The relying party                                                       *)

\* The cost the claim states, and in which asset: what is shown as paid.
ShownAsset(c) ==
    CASE c.kind = "Fill" -> Collateral(c)
      [] c.kind \in {"Offer", "Exercise"} -> c.cash
      [] OTHER -> PolicyAsset

ShownCost(c) ==
    CASE c.kind = "Fill" -> c.size
      [] c.kind = "Offer" -> Total(c.amounts)
      [] c.kind = "Exercise" -> c.amount
      [] OTHER -> c.fee

\* The coin the claimed step spends, and the template that carries it out.
HonestOwned(c) ==
    CASE c.kind \in {"OfferCancel", "Claim"} -> {[asset |-> c.lender_token, amount |-> 1]}
      [] c.kind \in {"SellRight", "Exercise"} -> {[asset |-> c.token, amount |-> 1]}
      [] OTHER -> {}

HonestFill(c) ==
    LET proceeds == IF c.fee <= c.sale THEN c.sale - c.fee ELSE 0
        lender == IF c.version = 6 THEN Row(c.cash, 0, Foreign) ELSE Row(c.lender_nft, 1, Foreign)
        terms == IF c.version < 4 THEN v2_terms_digest(Collateral(c), c, c.token, c.lender_nft)
                 ELSE v4_terms_digest(Collateral(c), c, c.token, c.lender_nft, Wallet(1))
        script == IF c.version = 1 THEN Foreign
                  ELSE position_script(Leaf(c.version), terms, c.buyback)
    IN  <<Row(Collateral(c), c.size, script), Row(c.token, 1, Wallet(1)), lender,
          Row(PolicyAsset, 0, Return(METADATA_LEN, c.cash, c.buyback, c.expiry)),
          Row(c.cash, proceeds, Wallet(2))>>

HonestOffer(c) ==
    [i \in 1..Len(c.amounts) |->
        Row(c.cash, c.amounts[i], position_script("Offer", offer_terms_digest(c), c.amounts[i]))]
    \o (IF c.token_output = {} THEN <<>> ELSE <<Row(c.lender_token, 1, Wallet(1))>>)

HonestExercise(c) ==
    (IF c.remaining > 0
     THEN <<Row(c.token, 1, Wallet(1)),
            Row(Collateral(c), 1, position_script("V5", [held |-> c.token], c.remaining))>>
     ELSE <<Row(c.token, 1, Push)>>)
    \o <<Row(Collateral(c), c.released, Wallet(2))>>

HonestOutputs(c) ==
    CASE c.kind = "Fill" -> HonestFill(c)
      [] c.kind = "Offer" -> HonestOffer(c)
      [] c.kind = "Exercise" -> HonestExercise(c)
      [] c.kind = "OfferCancel" -> <<Row(c.lender_token, 1, Wallet(1)), Row(c.cash, c.amount, Wallet(2))>>
      [] c.kind = "SellRight" -> <<Row(c.token, 1, Foreign), Row(c.cash, c.price, Wallet(2))>>
      [] c.kind = "Claim" -> <<Row(c.lender_token, 1, Wallet(1))>> \o
            [i \in 1..Len(c.receives) |-> Row(c.receives[i].asset, c.receives[i].amount, Wallet(2))]

\* Scripts a row may have instead: plain ones, and every program the row's own
\* can be turned into by changing the program, the debt or one of the terms.
NearDigests(d) ==
    UNION {
        {[d EXCEPT ![f] = v] : f \in DOMAIN d \cap {"size", "buyback"}, v \in Amounts},
        {[d EXCEPT ![f] = v] : f \in DOMAIN d \cap {"expiry", "lastlook_height", "cutoff"}, v \in Heights},
        {[d EXCEPT ![f] = a] : f \in DOMAIN d \cap {"collateral", "cash", "borrower_nft", "lender_nft",
                                                   "lender_token"}, a \in Assets},
        {[d EXCEPT ![f] = s] : f \in DOMAIN d \cap {"payout", "borrower_payout", "claim"},
                               s \in {Wallet(1), Wallet(2), Foreign} \cup {claim_script(t) : t \in Tokens}},
        {[d EXCEPT ![f] = r] : f \in DOMAIN d \cap {"rows"}, r \in [1..MAX_LIST -> OfferRows]}}

NearScripts(script) ==
    {Wallet(1), Wallet(2), Foreign, BareReturn, Push}
    \cup (IF "debt" \notin DOMAIN script THEN {}
          ELSE {[script EXCEPT !.program = p] : p \in {"V2", "V3", "V4", "V5", "Offer"}}
               \cup {[script EXCEPT !.debt = d] : d \in Amounts}
               \cup {[script EXCEPT !.digest = d] : d \in NearDigests(script.digest)})
    \cup (IF script.program # "Return" THEN {}
          ELSE {Return(script.len, a, script.buyback, script.expiry) : a \in Assets}
               \cup {Return(script.len, script.cash, b, script.expiry) : b \in Amounts}
               \cup {Return(script.len, script.cash, script.buyback, h) : h \in Heights})

Init ==
    /\ memo \in {"Text", "Malformed", "Typed"}
    /\ claim \in Claims
    /\ asset = ShownAsset(claim) /\ amount = ShownCost(claim) % (MaxU64 + 1)
    /\ owned = HonestOwned(claim)
    /\ outputs = HonestOutputs(claim)
    /\ phase = "Memo" /\ receives = 0 /\ changes = 0

Change ==
    /\ phase = "Memo" /\ memo = "Typed" /\ changes < MaxChanges[claim.kind]
    /\ changes' = changes + 1
    /\ UNCHANGED <<memo, claim, phase, receives>>

ChangeRequest ==
    /\ Change
    /\ asset' \in Assets /\ amount' \in Amounts
    /\ UNCHANGED <<owned, outputs>>

ChangeOwned ==
    /\ Change
    /\ owned' \in {{}} \cup {{[asset |-> a, amount |-> v]} : a \in Assets, v \in 1..MaxU64}
    /\ UNCHANGED <<asset, amount, outputs>>

ChangeOutput ==
    /\ Change
    /\ \E i \in 1..Len(outputs) :
          \/ \E a \in Assets, v \in Amounts :
                outputs' = [outputs EXCEPT ![i] = Row(a, v, outputs[i].script)]
          \/ \E script \in NearScripts(outputs[i].script) :
                outputs' = [outputs EXCEPT ![i] = Row(outputs[i].asset, outputs[i].value, script)]
    /\ UNCHANGED <<asset, amount, owned>>

\* Rows are added at the end, or left out.
AddOutput ==
    /\ Change
    /\ \E a \in Assets, v \in Amounts, script \in {Wallet(2), Foreign} :
          outputs' = Append(outputs, Row(a, v, script))
    /\ UNCHANGED <<asset, amount, owned>>

DropOutput ==
    /\ Change /\ outputs # <<>>
    /\ \E i \in 1..Len(outputs) :
          outputs' = SubSeq(outputs, 1, i - 1) \o SubSeq(outputs, i + 1, Len(outputs))
    /\ UNCHANGED <<asset, amount, owned>>

\* The function has returned.
Returned == phase \in {"Plain", "Accepted", "Refused"} /\ UNCHANGED vars

Next ==
    \/ ChangeRequest \/ ChangeOwned \/ ChangeOutput \/ AddOutput \/ DropOutput
    \/ parse_typed_fund \/ verify_typed_fund \/ Returned

Spec == Init /\ [][Next]_vars

-----------------------------------------------------------------------------
(* Properties                                                              *)

\* Types: numbers are u64 and the template is a sequence of rows.
TypeOK ==
    /\ memo \in {"Text", "Malformed", "Typed"} /\ claim \in Claims
    /\ asset \in Assets /\ amount \in Amounts
    /\ owned \in SUBSET [asset: Assets, amount: Amounts]
    /\ \A i \in 1..Len(outputs) : outputs[i].asset \in Assets /\ outputs[i].value \in Amounts
    /\ phase \in {"Memo", "Parsed", "Plain", "Accepted", "Refused"}
    /\ receives \in Amounts /\ changes \in 0..MaxChanges[claim.kind]

\* What the dialog says the wallet pays is what it is asked to fund: the size
\* of a sale, all coins of an offer (added without a limit), the price of a
\* buyback, and for the steps that only spend a token the fee, within its cap.
CostsWhatIsShown ==
    phase = "Accepted" =>
        /\ asset = ShownAsset(claim) /\ amount = ShownCost(claim)
        /\ claim.kind \in {"OfferCancel", "SellRight"} => amount <= CANCEL_FEE_MAX
        /\ claim.kind = "Claim" => amount <= CLAIM_FEE_MAX

\* The payments to the wallet that the dialog, or the token's role, promises.
Promises(c) ==
    LET pay(a, v) == [asset |-> a, amount |-> v]
    IN  CASE c.kind = "Fill" -> <<pay(c.cash, c.sale - c.fee)>>
          [] c.kind = "Offer" -> IF c.token_output = {} THEN <<>> ELSE <<pay(c.lender_token, 1)>>
          [] c.kind = "OfferCancel" -> <<pay(c.cash, c.amount), pay(c.lender_token, 1)>>
          [] c.kind = "Claim" -> Append(c.receives, pay(c.lender_token, 1))
          [] c.kind = "SellRight" -> <<pay(c.cash, c.price)>>
          [] c.kind = "Exercise" ->
                <<pay(Collateral(c), c.released)>> \o
                (IF c.remaining > 0 THEN [i \in 1..1 |-> pay(Out(0).asset, 1)] ELSE <<>>)

Paid(a) == Sum(LAMBDA row : row.asset = a /\ row.script.program = "Wallet")

\* Every payment the dialog promises is made to the wallet, the return of the
\* token included, and so is the number handed to the host.  The code looks for
\* a row for each promise: one row may meet two promises of the same asset.
PaysWhatIsShown ==
    phase = "Accepted" =>
        /\ \A i \in DOMAIN Promises(claim) :
              Paid(Promises(claim)[i].asset) >= Promises(claim)[i].amount
        /\ claim.kind # "Offer" => receives <= Paid(Promises(claim)[1].asset)

\* The position an accepted fill opens is the one shown.  v2 and later: output 0
\* holds the collateral under a position program whose terms are the rendered
\* size, price, expiry and cash, that owes the whole price, that the unit the
\* wallet receives redeems, that pays the lender at its token's claim (v3) and
\* the borrower only where the wallet's token is (v4), and whose last look does
\* not start at expiry or later.  v1: the metadata of the transaction says so.
FillIsWhatIsShown ==
    (phase = "Accepted" /\ claim.kind = "Fill") =>
        LET position == Out(0).script
            terms == position.digest
        IN  /\ claim.sale < claim.buyback
            /\ claim.version = 1 =>
                 Out(3).script = Return(METADATA_LEN, claim.cash, claim.buyback, claim.expiry)
            /\ claim.version > 1 =>
                 /\ position.program = Leaf(claim.version) /\ position.debt = claim.buyback
                 /\ Out(0).asset = terms.collateral /\ Out(0).value = terms.size
                 /\ terms.collateral = Collateral(claim) /\ terms.size = claim.size
                 /\ terms.buyback = claim.buyback /\ terms.expiry = claim.expiry
                 /\ terms.cash = claim.cash
                 /\ Out(1).asset = terms.borrower_nft /\ Out(1).value = 1 /\ Mine(1)
            /\ claim.version > 2 => terms.payout = claim_script(terms.lender_nft)
            /\ claim.version > 3 =>
                 /\ Out(1).script = terms.borrower_payout
                 /\ terms.lastlook_height > 0 => terms.lastlook_height < terms.expiry

\* What an accepted offer escrows is what is shown: offer programs hold all of
\* the funded cash, each knows its whole coin as unlent, and they commit to
\* exactly the quote rows listed, none of which could be an unused one.
OfferIsWhatIsShown ==
    (phase = "Accepted" /\ claim.kind = "Offer") =>
        LET coins == {i \in 1..Len(claim.amounts) : outputs[i].script.program = "Offer"}
        IN  /\ MapThenSumSet(LAMBDA i : outputs[i].value, coins) = amount
            /\ \A i \in coins :
                 LET terms == outputs[i].script.digest
                 IN  /\ outputs[i].script.debt = outputs[i].value
                     /\ outputs[i].asset = terms.cash
                     /\ {r \in 1..MAX_LIST : terms.rows[r] # ZeroRow} = DOMAIN claim.rows
                     /\ \A r \in DOMAIN claim.rows : terms.rows[r] = claim.rows[r]
                     /\ terms.cutoff = claim.cutoff
                     /\ terms.claim = claim_script(terms.lender_token)

\* A claim with sensible numbers, paid in money and not in tokens.
Sane(c) ==
    /\ ShownCost(c) \in 1..MaxU64
    /\ c.kind = "Fill" => /\ c.fee <= c.sale /\ c.sale < c.buyback
                          /\ c.version > 2 => c.payout = claim_script(c.lender_nft)
                          /\ c.lastlook_height = 0 \/ c.lastlook_height < c.expiry
                          /\ c.token # c.lender_nft
    /\ c.kind = "Offer" => /\ \A i \in 1..Len(c.rows) : c.rows[i] \notin ZeroTermRows
                           /\ {Len(c.rows), Len(c.amounts)} \subseteq 1..MAX_LIST
                           /\ c.position_leaf = "V5" /\ c.claim = claim_script(c.lender_token)
                           /\ c.token_output \subseteq {Len(c.amounts)}
    /\ c.kind = "Claim" => /\ c.receives # <<>> /\ c.fee <= CLAIM_FEE_MAX
                           /\ \A i \in 1..Len(c.receives) : c.receives[i].asset \notin Tokens
    /\ c.kind = "SellRight" => c.price > 0
    /\ c.kind \in {"OfferCancel", "SellRight"} => c.fee <= CANCEL_FEE_MAX
    /\ c.kind \in {"Fill", "Exercise"} => Collateral(c) \notin Tokens
    /\ c.kind # "Claim" => c.cash \notin Tokens
    /\ PolicyAsset \notin Tokens

\* Nothing stands in the way of an honest step: a sensible typed claim with the
\* template it describes is not refused.
HonestStepPasses ==
    (memo = "Typed" /\ changes = 0 /\ Sane(claim)) => phase # "Refused"

\* "A full exercise burns it (1 in, 1 to OP_RETURN)": after a full buyback no
\* row that can be spent carries the position token.
FullBuybackBurns ==
    (phase = "Accepted" /\ claim.kind = "Exercise" /\ claim.remaining = 0) =>
        \A i \in 1..Len(outputs) :
            (outputs[i].value > 0 /\ outputs[i].asset \in Tokens /\ OwnsToken(outputs[i].asset))
                => op_return_payload(outputs[i].script)

=============================================================================
