--------------------------- MODULE MCLendingFund ---------------------------
(* Instances of LendingFund.  Two assets that are money, two that are tokens, *)
(* lists of at most two entries, fee caps next to each other.                 *)
EXTENDS LendingFund, TLC

CONSTANTS LBTC, USDT, TB, TL

MCAssets == {LBTC, USDT, TB, TL}
MCTokens == {TB, TL}
MCHeights == 0..2

OptionalAssets == {{}, {USDT}}

Fills ==
    [kind: {"Fill"}, version: 1..6, size: {1}, sale: 1..2, buyback: 2..3, expiry: {1, 2},
     cash: {USDT}, collateral: OptionalAssets, fee: {0, 2}, token: {TB},
     payout: {claim_script(TL), Foreign}, lastlook: {Foreign}, lastlook_height: 0..1,
     lender_nft: {TL}]

Lists(S) == UNION {[1..n -> S] : n \in 0..(MAX_LIST + 1)}

Offers ==
    {c \in [kind: {"Offer"}, cash: {USDT}, amounts: Lists({1, 3}), lender_token: {TL},
            claim: {claim_script(TL), Foreign}, fee_script: {Foreign},
            position_leaf: {"V4", "V5"}, fee_min: {0}, cutoff: {1},
            rows: Lists(OfferRows), token_output: SUBSET (0..MAX_LIST + 1)] :
        /\ c.token_output \in {{}, {Len(c.amounts)}}
        /\ (c.claim = Foreign \/ c.position_leaf = "V4") => Len(c.rows) = 1 /\ Len(c.amounts) = 1}


Cancels == [kind: {"OfferCancel"}, cash: {USDT}, amount: 0..2, fee: 0..2, lender_token: {TL}]

Receipts == [asset: {USDT, LBTC}, amount: 1..2]
Collections ==
    [kind: {"Claim"}, lender_token: {TL}, fee: 1..3,
     receives: {list \in Lists(Receipts) : Len(list) < 3}]

Sales == [kind: {"SellRight"}, price: 0..2, cash: {USDT}, fee: 1..2, token: {TB}]

Exercises ==
    [kind: {"Exercise"}, amount: 1..2, released: 0..2, remaining: 0..2, cash: {USDT},
     collateral: OptionalAssets, token: {TB}]

AllClaims == Fills \cup Offers \cup Cancels \cup Collections \cup Sales \cup Exercises

\* Fills and offers commit to many terms: one departure each.
MCChanges == [k \in Kinds |-> IF k \in {"Fill", "Offer"} THEN 1 ELSE 2]

=============================================================================
