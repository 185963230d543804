------------------------- MODULE LendingFundProofs -------------------------
(***************************************************************************)
(* Proofs about LendingFund, for every set of assets, claims and changes,  *)
(* and templates of any length.                                            *)
(*                                                                         *)
(* verify_typed_fund keeps nothing: the invariant is that what it checked  *)
(* still holds of the template when the dialog is shown (Checked), beside  *)
(* the types (TypeInv), the number handed to the host (Handed) and, for a  *)
(* proposal nobody departed from, what it proposes (HonestInv).  The first *)
(* section is about the sums that the properties take over rows.           *)
(***************************************************************************)
EXTENDS LendingFund, FiniteSetTheorems, WellFoundedInduction, TLAPS

-----------------------------------------------------------------------------
(* Sums over finite sets                                                   *)

\* A set of numbers that is not empty has a least one.
LEMMA LeastNumber ==
    ASSUME NEW N \in SUBSET Nat, N # {}
    PROVE  \E n \in N : \A m \in N : n <= m
<1>1. IsWellFoundedOn(OpToRel(<, Nat), Nat)
  BY NatLessThanWellFounded
<1>2. PICK n \in N : \A m \in N : <<m, n>> \notin OpToRel(<, Nat)
  BY <1>1, WFMin
<1>3. \A m \in N : ~(m < n)
  BY <1>2 DEF OpToRel
<1> QED BY <1>3

\* The sum of f over S, as a fold computes it: element by element, in the order of CHOOSE.
SumOver(f, S) == MapThenSumSet(LAMBDA i : f[i], S)

Pick(s) == CHOOSE x \in s : TRUE
Rest(s) == s \ {Pick(s)}

\* One turn of the fold, with w for what the other elements come to.
Turn(f, s, w) == IF s = {} THEN 0 ELSE f[Pick(s)] + w[Rest(s)]
IsFold(f, S, w) == w = [s \in SUBSET S |-> Turn(f, s, w)]

\* The definition of the fold.
LEMMA SumUnfolds ==
    ASSUME NEW f, NEW S
    PROVE  SumOver(f, S) = (CHOOSE w : IsFold(f, S, w))[S]
BY DEF SumOver, MapThenSumSet, MapThenFoldSet, IsFold, Turn, Pick, Rest

\* The element picked.
LEMMA PickFacts ==
    ASSUME NEW s, IsFiniteSet(s), s # {}
    PROVE  /\ Pick(s) \in s /\ Rest(s) \subseteq s /\ Pick(s) \notin Rest(s)
           /\ IsFiniteSet(Rest(s)) /\ Cardinality(s) \in Nat \ {0}
           /\ Cardinality(Rest(s)) = Cardinality(s) - 1
<1>1. Pick(s) \in s
  BY DEF Pick
<1>2. /\ IsFiniteSet(Rest(s)) /\ Cardinality(Rest(s)) = Cardinality(s) - 1
  BY <1>1, FS_RemoveElement DEF Rest
<1>3. Cardinality(s) \in Nat \ {0}
  BY FS_CardinalityType, FS_EmptySet
<1> QED BY <1>1, <1>2, <1>3 DEF Rest

\* The fold of a finite set exists: a fold of the sets of n elements extends to the
\* sets with one more.
LEMMA FoldExists ==
    ASSUME NEW f, NEW S, IsFiniteSet(S)
    PROVE  \E w : IsFold(f, S, w)
<1> DEFINE Upto(n, w) == \A s \in SUBSET S : Cardinality(s) <= n => w[s] = Turn(f, s, w)
           Bad == {n \in Nat : ~\E w : Upto(n, w)}
<1>0. \A s \in SUBSET S : IsFiniteSet(s) /\ Cardinality(s) \in Nat /\ Cardinality(s) <= Cardinality(S)
  BY FS_Subset, FS_CardinalityType
<1>1. Bad = {}
  <2> SUFFICES ASSUME Bad # {} PROVE FALSE
    OBVIOUS
  <2>1. PICK n \in Bad : \A m \in Bad : n <= m
    BY LeastNumber
  <2>2. n # 0
    <3>1. \A s \in SUBSET S : Cardinality(s) <= 0 => s = {}
      BY <1>0, FS_EmptySet
    <3>2. Upto(0, [s \in SUBSET S |-> 0])
      BY <3>1 DEF Turn
    <3> QED BY <3>2
  <2>3. n - 1 \in Nat /\ n - 1 \notin Bad
    BY <2>1, <2>2
  <2>4. PICK w : Upto(n - 1, w)
    BY <2>3
  <2> DEFINE v == [s \in SUBSET S |-> IF Cardinality(s) <= n - 1 THEN w[s] ELSE Turn(f, s, w)]
  <2>5. ASSUME NEW s \in SUBSET S, Cardinality(s) <= n PROVE v[s] = Turn(f, s, v)
    <3>1. v[s] = Turn(f, s, w)
      BY <2>4, <2>5
    <3>2. CASE s = {}
      BY <3>1, <3>2 DEF Turn
    <3>3. CASE s # {}
      <4>1. Rest(s) \in SUBSET S /\ Cardinality(Rest(s)) <= n - 1
        BY <1>0, <2>1, <2>5, <3>3, PickFacts
      <4>2. v[Rest(s)] = w[Rest(s)]
        BY <4>1
      <4> QED BY <3>1, <3>3, <4>2 DEF Turn
    <3> QED BY <3>2, <3>3
  <2>6. Upto(n, v)
    BY <2>5
  <2> HIDE DEF v
  <2> QED BY <2>1, <2>6
<1>2. Cardinality(S) \in Nat
  BY FS_CardinalityType
<1>3. PICK w : Upto(Cardinality(S), w)
  BY <1>1, <1>2
<1> DEFINE v == [s \in SUBSET S |-> w[s]]
<1>4. ASSUME NEW s \in SUBSET S PROVE v[s] = Turn(f, s, v)
  <2>1. v[s] = Turn(f, s, w)
    BY <1>0, <1>3
  <2>2. Rest(s) \in SUBSET S
    BY DEF Rest
  <2> QED BY <2>1, <2>2 DEF Turn
<1>5. IsFold(f, S, v)
  BY <1>4 DEF IsFold
<1> QED BY <1>5

\* Folds over two sets agree on their common subsets.
LEMMA FoldsAgree ==
    ASSUME NEW f, NEW S, NEW T \in SUBSET S, IsFiniteSet(S), NEW v, NEW w,
           IsFold(f, S, v), IsFold(f, T, w)
    PROVE  \A s \in SUBSET T : v[s] = w[s]
<1> DEFINE Bad == {n \in Nat : \E s \in SUBSET T : Cardinality(s) = n /\ v[s] # w[s]}
<1>0. \A s \in SUBSET T : IsFiniteSet(s) /\ Cardinality(s) \in Nat
  BY FS_Subset, FS_CardinalityType
<1>1. Bad = {}
  <2> SUFFICES ASSUME Bad # {} PROVE FALSE
    OBVIOUS
  <2>1. PICK n \in Bad : \A m \in Bad : n <= m
    BY LeastNumber
  <2>2. PICK s \in SUBSET T : Cardinality(s) = n /\ v[s] # w[s]
    BY <2>1
  <2>3. v[s] = Turn(f, s, v) /\ w[s] = Turn(f, s, w)
    BY DEF IsFold
  <2>4. s # {}
    BY <2>2, <2>3 DEF Turn
  <2>5. /\ Rest(s) \in SUBSET T /\ Cardinality(Rest(s)) = n - 1 /\ n - 1 \in Nat
    BY <1>0, <2>2, <2>4, PickFacts
  <2>6. v[Rest(s)] = w[Rest(s)]
    BY <2>1, <2>5
  <2> QED BY <2>2, <2>3, <2>4, <2>6 DEF Turn
<1> QED BY <1>0, <1>1

\* The sum of a finite set, one element taken off.
LEMMA SumTurn ==
    ASSUME NEW f, NEW S, IsFiniteSet(S)
    PROVE  SumOver(f, S) = IF S = {} THEN 0 ELSE f[Pick(S)] + SumOver(f, Rest(S))
<1> DEFINE W(s) == CHOOSE w : IsFold(f, s, w)
<1>1. IsFold(f, S, W(S))
  BY FoldExists
<1>2. SumOver(f, S) = W(S)[S]
  BY SumUnfolds
<1>3. W(S)[S] = Turn(f, S, W(S))
  <2> HIDE DEF W
  <2> QED BY <1>1 DEF IsFold
<1>4. ASSUME S # {} PROVE W(S)[Rest(S)] = SumOver(f, Rest(S))
  <2>1. Rest(S) \in SUBSET S /\ IsFiniteSet(Rest(S))
    BY <1>4, PickFacts
  <2>2. IsFold(f, Rest(S), W(Rest(S)))
    BY <2>1, FoldExists
  <2>3. W(S)[Rest(S)] = W(Rest(S))[Rest(S)]
    <3> HIDE DEF W
    <3> QED BY <1>1, <2>1, <2>2, FoldsAgree
  <2> QED BY <2>3, SumUnfolds
<1> HIDE DEF W
<1> QED BY <1>2, <1>3, <1>4 DEF Turn

\* A sum of numbers is a number, and any element may be taken off first.
LEMMA SumSplit ==
    ASSUME NEW f, NEW S, IsFiniteSet(S), \A i \in S : f[i] \in Nat
    PROVE  /\ SumOver(f, S) \in Nat
           /\ \A x \in S : SumOver(f, S) = f[x] + SumOver(f, S \ {x})
<1> DEFINE Good(s) == /\ SumOver(f, s) \in Nat
                      /\ \A x \in s : SumOver(f, s) = f[x] + SumOver(f, s \ {x})
           Bad == {n \in Nat : \E s \in SUBSET S : Cardinality(s) = n /\ ~Good(s)}
<1>0. \A s \in SUBSET S : IsFiniteSet(s) /\ Cardinality(s) \in Nat
  BY FS_Subset, FS_CardinalityType
<1>1. Bad = {}
  <2> SUFFICES ASSUME Bad # {} PROVE FALSE
    OBVIOUS
  <2>1. PICK n \in Bad : \A m \in Bad : n <= m
    BY LeastNumber
  <2>2. PICK s \in SUBSET S : Cardinality(s) = n /\ ~Good(s)
    BY <2>1
  <2>3. \A t \in SUBSET S : Cardinality(t) < n => Good(t)
    BY <1>0, <2>1
  <2>4. CASE s = {}
    <3>1. SumOver(f, s) = 0
      BY <2>4, <1>0, SumTurn
    <3> QED BY <2>2, <2>4, <3>1
  <2>5. CASE s # {}
    <3> DEFINE y == Pick(s)
    <3>1. /\ y \in s /\ Rest(s) = s \ {y} /\ Rest(s) \in SUBSET S
          /\ Cardinality(Rest(s)) < n /\ n \in Nat
      BY <1>0, <2>2, <2>5, PickFacts DEF Rest
    <3>2. SumOver(f, s) = f[y] + SumOver(f, s \ {y})
      BY <1>0, <2>5, <3>1, SumTurn
    <3> HIDE DEF y
    <3>3. SumOver(f, s \ {y}) \in Nat /\ f[y] \in Nat
      BY <2>3, <3>1
    <3>4. ASSUME NEW x \in s, x # y PROVE SumOver(f, s) = f[x] + SumOver(f, s \ {x})
      <4>1. x \in s \ {y} /\ y \in s \ {x} /\ (s \ {y}) \ {x} = (s \ {x}) \ {y}
        BY <3>1, <3>4
      <4>2. /\ s \ {x} \in SUBSET S /\ Cardinality(s \ {x}) < n
        <5>1. Cardinality(s \ {x}) = Cardinality(s) - 1
          BY <1>0, <3>4, FS_RemoveElement
        <5> QED BY <2>2, <3>1, <5>1
      <4>3. SumOver(f, s \ {y}) = f[x] + SumOver(f, (s \ {y}) \ {x})
        BY <2>3, <3>1, <4>1
      <4>4. SumOver(f, s \ {x}) = f[y] + SumOver(f, (s \ {x}) \ {y})
        BY <2>3, <4>1, <4>2
      <4>5. SumOver(f, (s \ {x}) \ {y}) \in Nat
        <5>1. (s \ {x}) \ {y} \in SUBSET S /\ IsFiniteSet(s \ {x})
          BY <1>0, <4>2
        <5>2. Cardinality((s \ {x}) \ {y}) = Cardinality(s \ {x}) - 1
          BY <4>1, <5>1, FS_RemoveElement
        <5>3. Cardinality((s \ {x}) \ {y}) < n
          BY <1>0, <3>1, <4>2, <5>1, <5>2
        <5> QED BY <2>3, <5>1, <5>3
      <4>6. f[x] \in Nat
        BY <3>4
      <4>7. PICK c \in Nat : /\ c = SumOver(f, (s \ {y}) \ {x})
                             /\ c = SumOver(f, (s \ {x}) \ {y})
        BY <4>1, <4>5
      <4>8. PICK a, b \in Nat : a = f[x] /\ b = f[y]
        BY <3>3, <4>6
      <4>9. SumOver(f, s) = b + (a + c) /\ SumOver(f, s \ {x}) = b + c
        BY <3>2, <4>3, <4>4, <4>7, <4>8
      <4>10. b + (a + c) = a + (b + c)
        OBVIOUS
      <4> QED BY <4>8, <4>9, <4>10
    <3>5. SumOver(f, s) \in Nat
      <4>1. PICK a, b \in Nat : a = f[y] /\ b = SumOver(f, s \ {y})
        BY <3>3
      <4> QED BY <3>2, <4>1
    <3>6. Good(s)
      BY <3>2, <3>4, <3>5
    <3> QED BY <2>2, <3>6
  <2> QED BY <2>4, <2>5
<1>2. Good(S)
  BY <1>0, <1>1
<1> QED BY <1>2

\* The values of rows add up to the sum of the function that lists them.
LEMMA SameSum ==
    ASSUME NEW r, NEW f, NEW S, \A i \in S : r[i].value = f[i]
    PROVE  MapThenSumSet(LAMBDA i : r[i].value, S) = SumOver(f, S)
<1> DEFINE G(w) == [s \in SUBSET S |-> IF s = {} THEN 0 ELSE r[Pick(s)].value + w[Rest(s)]]
           H(w) == [s \in SUBSET S |-> Turn(f, s, w)]
<1>1. MapThenSumSet(LAMBDA i : r[i].value, S) = (CHOOSE w : w = G(w))[S]
  BY DEF MapThenSumSet, MapThenFoldSet, Pick, Rest
<1>2. SumOver(f, S) = (CHOOSE w : w = H(w))[S]
  BY SumUnfolds DEF IsFold
<1>3. ASSUME NEW w PROVE G(w) = H(w)
  <2>1. ASSUME NEW s \in SUBSET S, s # {} PROVE r[Pick(s)].value = f[Pick(s)]
    BY <2>1 DEF Pick
  <2> QED
    BY <2>1 DEF Turn
<1> HIDE DEF G, H
<1>4. (CHOOSE w : w = G(w)) = (CHOOSE w : w = H(w))
  BY <1>3
<1> QED
  BY <1>1, <1>2, <1>4

-----------------------------------------------------------------------------
(* What was checked stays true                                             *)

Checked == claim \in Claims /\ (phase = "Accepted" => Verified)

\* The verdict of verify_typed_fund depends on the claim, the request, the
\* spent coin and the outputs only.
LEMMA VerdictFixed ==
    ASSUME UNCHANGED <<claim, asset, amount, owned, outputs>>, Verified, claim \in Claims
    PROVE  Verified'
<1>1. CASE claim.kind = "Fill"
  <2>1. FillOk(claim)
    BY <1>1 DEF Verified
  <2>2. FillOk(claim)'
    BY <2>1 DEF FillOk, MetadataOk, CovenantOk, LenderPayoutOk, LastLookOk, ProceedsOk,
                PositionScript, TermsDigest, LenderNft, Explicit, Has, Out, Mine, mine_paying
  <2> QED
    BY <1>1, <2>2 DEF Verified
<1>2. CASE claim.kind = "Offer"
  <2>1. OfferOk(claim)
    BY <1>2 DEF Verified
  <2>2. OfferOk(claim)'
    BY <2>1 DEF OfferOk, TotalIs, CoinOk, Explicit, Has, Out, Mine
  <2> QED
    BY <1>2, <2>2 DEF Verified
<1>3. CASE claim.kind = "OfferCancel"
  <2>1. OfferCancelOk(claim)
    BY <1>3 DEF Verified
  <2>2. OfferCancelOk(claim)'
    BY <2>1 DEF OfferCancelOk, FundsOnlyFee, TokenRoundTrip, PaysAtLeast, OwnsToken,
                Explicit, Has, Out, Mine, mine_paying
  <2> QED
    BY <1>3, <2>2 DEF Verified
<1>4. CASE claim.kind = "Claim"
  <2>1. ClaimOk(claim)
    BY <1>4 DEF Verified
  <2>2. ClaimOk(claim)'
    BY <2>1 DEF ClaimOk, FundsOnlyFee, TokenRoundTrip, PaysAtLeast, OwnsToken,
                Explicit, Has, Out, Mine, mine_paying
  <2> QED
    BY <1>4, <2>2 DEF Verified
<1>5. CASE claim.kind = "SellRight"
  <2>1. SellRightOk(claim)
    BY <1>5 DEF Verified
  <2>2. SellRightOk(claim)'
    BY <2>1 DEF SellRightOk, FundsOnlyFee, TokenSpent, PaysAtLeast, OwnsToken,
                Has, Out, Mine, mine_paying
  <2> QED
    BY <1>5, <2>2 DEF Verified
<1>6. CASE claim.kind = "Exercise"
  <2>1. ExerciseOk(claim)
    BY <1>6 DEF Verified
  <2>2. ExerciseOk(claim)'
    BY <2>1 DEF ExerciseOk, TokenReturned, TokenBurned, TokenRoundTrip, TokenSpent,
                PaysAtLeast, OwnsToken, Explicit, Has, Out, Mine, mine_paying
  <2> QED
    BY <1>6, <2>2 DEF Verified
<1> QED
  BY <1>1, <1>2, <1>3, <1>4, <1>5, <1>6, ClaimsAssumption DEF Kinds

\* Every departure from the claim is counted and happens before the memo is read.
LEMMA DeparturesChange ==
    (ChangeRequest \/ ChangeOwned \/ ChangeOutput \/ AddOutput \/ DropOutput) => Change
<1>1. ChangeRequest => Change
  BY DEF ChangeRequest
<1>2. ChangeOwned => Change
  BY DEF ChangeOwned
<1>3. ChangeOutput => Change
  BY DEF ChangeOutput
<1>4. AddOutput => Change
  BY DEF AddOutput
<1>5. DropOutput => Change
  BY DEF DropOutput
<1> QED
  BY <1>1, <1>2, <1>3, <1>4, <1>5

\* A claim and its template are fixed once accepted, so what was checked of
\* them stays true.
LEMMA CheckedStays == Spec => []Checked
<1>1. Init => Checked
  BY DEF Init, Checked
<1>2. Checked /\ [Next]_vars => Checked'
  <2> SUFFICES ASSUME Checked, [Next]_vars PROVE Checked'
    OBVIOUS
  <2>1. CASE ChangeRequest \/ ChangeOwned \/ ChangeOutput \/ AddOutput \/ DropOutput
    <3>1. Change
      BY <2>1, DeparturesChange
    <3>2. phase' = "Memo" /\ claim' = claim
      BY <3>1 DEF Change
    <3> QED
      BY <3>2 DEF Checked
  <2>2. CASE parse_typed_fund
    <3>1. claim' = claim /\ phase' # "Accepted"
      BY <2>2 DEF parse_typed_fund
    <3> QED
      BY <3>1 DEF Checked
  <2>3. CASE verify_typed_fund
    <3>1. UNCHANGED <<claim, asset, amount, owned, outputs>>
      BY <2>3 DEF verify_typed_fund
    <3>2. phase' = "Accepted" => Verified
      BY <2>3 DEF verify_typed_fund
    <3> QED
      BY <3>1, <3>2, VerdictFixed DEF Checked
  <2>4. CASE Returned \/ UNCHANGED vars
    <3>1. UNCHANGED <<claim, asset, amount, owned, outputs, phase>>
      BY <2>4 DEF Returned, vars
    <3> QED
      BY <3>1, VerdictFixed DEF Checked
  <2> QED
    BY <2>1, <2>2, <2>3, <2>4 DEF Next
<1> QED
  BY <1>1, <1>2, PTL DEF Spec

\* A typed fund that is accepted asks for exactly what its dialog states: the
\* size, the whole escrow, the buyback price, or a fee within the cap.
THEOREM CostIsShown == Spec => []CostsWhatIsShown
<1>1. Checked => CostsWhatIsShown
  <2> SUFFICES ASSUME Checked, phase = "Accepted"
      PROVE /\ asset = ShownAsset(claim) /\ amount = ShownCost(claim)
            /\ claim.kind \in {"OfferCancel", "SellRight"} => amount <= CANCEL_FEE_MAX
            /\ claim.kind = "Claim" => amount <= CLAIM_FEE_MAX
    BY DEF CostsWhatIsShown
  <2>1. Verified
    BY DEF Checked
  <2>2. CASE claim.kind = "Fill"
    BY <2>1, <2>2 DEF Verified, FillOk, ShownAsset, ShownCost
  <2>3. CASE claim.kind = "Offer"
    BY <2>1, <2>3 DEF Verified, OfferOk, TotalIs, ShownAsset, ShownCost
  <2>4. CASE claim.kind = "OfferCancel"
    BY <2>1, <2>4 DEF Verified, OfferCancelOk, FundsOnlyFee, ShownAsset, ShownCost
  <2>5. CASE claim.kind = "Claim"
    BY <2>1, <2>5 DEF Verified, ClaimOk, FundsOnlyFee, ShownAsset, ShownCost
  <2>6. CASE claim.kind = "SellRight"
    BY <2>1, <2>6 DEF Verified, SellRightOk, FundsOnlyFee, ShownAsset, ShownCost
  <2>7. CASE claim.kind = "Exercise"
    BY <2>1, <2>7 DEF Verified, ExerciseOk, ShownAsset, ShownCost
  <2> QED
    BY <2>1, <2>2, <2>3, <2>4, <2>5, <2>6, <2>7, ClaimsAssumption DEF Checked, Kinds
<1> QED
  BY <1>1, CheckedStays, PTL

\* The position that an accepted fill opens is the one its dialog states: its
\* terms are what the position program at output 0 commits to.
THEOREM FillIsTrue == Spec => []FillIsWhatIsShown
<1>1. Checked => FillIsWhatIsShown
  <2> SUFFICES ASSUME Checked, phase = "Accepted", claim.kind = "Fill"
               PROVE  FillIsWhatIsShown
    BY DEF FillIsWhatIsShown
  <2>1. FillOk(claim) /\ claim.version \in 1..6
    BY ClaimsAssumption DEF Checked, Verified
  <2> DEFINE position == Out(0).script
             terms == position.digest
  <2>2. /\ claim.sale < claim.buyback
        /\ Out(1).value = 1 /\ Mine(1)
        /\ Out(0).asset = Collateral(claim) /\ Out(0).value = claim.size
    BY <2>1 DEF FillOk, Explicit
  <2>3. CASE claim.version = 1
    <3>1. Out(3).script = Return(METADATA_LEN, claim.cash, claim.buyback, claim.expiry)
      BY <2>1, <2>3 DEF FillOk, MetadataOk
    <3> QED
      BY <2>2, <2>3, <3>1 DEF FillIsWhatIsShown
  <2>4. CASE claim.version # 1
    <3>1. CovenantOk(claim)
      BY <2>1, <2>4 DEF FillOk
    <3>2. position = position_script(Leaf(claim.version), TermsDigest(claim), claim.buyback)
      BY <3>1 DEF CovenantOk, PositionScript
    <3>3. /\ position.program = Leaf(claim.version)
          /\ position.debt = claim.buyback
          /\ terms = TermsDigest(claim)
      BY <3>2 DEF position_script
    <3>4. /\ terms.collateral = Collateral(claim) /\ terms.size = claim.size
          /\ terms.buyback = claim.buyback /\ terms.expiry = claim.expiry
          /\ terms.cash = claim.cash /\ terms.payout = claim.payout
          /\ terms.borrower_nft = Out(1).asset
          /\ terms.lender_nft = LenderNft(claim)
      BY <3>3 DEF TermsDigest, v2_terms_digest, v4_terms_digest
    <3>5. claim.version > 2 => terms.payout = claim_script(terms.lender_nft)
      BY <2>1, <3>1, <3>4 DEF CovenantOk, LenderPayoutOk
    <3>6. claim.version > 3 =>
             /\ Out(1).script = terms.borrower_payout
             /\ terms.lastlook_height > 0 => terms.lastlook_height < terms.expiry
      <4> SUFFICES ASSUME claim.version > 3
                   PROVE  /\ Out(1).script = terms.borrower_payout
                          /\ terms.lastlook_height > 0 => terms.lastlook_height < terms.expiry
        OBVIOUS
      <4>1. /\ terms.borrower_payout = Out(1).script
            /\ terms.lastlook_height = claim.lastlook_height
        BY <2>1, <3>3 DEF TermsDigest, v4_terms_digest
      <4>2. claim.lastlook_height = 0 \/ claim.lastlook_height < claim.expiry
        BY <2>1, <3>1 DEF CovenantOk, LastLookOk
      <4> QED
        BY <3>4, <4>1, <4>2
    <3> QED
      BY <2>2, <2>4, <3>3, <3>4, <3>5, <3>6 DEF FillIsWhatIsShown
  <2> QED
    BY <2>3, <2>4
<1> QED
  BY <1>1, CheckedStays, PTL

-----------------------------------------------------------------------------
(* Types                                                                   *)

\* A template of rows with an asset and a u64 each.
RowsOver(S) == \A r \in S : r.asset \in Assets /\ r.value \in Amounts
IsTemplate(rows) == \E S : rows \in Seq(S) /\ RowsOver(S)

TypeInv == TypeOK /\ IsTemplate(outputs)

\* The u64s are numbers, 0 and 1 among them.
LEMMA AmountsAreNumbers == Amounts \subseteq Nat /\ 0 \in Amounts /\ 1 \in Amounts
BY NumbersAssumption DEF Amounts

\* What wraps is a u64, and a u64 is not changed by wrapping.
LEMMA WrappedNumbers ==
    /\ \A n \in Nat : n % (MaxU64 + 1) \in Amounts
    /\ \A n \in Amounts : n % (MaxU64 + 1) = n
BY NumbersAssumption DEF Amounts

\* The coins of an offer add up to a number.
LEMMA TotalIsNumber ==
    ASSUME NEW amounts \in Seq(Amounts)
    PROVE  Total(amounts) \in Nat
<1>1. DOMAIN amounts = 1..Len(amounts) /\ Len(amounts) \in Nat
  OBVIOUS
<1>2. IsFiniteSet(DOMAIN amounts)
  BY <1>1, FS_Interval
<1>3. \A i \in DOMAIN amounts : amounts[i] \in Nat
  <2>1. \A i \in DOMAIN amounts : amounts[i] \in Amounts
    BY <1>1
  <2> QED
    BY <2>1, AmountsAreNumbers
<1>4. Total(amounts) = SumOver(amounts, DOMAIN amounts)
  BY DEF Total, SumOver
<1> QED
  BY <1>2, <1>3, <1>4, SumSplit

\* The collateral of a position is an asset.
LEMMA CollateralIsAsset ==
    ASSUME NEW c \in Claims, c.kind \in {"Fill", "Exercise"}
    PROVE  Collateral(c) \in Assets
<1>1. c.collateral \subseteq Assets
  BY ClaimsAssumption
<1>2. c.collateral # {} => (CHOOSE a \in c.collateral : TRUE) \in c.collateral
  OBVIOUS
<1> QED
  BY <1>1, <1>2, AssetsAssumption DEF Collateral

\* The elements of a sequence are in the set it is a sequence over.
LEMMA ElementsOf ==
    \A T : \A s \in Seq(T) : Len(s) \in Nat /\ DOMAIN s = 1..Len(s) /\ \A i \in 1..Len(s) : s[i] \in T
OBVIOUS

\* Short sequences put together.
LEMMA ShortSequences ==
    ASSUME NEW p, NEW q
    PROVE  <<p>> \o <<q>> = <<p, q>> /\ <<p>> \o <<>> = <<p>>
<1>1. <<p>> \in Seq({p, q}) /\ <<q>> \in Seq({p, q}) /\ <<>> \in Seq({p, q})
  OBVIOUS
<1>2. /\ Len(<<p>> \o <<q>>) = 2 /\ (<<p>> \o <<q>>)[1] = p /\ (<<p>> \o <<q>>)[2] = q
      /\ Len(<<p>> \o <<>>) = 1 /\ (<<p>> \o <<>>)[1] = p
  BY <1>1
<1>3. <<p>> \o <<q>> \in Seq({p, q}) /\ <<p>> \o <<>> \in Seq({p, q})
  BY <1>1
<1>4. <<p>> \o <<q>> = <<p, q>>
  <2> PICK s \in Seq({p, q}) : s = <<p>> \o <<q>>
    BY <1>3
  <2>1. Len(s) = 2 /\ s[1] = p /\ s[2] = q
    BY <1>2
  <2>2. s = [i \in 1..2 |-> s[i]]
    BY <2>1
  <2>3. <<p, q>> = [i \in 1..2 |-> IF i = 1 THEN p ELSE q]
    OBVIOUS
  <2>4. ASSUME NEW i \in 1..2 PROVE s[i] = IF i = 1 THEN p ELSE q
    <3>1. i = 1 \/ i = 2
      OBVIOUS
    <3> QED
      BY <2>1, <3>1
  <2> QED
    BY <2>2, <2>3, <2>4
<1>5. <<p>> \o <<>> = <<p>>
  <2> PICK s \in Seq({p, q}) : s = <<p>> \o <<>>
    BY <1>3
  <2>1. Len(s) = 1 /\ s[1] = p
    BY <1>2
  <2>2. s = <<p>>
    BY <2>1
  <2> QED
    BY <2>2
<1> QED
  BY <1>4, <1>5

\* The fields of a row.
LEMMA RowFacts ==
    ASSUME NEW a, NEW v, NEW script
    PROVE  /\ Row(a, v, script).asset = a /\ Row(a, v, script).value = v
           /\ Row(a, v, script).script = script
BY DEF Row

\* The template of an honest claim.
LEMMA HonestTemplate ==
    ASSUME NEW c \in Claims
    PROVE  IsTemplate(HonestOutputs(c))
<1> USE AmountsAreNumbers
<1>1. CASE c.kind = "Fill"
  <2> DEFINE proceeds == IF c.fee <= c.sale THEN c.sale - c.fee ELSE 0
  <2>1. /\ {c.size, c.sale, c.fee} \subseteq Amounts
        /\ {c.cash, c.token, c.lender_nft, Collateral(c), PolicyAsset} \subseteq Assets
    BY <1>1, ClaimsAssumption, CollateralIsAsset, AssetsAssumption
  <2>2. proceeds \in Amounts
    BY <2>1, NumbersAssumption DEF Amounts
  <2> HIDE DEF proceeds
  <2>3. PICK r1, r2, r3, r4, r5 :
           /\ HonestFill(c) = <<r1, r2, r3, r4, r5>>
           /\ RowsOver({r1, r2, r3, r4, r5})
    <3>1. PICK s1, s4 : HonestFill(c) =
             <<Row(Collateral(c), c.size, s1), Row(c.token, 1, Wallet(1)),
               IF c.version = 6 THEN Row(c.cash, 0, Foreign) ELSE Row(c.lender_nft, 1, Foreign),
               Row(PolicyAsset, 0, s4), Row(c.cash, proceeds, Wallet(2))>>
      BY DEF HonestFill, proceeds
    <3> QED
      BY <2>1, <2>2, <3>1, RowFacts DEF RowsOver
  <2>4. HonestFill(c) \in Seq({r1, r2, r3, r4, r5})
    BY <2>3
  <2> QED
    BY <1>1, <2>3, <2>4 DEF IsTemplate, HonestOutputs
<1>2. CASE c.kind = "Offer"
  <2>1. c.amounts \in Seq(Amounts) /\ c.cash \in Assets /\ c.lender_token \in Assets
    BY <1>2, ClaimsAssumption
  <2> DEFINE R(i) == Row(c.cash, c.amounts[i],
                         position_script("Offer", offer_terms_digest(c), c.amounts[i]))
             token == Row(c.lender_token, 1, Wallet(1))
             S == {R(i) : i \in 1..Len(c.amounts)} \cup {token}
  <2>2. RowsOver(S)
    BY <2>1, RowFacts DEF RowsOver
  <2>3. [i \in 1..Len(c.amounts) |-> R(i)] \in Seq(S)
    BY <2>1
  <2>4. <<token>> \in Seq(S) /\ <<>> \in Seq(S)
    OBVIOUS
  <2>5. HonestOffer(c) = [i \in 1..Len(c.amounts) |-> R(i)]
                            \o (IF c.token_output = {} THEN <<>> ELSE <<token>>)
    BY DEF HonestOffer
  <2> HIDE DEF R, token, S
  <2>6. HonestOffer(c) \in Seq(S)
    BY <2>3, <2>4, <2>5
  <2> QED
    BY <1>2, <2>2, <2>6 DEF IsTemplate, HonestOutputs
<1>3. CASE c.kind = "OfferCancel"
  <2> DEFINE S == {Row(c.lender_token, 1, Wallet(1)), Row(c.cash, c.amount, Wallet(2))}
  <2>1. RowsOver(S)
    BY <1>3, ClaimsAssumption, RowFacts DEF RowsOver
  <2>2. HonestOutputs(c) \in Seq(S)
    BY <1>3 DEF HonestOutputs
  <2> QED
    BY <2>1, <2>2 DEF IsTemplate
<1>4. CASE c.kind = "Claim"
  <2>1. c.receives \in Seq([asset: Assets, amount: Amounts]) /\ c.lender_token \in Assets
    BY <1>4, ClaimsAssumption
  <2> DEFINE R(i) == Row(c.receives[i].asset, c.receives[i].amount, Wallet(2))
             token == Row(c.lender_token, 1, Wallet(1))
             S == {R(i) : i \in 1..Len(c.receives)} \cup {token}
  <2>2. RowsOver(S)
    <3>1. \A i \in 1..Len(c.receives) : c.receives[i] \in [asset: Assets, amount: Amounts]
      BY <2>1, ElementsOf
    <3>2. \A i \in 1..Len(c.receives) : R(i).asset \in Assets /\ R(i).value \in Amounts
      BY <3>1, RowFacts
    <3>3. token.asset \in Assets /\ token.value \in Amounts
      BY <2>1, RowFacts
    <3> QED
      BY <3>2, <3>3 DEF RowsOver
  <2>3. [i \in 1..Len(c.receives) |-> R(i)] \in Seq(S)
    BY <2>1
  <2>4. <<token>> \in Seq(S)
    OBVIOUS
  <2>5. HonestOutputs(c) = <<token>> \o [i \in 1..Len(c.receives) |-> R(i)]
    BY <1>4 DEF HonestOutputs
  <2> HIDE DEF R, token, S
  <2>6. HonestOutputs(c) \in Seq(S)
    BY <2>3, <2>4, <2>5
  <2> QED
    BY <2>2, <2>6 DEF IsTemplate
<1>5. CASE c.kind = "SellRight"
  <2> DEFINE S == {Row(c.token, 1, Foreign), Row(c.cash, c.price, Wallet(2))}
  <2>1. RowsOver(S)
    BY <1>5, ClaimsAssumption, RowFacts DEF RowsOver
  <2>2. HonestOutputs(c) \in Seq(S)
    BY <1>5 DEF HonestOutputs
  <2> QED
    BY <2>1, <2>2 DEF IsTemplate
<1>6. CASE c.kind = "Exercise"
  <2>1. {c.token, Collateral(c)} \subseteq Assets /\ c.released \in Amounts
    BY <1>6, ClaimsAssumption, CollateralIsAsset
  <2> DEFINE back == Row(c.token, 1, Wallet(1))
             held == Row(Collateral(c), 1, position_script("V5", [held |-> c.token], c.remaining))
             burn == Row(c.token, 1, Push)
             paid == Row(Collateral(c), c.released, Wallet(2))
             S == {back, held, burn, paid}
  <2>2. RowsOver(S)
    BY <2>1, RowFacts DEF RowsOver
  <2>3. HonestExercise(c) = (IF c.remaining > 0 THEN <<back, held>> ELSE <<burn>>) \o <<paid>>
    BY DEF HonestExercise
  <2>4. <<back, held>> \in Seq(S) /\ <<burn>> \in Seq(S) /\ <<paid>> \in Seq(S)
    OBVIOUS
  <2> HIDE DEF back, held, burn, paid, S
  <2>5. HonestExercise(c) \in Seq(S)
    BY <2>3, <2>4
  <2> QED
    BY <1>6, <2>2, <2>5 DEF IsTemplate, HonestOutputs
<1> QED
  BY <1>1, <1>2, <1>3, <1>4, <1>5, <1>6, ClaimsAssumption DEF Kinds

\* The wallet's rows of an asset pay u64s.
LEMMA MinePayingAmounts ==
    ASSUME IsTemplate(outputs), NEW a
    PROVE  mine_paying(a) \subseteq Amounts
<1>1. PICK S : outputs \in Seq(S) /\ RowsOver(S)
  BY DEF IsTemplate
<1>2. \A i \in 0..(Len(outputs) - 1) : outputs[i + 1] \in S
  <2>1. \A i \in 0..(Len(outputs) - 1) : i + 1 \in 1..Len(outputs)
    BY <1>1
  <2> QED
    BY <1>1, <2>1
<1> QED
  BY <1>1, <1>2 DEF mine_paying, Out, RowsOver

\* Rows that pay at least something have a largest one.
LEMMA LargestRow ==
    ASSUME NEW N \in SUBSET Amounts, N # {}
    PROVE  Max(N) \in N /\ \A n \in N : n <= Max(N)
<1> DEFINE D == {MaxU64 - n : n \in N}
<1>1. D \in SUBSET Nat /\ D # {}
  BY NumbersAssumption DEF Amounts
<1>2. PICK d \in D : \A e \in D : d <= e
  BY <1>1, LeastNumber
<1>3. PICK m \in N : d = MaxU64 - m
  BY <1>2
<1>4. \A n \in N : m >= n
  BY <1>2, <1>3, NumbersAssumption DEF Amounts
<1>5. Max(N) \in N /\ \A n \in N : Max(N) >= n
  BY <1>4 DEF Max
<1> QED
  BY <1>5, NumbersAssumption DEF Amounts

\* The number verify_typed_fund hands to the host is a u64.
LEMMA ReceivedIsAmount ==
    ASSUME TypeInv, Verified
    PROVE  Received \in Amounts
<1> USE AmountsAreNumbers
<1>1. claim \in Claims /\ IsTemplate(outputs)
  BY DEF TypeInv, TypeOK
<1>2. ASSUME NEW a, NEW v, PaysAtLeast(a, v) PROVE Max(mine_paying(a)) \in Amounts
  BY <1>1, <1>2, MinePayingAmounts, LargestRow DEF PaysAtLeast
<1>3. CASE claim.kind = "Fill"
  <2>1. claim.fee <= claim.sale /\ claim.fee \in Amounts /\ claim.sale \in Amounts
    BY <1>1, <1>3, ClaimsAssumption DEF Verified, FillOk, ProceedsOk
  <2>2. claim.sale - claim.fee \in Amounts
    BY <2>1, NumbersAssumption DEF Amounts
  <2> QED
    BY <1>3, <2>2 DEF Received
<1>4. CASE claim.kind = "Offer"
  BY <1>4 DEF Received
<1>5. CASE claim.kind = "OfferCancel"
  <2>1. PaysAtLeast(claim.cash, claim.amount)
    BY <1>5 DEF Verified, OfferCancelOk
  <2> QED
    BY <1>2, <1>5, <2>1 DEF Received
<1>6. CASE claim.kind = "Claim"
  <2>1. claim.receives # <<>> /\ claim.receives \in Seq([asset: Assets, amount: Amounts])
    BY <1>1, <1>6, ClaimsAssumption DEF Verified, ClaimOk
  <2>2. 1 \in 1..Len(claim.receives)
    BY <2>1
  <2>3. claim.receives[1] \in [asset: Assets, amount: Amounts]
    BY <2>1, <2>2, ElementsOf
  <2> QED
    BY <1>6, <2>3 DEF Received
<1>7. CASE claim.kind = "SellRight"
  <2>1. PaysAtLeast(claim.cash, claim.price)
    BY <1>7 DEF Verified, SellRightOk
  <2> QED
    BY <1>2, <1>7, <2>1 DEF Received
<1>8. CASE claim.kind = "Exercise"
  <2>1. PaysAtLeast(Collateral(claim), claim.released)
    BY <1>8 DEF Verified, ExerciseOk
  <2> QED
    BY <1>2, <1>8, <2>1 DEF Received
<1> QED
  BY <1>1, <1>3, <1>4, <1>5, <1>6, <1>7, <1>8, ClaimsAssumption DEF Kinds

\* The request that an honest claim states.
LEMMA HonestRequest ==
    ASSUME NEW c \in Claims
    PROVE  /\ ShownAsset(c) \in Assets /\ ShownCost(c) \in Nat
           /\ HonestOwned(c) \in SUBSET [asset: Assets, amount: Amounts]
<1> USE AmountsAreNumbers, AssetsAssumption
<1>1. CASE c.kind = "Fill"
  <2>1. Collateral(c) \in Assets /\ c.size \in Amounts
    BY <1>1, CollateralIsAsset, ClaimsAssumption
  <2> QED
    BY <1>1, <2>1 DEF ShownAsset, ShownCost, HonestOwned
<1>2. CASE c.kind = "Offer"
  <2>1. c.cash \in Assets /\ Total(c.amounts) \in Nat
    BY <1>2, ClaimsAssumption, TotalIsNumber
  <2> QED
    BY <1>2, <2>1 DEF ShownAsset, ShownCost, HonestOwned
<1>3. CASE c.kind \in {"OfferCancel", "Claim"}
  <2>1. c.fee \in Amounts /\ c.lender_token \in Assets
    BY <1>3, ClaimsAssumption
  <2> QED
    BY <1>3, <2>1 DEF ShownAsset, ShownCost, HonestOwned
<1>4. CASE c.kind = "SellRight"
  <2>1. c.fee \in Amounts /\ c.token \in Assets
    BY <1>4, ClaimsAssumption
  <2> QED
    BY <1>4, <2>1 DEF ShownAsset, ShownCost, HonestOwned
<1>5. CASE c.kind = "Exercise"
  <2>1. c.amount \in Amounts /\ c.token \in Assets /\ c.cash \in Assets
    BY <1>5, ClaimsAssumption
  <2> QED
    BY <1>5, <2>1 DEF ShownAsset, ShownCost, HonestOwned
<1> QED
  BY <1>1, <1>2, <1>3, <1>4, <1>5, ClaimsAssumption DEF Kinds

\* The rows of a template that is one.
LEMMA TemplateRows ==
    ASSUME NEW rows, IsTemplate(rows)
    PROVE  \A i \in 1..Len(rows) : rows[i].asset \in Assets /\ rows[i].value \in Amounts
<1>1. PICK S : rows \in Seq(S) /\ RowsOver(S)
  BY DEF IsTemplate
<1>2. \A i \in 1..Len(rows) : rows[i] \in S
  BY <1>1, ElementsOf
<1> QED
  BY <1>1, <1>2 DEF RowsOver

\* Departures leave a template a template: a row is replaced, added or left out.
LEMMA ChangedTemplate ==
    ASSUME NEW rows, IsTemplate(rows)
    PROVE  /\ \A a \in Assets, v \in Amounts : \A script :
                 /\ \A i \in 1..Len(rows) : IsTemplate([rows EXCEPT ![i] = Row(a, v, script)])
                 /\ IsTemplate(Append(rows, Row(a, v, script)))
           /\ \A i \in 1..Len(rows) :
                 IsTemplate(SubSeq(rows, 1, i - 1) \o SubSeq(rows, i + 1, Len(rows)))
<1>1. PICK S : rows \in Seq(S) /\ RowsOver(S)
  BY DEF IsTemplate
<1>2. ASSUME NEW a \in Assets, NEW v \in Amounts, NEW script
      PROVE  /\ \A i \in 1..Len(rows) : IsTemplate([rows EXCEPT ![i] = Row(a, v, script)])
             /\ IsTemplate(Append(rows, Row(a, v, script)))
  <2>1. PICK r : r = Row(a, v, script)
    OBVIOUS
  <2>2. RowsOver(S \cup {r})
    BY <1>1, <2>1, RowFacts DEF RowsOver
  <2>3. rows \in Seq(S \cup {r})
    BY <1>1
  <2>4. Append(rows, r) \in Seq(S \cup {r})
    BY <2>3
  <2>5. ASSUME NEW i \in 1..Len(rows) PROVE [rows EXCEPT ![i] = r] \in Seq(S \cup {r})
    BY <2>3
  <2> QED
    BY <2>1, <2>2, <2>4, <2>5 DEF IsTemplate
<1>3. ASSUME NEW i \in 1..Len(rows)
      PROVE  IsTemplate(SubSeq(rows, 1, i - 1) \o SubSeq(rows, i + 1, Len(rows)))
  <2>1. SubSeq(rows, 1, i - 1) \in Seq(S) /\ SubSeq(rows, i + 1, Len(rows)) \in Seq(S)
    BY <1>1
  <2>2. SubSeq(rows, 1, i - 1) \o SubSeq(rows, i + 1, Len(rows)) \in Seq(S)
    BY <2>1
  <2> QED
    BY <1>1, <2>2 DEF IsTemplate
<1> QED
  BY <1>2, <1>3

\* A departure from the claim counts one more and touches nothing but the proposal.
LEMMA DepartureType ==
    ASSUME TypeInv, Change
    PROVE  /\ memo' = memo /\ claim' = claim /\ phase' = phase /\ receives' = receives
           /\ phase = "Memo" /\ memo = "Typed" /\ changes' = changes + 1
           /\ changes' \in 0..MaxChanges[claim.kind] /\ changes' # 0
<1>1. claim.kind \in Kinds
  BY ClaimsAssumption DEF TypeInv, TypeOK
<1>2. PICK m \in Nat : m = MaxChanges[claim.kind]
  BY <1>1, NumbersAssumption
<1>3. changes \in 0..m /\ changes < m /\ changes' = changes + 1
  BY <1>2 DEF TypeInv, TypeOK, Change
<1> QED
  BY <1>2, <1>3 DEF Change

\* Numbers stay u64s through every departure, wrapped sum and difference, and
\* the template stays a list of rows.
LEMMA TypeInvariant == Spec => []TypeInv
<1>1. Init => TypeInv
  <2> SUFFICES ASSUME Init PROVE TypeInv
    OBVIOUS
  <2>1. claim \in Claims /\ claim.kind \in Kinds /\ IsTemplate(outputs)
    BY HonestTemplate, ClaimsAssumption DEF Init
  <2>2. asset \in Assets /\ amount \in Amounts /\ owned \in SUBSET [asset: Assets, amount: Amounts]
    BY <2>1, HonestRequest, WrappedNumbers DEF Init
  <2>3. receives \in Amounts /\ changes \in 0..MaxChanges[claim.kind]
    <3>1. MaxChanges[claim.kind] \in Nat
      BY <2>1, NumbersAssumption
    <3> QED
      BY <3>1, AmountsAreNumbers DEF Init
  <2> QED
    BY <2>1, <2>2, <2>3, TemplateRows DEF Init, TypeInv, TypeOK
<1>2. TypeInv /\ [Next]_vars => TypeInv'
  <2> SUFFICES ASSUME TypeInv, [Next]_vars PROVE TypeInv'
    OBVIOUS
  <2>0. /\ memo \in {"Text", "Malformed", "Typed"} /\ claim \in Claims
        /\ asset \in Assets /\ amount \in Amounts
        /\ owned \in SUBSET [asset: Assets, amount: Amounts]
        /\ receives \in Amounts /\ changes \in 0..MaxChanges[claim.kind]
        /\ phase \in {"Memo", "Parsed", "Plain", "Accepted", "Refused"}
        /\ IsTemplate(outputs)
    BY DEF TypeInv, TypeOK
  <2>1. ASSUME Change, asset' \in Assets, amount' \in Amounts,
               owned' \in SUBSET [asset: Assets, amount: Amounts], IsTemplate(outputs')
        PROVE  TypeInv'
    <3>1. /\ memo' = memo /\ claim' = claim /\ phase' = phase /\ receives' = receives
          /\ changes' \in 0..MaxChanges[claim.kind]
      BY <2>1, DepartureType
    <3>2. \A i \in 1..Len(outputs') : outputs'[i].asset \in Assets /\ outputs'[i].value \in Amounts
      BY <2>1, TemplateRows
    <3> QED
      BY <2>0, <2>1, <3>1, <3>2 DEF TypeInv, TypeOK, IsTemplate
  <2>2. CASE ChangeRequest
    BY <2>0, <2>1, <2>2 DEF ChangeRequest
  <2>3. CASE ChangeOwned
    <3>1. owned' \in SUBSET [asset: Assets, amount: Amounts]
      BY <2>3, NumbersAssumption DEF ChangeOwned, Amounts
    <3> QED
      BY <2>0, <2>1, <2>3, <3>1 DEF ChangeOwned
  <2>4. CASE ChangeOutput
    <3>1. PICK i \in 1..Len(outputs) :
             \E a \in Assets, v \in Amounts : \E script :
                outputs' = [outputs EXCEPT ![i] = Row(a, v, script)]
      <4>1. \A i \in 1..Len(outputs) : outputs[i].asset \in Assets /\ outputs[i].value \in Amounts
        BY <2>0, TemplateRows
      <4> QED
        BY <2>4, <4>1 DEF ChangeOutput
    <3>2. PICK a \in Assets, v \in Amounts : \E script :
             outputs' = [outputs EXCEPT ![i] = Row(a, v, script)]
      BY <3>1
    <3>3. PICK script : outputs' = [outputs EXCEPT ![i] = Row(a, v, script)]
      BY <3>2
    <3>4. IsTemplate([outputs EXCEPT ![i] = Row(a, v, script)])
      BY <2>0, ChangedTemplate
    <3>5. IsTemplate(outputs')
      BY <3>3, <3>4
    <3> QED
      BY <2>0, <2>1, <2>4, <3>5 DEF ChangeOutput
  <2>5. CASE AddOutput
    <3>1. IsTemplate(outputs')
      BY <2>0, <2>5, ChangedTemplate DEF AddOutput
    <3> QED
      BY <2>0, <2>1, <2>5, <3>1 DEF AddOutput
  <2>6. CASE DropOutput
    <3>1. IsTemplate(outputs')
      BY <2>0, <2>6, ChangedTemplate DEF DropOutput
    <3> QED
      BY <2>0, <2>1, <2>6, <3>1 DEF DropOutput
  <2>7. ASSUME UNCHANGED <<memo, claim, asset, amount, owned, outputs, changes>>,
               phase' \in {"Memo", "Parsed", "Plain", "Accepted", "Refused"}, receives' \in Amounts
        PROVE  TypeInv'
    BY <2>0, <2>7, TemplateRows DEF TypeInv, TypeOK, IsTemplate
  <2>8. CASE parse_typed_fund
    <3>1. phase' \in {"Plain", "Refused", "Parsed"}
      BY <2>8 DEF parse_typed_fund
    <3> QED
      BY <2>0, <2>7, <2>8, <3>1 DEF parse_typed_fund
  <2>9. CASE verify_typed_fund
    <3>1. receives' \in Amounts
      BY <2>0, <2>9, ReceivedIsAmount DEF verify_typed_fund
    <3>2. phase' \in {"Accepted", "Refused"}
      BY <2>9 DEF verify_typed_fund
    <3> QED
      BY <2>7, <2>9, <3>1, <3>2 DEF verify_typed_fund
  <2>10. CASE Returned \/ UNCHANGED vars
    BY <2>0, <2>7, <2>10 DEF Returned, vars
  <2> QED
    BY <2>2, <2>3, <2>4, <2>5, <2>6, <2>8, <2>9, <2>10 DEF Next
<1> QED
  BY <1>1, <1>2, PTL DEF Spec

\* Types, for every set of claims: the request, the rows and the number handed
\* to the host are u64s whatever the relying party departs from, the sum of an
\* offer's coins and the difference of a fill's proceeds included.
THEOREM FundTypes == Spec => []TypeOK
<1>1. TypeInv => TypeOK
  BY DEF TypeInv
<1> QED
  BY <1>1, TypeInvariant, PTL

-----------------------------------------------------------------------------
(* What the wallet receives                                                *)

\* The rows of the wallet in one asset pay together at least what one of them does.
LEMMA PaidAtLeast ==
    ASSUME IsTemplate(outputs), NEW a, NEW v \in mine_paying(a)
    PROVE  Paid(a) \in Nat /\ v \in Nat /\ v <= Paid(a)
<1> DEFINE S == {i \in 1..Len(outputs) :
                    outputs[i].asset = a /\ outputs[i].script.program = "Wallet"}
           f == [i \in S |-> outputs[i].value]
<1>1. Len(outputs) \in Nat
  BY ElementsOf DEF IsTemplate
<1>2. IsFiniteSet(S)
  <2>1. IsFiniteSet(1..Len(outputs))
    BY <1>1, FS_Interval
  <2> QED
    BY <2>1, FS_Subset
<1>3. \A i \in S : f[i] \in Nat /\ outputs[i].value = f[i]
  BY TemplateRows, AmountsAreNumbers
<1>4. Paid(a) = MapThenSumSet(LAMBDA i : outputs[i].value, S)
  BY DEF Paid, Sum, Indices
<1>5. PICK x \in S : v = f[x]
  <2>1. PICK j \in 0..(Len(outputs) - 1) : Mine(j) /\ Out(j).asset = a /\ v = Out(j).value
    BY DEF mine_paying
  <2>2. j + 1 \in S
    BY <1>1, <2>1 DEF Mine, Out
  <2>3. v = f[j + 1]
    BY <2>1, <2>2 DEF Out
  <2> QED
    BY <2>2, <2>3
<1> HIDE DEF S, f
<1>6. Paid(a) = SumOver(f, S)
  BY <1>3, <1>4, SameSum
<1>7. SumOver(f, S) \in Nat /\ SumOver(f, S) = f[x] + SumOver(f, S \ {x})
  BY <1>2, <1>3, <1>5, SumSplit
<1>8. SumOver(f, S \ {x}) \in Nat
  <2>1. IsFiniteSet(S \ {x}) /\ \A i \in S \ {x} : f[i] \in Nat
    BY <1>2, <1>3, FS_Subset
  <2> QED
    BY <2>1, SumSplit
<1>9. PICK m, n \in Nat : m = f[x] /\ n = SumOver(f, S \ {x})
  BY <1>3, <1>5, <1>8
<1> QED
  BY <1>5, <1>6, <1>7, <1>9

\* A promise that verify_typed_fund looked for is met.
LEMMA PromiseMet ==
    ASSUME IsTemplate(outputs), NEW a, NEW v \in Nat, PaysAtLeast(a, v)
    PROVE  /\ Paid(a) >= v
           /\ Max(mine_paying(a)) \in mine_paying(a) /\ Max(mine_paying(a)) <= Paid(a)
<1>1. PICK paid \in mine_paying(a) : paid >= v
  BY DEF PaysAtLeast
<1>2. mine_paying(a) \subseteq Amounts
  BY MinePayingAmounts
<1>3. Max(mine_paying(a)) \in mine_paying(a)
  BY <1>1, <1>2, LargestRow
<1>4. Paid(a) \in Nat /\ paid \in Nat /\ paid <= Paid(a)
  BY <1>1, PaidAtLeast
<1>5. Max(mine_paying(a)) <= Paid(a)
  BY <1>3, PaidAtLeast
<1> QED
  BY <1>1, <1>3, <1>4, <1>5

\* A token that comes back to the wallet at some row is paid to it.
LEMMA TokenPaid ==
    ASSUME IsTemplate(outputs), NEW i \in Nat, NEW a, Explicit(i, a, 1), Mine(i)
    PROVE  Paid(a) >= 1
<1>1. 1 \in mine_paying(a)
  <2>1. Len(outputs) \in Nat
    BY ElementsOf DEF IsTemplate
  <2>2. i \in 0..(Len(outputs) - 1) /\ Out(i).asset = a /\ Out(i).value = 1
    BY <2>1 DEF Explicit, Has
  <2> QED
    BY <2>2 DEF mine_paying
<1>2. Paid(a) \in Nat /\ 1 <= Paid(a)
  BY <1>1, PaidAtLeast
<1> QED
  BY <1>2

Met(p) == Paid(p.asset) >= p.amount
Pay(a, v) == [asset |-> a, amount |-> v]

\* What verify_typed_fund looked for covers every promise, and the number it
\* hands to the host.
LEMMA PromisesMet ==
    ASSUME TypeInv, Verified
    PROVE  /\ \A i \in DOMAIN Promises(claim) : Met(Promises(claim)[i])
           /\ claim.kind # "Offer" => Received <= Paid(Promises(claim)[1].asset)
<1> USE AmountsAreNumbers
<1>1. claim \in Claims /\ IsTemplate(outputs)
  BY DEF TypeInv, TypeOK
<1>2. CASE claim.kind = "Fill"
  <2>1. (claim.sale - claim.fee) \in mine_paying(claim.cash)
    BY <1>2 DEF Verified, FillOk, ProceedsOk
  <2>2. /\ Paid(claim.cash) \in Nat /\ (claim.sale - claim.fee) \in Nat
        /\ claim.sale - claim.fee <= Paid(claim.cash)
    BY <1>1, <2>1, PaidAtLeast
  <2>3. Promises(claim) = <<Pay(claim.cash, claim.sale - claim.fee)>>
    BY <1>2 DEF Promises, Pay
  <2>4. Received = claim.sale - claim.fee
    BY <1>2 DEF Received
  <2>5. PICK d \in Nat : d = claim.sale - claim.fee
    BY <2>2
  <2> QED
    BY <2>2, <2>3, <2>4, <2>5 DEF Met, Pay
<1>3. CASE claim.kind = "Offer"
  <2>1. CASE claim.token_output = {}
    <3>1. Promises(claim) = <<>>
      BY <1>3, <2>1 DEF Promises
    <3> QED
      BY <1>3, <3>1
  <2>2. CASE claim.token_output # {}
    <3>1. PICK t \in claim.token_output : Explicit(t, claim.lender_token, 1) /\ Mine(t)
      BY <1>3, <2>2 DEF Verified, OfferOk
    <3>2. t \in Nat
      BY <1>1, <1>3, <3>1, ClaimsAssumption
    <3>3. Paid(claim.lender_token) >= 1
      BY <1>1, <3>1, <3>2, TokenPaid
    <3>4. Promises(claim) = <<Pay(claim.lender_token, 1)>>
      BY <1>3, <2>2 DEF Promises, Pay
    <3> QED
      BY <1>3, <3>3, <3>4 DEF Met, Pay
  <2> QED
    BY <2>1, <2>2
<1>4. CASE claim.kind = "OfferCancel"
  <2>1. TokenRoundTrip(claim.lender_token) /\ PaysAtLeast(claim.cash, claim.amount)
    BY <1>4 DEF Verified, OfferCancelOk
  <2>2. claim.amount \in Nat
    BY <1>1, <1>4, ClaimsAssumption
  <2>3. Paid(claim.lender_token) >= 1
    BY <1>1, <2>1, TokenPaid DEF TokenRoundTrip
  <2>4. /\ Paid(claim.cash) >= claim.amount
        /\ Max(mine_paying(claim.cash)) <= Paid(claim.cash)
    BY <1>1, <2>1, <2>2, PromiseMet
  <2>5. Promises(claim) = <<Pay(claim.cash, claim.amount), Pay(claim.lender_token, 1)>>
    BY <1>4 DEF Promises, Pay
  <2>6. Received = Max(mine_paying(claim.cash))
    BY <1>4 DEF Received
  <2> QED
    BY <2>3, <2>4, <2>5, <2>6 DEF Met, Pay
<1>5. CASE claim.kind = "Claim"
  <2>1. /\ TokenRoundTrip(claim.lender_token) /\ claim.receives # <<>>
        /\ \A i \in 1..Len(claim.receives) :
              PaysAtLeast(claim.receives[i].asset, claim.receives[i].amount)
    BY <1>5 DEF Verified, ClaimOk
  <2>2. claim.receives \in Seq([asset: Assets, amount: Amounts])
    BY <1>1, <1>5, ClaimsAssumption
  <2>3. /\ Len(claim.receives) \in Nat
        /\ \A i \in 1..Len(claim.receives) : claim.receives[i] \in [asset: Assets, amount: Amounts]
    BY <2>2, ElementsOf
  <2>4. \A i \in 1..Len(claim.receives) : Met(claim.receives[i])
    <3> SUFFICES ASSUME NEW i \in 1..Len(claim.receives) PROVE Met(claim.receives[i])
      OBVIOUS
    <3>1. claim.receives[i].amount \in Nat
      BY <2>3
    <3> QED
      BY <1>1, <2>1, <3>1, PromiseMet DEF Met
  <2>5. Paid(claim.lender_token) >= 1
    BY <1>1, <2>1, TokenPaid DEF TokenRoundTrip
  <2>6. Promises(claim) = Append(claim.receives, Pay(claim.lender_token, 1))
    BY <1>5 DEF Promises, Pay
  <2>7. Met(Pay(claim.lender_token, 1))
    BY <2>5 DEF Met, Pay
  <2>8. 1 \in 1..Len(claim.receives)
    BY <2>1, <2>2
  <2>9. /\ \A i \in DOMAIN Promises(claim) : Met(Promises(claim)[i])
        /\ Promises(claim)[1] = claim.receives[1]
    <3> PICK p : p = Pay(claim.lender_token, 1)
      OBVIOUS
    <3>1. DOMAIN Append(claim.receives, p) = 1..(Len(claim.receives) + 1)
      BY <2>2
    <3>2. Append(claim.receives, p)[Len(claim.receives) + 1] = p
      BY <2>2
    <3>3. \A i \in 1..Len(claim.receives) : Append(claim.receives, p)[i] = claim.receives[i]
      BY <2>2
    <3>4. \A i \in 1..(Len(claim.receives) + 1) :
             i \in 1..Len(claim.receives) \/ i = Len(claim.receives) + 1
      BY <2>3
    <3>5. Promises(claim) = Append(claim.receives, p) /\ Met(p)
      BY <2>6, <2>7
    <3>6. ASSUME NEW i \in DOMAIN Promises(claim) PROVE Met(Promises(claim)[i])
      BY <2>4, <3>1, <3>2, <3>3, <3>4, <3>5
    <3> QED
      BY <2>8, <3>3, <3>5, <3>6
  <2>10. Received = claim.receives[1].amount
    BY <1>5 DEF Received
  <2>11. Received <= Paid(claim.receives[1].asset)
    <3>1. PaysAtLeast(claim.receives[1].asset, claim.receives[1].amount)
      BY <2>1, <2>8
    <3>2. PICK paid \in mine_paying(claim.receives[1].asset) : paid >= claim.receives[1].amount
      BY <3>1 DEF PaysAtLeast
    <3>3. /\ Paid(claim.receives[1].asset) \in Nat /\ paid \in Nat
          /\ paid <= Paid(claim.receives[1].asset)
      BY <1>1, <3>2, PaidAtLeast
    <3>4. claim.receives[1].amount \in Nat
      BY <2>3, <2>8
    <3> QED
      BY <2>10, <3>2, <3>3, <3>4
  <2> QED
    BY <2>9, <2>11
<1>6. CASE claim.kind = "SellRight"
  <2>1. PaysAtLeast(claim.cash, claim.price) /\ claim.price \in Nat
    BY <1>1, <1>6, ClaimsAssumption DEF Verified, SellRightOk
  <2>2. /\ Paid(claim.cash) >= claim.price
        /\ Max(mine_paying(claim.cash)) <= Paid(claim.cash)
    BY <1>1, <2>1, PromiseMet
  <2>3. Promises(claim) = <<Pay(claim.cash, claim.price)>>
    BY <1>6 DEF Promises, Pay
  <2>4. Received = Max(mine_paying(claim.cash))
    BY <1>6 DEF Received
  <2> QED
    BY <2>2, <2>3, <2>4 DEF Met, Pay
<1>7. CASE claim.kind = "Exercise"
  <2>1. PaysAtLeast(Collateral(claim), claim.released) /\ claim.released \in Nat
    BY <1>1, <1>7, ClaimsAssumption DEF Verified, ExerciseOk
  <2>2. /\ Paid(Collateral(claim)) >= claim.released
        /\ Max(mine_paying(Collateral(claim))) <= Paid(Collateral(claim))
    BY <1>1, <2>1, PromiseMet
  <2>3. Received = Max(mine_paying(Collateral(claim)))
    BY <1>7 DEF Received
  <2> DEFINE p == Pay(Collateral(claim), claim.released)
             q == Pay(Out(0).asset, 1)
  <2>4. claim.remaining > 0 => Met(q)
    <3> SUFFICES ASSUME claim.remaining > 0 PROVE Met(q)
      OBVIOUS
    <3>1. PICK a \in Assets : TokenRoundTrip(a)
      BY <1>7 DEF Verified, ExerciseOk, TokenReturned
    <3>2. Paid(a) >= 1
      BY <1>1, <3>1, TokenPaid DEF TokenRoundTrip
    <3>3. Out(0).asset = a
      BY <3>1 DEF TokenRoundTrip, Explicit
    <3> QED
      BY <3>2, <3>3 DEF Met, Pay
  <2>5. Met(p) /\ p.asset = Collateral(claim)
    BY <2>2 DEF Met, Pay
  <2>6. Promises(claim) = <<p>> \o (IF claim.remaining > 0 THEN [i \in 1..1 |-> q] ELSE <<>>)
    BY <1>7 DEF Promises, Pay
  <2> HIDE DEF p, q
  <2>7. CASE claim.remaining > 0
    <3>1. <<p>> \o [i \in 1..1 |-> q] = <<p, q>>
      <4>1. [i \in 1..1 |-> q] = <<q>>
        OBVIOUS
      <4> QED
        BY <4>1, ShortSequences
    <3>2. Promises(claim) = <<p, q>>
      BY <2>6, <2>7, <3>1
    <3> QED
      BY <2>2, <2>3, <2>4, <2>5, <2>7, <3>2
  <2>8. CASE ~(claim.remaining > 0)
    <3>1. Promises(claim) = <<p>>
      BY <2>6, <2>8, ShortSequences
    <3> QED
      BY <2>2, <2>3, <2>5, <3>1
  <2> QED
    BY <2>7, <2>8
<1> QED
  BY <1>1, <1>2, <1>3, <1>4, <1>5, <1>6, <1>7, ClaimsAssumption DEF Kinds

\* What is handed to the host is the number computed from the accepted template.
Handed == phase = "Accepted" => receives = Received

\* The number handed to the host stays the one of the template it was taken from.
LEMMA HandedStays == Spec => []Handed
<1>1. Init => Handed
  BY DEF Init, Handed
<1>2. Handed /\ [Next]_vars => Handed'
  <2> SUFFICES ASSUME Handed, [Next]_vars PROVE Handed'
    OBVIOUS
  <2>0. ASSUME UNCHANGED <<claim, outputs>> PROVE Received' = Received
    <3>1. Len(outputs)' = Len(outputs)
      BY <2>0
    <3>2. \A a : mine_paying(a)' = mine_paying(a)
      BY <2>0, <3>1 DEF mine_paying, Mine, Out
    <3> QED
      BY <2>0, <3>2 DEF Received
  <2>1. CASE ChangeRequest \/ ChangeOwned \/ ChangeOutput \/ AddOutput \/ DropOutput
    <3>1. phase' = "Memo"
      BY <2>1, DeparturesChange DEF Change
    <3> QED
      BY <3>1 DEF Handed
  <2>2. CASE parse_typed_fund
    <3>1. phase' # "Accepted"
      BY <2>2 DEF parse_typed_fund
    <3> QED
      BY <3>1 DEF Handed
  <2>3. CASE verify_typed_fund
    BY <2>0, <2>3 DEF verify_typed_fund, Handed
  <2>4. CASE Returned \/ UNCHANGED vars
    BY <2>0, <2>4 DEF Returned, vars, Handed
  <2> QED
    BY <2>1, <2>2, <2>3, <2>4 DEF Next
<1> QED
  BY <1>1, <1>2, PTL DEF Spec

\* Every payment that the dialog of an accepted fund promises is in the template
\* as rows of the wallet, and so is the number the host is told; the sums run
\* over templates of any length.
THEOREM PaymentsAreShown == Spec => []PaysWhatIsShown
<1>1. TypeInv /\ Checked /\ Handed => PaysWhatIsShown
  <2> SUFFICES ASSUME TypeInv, Checked, Handed, phase = "Accepted"
      PROVE  /\ \A i \in DOMAIN Promises(claim) :
                   Paid(Promises(claim)[i].asset) >= Promises(claim)[i].amount
             /\ claim.kind # "Offer" => receives <= Paid(Promises(claim)[1].asset)
    BY DEF PaysWhatIsShown
  <2>1. Verified /\ receives = Received
    BY DEF Checked, Handed
  <2> QED
    BY <2>1, PromisesMet DEF Met
<1> QED
  BY <1>1, TypeInvariant, CheckedStays, HandedStays, PTL

-----------------------------------------------------------------------------
(* What an offer escrows                                                   *)

\* The four rows an offer commits to tell which of them the memo listed.
LEMMA CommittedRows ==
    ASSUME NEW c \in Claims, c.kind = "Offer", RowsOk(c)
    PROVE  /\ {r \in 1..MAX_LIST : offer_terms_digest(c).rows[r] # ZeroRow} = DOMAIN c.rows
           /\ \A r \in DOMAIN c.rows : offer_terms_digest(c).rows[r] = c.rows[r]
<1>1. c.rows \in Seq(OfferRows) /\ MAX_LIST \in Nat
  BY ClaimsAssumption, NumbersAssumption
<1>2. /\ DOMAIN c.rows = 1..Len(c.rows) /\ Len(c.rows) \in Nat /\ Len(c.rows) <= MAX_LIST
      /\ \A r \in 1..Len(c.rows) : c.rows[r] # ZeroRow
  BY <1>1, ElementsOf, OfferRowsAssumption DEF RowsOk
<1>3. \A r \in 1..MAX_LIST :
         offer_terms_digest(c).rows[r] = IF r <= Len(c.rows) THEN c.rows[r] ELSE ZeroRow
  BY DEF offer_terms_digest
<1>4. DOMAIN c.rows \subseteq 1..MAX_LIST
  BY <1>1, <1>2
<1>5. \A r \in DOMAIN c.rows : offer_terms_digest(c).rows[r] = c.rows[r]
  BY <1>2, <1>3, <1>4
<1>6. \A r \in 1..MAX_LIST : r \in DOMAIN c.rows <=> r <= Len(c.rows)
  BY <1>1, <1>2
<1>7. \A r \in 1..MAX_LIST : r \notin DOMAIN c.rows => offer_terms_digest(c).rows[r] = ZeroRow
  BY <1>3, <1>6
<1> QED
  BY <1>2, <1>4, <1>5, <1>7

\* An accepted offer escrows what its dialog states, for offers of any number of
\* coins: the coins' values add up to the request, each knows its whole value
\* as unlent, and the committed rows are the ones listed, in order, and no more.
THEOREM OfferIsTrue == Spec => []OfferIsWhatIsShown
<1>1. TypeInv /\ Checked => OfferIsWhatIsShown
  <2> SUFFICES ASSUME TypeInv, Checked, phase = "Accepted", claim.kind = "Offer"
               PROVE  OfferIsWhatIsShown
    BY DEF OfferIsWhatIsShown
  <2>1. claim \in Claims /\ OfferOk(claim)
    BY DEF Checked, Verified
  <2>2. claim.amounts \in Seq(Amounts)
    BY <2>1, ClaimsAssumption
  <2>3. PICK n \in Nat : n = Len(claim.amounts) /\ DOMAIN claim.amounts = 1..n
    BY <2>2, ElementsOf
  <2> DEFINE terms == offer_terms_digest(claim)
  <2>4. ASSUME NEW i \in 1..n
        PROVE  /\ outputs[i].asset = claim.cash /\ outputs[i].value = claim.amounts[i]
               /\ outputs[i].script = position_script("Offer", terms, claim.amounts[i])
    <3>1. i - 1 \in 0..(Len(claim.amounts) - 1) /\ (i - 1) + 1 = i
      BY <2>3
    <3>2. CoinOk(claim, i - 1)
      BY <2>1, <3>1 DEF OfferOk
    <3> QED
      BY <3>1, <3>2 DEF CoinOk, Explicit, Out
  <2>5. ASSUME NEW i \in 1..n
        PROVE  /\ outputs[i].script.program = "Offer" /\ outputs[i].script.digest = terms
               /\ outputs[i].script.debt = outputs[i].value
    <3> HIDE DEF terms
    <3>1. PICK a : a = claim.amounts[i]
      OBVIOUS
    <3>2. outputs[i].script = position_script("Offer", terms, a) /\ outputs[i].value = a
      BY <2>4, <3>1
    <3> QED
      BY <3>2 DEF position_script
  <2> DEFINE coins == {i \in 1..Len(claim.amounts) : outputs[i].script.program = "Offer"}
  <2>6. coins = 1..n
    BY <2>3, <2>5
  <2>7. MapThenSumSet(LAMBDA i : outputs[i].value, coins) = amount
    <3>1. amount = Total(claim.amounts)
      BY <2>1 DEF OfferOk, TotalIs
    <3>2. Total(claim.amounts) = SumOver(claim.amounts, 1..n)
      BY <2>3 DEF Total, SumOver
    <3>3. MapThenSumSet(LAMBDA i : outputs[i].value, 1..n) = SumOver(claim.amounts, 1..n)
      <4>1. \A i \in 1..n : outputs[i].value = claim.amounts[i]
        BY <2>4
      <4>2. PICK S, f : S = 1..n /\ f = claim.amounts
        OBVIOUS
      <4>3. \A i \in S : outputs[i].value = f[i]
        BY <4>1, <4>2
      <4>4. MapThenSumSet(LAMBDA i : outputs[i].value, S) = SumOver(f, S)
        BY ONLY <4>3, SameSum
      <4> QED
        BY <4>2, <4>4
    <3> HIDE DEF coins
    <3> QED
      BY <2>6, <3>1, <3>2, <3>3
  <2>8. /\ {r \in 1..MAX_LIST : terms.rows[r] # ZeroRow} = DOMAIN claim.rows
        /\ \A r \in DOMAIN claim.rows : terms.rows[r] = claim.rows[r]
    BY <2>1, CommittedRows DEF OfferOk
  <2>9. /\ terms.cutoff = claim.cutoff /\ terms.cash = claim.cash
        /\ terms.claim = claim_script(terms.lender_token)
    BY <2>1 DEF OfferOk, offer_terms_digest
  <2> HIDE DEF terms, coins
  <2>10. \A i \in coins :
            /\ outputs[i].script.debt = outputs[i].value
            /\ outputs[i].asset = outputs[i].script.digest.cash
            /\ {r \in 1..MAX_LIST : outputs[i].script.digest.rows[r] # ZeroRow} = DOMAIN claim.rows
            /\ \A r \in DOMAIN claim.rows : outputs[i].script.digest.rows[r] = claim.rows[r]
            /\ outputs[i].script.digest.cutoff = claim.cutoff
            /\ outputs[i].script.digest.claim = claim_script(outputs[i].script.digest.lender_token)
    BY <2>4, <2>5, <2>6, <2>8, <2>9
  <2> QED
    BY <2>7, <2>10 DEF OfferIsWhatIsShown, coins
<1> QED
  BY <1>1, TypeInvariant, CheckedStays, PTL

-----------------------------------------------------------------------------
(* Honest steps                                                            *)

\* The units of a token that the template pays, to whomever.
TokenUnits(t) == Sum(LAMBDA row : row.asset = t)

\* A token that at most one row pays, and only one unit of it, is not paid twice.
LEMMA TokenOnce ==
    ASSUME IsTemplate(outputs), NEW t,
           \A i, k \in 1..Len(outputs) :
              outputs[i].asset = t /\ outputs[k].asset = t => i = k,
           \A i \in 1..Len(outputs) : outputs[i].asset = t => outputs[i].value <= 1
    PROVE  TokenUnits(t) <= 1
<1> DEFINE S == {i \in 1..Len(outputs) : outputs[i].asset = t}
           f == [i \in S |-> outputs[i].value]
<1>1. Len(outputs) \in Nat
  BY ElementsOf DEF IsTemplate
<1>2. IsFiniteSet(S)
  <2>1. IsFiniteSet(1..Len(outputs))
    BY <1>1, FS_Interval
  <2> QED
    BY <2>1, FS_Subset
<1>3. \A i \in S : f[i] \in Nat /\ f[i] <= 1 /\ outputs[i].value = f[i]
  BY TemplateRows, AmountsAreNumbers
<1>4. TokenUnits(t) = MapThenSumSet(LAMBDA i : outputs[i].value, S)
  BY DEF TokenUnits, Sum, Indices
<1>5. \A i, k \in S : i = k
  OBVIOUS
<1> HIDE DEF S, f
<1>6. TokenUnits(t) = SumOver(f, S)
  BY <1>3, <1>4, SameSum
<1>7. SumOver(f, {}) = 0
  BY FS_EmptySet, SumTurn
<1>8. CASE S = {}
  BY <1>6, <1>7, <1>8
<1>9. CASE S # {}
  <2>1. PICK x \in S : S \ {x} = {}
    BY <1>5, <1>9
  <2>2. SumOver(f, S) = f[x] + 0
    BY <1>2, <1>3, <1>7, <2>1, SumSplit
  <2> QED
    BY <1>3, <1>6, <2>1, <2>2
<1> QED
  BY <1>8, <1>9

\* Two sequences put together.
LEMMA JoinedSequences ==
    ASSUME NEW S, NEW s \in Seq(S), NEW t \in Seq(S)
    PROVE  /\ Len(s \o t) = Len(s) + Len(t)
           /\ \A i \in 1..Len(s) : (s \o t)[i] = s[i]
           /\ \A i \in 1..Len(t) : (s \o t)[Len(s) + i] = t[i]
OBVIOUS

\* The request, the coin and the template are the claimed ones.
AsClaimed ==
    /\ asset = ShownAsset(claim) /\ amount = ShownCost(claim) % (MaxU64 + 1)
    /\ owned = HonestOwned(claim) /\ outputs = HonestOutputs(claim)

\* The honest template of a fill passes.
LEMMA HonestFillPasses ==
    ASSUME claim \in Claims, claim.kind = "Fill", Sane(claim), AsClaimed
    PROVE  /\ Verified
           /\ \A t \in Tokens : TokenUnits(t) <= 1
<1> DEFINE proceeds == IF claim.fee <= claim.sale THEN claim.sale - claim.fee ELSE 0
           terms == IF claim.version < 4
                    THEN v2_terms_digest(Collateral(claim), claim, claim.token, claim.lender_nft)
                    ELSE v4_terms_digest(Collateral(claim), claim, claim.token, claim.lender_nft,
                                         Wallet(1))
           meta == Return(METADATA_LEN, claim.cash, claim.buyback, claim.expiry)
<1>1. /\ {claim.size, claim.sale, claim.fee, claim.buyback} \subseteq Amounts
      /\ claim.version \in 1..6 /\ IsTemplate(outputs)
  BY ClaimsAssumption, HonestTemplate DEF AsClaimed
<1>2. /\ claim.fee <= claim.sale /\ claim.sale < claim.buyback
      /\ claim.version > 2 => claim.payout = claim_script(claim.lender_nft)
      /\ claim.lastlook_height = 0 \/ claim.lastlook_height < claim.expiry
      /\ claim.token # claim.lender_nft /\ claim.size \in 1..MaxU64
      /\ {Collateral(claim), claim.cash, PolicyAsset} \cap Tokens = {}
  BY DEF Sane, ShownCost
<1>3. asset = Collateral(claim) /\ amount = claim.size
  <2>1. claim.size % (MaxU64 + 1) = claim.size
    BY <1>1, WrappedNumbers
  <2> QED
    BY <2>1 DEF AsClaimed, ShownAsset, ShownCost
<1>4. PICK r1, r2, r3, r4, r5 :
         /\ outputs = <<r1, r2, r3, r4, r5>>
         /\ r1 = Row(Collateral(claim), claim.size,
                     IF claim.version = 1 THEN Foreign
                     ELSE position_script(Leaf(claim.version), terms, claim.buyback))
         /\ r2 = Row(claim.token, 1, Wallet(1))
         /\ r3 = IF claim.version = 6 THEN Row(claim.cash, 0, Foreign)
                 ELSE Row(claim.lender_nft, 1, Foreign)
         /\ r4 = Row(PolicyAsset, 0, meta)
         /\ r5 = Row(claim.cash, proceeds, Wallet(2))
  BY DEF AsClaimed, HonestOutputs, HonestFill
<1> HIDE DEF terms, meta
<1>5. /\ Len(outputs) = 5 /\ outputs[1] = r1 /\ outputs[2] = r2
      /\ outputs[3] = r3 /\ outputs[4] = r4 /\ outputs[5] = r5
  BY <1>4
<1>6. /\ Has(0) /\ Has(1) /\ Has(2) /\ Has(3)
      /\ Out(0) = r1 /\ Out(1) = r2 /\ Out(2) = r3 /\ Out(3) = r4
  BY <1>5 DEF Has, Out
<1>7. /\ Out(1).asset = claim.token /\ Out(1).value = 1 /\ Out(1).script = Wallet(1) /\ Mine(1)
  BY <1>4, <1>6, RowFacts DEF Mine, Wallet
<1>8. LenderNft(claim) = claim.lender_nft /\ (claim.version # 6 => Out(2).value = 1)
  BY <1>4, <1>6, RowFacts DEF LenderNft
<1>9. Explicit(0, Collateral(claim), claim.size)
  BY <1>4, <1>6, RowFacts DEF Explicit
<1>10. proceeds = claim.sale - claim.fee
  BY <1>2
<1>11. proceeds \in mine_paying(claim.cash)
  <2> HIDE DEF proceeds
  <2>1. 4 \in 0..(Len(outputs) - 1) /\ Out(4) = r5
    BY <1>5 DEF Out
  <2>2. Mine(4) /\ Out(4).asset = claim.cash /\ Out(4).value = proceeds
    BY <1>4, <2>1, RowFacts DEF Mine, Wallet
  <2> QED
    BY <2>1, <2>2 DEF mine_paying
<1>12. claim.version = 1 => MetadataOk(claim)
  <2>1. Out(3).script = meta
    BY <1>4, <1>6, RowFacts
  <2> QED
    BY <1>6, <2>1 DEF MetadataOk, op_return_payload, Return, meta
<1>13. claim.version # 1 => CovenantOk(claim)
  <2> SUFFICES ASSUME claim.version # 1 PROVE CovenantOk(claim)
    OBVIOUS
  <2>1. LenderPayoutOk(claim)
    BY <1>1, <1>2, <1>6, <1>8 DEF LenderPayoutOk
  <2>2. LastLookOk(claim)
    BY <1>2 DEF LastLookOk
  <2>3. terms = TermsDigest(claim)
    BY <1>7, <1>8 DEF terms, TermsDigest
  <2>4. Out(0).script = position_script(Leaf(claim.version), terms, claim.buyback)
    BY <1>4, <1>6, RowFacts
  <2> QED
    BY <2>1, <2>2, <2>3, <2>4 DEF CovenantOk, PositionScript
<1>14. FillOk(claim)
  <2>1. ProceedsOk(claim)
    BY <1>2, <1>10, <1>11 DEF ProceedsOk
  <2>2. claim.buyback > claim.sale
    BY <1>1, <1>2, AmountsAreNumbers
  <2> QED
    BY <1>3, <1>6, <1>7, <1>9, <1>12, <1>13, <2>1, <2>2 DEF FillOk
<1>15. ASSUME NEW t \in Tokens PROVE TokenUnits(t) <= 1
  <2> HIDE DEF proceeds
  <2>1. \A i \in 1..Len(outputs) : outputs[i].asset = t =>
           \/ i = 2 /\ t = claim.token /\ outputs[i].value = 1
           \/ i = 3 /\ t = claim.lender_nft /\ outputs[i].value = 1
    <3> SUFFICES ASSUME NEW i \in 1..5, outputs[i].asset = t
                 PROVE  \/ i = 2 /\ t = claim.token /\ outputs[i].value = 1
                        \/ i = 3 /\ t = claim.lender_nft /\ outputs[i].value = 1
      BY <1>5
    <3>1. i # 1 /\ i # 4 /\ i # 5
      BY <1>2, <1>4, <1>5, RowFacts
    <3>2. i = 2 \/ i = 3
      BY <3>1
    <3> QED
      BY <1>2, <1>4, <1>5, <3>2, RowFacts
  <2>2. \A i, k \in 1..Len(outputs) : outputs[i].asset = t /\ outputs[k].asset = t => i = k
    BY <1>2, <2>1
  <2>3. \A i \in 1..Len(outputs) : outputs[i].asset = t => outputs[i].value <= 1
    BY <2>1
  <2> QED
    BY <1>1, <2>2, <2>3, TokenOnce
<1> QED
  BY <1>14, <1>15 DEF Verified

\* The honest template of an offer passes.
LEMMA HonestOfferPasses ==
    ASSUME claim \in Claims, claim.kind = "Offer", Sane(claim), AsClaimed
    PROVE  /\ Verified
           /\ \A t \in Tokens : TokenUnits(t) <= 1
<1>1. /\ claim.amounts \in Seq(Amounts) /\ claim.token_output \subseteq Nat
      /\ IsTemplate(outputs)
  BY ClaimsAssumption, HonestTemplate DEF AsClaimed
<1>2. /\ \A i \in 1..Len(claim.rows) : claim.rows[i] \notin ZeroTermRows
      /\ {Len(claim.rows), Len(claim.amounts)} \subseteq 1..MAX_LIST
      /\ claim.position_leaf = "V5" /\ claim.claim = claim_script(claim.lender_token)
      /\ claim.token_output \subseteq {Len(claim.amounts)}
      /\ Total(claim.amounts) \in Amounts /\ Total(claim.amounts) <= MaxU64
      /\ claim.cash \notin Tokens
  BY NumbersAssumption DEF Sane, ShownCost, Amounts
<1>3. asset = claim.cash /\ amount = Total(claim.amounts)
  <2>1. Total(claim.amounts) % (MaxU64 + 1) = Total(claim.amounts)
    BY <1>2, WrappedNumbers
  <2> QED
    BY <2>1 DEF AsClaimed, ShownAsset, ShownCost
<1>4. PICK n \in Nat : n = Len(claim.amounts)
  BY <1>1
<1> DEFINE R(i) == Row(claim.cash, claim.amounts[i],
                       position_script("Offer", offer_terms_digest(claim), claim.amounts[i]))
           token == Row(claim.lender_token, 1, Wallet(1))
           coins == [i \in 1..n |-> R(i)]
           tail == IF claim.token_output = {} THEN <<>> ELSE <<token>>
           S == {R(i) : i \in 1..n} \cup {token}
<1>5. outputs = coins \o tail
  BY <1>4 DEF AsClaimed, HonestOutputs, HonestOffer
<1>6. coins \in Seq(S) /\ Len(coins) = n /\ \A i \in 1..n : coins[i] = R(i)
  OBVIOUS
<1>7. /\ tail \in Seq(S)
      /\ claim.token_output = {} => Len(tail) = 0
      /\ claim.token_output # {} => Len(tail) = 1 /\ tail[1] = token
  <2>1. token \in S
    OBVIOUS
  <2> HIDE DEF token, S, coins, R
  <2>2. /\ <<>> \in Seq(S) /\ Len(<<>>) = 0
        /\ <<token>> \in Seq(S) /\ Len(<<token>>) = 1 /\ <<token>>[1] = token
    BY <2>1
  <2>3. CASE claim.token_output = {}
    BY <2>2, <2>3
  <2>4. CASE claim.token_output # {}
    BY <2>2, <2>4
  <2> QED
    BY <2>3, <2>4
<1> HIDE DEF R, token, coins, tail, S
<1>8. /\ Len(outputs) = n + Len(tail)
      /\ \A i \in 1..n : outputs[i] = R(i)
      /\ claim.token_output # {} => outputs[n + 1] = token
  <2>1. /\ Len(coins \o tail) = Len(coins) + Len(tail)
        /\ \A i \in 1..Len(coins) : (coins \o tail)[i] = coins[i]
        /\ \A i \in 1..Len(tail) : (coins \o tail)[Len(coins) + i] = tail[i]
    BY <1>6, <1>7, JoinedSequences
  <2> QED
    BY <1>5, <1>6, <1>7, <2>1
<1>9. Len(tail) \in {0, 1} /\ (Len(tail) = 1 <=> claim.token_output # {})
  BY <1>7
<1>10. ASSUME NEW i \in 0..(Len(claim.amounts) - 1) PROVE CoinOk(claim, i)
  <2>1. i + 1 \in 1..n /\ i < Len(outputs)
    BY <1>4, <1>8, <1>9
  <2>2. Out(i) = R(i + 1) /\ Has(i)
    BY <1>8, <2>1 DEF Out, Has
  <2> QED
    BY <2>2, RowFacts DEF CoinOk, Explicit, R
<1>11. ASSUME NEW t \in claim.token_output PROVE Explicit(t, claim.lender_token, 1) /\ Mine(t)
  <2>1. t = n /\ claim.token_output # {}
    BY <1>2, <1>4
  <2>2. Len(outputs) = n + 1
    <3>1. Len(tail) = 1
      BY <1>9, <2>1
    <3> QED
      BY <1>8, <3>1
  <2>3. Out(n) = token /\ Has(n)
    BY <1>8, <2>1, <2>2 DEF Out, Has
  <2> QED
    BY <2>1, <2>3, RowFacts DEF Explicit, Mine, token, Wallet
<1>12. OfferOk(claim)
  <2>1. Len(claim.amounts) \in 1..MAX_LIST /\ RowsOk(claim)
    BY <1>2 DEF RowsOk
  <2>2. TotalIs(claim, amount)
    BY <1>2, <1>3 DEF TotalIs
  <2> QED
    BY <1>2, <1>3, <1>10, <1>11, <2>1, <2>2 DEF OfferOk
<1>13. ASSUME NEW t \in Tokens PROVE TokenUnits(t) <= 1
  <2>1. \A i \in 1..Len(outputs) : outputs[i].asset = t => i = n + 1 /\ outputs[i].value = 1
    <3> SUFFICES ASSUME NEW i \in 1..Len(outputs), outputs[i].asset = t
                 PROVE  i = n + 1 /\ outputs[i].value = 1
      OBVIOUS
    <3>1. i \in 1..n => outputs[i].asset = claim.cash
      BY <1>8, RowFacts DEF R
    <3>2. i \notin 1..n
      BY <1>2, <3>1
    <3>3. i = n + 1 /\ claim.token_output # {}
      <4>1. PICK k \in {0, 1} : k = Len(tail) /\ Len(outputs) = n + k
        BY <1>8, <1>9
      <4>2. i = n + 1 /\ k = 1
        BY <3>2, <4>1
      <4> QED
        BY <1>9, <4>1, <4>2
    <3>4. outputs[i] = token
      BY <1>8, <3>3
    <3> QED
      BY <3>3, <3>4, RowFacts DEF token
  <2>2. \A i, k \in 1..Len(outputs) : outputs[i].asset = t /\ outputs[k].asset = t => i = k
    BY <2>1
  <2>3. \A i \in 1..Len(outputs) : outputs[i].asset = t => outputs[i].value <= 1
    BY <2>1
  <2> QED
    BY <1>1, <2>2, <2>3, TokenOnce
<1> QED
  BY <1>12, <1>13 DEF Verified

\* A template whose first row holds the token and whose other rows are money.
LEMMA OneTokenRow ==
    ASSUME IsTemplate(outputs), outputs[1].value = 1,
           \A i \in 2..Len(outputs) : outputs[i].asset \notin Tokens
    PROVE  \A t \in Tokens : TokenUnits(t) <= 1
<1> SUFFICES ASSUME NEW t \in Tokens PROVE TokenUnits(t) <= 1
  OBVIOUS
<1>1. Len(outputs) \in Nat
  BY ElementsOf DEF IsTemplate
<1>2. \A i \in 1..Len(outputs) : outputs[i].asset = t => i = 1
  <2>1. \A i \in 1..Len(outputs) : i = 1 \/ i \in 2..Len(outputs)
    BY <1>1
  <2> QED
    BY <2>1
<1>3. \A i, k \in 1..Len(outputs) : outputs[i].asset = t /\ outputs[k].asset = t => i = k
  BY <1>2
<1>4. \A i \in 1..Len(outputs) : outputs[i].asset = t => outputs[i].value <= 1
  BY <1>2
<1> QED
  BY <1>3, <1>4, TokenOnce

\* A row of the wallet, found by the asset it pays.
LEMMA RowFound ==
    ASSUME NEW i \in Nat, i + 1 <= Len(outputs), Len(outputs) \in Nat, NEW a, NEW v \in Nat,
           NEW k, outputs[i + 1] = Row(a, v, Wallet(k))
    PROVE  /\ Explicit(i, a, v) /\ Mine(i) /\ v \in mine_paying(a) /\ PaysAtLeast(a, v)
<1>1. Out(i) = Row(a, v, Wallet(k)) /\ Has(i) /\ i \in 0..(Len(outputs) - 1)
  BY DEF Out, Has
<1>2. Out(i).asset = a /\ Out(i).value = v /\ Mine(i)
  BY <1>1, RowFacts DEF Mine, Wallet
<1>3. v \in mine_paying(a)
  BY <1>1, <1>2 DEF mine_paying
<1> QED
  BY <1>1, <1>2, <1>3 DEF Explicit, PaysAtLeast

\* The honest templates of the steps that spend a token pass: taking an offer
\* back, and selling the right to buy back.
LEMMA HonestCancelPasses ==
    ASSUME claim \in Claims, claim.kind = "OfferCancel", Sane(claim), AsClaimed
    PROVE  /\ Verified
           /\ \A t \in Tokens : TokenUnits(t) <= 1
<1>1. /\ {claim.amount, claim.fee} \subseteq Amounts /\ IsTemplate(outputs)
      /\ claim.amount \in Nat
  BY ClaimsAssumption, HonestTemplate, AmountsAreNumbers DEF AsClaimed
<1>2. claim.fee <= CANCEL_FEE_MAX /\ claim.cash \notin Tokens
  BY DEF Sane
<1>3. FundsOnlyFee(claim, CANCEL_FEE_MAX)
  <2>1. claim.fee % (MaxU64 + 1) = claim.fee
    BY <1>1, WrappedNumbers
  <2> QED
    BY <1>2, <2>1 DEF FundsOnlyFee, AsClaimed, ShownAsset, ShownCost
<1>4. PICK r1, r2 :
         /\ outputs = <<r1, r2>>
         /\ r1 = Row(claim.lender_token, 1, Wallet(1)) /\ r2 = Row(claim.cash, claim.amount, Wallet(2))
  BY DEF AsClaimed, HonestOutputs
<1>5. Len(outputs) = 2 /\ outputs[0 + 1] = r1 /\ outputs[1 + 1] = r2
  BY <1>4
<1>6. Explicit(0, claim.lender_token, 1) /\ Mine(0) /\ PaysAtLeast(claim.cash, claim.amount)
  BY <1>1, <1>4, <1>5, RowFound
<1>7. OwnsToken(claim.lender_token)
  BY DEF OwnsToken, AsClaimed, HonestOwned
<1>8. OfferCancelOk(claim)
  BY <1>3, <1>6, <1>7 DEF OfferCancelOk, TokenRoundTrip
<1>9. outputs[1].value = 1 /\ \A i \in 2..Len(outputs) : outputs[i].asset \notin Tokens
  <2>1. \A i \in 2..Len(outputs) : i = 2
    BY <1>5
  <2> QED
    BY <1>2, <1>4, <1>5, <2>1, RowFacts
<1> QED
  BY <1>1, <1>8, <1>9, OneTokenRow DEF Verified

\* Selling the right to buy back.
LEMMA HonestSalePasses ==
    ASSUME claim \in Claims, claim.kind = "SellRight", Sane(claim), AsClaimed
    PROVE  /\ Verified
           /\ \A t \in Tokens : TokenUnits(t) <= 1
<1>1. /\ {claim.price, claim.fee} \subseteq Amounts /\ IsTemplate(outputs)
      /\ claim.price \in Nat /\ claim.token \in Assets
  BY ClaimsAssumption, HonestTemplate, AmountsAreNumbers DEF AsClaimed
<1>2. claim.fee <= CANCEL_FEE_MAX /\ claim.cash \notin Tokens /\ claim.price > 0
  BY DEF Sane
<1>3. FundsOnlyFee(claim, CANCEL_FEE_MAX)
  <2>1. claim.fee % (MaxU64 + 1) = claim.fee
    BY <1>1, WrappedNumbers
  <2> QED
    BY <1>2, <2>1 DEF FundsOnlyFee, AsClaimed, ShownAsset, ShownCost
<1>4. PICK r1, r2 :
         /\ outputs = <<r1, r2>>
         /\ r1 = Row(claim.token, 1, Foreign) /\ r2 = Row(claim.cash, claim.price, Wallet(2))
  BY DEF AsClaimed, HonestOutputs
<1>5. Len(outputs) = 2 /\ outputs[1] = r1 /\ outputs[2] = r2 /\ outputs[1 + 1] = r2
  BY <1>4
<1>6. PaysAtLeast(claim.cash, claim.price)
  BY <1>1, <1>4, <1>5, RowFound
<1>7. TokenSpent
  BY <1>1 DEF TokenSpent, OwnsToken, AsClaimed, HonestOwned
<1>8. SellRightOk(claim)
  BY <1>2, <1>3, <1>6, <1>7 DEF SellRightOk
<1>9. outputs[1].value = 1 /\ \A i \in 2..Len(outputs) : outputs[i].asset \notin Tokens
  <2>1. \A i \in 2..Len(outputs) : i = 2
    BY <1>5
  <2> QED
    BY <1>2, <1>4, <1>5, <2>1, RowFacts
<1> QED
  BY <1>1, <1>8, <1>9, OneTokenRow DEF Verified

\* Collecting what a lender is owed.
LEMMA HonestCollectionPasses ==
    ASSUME claim \in Claims, claim.kind = "Claim", Sane(claim), AsClaimed
    PROVE  /\ Verified
           /\ \A t \in Tokens : TokenUnits(t) <= 1
<1>1. /\ claim.fee \in Amounts /\ IsTemplate(outputs)
      /\ claim.receives \in Seq([asset: Assets, amount: Amounts])
  BY ClaimsAssumption, HonestTemplate DEF AsClaimed
<1>2. /\ claim.receives # <<>> /\ claim.fee <= CLAIM_FEE_MAX
      /\ \A i \in 1..Len(claim.receives) : claim.receives[i].asset \notin Tokens
  BY DEF Sane
<1>3. FundsOnlyFee(claim, CLAIM_FEE_MAX)
  <2>1. claim.fee % (MaxU64 + 1) = claim.fee
    BY <1>1, WrappedNumbers
  <2> QED
    BY <1>2, <2>1 DEF FundsOnlyFee, AsClaimed, ShownAsset, ShownCost
<1>4. PICK n \in Nat : n = Len(claim.receives)
  BY <1>1, ElementsOf
<1>5. \A i \in 1..n : claim.receives[i] \in [asset: Assets, amount: Amounts]
  BY <1>1, <1>4, ElementsOf
<1> DEFINE R(i) == Row(claim.receives[i].asset, claim.receives[i].amount, Wallet(2))
           token == Row(claim.lender_token, 1, Wallet(1))
           paid == [i \in 1..n |-> R(i)]
           S == {R(i) : i \in 1..n} \cup {token}
<1>6. outputs = <<token>> \o paid
  BY <1>4 DEF AsClaimed, HonestOutputs
<1>7. paid \in Seq(S) /\ Len(paid) = n /\ (\A i \in 1..n : paid[i] = R(i)) /\ token \in S
  OBVIOUS
<1> HIDE DEF R, token, paid, S
<1>8. Len(outputs) = 1 + n /\ outputs[1] = token /\ \A i \in 1..n : outputs[1 + i] = R(i)
  <2>1. <<token>> \in Seq(S) /\ Len(<<token>>) = 1 /\ <<token>>[1] = token
    BY <1>7
  <2>2. /\ Len(<<token>> \o paid) = Len(<<token>>) + Len(paid)
        /\ \A i \in 1..Len(<<token>>) : (<<token>> \o paid)[i] = <<token>>[i]
        /\ \A i \in 1..Len(paid) : (<<token>> \o paid)[Len(<<token>>) + i] = paid[i]
    BY <1>7, <2>1, JoinedSequences
  <2> QED
    BY <1>6, <1>7, <2>1, <2>2
<1>9. Explicit(0, claim.lender_token, 1) /\ Mine(0)
  <2>1. outputs[0 + 1] = Row(claim.lender_token, 1, Wallet(1))
    BY <1>8 DEF token
  <2> QED
    BY <1>8, <2>1, RowFound
<1>10. ASSUME NEW i \in 1..Len(claim.receives)
       PROVE  PaysAtLeast(claim.receives[i].asset, claim.receives[i].amount)
  <2>1. i \in 1..n /\ i \in Nat /\ i + 1 <= Len(outputs) /\ Len(outputs) \in Nat /\ 1 + i = i + 1
    BY <1>4, <1>8
  <2>2. PICK a \in Assets, v \in Nat :
           a = claim.receives[i].asset /\ v = claim.receives[i].amount
    BY <1>5, <2>1, AmountsAreNumbers
  <2>3. outputs[i + 1] = Row(a, v, Wallet(2))
    BY <1>8, <2>1, <2>2 DEF R
  <2>4. PaysAtLeast(a, v)
    BY <2>1, <2>3, RowFound
  <2> QED
    BY <2>2, <2>4
<1>11. OwnsToken(claim.lender_token)
  BY DEF OwnsToken, AsClaimed, HonestOwned
<1>12. ClaimOk(claim)
  BY <1>2, <1>3, <1>9, <1>10, <1>11 DEF ClaimOk, TokenRoundTrip
<1>13. outputs[1].value = 1 /\ \A i \in 2..Len(outputs) : outputs[i].asset \notin Tokens
  <2>1. outputs[1].value = 1
    BY <1>8, RowFacts DEF token
  <2>2. ASSUME NEW i \in 2..Len(outputs) PROVE outputs[i].asset \notin Tokens
    <3>1. i - 1 \in 1..n /\ 1 + (i - 1) = i
      BY <1>8
    <3>2. outputs[i] = R(i - 1)
      BY <1>8, <3>1
    <3>3. outputs[i].asset = claim.receives[i - 1].asset
      BY <3>2, RowFacts DEF R
    <3> QED
      BY <1>2, <1>4, <3>1, <3>3
  <2> QED
    BY <2>1, <2>2
<1> QED
  BY <1>1, <1>12, <1>13, OneTokenRow DEF Verified

\* Buying back, in part and in full.
LEMMA HonestExercisePasses ==
    ASSUME claim \in Claims, claim.kind = "Exercise", Sane(claim), AsClaimed
    PROVE  /\ Verified
           /\ \A t \in Tokens : TokenUnits(t) <= 1
<1>1. /\ {claim.amount, claim.released, claim.remaining} \subseteq Amounts
      /\ claim.token \in Assets /\ IsTemplate(outputs) /\ claim.released \in Nat
  BY ClaimsAssumption, HonestTemplate, AmountsAreNumbers DEF AsClaimed
<1>2. Collateral(claim) \notin Tokens
  BY DEF Sane
<1>3. asset = claim.cash /\ amount = claim.amount
  <2>1. claim.amount % (MaxU64 + 1) = claim.amount
    BY <1>1, WrappedNumbers
  <2> QED
    BY <2>1 DEF AsClaimed, ShownAsset, ShownCost
<1>4. OwnsToken(claim.token) /\ TokenSpent
  BY <1>1 DEF TokenSpent, OwnsToken, AsClaimed, HonestOwned
<1> DEFINE back == Row(claim.token, 1, Wallet(1))
           held == Row(Collateral(claim), 1,
                       position_script("V5", [held |-> claim.token], claim.remaining))
           burn == Row(claim.token, 1, Push)
           paid == Row(Collateral(claim), claim.released, Wallet(2))
<1>5. outputs = (IF claim.remaining > 0 THEN <<back, held>> ELSE <<burn>>) \o <<paid>>
  BY DEF AsClaimed, HonestOutputs, HonestExercise
<1>6. CASE claim.remaining > 0
  <2>1. Len(outputs) = 3 /\ outputs[1] = back /\ outputs[2] = held /\ outputs[3] = paid
    <3> HIDE DEF back, held, burn, paid
    <3>1. outputs = <<back, held>> \o <<paid>>
      BY <1>5, <1>6
    <3>2. <<back, held>> \in Seq({back, held, paid}) /\ <<paid>> \in Seq({back, held, paid})
      OBVIOUS
    <3>3. /\ Len(<<back, held>>) = 2 /\ Len(<<paid>>) = 1 /\ <<paid>>[1] = paid
          /\ <<back, held>>[1] = back /\ <<back, held>>[2] = held
      OBVIOUS
    <3> QED
      BY <3>1, <3>2, <3>3, JoinedSequences
  <2>2. Explicit(0, claim.token, 1) /\ Mine(0)
    <3>1. outputs[0 + 1] = Row(claim.token, 1, Wallet(1))
      BY <2>1
    <3> QED
      BY <2>1, <3>1, RowFound
  <2>3. PaysAtLeast(Collateral(claim), claim.released)
    <3>1. outputs[2 + 1] = Row(Collateral(claim), claim.released, Wallet(2))
      BY <2>1
    <3> QED
      BY <1>1, <2>1, <3>1, RowFound
  <2>4. TokenReturned(claim)
    <3>1. TokenRoundTrip(claim.token)
      BY <1>4, <2>2 DEF TokenRoundTrip
    <3>2. Out(0) = back /\ Out(1) = held /\ Has(1)
      BY <2>1 DEF Out, Has
    <3>3. Out(1).asset = Collateral(claim) /\ Out(0).script = Wallet(1)
      BY <3>2, RowFacts
    <3>4. ~op_return_payload(Out(0).script)
      BY <3>3 DEF op_return_payload, Wallet
    <3> QED
      BY <1>1, <3>1, <3>2, <3>3, <3>4 DEF TokenReturned
  <2>5. ExerciseOk(claim)
    BY <1>3, <1>4, <1>6, <2>3, <2>4 DEF ExerciseOk
  <2>6. outputs[1].value = 1 /\ \A i \in 2..Len(outputs) : outputs[i].asset \notin Tokens
    <3>1. \A i \in 2..Len(outputs) : i = 2 \/ i = 3
      BY <2>1
    <3> QED
      BY <1>2, <2>1, <3>1, RowFacts
  <2> QED
    BY <1>1, <2>5, <2>6, OneTokenRow DEF Verified
<1>7. CASE ~(claim.remaining > 0)
  <2>1. Len(outputs) = 2 /\ outputs[1] = burn /\ outputs[2] = paid
    <3> HIDE DEF back, held, burn, paid
    <3>1. outputs = <<burn>> \o <<paid>>
      BY <1>5, <1>7
    <3> QED
      BY <3>1, ShortSequences
  <2>2. PaysAtLeast(Collateral(claim), claim.released)
    <3>1. outputs[1 + 1] = Row(Collateral(claim), claim.released, Wallet(2))
      BY <2>1
    <3> QED
      BY <1>1, <2>1, <3>1, RowFound
  <2>3. TokenBurned
    <3>1. Out(0) = burn /\ Has(0)
      BY <2>1 DEF Out, Has
    <3>2. Out(0).asset = claim.token /\ Out(0).script = Push
      BY <3>1, RowFacts
    <3> QED
      BY <1>4, <3>1, <3>2 DEF TokenBurned, op_return_payload, Push, Return
  <2>4. ExerciseOk(claim)
    BY <1>3, <1>4, <1>7, <2>2, <2>3 DEF ExerciseOk
  <2>5. outputs[1].value = 1 /\ \A i \in 2..Len(outputs) : outputs[i].asset \notin Tokens
    <3>1. \A i \in 2..Len(outputs) : i = 2
      BY <2>1
    <3> QED
      BY <1>2, <2>1, <3>1, RowFacts
  <2> QED
    BY <1>1, <2>4, <2>5, OneTokenRow DEF Verified
<1> QED
  BY <1>6, <1>7

\* As long as nothing was departed from, the proposal is the claimed one.
HonestInv == (changes = 0 => AsClaimed) /\ HonestStepPasses

\* A sensible claim with the template it describes is accepted, whatever its
\* kind, its numbers and the lengths of its lists: the checks of
\* verify_typed_fund and verify_fund_template_owned do not exclude each other.
THEOREM HonestAccepted == Spec => []HonestStepPasses
<1>1. Init => HonestInv
  BY DEF Init, HonestInv, AsClaimed, HonestStepPasses
<1>2. TypeInv /\ HonestInv /\ [Next]_vars => HonestInv'
  <2> SUFFICES ASSUME TypeInv, HonestInv, [Next]_vars PROVE HonestInv'
    OBVIOUS
  <2>0. ASSUME UNCHANGED <<claim, asset, amount, owned, outputs, changes>>
        PROVE  (changes = 0 => AsClaimed)'
    BY <2>0 DEF HonestInv, AsClaimed
  <2>1. CASE ChangeRequest \/ ChangeOwned \/ ChangeOutput \/ AddOutput \/ DropOutput
    <3>1. Change
      BY <2>1, DeparturesChange
    <3>2. changes' # 0
      BY <3>1, DepartureType
    <3> QED
      BY <3>2 DEF HonestInv, HonestStepPasses
  <2>2. CASE parse_typed_fund
    <3>1. UNCHANGED <<memo, claim, asset, amount, owned, outputs, changes>>
      BY <2>2 DEF parse_typed_fund
    <3>2. memo' = "Typed" => phase' # "Refused"
      BY <2>2 DEF parse_typed_fund
    <3> QED
      BY <2>0, <3>1, <3>2 DEF HonestInv, HonestStepPasses
  <2>3. CASE verify_typed_fund
    <3>1. UNCHANGED <<memo, claim, asset, amount, owned, outputs, changes>>
      BY <2>3 DEF verify_typed_fund
    <3>2. ASSUME changes = 0, Sane(claim) PROVE TemplatePassed /\ Verified
      <4>1. AsClaimed /\ claim \in Claims
        BY <3>2 DEF HonestInv, TypeInv, TypeOK
      <4>2. amount > 0
        <5>1. ShownCost(claim) \in 1..MaxU64
          BY <3>2 DEF Sane
        <5>2. PICK n \in 1..MaxU64 : n = ShownCost(claim) /\ amount = n % (MaxU64 + 1)
          BY <4>1, <5>1 DEF AsClaimed
        <5>3. n \in Amounts /\ n > 0
          BY NumbersAssumption DEF Amounts
        <5> QED
          BY <5>2, <5>3, WrappedNumbers
      <4>3. Verified /\ \A t \in Tokens : TokenUnits(t) <= 1
        BY <3>2, <4>1, HonestFillPasses, HonestOfferPasses, HonestCancelPasses,
           HonestSalePasses, HonestCollectionPasses, HonestExercisePasses,
           ClaimsAssumption DEF Kinds
      <4> QED
        BY <4>2, <4>3 DEF TemplatePassed, TokenUnits
    <3>3. (changes = 0 /\ Sane(claim)) => phase' # "Refused"
      BY <2>3, <3>2 DEF verify_typed_fund
    <3> QED
      BY <2>0, <3>1, <3>3 DEF HonestInv, HonestStepPasses
  <2>4. CASE Returned \/ UNCHANGED vars
    <3>1. UNCHANGED vars
      BY <2>4 DEF Returned
    <3> QED
      BY <2>0, <3>1 DEF vars, HonestInv, HonestStepPasses
  <2> QED
    BY <2>1, <2>2, <2>3, <2>4 DEF Next
<1>3. HonestInv => HonestStepPasses
  BY DEF HonestInv
<1> QED
  BY <1>1, <1>2, <1>3, TypeInvariant, PTL DEF Spec

=============================================================================
