--------------------------- MODULE VenueHostProofs ---------------------------
(***************************************************************************)
(* What a signature of VenueHost stands for, for any strings, keys, PSETs  *)
(* and number of requests.                                                 *)
(***************************************************************************)
EXTENDS VenueHost, SequenceTheorems, TLAPS

-----------------------------------------------------------------------------
(* Strings                                                                 *)

\* Sequences and their concatenation, opaque in steps that use only the lemmas.
IsSeq(s) == \E S : s \in Seq(S)
Cat(p, s) == p \o s

\* A sequence over a known set is a sequence.
LEMMA SeqIsSeq ==
    ASSUME NEW S, NEW s \in Seq(S)
    PROVE  IsSeq(s) /\ Len(s) \in Nat
BY DEF IsSeq

\* Length and elements of a concatenation.
LEMMA CatFacts ==
    ASSUME NEW p, NEW s, IsSeq(p), IsSeq(s)
    PROVE  /\ IsSeq(Cat(p, s)) /\ Len(Cat(p, s)) = Len(p) + Len(s)
           /\ Len(p) \in Nat /\ Len(s) \in Nat
           /\ \A i \in 1..Len(p) : Cat(p, s)[i] = p[i]
           /\ \A i \in 1..Len(s) : Cat(p, s)[Len(p) + i] = s[i]
<1>1. PICK P : p \in Seq(P)
  BY DEF IsSeq
<1>2. PICK Q : s \in Seq(Q)
  BY DEF IsSeq
<1> DEFINE S == P \cup Q
<1>3. p \in Seq(S) /\ s \in Seq(S)
  BY <1>1, <1>2
<1>4. /\ p \o s \in Seq(S) /\ Len(p \o s) = Len(p) + Len(s)
      /\ Len(p) \in Nat /\ Len(s) \in Nat
      /\ \A i \in 1..Len(p) : (p \o s)[i] = p[i]
      /\ \A i \in 1..Len(s) : (p \o s)[Len(p) + i] = s[i]
  <2> HIDE DEF S
  <2> QED BY <1>3, ConcatProperties
<1> QED BY <1>4 DEF Cat, IsSeq

\* The first token of a concatenation, where every digest has its tag.
LEMMA CatHead ==
    ASSUME NEW p, NEW s, IsSeq(p), IsSeq(s), NEW n \in Nat \ {0}, Len(p) = n
    PROVE  Cat(p, s)[1] = p[1]
<1>1. \A i \in 1..Len(p) : Cat(p, s)[i] = p[i]
  BY CatFacts
<1> QED BY <1>1

\* Sequences of one length with the same elements are equal.
LEMMA SameElements ==
    ASSUME NEW p, NEW q, IsSeq(p), IsSeq(q), Len(p) = Len(q), \A i \in 1..Len(p) : p[i] = q[i]
    PROVE  p = q
<1>1. PICK P : p \in Seq(P)
  BY DEF IsSeq
<1>2. PICK Q : q \in Seq(Q)
  BY DEF IsSeq
<1>3. DOMAIN p = 1..Len(p) /\ DOMAIN q = 1..Len(q)
  BY <1>1, <1>2
<1>4. p = [i \in DOMAIN p |-> p[i]] /\ q = [i \in DOMAIN q |-> q[i]]
  BY <1>1, <1>2
<1> QED BY <1>3, <1>4, Zenon

\* Prefixes of one length can be told apart.
LEMMA PrefixInjective ==
    ASSUME NEW p, NEW q, NEW s, NEW t, IsSeq(p), IsSeq(q), IsSeq(s), IsSeq(t),
           Len(p) = Len(q), Cat(p, s) = Cat(q, t)
    PROVE  p = q /\ s = t
<1>1. Len(s) = Len(t)
  BY CatFacts
<1>2. p = q
  <2>1. \A i \in 1..Len(p) : Cat(p, s)[i] = p[i]
    BY CatFacts
  <2>2. \A i \in 1..Len(q) : Cat(q, t)[i] = q[i]
    BY CatFacts
  <2>3. \A i \in 1..Len(p) : p[i] = q[i]
    BY <2>1, <2>2
  <2> QED BY <2>3, SameElements
<1>3. s = t
  <2>1. \A i \in 1..Len(s) : Cat(p, s)[Len(p) + i] = s[i]
    BY CatFacts
  <2>2. \A i \in 1..Len(t) : Cat(q, t)[Len(q) + i] = t[i]
    BY CatFacts
  <2>3. \A i \in 1..Len(s) : s[i] = t[i]
    BY <1>1, <2>1, <2>2
  <2> QED BY <1>1, <2>3, SameElements
<1> QED BY <1>2, <1>3

\* `service_login_digest`: the NUL ends the domain, which has none, so domain and
\* challenge do not run together however the challenge is chosen.
LEMMA NulSeparates ==
    ASSUME NEW one, IsSeq(one), Len(one) = 1, one[1] = NUL,
           NEW w1, NEW w2, NEW t1, NEW t2, IsSeq(w1), IsSeq(w2), IsSeq(t1), IsSeq(t2),
           \A i \in 1..Len(w1) : w1[i] # NUL, \A i \in 1..Len(w2) : w2[i] # NUL,
           Cat(w1, Cat(one, t1)) = Cat(w2, Cat(one, t2))
    PROVE  w1 = w2 /\ t1 = t2
<1> DEFINE a == Cat(one, t1)
           b == Cat(one, t2)
           all == Cat(w1, a)
<1>1. /\ IsSeq(a) /\ Len(a) = 1 + Len(t1) /\ a[1] = NUL
      /\ IsSeq(b) /\ Len(b) = 1 + Len(t2) /\ b[1] = NUL
      /\ Len(t1) \in Nat /\ Len(t2) \in Nat
  <2>1. ASSUME NEW t, IsSeq(t)
        PROVE  /\ IsSeq(Cat(one, t)) /\ Len(Cat(one, t)) = 1 + Len(t) /\ Len(t) \in Nat
               /\ Cat(one, t)[1] = NUL
    <3>1. IsSeq(Cat(one, t)) /\ Len(Cat(one, t)) = Len(one) + Len(t) /\ Len(t) \in Nat
      BY <2>1, CatFacts
    <3>2. Cat(one, t)[1] = one[1]
      <4>1. \A i \in 1..Len(one) : Cat(one, t)[i] = one[i]
        BY ONLY <2>1, IsSeq(one), CatFacts
      <4> QED BY <4>1
    <3> QED BY <3>1, <3>2
  <2> QED BY <2>1
<1>2. all = Cat(w2, b)
  OBVIOUS
<1> HIDE DEF a, b, all
<1>3. all[Len(w1) + 1] = NUL /\ (\A i \in 1..Len(w1) : all[i] = w1[i]) /\ Len(w1) \in Nat
  BY <1>1, CatFacts DEF all
<1>4. all[Len(w2) + 1] = NUL /\ (\A i \in 1..Len(w2) : all[i] = w2[i]) /\ Len(w2) \in Nat
  <2>1. /\ \A i \in 1..Len(w2) : Cat(w2, b)[i] = w2[i]
        /\ \A i \in 1..Len(b) : Cat(w2, b)[Len(w2) + i] = b[i]
        /\ Len(w2) \in Nat
    BY <1>1, CatFacts
  <2>2. 1 \in 1..Len(b)
    BY <1>1
  <2> QED BY <1>1, <1>2, <2>1, <2>2
<1>5. Len(w1) = Len(w2)
  BY <1>3, <1>4
<1>6. w1 = w2 /\ a = b
  BY <1>1, <1>2, <1>5, PrefixInjective DEF all
<1>7. t1 = t2
  BY <1>6, PrefixInjective DEF a, b
<1> QED BY <1>6, <1>7

-----------------------------------------------------------------------------
(* Digests                                                                 *)

\* The first token of what is hashed is the kind of the request; the tag of the
\* service login is none of them.
LEMMA TypedTag ==
    ASSUME NEW d \in Descriptions, WellFormed(d), NEW pk \in Keys,
           NEW x \in typed_request_digest(d, pk)
    PROVE  x[1] = "sha256" /\ x[2][1] = d.kind
<1>1. CASE d \in Orders
  <2>1. x = order_digest(pk, d.terms, d.caps)
    BY <1>1 DEF Orders, typed_request_digest
  <2> DEFINE head == <<d.kind, pk, PRODUCT, d.terms>>
             rest == IF d.caps = None THEN <<>> ELSE <<d.caps>>
             S == {d.kind, pk, PRODUCT, d.terms, d.caps}
  <2>2. x = sha(Cat(head, rest))
    BY <2>1, <1>1 DEF order_digest, Orders, WellFormed, Cat
  <2>3. head \in Seq(S) /\ Len(head) = 4 /\ head[1] = d.kind
    OBVIOUS
  <2>4. rest \in Seq(S)
    <3>1. <<>> \in Seq(S) /\ <<d.caps>> \in Seq(S)
      OBVIOUS
    <3> HIDE DEF S, head
    <3> QED BY <3>1
  <2> HIDE DEF head, rest, S
  <2>5. Cat(head, rest)[1] = d.kind
    <3>1. IsSeq(head) /\ IsSeq(rest)
      BY <2>3, <2>4, SeqIsSeq
    <3> QED BY <2>3, <3>1, CatHead
  <2> QED BY <2>2, <2>5 DEF sha
<1>2. CASE d \in Withdrawals
  <2> DEFINE m == <<"rf/withdraw/v1", pk, d.amt, sha(<<ScriptOf[d.dest]>>), d.root>>
  <2>1. x = sha(m)
    BY <1>2 DEF Withdrawals, typed_request_digest, withdraw_digest
  <2>2. m[1] = "rf/withdraw/v1" /\ d.kind = "rf/withdraw/v1"
    BY <1>2 DEF Withdrawals
  <2> HIDE DEF m
  <2> QED BY <2>1, <2>2 DEF sha
<1>3. CASE d \in Logins
  <2> DEFINE head == <<"rf/login/v1", pk>>
             S == {"rf/login/v1", pk} \cup Chars \cup {NUL}
  <2>1. x = sha(Cat(head, d.challenge))
    BY <1>3 DEF Logins, typed_request_digest, login_digest, Cat
  <2>2. /\ head \in Seq(S) /\ Len(head) = 2 /\ head[1] = d.kind
        /\ d.challenge \in Seq(S)
    BY <1>3, TextAssumption DEF Logins
  <2> HIDE DEF head, S
  <2>3. Cat(head, d.challenge)[1] = d.kind
    <3>1. IsSeq(head) /\ IsSeq(d.challenge)
      BY <2>2, SeqIsSeq
    <3> QED BY <2>2, <3>1, CatHead
  <2> QED BY <2>1, <2>3 DEF sha
<1>4. CASE d \in Delegations
  <2> DEFINE head == <<"rf/delegate/v1", d.owner, d.trade_pk>>
             S == {"rf/delegate/v1", d.owner, d.trade_pk} \cup Chars \cup {NUL}
  <2>1. x = sha(Cat(head, d.venue))
    BY <1>4 DEF Delegations, typed_request_digest, delegate_digest, Cat
  <2>2. /\ head \in Seq(S) /\ Len(head) = 3 /\ head[1] = d.kind
        /\ d.venue \in Seq(S)
    BY <1>4, TextAssumption DEF Delegations
  <2> HIDE DEF head, S
  <2>3. Cat(head, d.venue)[1] = d.kind
    <3>1. IsSeq(head) /\ IsSeq(d.venue)
      BY <2>2, SeqIsSeq
    <3> QED BY <2>2, <3>1, CatHead
  <2> QED BY <2>1, <2>3 DEF sha
<1> QED BY <1>1, <1>2, <1>3, <1>4 DEF Descriptions, WellFormed

\* The service login as concatenations.
LEMMA ServiceForm ==
    ASSUME NEW w \in Domains, NEW t \in Texts,
           NEW head, head = <<"lc/service-login/v1", MyKey>>, NEW one, one = <<NUL>>
    PROVE  /\ service_login_digest(MyKey, w, t) = sha(Cat(head, Cat(w, Cat(one, t))))
           /\ IsSeq(head) /\ Len(head) = 2 /\ head[1] = "lc/service-login/v1"
           /\ IsSeq(one) /\ Len(one) = 1 /\ one[1] = NUL
           /\ IsSeq(w) /\ IsSeq(t)
           /\ \A i \in 1..Len(w) : w[i] # NUL
<1>1. service_login_digest(MyKey, w, t) = sha(Cat(head, Cat(w, Cat(one, t))))
  BY DEF service_login_digest, Cat
<1>2. head \in Seq({"lc/service-login/v1", MyKey}) /\ Len(head) = 2 /\ head[1] = "lc/service-login/v1"
  OBVIOUS
<1>3. one \in Seq({NUL}) /\ Len(one) = 1 /\ one[1] = NUL
  OBVIOUS
<1>4. w \in Seq(Chars) /\ t \in Seq(Chars \cup {NUL})
  BY TextAssumption
<1>5. IsSeq(head) /\ IsSeq(one) /\ IsSeq(w) /\ IsSeq(t)
  BY <1>2, <1>3, <1>4, SeqIsSeq
<1>6. \A i \in 1..Len(w) : w[i] # NUL
  BY <1>4, NULAssumption
<1> QED BY <1>1, <1>2, <1>3, <1>5, <1>6

\* A service login hashes its own tag first.
LEMMA ServiceTag ==
    ASSUME NEW w \in Domains, NEW t \in Texts
    PROVE  /\ service_login_digest(MyKey, w, t)[1] = "sha256"
           /\ service_login_digest(MyKey, w, t)[2][1] = "lc/service-login/v1"
<1> DEFINE head == <<"lc/service-login/v1", MyKey>>
           one == <<NUL>>
           rest == Cat(w, Cat(one, t))
<1>1. head = <<"lc/service-login/v1", MyKey>> /\ one = <<NUL>>
  OBVIOUS
<1> HIDE DEF head, one
<1>2. /\ service_login_digest(MyKey, w, t) = sha(Cat(head, rest))
      /\ IsSeq(head) /\ Len(head) = 2 /\ head[1] = "lc/service-login/v1"
      /\ IsSeq(one) /\ IsSeq(w) /\ IsSeq(t)
  BY <1>1, ServiceForm
<1>3. IsSeq(rest)
  BY <1>2, CatFacts
<1> HIDE DEF rest
<1>4. Cat(head, rest)[1] = "lc/service-login/v1"
  <2>0. IsSeq(head) /\ Len(head) = 2
    BY <1>2
  <2>1. Cat(head, rest)[1] = head[1]
    <3>1. \A i \in 1..Len(head) : Cat(head, rest)[i] = head[i]
      BY ONLY <2>0, <1>3, CatFacts
    <3> QED BY <2>0, <3>1
  <2> QED BY <1>2, <2>1
<1> QED BY <1>2, <1>4 DEF sha

\* Two typed requests with one digest mean the same.
LEMMA TypedInjective ==
    ASSUME NEW d \in Descriptions, NEW e \in Descriptions, WellFormed(d), WellFormed(e),
           NEW x \in typed_request_digest(d, MyKey), x \in typed_request_digest(e, MyKey)
    PROVE  MeaningOf(d) = MeaningOf(e)
<1>0. d.kind = e.kind /\ MyKey \in Keys
  <2>1. MyKey \in Keys
    BY KeyAssumption
  <2>2. x[2][1] = d.kind
    BY <2>1, TypedTag
  <2>3. x[2][1] = e.kind
    BY <2>1, TypedTag
  <2> QED BY <2>1, <2>2, <2>3
<1>1. CASE d \in Orders
  <2>1. e \in Orders
    BY <1>0, <1>1 DEF Descriptions, Orders, Withdrawals, Logins, Delegations
  <2>2. /\ x = order_digest(MyKey, d.terms, d.caps) /\ x = order_digest(MyKey, e.terms, e.caps)
        /\ d.product = PRODUCT /\ e.product = PRODUCT
    BY <1>1, <2>1 DEF Orders, typed_request_digest
  <2>3. d.caps = None <=> e.caps = None
    BY <1>0, <1>1, <2>1 DEF WellFormed, Orders
  <2> DEFINE p == <<d.kind, MyKey, PRODUCT, d.terms>>
             q == <<d.kind, MyKey, PRODUCT, e.terms>>
             s == IF d.caps = None THEN <<>> ELSE <<d.caps>>
             t == IF e.caps = None THEN <<>> ELSE <<e.caps>>
             S == {d.kind, MyKey, PRODUCT, d.terms, e.terms, d.caps, e.caps}
  <2>4. x = sha(Cat(p, s)) /\ x = sha(Cat(q, t))
    BY <1>0, <1>1, <2>1, <2>2 DEF order_digest, Orders, WellFormed, Cat
  <2>5. p \in Seq(S) /\ q \in Seq(S) /\ Len(p) = Len(q)
    OBVIOUS
  <2>6. s \in Seq(S) /\ t \in Seq(S)
    <3>1. <<>> \in Seq(S) /\ <<d.caps>> \in Seq(S) /\ <<e.caps>> \in Seq(S)
      OBVIOUS
    <3> HIDE DEF S, p, q
    <3> QED BY <3>1
  <2>7. p = q /\ s = t
    <3> HIDE DEF p, q, s, t, S
    <3>1. Cat(p, s) = Cat(q, t)
      BY <2>4 DEF sha
    <3>2. IsSeq(p) /\ IsSeq(q) /\ IsSeq(s) /\ IsSeq(t)
      BY <2>5, <2>6, SeqIsSeq
    <3> QED BY <2>5, <3>1, <3>2, PrefixInjective
  <2>8. d.terms = e.terms
    BY <2>7
  <2>9. d.caps = e.caps
    BY <2>7, <2>3
  <2>10. d = e
    BY <1>0, <1>1, <2>1, <2>2, <2>8, <2>9 DEF Orders
  <2> QED BY <2>10
<1>2. CASE d \in Withdrawals
  <2>1. e \in Withdrawals
    BY <1>0, <1>2 DEF Descriptions, Orders, Withdrawals, Logins, Delegations
  <2> DEFINE m == <<"rf/withdraw/v1", MyKey, d.amt, sha(<<ScriptOf[d.dest]>>), d.root>>
             n == <<"rf/withdraw/v1", MyKey, e.amt, sha(<<ScriptOf[e.dest]>>), e.root>>
  <2>2. x = sha(m)
    BY <1>2 DEF Withdrawals, typed_request_digest, withdraw_digest
  <2>3. x = sha(n)
    BY <2>1 DEF Withdrawals, typed_request_digest, withdraw_digest
  <2>4. m = n
    <3> HIDE DEF m, n
    <3> QED BY <2>2, <2>3 DEF sha
  <2>5. d.amt = e.amt /\ d.root = e.root /\ sha(<<ScriptOf[d.dest]>>) = sha(<<ScriptOf[e.dest]>>)
    BY <2>4
  <2>6. ScriptOf[d.dest] = ScriptOf[e.dest]
    BY <2>5 DEF sha
  <2>7. d.kind = "rf/withdraw/v1" /\ e.kind = "rf/withdraw/v1"
    BY <1>2, <2>1 DEF Withdrawals
  <2>8. MeaningOf(d) = [kind |-> d.kind, amt |-> d.amt, script |-> ScriptOf[d.dest], root |-> d.root]
    BY <2>7 DEF MeaningOf
  <2>9. MeaningOf(e) = [kind |-> e.kind, amt |-> e.amt, script |-> ScriptOf[e.dest], root |-> e.root]
    BY <2>7 DEF MeaningOf
  <2> QED BY <2>5, <2>6, <2>7, <2>8, <2>9
<1>3. CASE d \in Logins
  <2>1. e \in Logins
    BY <1>0, <1>3 DEF Descriptions, Orders, Withdrawals, Logins, Delegations
  <2> DEFINE p == <<"rf/login/v1", MyKey>>
             S == {"rf/login/v1", MyKey} \cup Chars \cup {NUL}
  <2>2. x = sha(Cat(p, d.challenge)) /\ x = sha(Cat(p, e.challenge))
    BY <1>3, <2>1 DEF Logins, typed_request_digest, login_digest, Cat
  <2>3. p \in Seq(S) /\ d.challenge \in Seq(S) /\ e.challenge \in Seq(S)
    BY <1>3, <2>1, TextAssumption DEF Logins
  <2> HIDE DEF p, S
  <2>4. Cat(p, d.challenge) = Cat(p, e.challenge)
    BY <2>2 DEF sha
  <2>5. d.challenge = e.challenge
    <3>1. IsSeq(p) /\ IsSeq(d.challenge) /\ IsSeq(e.challenge)
      BY <2>3, SeqIsSeq
    <3> QED BY <2>4, <3>1, PrefixInjective
  <2>6. d = e
    BY <1>3, <2>1, <2>5 DEF Logins
  <2> QED BY <2>6
<1>4. CASE d \in Delegations
  <2>1. e \in Delegations
    BY <1>0, <1>4 DEF Descriptions, Orders, Withdrawals, Logins, Delegations
  <2> DEFINE p == <<"rf/delegate/v1", d.owner, d.trade_pk>>
             q == <<"rf/delegate/v1", e.owner, e.trade_pk>>
             S == {"rf/delegate/v1"} \cup Keys \cup Chars \cup {NUL}
  <2>2. x = sha(Cat(p, d.venue)) /\ x = sha(Cat(q, e.venue))
    BY <1>4, <2>1 DEF Delegations, typed_request_digest, delegate_digest, Cat
  <2>3. p \in Seq(S) /\ q \in Seq(S) /\ d.venue \in Seq(S) /\ e.venue \in Seq(S) /\ Len(p) = Len(q)
    BY <1>4, <2>1, TextAssumption DEF Delegations
  <2>4. p = q /\ d.venue = e.venue
    <3> HIDE DEF p, q, S
    <3>1. Cat(p, d.venue) = Cat(q, e.venue)
      BY <2>2 DEF sha
    <3>2. IsSeq(p) /\ IsSeq(q) /\ IsSeq(d.venue) /\ IsSeq(e.venue)
      BY <2>3, SeqIsSeq
    <3> QED BY <2>3, <3>1, <3>2, PrefixInjective
  <2>5. d.owner = e.owner /\ d.trade_pk = e.trade_pk
    BY <2>4
  <2>6. d = e
    BY <1>4, <2>1, <2>4, <2>5 DEF Delegations
  <2> QED BY <2>6
<1> QED BY <1>1, <1>2, <1>3, <1>4 DEF Descriptions, WellFormed

\* One service login digest, one domain and one challenge (service_login_digest).
LEMMA ServiceInjective ==
    ASSUME NEW w \in Domains, NEW t \in Texts, NEW v \in Domains, NEW u \in Texts,
           service_login_digest(MyKey, w, t) = service_login_digest(MyKey, v, u)
    PROVE  w = v /\ t = u
<1> DEFINE head == <<"lc/service-login/v1", MyKey>>
           one == <<NUL>>
           a == Cat(w, Cat(one, t))
           b == Cat(v, Cat(one, u))
<1>1. head = <<"lc/service-login/v1", MyKey>> /\ one = <<NUL>>
  OBVIOUS
<1> HIDE DEF head, one
<1>2. /\ service_login_digest(MyKey, w, t) = sha(Cat(head, a))
      /\ IsSeq(head) /\ IsSeq(one) /\ Len(one) = 1 /\ one[1] = NUL
      /\ IsSeq(w) /\ IsSeq(t) /\ \A i \in 1..Len(w) : w[i] # NUL
  BY <1>1, ServiceForm
<1>3. /\ service_login_digest(MyKey, v, u) = sha(Cat(head, b))
      /\ IsSeq(v) /\ IsSeq(u) /\ \A i \in 1..Len(v) : v[i] # NUL
  BY <1>1, ServiceForm
<1>4. IsSeq(a) /\ IsSeq(b)
  BY <1>2, <1>3, CatFacts
<1>5. a = b
  <2> HIDE DEF a, b
  <2> DEFINE x == Cat(head, a)
             y == Cat(head, b)
  <2>1. x = y
    <3>1. sha(x) = sha(y)
      BY <1>2, <1>3
    <3> HIDE DEF x, y
    <3> QED BY <3>1 DEF sha
  <2> QED BY <1>2, <1>4, <2>1, PrefixInjective
<1> QED BY <1>2, <1>3, <1>5, NulSeparates

-----------------------------------------------------------------------------
(* The invariant                                                           *)

Opened == {id \in Ids : asked[id] # None}

\* What a digest of the venue key was made for.
Genuine(digest, meaning) ==
    \/ \E d \in Descriptions :
          WellFormed(d) /\ digest \in typed_request_digest(d, MyKey) /\ meaning = MeaningOf(d)
    \/ \E w \in Domains, t \in Texts :
          digest = service_login_digest(MyKey, w, t) /\ meaning = ServiceLogin(w, t)
    \/ \E p, i : digest = Sighash(p, i) /\ meaning = Spend(p, i)

OverTheDigest(request, sigs) ==
    \A s \in sigs :
        /\ s.digest = request.digest
        /\ s.key = (IF NotTyped(request.description) THEN "identity" ELSE "venue")

BoundTo(request, sigs) ==
    \A s \in sigs :
        s.key = "venue" /\ s.digest = service_login_digest(MyKey, request.domain, request.challenge)

EveryInput(pset, sigs) ==
    /\ sigs # {}
    /\ \A i \in DOMAIN pset.inputs :
          /\ pset.inputs[i].utxo # "absent"
          /\ (pset.inputs[i].utxo \in {"raw", "tweaked"} /\ ~pset.inputs[i].final) <=>
                \E s \in sigs :
                    /\ s.digest = Sighash(pset, i)
                    /\ s.key = (IF pset.inputs[i].utxo = "raw" THEN "venue" ELSE "venue tweaked")

\* An answer that verifies, by the kind of request it answers.
Fits(request, sigs) ==
    /\ request.sort = "Message" => OverTheDigest(request, sigs)
    /\ request.sort = "Login" => BoundTo(request, sigs)
    /\ request.sort = "Pset" => EveryInput(request.pset, sigs)

ConcernsMe(m) ==
    /\ m.kind = "rf/delegate/v1" => m.owner = MyKey /\ m.trade_pk # MyKey
    /\ m.kind \in {"rf/order/v1", "rf/order/v2"} => m.product = PRODUCT
    /\ m.kind = "rf/withdraw/v1" => m.script # None

\* Answers on their way to the core.
GoodAccepts ==
    {x \in [op: {"Accept"}, id: Opened] :
        asked[x.id].sort = "Message" /\ NotTyped(asked[x.id].description)}
GoodSigned ==
    {x \in [op: {"Signed"}, id: Opened, sigs: SUBSET signatures] : Fits(asked[x.id], x.sigs)}
GoodInputs == GoodAccepts \cup [op: {"Reject"}, id: Ids] \cup GoodSigned

RequestInv ==
    /\ asked \in [Ids -> Requests \cup {None}]
    /\ DOMAIN stored = Ids
    /\ \A id \in Ids : stored[id] # None => stored[id] = asked[id]
    /\ events \in Seq(Opened)

SignInv == \A s \in signatures : s.key # "identity" => s.for \in shown /\ Genuine(s.digest, s.for)

SentInv == \A a \in sent : a.op = "Accept" => a.id \in Opened /\ Fits(asked[a.id], a.sigs)

\* A login that wants a binding is accepted without one only once it is withdrawn.
UnboundInv ==
    \A a \in sent : (a.op = "Accept" /\ asked[a.id].sort = "Login" /\ a.sigs = {}) =>
        asked[a.id].challenge = None \/ stored[a.id] = None

HostInv ==
    /\ RequestInv
    /\ inputs \in Seq(GoodInputs)
    /\ SignInv /\ SentInv /\ UnboundInv /\ OnlyMyAccount

\* A queue stays a queue of good inputs when the set of good inputs grows.
LEMMA SeqGrows ==
    ASSUME NEW S, NEW U, S \subseteq U, NEW q \in Seq(S)
    PROVE  q \in Seq(U)
BY SeqMonotonic

\* The host's answer to an event keeps the invariant if it is good.
LEMMA ReplyKeeps ==
    ASSUME HostInv, NEW input, NEW sigs, NEW meanings, events # <<>>,
           Reply(input, sigs, meanings),
           input \in GoodInputs',
           \A s \in sigs : s.for \in meanings /\ Genuine(s.digest, s.for),
           \A m \in meanings : ConcernsMe(m)
    PROVE  HostInv'
<1>1. RequestInv'
  <2>1. Opened' = Opened
    BY DEF Reply, Opened
  <2>2. Tail(events) \in Seq(Opened)
    BY HeadTailProperties DEF HostInv, RequestInv
  <2> QED BY <2>1, <2>2 DEF HostInv, RequestInv, Reply
<1>2. (inputs \in Seq(GoodInputs))'
  <2>1. GoodInputs \subseteq GoodInputs'
    BY DEF Reply, GoodInputs, GoodAccepts, GoodSigned, Opened
  <2>2. inputs \in Seq(GoodInputs')
    BY <2>1, SeqGrows DEF HostInv
  <2>3. inputs' = Append(inputs, input)
    BY DEF Reply
  <2> QED BY <2>2, <2>3
<1>3. SignInv'
  BY DEF HostInv, SignInv, Reply
<1>4. SentInv'
  BY DEF HostInv, SentInv, Reply, Opened
<1>5. UnboundInv'
  BY DEF HostInv, UnboundInv, Reply
<1>6. OnlyMyAccount'
  BY DEF HostInv, OnlyMyAccount, ConcernsMe, Reply
<1> QED BY <1>1, <1>2, <1>3, <1>4, <1>5, <1>6 DEF HostInv

\* Rejections are always good.
LEMMA RejectKeeps ==
    ASSUME HostInv, NEW id \in Ids, events # <<>>, Reply(Reject(id), {}, {})
    PROVE  HostInv'
<1>1. Reject(id) \in GoodInputs'
  BY DEF GoodInputs, Reject
<1> QED BY <1>1, ReplyKeeps

\* A well-formed request whose digest can be rebuilt concerns this wallet.
LEMMA TypedIsMine ==
    ASSUME NEW d \in Descriptions, WellFormed(d), NEW x \in typed_request_digest(d, MyKey)
    PROVE  ConcernsMe(MeaningOf(d))
<1>1. CASE d \in Orders
  BY <1>1 DEF Orders, typed_request_digest, ConcernsMe, MeaningOf
<1>2. CASE d \in Withdrawals
  <2>1. d.kind = "rf/withdraw/v1"
    BY <1>2 DEF Withdrawals
  <2>2. ScriptOf[d.dest] # None
    BY <2>1 DEF typed_request_digest
  <2>3. MeaningOf(d) = [kind |-> d.kind, amt |-> d.amt, script |-> ScriptOf[d.dest], root |-> d.root]
    BY <2>1 DEF MeaningOf
  <2>4. MeaningOf(d).kind = "rf/withdraw/v1" /\ MeaningOf(d).script = ScriptOf[d.dest]
    BY <2>1, <2>3
  <2> QED BY <2>2, <2>4 DEF ConcernsMe
<1>3. CASE d \in Logins
  BY <1>3 DEF Logins, ConcernsMe, MeaningOf
<1>4. CASE d \in Delegations
  BY <1>4 DEF Delegations, typed_request_digest, NamesThisWallet, ConcernsMe, MeaningOf
<1> QED BY <1>1, <1>2, <1>3, <1>4 DEF Descriptions, WellFormed

\* Every way the host answers a message request keeps the invariant.
LEMMA MessageKeeps ==
    ASSUME HostInv, events # <<>>, NEW id \in Opened, asked[id].sort = "Message",
           HandleMessage(id, asked[id])
    PROVE  HostInv'
<1> DEFINE request == asked[id]
           d == asked[id].description
<1>1. id \in Ids /\ request \in Requests /\ d \in Descriptions
  BY DEF HostInv, RequestInv, Opened, Requests
<1>2. CASE NotTyped(d) /\ Reply(Accept(id), {}, {})
  <2>1. Accept(id) \in GoodInputs'
    BY <1>2 DEF Reply, GoodInputs, GoodAccepts, Accept, Opened
  <2> QED BY <1>2, <2>1, ReplyKeeps
<1>3. CASE Reply(Reject(id), {}, {})
  BY <1>1, <1>3, RejectKeeps
<1>4. ASSUME NEW digest \in typed_request_digest(d, MyKey), WellFormed(d), Matches(request),
             Reply(Signed(id, {VenueSig(digest, MeaningOf(d))}), {VenueSig(digest, MeaningOf(d))},
                   {MeaningOf(d)})
      PROVE  HostInv'
  <2> DEFINE sig == VenueSig(digest, MeaningOf(d))
  <2>1. sig.key = "venue" /\ sig.digest = digest /\ sig.for = MeaningOf(d)
    BY DEF VenueSig
  <2>2. digest = request.digest
    <3>1. typed_request_digest(d, MyKey) # {}
      OBVIOUS
    <3>2. \A y \in typed_request_digest(d, MyKey) : y = digest
      BY <1>1, <1>4 DEF typed_request_digest, Descriptions, Orders, Withdrawals, Logins, Delegations, WellFormed
    <3> QED BY <1>4, <3>1, <3>2 DEF Matches, Rebuilt
  <2>3. Signed(id, {sig}) \in GoodInputs'
    <3>1. ~NotTyped(d)
      BY <1>4 DEF NotTyped, WellFormed
    <3>2. Fits(request, {sig})
      BY <2>1, <2>2, <3>1 DEF Fits, OverTheDigest
    <3>3. asked' = asked /\ {sig} \subseteq signatures' /\ Opened' = Opened
      BY <1>4 DEF Reply, Opened
    <3>4. Signed(id, {sig}) \in [op: {"Signed"}, id: Opened', sigs: SUBSET signatures']
      BY <3>3 DEF Signed
    <3>5. Signed(id, {sig}).id = id /\ Signed(id, {sig}).sigs = {sig}
      BY DEF Signed
    <3> HIDE DEF sig
    <3> QED BY <3>2, <3>3, <3>4, <3>5 DEF GoodInputs, GoodSigned
  <2>4. Genuine(sig.digest, sig.for)
    BY <1>1, <1>4, <2>1 DEF Genuine
  <2>5. ConcernsMe(MeaningOf(d))
    BY <1>1, <1>4, TypedIsMine
  <2> QED BY <1>4, <2>1, <2>3, <2>4, <2>5, ReplyKeeps
<1> QED BY <1>2, <1>3, <1>4 DEF HandleMessage

\* So does its answer to a login, bound or not.
LEMMA LoginKeeps ==
    ASSUME HostInv, events # <<>>, NEW id \in Opened, asked[id].sort = "Login",
           HandleLogin(id) \/ BindLogin(id, asked[id])
    PROVE  HostInv'
<1> DEFINE request == asked[id]
           w == asked[id].domain
           t == asked[id].challenge
<1>1. w \in Domains /\ t \in Texts \cup {None}
  BY DEF HostInv, RequestInv, Opened, Requests
<1>2. ASSUME NEW sigs, Reply(Signed(id, sigs), sigs, {s.for : s \in sigs}), BoundTo(request, sigs)
      PROVE  Signed(id, sigs) \in GoodInputs'
  <2>1. asked' = asked /\ sigs \subseteq signatures' /\ Opened' = Opened
    BY <1>2 DEF Reply, Opened
  <2>2. Signed(id, sigs) \in [op: {"Signed"}, id: Opened', sigs: SUBSET signatures']
    BY <2>1 DEF Signed
  <2>3. Signed(id, sigs).id = id /\ Signed(id, sigs).sigs = sigs
    BY DEF Signed
  <2>4. Fits(request, sigs)
    BY <1>2 DEF Fits
  <2> QED BY <2>1, <2>2, <2>3, <2>4 DEF GoodInputs, GoodSigned
<1>3. CASE Reply(Signed(id, {}), {}, {})
  <2>1. {s.for : s \in {}} = {}
    OBVIOUS
  <2>2. Signed(id, {}) \in GoodInputs'
    BY <1>2, <1>3, <2>1 DEF BoundTo
  <2> QED BY <1>3, <2>2, ReplyKeeps
<1> DEFINE meaning == ServiceLogin(w, t)
           sig == VenueSig(service_login_digest(MyKey, w, t), meaning)
<1>4. CASE t # None /\ Reply(Signed(id, {sig}), {sig}, {meaning})
  <2>1. sig.digest = service_login_digest(MyKey, w, t) /\ sig.for = meaning /\ sig.key = "venue"
    BY DEF VenueSig
  <2>2. Genuine(sig.digest, sig.for)
    BY <1>1, <1>4, <2>1 DEF Genuine
  <2>3. ConcernsMe(meaning)
    BY DEF ConcernsMe, ServiceLogin
  <2> HIDE DEF sig, meaning
  <2>4. {s.for : s \in {sig}} = {meaning}
    BY <2>1
  <2>5. Signed(id, {sig}) \in GoodInputs'
    BY <1>2, <1>4, <2>1, <2>4 DEF BoundTo
  <2> QED BY <1>4, <2>1, <2>2, <2>3, <2>5, ReplyKeeps
<1> QED BY <1>3, <1>4 DEF HandleLogin, BindLogin

\* So does its answer to a PSET: sign_pset_keyspend_inputs signs all or nothing.
LEMMA PsetKeeps ==
    ASSUME HostInv, events # <<>>, NEW id \in Opened, asked[id].sort = "Pset",
           HandlePset(id, asked[id])
    PROVE  HostInv'
<1> DEFINE request == asked[id]
           pset == asked[id].pset
           sigs == {Keyspend(pset, i) : i \in Mine(pset)}
<1>1. CASE Reply(Reject(id), {}, {})
  BY <1>1, RejectKeeps DEF Opened
<1>2. CASE /\ Mine(pset) # {} /\ Keyspendable(pset)
           /\ Reply(Signed(id, sigs), sigs, {s.for : s \in sigs})
  <2>1. \A i : /\ Keyspend(pset, i).digest = Sighash(pset, i)
               /\ Keyspend(pset, i).for = Spend(pset, i)
               /\ Keyspend(pset, i).key = KeyFor(pset.inputs[i].utxo)
    BY DEF Keyspend
  <2>2. ASSUME NEW s \in sigs PROVE s.for \in {r.for : r \in sigs} /\ Genuine(s.digest, s.for)
    <3>1. PICK i : s = Keyspend(pset, i)
      OBVIOUS
    <3>2. s.digest = Sighash(pset, i) /\ s.for = Spend(pset, i)
      BY <2>1, <3>1
    <3> HIDE DEF sigs, pset
    <3>3. Genuine(s.digest, s.for)
      BY <3>2 DEF Genuine
    <3> QED BY <3>3
  <2>3. ASSUME NEW m \in {r.for : r \in sigs} PROVE ConcernsMe(m)
    <3>1. PICK i : m = Spend(pset, i)
      BY <2>1
    <3>2. m.kind = "spend"
      BY <3>1 DEF Spend
    <3> QED BY <3>2 DEF ConcernsMe
  <2>4. EveryInput(pset, sigs)
    <3>1. sigs # {}
      BY <1>2
    <3>2. ASSUME NEW i \in DOMAIN pset.inputs
          PROVE  /\ pset.inputs[i].utxo # "absent"
                 /\ (pset.inputs[i].utxo \in {"raw", "tweaked"} /\ ~pset.inputs[i].final) <=>
                       \E s \in sigs :
                          /\ s.digest = Sighash(pset, i)
                          /\ s.key = (IF pset.inputs[i].utxo = "raw" THEN "venue" ELSE "venue tweaked")
      <4>1. pset.inputs[i].utxo # "absent"
        BY <1>2 DEF Keyspendable
      <4>2. ASSUME pset.inputs[i].utxo \in {"raw", "tweaked"}, ~pset.inputs[i].final
            PROVE  \E s \in sigs :
                      /\ s.digest = Sighash(pset, i)
                      /\ s.key = (IF pset.inputs[i].utxo = "raw" THEN "venue" ELSE "venue tweaked")
        <5>1. i \in Mine(pset)
          BY <4>2 DEF Mine
        <5>2. Keyspend(pset, i) \in sigs
          BY <5>1
        <5> HIDE DEF sigs
        <5> QED BY <5>2, <2>1 DEF KeyFor
      <4>3. ASSUME NEW s \in sigs, s.digest = Sighash(pset, i)
            PROVE  pset.inputs[i].utxo \in {"raw", "tweaked"} /\ ~pset.inputs[i].final
        <5>1. PICK j \in Mine(pset) : s = Keyspend(pset, j)
          OBVIOUS
        <5>2. Sighash(pset, j) = Sighash(pset, i)
          BY <2>1, <4>3, <5>1
        <5>3. j = i
          BY <5>2 DEF Sighash
        <5> QED BY <5>3 DEF Mine
      <4> HIDE DEF sigs
      <4> QED BY <4>1, <4>2, <4>3
    <3> HIDE DEF sigs, pset
    <3> QED BY <3>1, <3>2 DEF EveryInput
  <2>5. Signed(id, sigs) \in GoodInputs'
    <3> HIDE DEF sigs
    <3>1. asked' = asked /\ sigs \subseteq signatures' /\ Opened' = Opened
      BY <1>2 DEF Reply, Opened
    <3>2. Signed(id, sigs) \in [op: {"Signed"}, id: Opened', sigs: SUBSET signatures']
      BY <3>1 DEF Signed
    <3>3. Signed(id, sigs).id = id /\ Signed(id, sigs).sigs = sigs
      BY DEF Signed
    <3>4. Fits(request, sigs)
      BY <2>4 DEF Fits
    <3> QED BY <3>1, <3>2, <3>3, <3>4 DEF GoodInputs, GoodSigned
  <2> HIDE DEF sigs
  <2> QED BY <1>2, <2>2, <2>3, <2>5, ReplyKeeps
<1> QED BY <1>1, <1>2 DEF HandlePset

\* A new request disturbs no earlier one, since ids are not reused.
LEMMA AskKeeps ==
    ASSUME HostInv, NEW id \in Ids, NEW request \in Requests, Ask(id, request)
    PROVE  HostInv'
<1>1. /\ asked' = [asked EXCEPT ![id] = request] /\ asked[id] = None /\ events' = Append(events, id)
      /\ UNCHANGED <<inputs, signatures, sent, shown>>
      /\ asked \in [Ids -> Requests \cup {None}]
  BY DEF Ask, HostInv, RequestInv
<1>2. \A j \in Opened : j # id /\ asked'[j] = asked[j] /\ j \in Opened'
  BY <1>1 DEF Opened
<1>3. id \in Opened'
  BY <1>1, RequestAssumption DEF Opened
<1>4. RequestInv'
  <2>1. asked' \in [Ids -> Requests \cup {None}]
    BY <1>1
  <2>2. DOMAIN stored' = Ids /\ \A j \in Ids : stored'[j] # None => stored'[j] = asked'[j]
    <3>1. stored' = stored \/ stored' = [stored EXCEPT ![id] = request]
      BY DEF Ask
    <3>2. stored[id] = None
      BY <1>1 DEF HostInv, RequestInv
    <3> QED BY <1>1, <3>1, <3>2 DEF HostInv, RequestInv
  <2>3. events \in Seq(Opened')
    BY <1>2, SeqGrows DEF HostInv, RequestInv
  <2>4. events' \in Seq(Opened')
    BY <1>1, <1>3, <2>3
  <2> QED BY <2>1, <2>2, <2>4 DEF RequestInv
<1>5. (inputs \in Seq(GoodInputs))'
  <2>1. GoodAccepts \subseteq GoodAccepts'
    BY <1>2 DEF GoodAccepts
  <2>2. GoodSigned \subseteq GoodSigned'
    BY <1>1, <1>2 DEF GoodSigned
  <2>3. GoodInputs \subseteq GoodInputs'
    BY <2>1, <2>2 DEF GoodInputs
  <2> QED BY <1>1, <2>3, SeqGrows DEF HostInv
<1>6. SignInv' /\ OnlyMyAccount'
  BY <1>1 DEF HostInv, SignInv, OnlyMyAccount
<1>7. SentInv'
  BY <1>1, <1>2 DEF HostInv, SentInv
<1>8. UnboundInv'
  <2>1. \A j \in Opened : stored'[j] = stored[j]
    BY <1>2 DEF Ask, HostInv, RequestInv, Opened
  <2>2. \A a \in sent : a.op = "Accept" => a.id \in Opened
    BY DEF HostInv, SentInv
  <2> QED BY <1>1, <1>2, <2>1, <2>2 DEF HostInv, UnboundInv
<1> QED BY <1>4, <1>5, <1>6, <1>7, <1>8 DEF HostInv

\* The core signs what is stored under the id, which is what was asked under it.
LEMMA CoreKeeps ==
    ASSUME HostInv, CoreHandles
    PROVE  HostInv'
<1> DEFINE input == Head(inputs)
<1>1. input \in GoodInputs /\ Tail(inputs) \in Seq(GoodInputs)
  BY HeadTailProperties DEF HostInv, CoreHandles
<1>2. UNCHANGED <<stored, events, asked, shown>> /\ inputs' = Tail(inputs)
  BY DEF CoreHandles, Queue, Drop
<1>3. signatures \subseteq signatures'
  BY DEF CoreHandles, Queue, Drop
<1>4. RequestInv' /\ OnlyMyAccount'
  BY <1>2 DEF HostInv, RequestInv, Opened, OnlyMyAccount
<1>5. (inputs \in Seq(GoodInputs))'
  <2>1. GoodInputs \subseteq GoodInputs'
    BY <1>2, <1>3 DEF GoodInputs, GoodAccepts, GoodSigned, Opened
  <2> QED BY <1>1, <1>2, <2>1, SeqGrows
<1> HIDE DEF input
<1>6. CASE input.op = "Reject" /\ Queue(input.id, "Reject", {})
  <2>1. SignInv'
    BY <1>6 DEF HostInv, SignInv, Queue
  <2>2. SentInv'
    BY <1>6 DEF HostInv, SentInv, Queue, Opened
  <2>3. UnboundInv'
    BY <1>6 DEF HostInv, UnboundInv, Queue
  <2> QED BY <1>4, <1>5, <2>1, <2>2, <2>3 DEF HostInv
<1>7. CASE input.op = "Accept" /\ ~Gone(input) /\ Queue(input.id, "Accept", {IdentitySig(input.id)})
  <2>1. input \in GoodAccepts
    BY <1>1, <1>7 DEF GoodInputs, GoodSigned, GoodAccepts
  <2>2. /\ input.id \in Opened /\ input.id \in Ids
        /\ asked[input.id].sort = "Message" /\ NotTyped(asked[input.id].description)
    BY <2>1 DEF GoodAccepts, Opened
  <2>3. stored[input.id] = asked[input.id]
    BY <1>7, <2>2 DEF Gone, HostInv, RequestInv
  <2> DEFINE sig == IdentitySig(input.id)
  <2>4. sig.key = "identity" /\ sig.digest = asked[input.id].digest
    BY <2>3 DEF IdentitySig
  <2> HIDE DEF sig
  <2>5. Queue(input.id, "Accept", {sig})
    BY <1>7 DEF sig
  <2>6. Fits(asked[input.id], {sig})
    BY <2>2, <2>4 DEF Fits, OverTheDigest
  <2>7. SignInv'
    BY <2>4, <2>5 DEF HostInv, SignInv, Queue
  <2>8. SentInv'
    <3> DEFINE new == [id |-> input.id, op |-> "Accept", sigs |-> {sig}]
    <3>1. sent' = sent \cup {new} /\ asked' = asked /\ Opened' = Opened
      BY <2>5 DEF Queue, Opened
    <3>2. new.id = input.id /\ new.sigs = {sig}
      OBVIOUS
    <3> HIDE DEF new
    <3> QED BY <2>2, <2>6, <3>1, <3>2 DEF HostInv, SentInv
  <2>9. UnboundInv'
    BY <2>5 DEF HostInv, UnboundInv, Queue
  <2> QED BY <1>4, <1>5, <2>7, <2>8, <2>9 DEF HostInv
<1>8. CASE input.op = "Signed" /\ ~Unbound(input) /\ Queue(input.id, "Accept", input.sigs)
  <2>1. input \in GoodSigned
    BY <1>1, <1>8 DEF GoodInputs, GoodSigned, GoodAccepts
  <2>2. input.id \in Opened /\ input.sigs \subseteq signatures /\ Fits(asked[input.id], input.sigs)
    BY <2>1 DEF GoodSigned
  <2>3. SignInv'
    BY <1>8, <2>2 DEF HostInv, SignInv, Queue
  <2>4. SentInv'
    BY <1>8, <2>2 DEF HostInv, SentInv, Queue, Opened
  <2>5. UnboundInv'
    <3> DEFINE new == [id |-> input.id, op |-> "Accept", sigs |-> input.sigs]
    <3>1. sent' = sent \cup {new} /\ UNCHANGED <<asked, stored>>
      BY <1>8 DEF Queue
    <3>2. new.id = input.id /\ new.sigs = input.sigs
      OBVIOUS
    <3>3. stored[input.id] = None \/ stored[input.id] = asked[input.id]
      BY <2>2 DEF HostInv, RequestInv, Opened
    <3> HIDE DEF new
    <3> QED BY <1>8, <3>1, <3>2, <3>3 DEF HostInv, UnboundInv, Unbound
  <2> QED BY <1>4, <1>5, <2>3, <2>4, <2>5 DEF HostInv
<1>9. CASE Drop
  <2>1. SignInv' /\ SentInv' /\ UnboundInv'
    BY <1>9 DEF HostInv, SignInv, SentInv, UnboundInv, Drop, Opened
  <2> QED BY <1>4, <1>5, <2>1 DEF HostInv
<1> QED BY <1>6, <1>7, <1>8, <1>9 DEF CoreHandles, input

\* Initially nothing has been asked, signed or sent.
LEMMA HostInvInit == HostInit => HostInv
<1> SUFFICES ASSUME HostInit PROVE HostInv
  OBVIOUS
<1>1. RequestInv
  BY DEF HostInit, RequestInv
<1>2. inputs \in Seq(GoodInputs)
  BY DEF HostInit
<1>3. SignInv /\ SentInv /\ UnboundInv /\ OnlyMyAccount
  BY DEF HostInit, SignInv, SentInv, UnboundInv, OnlyMyAccount
<1> QED BY <1>1, <1>2, <1>3 DEF HostInv

\* Each step of the server, the host and the core keeps the invariant.
LEMMA HostInvStep == HostInv /\ [HostNext]_hostVars => HostInv'
<1> SUFFICES ASSUME HostInv, [HostNext]_hostVars PROVE HostInv'
  OBVIOUS
<1>1. CASE UNCHANGED hostVars
  BY <1>1 DEF hostVars, HostInv, RequestInv, SignInv, SentInv, UnboundInv, OnlyMyAccount, Opened, GoodInputs,
              GoodAccepts, GoodSigned
<1>2. ASSUME NEW id \in Ids, NEW request \in Requests, Ask(id, request) PROVE HostInv'
  BY <1>2, AskKeeps
<1>3. ASSUME NEW id \in Ids, Withdrawn(id) PROVE HostInv'
  <2>1. /\ UNCHANGED <<events, inputs, asked, signatures, sent, shown>>
        /\ stored' = [stored EXCEPT ![id] = None]
    BY <1>3 DEF Withdrawn
  <2>2. RequestInv'
    BY <2>1 DEF HostInv, RequestInv, Opened
  <2>3. UnboundInv'
    <3>1. \A j : stored[j] = None => stored'[j] = None
      BY <2>1 DEF HostInv, RequestInv
    <3> QED BY <2>1, <3>1 DEF HostInv, UnboundInv
  <2> QED BY <2>1, <2>2, <2>3 DEF HostInv, SignInv, SentInv, OnlyMyAccount, Opened, GoodInputs,
                            GoodAccepts, GoodSigned
<1>4. CASE HostHandles
  <2>1. events # <<>> /\ Head(events) \in Opened
    BY <1>4, HeadTailProperties DEF HostHandles, HostInv, RequestInv
  <2> QED BY <1>4, <2>1, MessageKeeps, LoginKeeps, PsetKeeps DEF HostHandles
<1>5. ASSUME NEW t \in Texts, SdkLogin(t) PROVE HostInv'
  <2> DEFINE claim == [kind |-> "rf/login/v1", challenge |-> t]
             sig == VenueSig(login_digest(MyKey, t), claim)
  <2>1. /\ UNCHANGED <<stored, events, inputs, asked, sent>>
        /\ signatures' = signatures \cup {sig} /\ shown' = shown \cup {claim}
    BY <1>5 DEF SdkLogin
  <2>2. claim \in Descriptions /\ claim.kind = "rf/login/v1" /\ claim.challenge = t
    BY DEF Descriptions, Logins
  <2>3. sig.digest = login_digest(MyKey, t) /\ sig.for = claim
    BY DEF VenueSig
  <2> HIDE DEF claim, sig
  <2>4. WellFormed(claim) /\ MeaningOf(claim) = claim /\ ConcernsMe(claim)
    BY <2>2 DEF WellFormed, MeaningOf, ConcernsMe
  <2>5. login_digest(MyKey, t) \in typed_request_digest(claim, MyKey)
    BY <2>2 DEF typed_request_digest
  <2>6. Genuine(sig.digest, sig.for)
    BY <2>2, <2>3, <2>4, <2>5 DEF Genuine
  <2>7. RequestInv' /\ SentInv' /\ UnboundInv'
    BY <2>1 DEF HostInv, RequestInv, SentInv, UnboundInv, Opened
  <2>8. SignInv'
    BY <2>1, <2>3, <2>6 DEF HostInv, SignInv
  <2>9. OnlyMyAccount'
    BY <2>1, <2>4 DEF HostInv, OnlyMyAccount, ConcernsMe
  <2>10. (inputs \in Seq(GoodInputs))'
    <3>1. GoodInputs \subseteq GoodInputs'
      BY <2>1 DEF GoodInputs, GoodAccepts, GoodSigned, Opened
    <3> QED BY <2>1, <3>1, SeqGrows DEF HostInv
  <2> QED BY <2>7, <2>8, <2>9, <2>10 DEF HostInv
<1>6. CASE CoreHandles
  BY <1>6, CoreKeeps
<1> QED BY <1>1, <1>2, <1>3, <1>4, <1>5, <1>6 DEF HostNext

\* The invariant holds throughout.
LEMMA HostInvHolds == HostSpec => []HostInv
BY HostInvInit, HostInvStep, PTL DEF HostSpec

-----------------------------------------------------------------------------
(* Theorems                                                                *)

\* A signature has one meaning.
LEMMA GenuineMeansOne ==
    ASSUME NEW digest, NEW meaning, Genuine(digest, meaning)
    PROVE  /\ \A d \in Descriptions :
                 (WellFormed(d) /\ digest \in typed_request_digest(d, MyKey)) => meaning = MeaningOf(d)
           /\ \A w \in Domains, t \in Texts :
                 digest = service_login_digest(MyKey, w, t) => meaning = ServiceLogin(w, t)
<1>0. MyKey \in Keys
  BY KeyAssumption
<1>1. ASSUME NEW d \in Descriptions, WellFormed(d), digest \in typed_request_digest(d, MyKey)
      PROVE  /\ digest[1] = "sha256" /\ digest[2][1] = d.kind /\ d.kind # "lc/service-login/v1"
  <2>1. digest[1] = "sha256" /\ digest[2][1] = d.kind
    BY <1>0, <1>1, TypedTag
  <2> QED BY <2>1 DEF Descriptions, Orders, Withdrawals, Logins, Delegations
<1>2. ASSUME NEW w \in Domains, NEW t \in Texts, digest = service_login_digest(MyKey, w, t)
      PROVE  digest[1] = "sha256" /\ digest[2][1] = "lc/service-login/v1"
  BY <1>2, ServiceTag
<1>3. ASSUME NEW p, NEW i, digest = Sighash(p, i) PROVE digest[1] # "sha256"
  BY <1>3 DEF Sighash
<1>4. ASSUME NEW d \in Descriptions, WellFormed(d), digest \in typed_request_digest(d, MyKey),
             meaning = MeaningOf(d)
      PROVE  /\ \A e \in Descriptions :
                   (WellFormed(e) /\ digest \in typed_request_digest(e, MyKey)) => meaning = MeaningOf(e)
             /\ \A w \in Domains, t \in Texts : digest # service_login_digest(MyKey, w, t)
  <2>1. ASSUME NEW e \in Descriptions, WellFormed(e), digest \in typed_request_digest(e, MyKey)
        PROVE  meaning = MeaningOf(e)
    BY <1>4, <2>1, TypedInjective
  <2>2. ASSUME NEW w \in Domains, NEW t \in Texts, digest = service_login_digest(MyKey, w, t)
        PROVE  FALSE
    BY <1>1, <1>2, <1>4, <2>2
  <2> QED BY <2>1, <2>2
<1>5. ASSUME NEW w \in Domains, NEW t \in Texts, digest = service_login_digest(MyKey, w, t),
             meaning = ServiceLogin(w, t)
      PROVE  /\ \A d \in Descriptions : ~(WellFormed(d) /\ digest \in typed_request_digest(d, MyKey))
             /\ \A v \in Domains, u \in Texts :
                   digest = service_login_digest(MyKey, v, u) => meaning = ServiceLogin(v, u)
  <2>1. ASSUME NEW d \in Descriptions, WellFormed(d), digest \in typed_request_digest(d, MyKey)
        PROVE  FALSE
    BY <1>1, <1>2, <1>5, <2>1
  <2>2. ASSUME NEW v \in Domains, NEW u \in Texts, digest = service_login_digest(MyKey, v, u)
        PROVE  meaning = ServiceLogin(v, u)
    <3>0. service_login_digest(MyKey, w, t) = service_login_digest(MyKey, v, u)
      BY <1>5, <2>2
    <3>1. w = v /\ t = u
      BY ONLY <3>0, w \in Domains, t \in Texts, v \in Domains, u \in Texts, ServiceInjective
    <3> QED BY <1>5, <3>1
  <2> QED BY <2>1, <2>2
<1>6. ASSUME NEW p, NEW i, digest = Sighash(p, i)
      PROVE  /\ \A d \in Descriptions : ~(WellFormed(d) /\ digest \in typed_request_digest(d, MyKey))
             /\ \A w \in Domains, t \in Texts : digest # service_login_digest(MyKey, w, t)
  BY <1>1, <1>2, <1>3, <1>6
<1> QED BY <1>4, <1>5, <1>6 DEF Genuine

\* What every venue signature was made for was on screen, and its digest can be
\* read as nothing else, for any strings, keys and PSETs (typed_request_digest,
\* service_login_digest, sign_pset_keyspend_inputs).
THEOREM SignedIsShown == HostSpec => []ShownIsSigned
<1>1. HostInv => ShownIsSigned
  BY GenuineMeansOne DEF HostInv, SignInv, ShownIsSigned
<1> QED BY <1>1, HostInvHolds, PTL

\* Every signature sent for a message request is over the digest asked under that
\* id, by the key its description calls for, whatever was withdrawn meanwhile
\* (approve-all-wallet's loop, SignMessageAccepted and SignMessageSigned).
THEOREM AnswersCorrect == HostSpec => []AnswersVerify
<1>1. HostInv => AnswersVerify
  BY DEF HostInv, SentInv, Fits, OverTheDigest, AnswersVerify
<1> QED BY <1>1, HostInvHolds, PTL

\* No login that wants a binding is accepted without one while it is stored, and a
\* binding is to the domain and challenge asked (accept_login_with_service_key,
\* LoginAccepted).
THEOREM LoginsBound == HostSpec => []LoginIsBound
<1>1. HostInv => LoginIsBound
  BY DEF HostInv, SentInv, UnboundInv, Fits, BoundTo, LoginIsBound
<1> QED BY <1>1, HostInvHolds, PTL

\* Nothing signed by the venue key concerns another account or product
\* (typed_request_digest).
THEOREM AccountCorrect == HostSpec => []OnlyMyAccount
<1>1. HostInv => OnlyMyAccount
  BY DEF HostInv
<1> QED BY <1>1, HostInvHolds, PTL

\* A PSET is sent back only with every input of this key signed under the key its
\* script demands (sign_pset_keyspend_inputs), for PSETs of any size.
THEOREM SpendCorrect == HostSpec => []SpendIsComplete
<1>1. HostInv => SpendIsComplete
  BY DEF HostInv, SentInv, Fits, EveryInput, SpendIsComplete
<1> QED BY <1>1, HostInvHolds, PTL

==============================================================================
