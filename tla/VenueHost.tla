------------------------------ MODULE VenueHost ------------------------------
(***************************************************************************)
(* A host that signs for a venue (venue.rs, as driven by the wallet of     *)
(* examples/approve-all-wallet.rs): which key signs what, and what a       *)
(* signature stands for.  A host may also bind a login to its venue key,   *)
(* with accept_login_with_service_key.                                     *)
(*                                                                         *)
(* The relying party chooses digest and description freely.  The host      *)
(* reads the request from the event; the core signs later, by id.          *)
(*                                                                         *)
(* Bytes are sequences of tokens: one per tag, per 32-byte key or script   *)
(* hash, per run of fixed-width fields, per character of a string.  No tag *)
(* of the source is a prefix of another, so byte strings are equal exactly *)
(* when token sequences are.  A digest is a free constructor: SHA-256 and  *)
(* the taproot sighash are assumed not to collide.                         *)
(***************************************************************************)
EXTENDS Naturals, Sequences, FiniteSets

CONSTANTS
    Ids,            \* request ids; the connect server never reuses one
    Chars, NUL,     \* characters of a domain, and the byte 0
    Domains, Texts, \* strings: domains, and what a relying party may send
    Terms, Caps,    \* fixed-width fields of an order or a withdrawal; fee caps
    Products, PRODUCT,
    Addresses, Scripts, ScriptOf,   \* addresses and the scripts they stand for
    Keys, MyKey,    \* x-only keys, and the venue key of this wallet
    Psets,          \* the PSETs a venue may send
    MessagePsets,   \* those whose sighash it may also offer as a message
    ExpectedDest,   \* LC_EXPECTED_WITHDRAW_DEST, or None
    None

ASSUME NULAssumption == NUL \notin Chars
ASSUME TextAssumption == Domains \subseteq Seq(Chars) /\ Texts \subseteq Seq(Chars \cup {NUL})
ASSUME ProductAssumption == PRODUCT \in Products
ASSUME ScriptAssumption == ScriptOf \in [Addresses -> Scripts \cup {None}]
ASSUME KeyAssumption == MyKey \in Keys
ASSUME HostNoneAssumption == None \notin Scripts \cup Caps \cup Addresses \cup Texts

VARIABLES
    stored,         \* the core's maps of pending requests
    events,         \* core -> host
    inputs,         \* host -> core
    (* History. *)
    asked,          \* what was asked under each id
    signatures,     \* [key, digest, for]: made by the venue or identity key
    sent,           \* [id, answer] actions queued for the server
    shown           \* what the person, or the bench, approved

hostVars == <<stored, events, inputs, asked, signatures, sent, shown>>

-----------------------------------------------------------------------------
(* Digests                                                                 *)

sha(m) == <<"sha256", m>>
ZeroDigest == <<"zero", <<>>>>

order_digest(pk, terms, caps) ==
    sha(<<IF caps = None THEN "rf/order/v1" ELSE "rf/order/v2", pk, PRODUCT, terms>>
        \o (IF caps = None THEN <<>> ELSE <<caps>>))

withdraw_digest(pk, amt, script, root) ==
    sha(<<"rf/withdraw/v1", pk, amt, sha(<<script>>), root>>)

delegate_digest(owner, trade, domain) == sha(<<"rf/delegate/v1", owner, trade>> \o domain)

login_digest(pk, challenge) == sha(<<"rf/login/v1", pk>> \o challenge)

\* Fault: domain and challenge run together.
service_login_digest_run_on(pk, domain, challenge) ==
    sha(<<"lc/service-login/v1", pk>> \o domain \o challenge)

service_login_digest(pk, domain, challenge) ==
    sha(<<"lc/service-login/v1", pk>> \o (domain \o (<<NUL>> \o challenge)))

\* A key-path sighash commits to the transaction, the input and all prevouts.
Sighash(pset, i) == <<"TapSighash", <<pset, i>>>>

-----------------------------------------------------------------------------
(* Typed descriptions                                                      *)

Orders == [kind: {"rf/order/v1", "rf/order/v2"}, product: Products, terms: Terms,
           caps: Caps \cup {None}]
Withdrawals == [kind: {"rf/withdraw/v1"}, amt: Terms, dest: Addresses, root: Terms]
Logins == [kind: {"rf/login/v1"}, challenge: Texts]
Delegations == [kind: {"rf/delegate/v1"}, venue: Texts, owner: Keys, trade_pk: Keys]

\* "text" is whatever does not parse as JSON with a kind "rf/..."; "rf/garbled" an
\* unknown kind, or a known one with a field missing or out of range.
Descriptions == [kind: {"text", "rf/garbled"}]
                \cup Orders \cup Withdrawals \cup Logins \cup Delegations

\* parse_typed_description: None, Some(Err), Some(Ok).
NotTyped(d) == d.kind = "text"

WellFormed(d) ==
    /\ d.kind \notin {"text", "rf/garbled"}
    /\ d.kind = "rf/order/v2" => d.caps # None
    /\ d.kind = "rf/order/v1" => d.caps = None

Malformed(d) == ~NotTyped(d) /\ ~WellFormed(d)

\* Fault: a delegation is rebuilt under the wallet's key whoever it names.
NamesThisWalletUnchecked(d, pk) == d.trade_pk # d.owner

NamesThisWallet(d, pk) == d.owner = pk /\ d.trade_pk # d.owner

\* typed_request_digest: {} is Err, {digest} Ok.
typed_request_digest(d, pk) ==
    CASE d.kind \in {"rf/order/v1", "rf/order/v2"} ->
            {order_digest(pk, d.terms, d.caps) : p \in {d.product} \cap {PRODUCT}}
      [] d.kind = "rf/withdraw/v1" ->
            {withdraw_digest(pk, d.amt, s, d.root) : s \in {ScriptOf[d.dest]} \ {None}}
      [] d.kind = "rf/login/v1" -> {login_digest(pk, d.challenge)}
      [] d.kind = "rf/delegate/v1" ->
            {delegate_digest(d.owner, d.trade_pk, d.venue) :
                ok \in {x \in {TRUE} : NamesThisWallet(d, pk)}}

-----------------------------------------------------------------------------
(* Meanings: what the person reads, up to what the digest can tell apart.   *)
(* An address stands for its script: its blinding key is not committed to.  *)

MeaningOf(d) ==
    IF d.kind = "rf/withdraw/v1"
    THEN [kind |-> d.kind, amt |-> d.amt, script |-> ScriptOf[d.dest], root |-> d.root]
    ELSE d

ServiceLogin(domain, challenge) ==
    [kind |-> "lc/service-login/v1", domain |-> domain, challenge |-> challenge]

Spend(pset, i) == [kind |-> "spend", pset |-> pset, input |-> i]

-----------------------------------------------------------------------------
(* Key-path spends                                                         *)

Mine(pset) ==
    {i \in DOMAIN pset.inputs : /\ pset.inputs[i].utxo \in {"raw", "tweaked"}
                                /\ ~pset.inputs[i].final}

Keyspendable(pset) ==
    /\ \A i \in DOMAIN pset.inputs : pset.inputs[i].utxo # "absent"
    /\ pset.extracts

\* Fault: the raw key signs for both scripts.
KeyForRawOnly(utxo) == "venue"

\* The keypair an input's script demands.
KeyFor(utxo) == IF utxo = "raw" THEN "venue" ELSE "venue tweaked"

Keyspend(pset, i) ==
    [key |-> KeyFor(pset.inputs[i].utxo), digest |-> Sighash(pset, i),
     for |-> Spend(pset, i)]

-----------------------------------------------------------------------------
(* Requests and what is sent                                               *)

\* Digests a relying party can compute for any key, and the one nobody can.
Digests ==
    {ZeroDigest}
    \cup UNION {typed_request_digest(d, pk) : d \in {e \in Descriptions : WellFormed(e)}, pk \in Keys}
    \cup {service_login_digest(MyKey, w, t) : w \in Domains, t \in Texts}
    \cup UNION {{Sighash(p, i) : i \in DOMAIN p.inputs} : p \in MessagePsets}

\* SignMessageRequest, LoginRequest (with a service challenge or without), SignRequest.
Requests ==
    [sort: {"Message"}, digest: Digests, description: Descriptions]
    \cup [sort: {"Login"}, domain: Domains, challenge: Texts \cup {None}]
    \cup [sort: {"Pset"}, pset: Psets]

ASSUME RequestAssumption == None \notin Requests

HostInit ==
    /\ stored = [id \in Ids |-> None]
    /\ events = <<>> /\ inputs = <<>>
    /\ asked = [id \in Ids |-> None]
    /\ signatures = {} /\ sent = {} /\ shown = {}

\* The server forwards a request: the core keeps it and raises the event.
Ask(id, request) ==
    /\ asked[id] = None
    /\ asked' = [asked EXCEPT ![id] = request]
    /\ stored' = [stored EXCEPT ![id] = request]
    /\ events' = Append(events, id)
    /\ UNCHANGED <<inputs, signatures, sent, shown>>

\* LoginRequestRemoved, SignRequestRemoved, SignMessageRequestRemoved.
Withdrawn(id) ==
    /\ stored[id] # None
    /\ stored' = [stored EXCEPT ![id] = None]
    /\ UNCHANGED <<events, inputs, asked, signatures, sent, shown>>

-----------------------------------------------------------------------------
(* The host's event loop                                                   *)

Reply(input, sigs, meanings) ==
    /\ events' = Tail(events)
    /\ inputs' = Append(inputs, input)
    /\ signatures' = signatures \cup sigs
    /\ shown' = shown \cup meanings
    /\ UNCHANGED <<stored, asked, sent>>

Accept(id) == [op |-> "Accept", id |-> id]
Reject(id) == [op |-> "Reject", id |-> id]
Signed(id, sigs) == [op |-> "Signed", id |-> id, sigs |-> sigs]

VenueSig(digest, meaning) == [key |-> "venue", digest |-> digest, for |-> meaning]

Rebuilt(d) ==
    IF typed_request_digest(d, MyKey) = {} THEN ZeroDigest
    ELSE CHOOSE x \in typed_request_digest(d, MyKey) : TRUE

\* Fault: the rebuilt digest is not compared with the requested one.
MatchesUnchecked(request) == TRUE

Matches(request) == Rebuilt(request.description) = request.digest

\* The bench fails closed on a destination other than the one it was given.
Expected(d) ==
    (d.kind = "rf/withdraw/v1" /\ ExpectedDest # None) => d.dest = ExpectedDest

\* SignMessageRequested, one disjunct for each way out of the match.
HandleMessage(id, request) ==
    LET d == request.description IN
    \/ NotTyped(d) /\ Reply(Accept(id), {}, {})
    \/ Malformed(d) /\ Reply(Reject(id), {}, {})
    \/ WellFormed(d) /\ ~Matches(request) /\ Reply(Reject(id), {}, {})
    \/ WellFormed(d) /\ Matches(request) /\ ~Expected(d) /\ Reply(Reject(id), {}, {})
    \/ /\ WellFormed(d) /\ Matches(request) /\ Expected(d)
       /\ \/ typed_request_digest(d, MyKey) = {} /\ Reply(Reject(id), {}, {})
          \/ \E digest \in typed_request_digest(d, MyKey) :
                LET sig == VenueSig(digest, MeaningOf(d)) IN
                Reply(Signed(id, {sig}), {sig}, {MeaningOf(d)})

\* LoginRequested: the example accepts, challenge or not.
HandleLogin(id) == Reply(Signed(id, {}), {}, {})

\* accept_login_with_service_key: a host that binds signs the challenge under the
\* domain the server names.
BindLogin(id, request) ==
    LET meaning == ServiceLogin(request.domain, request.challenge)
        sig == VenueSig(service_login_digest(MyKey, request.domain, request.challenge), meaning)
    IN
    /\ request.challenge # None
    /\ Reply(Signed(id, {sig}), {sig}, {meaning})

\* SignRequested: sign_pset_keyspend_inputs, then its three outcomes.
HandlePset(id, request) ==
    LET pset == request.pset
        sigs == {Keyspend(pset, i) : i \in Mine(pset)}
    IN
    \/ Mine(pset) = {} /\ Reply(Reject(id), {}, {})
    \/ Mine(pset) # {} /\ ~Keyspendable(pset) /\ Reply(Reject(id), {}, {})
    \/ /\ Mine(pset) # {} /\ Keyspendable(pset)
       /\ Reply(Signed(id, sigs), sigs, {s.for : s \in sigs})

HostHandles ==
    /\ events # <<>>
    /\ LET id == Head(events) IN
       \/ asked[id].sort = "Message" /\ HandleMessage(id, asked[id])
       \/ asked[id].sort = "Login" /\ (HandleLogin(id) \/ BindLogin(id, asked[id]))
       \/ asked[id].sort = "Pset" /\ HandlePset(id, asked[id])

\* sdk_login, outside the loop: the host follows a venue's link and signs the
\* challenge the venue answers with.
SdkLogin(challenge) ==
    LET claim == [kind |-> "rf/login/v1", challenge |-> challenge] IN
    /\ signatures' = signatures \cup {VenueSig(login_digest(MyKey, challenge), claim)}
    /\ shown' = shown \cup {claim}
    /\ UNCHANGED <<stored, events, inputs, asked, sent>>

-----------------------------------------------------------------------------
(* The core                                                                *)

Queue(id, answer, sigs) ==
    /\ inputs' = Tail(inputs)
    /\ sent' = sent \cup {[id |-> id, op |-> answer, sigs |-> sigs]}
    /\ signatures' = signatures \cup sigs
    /\ UNCHANGED <<stored, events, asked, shown>>

Drop ==
    /\ inputs' = Tail(inputs)
    /\ UNCHANGED <<stored, events, asked, signatures, sent, shown>>

IdentitySig(id) == [key |-> "identity", digest |-> stored[id].digest, for |-> id]

\* A message is signed only while it is stored.
Gone(input) == asked[input.id].sort = "Message" /\ stored[input.id] = None

\* Fault: a stored login is accepted without the binding it wants.
UnboundAccepted(input) == FALSE

\* A login is accepted unless it is stored, wants a service key and none came with it.
Unbound(input) ==
    /\ stored[input.id] # None
    /\ stored[input.id].sort = "Login" /\ stored[input.id].challenge # None
    /\ input.sigs = {}

CoreHandles ==
    /\ inputs # <<>>
    /\ LET input == Head(inputs) IN
       \/ input.op = "Reject" /\ Queue(input.id, "Reject", {})
       \/ input.op = "Accept" /\ ~Gone(input) /\ Queue(input.id, "Accept", {IdentitySig(input.id)})
       \/ /\ input.op = "Signed" /\ ~Gone(input) /\ ~Unbound(input)
          /\ Queue(input.id, "Accept", input.sigs)
       \/ input.op # "Reject" /\ Gone(input) /\ Drop
       \/ input.op = "Signed" /\ Unbound(input) /\ Drop

-----------------------------------------------------------------------------

HostNext ==
    \/ \E id \in Ids :
            \/ \E request \in Requests : Ask(id, request)
            \/ Withdrawn(id)
    \/ HostHandles
    \/ \E t \in Texts : SdkLogin(t)
    \/ CoreHandles

HostSpec == HostInit /\ [][HostNext]_hostVars

-----------------------------------------------------------------------------
(* Properties                                                              *)

\* Every signature that reaches the relying party under an id verifies there: it is
\* over the digest that was asked under that very id, by the identity key if the
\* description was opaque and by the venue key if it was typed; and the identity
\* key never signs for a description that claims to be typed, well formed or not
\* ("the wallet must refuse, never fall back to opaque signing", venue.rs:648).
AnswersVerify ==
    \A a \in sent : (a.op = "Accept" /\ asked[a.id].sort = "Message") =>
        \A s \in a.sigs :
            /\ s.digest = asked[a.id].digest
            /\ s.key = (IF NotTyped(asked[a.id].description) THEN "identity" ELSE "venue")

\* A login that is accepted with a service key is bound to its own domain and
\* challenge, and one that wants a binding goes out without only if the server had
\* withdrawn it by the time the core handled the answer (core.rs:740-761).
LoginIsBound ==
    \A a \in sent : (a.op = "Accept" /\ asked[a.id].sort = "Login") =>
        LET r == asked[a.id] IN
        /\ \A s \in a.sigs :
              s.key = "venue" /\ s.digest = service_login_digest(MyKey, r.domain, r.challenge)
        /\ a.sigs = {} => r.challenge = None \/ stored[a.id] = None

\* What a verifier of a venue signature may conclude: the digest it checked, of an
\* order, a withdrawal, a login, a delegation, a service login at its own domain or
\* a spend, was made for that very meaning, which the host had on screen.  No two
\* meanings share a digest, whatever strings the relying party chose.
ShownIsSigned ==
    \A s \in signatures : s.key # "identity" =>
        /\ s.for \in shown
        /\ \A d \in Descriptions :
              (WellFormed(d) /\ s.digest \in typed_request_digest(d, MyKey)) => s.for = MeaningOf(d)
        /\ \A w \in Domains, t \in Texts :
              s.digest = service_login_digest(MyKey, w, t) => s.for = ServiceLogin(w, t)

\* The venue key grants nothing for an account other than this wallet's, and orders
\* nothing on a product this build does not trade.
OnlyMyAccount ==
    \A m \in shown :
        /\ m.kind = "rf/delegate/v1" => m.owner = MyKey /\ m.trade_pk # MyKey
        /\ m.kind \in {"rf/order/v1", "rf/order/v2"} => m.product = PRODUCT
        /\ m.kind = "rf/withdraw/v1" => m.script # None

\* A PSET goes back only if every input at this key's two scripts is then final with
\* a signature its script accepts, and it changed nothing else: no half-signed
\* transaction, none without a signature, none signed over missing prevouts.
SpendIsComplete ==
    \A a \in sent : (a.op = "Accept" /\ asked[a.id].sort = "Pset") =>
        LET in == asked[a.id].pset.inputs IN
        /\ a.sigs # {}
        /\ \A i \in DOMAIN in :
              /\ in[i].utxo # "absent"
              /\ (in[i].utxo \in {"raw", "tweaked"} /\ ~in[i].final) <=>
                    \E s \in a.sigs :
                        /\ s.digest = Sighash(asked[a.id].pset, i)
                        /\ s.key = (IF in[i].utxo = "raw" THEN "venue" ELSE "venue tweaked")

=============================================================================
