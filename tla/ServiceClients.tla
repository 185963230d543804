---------------------------- MODULE ServiceClients ----------------------------
(***************************************************************************)
(* The blocking HTTP clients: the identity API (identity.rs), the venue's  *)
(* SDK login (venue.rs) and payjoin (payjoin.rs).                          *)
(*                                                                         *)
(* A host calls them from any thread, so calls overlap.  An identity call  *)
(* or a venue login is two exchanges: fetch a single-use challenge, then   *)
(* post the operation signed over it.  A request may be delivered late,    *)
(* twice or never; after its timeout a call fails, and the server may      *)
(* still carry it out afterwards.  The servers are external, modelled from *)
(* what the clients and the comments expect of them.                       *)
(***************************************************************************)
EXTENDS Naturals, Sequences, FiniteSets

CONSTANTS
    Wallets,          \* identity keys that use the services
    ShortIds, short_wallet_id,  \* 40-bit ids: two keys may have the same
    Channels, Contacts,         \* where a contact is known from, and its address there
    Settings,         \* discoverability switches
    Codes,            \* link codes a venue's browser page shows
    Quotes,           \* what the payjoin server may quote
    NetworkFees,      \* network fees a fee is estimated for
    Precision,        \* significant bits of an f64: 53
    MaxU64,
    MaxCalls,         \* bound on calls
    None

ASSUME ShortIdAssumption == short_wallet_id \in [Wallets -> ShortIds]
ASSUME SettingAssumption == Settings \subseteq [by_contact_hash: BOOLEAN, by_handle: BOOLEAN]
ASSUME QuoteAssumption ==
    Quotes \subseteq [num: Nat, den: Nat \ {0}, fixed_fee: Nat, blinded: BOOLEAN, utxos: Nat]
ASSUME FeeAssumption == NetworkFees \subseteq Nat /\ {MaxU64, MaxCalls, Precision} \subseteq Nat
ASSUME ClientNoneAssumption ==
    /\ None \notin ShortIds \cup Codes \cup Wallets
    /\ None \notin Settings /\ None \notin {"Ok", "Err"}

VARIABLES
    calls,      \* every call made: its arguments, stage and outcome
    net,        \* requests and replies that may still be delivered
    issued,     \* the servers' outstanding challenges: <<wallet, nonce>>
    nonces,     \* nonces handed out
    bound,      \* short id -> the key the directory bound it to
    setting,    \* wallet -> its discoverability
    spent,      \* link codes used up
    (* History. *)
    executed,   \* calls carried out, in order, with what was carried out
    shows       \* wallet -> the short id its app shows

clientVars == <<calls, net, issued, nonces, bound, setting, spent, executed, shows>>
directory == <<bound, setting, spent, executed>>

-----------------------------------------------------------------------------
(* Operations                                                              *)

\* One of each kind: nothing signed, a part of the body signed (so are the two
\* confirmations, whose code is not), all of it signed (so are the handle, the
\* addresses and the orders), and the venue's login.  action_path gives every action
\* a route of its own, so a post's route is its action.
SignedOps == {"status", "contacts_save", "discoverability", "id", "sdk_login"}

\* identity_auth_message binds challenge, action and value.
sign_identity(wallet, challenge, action, value) ==
    [key |-> wallet, challenge |-> challenge, action |-> action, value |-> value]

\* set_discoverability: the text of the two switches.
Switches(s) == <<s.by_contact_hash, ":", s.by_handle>>

\* What each public method passes to `authed`: an action, the value to sign and the
\* body to post.  The channel of a contact is not signed.  sdk_login signs the
\* challenge only, and its link code is optional.
Arguments(wallet) ==
    [op: {"status"}, value: {None}, body: {None}]
    \cup {[op |-> "contacts_save", value |-> b.value, body |-> b] :
            b \in [channel: Channels, value: Contacts]}
    \cup {[op |-> "discoverability", value |-> Switches(s), body |-> s] : s \in Settings}
    \cup {[op |-> "id", value |-> short_wallet_id[wallet], body |-> short_wallet_id[wallet]]}
    \cup [op: {"sdk_login"}, value: {None}, body: Codes \cup {None}]

ClientInit ==
    /\ calls = <<>> /\ net = {} /\ issued = {} /\ nonces = 0
    /\ bound = [s \in ShortIds |-> None]
    /\ setting = [w \in Wallets |-> None]
    /\ spent = {} /\ executed = <<>>
    /\ shows = [w \in Wallets |-> None]

-----------------------------------------------------------------------------
(* A call                                                                  *)

\* `before`: the calls that had returned when this one was made.
NewCall(wallet, args, stage) ==
    /\ Len(calls) < MaxCalls
    /\ calls' = Append(calls, [wallet |-> wallet, op |-> args.op, value |-> args.value,
                               body |-> args.body, stage |-> stage, out |-> None,
                               before |-> {i \in DOMAIN calls : calls[i].stage = "returned"}])

\* authed, sdk_login: POST /challenge.
Call(wallet, args) ==
    /\ NewCall(wallet, args, "challenge")
    /\ net' = net \cup {[to |-> "challenge", call |-> Len(calls) + 1]}
    /\ UNCHANGED <<issued, nonces, directory, shows>>

\* The challenge arrives: sign it and post the operation.
Sign(reply) ==
    LET c == calls[reply.call] IN
    /\ reply.from = "challenge" /\ c.stage = "challenge"
    /\ calls' = [calls EXCEPT ![reply.call].stage = "posting"]
    /\ net' = (net \ {reply}) \cup
              {[to |-> "post", call |-> reply.call, op |-> c.op,
                body |-> c.body, challenge |-> reply.nonce,
                signature |-> sign_identity(c.wallet, reply.nonce, c.op, c.value)]}
    /\ UNCHANGED <<issued, nonces, directory, shows>>

\* Fault: claim_short_id falls back to the id it asked for.
ResultAnyId(c, reply) ==
    IF c.op = "id" THEN [out |-> "Ok", id |-> c.body]
    ELSE IF reply.ok THEN [out |-> "Ok", id |-> reply.id]
    ELSE [out |-> "Err", id |-> None]

\* What the method makes of the reply: a refusal, or an id that is missing from the
\* reply to its claim, is an error.
Result(c, reply) ==
    IF ~reply.ok \/ (c.op = "id" /\ reply.id = None)
    THEN [out |-> "Err", id |-> None]
    ELSE [out |-> "Ok", id |-> reply.id]

\* The method returns; the app shows a short id as soon as it is handed one.
Return(reply) ==
    LET c == calls[reply.call]
        r == Result(c, reply)
    IN
    /\ reply.from = "post" /\ c.stage = "posting"
    /\ calls' = [calls EXCEPT ![reply.call].stage = "returned", ![reply.call].out = r.out]
    /\ net' = net \ {reply}
    /\ shows' = IF r.id = None THEN shows ELSE [shows EXCEPT ![c.wallet] = r.id]
    /\ UNCHANGED <<issued, nonces, directory>>

\* Fault: a call that times out is posted again from the start.
TimeOutRetries(i) ==
    /\ calls[i].stage = "posting"
    /\ calls' = [calls EXCEPT ![i].stage = "challenge"]
    /\ net' = net \cup {[to |-> "challenge", call |-> i]}
    /\ UNCHANGED <<issued, nonces, directory, shows>>

\* 20 or 30 seconds without an answer, or one that is no JSON: the call fails, and
\* whatever it sent is still on its way.
TimeOut(i) ==
    /\ calls[i].stage # "returned"
    /\ calls' = [calls EXCEPT ![i].stage = "returned", ![i].out = "Err"]
    /\ UNCHANGED <<net, issued, nonces, directory, shows>>

\* A challenge is refused: the call fails without having posted anything.
ChallengeRefused(reply) ==
    /\ reply.from = "refusal" /\ calls[reply.call].stage = "challenge"
    /\ calls' = [calls EXCEPT ![reply.call].stage = "returned", ![reply.call].out = "Err"]
    /\ net' = net \ {reply}
    /\ UNCHANGED <<issued, nonces, directory, shows>>

-----------------------------------------------------------------------------
(* The servers (external)                                                  *)

\* The request may come a second time (a proxy's retry).
Delivered(m, reply) == \E rest \in {net, net \ {m}} : net' = rest \cup {reply}

GiveChallenge(m) ==
    /\ m.to = "challenge"
    /\ nonces < 2 * MaxCalls
    /\ nonces' = nonces + 1
    /\ issued' = issued \cup {<<calls[m.call].wallet, nonces + 1>>}
    /\ net' = (net \ {m}) \cup {[from |-> "challenge", call |-> m.call, nonce |-> nonces + 1]}
    /\ UNCHANGED <<calls, directory, shows>>

RefuseChallenge(m) ==
    /\ m.to = "challenge"
    /\ net' = (net \ {m}) \cup {[from |-> "refusal", call |-> m.call]}
    /\ UNCHANGED <<calls, issued, nonces, directory, shows>>

\* The value a server expects to be signed with a body.
SignedOf(op, body) ==
    CASE op \in {"status", "sdk_login"} -> None
      [] op = "contacts_save" -> body.value
      [] op = "discoverability" -> Switches(body)
      [] op = "id" -> body

Verified(m) ==
    /\ <<m.signature.key, m.challenge>> \in issued
    /\ m.signature.challenge = m.challenge
    /\ m.signature.action = m.op /\ m.signature.value = SignedOf(m.op, m.body)

\* First come for short ids, once for link codes, the last word for settings.
Allowed(m) ==
    LET w == m.signature.key IN
    /\ m.op = "id" =>
          m.body = short_wallet_id[w] /\ bound[m.body] \in {None, w}
    /\ m.op = "sdk_login" => m.body \notin spent

ReplyTo(m, ok, id) == [from |-> "post", call |-> m.call, ok |-> ok, id |-> id]

Execute(m) ==
    LET w == m.signature.key
        mine == short_wallet_id[w]
    IN
    /\ m.to = "post" /\ Verified(m) /\ Allowed(m)
    /\ issued' = issued \ {<<w, m.challenge>>}
    /\ executed' = Append(executed, [call |-> m.call, wallet |-> w, op |-> m.op, body |-> m.body])
    /\ bound' = IF m.op = "id" THEN [bound EXCEPT ![m.body] = w] ELSE bound
    /\ setting' = IF m.op = "discoverability" THEN [setting EXCEPT ![w] = m.body] ELSE setting
    /\ spent' = IF m.op = "sdk_login" THEN spent \cup ({m.body} \ {None}) ELSE spent
    /\ Delivered(m, ReplyTo(m, TRUE, IF m.op = "id" THEN m.body
                                     ELSE IF m.op = "status" /\ bound[mine] = w THEN mine ELSE None))
    /\ UNCHANGED <<calls, nonces, shows>>

Refuse(m) ==
    /\ m.to = "post" /\ ~(Verified(m) /\ Allowed(m))
    /\ issued' = issued \ {<<m.signature.key, m.challenge>>}
    /\ net' = (net \ {m}) \cup {ReplyTo(m, FALSE, None)}
    /\ UNCHANGED <<calls, nonces, directory, shows>>

-----------------------------------------------------------------------------
(* Payjoin                                                                 *)

\* An integer as an f64: the nearest with so many significant bits, the even one of two.
f64(n) ==
    LET e == CHOOSE e \in 0..n : /\ n \div 2^e < 2^Precision
                                 /\ e = 0 \/ n \div 2^(e - 1) >= 2^Precision
        mantissa == n \div 2^e
        rest == n % 2^e
        up == 2 * rest > 2^e \/ (2 * rest = 2^e /\ mantissa % 2 = 1)
    IN  (IF up THEN mantissa + 1 ELSE mantissa) * 2^e

\* A price num / den that is an f64.
ASSUME PriceAssumption ==
    \A q \in Quotes : f64(q.num) = q.num /\ \E e \in 0..q.den : q.den = 2^e

\* estimate_service_fee: the fee becomes an f64, the product is rounded to one, and is
\* truncated, and saturates, on its way to u64; the sum wraps.
estimate_service_fee(fee, q) ==
    LET rate == f64(f64(fee) * q.num) \div q.den IN
    ((IF rate > MaxU64 THEN MaxU64 ELSE rate) + q.fixed_fee) % (MaxU64 + 1)

\* `start`: what the client accepts of a quote.
QuoteOk(q) == q.blinded /\ q.utxos > 0

\* start, sign and accepted_assets are one exchange each and keep nothing; only the
\* quote matters.  The call may as well time out.
Payjoin(wallet, q) ==
    /\ Len(calls) < MaxCalls
    /\ calls' = Append(calls, [wallet |-> wallet, op |-> "start", value |-> None,
                               body |-> q, stage |-> "returned",
                               out |-> IF QuoteOk(q) THEN "Ok" ELSE "Err",
                               before |-> {}])
    /\ UNCHANGED <<net, issued, nonces, directory, shows>>

-----------------------------------------------------------------------------

Requests == {m \in net : "to" \in DOMAIN m}
Replies == net \ Requests

ClientNext ==
    \/ \E w \in Wallets :
            \/ \E a \in Arguments(w) : Call(w, a)
            \/ \E q \in Quotes : Payjoin(w, q)
    \/ \E m \in Requests : GiveChallenge(m) \/ RefuseChallenge(m) \/ Execute(m) \/ Refuse(m)
    \/ \E r \in Replies : Sign(r) \/ Return(r) \/ ChallengeRefused(r)
    \/ \E i \in DOMAIN calls : TimeOut(i)

ClientSpec == ClientInit /\ [][ClientNext]_clientVars

-----------------------------------------------------------------------------
(* Properties                                                              *)

Executions(i) == {n \in DOMAIN executed : executed[n].call = i}

\* A call that returned Ok was carried out exactly once, as the operation and with
\* the body the host asked for; one that failed at most once, and under nobody
\* else's key: overlapping calls never take each other's challenge, and a request
\* that is delivered again is not carried out again.
OkMeansDone ==
    \A i \in DOMAIN calls : calls[i].op # "start" =>
        /\ Cardinality(Executions(i)) <= 1
        /\ calls[i].out = "Ok" => Executions(i) # {}
        /\ \A n \in Executions(i) :
              /\ executed[n].wallet = calls[i].wallet
              /\ executed[n].op = calls[i].op /\ executed[n].body = calls[i].body

\* The app shows only an id that the directory has bound to its own key, though the
\* claim's reply may be lost, the claim repeated, and another key have the same id.
ShownIdIsMine ==
    \A w \in Wallets : shows[w] # None => shows[w] = short_wallet_id[w] /\ bound[shows[w]] = w

\* The directory's setting is that of a call which no later confirmed call replaced,
\* or of one that the client gave up on: a timed-out request may overtake a later,
\* confirmed one, and nothing else can.
Superseded(i) ==
    /\ calls[i].out = "Ok"
    /\ \E j \in DOMAIN calls :
          /\ calls[j].op = "discoverability" /\ calls[j].wallet = calls[i].wallet
          /\ calls[j].out = "Ok" /\ i \in calls[j].before
SettingIsLatest ==
    \A w \in Wallets :
        LET sets == {i \in DOMAIN calls : calls[i].op = "discoverability" /\ calls[i].wallet = w} IN
        IF setting[w] = None THEN \A i \in sets : calls[i].out # "Ok"
        ELSE \E i \in sets : calls[i].body = setting[w] /\ Executions(i) # {} /\ ~Superseded(i)

\* The fee estimated for an accepted quote is at least
\* ceil(network_fee * price) + fixed_fee, as payjoin.rs:24-26 and 120 say of
\* estimate_service_fee ("the minimum the server accepts").
MinimumFee(fee, q) == (fee * q.num + q.den - 1) \div q.den + q.fixed_fee
FeeCoversMinimum ==
    \A i \in DOMAIN calls : (calls[i].op = "start" /\ calls[i].out = "Ok") =>
        \A fee \in NetworkFees :
            MinimumFee(fee, calls[i].body) <= MaxU64 =>
                estimate_service_fee(fee, calls[i].body) >= MinimumFee(fee, calls[i].body)

=============================================================================
