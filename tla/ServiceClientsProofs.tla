------------------------- MODULE ServiceClientsProofs -------------------------
(***************************************************************************)
(* Theorems about ServiceClients, for any number of wallets, calls, codes  *)
(* and settings, and any loss, delay and repetition of requests.           *)
(***************************************************************************)
EXTENDS ServiceClients, FiniteSetTheorems, TLAPS

-----------------------------------------------------------------------------
(* Messages                                                                *)

Bodies ==
    Settings \cup ShortIds \cup Codes \cup Quotes \cup {None}
    \cup [channel: Channels, value: Contacts]
Values == Contacts \cup ShortIds \cup {Switches(s) : s \in Settings} \cup {None}

ChallengeRequest == [to: {"challenge"}, call: Nat]
Post ==
    [to: {"post"}, call: Nat, op: SignedOps, body: Bodies, challenge: Nat,
     signature: [key: Wallets, challenge: Nat, action: SignedOps, value: Values]]
ChallengeReply == [from: {"challenge"}, call: Nat, nonce: Nat]
Refusal == [from: {"refusal"}, call: Nat]
PostReply == [from: {"post"}, call: Nat, ok: BOOLEAN, id: ShortIds \cup {None}]

Asking == ChallengeRequest \cup Post
Answering == ChallengeReply \cup Refusal \cup PostReply

\* What a request's `to` says it is.
LEMMA AskingKinds ==
    ASSUME NEW m \in Asking
    PROVE  /\ "to" \in DOMAIN m /\ m \notin Answering
           /\ m.to = "challenge" => m \in ChallengeRequest /\ m \notin Post
           /\ m.to = "post" => m \in Post /\ m \notin ChallengeRequest
<1>1. CASE m \in ChallengeRequest
  <2>1. DOMAIN m = {"to", "call"} /\ m.to = "challenge"
    BY <1>1 DEF ChallengeRequest
  <2>2. m \notin Answering
    <3>1. \A x \in Answering : "from" \in DOMAIN x
      BY DEF Answering, ChallengeReply, Refusal, PostReply
    <3> QED BY <2>1, <3>1
  <2>3. m \notin Post
    <3>1. \A x \in Post : x.to = "post"
      BY DEF Post
    <3> QED BY <2>1, <3>1
  <2> QED BY <1>1, <2>1, <2>2, <2>3
<1>2. CASE m \in Post
  <2>1. DOMAIN m = {"to", "call", "op", "body", "challenge", "signature"} /\ m.to = "post"
    BY <1>2 DEF Post
  <2>2. m \notin Answering
    <3>1. \A x \in Answering : "from" \in DOMAIN x
      BY DEF Answering, ChallengeReply, Refusal, PostReply
    <3> QED BY <2>1, <3>1
  <2>3. m \notin ChallengeRequest
    <3>1. \A x \in ChallengeRequest : x.to = "challenge"
      BY DEF ChallengeRequest
    <3> QED BY <2>1, <3>1
  <2> QED BY <1>2, <2>1, <2>2, <2>3
<1> QED BY <1>1, <1>2 DEF Asking

\* What an answer's `from` says it is.
LEMMA AnsweringKinds ==
    ASSUME NEW m \in Answering
    PROVE  /\ "to" \notin DOMAIN m /\ m \notin Asking
           /\ m.from = "challenge" => m \in ChallengeReply /\ m \notin Refusal \cup PostReply
           /\ m.from = "refusal" => m \in Refusal /\ m \notin ChallengeReply \cup PostReply
           /\ m.from = "post" => m \in PostReply /\ m \notin ChallengeReply \cup Refusal
<1>1. \A x \in ChallengeReply : DOMAIN x = {"from", "call", "nonce"} /\ x.from = "challenge"
  BY DEF ChallengeReply
<1>2. \A x \in Refusal : DOMAIN x = {"from", "call"} /\ x.from = "refusal"
  BY DEF Refusal
<1>3. \A x \in PostReply : DOMAIN x = {"from", "call", "ok", "id"} /\ x.from = "post"
  BY DEF PostReply
<1>4. "to" \notin DOMAIN m
  BY <1>1, <1>2, <1>3 DEF Answering
<1>5. m \notin Asking
  BY <1>4, AskingKinds
<1> QED BY <1>1, <1>2, <1>3, <1>4, <1>5 DEF Answering

-----------------------------------------------------------------------------
(* The inductive invariant                                                 *)

CallRecord ==
    [wallet: Wallets, op: SignedOps \cup {"start"}, value: Values, body: Bodies,
     stage: {"challenge", "posting", "returned"}, out: {None, "Ok", "Err"}, before: SUBSET Nat]
Execution == [call: Nat, wallet: Wallets, op: SignedOps, body: Bodies]

TypeInv ==
    /\ calls \in Seq(CallRecord)
    /\ net \subseteq Asking \cup Answering
    /\ issued \subseteq Wallets \X Nat
    /\ nonces \in Nat
    /\ bound \in [ShortIds -> Wallets \cup {None}]
    /\ setting \in [Wallets -> Settings \cup {None}]
    /\ spent \subseteq Codes
    /\ executed \in Seq(Execution)
    /\ shows \in [Wallets -> ShortIds \cup {None}]

\* A call's arguments are those of its method, and only a call that has returned
\* has an outcome.  A payjoin `start` is over at once.
CallOK(i) ==
    LET c == calls[i] IN
    /\ c.op # "start" => [op |-> c.op, value |-> c.value, body |-> c.body] \in Arguments(c.wallet)
    /\ c.op = "start" => /\ c.body \in Quotes /\ c.stage = "returned"
                         /\ c.out = "Ok" => QuoteOk(c.body)
    /\ c.stage # "returned" => c.out = None
    /\ \A k \in c.before : k < i /\ k \in DOMAIN calls /\ calls[k].stage = "returned"
CallsInv == \A i \in DOMAIN calls : CallOK(i)

Done(i) == \E n \in DOMAIN executed : executed[n].call = i

\* Nothing is in flight for a call that was not made.
NetInv == \A m \in net : m.call \in DOMAIN calls /\ calls[m.call].op # "start"

\* A post says one thing: it is signed over what it asks for.
PostInv ==
    \A m \in net \cap Post :
        LET c == calls[m.call] IN
        /\ m.op = c.op /\ m.body = c.body
        /\ m.challenge <= nonces
        /\ m.signature = sign_identity(c.wallet, m.challenge, c.op, c.value)

\* A call asks for one challenge, signs it once, and a challenge that was used is
\* no longer good: a call is in one of four phases.
PhaseInv ==
    /\ \A m \in net \cap ChallengeRequest :
          ~Done(m.call) /\ \A x \in net \cap (ChallengeReply \cup Post) : x.call # m.call
    /\ \A r \in net \cap ChallengeReply :
          /\ r.nonce <= nonces /\ ~Done(r.call)
          /\ \A x \in net \cap Post : x.call # r.call
          /\ \A x \in net \cap ChallengeReply : x.call = r.call => x = r
    /\ \A m, x \in net \cap Post : x.call = m.call => x = m
    /\ \A m \in net \cap Post : Done(m.call) => <<m.signature.key, m.challenge>> \notin issued

\* What was carried out was asked for, once.
ExecutedInv ==
    /\ \A n \in DOMAIN executed :
          LET e == executed[n] IN
          /\ e.call \in DOMAIN calls
          /\ e.wallet = calls[e.call].wallet /\ e.op = calls[e.call].op
          /\ e.body = calls[e.call].body
    /\ \A n, k \in DOMAIN executed : executed[n].call = executed[k].call => n = k

\* A positive answer was earned, and an id in one is the asker's own.
AnswerInv ==
    /\ \A r \in net \cap PostReply :
          /\ r.ok => Done(r.call)
          /\ r.id # None => LET w == calls[r.call].wallet IN
                            r.id = short_wallet_id[w] /\ bound[r.id] = w
    /\ \A i \in DOMAIN calls : calls[i].op # "start" /\ calls[i].out = "Ok" => Done(i)

\* Calls that follow each other were carried out in that order.
OrderInv ==
    \A j \in DOMAIN calls : \A i \in calls[j].before :
        (calls[i].op # "start" /\ calls[i].out = "Ok") =>
            \A n, k \in DOMAIN executed :
                (executed[n].call = i /\ executed[k].call = j) => n < k

\* A wallet's setting is the one that was carried out last.
Sets(n, w) == executed[n].op = "discoverability" /\ executed[n].wallet = w
SettingInv ==
    \A w \in Wallets :
        IF setting[w] = None THEN \A n \in DOMAIN executed : ~Sets(n, w)
        ELSE \E n \in DOMAIN executed :
                /\ Sets(n, w) /\ executed[n].body = setting[w]
                /\ \A k \in DOMAIN executed : Sets(k, w) => k <= n

ClientInv ==
    /\ TypeInv /\ CallsInv /\ NetInv /\ PostInv /\ PhaseInv /\ ExecutedInv /\ AnswerInv
    /\ OrderInv /\ SettingInv /\ ShownIdIsMine

-----------------------------------------------------------------------------
(* The servers' steps                                                      *)

\* A request of either kind.
LEMMA RequestKinds ==
    ASSUME TypeInv, NEW m \in Requests
    PROVE  /\ m \in net
           /\ m.to = "challenge" => m \in ChallengeRequest
           /\ m.to = "post" => m \in Post
BY AskingKinds, AnsweringKinds DEF TypeInv, Requests

\* A reply of each kind.
LEMMA ReplyKinds ==
    ASSUME TypeInv, NEW r \in Replies
    PROVE  /\ r \in net
           /\ r.from = "challenge" => r \in ChallengeReply
           /\ r.from = "refusal" => r \in Refusal
           /\ r.from = "post" => r \in PostReply
BY AskingKinds, AnsweringKinds DEF TypeInv, Requests, Replies

\* The fields of a call.
LEMMA CallType ==
    ASSUME TypeInv, NEW i \in DOMAIN calls
    PROVE  /\ i \in Nat \ {0} /\ calls[i] \in CallRecord
           /\ calls[i].wallet \in Wallets /\ calls[i].op \in SignedOps \cup {"start"}
           /\ calls[i].value \in Values /\ calls[i].body \in Bodies
           /\ calls[i].before \subseteq Nat
<1>1. i \in Nat \ {0} /\ calls[i] \in CallRecord
  BY DEF TypeInv
<1> QED BY <1>1 DEF CallRecord

\* GiveChallenge preserves the invariant: the nonce is new, and the call's request
\* for one is gone.
LEMMA GiveChallengeStep ==
    ASSUME ClientInv, NEW m \in Requests, GiveChallenge(m)
    PROVE  ClientInv'
<1> DEFINE reply == [from |-> "challenge", call |-> m.call, nonce |-> nonces + 1]
<1> USE DEF ClientInv
<1>1. m \in net /\ m \in ChallengeRequest
  BY RequestKinds DEF GiveChallenge
<1>2. m.call \in Nat /\ m.call \in DOMAIN calls /\ calls[m.call].op # "start"
  BY <1>1 DEF NetInv, ChallengeRequest
<1>3. reply \in ChallengeReply /\ reply \in Answering
  BY <1>2 DEF ChallengeReply, Answering, TypeInv
<1>4. reply \notin Asking /\ reply \notin Refusal \cup PostReply
  BY <1>3, AnsweringKinds
<1>5. /\ net' = (net \ {m}) \cup {reply} /\ nonces' = nonces + 1
      /\ issued' = issued \cup {<<calls[m.call].wallet, nonces + 1>>}
      /\ UNCHANGED <<calls, bound, setting, spent, executed, shows>>
  BY DEF GiveChallenge, directory
<1>6. calls[m.call].wallet \in Wallets
  BY <1>2, CallType
<1> HIDE DEF reply
<1>7. TypeInv'
  BY <1>3, <1>5, <1>6 DEF TypeInv
<1>8. CallsInv' /\ ExecutedInv' /\ OrderInv' /\ SettingInv' /\ ShownIdIsMine'
  BY <1>5 DEF CallsInv, CallOK, ExecutedInv, OrderInv, SettingInv, Sets, ShownIdIsMine
<1>9. reply.call = m.call /\ reply.nonce = nonces + 1
  BY DEF reply
<1>10. NetInv'
  BY <1>2, <1>5, <1>9 DEF NetInv
<1>11. net' \cap Post \subseteq net \cap Post
  BY <1>4, <1>5 DEF Asking
<1>12. \A x \in Post : x.challenge \in Nat
  BY DEF Post
<1>13. PostInv'
  BY <1>5, <1>11, <1>12 DEF PostInv, TypeInv
<1>14. /\ net' \cap ChallengeRequest \subseteq net \cap ChallengeRequest
       /\ net' \cap PostReply \subseteq net \cap PostReply
       /\ net' \cap ChallengeReply = (net \cap ChallengeReply) \cup {reply}
  BY <1>1, <1>3, <1>4, <1>5, AskingKinds DEF Asking, Answering
<1>15. AnswerInv'
  BY <1>5, <1>14 DEF AnswerInv, Done
<1>16. PhaseInv'
  <2>1. \A x \in net' \cap ChallengeRequest :
          ~Done(x.call)' /\ \A y \in net' \cap (ChallengeReply \cup Post) : y.call # x.call
    <3> TAKE x \in net' \cap ChallengeRequest
    <3>1. x.call # m.call
      <4>1. x # m
        BY <1>3, <1>4, <1>5 DEF Asking
      <4>2. x \in ChallengeRequest /\ m \in ChallengeRequest
        BY <1>1
      <4> QED BY <4>1, <4>2 DEF ChallengeRequest
    <3> QED BY <3>1, <1>5, <1>9, <1>11, <1>14 DEF PhaseInv, Done
  <2>2. \A r \in net' \cap ChallengeReply :
          /\ r.nonce <= nonces' /\ ~Done(r.call)'
          /\ \A x \in net' \cap Post : x.call # r.call
          /\ \A x \in net' \cap ChallengeReply : x.call = r.call => x = r
    <3>1. \A r \in net \cap ChallengeReply : r.nonce \in Nat /\ r.call # m.call
      BY <1>1 DEF PhaseInv, ChallengeReply
    <3>2. ~Done(m.call) /\ \A x \in net \cap Post : x.call # m.call
      BY <1>1 DEF PhaseInv
    <3> QED BY <3>1, <3>2, <1>5, <1>9, <1>11, <1>14 DEF PhaseInv, Done, TypeInv
  <2>3. /\ \A y, x \in net' \cap Post : x.call = y.call => x = y
        /\ \A x \in net' \cap Post : Done(x.call)' => <<x.signature.key, x.challenge>> \notin issued'
    BY <1>5, <1>11, <1>12 DEF PhaseInv, PostInv, Done, TypeInv
  <2> QED BY <2>1, <2>2, <2>3 DEF PhaseInv, Done
<1> QED BY <1>7, <1>8, <1>10, <1>13, <1>15, <1>16

\* A request that is turned down: the answer promises nothing.
LEMMA TurnedDown ==
    ASSUME ClientInv, NEW m \in net, NEW x \in Refusal \cup PostReply,
           x.call = m.call, x \in PostReply => ~x.ok /\ x.id = None,
           net' = (net \ {m}) \cup {x}, issued' \subseteq issued,
           UNCHANGED <<calls, nonces, directory, shows>>
    PROVE  ClientInv'
<1> USE DEF ClientInv
<1>1. UNCHANGED <<calls, nonces, bound, setting, spent, executed, shows>>
  BY DEF directory
<1>2. x \in Answering /\ x \notin Asking /\ x \notin ChallengeReply
  BY AnsweringKinds DEF Answering, Refusal, PostReply
<1>3. TypeInv'
  BY <1>1, <1>2 DEF TypeInv
<1>4. CallsInv' /\ ExecutedInv' /\ OrderInv' /\ SettingInv' /\ ShownIdIsMine'
  BY <1>1 DEF CallsInv, CallOK, ExecutedInv, OrderInv, SettingInv, Sets, ShownIdIsMine
<1>5. NetInv'
  BY <1>1 DEF NetInv
<1>6. /\ net' \cap Post \subseteq net \cap Post
      /\ net' \cap ChallengeRequest \subseteq net \cap ChallengeRequest
      /\ net' \cap ChallengeReply \subseteq net \cap ChallengeReply
      /\ net' \cap PostReply \subseteq (net \cap PostReply) \cup {x}
  BY <1>2 DEF Asking
<1>7. PostInv'
  BY <1>1, <1>6 DEF PostInv
<1>8. AnswerInv'
  BY <1>1, <1>6 DEF AnswerInv, Done
<1>9. PhaseInv'
  <2>1. \A i : Done(i)' <=> Done(i)
    BY <1>1 DEF Done
  <2>2. \A y \in net' \cap ChallengeRequest :
          ~Done(y.call) /\ \A z \in net' \cap (ChallengeReply \cup Post) : z.call # y.call
    BY <1>6 DEF PhaseInv
  <2>3. \A r \in net' \cap ChallengeReply :
          /\ r.nonce <= nonces /\ ~Done(r.call)
          /\ \A y \in net' \cap Post : y.call # r.call
          /\ \A y \in net' \cap ChallengeReply : y.call = r.call => y = r
    BY <1>6 DEF PhaseInv
  <2>4. /\ \A y, z \in net' \cap Post : z.call = y.call => z = y
        /\ \A y \in net' \cap Post : Done(y.call) => <<y.signature.key, y.challenge>> \notin issued'
    BY <1>6 DEF PhaseInv
  <2> QED BY <1>1, <2>1, <2>2, <2>3, <2>4 DEF PhaseInv
<1> QED BY <1>3, <1>4, <1>5, <1>7, <1>8, <1>9

\* RefuseChallenge preserves the invariant.
LEMMA RefuseChallengeStep ==
    ASSUME ClientInv, NEW m \in Requests, RefuseChallenge(m)
    PROVE  ClientInv'
<1> DEFINE x == [from |-> "refusal", call |-> m.call]
<1>1. m \in net /\ m \in ChallengeRequest
  BY RequestKinds DEF RefuseChallenge, ClientInv
<1>2. x \in Refusal
  BY <1>1 DEF Refusal, ChallengeRequest
<1>3. x \notin PostReply
  BY <1>2, AnsweringKinds DEF Answering, Refusal
<1>4. x.call = m.call
  OBVIOUS
<1>5. /\ net' = (net \ {m}) \cup {x} /\ issued' = issued
      /\ UNCHANGED <<calls, nonces, directory, shows>>
  BY DEF RefuseChallenge
<1> HIDE DEF x
<1> QED BY <1>1, <1>2, <1>3, <1>4, <1>5, TurnedDown

\* Refuse preserves the invariant.
LEMMA RefuseStep ==
    ASSUME ClientInv, NEW m \in Requests, Refuse(m)
    PROVE  ClientInv'
<1> DEFINE x == ReplyTo(m, FALSE, None)
<1>1. m \in net /\ m \in Post
  BY RequestKinds DEF Refuse, ClientInv
<1>2. x \in PostReply
  BY <1>1 DEF PostReply, ReplyTo, Post
<1>3. x.call = m.call /\ x.ok = FALSE /\ x.id = None
  BY DEF ReplyTo
<1>4. /\ net' = (net \ {m}) \cup {x} /\ issued' \subseteq issued
      /\ UNCHANGED <<calls, nonces, directory, shows>>
  BY DEF Refuse
<1> HIDE DEF x
<1> QED BY <1>1, <1>2, <1>3, <1>4, TurnedDown

-----------------------------------------------------------------------------
(* The client's steps                                                      *)

\* A call that moves on keeps its arguments.
LEMMA CallEdit ==
    ASSUME TypeInv, NEW i \in DOMAIN calls,
           NEW st \in {"posting", "returned"}, NEW o \in {None, "Ok", "Err"},
           \/ calls' = [calls EXCEPT ![i].stage = st, ![i].out = o]
           \/ calls' = [calls EXCEPT ![i].stage = st] /\ o = calls[i].out
    PROVE  /\ calls' \in Seq(CallRecord) /\ DOMAIN calls' = DOMAIN calls
           /\ calls'[i].stage = st /\ calls'[i].out = o
           /\ \A k \in DOMAIN calls :
                /\ calls'[k].wallet = calls[k].wallet /\ calls'[k].op = calls[k].op
                /\ calls'[k].value = calls[k].value
                /\ calls'[k].body = calls[k].body /\ calls'[k].before = calls[k].before
                /\ k # i => calls'[k] = calls[k]
<1>1. calls \in Seq(CallRecord) /\ calls[i] \in CallRecord
  BY CallType DEF TypeInv
<1>2. PICK c \in CallRecord :
        /\ c.wallet = calls[i].wallet /\ c.op = calls[i].op /\ c.value = calls[i].value
        /\ c.body = calls[i].body
        /\ c.before = calls[i].before /\ c.stage = st /\ c.out = o
        /\ calls' = [calls EXCEPT ![i] = c]
  <2>1. CASE calls' = [calls EXCEPT ![i].stage = st, ![i].out = o]
    <3> DEFINE c == [calls[i] EXCEPT !.stage = st, !.out = o]
    <3>1. c \in CallRecord
      BY <1>1 DEF CallRecord
    <3>2. /\ c.wallet = calls[i].wallet /\ c.op = calls[i].op /\ c.value = calls[i].value
          /\ c.body = calls[i].body
          /\ c.before = calls[i].before /\ c.stage = st /\ c.out = o
      BY <1>1 DEF CallRecord
    <3>3. calls' = [calls EXCEPT ![i] = c]
      BY <2>1
    <3> QED BY <3>1, <3>2, <3>3
  <2>2. CASE calls' = [calls EXCEPT ![i].stage = st] /\ o = calls[i].out
    <3> DEFINE c == [calls[i] EXCEPT !.stage = st]
    <3>1. c \in CallRecord
      BY <1>1 DEF CallRecord
    <3>2. /\ c.wallet = calls[i].wallet /\ c.op = calls[i].op /\ c.value = calls[i].value
          /\ c.body = calls[i].body
          /\ c.before = calls[i].before /\ c.stage = st /\ c.out = o
      BY <1>1, <2>2 DEF CallRecord
    <3>3. calls' = [calls EXCEPT ![i] = c]
      BY <2>2
    <3> QED BY <3>1, <3>2, <3>3
  <2> QED BY <2>1, <2>2
<1>3. calls' \in Seq(CallRecord) /\ DOMAIN calls' = DOMAIN calls
  BY <1>1, <1>2
<1>4. calls'[i] = c /\ \A k \in DOMAIN calls : k # i => calls'[k] = calls[k]
  BY <1>1, <1>2
<1> QED BY <1>2, <1>3, <1>4

\* A call that moves on, with an outcome it has earned: what the directory knows is
\* not touched.
LEMMA MoveOn ==
    ASSUME ClientInv, NEW i \in DOMAIN calls, calls[i].stage # "returned",
           NEW st \in {"posting", "returned"}, NEW o \in {None, "Ok", "Err"},
           \/ calls' = [calls EXCEPT ![i].stage = st, ![i].out = o]
           \/ calls' = [calls EXCEPT ![i].stage = st] /\ o = calls[i].out,
           o = "Ok" => Done(i), st # "returned" => o = None,
           UNCHANGED <<bound, executed, setting>>
    PROVE  /\ calls' \in Seq(CallRecord) /\ DOMAIN calls' = DOMAIN calls
           /\ \A k \in DOMAIN calls :
                /\ calls'[k].wallet = calls[k].wallet /\ calls'[k].op = calls[k].op
                /\ calls'[k].value = calls[k].value /\ calls'[k].body = calls[k].body
           /\ CallsInv' /\ ExecutedInv' /\ OrderInv' /\ SettingInv'
           /\ \A k \in DOMAIN calls' : calls'[k].op # "start" /\ calls'[k].out = "Ok" => Done(k)'
<1> USE DEF ClientInv
<1>1. /\ calls' \in Seq(CallRecord) /\ DOMAIN calls' = DOMAIN calls
      /\ calls'[i].stage = st /\ calls'[i].out = o
      /\ \A k \in DOMAIN calls :
           /\ calls'[k].wallet = calls[k].wallet /\ calls'[k].op = calls[k].op
           /\ calls'[k].value = calls[k].value
           /\ calls'[k].body = calls[k].body /\ calls'[k].before = calls[k].before
           /\ k # i => calls'[k] = calls[k]
  BY CallEdit
<1>2. CallsInv'
  <2> SUFFICES ASSUME NEW j \in DOMAIN calls PROVE CallOK(j)'
    BY <1>1 DEF CallsInv
  <2>1. CallOK(j) /\ CallOK(i)
    BY DEF CallsInv
  <2>2. \A k \in calls'[j].before :
          k < j /\ k \in DOMAIN calls' /\ calls'[k].stage = "returned"
    BY <1>1, <2>1 DEF CallOK
  <2>3. CASE j = i
    BY <1>1, <2>1, <2>2, <2>3 DEF CallOK
  <2>4. CASE j # i
    BY <1>1, <2>1, <2>2, <2>4 DEF CallOK
  <2> QED BY <2>3, <2>4
<1>3. ExecutedInv' /\ SettingInv'
  BY <1>1 DEF ExecutedInv, SettingInv, Sets
<1>4. OrderInv'
  <2> SUFFICES ASSUME NEW j \in DOMAIN calls, NEW k \in calls[j].before,
                      calls'[k].op # "start", calls'[k].out = "Ok"
               PROVE  \A a, b \in DOMAIN executed :
                         (executed[a].call = k /\ executed[b].call = j) => a < b
    BY <1>1 DEF OrderInv
  <2>1. k \in DOMAIN calls /\ calls[k].stage = "returned"
    BY DEF CallsInv, CallOK
  <2> QED BY <1>1, <2>1 DEF OrderInv
<1>5. \A k \in DOMAIN calls' : calls'[k].op # "start" /\ calls'[k].out = "Ok" => Done(k)'
  BY <1>1 DEF AnswerInv, Done
<1> QED BY <1>1, <1>2, <1>3, <1>4, <1>5

\* What is in flight stays in order while a call moves on, if nothing is added.
LEMMA NetShrinks ==
    ASSUME ClientInv, net' \subseteq net, DOMAIN calls' = DOMAIN calls,
           \A k \in DOMAIN calls :
                /\ calls'[k].wallet = calls[k].wallet /\ calls'[k].op = calls[k].op
                /\ calls'[k].value = calls[k].value /\ calls'[k].body = calls[k].body,
           UNCHANGED <<issued, nonces, bound, executed>>
    PROVE  /\ NetInv' /\ PostInv' /\ PhaseInv'
           /\ \A r \in net' \cap PostReply :
                /\ r.ok => Done(r.call)'
                /\ r.id # None => LET w == calls'[r.call].wallet IN
                                  r.id = short_wallet_id[w] /\ bound'[r.id] = w
<1> USE DEF ClientInv
<1>1. NetInv'
  BY DEF NetInv
<1>2. PostInv'
  BY DEF PostInv, NetInv
<1>3. \A i : Done(i)' <=> Done(i)
  BY DEF Done
<1>4. PhaseInv'
  <2>1. \A y \in net' \cap ChallengeRequest :
          ~Done(y.call) /\ \A z \in net' \cap (ChallengeReply \cup Post) : z.call # y.call
    BY DEF PhaseInv
  <2>2. \A r \in net' \cap ChallengeReply :
          /\ r.nonce <= nonces /\ ~Done(r.call)
          /\ \A y \in net' \cap Post : y.call # r.call
          /\ \A y \in net' \cap ChallengeReply : y.call = r.call => y = r
    BY DEF PhaseInv
  <2>3. /\ \A y, z \in net' \cap Post : z.call = y.call => z = y
        /\ \A y \in net' \cap Post : Done(y.call) => <<y.signature.key, y.challenge>> \notin issued'
    BY DEF PhaseInv
  <2> QED BY <1>3, <2>1, <2>2, <2>3 DEF PhaseInv
<1>5. \A r \in net' \cap PostReply :
        /\ r.ok => Done(r.call)'
        /\ r.id # None => LET w == calls'[r.call].wallet IN
                          r.id = short_wallet_id[w] /\ bound'[r.id] = w
  BY <1>3 DEF AnswerInv, NetInv
<1> QED BY <1>1, <1>2, <1>4, <1>5

\* TimeOut preserves the invariant: what the call sent is still on its way.
LEMMA TimeOutStep ==
    ASSUME ClientInv, NEW i \in DOMAIN calls, TimeOut(i)
    PROVE  ClientInv'
<1>1. /\ calls[i].stage # "returned"
      /\ calls' = [calls EXCEPT ![i].stage = "returned", ![i].out = "Err"]
      /\ UNCHANGED <<net, issued, nonces, bound, setting, spent, executed, shows>>
  BY DEF TimeOut, directory
<1>2. /\ calls' \in Seq(CallRecord) /\ DOMAIN calls' = DOMAIN calls
      /\ \A k \in DOMAIN calls :
            /\ calls'[k].wallet = calls[k].wallet /\ calls'[k].op = calls[k].op
            /\ calls'[k].value = calls[k].value /\ calls'[k].body = calls[k].body
      /\ CallsInv' /\ ExecutedInv' /\ OrderInv' /\ SettingInv'
      /\ \A k \in DOMAIN calls' : calls'[k].op # "start" /\ calls'[k].out = "Ok" => Done(k)'
  BY <1>1, MoveOn
<1>3. /\ NetInv' /\ PostInv' /\ PhaseInv'
      /\ \A r \in net' \cap PostReply :
            /\ r.ok => Done(r.call)'
            /\ r.id # None => LET w == calls'[r.call].wallet IN
                              r.id = short_wallet_id[w] /\ bound'[r.id] = w
  BY <1>1, <1>2, NetShrinks
<1>4. AnswerInv'
  BY <1>2, <1>3 DEF AnswerInv
<1>5. TypeInv' /\ ShownIdIsMine'
  BY <1>1, <1>2 DEF ClientInv, TypeInv, ShownIdIsMine
<1> QED BY <1>2, <1>3, <1>4, <1>5 DEF ClientInv

\* ChallengeRefused preserves the invariant.
LEMMA ChallengeRefusedStep ==
    ASSUME ClientInv, NEW reply \in Replies, ChallengeRefused(reply)
    PROVE  ClientInv'
<1> DEFINE i == reply.call
<1>1. reply \in net /\ i \in DOMAIN calls
  BY ReplyKinds DEF ClientInv, NetInv
<1>2. /\ calls[i].stage # "returned"
      /\ calls' = [calls EXCEPT ![i].stage = "returned", ![i].out = "Err"]
      /\ net' \subseteq net
      /\ UNCHANGED <<issued, nonces, bound, setting, spent, executed, shows>>
  BY DEF ChallengeRefused, directory
<1> HIDE DEF i
<1>3. /\ calls' \in Seq(CallRecord) /\ DOMAIN calls' = DOMAIN calls
      /\ \A k \in DOMAIN calls :
            /\ calls'[k].wallet = calls[k].wallet /\ calls'[k].op = calls[k].op
            /\ calls'[k].value = calls[k].value /\ calls'[k].body = calls[k].body
      /\ CallsInv' /\ ExecutedInv' /\ OrderInv' /\ SettingInv'
      /\ \A k \in DOMAIN calls' : calls'[k].op # "start" /\ calls'[k].out = "Ok" => Done(k)'
  BY <1>1, <1>2, MoveOn
<1>4. /\ NetInv' /\ PostInv' /\ PhaseInv'
      /\ \A r \in net' \cap PostReply :
            /\ r.ok => Done(r.call)'
            /\ r.id # None => LET w == calls'[r.call].wallet IN
                              r.id = short_wallet_id[w] /\ bound'[r.id] = w
  BY <1>2, <1>3, NetShrinks
<1>5. AnswerInv'
  BY <1>3, <1>4 DEF AnswerInv
<1>6. TypeInv' /\ ShownIdIsMine'
  BY <1>2, <1>3 DEF ClientInv, TypeInv, ShownIdIsMine
<1> QED BY <1>3, <1>4, <1>5, <1>6 DEF ClientInv

\* Return preserves the invariant: an id it shows was bound when the reply was
\* written, and bindings stay.
LEMMA ReturnStep ==
    ASSUME ClientInv, NEW reply \in Replies, Return(reply)
    PROVE  ClientInv'
<1> DEFINE i == reply.call
           r == Result(calls[i], reply)
<1>1. reply \in net /\ reply \in PostReply /\ i \in DOMAIN calls
  BY ReplyKinds DEF ClientInv, NetInv, Return
<1>2. /\ r.out \in {"Ok", "Err"} /\ r.id \in ShortIds \cup {None}
      /\ r.out = "Ok" => reply.ok
      /\ r.id # None => r.id = reply.id
  BY <1>1 DEF Result, PostReply
<1>3. /\ calls[i].stage # "returned"
      /\ calls' = [calls EXCEPT ![i].stage = "returned", ![i].out = r.out]
      /\ net' \subseteq net
      /\ shows' = IF r.id = None THEN shows ELSE [shows EXCEPT ![calls[i].wallet] = r.id]
      /\ UNCHANGED <<issued, nonces, bound, setting, spent, executed>>
  BY DEF Return, directory
<1>4. r.out = "Ok" => Done(i)
  BY <1>1, <1>2 DEF ClientInv, AnswerInv
<1>5. r.id # None =>
        r.id = short_wallet_id[calls[i].wallet] /\ bound[r.id] = calls[i].wallet
  BY <1>1, <1>2 DEF ClientInv, AnswerInv
<1> HIDE DEF i, r
<1>6. /\ calls' \in Seq(CallRecord) /\ DOMAIN calls' = DOMAIN calls
      /\ \A k \in DOMAIN calls :
            /\ calls'[k].wallet = calls[k].wallet /\ calls'[k].op = calls[k].op
            /\ calls'[k].value = calls[k].value /\ calls'[k].body = calls[k].body
      /\ CallsInv' /\ ExecutedInv' /\ OrderInv' /\ SettingInv'
      /\ \A k \in DOMAIN calls' : calls'[k].op # "start" /\ calls'[k].out = "Ok" => Done(k)'
  <2>1. r.out \in {None, "Ok", "Err"}
    BY <1>2
  <2> QED BY <1>1, <1>3, <1>4, <2>1, MoveOn
<1>7. /\ NetInv' /\ PostInv' /\ PhaseInv'
      /\ \A x \in net' \cap PostReply :
            /\ x.ok => Done(x.call)'
            /\ x.id # None => LET w == calls'[x.call].wallet IN
                              x.id = short_wallet_id[w] /\ bound'[x.id] = w
  BY <1>3, <1>6, NetShrinks
<1>8. AnswerInv'
  BY <1>6, <1>7 DEF AnswerInv
<1>9. calls[i].wallet \in Wallets
  BY <1>1, CallType DEF ClientInv
<1>10. TypeInv'
  BY <1>2, <1>3, <1>6, <1>9 DEF ClientInv, TypeInv
<1>11. ShownIdIsMine'
  BY <1>3, <1>5, <1>9 DEF ClientInv, TypeInv, ShownIdIsMine
<1> QED BY <1>6, <1>7, <1>8, <1>10, <1>11 DEF ClientInv

\* Sign preserves the invariant: the post takes the challenge's place.
LEMMA SignStep ==
    ASSUME ClientInv, NEW reply \in Replies, Sign(reply)
    PROVE  ClientInv'
<1> DEFINE i == reply.call
           c == calls[i]
           post == [to |-> "post", call |-> i, op |-> c.op,
                    body |-> c.body, challenge |-> reply.nonce,
                    signature |-> sign_identity(c.wallet, reply.nonce, c.op, c.value)]
<1>1. reply \in net /\ reply \in ChallengeReply /\ i \in DOMAIN calls /\ c.op # "start"
  BY ReplyKinds DEF ClientInv, NetInv, Sign
<1>2. reply.nonce \in Nat /\ i \in Nat
  BY <1>1 DEF ChallengeReply
<1>3. c.wallet \in Wallets /\ c.op \in SignedOps /\ c.value \in Values /\ c.body \in Bodies
  BY <1>1, CallType DEF ClientInv
<1>4. sign_identity(c.wallet, reply.nonce, c.op, c.value)
        \in [key: Wallets, challenge: Nat, action: SignedOps, value: Values]
  BY <1>2, <1>3 DEF sign_identity
<1>6. post \in Post
  BY <1>2, <1>3, <1>4 DEF Post
<1>7. /\ c.stage # "returned" /\ c.stage = "challenge"
      /\ calls' = [calls EXCEPT ![i].stage = "posting"]
      /\ net' = (net \ {reply}) \cup {post}
      /\ UNCHANGED <<issued, nonces, bound, setting, spent, executed, shows>>
  BY DEF Sign, directory
<1>8. /\ post.call = i /\ post.op = c.op /\ post.body = c.body
      /\ post.challenge = reply.nonce
      /\ post.signature = sign_identity(c.wallet, post.challenge, c.op, c.value)
  OBVIOUS
<1>9. c.out = None
  BY <1>1, <1>7 DEF ClientInv, CallsInv, CallOK
<1> HIDE DEF post
<1>10. /\ calls' \in Seq(CallRecord) /\ DOMAIN calls' = DOMAIN calls
       /\ \A k \in DOMAIN calls :
             /\ calls'[k].wallet = calls[k].wallet /\ calls'[k].op = calls[k].op
             /\ calls'[k].value = calls[k].value /\ calls'[k].body = calls[k].body
       /\ CallsInv' /\ ExecutedInv' /\ OrderInv' /\ SettingInv'
       /\ \A k \in DOMAIN calls' : calls'[k].op # "start" /\ calls'[k].out = "Ok" => Done(k)'
  <2>1. ~(c.out = "Ok") /\ c.out \in {None, "Ok", "Err"}
    BY <1>9, ClientNoneAssumption
  <2> HIDE DEF i
  <2> QED BY <1>1, <1>7, <1>9, <2>1, MoveOn
<1>11. post \notin Answering /\ post \notin ChallengeRequest
  BY <1>6, AskingKinds DEF Asking, Post
<1>12. /\ net' \cap Post = (net \cap Post) \cup {post}
       /\ net' \cap ChallengeRequest \subseteq net \cap ChallengeRequest
       /\ net' \cap ChallengeReply = (net \cap ChallengeReply) \ {reply}
       /\ net' \cap PostReply \subseteq net \cap PostReply
  <2>1. reply \notin Post
    BY <1>1, AnsweringKinds DEF Answering, Asking
  <2> QED BY <1>6, <1>7, <1>11, <2>1 DEF Answering
<1>13. \A k : Done(k)' <=> Done(k)
  BY <1>7 DEF Done
<1>14. TypeInv' /\ ShownIdIsMine'
  BY <1>6, <1>7, <1>10 DEF ClientInv, TypeInv, ShownIdIsMine, Asking
<1>15. NetInv'
  BY <1>1, <1>7, <1>8, <1>10 DEF ClientInv, NetInv
<1>16. PostInv'
  <2> SUFFICES ASSUME NEW m \in net' \cap Post
               PROVE  LET d == calls'[m.call] IN
                      /\ m.op = d.op /\ m.body = d.body
                      /\ m.challenge <= nonces'
                      /\ m.signature = sign_identity(d.wallet, m.challenge, d.op, d.value)
    BY DEF PostInv
  <2>1. CASE m = post
    BY <1>1, <1>7, <1>8, <1>10, <2>1 DEF ClientInv, PhaseInv
  <2>2. CASE m \in net \cap Post
    BY <1>7, <1>10, <2>2 DEF ClientInv, PostInv, NetInv
  <2> QED BY <2>1, <2>2, <1>12
<1>17. AnswerInv'
  BY <1>7, <1>10, <1>12, <1>13 DEF ClientInv, AnswerInv, NetInv
<1>18. PhaseInv'
  <2>1. /\ ~Done(i) /\ \A x \in net \cap Post : x.call # i
        /\ \A x \in net \cap ChallengeReply : x.call = i => x = reply
    BY <1>1 DEF ClientInv, PhaseInv
  <2>2. \A y \in net' \cap ChallengeRequest :
          ~Done(y.call) /\ \A z \in net' \cap (ChallengeReply \cup Post) : z.call # y.call
    BY <1>1, <1>8, <1>12 DEF ClientInv, PhaseInv
  <2>3. \A r \in net' \cap ChallengeReply :
          /\ r.nonce <= nonces /\ ~Done(r.call)
          /\ \A y \in net' \cap Post : y.call # r.call
          /\ \A y \in net' \cap ChallengeReply : y.call = r.call => y = r
    BY <1>8, <1>12, <2>1 DEF ClientInv, PhaseInv
  <2>4. \A y, z \in net' \cap Post : z.call = y.call => z = y
    BY <1>8, <1>12, <2>1 DEF ClientInv, PhaseInv
  <2>5. \A y \in net' \cap Post : Done(y.call) => <<y.signature.key, y.challenge>> \notin issued
    BY <1>8, <1>12, <2>1 DEF ClientInv, PhaseInv
  <2> QED BY <1>7, <1>13, <2>2, <2>3, <2>4, <2>5 DEF PhaseInv
<1> QED BY <1>10, <1>14, <1>15, <1>16, <1>17, <1>18 DEF ClientInv

\* A new call: everything known so far is about earlier ones.
LEMMA NewCallKeeps ==
    ASSUME ClientInv, NEW c \in CallRecord, calls' = Append(calls, c),
           c.op # "start" => [op |-> c.op, value |-> c.value, body |-> c.body] \in Arguments(c.wallet),
           c.op = "start" => /\ c.body \in Quotes /\ c.stage = "returned"
                             /\ c.out = "Ok" => QuoteOk(c.body),
           c.stage # "returned" => c.out = None,
           c.out = "Ok" => c.op = "start",
           \A k \in c.before : k \in DOMAIN calls /\ calls[k].stage = "returned",
           UNCHANGED <<bound, setting, executed>>
    PROVE  /\ calls' \in Seq(CallRecord) /\ Len(calls) + 1 \in DOMAIN calls'
           /\ calls'[Len(calls) + 1] = c /\ Len(calls) + 1 \notin DOMAIN calls
           /\ \A i \in DOMAIN calls : i \in DOMAIN calls' /\ calls'[i] = calls[i]
           /\ CallsInv' /\ ExecutedInv' /\ OrderInv' /\ SettingInv' /\ ~Done(Len(calls) + 1)
           /\ \A i \in DOMAIN calls' : calls'[i].op # "start" /\ calls'[i].out = "Ok" => Done(i)'
<1> DEFINE new == Len(calls) + 1
<1> USE DEF ClientInv
<1>1. calls \in Seq(CallRecord)
  BY DEF TypeInv
<1>2. /\ calls' \in Seq(CallRecord) /\ DOMAIN calls' = DOMAIN calls \cup {new}
      /\ calls'[new] = c /\ new \notin DOMAIN calls /\ new \in Nat
      /\ \A i \in DOMAIN calls : calls'[i] = calls[i] /\ i < new
  BY <1>1
<1>3. CallsInv'
  <2> SUFFICES ASSUME NEW j \in DOMAIN calls' PROVE CallOK(j)'
    BY DEF CallsInv
  <2>1. CASE j = new
    <3>1. \A k \in c.before : k < new /\ k \in DOMAIN calls' /\ calls'[k].stage = "returned"
      BY <1>2
    <3>2. calls'[j] = c
      BY <1>2, <2>1
    <3> HIDE DEF new
    <3> QED BY <2>1, <3>1, <3>2 DEF CallOK
  <2>2. CASE j \in DOMAIN calls
    <3>1. CallOK(j)
      BY <2>2 DEF CallsInv
    <3>2. \A k \in calls[j].before : k < j /\ k \in DOMAIN calls' /\ calls'[k].stage = "returned"
      BY <1>2, <3>1 DEF CallOK
    <3> QED BY <1>2, <2>2, <3>1, <3>2 DEF CallOK
  <2> QED BY <1>2, <2>1, <2>2
<1>4. ExecutedInv' /\ SettingInv'
  BY <1>2 DEF ExecutedInv, SettingInv, Sets
<1>5. ~Done(new)
  BY <1>2 DEF Done, ExecutedInv
<1>6. OrderInv'
  <2>1. ASSUME NEW j \in DOMAIN calls', NEW k \in calls'[j].before,
               calls'[k].op # "start", calls'[k].out = "Ok",
               NEW a \in DOMAIN executed, NEW b \in DOMAIN executed,
               executed[a].call = k, executed[b].call = j
        PROVE  a < b
    <3>1. j \in DOMAIN calls
      BY <2>1, <1>2, <1>5 DEF Done
    <3>2. calls'[j] = calls[j] /\ k \in DOMAIN calls
      BY <2>1, <1>2, <3>1 DEF CallsInv, CallOK
    <3> QED BY <2>1, <1>2, <3>1, <3>2 DEF OrderInv
  <2>2. executed' = executed
    OBVIOUS
  <2> QED BY ONLY <2>1, <2>2 DEF OrderInv
<1>7. \A i \in DOMAIN calls' : calls'[i].op # "start" /\ calls'[i].out = "Ok" => Done(i)'
  BY <1>2 DEF AnswerInv, Done
<1> QED BY <1>2, <1>3, <1>4, <1>5, <1>6, <1>7

\* What a method passes is an operation, a value and a body.
LEMMA ArgumentsType ==
    ASSUME NEW w \in Wallets, NEW a \in Arguments(w)
    PROVE  /\ a.op \in SignedOps /\ a.value \in Values /\ a.body \in Bodies
           /\ a = [op |-> a.op, value |-> a.value, body |-> a.body]
           /\ a.op = "discoverability" => a.body \in Settings
           /\ a.op = "sdk_login" => a.body \in Codes \cup {None}
<1> USE DEF SignedOps, Values, Bodies
<1>1. CASE a \in [op: {"status"}, value: {None}, body: {None}]
  BY <1>1
<1>2. CASE \E b \in [channel: Channels, value: Contacts] :
             a = [op |-> "contacts_save", value |-> b.value, body |-> b]
  BY <1>2
<1>3. CASE \E s \in Settings :
             a = [op |-> "discoverability", value |-> Switches(s), body |-> s]
  BY <1>3
<1>4. CASE a = [op |-> "id", value |-> short_wallet_id[w], body |-> short_wallet_id[w]]
  BY <1>4, ShortIdAssumption
<1>5. CASE a \in [op: {"sdk_login"}, value: {None}, body: Codes \cup {None}]
  BY <1>5
<1> QED BY <1>1, <1>2, <1>3, <1>4, <1>5 DEF Arguments

\* Call preserves the invariant.
LEMMA CallStep ==
    ASSUME ClientInv, NEW w \in Wallets, NEW a \in Arguments(w), Call(w, a)
    PROVE  ClientInv'
<1> DEFINE new == Len(calls) + 1
           returned == {i \in DOMAIN calls : calls[i].stage = "returned"}
           c == [wallet |-> w, op |-> a.op, value |-> a.value, body |-> a.body,
                 stage |-> "challenge", out |-> None, before |-> returned]
           m == [to |-> "challenge", call |-> new]
<1>1. /\ a.op \in SignedOps /\ a.value \in Values /\ a.body \in Bodies
      /\ a = [op |-> a.op, value |-> a.value, body |-> a.body]
  BY ArgumentsType
<1>2. returned \subseteq Nat /\ new \in Nat
  BY DEF ClientInv, TypeInv
<1>3. c \in CallRecord
  <2> HIDE DEF returned
  <2> QED BY <1>1, <1>2 DEF CallRecord
<1>4. /\ calls' = Append(calls, c) /\ net' = net \cup {m}
      /\ UNCHANGED <<issued, nonces, bound, setting, spent, executed, shows>>
  BY DEF Call, NewCall, directory
<1>5. c.op # "start" /\ [op |-> c.op, value |-> c.value, body |-> c.body] \in Arguments(c.wallet)
  BY <1>1 DEF SignedOps
<1>6. c.out # "Ok" /\ c.out = None /\ c.before = returned
  BY ClientNoneAssumption
<1> HIDE DEF c
<1>7. /\ calls' \in Seq(CallRecord) /\ new \in DOMAIN calls'
      /\ calls'[new] = c /\ new \notin DOMAIN calls
      /\ \A i \in DOMAIN calls : i \in DOMAIN calls' /\ calls'[i] = calls[i]
      /\ CallsInv' /\ ExecutedInv' /\ OrderInv' /\ SettingInv' /\ ~Done(new)
      /\ \A i \in DOMAIN calls' : calls'[i].op # "start" /\ calls'[i].out = "Ok" => Done(i)'
  BY <1>3, <1>4, <1>5, <1>6, NewCallKeeps
<1>8. m \in ChallengeRequest /\ m.call = new
  BY <1>2 DEF ChallengeRequest
<1> HIDE DEF m, new, returned
<1>9. m \notin Answering /\ m \notin Post /\ m \in Asking
  BY <1>8, AskingKinds DEF Asking, ChallengeRequest
<1>10. TypeInv' /\ ShownIdIsMine'
  BY <1>4, <1>7, <1>9 DEF ClientInv, TypeInv, ShownIdIsMine
<1>11. \A x \in net : x.call \in DOMAIN calls /\ x.call # new
  BY <1>7 DEF ClientInv, NetInv
<1>12. NetInv'
  BY <1>4, <1>5, <1>7, <1>8, <1>11 DEF ClientInv, NetInv
<1>13. /\ net' \cap Post = net \cap Post
       /\ net' \cap ChallengeRequest = (net \cap ChallengeRequest) \cup {m}
       /\ net' \cap ChallengeReply = net \cap ChallengeReply
       /\ net' \cap PostReply = net \cap PostReply
  BY <1>4, <1>8, <1>9 DEF Answering
<1>14. PostInv'
  BY <1>4, <1>7, <1>11, <1>13 DEF ClientInv, PostInv
<1>15. AnswerInv'
  BY <1>4, <1>7, <1>11, <1>13 DEF ClientInv, AnswerInv, Done
<1>16. PhaseInv'
  <2>1. \A k : Done(k)' <=> Done(k)
    BY <1>4 DEF Done
  <2>2. \A y \in net' \cap ChallengeRequest :
          ~Done(y.call) /\ \A z \in net' \cap (ChallengeReply \cup Post) : z.call # y.call
    BY <1>7, <1>8, <1>11, <1>13 DEF ClientInv, PhaseInv
  <2> QED BY <1>4, <1>13, <2>1, <2>2 DEF ClientInv, PhaseInv
<1> QED BY <1>7, <1>10, <1>12, <1>14, <1>15, <1>16 DEF ClientInv

\* Payjoin preserves the invariant.
LEMMA PayjoinStep ==
    ASSUME ClientInv, NEW w \in Wallets, NEW q \in Quotes, Payjoin(w, q)
    PROVE  ClientInv'
<1> DEFINE new == Len(calls) + 1
           c == [wallet |-> w, op |-> "start", value |-> None, body |-> q, stage |-> "returned",
                 out |-> IF QuoteOk(q) THEN "Ok" ELSE "Err", before |-> {}]
<1>1. c \in CallRecord
  BY DEF CallRecord, Values, Bodies
<1>2. /\ calls' = Append(calls, c)
      /\ UNCHANGED <<net, issued, nonces, bound, setting, spent, executed, shows>>
  BY DEF Payjoin, directory
<1>3. /\ c.op = "start" /\ c.body \in Quotes /\ c.stage = "returned" /\ c.before = {}
      /\ c.out = "Ok" => QuoteOk(c.body)
  OBVIOUS
<1> HIDE DEF c
<1>4. /\ calls' \in Seq(CallRecord) /\ new \in DOMAIN calls'
      /\ calls'[new] = c /\ new \notin DOMAIN calls
      /\ \A i \in DOMAIN calls : i \in DOMAIN calls' /\ calls'[i] = calls[i]
      /\ CallsInv' /\ ExecutedInv' /\ OrderInv' /\ SettingInv' /\ ~Done(new)
      /\ \A i \in DOMAIN calls' : calls'[i].op # "start" /\ calls'[i].out = "Ok" => Done(i)'
  BY <1>1, <1>2, <1>3, NewCallKeeps
<1>5. TypeInv' /\ ShownIdIsMine'
  BY <1>2, <1>4 DEF ClientInv, TypeInv, ShownIdIsMine
<1>6. \A x \in net : x.call \in DOMAIN calls /\ calls'[x.call] = calls[x.call]
  BY <1>4 DEF ClientInv, NetInv
<1>7. NetInv' /\ PostInv'
  BY <1>2, <1>4, <1>6 DEF ClientInv, NetInv, PostInv
<1>8. AnswerInv'
  BY <1>2, <1>4, <1>6 DEF ClientInv, AnswerInv, Done
<1>9. PhaseInv'
  BY <1>2 DEF ClientInv, PhaseInv, Done
<1> QED BY <1>4, <1>5, <1>7, <1>8, <1>9 DEF ClientInv

-----------------------------------------------------------------------------
(* Carrying out an operation                                               *)

\* A post asks for what its call does.
LEMMA PostAsks ==
    ASSUME ClientInv, NEW m \in net \cap Post
    PROVE  /\ m.call \in DOMAIN calls /\ calls[m.call].op \in SignedOps
           /\ m.op = calls[m.call].op /\ m.body = calls[m.call].body
           /\ m.signature.key = calls[m.call].wallet
<1>1. m.call \in DOMAIN calls /\ calls[m.call].op \in SignedOps
  BY CallType DEF ClientInv, NetInv
<1>2. m.op = calls[m.call].op /\ m.body = calls[m.call].body
  BY DEF ClientInv, PostInv
<1>3. m.signature = sign_identity(calls[m.call].wallet, m.challenge, calls[m.call].op,
                                  calls[m.call].value)
  BY DEF ClientInv, PostInv
<1>4. m.signature.key = calls[m.call].wallet
  BY <1>3 DEF sign_identity
<1> QED BY <1>1, <1>2, <1>4

\* What Execute does to a call that it finds not done yet.
LEMMA ExecuteEffect ==
    ASSUME ClientInv, NEW m \in Requests, Execute(m)
    PROVE  LET i == m.call
               c == calls[i]
           IN
           /\ m \in net \cap Post /\ i \in DOMAIN calls /\ c.op \in SignedOps /\ c.wallet \in Wallets
           /\ c.body \in Bodies
           /\ [op |-> c.op, value |-> c.value, body |-> c.body] \in Arguments(c.wallet)
           /\ <<c.wallet, m.challenge>> \in issued
           /\ issued' = issued \ {<<c.wallet, m.challenge>>}
           /\ ~Done(i) /\ m.signature.key = c.wallet
           /\ executed' = Append(executed, [call |-> i, wallet |-> c.wallet, op |-> c.op,
                                            body |-> c.body])
           /\ c.op = "id" => /\ c.body = short_wallet_id[c.wallet]
                             /\ bound[c.body] \in {None, c.wallet}
           /\ bound' = IF c.op = "id" THEN [bound EXCEPT ![c.body] = c.wallet] ELSE bound
           /\ setting' = IF c.op = "discoverability" THEN [setting EXCEPT ![c.wallet] = c.body]
                         ELSE setting
           /\ spent' = IF c.op = "sdk_login" THEN spent \cup ({c.body} \ {None}) ELSE spent
           /\ \E id : /\ Delivered(m, ReplyTo(m, TRUE, id))
                      /\ id = IF c.op = "id" THEN c.body
                              ELSE IF c.op = "status" /\ bound[short_wallet_id[c.wallet]] = c.wallet
                                   THEN short_wallet_id[c.wallet] ELSE None
           /\ UNCHANGED <<calls, nonces, shows>>
<1> DEFINE i == m.call
           c == calls[i]
<1>1. m \in net \cap Post
  BY RequestKinds DEF ClientInv, Execute
<1>2. /\ i \in DOMAIN calls /\ c.op \in SignedOps /\ m.op = c.op /\ m.body = c.body
      /\ m.signature.key = c.wallet
  BY <1>1, PostAsks
<1>3. c.wallet \in Wallets /\ c.body \in Bodies
  BY <1>2, CallType DEF ClientInv
<1>4. [op |-> c.op, value |-> c.value, body |-> c.body] \in Arguments(c.wallet)
  BY <1>2 DEF ClientInv, CallsInv, CallOK, SignedOps
<1>5. <<c.wallet, m.challenge>> \in issued
  BY <1>2 DEF Execute, Verified
<1>6. ~Done(i)
  BY <1>1, <1>2, <1>5 DEF ClientInv, PhaseInv
<1>7. /\ issued' = issued \ {<<c.wallet, m.challenge>>}
      /\ executed' = Append(executed, [call |-> i, wallet |-> c.wallet, op |-> c.op,
                                       body |-> c.body])
      /\ bound' = IF c.op = "id" THEN [bound EXCEPT ![c.body] = c.wallet] ELSE bound
      /\ setting' = IF c.op = "discoverability" THEN [setting EXCEPT ![c.wallet] = c.body]
                    ELSE setting
      /\ spent' = IF c.op = "sdk_login" THEN spent \cup ({c.body} \ {None}) ELSE spent
      /\ UNCHANGED <<calls, nonces, shows>>
  BY <1>2 DEF Execute
<1>8. c.op = "id" => c.body = short_wallet_id[c.wallet] /\ bound[c.body] \in {None, c.wallet}
  BY <1>2 DEF Execute, Allowed
<1>9. \E id : /\ Delivered(m, ReplyTo(m, TRUE, id))
              /\ id = IF c.op = "id" THEN c.body
                      ELSE IF c.op = "status" /\ bound[short_wallet_id[c.wallet]] = c.wallet
                           THEN short_wallet_id[c.wallet] ELSE None
  BY <1>2 DEF Execute
<1> QED BY <1>1, <1>2, <1>3, <1>4, <1>5, <1>6, <1>7, <1>8, <1>9

\* Execute preserves the invariant: the challenge is used up, so the call is never
\* carried out again; a short id that is bound stays bound.
LEMMA ExecuteStep ==
    ASSUME ClientInv, NEW m \in Requests, Execute(m)
    PROVE  ClientInv'
<1> DEFINE i == m.call
           c == calls[i]
           e == [call |-> i, wallet |-> c.wallet, op |-> c.op, body |-> c.body]
<1>1. /\ m \in net \cap Post /\ i \in DOMAIN calls /\ c.op \in SignedOps /\ c.wallet \in Wallets
      /\ c.body \in Bodies
      /\ [op |-> c.op, value |-> c.value, body |-> c.body] \in Arguments(c.wallet)
      /\ ~Done(i) /\ m.signature.key = c.wallet
      /\ issued' = issued \ {<<c.wallet, m.challenge>>}
      /\ executed' = Append(executed, e)
      /\ UNCHANGED <<calls, nonces, shows>>
  BY ExecuteEffect
<1>2. /\ c.op = "id" => c.body = short_wallet_id[c.wallet] /\ bound[c.body] \in {None, c.wallet}
      /\ bound' = IF c.op = "id" THEN [bound EXCEPT ![c.body] = c.wallet] ELSE bound
      /\ setting' = IF c.op = "discoverability" THEN [setting EXCEPT ![c.wallet] = c.body]
                    ELSE setting
      /\ spent' = IF c.op = "sdk_login" THEN spent \cup ({c.body} \ {None}) ELSE spent
  BY ExecuteEffect
<1>3. PICK id : /\ Delivered(m, ReplyTo(m, TRUE, id))
                /\ id = IF c.op = "id" THEN c.body
                        ELSE IF c.op = "status" /\ bound[short_wallet_id[c.wallet]] = c.wallet
                             THEN short_wallet_id[c.wallet] ELSE None
  BY ExecuteEffect
<1> DEFINE x == ReplyTo(m, TRUE, id)
<1>4. short_wallet_id[c.wallet] \in ShortIds /\ i \in Nat
  BY <1>1, ShortIdAssumption, CallType DEF ClientInv
<1>5. id \in ShortIds \cup {None}
  BY <1>2, <1>3, <1>4
<1>6. x \in PostReply /\ x.call = i /\ x.id = id
  BY <1>4, <1>5 DEF ReplyTo, PostReply
<1>7. x \in Answering /\ x \notin Asking /\ x \notin ChallengeReply
  BY <1>6, AnsweringKinds DEF Answering, PostReply
<1>8. net' \subseteq net \cup {x}
  BY <1>3 DEF Delivered
<1> HIDE DEF x
<1>9. /\ c.op = "discoverability" => c.body \in Settings
      /\ c.op = "sdk_login" => c.body \in Codes \cup {None}
  BY <1>1, ArgumentsType
<1>10. e \in Execution /\ e.call = i /\ e.wallet = c.wallet /\ e.op = c.op /\ e.body = c.body
  BY <1>1, <1>4 DEF Execution
<1>11. PICK new \in Nat :
       /\ executed' \in Seq(Execution) /\ DOMAIN executed' = DOMAIN executed \cup {new}
       /\ executed'[new] = e /\ new \notin DOMAIN executed
       /\ \A n \in DOMAIN executed : executed'[n] = executed[n] /\ n < new
  <2>1. executed \in Seq(Execution)
    BY DEF ClientInv, TypeInv
  <2> HIDE DEF e
  <2> WITNESS Len(executed) + 1 \in Nat
  <2> QED BY <1>1, <1>10, <2>1
<1> HIDE DEF e
<1>12. TypeInv'
  <2>1. bound' \in [ShortIds -> Wallets \cup {None}]
    BY <1>1, <1>2, <1>4 DEF ClientInv, TypeInv
  <2>2. setting' \in [Wallets -> Settings \cup {None}]
    BY <1>1, <1>2, <1>9 DEF ClientInv, TypeInv
  <2>3. net' \subseteq Asking \cup Answering
    BY <1>7, <1>8 DEF ClientInv, TypeInv
  <2>4. spent' \subseteq Codes
    BY <1>2, <1>9 DEF ClientInv, TypeInv
  <2> QED BY <1>1, <1>11, <2>1, <2>2, <2>3, <2>4 DEF ClientInv, TypeInv
<1>13. \A s \in ShortIds : bound[s] # None => bound'[s] = bound[s]
  BY <1>1, <1>2 DEF ClientInv, TypeInv
<1>14. CallsInv' /\ NetInv' /\ ShownIdIsMine'
  <2>1. CallsInv'
    BY <1>1 DEF ClientInv, CallsInv, CallOK
  <2>2. NetInv'
    BY <1>1, <1>6, <1>8, SMTT(20) DEF ClientInv, NetInv, SignedOps
  <2>3. ShownIdIsMine'
    BY <1>1, <1>13, ClientNoneAssumption, ShortIdAssumption DEF ClientInv, ShownIdIsMine
  <2> QED BY <2>1, <2>2, <2>3
<1>15. /\ net' \cap Post \subseteq net \cap Post
       /\ net' \cap ChallengeRequest \subseteq net \cap ChallengeRequest
       /\ net' \cap ChallengeReply \subseteq net \cap ChallengeReply
       /\ net' \cap PostReply \subseteq (net \cap PostReply) \cup {x}
  BY <1>7, <1>8 DEF Asking
<1>16. PostInv'
  BY <1>1, <1>15 DEF ClientInv, PostInv
<1>17. \A k : Done(k)' <=> Done(k) \/ k = i
  BY <1>10, <1>11 DEF Done
<1>18. PhaseInv'
  <2>1. \A y \in net' \cap ChallengeRequest :
          /\ ~Done(y.call) /\ y.call # i
          /\ \A z \in net' \cap (ChallengeReply \cup Post) : z.call # y.call
    BY <1>1, <1>15 DEF ClientInv, PhaseInv
  <2>2. \A r \in net' \cap ChallengeReply :
          /\ r.nonce <= nonces /\ ~Done(r.call) /\ r.call # i
          /\ \A y \in net' \cap Post : y.call # r.call
          /\ \A y \in net' \cap ChallengeReply : y.call = r.call => y = r
    BY <1>1, <1>15 DEF ClientInv, PhaseInv
  <2>3. \A y, z \in net' \cap Post : z.call = y.call => z = y
    BY <1>15 DEF ClientInv, PhaseInv
  <2>4. \A y \in net' \cap Post :
          (Done(y.call) \/ y.call = i) => <<y.signature.key, y.challenge>> \notin issued'
    BY <1>1, <1>15 DEF ClientInv, PhaseInv
  <2> QED BY <1>1, <1>17, <2>1, <2>2, <2>3, <2>4 DEF PhaseInv
<1>19. ExecutedInv'
  <2>1. \A n \in DOMAIN executed : executed[n].call # i
    BY <1>1 DEF Done
  <2>2. \A n \in DOMAIN executed' :
          LET f == executed'[n] IN
          /\ f.call \in DOMAIN calls
          /\ f.wallet = calls[f.call].wallet /\ f.op = calls[f.call].op
          /\ f.body = calls[f.call].body
    BY <1>1, <1>10, <1>11 DEF ClientInv, ExecutedInv
  <2>3. \A n, k \in DOMAIN executed' : executed'[n].call = executed'[k].call => n = k
    BY <1>10, <1>11, <2>1 DEF ClientInv, ExecutedInv
  <2> QED BY <1>1, <2>2, <2>3 DEF ExecutedInv
<1>20. AnswerInv'
  <2> SUFFICES ASSUME NEW r \in net' \cap PostReply
               PROVE  /\ r.ok => Done(r.call)'
                      /\ r.id # None => LET w == calls[r.call].wallet IN
                                        r.id = short_wallet_id[w] /\ bound'[r.id] = w
    BY <1>1, <1>17 DEF ClientInv, AnswerInv
  <2>1. CASE r = x
    <3>1. id # None => id = short_wallet_id[c.wallet] /\ bound'[id] = c.wallet
      BY <1>2, <1>3, <1>4 DEF ClientInv, TypeInv
    <3> QED BY <1>6, <1>17, <2>1, <3>1
  <2>2. CASE r \in net \cap PostReply
    <3>1. r.id \in ShortIds \cup {None} /\ calls[r.call].wallet \in Wallets
      BY <2>2, CallType DEF ClientInv, NetInv, PostReply
    <3> QED BY <1>13, <1>17, <2>2, <3>1, ClientNoneAssumption DEF ClientInv, AnswerInv
  <2> QED BY <1>15, <2>1, <2>2
<1>21. OrderInv'
  <2>1. ASSUME NEW j \in DOMAIN calls, NEW k \in calls[j].before,
               calls[k].op # "start", calls[k].out = "Ok",
               NEW a \in DOMAIN executed', NEW b \in DOMAIN executed',
               executed'[a].call = k, executed'[b].call = j
        PROVE  a < b
    <3>1. k \in DOMAIN calls
      BY <2>1 DEF ClientInv, CallsInv, CallOK
    <3>2. k # i
      BY <1>1, <2>1, <3>1 DEF ClientInv, AnswerInv
    <3>3. a \in DOMAIN executed
      BY <1>10, <1>11, <2>1, <3>2
    <3>4. CASE b = new
      BY <1>11, <3>3, <3>4
    <3>5. CASE b \in DOMAIN executed
      BY <1>11, <2>1, <3>3, <3>5 DEF ClientInv, OrderInv
    <3> QED BY <1>11, <2>1, <3>4, <3>5
  <2>2. calls' = calls
    BY <1>1
  <2> QED BY ONLY <2>1, <2>2 DEF OrderInv
<1>22. SettingInv'
  <2> SUFFICES ASSUME NEW w \in Wallets
               PROVE  IF setting'[w] = None THEN \A n \in DOMAIN executed' : ~Sets(n, w)'
                      ELSE \E n \in DOMAIN executed' :
                             /\ Sets(n, w)' /\ executed'[n].body = setting'[w]
                             /\ \A k \in DOMAIN executed' : Sets(k, w)' => k <= n
    BY DEF SettingInv
  <2>1. CASE c.op = "discoverability" /\ w = c.wallet
    <3>1. setting'[w] = c.body /\ c.body # None
      BY <1>2, <1>9, <2>1, ClientNoneAssumption DEF ClientInv, TypeInv
    <3>2. Sets(new, w)' /\ executed'[new].body = c.body
      BY <1>10, <1>11, <2>1 DEF Sets
    <3>3. \A k \in DOMAIN executed' : k <= new
      BY <1>11 DEF ClientInv, TypeInv
    <3> QED BY <1>11, <3>1, <3>2, <3>3
  <2>2. CASE ~(c.op = "discoverability" /\ w = c.wallet)
    <3>1. setting'[w] = setting[w]
      BY <1>1, <1>2, <2>2 DEF ClientInv, TypeInv
    <3>2. ~Sets(new, w)'
      BY <1>10, <1>11, <2>2 DEF Sets
    <3>3. \A n \in DOMAIN executed : Sets(n, w)' <=> Sets(n, w)
      BY <1>11 DEF Sets
    <3>4. CASE setting[w] = None
      BY <1>11, <3>1, <3>2, <3>3, <3>4 DEF ClientInv, SettingInv
    <3>5. CASE setting[w] # None
      <4>1. PICK n \in DOMAIN executed :
              /\ Sets(n, w) /\ executed[n].body = setting[w]
              /\ \A k \in DOMAIN executed : Sets(k, w) => k <= n
        BY <3>5 DEF ClientInv, SettingInv
      <4> QED BY <1>11, <3>1, <3>2, <3>3, <3>5, <4>1
    <3> QED BY <3>4, <3>5
  <2> QED BY <2>1, <2>2
<1> QED BY <1>12, <1>14, <1>16, <1>18, <1>19, <1>20, <1>21, <1>22 DEF ClientInv

-----------------------------------------------------------------------------
(* The theorems                                                            *)

\* Every step, and every stutter, preserves the invariant.
LEMMA ClientStep == ClientInv /\ [ClientNext]_clientVars => ClientInv'
<1> SUFFICES ASSUME ClientInv, [ClientNext]_clientVars PROVE ClientInv'
  OBVIOUS
<1>1. CASE UNCHANGED clientVars
  BY <1>1 DEF clientVars, ClientInv, TypeInv, CallsInv, CallOK, NetInv, PostInv, PhaseInv,
              ExecutedInv, AnswerInv, OrderInv, SettingInv, Sets, ShownIdIsMine, Done
<1>2. ASSUME NEW w \in Wallets, NEW a \in Arguments(w), Call(w, a)
      PROVE  ClientInv'
  BY <1>2, CallStep
<1>3. ASSUME NEW w \in Wallets, NEW q \in Quotes, Payjoin(w, q)
      PROVE  ClientInv'
  BY <1>3, PayjoinStep
<1>4. ASSUME NEW m \in Requests,
             GiveChallenge(m) \/ RefuseChallenge(m) \/ Execute(m) \/ Refuse(m)
      PROVE  ClientInv'
  BY <1>4, GiveChallengeStep, RefuseChallengeStep, ExecuteStep, RefuseStep
<1>5. ASSUME NEW r \in Replies, Sign(r) \/ Return(r) \/ ChallengeRefused(r)
      PROVE  ClientInv'
  BY <1>5, SignStep, ReturnStep, ChallengeRefusedStep
<1>6. ASSUME NEW i \in DOMAIN calls, TimeOut(i)
      PROVE  ClientInv'
  BY <1>6, TimeOutStep
<1> QED BY <1>1, <1>2, <1>3, <1>4, <1>5, <1>6 DEF ClientNext

\* The inductive invariant: a call has one challenge, one signed post and at most one
\* execution, whatever is late, lost or repeated.
THEOREM ClientInvariant == ClientSpec => []ClientInv
<1>1. ClientInit => ClientInv
  BY DEF ClientInit, ClientInv, TypeInv, CallsInv, CallOK, NetInv, PostInv, PhaseInv,
         ExecutedInv, AnswerInv, OrderInv, SettingInv, Sets, ShownIdIsMine, Done
<1> QED BY <1>1, ClientStep, PTL DEF ClientSpec

\* OkMeansDone for any number of overlapping calls: a request that is delivered again
\* finds its challenge used, and no call can post under another's.
THEOREM CallsAreDoneOnce == ClientSpec => []OkMeansDone
<1>1. ClientInv => OkMeansDone
  <2> SUFFICES ASSUME ClientInv, NEW i \in DOMAIN calls, calls[i].op # "start"
               PROVE  /\ Cardinality(Executions(i)) <= 1
                      /\ calls[i].out = "Ok" => Executions(i) # {}
                      /\ \A n \in Executions(i) :
                            /\ executed[n].wallet = calls[i].wallet
                            /\ executed[n].op = calls[i].op /\ executed[n].body = calls[i].body
    BY DEF OkMeansDone
  <2>1. Cardinality(Executions(i)) <= 1
    <3>1. CASE Executions(i) = {}
      BY <3>1, FS_EmptySet
    <3>2. CASE Executions(i) # {}
      <4>1. PICK n \in Executions(i) : TRUE
        BY <3>2
      <4>2. Executions(i) = {n}
        BY <4>1 DEF Executions, ClientInv, ExecutedInv
      <4>3. Cardinality({n}) = 1
        BY FS_Singleton
      <4> QED BY <4>2, <4>3
    <3> QED BY <3>1, <3>2
  <2>2. calls[i].out = "Ok" => Executions(i) # {}
    BY DEF ClientInv, AnswerInv, Done, Executions
  <2>3. \A n \in Executions(i) :
          /\ executed[n].wallet = calls[i].wallet
          /\ executed[n].op = calls[i].op /\ executed[n].body = calls[i].body
    BY DEF ClientInv, ExecutedInv, Executions
  <2> QED BY <2>1, <2>2, <2>3
<1> QED BY <1>1, ClientInvariant, PTL

\* ShownIdIsMine for any wallets and any collisions of their short ids.
THEOREM ShownIdCorrect == ClientSpec => []ShownIdIsMine
BY ClientInvariant, PTL DEF ClientInv

\* SettingIsLatest: only a request the client gave up on can replace a later,
\* confirmed one.
THEOREM SettingCorrect == ClientSpec => []SettingIsLatest
<1>1. ClientInv => SettingIsLatest
  <2> SUFFICES ASSUME ClientInv, NEW w \in Wallets
               PROVE  LET sets == {i \in DOMAIN calls :
                                     calls[i].op = "discoverability" /\ calls[i].wallet = w} IN
                      IF setting[w] = None THEN \A i \in sets : calls[i].out # "Ok"
                      ELSE \E i \in sets : /\ calls[i].body = setting[w]
                                           /\ Executions(i) # {} /\ ~Superseded(i)
    BY DEF SettingIsLatest
  <2>1. CASE setting[w] = None
    <3>1. \A n \in DOMAIN executed : ~Sets(n, w)
      BY <2>1 DEF ClientInv, SettingInv
    <3>2. ASSUME NEW i \in DOMAIN calls, calls[i].op = "discoverability", calls[i].wallet = w,
                 calls[i].out = "Ok"
          PROVE  FALSE
      <4>1. Done(i)
        BY <3>2 DEF ClientInv, AnswerInv
      <4> QED BY <3>1, <3>2, <4>1 DEF Done, Sets, ClientInv, ExecutedInv
    <3> QED BY <2>1, <3>2
  <2>2. CASE setting[w] # None
    <3>1. PICK n \in DOMAIN executed :
            /\ Sets(n, w) /\ executed[n].body = setting[w]
            /\ \A k \in DOMAIN executed : Sets(k, w) => k <= n
      BY <2>2 DEF ClientInv, SettingInv
    <3> DEFINE i == executed[n].call
    <3>2. /\ i \in DOMAIN calls /\ calls[i].op = "discoverability" /\ calls[i].wallet = w
          /\ calls[i].body = setting[w] /\ Executions(i) # {}
      BY <3>1 DEF ClientInv, ExecutedInv, Sets, Executions
    <3>3. ~Superseded(i)
      <4> SUFFICES ASSUME NEW j \in DOMAIN calls, calls[j].op = "discoverability",
                          calls[j].wallet = w, calls[j].out = "Ok", i \in calls[j].before,
                          calls[i].out = "Ok"
                   PROVE  FALSE
        BY <3>2 DEF Superseded
      <4>1. PICK k \in DOMAIN executed : executed[k].call = j
        BY DEF ClientInv, AnswerInv, Done
      <4>2. Sets(k, w)
        BY <4>1 DEF ClientInv, ExecutedInv, Sets
      <4>3. n < k
        BY <3>2, <4>1 DEF ClientInv, OrderInv
      <4>4. n \in Nat /\ k \in Nat
        BY DEF ClientInv, TypeInv
      <4> QED BY <3>1, <4>2, <4>3, <4>4
    <3> HIDE DEF i
    <3> QED BY <2>2, <3>2, <3>3
  <2> QED BY <2>1, <2>2
<1> QED BY <1>1, ClientInvariant, PTL

=============================================================================
