------------------------- MODULE WalletSessionProofs -------------------------
(***************************************************************************)
(* Theorems about WalletSession, for any number of requests, answers,      *)
(* faults and frames in flight.                                            *)
(***************************************************************************)
EXTENDS WalletSession, WalletCoreProofs, SequenceTheorems

-----------------------------------------------------------------------------
(* The inductive invariant                                                 *)

Greetings == [msg: {"Challenge"}]
Verdicts == [msg: {"UserAction", "Error"}, id: 0..MaxActionId]
Listings == [msg: {"Login"}, listed: [SyncedKinds -> RequestMap]]
Creations == [msg: {"Created"}, kind: Kinds, id: Ids, body: Bodies]
Removals == [msg: {"Removed"}, kind: Kinds, id: Ids]
Messages == Greetings \cup Verdicts \cup Listings \cup Creations \cup Removals

\* The core's invariants, the types of everything else, and the socket: the core is
\* connected while the actor holds one, and only an open one carries frames.
SessionType ==
    /\ TypeOK /\ ScreenIsState /\ QueueInv
    /\ phase \in {"Connecting", "Sleeping", "Online"}
    /\ sock \in {"none", "open", "dead"}
    /\ connected <=> phase = "Online"
    /\ connected <=> sock # "none"
    /\ inputs \in Seq(TapInputs)
    /\ up \in Seq(Frames) /\ (sock # "open" => up = <<>>)
    /\ down \in Seq(Messages) /\ (sock = "none" => down = <<>>)
    /\ live \in [Kinds -> RequestMap]
    /\ authenticated \in BOOLEAN /\ (sock # "open" => ~authenticated)
    /\ used \subseteq Kinds \X Ids
    /\ taps \subseteq [op: {"Accept", "Reject"}, kind: Kinds, id: Ids, body: Bodies]
    /\ decided \in Seq(Actions) /\ Len(decided) = next_action_id - 1
    /\ applied \subseteq ActionIds \X Actions

\* What is queued, on its way or carried out is what was decided under that id, and
\* verdicts are about such ids.
ChainInv ==
    /\ \A i \in ActionIds : user_actions[i] # None =>
          i \in DOMAIN decided /\ decided[i] = user_actions[i]
    /\ \A p \in DOMAIN up : up[p].req = "UserAction" =>
          up[p].id \in DOMAIN decided /\ decided[up[p].id] = up[p].arg
    /\ \A e \in applied : e[1] \in DOMAIN decided /\ decided[e[1]] = e[2]
    /\ \A n \in DOMAIN down :
          /\ down[n].msg = "UserAction" => down[n].id \in DOMAIN decided
          /\ down[n].msg = "Error" => down[n].id \in DOMAIN decided \cup {0}

\* The connection state and the flag behind it.
StatusInv ==
    /\ StatusIsTrue
    /\ connected => (was_logged_in <=> login_succeed)

\* Whoever says what a request is: the server, a message on its way, the wallet, or
\* the screen the person answered from.
Tells(m, k, r, b) ==
    \/ m.msg = "Created" /\ m.kind = k /\ m.id = r /\ m.body = b
    \/ m.msg = "Login" /\ k \in SyncedKinds /\ m.listed[k][r] = b
Says(k, r, b) ==
    \/ live[k][r] = b
    \/ requests[k][r] = b
    \/ \E n \in DOMAIN down : Tells(down[n], k, r, b)
    \/ \E t \in taps : t.kind = k /\ t.id = r /\ t.body = b

\* They all say the same, because a request id is used once.
OneBodyInv ==
    \A k \in Kinds, r \in Ids, b \in Bodies : Says(k, r, b) =>
        <<k, r>> \in used /\ \A c \in Bodies : Says(k, r, c) => c = b

\* An answer as the person gave it.
Gave(t, a) ==
    /\ t.kind = a.kind /\ t.id = a.id
    /\ t.op = (IF a.op = "Accept" THEN "Accept" ELSE "Reject")
    /\ (a.kind = "SignMessage" /\ a.op = "Accept") => t.body = a.payload

ConsentInv ==
    /\ \A i \in DOMAIN decided : \E t \in taps : Gave(t, decided[i])
    /\ \A n \in DOMAIN inputs : \E t \in taps :
          t.op = inputs[n].op /\ t.kind = inputs[n].kind /\ t.id = inputs[n].id

\* On a working socket the wallet believes in a login only if the server does; an
\* action that reaches a server before the login is an early one.
LoginInv ==
    /\ sock = "open" /\ (login_succeed \/ \E n \in DOMAIN down : down[n].msg = "Login")
          => authenticated
    /\ \A p \in DOMAIN up : up[p].req = "UserAction" => authenticated \/ up[p].id \in early
    /\ \A n \in DOMAIN down :
          /\ down[n].msg = "UserAction" => down[n].id \in delivered
          /\ down[n].msg = "Error" => down[n].id \in delivered \cup early \cup {0}
    /\ BlipLosesOnlyEarly

\* The answers that are carried out, those whose request is closed for good, and those
\* on their way to the server.
Done == {e[1] : e \in applied}
Shut == {i \in DOMAIN decided : /\ live[decided[i].kind][decided[i].id] = None
                                /\ <<decided[i].kind, decided[i].id>> \in used}
OnWire == {up[p].id : p \in {q \in DOMAIN up : up[q].req = "UserAction"}}

\* What is carried out closes its request.  A refused answer can no longer be carried
\* out: its request is closed, or it was refused before the login, ahead of everything
\* that would make the wallet send it again.  Before the login a frame is sent once and
\* not carried out.
VerdictInv ==
    /\ Done \subseteq Shut
    /\ \A n \in DOMAIN down :
          /\ down[n].msg = "UserAction" => down[n].id \in Done
          /\ (down[n].msg = "Error" /\ down[n].id # 0) =>
                \/ down[n].id \in Shut
                \/ /\ down[n].id \notin OnWire /\ ~login_succeed
                   /\ \A m \in DOMAIN down : m < n => down[m].msg # "Login"
    /\ \A i \in refused : i \in settled /\ (i \in Shut \/ i \notin OnWire)
    /\ \A i \in settled : i \in refused \/ i \in Done
    /\ ~authenticated =>
          \A p \in DOMAIN up : up[p].req = "UserAction" =>
              /\ up[p].id \notin Done
              /\ \A q \in DOMAIN up : (up[q].req = "UserAction" /\ up[q].id = up[p].id) => q = p

\* Word that an answer was carried out is in flight, ahead of message n.
WordAhead(i, n) == \E m \in DOMAIN down : m < n /\ down[m].msg = "UserAction" /\ down[m].id = i
Word(i) == \E m \in DOMAIN down : down[m].msg = "UserAction" /\ down[m].id = i

\* Word of what is carried out is on its way, was heard or was lost; no refusal of it
\* is ahead of that word, so none is heard first.
HeardInv ==
    /\ \A i \in Done : i \in unheard \/ i \in settled \/ Word(i)
    /\ \A n \in DOMAIN down : (down[n].msg = "Error" /\ down[n].id \in Done) =>
          \/ down[n].id \in unheard \/ down[n].id \in settled
          \/ WordAhead(down[n].id, n)
    /\ \A i \in refused : i \in Done => i \in unheard

\* While logged in, what is pending is on its way or its request is closed; and an
\* answer that is not early is behind the earlier ones to the same request.
OrderInv ==
    /\ (login_succeed /\ sock = "open") => DOMAIN decided \subseteq settled \cup Shut \cup OnWire
    /\ \A p \in DOMAIN up : (up[p].req = "UserAction" /\ up[p].id \notin early) =>
          \A j \in DOMAIN decided :
              (/\ j < up[p].id
               /\ decided[j].kind = decided[up[p].id].kind
               /\ decided[j].id = decided[up[p].id].id) =>
                  \/ j \in settled \/ j \in Shut
                  \/ \E q \in DOMAIN up : q < p /\ up[q].req = "UserAction" /\ up[q].id = j
    /\ FirstAnswerWins

\* What a message says of a request: whether it is about it, and is right.
About(m, k, r) ==
    \/ m.msg \in {"Created", "Removed"} /\ m.kind = k /\ m.id = r
    \/ m.msg = "Login" /\ k \in SyncedKinds
Right(m, k, r) ==
    IF live[k][r] = None THEN \A b \in Bodies : ~Tells(m, k, r, b) ELSE Tells(m, k, r, live[k][r])

\* The last message in flight about a request is right; without one the wallet is.
InSync(k, r) ==
    /\ \A n \in DOMAIN down :
          (About(down[n], k, r) /\ \A q \in DOMAIN down : q > n => ~About(down[q], k, r)) =>
              Right(down[n], k, r)
    /\ (\A n \in DOMAIN down : ~About(down[n], k, r)) => requests[k][r] = live[k][r]

\* A login is due or done on a connection that the server has authenticated, and every
\* request is in sync, except for one that was missed or that the login will list.
SyncInv ==
    /\ (sock = "open" /\ authenticated) =>
          login_succeed \/ \E n \in DOMAIN down : down[n].msg = "Login"
    /\ \A k \in Kinds, r \in Ids :
          \/ <<k, r>> \in missed
          \/ k \in SyncedKinds /\ ~(sock = "open" /\ authenticated)
          \/ InSync(k, r)

-----------------------------------------------------------------------------
(* What each step of the session does                                      *)

\* The parts of a message.
LEMMA MessageParts ==
    ASSUME NEW m \in Messages
    PROVE  /\ m.msg \in {"Challenge", "Login", "UserAction", "Error", "Created", "Removed"}
           /\ m.msg = "Login" => m.listed \in [SyncedKinds -> RequestMap]
           /\ m.msg \in {"UserAction", "Error"} => m.id \in 0..MaxActionId
           /\ m.msg = "Created" => m.kind \in Kinds /\ m.id \in Ids /\ m.body \in Bodies
           /\ m.msg = "Removed" => m.kind \in Kinds /\ m.id \in Ids
BY DEF Messages, Greetings, Verdicts, Listings, Creations, Removals

\* The frames of a step are appended to `up` in the order of their ids, all of them,
\* or swallowed.
LEMMA SentFrames ==
    ASSUME up \in Seq(Frames), effects'.send \subseteq Frames, SendFrames
    PROVE  /\ up' \in Seq(Frames) /\ DOMAIN up \subseteq DOMAIN up'
           /\ \A p \in DOMAIN up : up'[p] = up[p]
           /\ \A p \in DOMAIN up' \ DOMAIN up : up'[p] \in effects'.send /\ p > Len(up)
           /\ sock' # "open" => up' = up
           /\ sock' = "open" => \A f \in effects'.send :
                 \E p \in DOMAIN up' \ DOMAIN up : up'[p] = f
           /\ \A p, q \in DOMAIN up' \ DOMAIN up : p < q => up'[p].id < up'[q].id
<1>1. CASE sock' # "open"
  BY <1>1 DEF SendFrames
<1>2. CASE sock' = "open"
  <2>1. PICK s \in InOrder(effects'.send) : up' = up \o s
    BY <1>2 DEF SendFrames
  <2>2. PICK n \in 0..(MaxActionId + 1) : s \in [1..n -> effects'.send]
    BY <2>1 DEF InOrder, Lineups
  <2>3. n \in Nat /\ s \in Seq(Frames) /\ Len(s) = n /\ DOMAIN s = 1..n
    BY <2>2, BoundAssumption
  <2>4. /\ up' \in Seq(Frames) /\ Len(up') = Len(up) + n /\ DOMAIN up' = 1..(Len(up) + n)
        /\ DOMAIN up = 1..Len(up) /\ Len(up) \in Nat
        /\ \A p \in DOMAIN up : up'[p] = up[p]
        /\ \A p \in DOMAIN s : up'[Len(up) + p] = s[p]
    <3>1. /\ up' \in Seq(Frames) /\ Len(up') = Len(up) + Len(s)
          /\ \A i \in 1..(Len(up) + Len(s)) :
                up'[i] = IF i <= Len(up) THEN up[i] ELSE s[i - Len(up)]
      BY <2>1, <2>3, ConcatProperties
    <3>2. DOMAIN up = 1..Len(up) /\ Len(up) \in Nat /\ DOMAIN up' = 1..Len(up')
      BY <3>1
    <3> QED BY <2>3, <3>1, <3>2
  <2>5. \A p \in DOMAIN up' \ DOMAIN up : p - Len(up) \in 1..n /\ up'[p] = s[p - Len(up)]
    BY <2>3, <2>4
  <2>6. \A f \in effects'.send : \E i \in DOMAIN s : s[i] = f
    BY <2>1 DEF InOrder, Lineups
  <2>7. \A i, j \in DOMAIN s : i < j => s[i].id < s[j].id
    BY <2>1 DEF InOrder
  <2>8. \A f \in effects'.send : \E p \in DOMAIN up' \ DOMAIN up : up'[p] = f
    <3> TAKE f \in effects'.send
    <3>1. PICK i \in DOMAIN s : s[i] = f
      BY <2>6
    <3>2. Len(up) + i \in DOMAIN up' \ DOMAIN up /\ up'[Len(up) + i] = f
      BY <2>3, <2>4, <3>1
    <3> QED BY <3>2
  <2>9. \A p, q \in DOMAIN up' \ DOMAIN up : p < q => up'[p].id < up'[q].id
    <3> TAKE p, q \in DOMAIN up' \ DOMAIN up
    <3>1. p - Len(up) \in 1..n /\ q - Len(up) \in 1..n /\ (p < q => p - Len(up) < q - Len(up))
      BY <2>4, <2>5
    <3> QED BY <2>3, <2>5, <2>7, <3>1
  <2> QED BY <1>2, <2>2, <2>4, <2>5, <2>8, <2>9
<1> QED BY <1>1, <1>2

\* Every step of the session is a step of the core, or leaves it alone.
LEMMA CoreStep ==
    ASSUME SessionType, [SessionNext]_sessionVars
    PROVE  [Next]_vars
<1>1. CASE Attempt
  BY <1>1 DEF Attempt, Next
<1>2. CASE ReadFrame
  <2> DEFINE m == Head(down)
  <2>1. m \in Messages /\ Recv(m)
    BY <1>2 DEF ReadFrame, SessionType
  <2>2. [d \in Domains |-> None] \in Snapshots
    BY DEF Snapshots
  <2> HIDE DEF m
  <2>3. ServerStep
    BY <2>1, <2>2, MessageParts DEF Recv, ServerStep
  <2> QED BY <2>3 DEF Next
<1>3. CASE TakeInput
  <2> DEFINE t == Head(inputs)
  <2>1. t \in TapInputs /\ HandleTap(t)
    BY <1>3 DEF TakeInput, T!TakeInput, SessionType
  <2> HIDE DEF t
  <2>2. t.kind \in Kinds /\ t.id \in Ids
    BY <2>1 DEF TapInputs
  <2>3. HostStep
    BY <2>1, <2>2 DEF HandleTap, HostStep
  <2> QED BY <2>3 DEF Next
<1>4. CASE ConnectionLost
  BY <1>4 DEF ConnectionLost, Next
<1>5. CASE AttemptFails \/ Wake \/ SocketDies \/ ServerReads \/ UNCHANGED sessionVars
  BY <1>5 DEF AttemptFails, Wake, SocketDies, ServerReads, sessionVars
<1>6. ASSUME NEW k \in Kinds, NEW r \in Ids,
             \/ \E op \in {"Accept", "Reject"} : Tap(op, k, r)
             \/ \E body \in Bodies : ServerCreates(k, r, body)
             \/ ServerExpires(k, r)
      PROVE  UNCHANGED vars
  BY <1>6 DEF Tap, ServerCreates, ServerExpires
<1> QED BY <1>1, <1>2, <1>3, <1>4, <1>5, <1>6 DEF SessionNext

\* What the actor does with one message of the server.
LEMMA ReadEffect ==
    ASSUME SessionType, ReadFrame
    PROVE  LET m == Head(down) IN
           /\ connected /\ connected' /\ down # <<>> /\ m \in Messages /\ down' = Tail(down)
           /\ UNCHANGED <<phase, inputs, sock, live, authenticated, used, taps, applied,
                          delivered, unheard, missed, next_action_id, decided, early>>
           /\ SendFrames
           /\ refused' = IF effects'.failed = {} THEN refused ELSE refused \cup (settled' \ settled)
           /\ \/ /\ m.msg = "Challenge" /\ effects'.send = {send(0, "Login", None)}
                 /\ UNCHANGED <<login_succeed, requests, user_actions, settled>>
                 /\ effects'.failed = {}
              \/ /\ m.msg = "Login" /\ effects'.send = Replay \cup FcmFrame(fcm_token, TRUE)
                 /\ login_succeed' /\ requests' = Sync(m.listed)
                 /\ UNCHANGED <<user_actions, settled>> /\ effects'.failed = {}
              \/ /\ m.msg \in {"UserAction", "Error"} /\ effects'.send = {}
                 /\ user_actions' =
                       [i \in ActionIds |-> IF i = m.id THEN None ELSE user_actions[i]]
                 /\ settled' = settled \cup
                                 {i \in {m.id} : i \in ActionIds /\ user_actions[i] # None}
                 /\ effects'.failed =
                       IF m.msg = "UserAction" THEN {}
                       ELSE {user_actions[i] : i \in {j \in {m.id} : j \in ActionIds
                                                                    /\ user_actions[j] # None}}
                 /\ UNCHANGED <<login_succeed, requests>>
              \/ /\ m.msg = "Created" /\ effects'.send = {}
                 /\ requests' = [requests EXCEPT ![m.kind][m.id] = m.body]
                 /\ UNCHANGED <<login_succeed, user_actions, settled>> /\ effects'.failed = {}
              \/ /\ m.msg = "Removed" /\ effects'.send = {}
                 /\ requests' = [requests EXCEPT ![m.kind][m.id] = None]
                 /\ UNCHANGED <<login_succeed, user_actions, settled>> /\ effects'.failed = {}
<1> DEFINE m == Head(down)
<1>1. m \in Messages /\ Recv(m) /\ down # <<>> /\ down' = Tail(down) /\ SendFrames /\ Note
  BY DEF ReadFrame, SessionType
<1>2. UNCHANGED <<phase, inputs, sock, live, authenticated, used, taps, applied, delivered,
                  unheard, missed>>
  BY DEF ReadFrame, actor, server
<1> HIDE DEF m
<1>3. UNCHANGED next_action_id /\ connected /\ connected'
  BY <1>1 DEF Recv, RecvChallenge, RecvLogin, RecvUserAction, RecvError, RequestCreated,
              RequestRemoved, core, queueVars
<1>4. /\ UNCHANGED <<decided, early>>
      /\ refused' = IF effects'.failed = {} THEN refused ELSE refused \cup (settled' \ settled)
  BY <1>1, <1>3 DEF Note
<1>5. \/ /\ m.msg = "Challenge" /\ effects'.send = {send(0, "Login", None)}
         /\ UNCHANGED <<login_succeed, requests, user_actions, settled>>
         /\ effects'.failed = {}
      \/ /\ m.msg = "Login" /\ effects'.send = Replay \cup FcmFrame(fcm_token, TRUE)
         /\ login_succeed' /\ requests' = Sync(m.listed)
         /\ UNCHANGED <<user_actions, settled>> /\ effects'.failed = {}
      \/ /\ m.msg \in {"UserAction", "Error"} /\ effects'.send = {}
         /\ user_actions' = [i \in ActionIds |-> IF i = m.id THEN None ELSE user_actions[i]]
         /\ settled' = settled \cup {i \in {m.id} : i \in ActionIds /\ user_actions[i] # None}
         /\ effects'.failed =
               IF m.msg = "UserAction" THEN {}
               ELSE {user_actions[i] : i \in {j \in {m.id} : j \in ActionIds
                                                            /\ user_actions[j] # None}}
         /\ UNCHANGED <<login_succeed, requests>>
      \/ /\ m.msg = "Created" /\ effects'.send = {}
         /\ requests' = [requests EXCEPT ![m.kind][m.id] = m.body]
         /\ UNCHANGED <<login_succeed, user_actions, settled>> /\ effects'.failed = {}
      \/ /\ m.msg = "Removed" /\ effects'.send = {}
         /\ requests' = [requests EXCEPT ![m.kind][m.id] = None]
         /\ UNCHANGED <<login_succeed, user_actions, settled>> /\ effects'.failed = {}
  <2> USE DEF Return, NoEffects
  <2>1. CASE m.msg = "Challenge" /\ RecvChallenge
    BY <2>1 DEF RecvChallenge, core
  <2>2. CASE m.msg = "Login" /\ RecvLogin(m.listed, [d \in Domains |-> None])
    BY <2>2 DEF RecvLogin, queueVars
  <2>3. CASE m.msg = "UserAction" /\ RecvUserAction(m.id)
    BY <2>3 DEF RecvUserAction
  <2>4. CASE m.msg = "Error" /\ RecvError(m.id)
    BY <2>4 DEF RecvError
  <2>5. CASE m.msg = "Created" /\ RequestCreated(m.kind, m.id, m.body)
    BY <2>5 DEF RequestCreated, queueVars
  <2>6. CASE m.msg = "Removed" /\ RequestRemoved(m.kind, m.id)
    BY <2>6 DEF RequestRemoved, queueVars
  <2> QED BY <1>1, <2>1, <2>2, <2>3, <2>4, <2>5, <2>6 DEF Recv
<1> QED BY <1>1, <1>2, <1>3, <1>4, <1>5 DEF m

\* What the actor does with one answer of the person: it is queued, and sent at once,
\* or dropped.
LEMMA TakeEffect ==
    ASSUME SessionType, TakeInput
    PROVE  LET t == Head(inputs) IN
           /\ connected /\ connected' /\ inputs # <<>> /\ t \in TapInputs /\ inputs' = Tail(inputs)
           /\ UNCHANGED <<phase, sock, down, live, authenticated, used, taps, applied, delivered,
                          unheard, missed, requests, login_succeed, settled, refused,
                          was_logged_in, status>>
           /\ SendFrames
           /\ \/ UNCHANGED <<user_actions, next_action_id, decided, early>> /\ effects'.send = {}
              \/ \E a \in Actions :
                    /\ a.kind = t.kind /\ a.id = t.id
                    /\ t.op = (IF a.op = "Accept" THEN "Accept" ELSE "Reject")
                    /\ (a.kind = "SignMessage" /\ a.op = "Accept") =>
                          a.payload = requests[a.kind][a.id] /\ a.payload \in Bodies
                    /\ next_action_id \in ActionIds /\ next_action_id' = next_action_id + 1
                    /\ user_actions' = [user_actions EXCEPT ![next_action_id] = a]
                    /\ decided' = Append(decided, a)
                    /\ early' = IF login_succeed THEN early ELSE early \cup {next_action_id}
                    /\ effects'.send = {send(next_action_id, "UserAction", a)}
<1> DEFINE t == Head(inputs)
<1>1. /\ t \in TapInputs /\ HandleTap(t) /\ inputs # <<>> /\ inputs' = Tail(inputs)
      /\ SendFrames /\ Note /\ connected
      /\ UNCHANGED <<phase, sock, down, live, authenticated, used, taps, applied, delivered,
                     unheard, missed, was_logged_in, status>>
  BY DEF TakeInput, T!TakeInput, SessionType, server
<1> HIDE DEF t
<1>2. t.kind \in Kinds /\ t.id \in Ids /\ t.op \in {"Accept", "Reject"}
  BY <1>1 DEF TapInputs
<1>3. HostStep
  BY <1>1, <1>2 DEF HandleTap, HostStep
<1>4. UNCHANGED <<requests, login_succeed, settled, connected>>
  BY <1>3, QuietHostStep DEF SessionType
<1>5. refused' = refused
  BY <1>1, <1>4 DEF Note
<1>6. \/ DropAnswer(t.id)
      \/ \E a \in Actions :
            /\ Answer(a) /\ a.kind = t.kind /\ a.id = t.id
            /\ t.op = (IF a.op = "Accept" THEN "Accept" ELSE "Reject")
            /\ (a.kind = "SignMessage" /\ a.op = "Accept") =>
                  a.payload = requests[a.kind][a.id] /\ a.payload \in Bodies
  <2> USE KindsAssumption DEF AllKinds, Payloads
  <2>1. CASE t.op = "Reject" /\ Rejected(t.kind, t.id)
    <3> DEFINE a == Action("Cancel", t.kind, t.id, "Nothing")
    <3>1. a \in Actions /\ a.kind = t.kind /\ a.id = t.id /\ a.op = "Cancel"
      BY <1>2, ActionType DEF Action
    <3>2. Answer(a)
      BY <2>1 DEF Rejected
    <3> HIDE DEF a
    <3> QED BY <2>1, <3>1, <3>2
  <2>2. CASE t.op = "Accept" /\ t.kind = "Login" /\ LoginAccepted(t.id, TRUE)
    <3> DEFINE a == Action("Accept", "Login", t.id, "Bound")
    <3>1. a \in Actions /\ a.kind = "Login" /\ a.id = t.id /\ a.op = "Accept"
      BY <1>2, ActionType DEF Action
    <3>2. Answer(a)
      BY <2>2 DEF LoginAccepted
    <3> HIDE DEF a
    <3> QED BY <2>2, <3>1, <3>2
  <2>3. CASE t.op = "Accept" /\ t.kind = "Sign" /\ SignAccepted(t.id)
    <3> DEFINE a == Action("Accept", "Sign", t.id, "FromHost")
    <3>1. a \in Actions /\ a.kind = "Sign" /\ a.id = t.id /\ a.op = "Accept"
      BY <1>2, ActionType DEF Action
    <3>2. Answer(a)
      BY <2>3 DEF SignAccepted
    <3> HIDE DEF a
    <3> QED BY <2>3, <3>1, <3>2
  <2>4. CASE t.op = "Accept" /\ t.kind = "SignMessage" /\ SignMessageAccepted(t.id)
    <3>1. CASE ~Signable(t.id)
      BY <2>4, <3>1 DEF SignMessageAccepted
    <3>2. CASE Signable(t.id)
      <4> DEFINE a == Action("Accept", "SignMessage", t.id, requests["SignMessage"][t.id])
      <4>1. requests["SignMessage"][t.id] \in Bodies
        BY <1>2, <2>4, <3>2 DEF Signable, Held, SessionType, TypeOK, RequestMap
      <4>2. /\ a \in Actions /\ a.kind = "SignMessage" /\ a.id = t.id /\ a.op = "Accept"
            /\ a.payload = requests["SignMessage"][t.id]
        BY <1>2, <4>1, ActionType DEF Action
      <4>3. Answer(a)
        BY <2>4, <3>2 DEF SignMessageAccepted
      <4> HIDE DEF a
      <4> QED BY <2>4, <4>1, <4>2, <4>3
    <3> QED BY <3>1, <3>2
  <2>5. CASE t.op = "Accept" /\ t.kind \in HostAnsweredKinds /\ HostAnswered(t.kind, t.id)
    <3> DEFINE a == Action("Accept", t.kind, t.id, "FromHost")
    <3>1. a \in Actions /\ a.kind = t.kind /\ a.id = t.id /\ a.op = "Accept"
      BY <1>2, ActionType DEF Action
    <3>2. Answer(a) \/ DropAnswer(t.id)
      BY <2>5 DEF HostAnswered, AnswerIfLive
    <3>3. t.kind # "SignMessage"
      BY <2>5 DEF HostAnsweredKinds
    <3> HIDE DEF a
    <3> QED BY <2>5, <3>1, <3>2, <3>3
  <2> QED BY <1>1, <2>1, <2>2, <2>3, <2>4, <2>5 DEF HandleTap
<1>7. CASE DropAnswer(t.id)
  <2>1. UNCHANGED <<user_actions, next_action_id>> /\ effects'.send = {}
    BY <1>7 DEF DropAnswer, finish_request, Return, NoEffects, queueVars
  <2>2. UNCHANGED <<decided, early>>
    BY <1>1, <2>1 DEF Note
  <2> QED BY <1>1, <1>4, <1>5, <2>1, <2>2 DEF t
<1>8. ASSUME NEW a \in Actions, Answer(a)
      PROVE  /\ next_action_id \in ActionIds /\ next_action_id' = next_action_id + 1
             /\ user_actions' = [user_actions EXCEPT ![next_action_id] = a]
             /\ decided' = Append(decided, a)
             /\ early' = IF login_succeed THEN early ELSE early \cup {next_action_id}
             /\ effects'.send = {send(next_action_id, "UserAction", a)}
  <2>1. add_user_action(a)
    BY <1>8 DEF Answer
  <2>2. next_action_id \in ActionIds /\ next_action_id \in Nat
    BY <2>1, QueueType DEF SessionType, TypeOK
  <2>3. /\ next_action_id' = next_action_id + 1
        /\ user_actions' = [user_actions EXCEPT ![next_action_id] = a]
    BY <2>1 DEF add_user_action
  <2>4. next_action_id' # next_action_id /\ user_actions'[next_action_id] = a
    BY <2>2, <2>3 DEF SessionType, TypeOK
  <2>5. /\ decided' = Append(decided, a)
        /\ early' = IF login_succeed THEN early ELSE early \cup {next_action_id}
    BY <1>1, <2>4 DEF Note
  <2>6. effects'.send = {send(next_action_id, "UserAction", a)}
    BY <1>1, <1>8 DEF Answer, finish_request, Return, NoEffects, ActionFrame
  <2> QED BY <2>2, <2>3, <2>5, <2>6
<1> QED BY <1>1, <1>4, <1>5, <1>6, <1>7, <1>8 DEF t

\* The elements of a sequence that loses its head, gains an element or is cut short.
LEMMA TailParts ==
    ASSUME NEW S, NEW s \in Seq(S), s # <<>>
    PROVE  /\ Tail(s) \in Seq(S) /\ 1 \in DOMAIN s /\ s[1] = Head(s) /\ Head(s) \in S
           /\ \A n \in DOMAIN Tail(s) : n \in Nat \ {0} /\ n + 1 \in DOMAIN s /\ Tail(s)[n] = s[n + 1]
           /\ \A n \in DOMAIN s : n = 1 \/ (n - 1 \in DOMAIN Tail(s) /\ Tail(s)[n - 1] = s[n])
OBVIOUS

\* (Append.)
LEMMA AppendParts ==
    ASSUME NEW S, NEW s \in Seq(S), NEW e \in S
    PROVE  /\ Append(s, e) \in Seq(S) /\ Len(Append(s, e)) = Len(s) + 1
           /\ DOMAIN Append(s, e) = DOMAIN s \cup {Len(s) + 1} /\ Append(s, e)[Len(s) + 1] = e
           /\ Len(s) + 1 \in Nat \ {0} /\ Len(s) + 1 \notin DOMAIN s
           /\ \A n \in DOMAIN s : Append(s, e)[n] = s[n] /\ n < Len(s) + 1 /\ n \in Nat \ {0}
OBVIOUS

\* (Two at once.)
LEMMA AppendTwo ==
    ASSUME NEW S, NEW s \in Seq(S), NEW e \in S, NEW f \in S
    PROVE  s \o <<e, f>> = Append(Append(s, e), f)
<1> DEFINE two == <<e, f>>
           t == Append(Append(s, e), f)
<1>1. two \in Seq(S) /\ Len(two) = 2 /\ two[1] = e /\ two[2] = f
  OBVIOUS
<1> HIDE DEF two
<1>2. /\ s \o two \in Seq(S) /\ Len(s \o two) = Len(s) + 2
      /\ \A i \in 1..(Len(s) + 2) : (s \o two)[i] = IF i <= Len(s) THEN s[i] ELSE two[i - Len(s)]
  <2>1. /\ s \o two \in Seq(S) /\ Len(s \o two) = Len(s) + Len(two)
        /\ \A i \in 1..(Len(s) + Len(two)) :
              (s \o two)[i] = IF i <= Len(s) THEN s[i] ELSE two[i - Len(s)]
    BY <1>1, ConcatProperties, Zenon
  <2> QED BY <1>1, <2>1, Zenon
<1>3. /\ t \in Seq(S) /\ Len(t) = Len(s) + 2 /\ t[Len(s) + 1] = e /\ t[Len(s) + 2] = f
      /\ \A i \in 1..Len(s) : t[i] = s[i]
  OBVIOUS
<1> HIDE DEF t
<1>4. \A i \in 1..(Len(s) + 2) : (s \o two)[i] = t[i]
  <2> TAKE i \in 1..(Len(s) + 2)
  <2>1. Len(s) \in Nat /\ (i \in 1..Len(s) \/ i = Len(s) + 1 \/ i = Len(s) + 2)
    OBVIOUS
  <2>2. i = Len(s) + 1 => i - Len(s) = 1 /\ ~(i <= Len(s))
    BY <2>1
  <2>3. i = Len(s) + 2 => i - Len(s) = 2 /\ ~(i <= Len(s))
    BY <2>1
  <2> QED BY <1>1, <1>2, <1>3, <2>1, <2>2, <2>3
<1>5. s \o two = t
  BY <1>2, <1>3, <1>4, SeqEqual
<1> QED BY <1>5 DEF two, t

\* (A prefix.)
LEMMA PrefixParts ==
    ASSUME NEW S, NEW s \in Seq(S), NEW n \in 0..Len(s)
    PROVE  /\ SubSeq(s, 1, n) \in Seq(S) /\ DOMAIN SubSeq(s, 1, n) = 1..n
           /\ \A i \in 1..n : i \in DOMAIN s /\ SubSeq(s, 1, n)[i] = s[i]
           /\ DOMAIN SubSeq(s, n + 1, Len(s)) = 1..(Len(s) - n)
           /\ \A i \in 1..(Len(s) - n) : SubSeq(s, n + 1, Len(s))[i] = s[n + i]
OBVIOUS

\* Messages the server writes.
LEMMA MessageTypes ==
    ASSUME SessionType
    PROVE  /\ Msg("Challenge") \in Messages /\ Snapshot \in Messages
           /\ \A i \in 0..MaxActionId : Ack(i) \in Messages /\ Refusal(i) \in Messages
           /\ \A k \in Kinds, r \in Ids :
                 /\ Removed(k, r) \in Messages
                 /\ \A b \in Bodies : Created(k, r, b) \in Messages
<1>1. Snapshot \in Listings
  <2>1. [k \in SyncedKinds |-> live[k]] \in [SyncedKinds -> RequestMap]
    BY DEF SessionType, SyncedKinds
  <2> QED BY <2>1 DEF Snapshot, Listings
<1>2. Msg("Challenge") \in Greetings
  BY DEF Msg, Greetings
<1>3. \A i \in 0..MaxActionId : Ack(i) \in Verdicts /\ Refusal(i) \in Verdicts
  BY DEF Ack, Refusal, Verdicts
<1>4. \A k \in Kinds, r \in Ids :
        /\ Removed(k, r) \in Removals
        /\ \A b \in Bodies : Created(k, r, b) \in Creations
  BY DEF Removed, Created, Removals, Creations
<1> QED BY <1>1, <1>2, <1>3, <1>4 DEF Messages

\* What is in them.
LEMMA MessageFields ==
    /\ Msg("Challenge").msg = "Challenge" /\ Snapshot.msg = "Login"
    /\ Snapshot.listed = [k \in SyncedKinds |-> live[k]]
    /\ \A i : /\ Ack(i).msg = "UserAction" /\ Ack(i).id = i
              /\ Refusal(i).msg = "Error" /\ Refusal(i).id = i
    /\ \A k, r : /\ Removed(k, r).msg = "Removed" /\ Removed(k, r).kind = k /\ Removed(k, r).id = r
    /\ \A k, r, b : /\ Created(k, r, b).msg = "Created" /\ Created(k, r, b).kind = k
                    /\ Created(k, r, b).id = r /\ Created(k, r, b).body = b
BY DEF Msg, Snapshot, Ack, Refusal, Removed, Created

\* What a step adds behind the messages in flight.
Behind(x) ==
    /\ down' \in Seq(Messages) /\ DOMAIN down \subseteq DOMAIN down'
    /\ \A n \in DOMAIN down : down'[n] = down[n]
    /\ \A n \in DOMAIN down' \ DOMAIN down : down'[n] \in x /\ n > Len(down)
    /\ \A m \in x : \E n \in DOMAIN down' \ DOMAIN down : down'[n] = m

\* One message is added, or two.
LEMMA DownGrows ==
    ASSUME SessionType, NEW x \in Messages
    PROVE  /\ down' = Append(down, x) => Behind({x})
           /\ \A y \in Messages : down' = down \o <<x, y>> => Behind({x, y})
<1>0. down \in Seq(Messages)
  BY DEF SessionType
<1>1. ASSUME down' = Append(down, x) PROVE Behind({x})
  <2>1. /\ Append(down, x) \in Seq(Messages)
        /\ DOMAIN Append(down, x) = DOMAIN down \cup {Len(down) + 1}
        /\ Append(down, x)[Len(down) + 1] = x /\ Len(down) + 1 \notin DOMAIN down
        /\ \A n \in DOMAIN down : Append(down, x)[n] = down[n]
    BY <1>0, AppendParts
  <2>2. Len(down) + 1 > Len(down)
    BY <1>0
  <2> QED BY <1>1, <2>1, <2>2 DEF Behind
<1>2. ASSUME NEW y \in Messages, down' = down \o <<x, y>> PROVE Behind({x, y})
  <2> DEFINE d == Append(down, x)
             n1 == Len(down) + 1
             n2 == Len(d) + 1
  <2>1. down' = Append(d, y)
    BY <1>0, <1>2, AppendTwo
  <2>2. /\ d \in Seq(Messages) /\ Len(d) = Len(down) + 1
        /\ DOMAIN d = DOMAIN down \cup {n1} /\ d[n1] = x /\ n1 \notin DOMAIN down
        /\ \A n \in DOMAIN down : d[n] = down[n] /\ n < n1
    BY <1>0, AppendParts
  <2> HIDE DEF d
  <2>3. /\ down' \in Seq(Messages)
        /\ DOMAIN down' = DOMAIN d \cup {n2} /\ down'[n2] = y /\ n2 \notin DOMAIN d
        /\ \A n \in DOMAIN d : down'[n] = d[n]
    BY <2>1, <2>2, AppendParts
  <2>4. n1 > Len(down) /\ n2 > Len(down)
    BY <1>0, <2>2
  <2> HIDE DEF n1, n2
  <2> QED BY <2>2, <2>3, <2>4 DEF Behind
<1> QED BY <1>1, <1>2

\* A user action on its way is one that the person gave.
LEMMA FrameKnown ==
    ASSUME SessionType, ChainInv, ConsentInv, NEW p \in DOMAIN up, up[p].req = "UserAction"
    PROVE  /\ up[p].id \in DOMAIN decided /\ up[p].id \in ActionIds /\ up[p].arg \in Actions
           /\ up[p].arg = decided[up[p].id]
           /\ up[p].arg.kind \in Kinds /\ up[p].arg.id \in Ids
<1>1. up[p].id \in DOMAIN decided /\ decided[up[p].id] = up[p].arg
  BY DEF ChainInv
<1>2. PICK t \in taps : Gave(t, decided[up[p].id])
  BY <1>1 DEF ConsentInv
<1>3. t.kind \in Kinds /\ t.id \in Ids
  BY DEF SessionType
<1>4. up[p].arg \in Actions
  BY <1>1 DEF SessionType
<1>5. up[p].id \in ActionIds
  <2>1. up[p].id \in 1..Len(decided)
    BY <1>1 DEF SessionType
  <2>2. Len(decided) = next_action_id - 1 /\ next_action_id \in 1..(MaxActionId + 1)
    BY DEF SessionType, TypeOK
  <2> QED BY <2>1, <2>2, BoundAssumption DEF ActionIds
<1> QED BY <1>1, <1>2, <1>3, <1>4, <1>5 DEF Gave

\* What the server does with one frame.
LEMMA ServerEffect ==
    ASSUME SessionType, ChainInv, ConsentInv, ServerReads
    PROVE  LET f == Head(up)
               i == f.id
               a == f.arg
           IN
           /\ sock = "open" /\ up # <<>> /\ f \in Frames /\ up' = Tail(up)
           /\ UNCHANGED <<connected, login_succeed, requests, user_actions, next_action_id, settled,
                          phase, inputs, sock, was_logged_in, status, used, decided, early, taps,
                          refused, unheard, missed>>
           /\ f.req = "UserAction" => /\ i \in DOMAIN decided /\ i \in ActionIds /\ a \in Actions
                                      /\ a = decided[i] /\ a.kind \in Kinds /\ a.id \in Ids
           /\ \/ /\ f.req \in {"Challenge", "Login"}
                 /\ UNCHANGED <<live, applied, delivered, authenticated>>
                 /\ Behind({Msg("Challenge")}) \/ Behind({Refusal(0)})
              \/ /\ f.req = "Login"
                 /\ authenticated' = TRUE /\ Behind({Snapshot})
                 /\ UNCHANGED <<live, applied, delivered>>
              \/ /\ f.req = "UserAction" /\ authenticated /\ live[a.kind][a.id] # None
                 /\ delivered' = delivered \cup {i}
                 /\ live' = [live EXCEPT ![a.kind][a.id] = None]
                 /\ applied' = applied \cup {<<i, a>>}
                 /\ Behind({Removed(a.kind, a.id), Ack(i)})
                 /\ UNCHANGED authenticated
              \/ /\ f.req = "UserAction" /\ authenticated /\ live[a.kind][a.id] = None
                 /\ delivered' = delivered \cup {i}
                 /\ Behind({Refusal(i)}) \/ (<<i, a>> \in applied /\ Behind({Ack(i)}))
                 /\ UNCHANGED <<live, applied, authenticated>>
              \/ /\ f.req = "UserAction" /\ ~authenticated
                 /\ Behind({Refusal(i)}) \/ Behind({})
                 /\ UNCHANGED <<live, applied, delivered, authenticated>>
<1> DEFINE f == Head(up)
           i == f.id
           a == f.arg
<1>1. sock = "open" /\ up # <<>> /\ up' = Tail(up) /\ up \in Seq(Frames)
  BY DEF ServerReads, SessionType
<1>2. UNCHANGED <<connected, login_succeed, requests, user_actions, next_action_id, settled,
                  phase, inputs, sock, was_logged_in, status, used, decided, early, taps,
                  refused, unheard, missed>>
  BY DEF ServerReads, actor, vars, core, history
<1>3. f \in Frames /\ 1 \in DOMAIN up /\ up[1] = f
  BY <1>1, TailParts
<1>4. f.req = "UserAction" => /\ i \in DOMAIN decided /\ i \in ActionIds /\ a \in Actions
                              /\ a = decided[i] /\ a.kind \in Kinds /\ a.id \in Ids
  BY <1>3, FrameKnown
<1>5. i \in 0..MaxActionId
  BY <1>3 DEF Frames
<1> HIDE DEF f
<1>6. CASE /\ f.req = "Challenge"
           /\ down' = Append(down, Msg("Challenge"))
           /\ UNCHANGED <<live, authenticated, denied, applied, delivered>>
  BY <1>1, <1>2, <1>3, <1>4, <1>6, MessageTypes, DownGrows DEF f
<1>7. CASE /\ f.req = "Login"
           /\ authenticated' = TRUE
           /\ down' = Append(down, Snapshot)
           /\ UNCHANGED <<live, denied, applied, delivered>>
  BY <1>1, <1>2, <1>3, <1>4, <1>7, MessageTypes, DownGrows DEF f
<1>8. CASE /\ f.req \in {"Challenge", "Login"} /\ ServerMayDeny
           /\ denied' = TRUE
           /\ down' = Append(down, Refusal(0))
           /\ UNCHANGED <<live, authenticated, applied, delivered>>
  <2>1. Refusal(0) \in Messages
    BY MessageTypes, BoundAssumption
  <2> QED BY <1>1, <1>2, <1>3, <1>4, <1>8, <2>1, DownGrows DEF f
<1>9. CASE f.req = "UserAction" /\ authenticated /\ ServerActs(f)
  <2>1. Ack(i) \in Messages /\ Refusal(i) \in Messages /\ Removed(a.kind, a.id) \in Messages
    BY <1>4, <1>5, <1>9, MessageTypes
  <2>2. CASE live[a.kind][a.id] # None
    <3>1. Behind({Removed(a.kind, a.id), Ack(i)})
      <4>1. \/ down' = down \o <<Removed(a.kind, a.id), Ack(i)>>
            \/ down' = down \o <<Ack(i), Removed(a.kind, a.id)>>
        BY <1>9, <2>2 DEF ServerActs
      <4>2. {Ack(i), Removed(a.kind, a.id)} = {Removed(a.kind, a.id), Ack(i)}
        OBVIOUS
      <4> QED BY <2>1, <4>1, <4>2, DownGrows
    <3>2. /\ delivered' = delivered \cup {i} /\ live' = [live EXCEPT ![a.kind][a.id] = None]
          /\ applied' = applied \cup {<<i, a>>} /\ UNCHANGED authenticated
      BY <1>9, <2>2 DEF ServerActs
    <3> QED BY <1>1, <1>2, <1>3, <1>4, <1>9, <2>2, <3>1, <3>2 DEF f
  <2>3. CASE live[a.kind][a.id] = None
    <3>1. /\ delivered' = delivered \cup {i} /\ UNCHANGED <<live, applied, authenticated>>
          /\ \/ down' = Append(down, Refusal(i))
             \/ <<i, a>> \in applied /\ down' = Append(down, Ack(i))
      BY <1>9, <2>3 DEF ServerActs
    <3>2. Behind({Refusal(i)}) \/ (<<i, a>> \in applied /\ Behind({Ack(i)}))
      BY <2>1, <3>1, DownGrows
    <3> QED BY <1>1, <1>2, <1>3, <1>4, <1>9, <2>3, <3>1, <3>2 DEF f
  <2> QED BY <2>2, <2>3
<1>10. CASE /\ f.req = "UserAction" /\ ~authenticated
            /\ down' \in {down, Append(down, Refusal(f.id))}
            /\ UNCHANGED <<live, authenticated, denied, applied, delivered>>
  <2>1. down' = down => Behind({})
    BY DEF SessionType, Behind
  <2>2. Refusal(i) \in Messages
    BY <1>5, MessageTypes
  <2>3. Behind({Refusal(i)}) \/ Behind({})
    BY <1>10, <2>1, <2>2, DownGrows
  <2> QED BY <1>1, <1>2, <1>3, <1>4, <1>10, <2>3 DEF f
<1> QED BY <1>6, <1>7, <1>8, <1>9, <1>10 DEF ServerReads, f

\* A step of the actor that only waits, or no step.
LEMMA IdleEffect ==
    ASSUME AttemptFails \/ Wake \/ UNCHANGED sessionVars
    PROVE  /\ UNCHANGED <<connected, login_succeed, requests, user_actions, next_action_id, settled,
                          inputs, sock, was_logged_in, status, up, down, live, authenticated, used,
                          decided, early, taps, applied, delivered, refused, unheard, missed>>
           /\ phase' = phase \/ (phase # "Online" /\ phase' \in {"Sleeping", "Connecting"})
<1>1. CASE AttemptFails
  BY <1>1 DEF AttemptFails, T!ConnectFail, vars, core, history, server
<1>2. CASE Wake
  BY <1>2 DEF Wake, T!Wake, vars, core, history, server, record
<1>3. CASE UNCHANGED sessionVars
  BY <1>3 DEF sessionVars, actor, vars, core, history, server, record
<1> QED BY <1>1, <1>2, <1>3

\* A new connection starts with a Challenge and nothing else.
LEMMA AttemptEffect ==
    ASSUME SessionType, TypeOK', Attempt
    PROVE  /\ phase' = "Online" /\ sock = "none" /\ sock' = "open" /\ ~connected /\ connected'
           /\ ~login_succeed /\ ~login_succeed' /\ ~authenticated /\ ~authenticated'
           /\ was_logged_in' = FALSE /\ status' = "Connected"
           /\ up = <<>> /\ down = <<>> /\ down' = <<>>
           /\ up' \in Seq(Frames) /\ \A p \in DOMAIN up' : up'[p].req = "Challenge"
           /\ UNCHANGED <<inputs, live, authenticated, used, taps, decided, early, applied,
                          delivered, refused, unheard, missed, requests, user_actions,
                          next_action_id, settled>>
<1>1. /\ ~connected /\ connected' /\ effects'.send = {send(0, "Challenge", None)}
      /\ effects'.failed = {}
      /\ UNCHANGED <<login_succeed, requests, user_actions, next_action_id, settled>>
  BY DEF Attempt, Connected, Return, NoEffects, queueVars
<1>2. /\ phase' = "Online" /\ sock' = "open" /\ SendFrames /\ Note
      /\ was_logged_in' = FALSE /\ status' = "Connected"
      /\ UNCHANGED <<inputs, down, live, authenticated, used, taps, applied, delivered,
                     unheard, missed>>
  BY DEF Attempt, T!ConnectOk, server
<1>3. sock = "none" /\ up = <<>> /\ down = <<>> /\ ~login_succeed /\ ~authenticated
  BY <1>1 DEF SessionType, QueueInv, QueueAux
<1>4. UNCHANGED <<decided, early, refused>>
  BY <1>1, <1>2 DEF Note
<1>5. up \in Seq(Frames) /\ effects'.send \subseteq Frames /\ DOMAIN up = {}
  BY <1>1, <1>3, SendType DEF SessionType
<1>6. up' \in Seq(Frames) /\ \A p \in DOMAIN up' : up'[p] \in effects'.send
  BY <1>2, <1>5, SentFrames
<1>7. \A f \in effects'.send : f.req = "Challenge"
  BY <1>1 DEF send
<1> QED BY <1>1, <1>2, <1>3, <1>4, <1>6, <1>7

\* The actor notices that the socket is gone.
LEMMA LostEffect ==
    ASSUME SessionType, ConnectionLost
    PROVE  /\ phase' = "Sleeping" /\ sock = "dead" /\ sock' = "none" /\ connected /\ ~connected'
           /\ ~login_succeed' /\ ~authenticated /\ status' = "Disconnected"
           /\ up = <<>> /\ up' = <<>> /\ down' = <<>> /\ missed' = missed \cup Unlisted(down)
           /\ unheard' = unheard \cup Acknowledged(down)
           /\ UNCHANGED <<inputs, live, authenticated, used, taps, decided, early, applied,
                          delivered, refused, requests, user_actions, next_action_id, settled>>
<1>1. /\ connected /\ ~connected' /\ ~login_succeed'
      /\ UNCHANGED <<requests, user_actions, next_action_id, settled>>
  BY DEF ConnectionLost, Disconnected, queueVars
<1>2. /\ phase' = "Sleeping" /\ sock = "dead" /\ sock' = "none" /\ status' = "Disconnected"
      /\ down' = <<>> /\ missed' = missed \cup Unlisted(down)
      /\ unheard' = unheard \cup Acknowledged(down)
      /\ UNCHANGED <<inputs, up, live, authenticated, used, taps, decided, early, applied,
                     delivered, refused>>
  BY DEF ConnectionLost, T!ConnectionLost, server
<1> QED BY <1>1, <1>2 DEF SessionType

\* The socket dies: frames are lost, and messages behind the ones that had arrived.
LEMMA DiesEffect ==
    ASSUME SessionType, SocketDies
    PROVE  /\ sock = "open" /\ sock' = "dead" /\ up' = <<>> /\ authenticated' = FALSE
           /\ down' \in Seq(Messages) /\ DOMAIN down' \subseteq DOMAIN down
           /\ \A n \in DOMAIN down' : down'[n] = down[n]
           /\ \A n \in DOMAIN down', m \in DOMAIN down : m < n => m \in DOMAIN down'
           /\ missed \subseteq missed'
           /\ \A n \in DOMAIN down \ DOMAIN down' :
                 (down[n].msg \in {"Created", "Removed"} /\ down[n].kind \notin SyncedKinds) =>
                     <<down[n].kind, down[n].id>> \in missed'
           /\ \E lost \in SUBSET Acknowledged(down) :
                 /\ unheard' = unheard \cup lost
                 /\ \A n \in DOMAIN down \ DOMAIN down' :
                       down[n].msg = "UserAction" => down[n].id \in lost
           /\ UNCHANGED <<phase, inputs, live, used, taps, decided, early, applied, delivered,
                          refused, connected, login_succeed, requests, user_actions,
                          next_action_id, settled, was_logged_in, status>>
<1>1. /\ sock = "open" /\ sock' = "dead" /\ up' = <<>> /\ authenticated' = FALSE
      /\ UNCHANGED <<phase, inputs, live, used, taps, decided, early, applied, delivered,
                     refused, connected, login_succeed, requests, user_actions,
                     next_action_id, settled, was_logged_in, status>>
  BY DEF SocketDies, T!SocketDies, vars, core, history
<1>2. PICK n \in 0..Len(down) :
            /\ down' = SubSeq(down, 1, n)
            /\ missed' = missed \cup Unlisted(SubSeq(down, n + 1, Len(down)))
            /\ unheard' = unheard \cup Acknowledged(SubSeq(down, n + 1, Len(down)))
  BY DEF SocketDies
<1>3. down \in Seq(Messages) /\ DOMAIN down = 1..Len(down) /\ Len(down) \in Nat
  BY DEF SessionType
<1> DEFINE rest == SubSeq(down, n + 1, Len(down))
<1>4. /\ down' \in Seq(Messages) /\ DOMAIN down' = 1..n
      /\ \A i \in 1..n : i \in DOMAIN down /\ down'[i] = down[i]
      /\ DOMAIN rest = 1..(Len(down) - n)
      /\ \A i \in 1..(Len(down) - n) : rest[i] = down[n + i]
  BY <1>2, <1>3, PrefixParts
<1> HIDE DEF rest
<1>5. ASSUME NEW i \in DOMAIN down \ DOMAIN down',
             down[i].msg \in {"Created", "Removed"}, down[i].kind \notin SyncedKinds
      PROVE  <<down[i].kind, down[i].id>> \in missed'
  <2>1. i - n \in DOMAIN rest /\ rest[i - n] = down[i]
    BY <1>3, <1>4
  <2>2. <<down[i].kind, down[i].id>> \in Unlisted(rest)
    BY <1>5, <2>1 DEF Unlisted
  <2> QED BY <1>2, <2>2 DEF rest
<1>6. \A i \in DOMAIN down', m \in DOMAIN down : m < i => m \in DOMAIN down'
  BY <1>3, <1>4
<1>7. \A i \in DOMAIN rest : n + i \in DOMAIN down /\ rest[i] = down[n + i]
  BY <1>3, <1>4
<1>8. Acknowledged(rest) \subseteq Acknowledged(down)
  BY <1>7 DEF Acknowledged
<1>9. ASSUME NEW i \in DOMAIN down \ DOMAIN down', down[i].msg = "UserAction"
      PROVE  down[i].id \in Acknowledged(rest)
  <2>1. i - n \in DOMAIN rest /\ rest[i - n] = down[i]
    BY <1>3, <1>4
  <2> QED BY <1>9, <2>1 DEF Acknowledged
<1>10. \E lost \in SUBSET Acknowledged(down) :
          /\ unheard' = unheard \cup lost
          /\ \A i \in DOMAIN down \ DOMAIN down' : down[i].msg = "UserAction" => down[i].id \in lost
  <2>1. unheard' = unheard \cup Acknowledged(rest)
    BY <1>2 DEF rest
  <2> QED BY <1>8, <1>9, <2>1
<1> QED BY <1>1, <1>2, <1>4, <1>5, <1>6, <1>10

\* The person answers what is on the screen.
LEMMA TapEffect ==
    ASSUME SessionType, NEW op \in {"Accept", "Reject"}, NEW k \in Kinds, NEW r \in Ids,
           Tap(op, k, r)
    PROVE  /\ requests[k][r] \in Bodies
           /\ inputs' = Append(inputs, [op |-> op, kind |-> k, id |-> r])
           /\ taps' = taps \cup {[op |-> op, kind |-> k, id |-> r, body |-> requests[k][r]]}
           /\ UNCHANGED <<connected, login_succeed, requests, user_actions, next_action_id, settled,
                          phase, sock, was_logged_in, status, up, down, live, authenticated, used,
                          decided, early, applied, delivered, refused, unheard, missed>>
<1>1. shown = requests /\ requests[k][r] \in Bodies \cup {None}
  BY DEF SessionType, ScreenIsState, TypeOK, RequestMap
<1> QED BY <1>1 DEF Tap, T!HandleSend, vars, core, history, server

\* A notification reaches a connection that is logged in, or is lost; then a snapshot
\* makes it good if it can.
Notified(m) ==
    \/ authenticated /\ Behind({m}) /\ missed' = missed
    \/ /\ ~authenticated /\ down' = down /\ missed \subseteq missed'
       /\ m.kind \notin SyncedKinds => <<m.kind, m.id>> \in missed'

\* Pushing a notification.
LEMMA PushEffect ==
    ASSUME SessionType, NEW m \in Messages, m.msg \in {"Created", "Removed"}, Push(m)
    PROVE  Notified(m)
<1>1. CASE authenticated /\ down' = Append(down, m) /\ UNCHANGED missed
  BY <1>1, DownGrows DEF Notified
<1>2. CASE ~authenticated /\ missed' = missed \cup Unlisted(<<m>>) /\ UNCHANGED down
  <2>1. 1 \in DOMAIN <<m>> /\ <<m>>[1] = m
    OBVIOUS
  <2>2. m.kind \notin SyncedKinds => <<m.kind, m.id>> \in Unlisted(<<m>>)
    BY <2>1 DEF Unlisted
  <2> QED BY <1>2, <2>2 DEF Notified
<1> QED BY <1>1, <1>2 DEF Push

\* The server creates a request.
LEMMA CreateEffect ==
    ASSUME SessionType, NEW k \in Kinds, NEW r \in Ids, NEW b \in Bodies, ServerCreates(k, r, b)
    PROVE  /\ <<k, r>> \notin used /\ used' = used \cup {<<k, r>>}
           /\ live' = [live EXCEPT ![k][r] = b]
           /\ Created(k, r, b) \in Messages /\ Notified(Created(k, r, b))
           /\ UNCHANGED <<connected, login_succeed, requests, user_actions, next_action_id, settled,
                          phase, inputs, sock, was_logged_in, status, up, authenticated, decided,
                          early, taps, applied, delivered, refused, unheard>>
<1>1. Created(k, r, b) \in Messages /\ Created(k, r, b).msg = "Created"
  BY MessageTypes, MessageFields
<1>2. Notified(Created(k, r, b))
  BY <1>1, PushEffect DEF ServerCreates
<1> QED BY <1>1, <1>2 DEF ServerCreates, vars, core, history, actor

\* The server withdraws a request.
LEMMA ExpireEffect ==
    ASSUME SessionType, NEW k \in Kinds, NEW r \in Ids, ServerExpires(k, r)
    PROVE  /\ live[k][r] # None /\ live' = [live EXCEPT ![k][r] = None]
           /\ Removed(k, r) \in Messages /\ Notified(Removed(k, r))
           /\ UNCHANGED <<connected, login_succeed, requests, user_actions, next_action_id, settled,
                          phase, inputs, sock, was_logged_in, status, up, authenticated, used,
                          decided, early, taps, applied, delivered, refused, unheard>>
<1>1. Removed(k, r) \in Messages /\ Removed(k, r).msg = "Removed"
  BY MessageTypes, MessageFields
<1>2. Notified(Removed(k, r))
  BY <1>1, PushEffect DEF ServerExpires
<1> QED BY <1>1, <1>2 DEF ServerExpires, vars, core, history, actor

-----------------------------------------------------------------------------
(* Types                                                                   *)

\* SessionType is kept.
LEMMA SessionTypeStep ==
    ASSUME SessionType, ChainInv, ConsentInv, [SessionNext]_sessionVars
    PROVE  SessionType'
<1>1. TypeOK' /\ ScreenIsState' /\ QueueInv'
  BY CoreStep, TypeStep, ScreenStep, QueueStep DEF SessionType
<1>2. effects'.send \subseteq Frames
  BY <1>1 DEF TypeOK, EffectsType
<1>3. CASE AttemptFails \/ Wake \/ UNCHANGED sessionVars
  BY <1>1, <1>3, IdleEffect DEF SessionType
<1>4. CASE Attempt
  <2>1. /\ phase' = "Online" /\ sock' = "open" /\ connected' /\ down' = down
        /\ up' \in Seq(Frames)
        /\ UNCHANGED <<inputs, live, authenticated, used, taps, decided, applied, next_action_id>>
    BY <1>1, <1>4, AttemptEffect
  <2> QED BY <1>1, <2>1 DEF SessionType
<1>5. CASE ConnectionLost
  BY <1>1, <1>5, LostEffect DEF SessionType
<1>6. CASE SocketDies
  <2>1. /\ sock = "open" /\ sock' = "dead" /\ up' = <<>> /\ authenticated' = FALSE
        /\ down' \in Seq(Messages)
        /\ UNCHANGED <<phase, connected, inputs, live, used, taps, decided, applied, next_action_id>>
    BY <1>6, DiesEffect
  <2>2. up' \in Seq(Frames)
    BY <2>1
  <2> QED BY <1>1, <2>1, <2>2 DEF SessionType
<1>7. CASE ReadFrame
  <2>1. /\ connected' /\ connected /\ down # <<>> /\ down' = Tail(down) /\ SendFrames
        /\ UNCHANGED <<phase, inputs, sock, live, authenticated, used, taps, applied,
                       next_action_id, decided>>
    BY <1>7, ReadEffect
  <2>2. up' \in Seq(Frames) /\ (sock' # "open" => up' = up)
    BY <1>2, <2>1, SentFrames DEF SessionType
  <2>3. down' \in Seq(Messages)
    BY <2>1, TailParts DEF SessionType
  <2> QED BY <1>1, <2>1, <2>2, <2>3 DEF SessionType
<1>8. CASE TakeInput
  <2>1. /\ connected' /\ connected /\ inputs # <<>> /\ inputs' = Tail(inputs) /\ SendFrames
        /\ UNCHANGED <<phase, sock, down, live, authenticated, used, taps, applied>>
        /\ \/ UNCHANGED <<next_action_id, decided>>
           \/ \E a \in Actions :
                 next_action_id' = next_action_id + 1 /\ decided' = Append(decided, a)
    BY <1>8, TakeEffect
  <2>2. up' \in Seq(Frames) /\ (sock' # "open" => up' = up)
    BY <1>2, <2>1, SentFrames DEF SessionType
  <2>3. inputs' \in Seq(TapInputs)
    BY <2>1, TailParts DEF SessionType
  <2>4. next_action_id \in Nat
    BY DEF SessionType, TypeOK
  <2>5. decided' \in Seq(Actions) /\ Len(decided') = next_action_id' - 1
    <3>1. CASE UNCHANGED <<next_action_id, decided>>
      BY <3>1 DEF SessionType
    <3>2. ASSUME NEW a \in Actions, next_action_id' = next_action_id + 1,
                 decided' = Append(decided, a)
          PROVE  decided' \in Seq(Actions) /\ Len(decided') = next_action_id' - 1
      <4>1. decided \in Seq(Actions) /\ Len(decided) = next_action_id - 1
        BY DEF SessionType
      <4>2. Append(decided, a) \in Seq(Actions) /\ Len(Append(decided, a)) = Len(decided) + 1
        BY <4>1, AppendParts
      <4> QED BY <2>4, <3>2, <4>1, <4>2
    <3> QED BY <2>1, <3>1, <3>2
  <2> QED BY <1>1, <2>1, <2>2, <2>3, <2>5 DEF SessionType
<1>9. CASE ServerReads
  <2> DEFINE f == Head(up)
             a == f.arg
  <2>1. /\ sock = "open" /\ up # <<>> /\ up' = Tail(up)
        /\ UNCHANGED <<connected, phase, inputs, sock, next_action_id, used, decided, taps>>
    BY <1>9, ServerEffect
  <2>2. down' \in Seq(Messages)
    BY <1>9, ServerEffect DEF Behind
  <2>3. /\ f.req = "UserAction" => f.id \in ActionIds /\ a \in Actions
                                    /\ a.kind \in Kinds /\ a.id \in Ids
        /\ \/ live' = live /\ applied' = applied
           \/ /\ f.req = "UserAction" /\ live' = [live EXCEPT ![a.kind][a.id] = None]
              /\ applied' = applied \cup {<<f.id, a>>}
    BY <1>9, ServerEffect
  <2>4. authenticated' = TRUE \/ authenticated' = authenticated
    BY <1>9, ServerEffect
  <2> HIDE DEF f, a
  <2>5. live' \in [Kinds -> RequestMap] /\ applied' \subseteq ActionIds \X Actions
    <3>1. live \in [Kinds -> RequestMap] /\ applied \subseteq ActionIds \X Actions
      BY DEF SessionType
    <3>2. CASE live' = live /\ applied' = applied
      BY <3>1, <3>2
    <3>3. CASE /\ f.req = "UserAction" /\ live' = [live EXCEPT ![a.kind][a.id] = None]
               /\ applied' = applied \cup {<<f.id, a>>}
      <4>1. f.id \in ActionIds /\ a \in Actions /\ a.kind \in Kinds /\ a.id \in Ids
        BY <2>3, <3>3
      <4>2. PICK k \in Kinds, r \in Ids : live' = [live EXCEPT ![k][r] = None]
        BY <3>3, <4>1
      <4>3. live' \in [Kinds -> RequestMap]
        BY <3>1, <4>2 DEF RequestMap
      <4>4. applied' \subseteq ActionIds \X Actions
        BY <3>1, <3>3, <4>1
      <4> QED BY <4>3, <4>4
    <3> QED BY <2>3, <3>2, <3>3
  <2>6. up' \in Seq(Frames)
    BY <2>1, TailParts DEF SessionType
  <2> QED BY <1>1, <2>1, <2>2, <2>4, <2>5, <2>6 DEF SessionType
<1>10. ASSUME NEW op \in {"Accept", "Reject"}, NEW k \in Kinds, NEW r \in Ids, Tap(op, k, r)
       PROVE  SessionType'
  <2>1. inputs' \in Seq(TapInputs)
    <3>1. [op |-> op, kind |-> k, id |-> r] \in TapInputs
      BY DEF TapInputs
    <3>2. inputs \in Seq(TapInputs) /\ inputs' = Append(inputs, [op |-> op, kind |-> k, id |-> r])
      BY <1>10, TapEffect DEF SessionType
    <3> QED BY <3>1, <3>2, AppendParts
  <2>2. taps' \subseteq [op: {"Accept", "Reject"}, kind: Kinds, id: Ids, body: Bodies]
    <3>1. /\ requests[k][r] \in Bodies
          /\ taps' = taps \cup {[op |-> op, kind |-> k, id |-> r, body |-> requests[k][r]]}
      BY <1>10, TapEffect
    <3> QED BY <3>1 DEF SessionType
  <2> QED BY <1>1, <1>10, <2>1, <2>2, TapEffect DEF SessionType
<1>11. ASSUME NEW m, Notified(m) PROVE down' \in Seq(Messages) /\ (~authenticated => down' = down)
  BY <1>11 DEF Notified, Behind, SessionType
<1>12. ASSUME NEW k \in Kinds, NEW r \in Ids, NEW b \in Bodies, ServerCreates(k, r, b)
       PROVE  SessionType'
  <2>1. /\ down' \in Seq(Messages) /\ (~authenticated => down' = down)
        /\ live' = [live EXCEPT ![k][r] = b] /\ used' = used \cup {<<k, r>>}
        /\ UNCHANGED <<connected, phase, inputs, sock, up, authenticated, taps, next_action_id,
                       decided, applied>>
    BY <1>11, <1>12, CreateEffect
  <2>2. live' \in [Kinds -> RequestMap]
    BY <2>1 DEF SessionType, RequestMap
  <2> QED BY <1>1, <2>1, <2>2 DEF SessionType
<1>13. ASSUME NEW k \in Kinds, NEW r \in Ids, ServerExpires(k, r)
       PROVE  SessionType'
  <2>1. /\ down' \in Seq(Messages) /\ (~authenticated => down' = down)
        /\ live' = [live EXCEPT ![k][r] = None]
        /\ UNCHANGED <<connected, phase, inputs, sock, up, authenticated, taps, next_action_id,
                       decided, applied, used>>
    BY <1>11, <1>13, ExpireEffect
  <2>2. live' \in [Kinds -> RequestMap]
    BY <2>1 DEF SessionType, RequestMap
  <2> QED BY <1>1, <2>1, <2>2 DEF SessionType
<1> QED BY <1>3, <1>4, <1>5, <1>6, <1>7, <1>8, <1>9, <1>10, <1>12, <1>13 DEF SessionNext

-----------------------------------------------------------------------------
(* From the tap to the server                                              *)

\* The frames that reading a message sends: user actions only after a Login, then
\* exactly the pending ones, in order.
LEMMA ReadSends ==
    ASSUME SessionType, TypeOK', ReadFrame
    PROVE  /\ DOMAIN up \subseteq DOMAIN up' /\ \A p \in DOMAIN up : up'[p] = up[p]
           /\ \A p \in DOMAIN up' \ DOMAIN up : p > Len(up) /\
                 (up'[p].req = "UserAction" =>
                      /\ Head(down).msg = "Login" /\ sock = "open" /\ up'[p].id \in ActionIds
                      /\ user_actions[up'[p].id] # None /\ up'[p].arg = user_actions[up'[p].id])
           /\ (Head(down).msg = "Login" /\ sock = "open") =>
                 \A i \in ActionIds : user_actions[i] # None =>
                     \E p \in DOMAIN up' \ DOMAIN up : up'[p].req = "UserAction" /\ up'[p].id = i
           /\ \A p, q \in DOMAIN up' \ DOMAIN up : p < q => up'[p].id < up'[q].id
<1> DEFINE m == Head(down)
<1>1. up \in Seq(Frames) /\ effects'.send \subseteq Frames /\ SendFrames /\ sock' = sock
  BY ReadEffect DEF SessionType, TypeOK, EffectsType
<1>2. /\ DOMAIN up \subseteq DOMAIN up' /\ \A p \in DOMAIN up : up'[p] = up[p]
      /\ \A p \in DOMAIN up' \ DOMAIN up : up'[p] \in effects'.send /\ p > Len(up)
      /\ sock' # "open" => up' = up
      /\ sock' = "open" => \A f \in effects'.send :
            \E p \in DOMAIN up' \ DOMAIN up : up'[p] = f
      /\ \A p, q \in DOMAIN up' \ DOMAIN up : p < q => up'[p].id < up'[q].id
  BY <1>1, SentFrames
<1>3. \/ m.msg = "Login" /\ effects'.send = Replay \cup FcmFrame(fcm_token, TRUE)
      \/ m.msg # "Login" /\ effects'.send = {send(0, "Login", None)}
      \/ m.msg # "Login" /\ effects'.send = {}
  BY ReadEffect
<1> HIDE DEF m
<1>4. \A f \in Replay : /\ f.req = "UserAction" /\ f.id \in ActionIds
                        /\ user_actions[f.id] # None /\ f.arg = user_actions[f.id]
  BY DEF Replay, send
<1>5. \A i \in ActionIds : user_actions[i] # None => \E f \in Replay : f.req = "UserAction" /\ f.id = i
  <2> SUFFICES ASSUME NEW i \in ActionIds, user_actions[i] # None
               PROVE  \E f \in Replay : f.req = "UserAction" /\ f.id = i
    OBVIOUS
  <2> DEFINE f == send(i, "UserAction", user_actions[i])
  <2>1. f \in Replay
    BY DEF Replay
  <2>2. f.req = "UserAction" /\ f.id = i
    BY DEF send
  <2> QED BY <2>1, <2>2
<1>6. (\A f \in FcmFrame(fcm_token, TRUE) : f.req # "UserAction") /\ send(0, "Login", None).req = "Login"
  BY DEF FcmFrame, send
<1>7. \A f \in effects'.send : f.req = "UserAction" =>
        m.msg = "Login" /\ f.id \in ActionIds /\ user_actions[f.id] # None /\ f.arg = user_actions[f.id]
  BY <1>3, <1>4, <1>6
<1>8. m.msg = "Login" => \A i \in ActionIds : user_actions[i] # None =>
        \E f \in effects'.send : f.req = "UserAction" /\ f.id = i
  BY <1>3, <1>5
<1>9. sock = "open" \/ DOMAIN up' \ DOMAIN up = {}
  BY <1>1, <1>2
<1> QED BY <1>1, <1>2, <1>7, <1>8, <1>9 DEF m

\* Taking an answer queues it as what was given, last in `decided` and, on a working
\* socket, last in `up`; or drops it.
Queued(a) ==
    LET t == Head(inputs)
        i == next_action_id
    IN
    /\ a \in Actions /\ a.kind = t.kind /\ a.id = t.id
    /\ t.op = (IF a.op = "Accept" THEN "Accept" ELSE "Reject")
    /\ (a.kind = "SignMessage" /\ a.op = "Accept") =>
          a.payload = requests[a.kind][a.id] /\ a.payload \in Bodies
    /\ i \in ActionIds /\ i \in Nat \ {0} /\ next_action_id' = i + 1 /\ i \notin settled
    /\ user_actions' = [user_actions EXCEPT ![i] = a]
    /\ Len(decided) = i - 1 /\ DOMAIN decided' = DOMAIN decided \cup {i} /\ decided'[i] = a
    /\ i \notin DOMAIN decided /\ \A j \in DOMAIN decided : decided'[j] = decided[j] /\ j < i
    /\ early' = IF login_succeed THEN early ELSE early \cup {i}
    /\ DOMAIN up \subseteq DOMAIN up' /\ \A p \in DOMAIN up : up'[p] = up[p]
    /\ \A p \in DOMAIN up' \ DOMAIN up :
          up'[p].id = i /\ up'[p].req = "UserAction" /\ up'[p].arg = a /\ p > Len(up)
    /\ sock = "open" => \E p \in DOMAIN up' \ DOMAIN up : up'[p].id = i /\ up'[p].req = "UserAction"
    /\ \A p, q \in DOMAIN up' \ DOMAIN up : p = q

\* That is all there is.
LEMMA TakeForms ==
    ASSUME SessionType, TypeOK', TakeInput
    PROVE  \/ UNCHANGED <<user_actions, next_action_id, decided, early, up>>
           \/ \E a \in Actions : Queued(a)
<1>1. up \in Seq(Frames) /\ effects'.send \subseteq Frames /\ SendFrames /\ sock' = sock
  BY TakeEffect DEF SessionType, TypeOK, EffectsType
<1>2. /\ up' \in Seq(Frames) /\ DOMAIN up \subseteq DOMAIN up' /\ \A p \in DOMAIN up : up'[p] = up[p]
      /\ \A p \in DOMAIN up' \ DOMAIN up : up'[p] \in effects'.send /\ p > Len(up)
      /\ sock' = "open" => \A f \in effects'.send :
            \E p \in DOMAIN up' \ DOMAIN up : up'[p] = f
      /\ \A p, q \in DOMAIN up' \ DOMAIN up : p < q => up'[p].id < up'[q].id
  BY <1>1, SentFrames
<1>3. CASE UNCHANGED <<user_actions, next_action_id, decided, early>> /\ effects'.send = {}
  <2>1. DOMAIN up' = DOMAIN up
    BY <1>2, <1>3
  <2>2. up' = up
    BY <1>1, <1>2, <2>1, SeqEqual
  <2> QED BY <1>3, <2>2
<1>4. ASSUME NEW a \in Actions,
             LET t == Head(inputs) IN
             /\ a.kind = t.kind /\ a.id = t.id
             /\ t.op = (IF a.op = "Accept" THEN "Accept" ELSE "Reject")
             /\ (a.kind = "SignMessage" /\ a.op = "Accept") =>
                   a.payload = requests[a.kind][a.id] /\ a.payload \in Bodies
             /\ next_action_id \in ActionIds /\ next_action_id' = next_action_id + 1
             /\ user_actions' = [user_actions EXCEPT ![next_action_id] = a]
             /\ decided' = Append(decided, a)
             /\ early' = IF login_succeed THEN early ELSE early \cup {next_action_id}
             /\ effects'.send = {send(next_action_id, "UserAction", a)}
      PROVE  Queued(a)
  <2> DEFINE i == next_action_id
             f == send(i, "UserAction", a)
  <2>1. i \in ActionIds /\ i \in Nat \ {0} /\ effects'.send = {f} /\ decided' = Append(decided, a)
    BY <1>4 DEF SessionType, TypeOK
  <2>2. decided \in Seq(Actions) /\ Len(decided) = i - 1 /\ DOMAIN decided = 1..Len(decided)
    BY DEF SessionType
  <2>3. i \notin settled
    BY <2>1 DEF SessionType, QueueInv, QueueAux, NoActionLost
  <2>4. f.id = i /\ f.req = "UserAction" /\ f.arg = a
    BY DEF send
  <2>5. /\ Append(decided, a) \in Seq(Actions)
        /\ DOMAIN Append(decided, a) = DOMAIN decided \cup {Len(decided) + 1}
        /\ Append(decided, a)[Len(decided) + 1] = a /\ Len(decided) + 1 \notin DOMAIN decided
        /\ \A n \in DOMAIN decided : Append(decided, a)[n] = decided[n] /\ n < Len(decided) + 1
    BY <2>2, AppendParts
  <2> HIDE DEF f
  <2>6. Len(decided) + 1 = i
    BY <2>1, <2>2
  <2>7. /\ DOMAIN decided' = DOMAIN decided \cup {i} /\ decided'[i] = a
        /\ i \notin DOMAIN decided /\ \A j \in DOMAIN decided : decided'[j] = decided[j] /\ j < i
    BY <2>1, <2>5, <2>6
  <2>8. /\ \A p \in DOMAIN up' \ DOMAIN up :
              up'[p].id = i /\ up'[p].req = "UserAction" /\ up'[p].arg = a /\ p > Len(up)
        /\ sock = "open" => \E p \in DOMAIN up' \ DOMAIN up : up'[p].id = i /\ up'[p].req = "UserAction"
    BY <1>1, <1>2, <2>1, <2>4
  <2>9. \A p, q \in DOMAIN up' \ DOMAIN up : p = q
    <3> TAKE p, q \in DOMAIN up' \ DOMAIN up
    <3>1. p \in Nat /\ q \in Nat /\ DOMAIN up' = 1..Len(up')
      BY <1>2
    <3>2. up'[p].id = i /\ up'[q].id = i
      BY <2>8
    <3>3. ~(p < q) /\ ~(q < p)
      BY <1>2, <2>1, <3>2
    <3> QED BY <3>1, <3>3
  <2> QED BY <1>2, <1>4, <2>1, <2>2, <2>3, <2>7, <2>8, <2>9 DEF Queued
<1> QED BY <1>3, <1>4, TakeEffect

\* New messages are none that ChainInv speaks of, or about a known id.
LEMMA ChainDown ==
    ASSUME ChainInv, NEW x, Behind(x), DOMAIN decided' = DOMAIN decided,
           \A m \in x : /\ m.msg = "UserAction" => m.id \in DOMAIN decided
                        /\ m.msg = "Error" => m.id \in DOMAIN decided \cup {0}
    PROVE  \A n \in DOMAIN down' :
              /\ down'[n].msg = "UserAction" => down'[n].id \in DOMAIN decided'
              /\ down'[n].msg = "Error" => down'[n].id \in DOMAIN decided' \cup {0}
BY DEF ChainInv, Behind

\* ChainInv is kept.
LEMMA ChainStep ==
    ASSUME SessionType, SessionType', ChainInv, ConsentInv, [SessionNext]_sessionVars
    PROVE  ChainInv'
<1>0. TypeOK'
  BY DEF SessionType
<1>1. CASE AttemptFails \/ Wake \/ UNCHANGED sessionVars
  BY <1>1, IdleEffect DEF ChainInv
<1>2. CASE Attempt
  <2>1. /\ down' = down /\ \A p \in DOMAIN up' : up'[p].req = "Challenge"
        /\ UNCHANGED <<user_actions, decided, applied>>
    BY <1>0, <1>2, AttemptEffect
  <2> QED BY <2>1 DEF ChainInv
<1>3. CASE ConnectionLost
  BY <1>3, LostEffect DEF ChainInv
<1>4. CASE SocketDies
  <2>1. /\ up' = <<>> /\ DOMAIN down' \subseteq DOMAIN down /\ \A n \in DOMAIN down' : down'[n] = down[n]
        /\ UNCHANGED <<user_actions, decided, applied>>
    BY <1>4, DiesEffect
  <2> QED BY <2>1 DEF ChainInv
<1>5. CASE ReadFrame
  <2>1. /\ down # <<>> /\ down' = Tail(down) /\ down \in Seq(Messages)
        /\ UNCHANGED <<decided, applied>>
    BY <1>5, ReadEffect DEF SessionType
  <2>2. \A i \in ActionIds : user_actions'[i] # None => user_actions'[i] = user_actions[i]
    BY <1>5, ReadEffect
  <2>3. /\ \A p \in DOMAIN up : up'[p] = up[p]
        /\ \A p \in DOMAIN up' \ DOMAIN up : up'[p].req = "UserAction" =>
              /\ up'[p].id \in ActionIds /\ user_actions[up'[p].id] # None
              /\ up'[p].arg = user_actions[up'[p].id]
    BY <1>0, <1>5, ReadSends
  <2>4. \A n \in DOMAIN down' : n + 1 \in DOMAIN down /\ down'[n] = down[n + 1]
    BY <2>1, TailParts
  <2> QED BY <2>1, <2>2, <2>3, <2>4 DEF ChainInv
<1>6. CASE TakeInput
  <2>1. UNCHANGED <<down, applied>>
    BY <1>6, TakeEffect
  <2>2. CASE UNCHANGED <<user_actions, decided, up>>
    BY <2>1, <2>2 DEF ChainInv
  <2>3. ASSUME NEW a \in Actions, Queued(a) PROVE ChainInv'
    <3>1. \A i \in ActionIds : user_actions'[i] # None =>
             i \in DOMAIN decided' /\ decided'[i] = user_actions'[i]
      <4>1. /\ next_action_id \in ActionIds /\ user_actions' = [user_actions EXCEPT ![next_action_id] = a]
            /\ DOMAIN decided' = DOMAIN decided \cup {next_action_id} /\ decided'[next_action_id] = a
            /\ \A j \in DOMAIN decided : decided'[j] = decided[j]
        BY <2>3 DEF Queued
      <4>2. user_actions \in [ActionIds -> Actions \cup {None}]
        BY DEF SessionType, TypeOK
      <4>3. \A i \in ActionIds : user_actions'[i] = IF i = next_action_id THEN a ELSE user_actions[i]
        BY <4>1, <4>2
      <4>4. \A i \in ActionIds : user_actions[i] # None => i \in DOMAIN decided /\ decided[i] = user_actions[i]
        BY DEF ChainInv
      <4> QED BY <4>1, <4>3, <4>4
    <3>2. \A p \in DOMAIN up' : up'[p].req = "UserAction" =>
             up'[p].id \in DOMAIN decided' /\ decided'[up'[p].id] = up'[p].arg
      BY <2>3 DEF Queued, ChainInv
    <3>3. DOMAIN decided \subseteq DOMAIN decided' /\ \A j \in DOMAIN decided : decided'[j] = decided[j]
      BY <2>3 DEF Queued
    <3> QED BY <2>1, <3>1, <3>2, <3>3 DEF ChainInv
  <2> QED BY <1>0, <1>6, <2>2, <2>3, TakeForms
<1>7. CASE ServerReads
  <2> DEFINE f == Head(up)
             i == f.id
             a == f.arg
  <2>1. /\ up # <<>> /\ up' = Tail(up) /\ up \in Seq(Frames)
        /\ UNCHANGED <<user_actions, decided>>
    BY <1>7, ServerEffect DEF SessionType
  <2>2. f.req = "UserAction" => i \in DOMAIN decided /\ a = decided[i]
    BY <1>7, ServerEffect
  <2>3. applied' = applied \/ (f.req = "UserAction" /\ applied' = applied \cup {<<i, a>>})
    BY <1>7, ServerEffect
  <2>4. \/ Behind({Msg("Challenge")}) \/ Behind({Refusal(0)}) \/ Behind({Snapshot}) \/ Behind({})
        \/ f.req = "UserAction" /\
              (Behind({Removed(a.kind, a.id), Ack(i)}) \/ Behind({Ack(i)}) \/ Behind({Refusal(i)}))
    BY <1>7, ServerEffect
  <2>5. \A p \in DOMAIN up' : p + 1 \in DOMAIN up /\ up'[p] = up[p + 1]
    BY <2>1, TailParts
  <2> HIDE DEF f
  <2>6. \A n \in DOMAIN down' :
            /\ down'[n].msg = "UserAction" => down'[n].id \in DOMAIN decided'
            /\ down'[n].msg = "Error" => down'[n].id \in DOMAIN decided' \cup {0}
    BY <2>1, <2>2, <2>4, ChainDown, MessageFields
  <2> QED BY <2>1, <2>2, <2>3, <2>5, <2>6 DEF ChainInv
<1>8. ASSUME NEW op \in {"Accept", "Reject"}, NEW k \in Kinds, NEW r \in Ids, Tap(op, k, r)
      PROVE  ChainInv'
  <2>1. UNCHANGED <<user_actions, up, down, decided, applied>>
    BY <1>8, TapEffect
  <2> QED BY <2>1 DEF ChainInv
<1>9. ASSUME NEW m, Notified(m), m.msg \in {"Created", "Removed"},
             UNCHANGED <<user_actions, up, decided, applied>>
      PROVE  ChainInv'
  <2>1. \A n \in DOMAIN down' :
            /\ down'[n].msg = "UserAction" => down'[n].id \in DOMAIN decided'
            /\ down'[n].msg = "Error" => down'[n].id \in DOMAIN decided' \cup {0}
    BY <1>9 DEF Notified, Behind, ChainInv
  <2> QED BY <1>9, <2>1 DEF ChainInv
<1>10. ASSUME NEW k \in Kinds, NEW r \in Ids, NEW b \in Bodies, ServerCreates(k, r, b)
       PROVE  ChainInv'
  <2>1. Notified(Created(k, r, b)) /\ UNCHANGED <<user_actions, up, decided, applied>>
    BY <1>10, CreateEffect
  <2>2. Created(k, r, b).msg = "Created"
    BY MessageFields
  <2> QED BY <1>9, <2>1, <2>2
<1>11. ASSUME NEW k \in Kinds, NEW r \in Ids, ServerExpires(k, r)
       PROVE  ChainInv'
  BY <1>9, <1>11, ExpireEffect, MessageFields
<1> QED BY <1>1, <1>2, <1>3, <1>4, <1>5, <1>6, <1>7, <1>8, <1>10, <1>11 DEF SessionNext

-----------------------------------------------------------------------------
(* One request, one body                                                   *)

\* A snapshot says what the server says.
LEMMA SnapshotTells ==
    ASSUME SessionType, NEW k \in Kinds, NEW r \in Ids, NEW b, Tells(Snapshot, k, r, b)
    PROVE  k \in SyncedKinds /\ live[k][r] = b
BY MessageFields DEF Tells

\* A login takes a body from the snapshot, or keeps the one it had.
LEMMA SyncTells ==
    ASSUME SessionType, NEW m \in Messages, m.msg = "Login",
           NEW k \in Kinds, NEW r \in Ids, NEW b \in Bodies, Sync(m.listed)[k][r] = b
    PROVE  requests[k][r] = b \/ Tells(m, k, r, b)
BY NoneAssumption DEF Sync, Tells, SessionType, TypeOK, RequestMap

\* OneBodyInv is kept by a step that makes nobody say anything new.
LEMMA OneBodyKept ==
    ASSUME OneBodyInv, used \subseteq used',
           \A k \in Kinds, r \in Ids, b \in Bodies : Says(k, r, b)' => Says(k, r, b)
    PROVE  OneBodyInv'
BY DEF OneBodyInv

\* OneBodyInv is kept.
LEMMA OneBodyStep ==
    ASSUME SessionType, SessionType', ChainInv, ConsentInv, OneBodyInv, [SessionNext]_sessionVars
    PROVE  OneBodyInv'
<1>0. TypeOK' /\ down \in Seq(Messages)
  BY DEF SessionType
<1>1. CASE AttemptFails \/ Wake \/ UNCHANGED sessionVars
  BY <1>1, IdleEffect DEF OneBodyInv, Says
<1>2. CASE Attempt
  <2>1. UNCHANGED <<down, live, requests, taps, used>>
    BY <1>0, <1>2, AttemptEffect
  <2> QED BY <2>1 DEF OneBodyInv, Says
<1>3. CASE ConnectionLost
  <2>1. DOMAIN down' = {} /\ UNCHANGED <<live, requests, taps, used>>
    BY <1>3, LostEffect
  <2> QED BY <2>1, OneBodyKept DEF Says
<1>4. CASE SocketDies
  <2>1. /\ DOMAIN down' \subseteq DOMAIN down /\ \A n \in DOMAIN down' : down'[n] = down[n]
        /\ UNCHANGED <<live, requests, taps, used>>
    BY <1>4, DiesEffect
  <2> QED BY <2>1, OneBodyKept DEF Says
<1>5. CASE ReadFrame
  <2> DEFINE m == Head(down)
  <2>1. /\ m \in Messages /\ down # <<>> /\ down' = Tail(down) /\ UNCHANGED <<live, taps, used>>
        /\ \/ requests' = requests
           \/ m.msg = "Login" /\ requests' = Sync(m.listed)
           \/ m.msg = "Created" /\ requests' = [requests EXCEPT ![m.kind][m.id] = m.body]
           \/ m.msg = "Removed" /\ requests' = [requests EXCEPT ![m.kind][m.id] = None]
    BY <1>5, ReadEffect
  <2>2. /\ 1 \in DOMAIN down /\ down[1] = m
        /\ \A n \in DOMAIN down' : n + 1 \in DOMAIN down /\ down'[n] = down[n + 1]
    BY <1>0, <2>1, TailParts
  <2> HIDE DEF m
  <2>3. ASSUME NEW k \in Kinds, NEW r \in Ids, NEW b \in Bodies, requests'[k][r] = b
        PROVE  requests[k][r] = b \/ Tells(m, k, r, b)
    <3>1. CASE m.msg = "Login" /\ requests' = Sync(m.listed)
      BY <2>1, <2>3, <3>1, SyncTells
    <3>2. CASE m.msg = "Created" /\ requests' = [requests EXCEPT ![m.kind][m.id] = m.body]
      BY <2>3, <3>2 DEF Tells, SessionType, TypeOK, RequestMap
    <3>3. CASE m.msg = "Removed" /\ requests' = [requests EXCEPT ![m.kind][m.id] = None]
      BY <2>3, <3>3, NoneAssumption DEF Tells, SessionType, TypeOK, RequestMap
    <3> QED BY <2>1, <2>3, <3>1, <3>2, <3>3
  <2>4. ASSUME NEW k \in Kinds, NEW r \in Ids, NEW b \in Bodies, Says(k, r, b)'
        PROVE  Says(k, r, b)
    BY <2>1, <2>2, <2>3, <2>4 DEF Says
  <2> QED BY <2>1, <2>4, OneBodyKept
<1>6. CASE TakeInput
  <2>1. UNCHANGED <<down, live, requests, taps, used>>
    BY <1>6, TakeEffect
  <2> QED BY <2>1 DEF OneBodyInv, Says
<1>7. CASE ServerReads
  <2> DEFINE f == Head(up)
             i == f.id
             a == f.arg
  <2>1. /\ UNCHANGED <<requests, taps, used>>
        /\ \/ live' = live
           \/ a.kind \in Kinds /\ a.id \in Ids /\ live' = [live EXCEPT ![a.kind][a.id] = None]
        /\ \/ Behind({Msg("Challenge")}) \/ Behind({Refusal(0)}) \/ Behind({Snapshot}) \/ Behind({})
           \/ Behind({Removed(a.kind, a.id), Ack(i)}) \/ Behind({Ack(i)}) \/ Behind({Refusal(i)})
    BY <1>7, ServerEffect
  <2> HIDE DEF f
  <2>2. ASSUME NEW k \in Kinds, NEW r \in Ids, NEW b \in Bodies, live'[k][r] = b
        PROVE  live[k][r] = b
    <3>1. live' = live \/ live'[k][r] = IF k = a.kind /\ r = a.id THEN None ELSE live[k][r]
      BY <2>1 DEF SessionType, RequestMap
    <3> QED BY <2>2, <3>1, NoneAssumption
  <2>3. ASSUME NEW k \in Kinds, NEW r \in Ids, NEW b \in Bodies,
               NEW n \in DOMAIN down', Tells(down'[n], k, r, b)
        PROVE  live[k][r] = b \/ \E q \in DOMAIN down : Tells(down[q], k, r, b)
    <3>1. CASE n \in DOMAIN down
      BY <2>1, <2>3, <3>1 DEF Behind
    <3>2. CASE n \notin DOMAIN down
      <4>1. down'[n] = Snapshot \/ down'[n].msg \in {"Challenge", "UserAction", "Error", "Removed"}
        BY <2>1, <3>2, MessageFields DEF Behind
      <4>2. down'[n] = Snapshot
        BY <2>3, <4>1 DEF Tells
      <4> QED BY <2>3, <4>2, SnapshotTells
    <3> QED BY <3>1, <3>2
  <2>4. ASSUME NEW k \in Kinds, NEW r \in Ids, NEW b \in Bodies, Says(k, r, b)'
        PROVE  Says(k, r, b)
    BY <2>1, <2>2, <2>3, <2>4 DEF Says
  <2> QED BY <2>1, <2>4, OneBodyKept
<1>8. ASSUME NEW op \in {"Accept", "Reject"}, NEW k \in Kinds, NEW r \in Ids, Tap(op, k, r)
      PROVE  OneBodyInv'
  <2> DEFINE new == [op |-> op, kind |-> k, id |-> r, body |-> requests[k][r]]
  <2>1. taps' = taps \cup {new} /\ UNCHANGED <<requests, down, live, used>>
    BY <1>8, TapEffect
  <2>2. new.kind = k /\ new.id = r /\ new.body = requests[k][r]
    OBVIOUS
  <2> HIDE DEF new
  <2>3. \A j \in Kinds, q \in Ids, b \in Bodies : Says(j, q, b)' => Says(j, q, b)
    BY <2>1, <2>2 DEF Says
  <2> QED BY <2>1, <2>3, OneBodyKept
<1>9. ASSUME NEW m, Notified(m), NEW n \in DOMAIN down'
      PROVE  (n \in DOMAIN down /\ down'[n] = down[n]) \/ down'[n] = m
  BY <1>9 DEF Notified, Behind
<1>10. ASSUME NEW k \in Kinds, NEW r \in Ids, NEW b \in Bodies, ServerCreates(k, r, b)
       PROVE  OneBodyInv'
  <2> DEFINE m == Created(k, r, b)
  <2>1. /\ <<k, r>> \notin used /\ used' = used \cup {<<k, r>>} /\ Notified(m)
        /\ live' = [live EXCEPT ![k][r] = b] /\ UNCHANGED <<requests, taps>>
    BY <1>10, CreateEffect
  <2>2. m.msg = "Created" /\ m.kind = k /\ m.id = r /\ m.body = b
    BY MessageFields
  <2> HIDE DEF m
  <2>3. \A c \in Bodies : ~Says(k, r, c)
    BY <2>1 DEF OneBodyInv
  <2>4. ASSUME NEW j \in Kinds, NEW q \in Ids, NEW c \in Bodies, Says(j, q, c)'
        PROVE  Says(j, q, c) \/ (j = k /\ q = r /\ c = b)
    <3>1. live'[j][q] = IF j = k /\ q = r THEN b ELSE live[j][q]
      BY <2>1 DEF SessionType, RequestMap
    <3>2. ASSUME NEW n \in DOMAIN down', Tells(down'[n], j, q, c)
          PROVE  Says(j, q, c) \/ (j = k /\ q = r /\ c = b)
      <4>1. (n \in DOMAIN down /\ down'[n] = down[n]) \/ down'[n] = m
        BY <1>9, <2>1
      <4> QED BY <2>2, <3>2, <4>1 DEF Says, Tells
    <3> QED BY <2>1, <2>4, <3>1, <3>2 DEF Says
  <2>5. ASSUME NEW j \in Kinds, NEW q \in Ids, NEW c \in Bodies, Says(j, q, c)'
        PROVE  <<j, q>> \in used' /\ \A d \in Bodies : Says(j, q, d)' => d = c
    <3>1. CASE j = k /\ q = r
      BY <2>1, <2>3, <2>4, <2>5, <3>1
    <3>2. CASE ~(j = k /\ q = r)
      BY <2>1, <2>4, <2>5, <3>2 DEF OneBodyInv
    <3> QED BY <3>1, <3>2
  <2> QED BY <2>5 DEF OneBodyInv
<1>11. ASSUME NEW k \in Kinds, NEW r \in Ids, ServerExpires(k, r)
       PROVE  OneBodyInv'
  <2> DEFINE m == Removed(k, r)
  <2>1. /\ Notified(m) /\ live' = [live EXCEPT ![k][r] = None]
        /\ UNCHANGED <<requests, taps, used>>
    BY <1>11, ExpireEffect
  <2>2. m.msg = "Removed"
    BY MessageFields
  <2> HIDE DEF m
  <2>3. ASSUME NEW j \in Kinds, NEW q \in Ids, NEW c \in Bodies, Says(j, q, c)'
        PROVE  Says(j, q, c)
    <3>1. live'[j][q] = IF j = k /\ q = r THEN None ELSE live[j][q]
      BY <2>1 DEF SessionType, RequestMap
    <3>2. ASSUME NEW n \in DOMAIN down', Tells(down'[n], j, q, c)
          PROVE  Says(j, q, c)
      <4>1. (n \in DOMAIN down /\ down'[n] = down[n]) \/ down'[n] = m
        BY <1>9, <2>1
      <4> QED BY <2>2, <3>2, <4>1 DEF Says, Tells
    <3> QED BY <2>1, <2>3, <3>1, <3>2, NoneAssumption DEF Says
  <2> QED BY <2>1, <2>3, OneBodyKept
<1> QED BY <1>1, <1>2, <1>3, <1>4, <1>5, <1>6, <1>7, <1>8, <1>10, <1>11 DEF SessionNext

\* ConsentInv is kept: the body a signature is over is the one on the screen of the tap,
\* because a request has one body.
LEMMA ConsentStep ==
    ASSUME SessionType, SessionType', ChainInv, ConsentInv, OneBodyInv, [SessionNext]_sessionVars
    PROVE  ConsentInv'
<1>0. TypeOK'
  BY DEF SessionType
<1>1. CASE AttemptFails \/ Wake \/ UNCHANGED sessionVars
  BY <1>1, IdleEffect DEF ConsentInv
<1>2. CASE Attempt
  <2>1. UNCHANGED <<decided, taps, inputs>>
    BY <1>0, <1>2, AttemptEffect
  <2> QED BY <2>1 DEF ConsentInv
<1>3. CASE ConnectionLost
  BY <1>3, LostEffect DEF ConsentInv
<1>4. CASE SocketDies
  BY <1>4, DiesEffect DEF ConsentInv
<1>5. CASE ReadFrame
  <2>1. UNCHANGED <<decided, taps, inputs>>
    BY <1>5, ReadEffect
  <2> QED BY <2>1 DEF ConsentInv
<1>6. CASE TakeInput
  <2> DEFINE t == Head(inputs)
  <2>1. inputs # <<>> /\ inputs' = Tail(inputs) /\ inputs \in Seq(TapInputs) /\ UNCHANGED taps
    BY <1>6, TakeEffect DEF SessionType
  <2>2. /\ 1 \in DOMAIN inputs /\ inputs[1] = t /\ t \in TapInputs
        /\ \A n \in DOMAIN inputs' : n + 1 \in DOMAIN inputs /\ inputs'[n] = inputs[n + 1]
    BY <2>1, TailParts
  <2> HIDE DEF t
  <2>3. \A n \in DOMAIN inputs' : \E x \in taps' :
          x.op = inputs'[n].op /\ x.kind = inputs'[n].kind /\ x.id = inputs'[n].id
    BY <2>1, <2>2 DEF ConsentInv
  <2>4. CASE UNCHANGED decided
    BY <2>1, <2>3, <2>4 DEF ConsentInv
  <2>5. ASSUME NEW a \in Actions, Queued(a) PROVE ConsentInv'
    <3>1. PICK x \in taps : x.op = t.op /\ x.kind = t.kind /\ x.id = t.id
      BY <2>2 DEF ConsentInv
    <3>2. /\ a.kind = t.kind /\ a.id = t.id
          /\ t.op = (IF a.op = "Accept" THEN "Accept" ELSE "Reject")
          /\ (a.kind = "SignMessage" /\ a.op = "Accept") =>
                a.payload = requests[a.kind][a.id] /\ a.payload \in Bodies
      BY <2>5 DEF Queued, t
    <3>3. t.kind \in Kinds /\ t.id \in Ids /\ x.body \in Bodies
      BY <2>2 DEF TapInputs, SessionType
    <3>4. Says(t.kind, t.id, x.body)
      BY <3>1 DEF Says
    <3>5. (a.kind = "SignMessage" /\ a.op = "Accept") => x.body = a.payload
      <4>1. requests[t.kind][t.id] = a.payload => Says(t.kind, t.id, a.payload)
        BY DEF Says
      <4> QED BY <3>2, <3>3, <3>4, <4>1 DEF OneBodyInv
    <3>6. Gave(x, a)
      BY <3>1, <3>2, <3>5 DEF Gave
    <3>7. /\ DOMAIN decided' = DOMAIN decided \cup {next_action_id} /\ decided'[next_action_id] = a
          /\ \A j \in DOMAIN decided : decided'[j] = decided[j]
      BY <2>5 DEF Queued
    <3> QED BY <2>1, <2>3, <3>6, <3>7 DEF ConsentInv
  <2> QED BY <1>0, <1>6, <2>4, <2>5, TakeForms
<1>7. CASE ServerReads
  <2>1. UNCHANGED <<decided, taps, inputs>>
    BY <1>7, ServerEffect
  <2> QED BY <2>1 DEF ConsentInv
<1>8. ASSUME NEW op \in {"Accept", "Reject"}, NEW k \in Kinds, NEW r \in Ids, Tap(op, k, r)
      PROVE  ConsentInv'
  <2> DEFINE t == [op |-> op, kind |-> k, id |-> r]
             new == [op |-> op, kind |-> k, id |-> r, body |-> requests[k][r]]
  <2>1. /\ taps' = taps \cup {new} /\ inputs' = Append(inputs, t) /\ UNCHANGED decided
        /\ inputs \in Seq(TapInputs) /\ t \in TapInputs
    BY <1>8, TapEffect DEF SessionType, TapInputs
  <2>2. new.op = t.op /\ new.kind = t.kind /\ new.id = t.id
    OBVIOUS
  <2> HIDE DEF t, new
  <2>3. \A n \in DOMAIN inputs' : inputs'[n] = t \/ (n \in DOMAIN inputs /\ inputs'[n] = inputs[n])
    <3>1. /\ DOMAIN Append(inputs, t) = DOMAIN inputs \cup {Len(inputs) + 1}
          /\ Append(inputs, t)[Len(inputs) + 1] = t
          /\ \A n \in DOMAIN inputs : Append(inputs, t)[n] = inputs[n]
      BY <2>1, AppendParts
    <3> QED BY <2>1, <3>1
  <2> QED BY <2>1, <2>2, <2>3 DEF ConsentInv
<1>9. ASSUME NEW k \in Kinds, NEW r \in Ids,
             (\E b \in Bodies : ServerCreates(k, r, b)) \/ ServerExpires(k, r)
      PROVE  ConsentInv'
  <2>1. UNCHANGED <<decided, taps, inputs>>
    BY <1>9, CreateEffect, ExpireEffect
  <2> QED BY <2>1 DEF ConsentInv
<1> QED BY <1>1, <1>2, <1>3, <1>4, <1>5, <1>6, <1>7, <1>8, <1>9 DEF SessionNext

-----------------------------------------------------------------------------
(* Consent                                                                 *)

\* The initial state.
LEMMA SessionStart ==
    ASSUME SessionInit
    PROVE  SessionType /\ ChainInv /\ ConsentInv /\ OneBodyInv
<1> USE DEF SessionInit, Init
<1>1. TypeOK
  <2>1. NoEffects \in EffectsType
    BY EffectsShape, Zenon
  <2>2. [k \in Kinds |-> [i \in Ids |-> None]] \in [Kinds -> RequestMap]
    BY DEF RequestMap
  <2>3. [d \in Domains |-> None] \in HoldingsMap
    BY DEF HoldingsMap
  <2>4. 1 \in 1..(MaxActionId + 1)
    BY BoundAssumption
  <2> QED BY <2>1, <2>2, <2>3, <2>4 DEF TypeOK
<1>2. QueueInv
  <2>1. QueueAux /\ ReplayComplete /\ ReplayFaithful /\ PushTokenRegistered
    BY DEF QueueAux, ReplayComplete, ReplayFaithful, PushTokenRegistered, is_logged_in
  <2>2. NoActionLost
    BY DEF NoActionLost, ActionIds
  <2> QED BY <2>1, <2>2 DEF QueueInv
<1>3. SessionType
  <2>1. ScreenIsState /\ phase = "Connecting" /\ sock = "none" /\ inputs = <<>> /\ ~connected
    BY DEF ScreenIsState, T!ActorInit
  <2>2. live \in [Kinds -> RequestMap]
    BY DEF RequestMap
  <2>3. decided \in Seq(Actions) /\ Len(decided) = next_action_id - 1
    OBVIOUS
  <2>4. inputs \in Seq(TapInputs) /\ up \in Seq(Frames) /\ down \in Seq(Messages)
    BY <2>1
  <2> QED BY <1>1, <1>2, <2>1, <2>2, <2>3, <2>4 DEF SessionType
<1>4. ChainInv
  BY DEF ChainInv
<1>5. ConsentInv
  BY DEF ConsentInv, T!ActorInit
<1>6. OneBodyInv
  BY NoneAssumption DEF OneBodyInv, Says
<1> QED BY <1>3, <1>4, <1>5, <1>6

BaseInv == SessionType /\ ChainInv /\ ConsentInv /\ OneBodyInv

\* The first layer of the inductive invariant.
LEMMA BaseInvariant == SessionSpec => []BaseInv
<1>1. BaseInv /\ [SessionNext]_sessionVars => BaseInv'
  BY SessionTypeStep, ChainStep, OneBodyStep, ConsentStep DEF BaseInv
<1>2. SessionInit => BaseInv
  BY SessionStart DEF BaseInv
<1> QED BY <1>1, <1>2, PTL DEF SessionSpec

\* OnlyWhatWasAnswered: whatever the server carries out, over any number of
\* reconnects, replays and requests, is an answer that the person gave to that
\* request, and a signed message is the one that was on the screen.
THEOREM ConsentHolds == SessionSpec => []OnlyWhatWasAnswered
<1>1. BaseInv => OnlyWhatWasAnswered
  <2> SUFFICES ASSUME BaseInv, NEW e \in applied
               PROVE  \E t \in taps : Gave(t, e[2])
    BY DEF OnlyWhatWasAnswered, Gave
  <2>1. e[1] \in DOMAIN decided /\ decided[e[1]] = e[2]
    BY DEF BaseInv, ChainInv
  <2> QED BY <2>1 DEF BaseInv, ConsentInv
<1> QED BY <1>1, BaseInvariant, PTL

-----------------------------------------------------------------------------
(* The connection state                                                    *)

\* StatusInv is kept.
LEMMA StatusStep ==
    ASSUME BaseInv, BaseInv', StatusInv, [SessionNext]_sessionVars
    PROVE  StatusInv'
<1> USE DEF StatusInv, StatusIsTrue, is_logged_in
<1>0. SessionType /\ ChainInv /\ ConsentInv /\ TypeOK'
  BY DEF BaseInv, SessionType
<1>1. CASE AttemptFails \/ Wake \/ UNCHANGED sessionVars
  BY <1>1, IdleEffect
<1>2. CASE Attempt
  <2>1. connected' /\ ~login_succeed' /\ was_logged_in' = FALSE /\ status' = "Connected"
    BY <1>0, <1>2, AttemptEffect
  <2> QED BY <2>1
<1>3. CASE ConnectionLost
  <2>1. ~connected' /\ status' = "Disconnected"
    BY <1>0, <1>3, LostEffect
  <2> QED BY <2>1
<1>4. CASE SocketDies
  <2>1. UNCHANGED <<connected, login_succeed, was_logged_in, status>>
    BY <1>0, <1>4, DiesEffect
  <2> QED BY <2>1
<1>5. CASE ReadFrame
  <2>1. connected /\ connected' /\ (login_succeed' = login_succeed \/ login_succeed')
    BY <1>0, <1>5, ReadEffect
  <2>2. /\ was_logged_in' = (was_logged_in \/ (is_logged_in' /\ ~was_logged_in))
        /\ status' = IF is_logged_in' /\ ~was_logged_in THEN "LoggedIn" ELSE status
    BY <1>5 DEF ReadFrame
  <2>3. CASE was_logged_in
    <3>1. login_succeed
      BY <2>1, <2>3
    <3>2. login_succeed'
      BY <2>1, <3>1
    <3>3. was_logged_in'
      BY <2>2, <2>3
    <3>4. status' = status
      BY <2>2, <2>3
    <3> QED BY <2>1, <3>1, <3>2, <3>3, <3>4
  <2>4. CASE ~was_logged_in /\ login_succeed'
    <3>1. was_logged_in' /\ status' = "LoggedIn"
      BY <2>1, <2>2, <2>4
    <3> QED BY <2>1, <2>4, <3>1
  <2>5. CASE ~was_logged_in /\ ~login_succeed'
    <3>1. ~was_logged_in' /\ status' = status /\ ~login_succeed
      BY <2>1, <2>2, <2>5
    <3> QED BY <2>1, <2>5, <3>1
  <2> QED BY <2>3, <2>4, <2>5
<1>6. CASE TakeInput
  <2>1. connected /\ connected' /\ UNCHANGED <<login_succeed, was_logged_in, status>>
    BY <1>0, <1>6, TakeEffect
  <2> QED BY <2>1
<1>7. CASE ServerReads
  <2>1. UNCHANGED <<connected, login_succeed, was_logged_in, status>>
    BY <1>0, <1>7, ServerEffect
  <2> QED BY <2>1
<1>8. ASSUME NEW k \in Kinds, NEW r \in Ids,
             \/ \E op \in {"Accept", "Reject"} : Tap(op, k, r)
             \/ \E b \in Bodies : ServerCreates(k, r, b)
             \/ ServerExpires(k, r)
      PROVE  StatusInv'
  <2>1. UNCHANGED <<connected, login_succeed, was_logged_in, status>>
    BY <1>0, <1>8, TapEffect, CreateEffect, ExpireEffect
  <2> QED BY <2>1
<1> QED BY <1>1, <1>2, <1>3, <1>4, <1>5, <1>6, <1>7, <1>8 DEF SessionNext

\* StatusIsTrue: the state the host was told is the core's, through every reconnect.
THEOREM StatusCorrect == SessionSpec => []StatusIsTrue
<1>1. SessionInit => StatusInv
  BY DEF SessionInit, Init, StatusInv, StatusIsTrue, is_logged_in
<1>2. BaseInv /\ BaseInv' /\ StatusInv /\ [SessionNext]_sessionVars => StatusInv'
  BY StatusStep
<1>3. StatusInv => StatusIsTrue
  BY DEF StatusInv
<1> QED BY <1>1, <1>2, <1>3, BaseInvariant, PTL DEF SessionSpec

-----------------------------------------------------------------------------
(* Login and delivery                                                      *)

\* What a verdict does to the queue.
LEMMA SettleEffect ==
    ASSUME SessionType, ReadFrame
    PROVE  LET m == Head(down) IN
           \/ UNCHANGED <<settled, refused, user_actions>>
           \/ /\ m.msg \in {"UserAction", "Error"} /\ m.id \in ActionIds
              /\ user_actions[m.id] # None /\ m.id \notin settled
              /\ settled' = settled \cup {m.id}
              /\ refused' = IF m.msg = "Error" THEN refused \cup {m.id} ELSE refused
              /\ user_actions' = [user_actions EXCEPT ![m.id] = None]
<1> DEFINE m == Head(down)
<1>1. refused' = IF effects'.failed = {} THEN refused ELSE refused \cup (settled' \ settled)
  BY ReadEffect
<1>2. CASE UNCHANGED <<user_actions, settled>>
  BY <1>1, <1>2
<1>3. CASE ~UNCHANGED <<user_actions, settled>>
  <2>1. /\ m.msg \in {"UserAction", "Error"}
        /\ user_actions' = [i \in ActionIds |-> IF i = m.id THEN None ELSE user_actions[i]]
        /\ settled' = settled \cup {i \in {m.id} : i \in ActionIds /\ user_actions[i] # None}
        /\ effects'.failed =
              IF m.msg = "UserAction" THEN {}
              ELSE {user_actions[i] : i \in {j \in {m.id} : j \in ActionIds
                                                           /\ user_actions[j] # None}}
    BY <1>3, ReadEffect
  <2> HIDE DEF m
  <2>2. user_actions \in [ActionIds -> Actions \cup {None}]
    BY DEF SessionType, TypeOK
  <2>3. m.id \in ActionIds /\ user_actions[m.id] # None
    <3> SUFFICES ASSUME ~(m.id \in ActionIds /\ user_actions[m.id] # None) PROVE FALSE
      OBVIOUS
    <3>1. settled' = settled
      BY <2>1
    <3>2. user_actions' = user_actions
      BY <2>1, <2>2
    <3> QED BY <1>3, <3>1, <3>2
  <2>4. m.id \notin settled
    BY <2>3 DEF SessionType, QueueInv, NoActionLost
  <2>5. settled' = settled \cup {m.id} /\ user_actions' = [user_actions EXCEPT ![m.id] = None]
    BY <2>1, <2>2, <2>3
  <2>6. m.msg = "Error" => effects'.failed # {}
    BY <2>1, <2>3
  <2>7. m.msg # "Error" => effects'.failed = {}
    BY <2>1
  <2>8. refused' = IF m.msg = "Error" THEN refused \cup {m.id} ELSE refused
    BY <1>1, <2>4, <2>5, <2>6, <2>7
  <2> QED BY <2>1, <2>3, <2>4, <2>5, <2>8 DEF m
<1> QED BY <1>2, <1>3

\* LoginInv is kept.
LEMMA LoginStep ==
    ASSUME BaseInv, BaseInv', LoginInv, [SessionNext]_sessionVars
    PROVE  LoginInv'
<1> DEFINE L1 == sock = "open" /\ (login_succeed \/ \E n \in DOMAIN down : down[n].msg = "Login")
                    => authenticated
           L2 == \A p \in DOMAIN up : up[p].req = "UserAction" =>
                    authenticated \/ up[p].id \in early
           L3 == \A n \in DOMAIN down :
                    /\ down[n].msg = "UserAction" => down[n].id \in delivered
                    /\ down[n].msg = "Error" => down[n].id \in delivered \cup early \cup {0}
           L4 == \A i \in settled : i \in delivered \/ (i \in early /\ i \in refused)
<1>a. L1 /\ L2 /\ L3 /\ L4
  BY DEF LoginInv, BlipLosesOnlyEarly
<1>b. SUFFICES L1' /\ L2' /\ L3' /\ L4'
  BY DEF LoginInv, BlipLosesOnlyEarly
<1>0. SessionType /\ SessionType' /\ ChainInv /\ ConsentInv /\ TypeOK'
  BY DEF BaseInv, SessionType
<1>1. CASE AttemptFails \/ Wake \/ UNCHANGED sessionVars
  BY <1>a, <1>1, IdleEffect
<1>2. CASE Attempt
  <2>1. /\ ~login_succeed' /\ DOMAIN down' = {}
        /\ \A p \in DOMAIN up' : up'[p].req = "Challenge"
        /\ UNCHANGED <<settled, delivered, early, refused>>
    BY <1>0, <1>2, AttemptEffect
  <2> QED BY <1>a, <2>1
<1>3. CASE ConnectionLost
  <2>1. /\ ~login_succeed' /\ DOMAIN down' = {} /\ DOMAIN up' = {}
        /\ UNCHANGED <<settled, delivered, early, refused>>
    BY <1>0, <1>3, LostEffect
  <2> QED BY <1>a, <2>1
<1>4. CASE SocketDies
  <2>1. /\ sock' = "dead" /\ DOMAIN up' = {} /\ DOMAIN down' \subseteq DOMAIN down
        /\ \A n \in DOMAIN down' : down'[n] = down[n]
        /\ UNCHANGED <<settled, delivered, early, refused>>
    BY <1>0, <1>4, DiesEffect
  <2> QED BY <1>a, <2>1
<1>5. CASE ReadFrame
  <2> DEFINE m == Head(down)
  <2>1. /\ m \in Messages /\ down # <<>> /\ down' = Tail(down) /\ down \in Seq(Messages)
        /\ UNCHANGED <<sock, authenticated, delivered, early>>
        /\ login_succeed' = login_succeed \/ m.msg = "Login"
    BY <1>0, <1>5, ReadEffect DEF SessionType
  <2>2. /\ 1 \in DOMAIN down /\ down[1] = m
        /\ \A n \in DOMAIN down' : n + 1 \in DOMAIN down /\ down'[n] = down[n + 1]
    BY <2>1, TailParts
  <2>3. /\ \A p \in DOMAIN up : up'[p] = up[p]
        /\ \A p \in DOMAIN up' \ DOMAIN up :
              up'[p].req = "UserAction" => m.msg = "Login" /\ sock = "open"
    BY <1>0, <1>5, ReadSends
  <2>4. \/ UNCHANGED <<settled, refused>>
        \/ /\ m.msg \in {"UserAction", "Error"} /\ m.id \in ActionIds /\ settled' = settled \cup {m.id}
           /\ refused' = IF m.msg = "Error" THEN refused \cup {m.id} ELSE refused
    BY <1>0, <1>5, SettleEffect
  <2> HIDE DEF m
  <2>5. L1'
    BY <1>a, <2>1, <2>2
  <2>6. L2'
    BY <1>a, <2>1, <2>2, <2>3
  <2>7. L3'
    BY <1>a, <2>1, <2>2
  <2>8. L4'
    <3>1. 0 \notin ActionIds
      BY DEF ActionIds
    <3>2. m.msg = "UserAction" => m.id \in delivered
      BY <1>a, <2>2
    <3>3. (m.msg = "Error" /\ m.id \in ActionIds) => m.id \in delivered \cup early
      BY <1>a, <2>2, <3>1
    <3> QED BY <1>a, <2>1, <2>4, <3>2, <3>3
  <2> QED BY <2>5, <2>6, <2>7, <2>8
<1>6. CASE TakeInput
  <2>1. UNCHANGED <<sock, down, authenticated, delivered, login_succeed, settled, refused>>
    BY <1>0, <1>6, TakeEffect
  <2>2. CASE UNCHANGED <<early, up>>
    BY <1>a, <2>1, <2>2
  <2>3. ASSUME NEW a \in Actions, Queued(a) PROVE L1' /\ L2' /\ L3' /\ L4'
    <3>1. /\ \A p \in DOMAIN up : up'[p] = up[p]
          /\ \A p \in DOMAIN up' \ DOMAIN up : up'[p].id = next_action_id
          /\ early' = IF login_succeed THEN early ELSE early \cup {next_action_id}
      BY <2>3 DEF Queued
    <3>2. DOMAIN up' # {} => sock = "open"
      BY <1>0, <2>1 DEF SessionType
    <3>3. L2'
      BY <1>a, <2>1, <3>1, <3>2
    <3> QED BY <1>a, <2>1, <3>1, <3>3
  <2> QED BY <1>0, <1>6, <2>2, <2>3, TakeForms
<1>7. CASE ServerReads
  <2> DEFINE f == Head(up)
             i == f.id
             a == f.arg
  <2>1. /\ sock = "open" /\ up # <<>> /\ up' = Tail(up) /\ up \in Seq(Frames)
        /\ UNCHANGED <<sock, login_succeed, settled, early, refused>>
        /\ authenticated \in BOOLEAN
    BY <1>0, <1>7, ServerEffect DEF SessionType
  <2>2. /\ 1 \in DOMAIN up /\ up[1] = f
        /\ \A p \in DOMAIN up' : p + 1 \in DOMAIN up /\ up'[p] = up[p + 1]
    BY <2>1, TailParts
  <2>3. \/ /\ UNCHANGED <<delivered, authenticated>>
           /\ Behind({Msg("Challenge")}) \/ Behind({Refusal(0)}) \/ Behind({})
        \/ authenticated' = TRUE /\ Behind({Snapshot}) /\ UNCHANGED delivered
        \/ /\ delivered' = delivered \cup {i} /\ UNCHANGED authenticated
           /\ \/ Behind({Removed(a.kind, a.id), Ack(i)})
              \/ Behind({Ack(i)}) \/ Behind({Refusal(i)})
        \/ /\ UNCHANGED <<delivered, authenticated>> /\ Behind({Refusal(i)})
           /\ f.req = "UserAction" /\ ~authenticated
    BY <1>0, <1>7, ServerEffect
  <2> HIDE DEF f
  <2>4. /\ \A n \in DOMAIN down : n \in DOMAIN down' /\ down'[n] = down[n]
        /\ \A n \in DOMAIN down' \ DOMAIN down :
              \/ down'[n].msg \in {"Challenge", "Removed"}
              \/ down'[n].msg = "Login" /\ authenticated'
              \/ down'[n].msg = "UserAction" /\ down'[n].id \in delivered'
              \/ down'[n].msg = "Error" /\ down'[n].id \in delivered' \cup {0}
              \/ /\ down'[n].msg = "Error" /\ down'[n].id = i
                 /\ f.req = "UserAction" /\ ~authenticated
    BY <2>3, MessageFields DEF Behind
  <2>5. delivered \subseteq delivered' /\ (authenticated => authenticated')
    BY <2>3
  <2>6. L1'
    BY <1>a, <2>1, <2>4, <2>5
  <2>7. L2'
    BY <1>a, <2>1, <2>2, <2>5
  <2>8. L3'
    BY <1>a, <2>1, <2>2, <2>4, <2>5
  <2>9. L4'
    BY <1>a, <2>1, <2>5
  <2> QED BY <2>6, <2>7, <2>8, <2>9
<1>8. ASSUME NEW op \in {"Accept", "Reject"}, NEW k \in Kinds, NEW r \in Ids, Tap(op, k, r)
      PROVE  L1' /\ L2' /\ L3' /\ L4'
  <2>1. UNCHANGED <<sock, login_succeed, up, down, authenticated, delivered, early, settled, refused>>
    BY <1>0, <1>8, TapEffect
  <2> QED BY <1>a, <2>1
<1>9. ASSUME NEW m, Notified(m), m.msg \in {"Created", "Removed"},
             UNCHANGED <<sock, login_succeed, up, authenticated, delivered, early, settled, refused>>
      PROVE  L1' /\ L2' /\ L3' /\ L4'
  <2>1. \A n \in DOMAIN down' :
          (n \in DOMAIN down /\ down'[n] = down[n]) \/ down'[n].msg \in {"Created", "Removed"}
    BY <1>9 DEF Notified, Behind
  <2> QED BY <1>a, <1>9, <2>1
<1>10. ASSUME NEW k \in Kinds, NEW r \in Ids, NEW b \in Bodies, ServerCreates(k, r, b)
       PROVE  L1' /\ L2' /\ L3' /\ L4'
  <2>1. /\ Notified(Created(k, r, b))
        /\ UNCHANGED <<sock, login_succeed, up, authenticated, delivered, early, settled, refused>>
    BY <1>0, <1>10, CreateEffect
  <2>2. Created(k, r, b).msg = "Created"
    BY MessageFields
  <2> QED BY <1>9, <2>1, <2>2
<1>11. ASSUME NEW k \in Kinds, NEW r \in Ids, ServerExpires(k, r)
       PROVE  L1' /\ L2' /\ L3' /\ L4'
  <2>1. /\ Notified(Removed(k, r))
        /\ UNCHANGED <<sock, login_succeed, up, authenticated, delivered, early, settled, refused>>
    BY <1>0, <1>11, ExpireEffect
  <2>2. Removed(k, r).msg = "Removed"
    BY MessageFields
  <2> QED BY <1>9, <2>1, <2>2
<1> HIDE DEF L1, L2, L3, L4
<1> QED BY <1>1, <1>2, <1>3, <1>4, <1>5, <1>6, <1>7, <1>8, <1>10, <1>11 DEF SessionNext

\* The second layer.
LEMMA LoginInvariant == SessionSpec => []LoginInv
<1>1. SessionInit => LoginInv
  BY DEF SessionInit, Init, T!ActorInit, LoginInv, BlipLosesOnlyEarly
<1>2. BaseInv /\ BaseInv' /\ LoginInv /\ [SessionNext]_sessionVars => LoginInv'
  BY LoginStep
<1> QED BY <1>1, <1>2, BaseInvariant, PTL DEF SessionSpec

\* BlipLosesOnlyEarly: an answer leaves the queue undelivered only if it was given
\* between the connection and the login, and then the host is told that it failed.
THEOREM BlipsAreHarmless == SessionSpec => []BlipLosesOnlyEarly
<1>1. LoginInv => BlipLosesOnlyEarly
  BY DEF LoginInv
<1> QED BY <1>1, LoginInvariant, PTL

-----------------------------------------------------------------------------
(* Verdicts                                                                *)

\* What is decided is an answer to a request that was created.
LEMMA DecidedKnown ==
    ASSUME BaseInv, NEW i \in DOMAIN decided
    PROVE  /\ decided[i] \in Actions /\ i \in ActionIds
           /\ decided[i].kind \in Kinds /\ decided[i].id \in Ids
           /\ <<decided[i].kind, decided[i].id>> \in used
<1>1. PICK t \in taps : Gave(t, decided[i])
  BY DEF BaseInv, ConsentInv
<1>2. t.kind \in Kinds /\ t.id \in Ids /\ t.body \in Bodies
  BY DEF BaseInv, SessionType
<1>3. Says(t.kind, t.id, t.body)
  BY DEF Says
<1>4. <<t.kind, t.id>> \in used
  BY <1>2, <1>3 DEF BaseInv, OneBodyInv
<1>5. decided[i] \in Actions
  BY DEF BaseInv, SessionType
<1>6. i \in ActionIds
  <2>1. i \in 1..Len(decided)
    BY DEF BaseInv, SessionType
  <2>2. Len(decided) = next_action_id - 1 /\ next_action_id \in 1..(MaxActionId + 1)
    BY DEF BaseInv, SessionType, TypeOK
  <2> QED BY <2>1, <2>2, BoundAssumption DEF ActionIds
<1> QED BY <1>1, <1>2, <1>4, <1>5, <1>6 DEF Gave

\* A closed request stays closed, and what was decided stays decided.
LEMMA Monotone ==
    ASSUME BaseInv, BaseInv', [SessionNext]_sessionVars
    PROVE  /\ \A i \in DOMAIN decided : i \in DOMAIN decided' /\ decided'[i] = decided[i]
           /\ used \subseteq used'
           /\ \A k \in Kinds, r \in Ids :
                 (live[k][r] = None /\ <<k, r>> \in used) => live'[k][r] = None
           /\ Shut \subseteq Shut'
<1> DEFINE Kept == /\ \A i \in DOMAIN decided : i \in DOMAIN decided' /\ decided'[i] = decided[i]
                   /\ used \subseteq used'
                   /\ \A k \in Kinds, r \in Ids :
                         (live[k][r] = None /\ <<k, r>> \in used) => live'[k][r] = None
<1>a. SUFFICES Kept
  <2>1. \A i \in DOMAIN decided : decided[i].kind \in Kinds /\ decided[i].id \in Ids
    BY DecidedKnown
  <2> QED BY <2>1 DEF Shut
<1>0. SessionType /\ SessionType' /\ ChainInv /\ ConsentInv /\ TypeOK'
  BY DEF BaseInv, SessionType
<1>1. CASE AttemptFails \/ Wake \/ UNCHANGED sessionVars
  BY <1>1, IdleEffect
<1>2. CASE Attempt
  BY <1>0, <1>2, AttemptEffect
<1>3. CASE ConnectionLost
  BY <1>0, <1>3, LostEffect
<1>4. CASE SocketDies
  BY <1>0, <1>4, DiesEffect
<1>5. CASE ReadFrame
  BY <1>0, <1>5, ReadEffect
<1>6. CASE TakeInput
  <2>1. UNCHANGED <<live, used>>
    BY <1>0, <1>6, TakeEffect
  <2>2. \A i \in DOMAIN decided : i \in DOMAIN decided' /\ decided'[i] = decided[i]
    <3>1. ASSUME NEW a \in Actions, Queued(a)
          PROVE  \A i \in DOMAIN decided : i \in DOMAIN decided' /\ decided'[i] = decided[i]
      BY <3>1 DEF Queued
    <3> QED BY <1>0, <1>6, <3>1, TakeForms
  <2> QED BY <2>1, <2>2
<1>7. CASE ServerReads
  <2> DEFINE a == Head(up).arg
  <2>1. UNCHANGED <<used, decided>>
    BY <1>0, <1>7, ServerEffect
  <2>2. live' = live \/ (a.kind \in Kinds /\ a.id \in Ids /\ live' = [live EXCEPT ![a.kind][a.id] = None])
    BY <1>0, <1>7, ServerEffect
  <2> HIDE DEF a
  <2>3. ASSUME NEW k \in Kinds, NEW r \in Ids
        PROVE  live'[k][r] = live[k][r] \/ live'[k][r] = None
    <3>1. live' = live \/ live'[k][r] = IF k = a.kind /\ r = a.id THEN None ELSE live[k][r]
      BY <1>0, <2>2 DEF SessionType, RequestMap
    <3> QED BY <3>1
  <2> QED BY <2>1, <2>3
<1>8. ASSUME NEW op \in {"Accept", "Reject"}, NEW k \in Kinds, NEW r \in Ids, Tap(op, k, r)
      PROVE  UNCHANGED <<live, used, decided>>
  BY <1>0, <1>8, TapEffect
<1>9. ASSUME NEW k \in Kinds, NEW r \in Ids, NEW b \in Bodies, ServerCreates(k, r, b)
      PROVE  /\ UNCHANGED decided /\ used \subseteq used'
             /\ \A j \in Kinds, q \in Ids :
                   (live[j][q] = None /\ <<j, q>> \in used) => live'[j][q] = None
  <2>1. /\ <<k, r>> \notin used /\ used' = used \cup {<<k, r>>} /\ live' = [live EXCEPT ![k][r] = b]
        /\ UNCHANGED decided
    BY <1>0, <1>9, CreateEffect
  <2>2. \A j \in Kinds, q \in Ids : live'[j][q] = IF j = k /\ q = r THEN b ELSE live[j][q]
    BY <1>0, <2>1 DEF SessionType, RequestMap
  <2> QED BY <2>1, <2>2
<1>10. ASSUME NEW k \in Kinds, NEW r \in Ids, ServerExpires(k, r)
       PROVE  /\ UNCHANGED <<decided, used>>
              /\ \A j \in Kinds, q \in Ids : live[j][q] = None => live'[j][q] = None
  <2>1. live' = [live EXCEPT ![k][r] = None] /\ UNCHANGED <<decided, used>>
    BY <1>0, <1>10, ExpireEffect
  <2>2. \A j \in Kinds, q \in Ids : live'[j][q] = IF j = k /\ q = r THEN None ELSE live[j][q]
    BY <1>0, <2>1 DEF SessionType, RequestMap
  <2> QED BY <2>1, <2>2
<1> QED BY <1>1, <1>2, <1>3, <1>4, <1>5, <1>6, <1>7, <1>8, <1>9, <1>10 DEF SessionNext

\* What is carried out is decided; the answers carried out or on their way after a step.
LEMMA WireAfter ==
    ASSUME BaseInv
    PROVE  /\ Done \subseteq DOMAIN decided /\ OnWire \subseteq DOMAIN decided
           /\ \A i \in Done : <<i, decided[i]>> \in applied
           /\ applied' = applied => Done' = Done
           /\ \A i, a : applied' = applied \cup {<<i, a>>} => Done' = Done \cup {i}
           /\ (\A p \in DOMAIN up' : up'[p].req = "UserAction" => p \in DOMAIN up /\ up'[p] = up[p])
                 => OnWire' \subseteq OnWire
<1>1. \A e \in applied : e[1] \in DOMAIN decided /\ decided[e[1]] = e[2] /\ e = <<e[1], e[2]>>
  BY DEF BaseInv, ChainInv, SessionType
<1>2. Done \subseteq DOMAIN decided /\ \A i \in Done : <<i, decided[i]>> \in applied
  BY <1>1 DEF Done
<1>3. OnWire \subseteq DOMAIN decided
  BY DEF OnWire, BaseInv, ChainInv
<1>4. applied' = applied => Done' = Done
  BY DEF Done
<1>5. ASSUME NEW i, NEW a, applied' = applied \cup {<<i, a>>} PROVE Done' = Done \cup {i}
  <2>1. <<i, a>>[1] = i
    OBVIOUS
  <2>2. \A x : x \in Done' <=> \E e \in applied \cup {<<i, a>>} : x = e[1]
    BY <1>5 DEF Done
  <2>3. \A x : x \in Done <=> \E e \in applied : x = e[1]
    BY DEF Done
  <2> QED BY <2>1, <2>2, <2>3
<1>6. ASSUME \A p \in DOMAIN up' : up'[p].req = "UserAction" => p \in DOMAIN up /\ up'[p] = up[p]
      PROVE  OnWire' \subseteq OnWire
  BY <1>6 DEF OnWire
<1> QED BY <1>2, <1>3, <1>4, <1>5, <1>6

\* Steps that settle nothing, carry nothing out and send no action.
LEMMA VerdictQuiet ==
    ASSUME BaseInv, BaseInv', [SessionNext]_sessionVars, VerdictInv,
           UNCHANGED <<applied, settled, refused>>, login_succeed' => login_succeed,
           \A p \in DOMAIN up' : up'[p].req = "UserAction" =>
               p \in DOMAIN up /\ up'[p] = up[p] /\ (~authenticated' => ~authenticated),
           \A n \in DOMAIN down' : down'[n].msg \in {"UserAction", "Error"} =>
               /\ n \in DOMAIN down /\ down'[n] = down[n]
               /\ \A m \in DOMAIN down' : m < n => m \in DOMAIN down /\ down'[m] = down[m]
    PROVE  VerdictInv'
<1>1. Done' = Done /\ OnWire' \subseteq OnWire /\ Shut \subseteq Shut'
  BY WireAfter, Monotone
<1>2. \A n \in DOMAIN down' :
          /\ down'[n].msg = "UserAction" => down'[n].id \in Done'
          /\ (down'[n].msg = "Error" /\ down'[n].id # 0) =>
                \/ down'[n].id \in Shut'
                \/ /\ down'[n].id \notin OnWire' /\ ~login_succeed'
                   /\ \A m \in DOMAIN down' : m < n => down'[m].msg # "Login"
  BY <1>1 DEF VerdictInv
<1>3. /\ Done' \subseteq Shut'
      /\ \A i \in refused' : i \in settled' /\ (i \in Shut' \/ i \notin OnWire')
      /\ \A i \in settled' : i \in refused' \/ i \in Done'
  BY <1>1 DEF VerdictInv
<1>4. ~authenticated' =>
          \A p \in DOMAIN up' : up'[p].req = "UserAction" =>
              /\ up'[p].id \notin Done'
              /\ \A q \in DOMAIN up' : (up'[q].req = "UserAction" /\ up'[q].id = up'[p].id) => q = p
  BY <1>1 DEF VerdictInv
<1> QED BY <1>2, <1>3, <1>4 DEF VerdictInv

\* VerdictInv is kept.
LEMMA VerdictStep ==
    ASSUME BaseInv, BaseInv', LoginInv, VerdictInv, [SessionNext]_sessionVars
    PROVE  VerdictInv'
<1> DEFINE V1 == Done \subseteq Shut
           V2 == \A n \in DOMAIN down : down[n].msg = "UserAction" => down[n].id \in Done
           V3 == \A n \in DOMAIN down : (down[n].msg = "Error" /\ down[n].id # 0) =>
                    \/ down[n].id \in Shut
                    \/ /\ down[n].id \notin OnWire /\ ~login_succeed
                       /\ \A m \in DOMAIN down : m < n => down[m].msg # "Login"
           V4 == \A i \in refused : i \in settled /\ (i \in Shut \/ i \notin OnWire)
           V5 == \A i \in settled : i \in refused \/ i \in Done
           V6 == ~authenticated =>
                    \A p \in DOMAIN up : up[p].req = "UserAction" =>
                        /\ up[p].id \notin Done
                        /\ \A q \in DOMAIN up :
                              (up[q].req = "UserAction" /\ up[q].id = up[p].id) => q = p
           L1 == sock = "open" /\ (login_succeed \/ \E n \in DOMAIN down : down[n].msg = "Login")
                    => authenticated
<1>0. SessionType /\ SessionType' /\ ChainInv /\ ConsentInv /\ TypeOK'
  BY DEF BaseInv, SessionType
<1>a. V1 /\ V2 /\ V3 /\ V4 /\ V5 /\ V6 /\ L1
  BY DEF VerdictInv, LoginInv
<1>b. V1' /\ V2' /\ V3' /\ V4' /\ V5' /\ V6' => VerdictInv'
  BY DEF VerdictInv
<1>c. /\ Shut \subseteq Shut' /\ Done \subseteq DOMAIN decided /\ OnWire \subseteq DOMAIN decided
      /\ (applied' = applied => Done' = Done)
      /\ \A n \in DOMAIN down : down[n].msg = "Error" => down[n].id \in DOMAIN decided \cup {0}
  BY <1>0, Monotone, WireAfter DEF ChainInv
<1>1. CASE AttemptFails \/ Wake \/ UNCHANGED sessionVars
  <2>1. UNCHANGED <<applied, settled, refused, login_succeed, up, authenticated, down>>
    BY <1>1, IdleEffect
  <2> QED BY <2>1, VerdictQuiet
<1>2. CASE Attempt
  <2>1. /\ UNCHANGED <<applied, settled, refused>> /\ ~login_succeed' /\ DOMAIN down' = {}
        /\ \A p \in DOMAIN up' : up'[p].req = "Challenge"
    BY <1>0, <1>2, AttemptEffect
  <2> QED BY <2>1, VerdictQuiet
<1>3. CASE ConnectionLost
  <2>1. /\ UNCHANGED <<applied, settled, refused>> /\ ~login_succeed' /\ DOMAIN down' = {}
        /\ DOMAIN up' = {}
    BY <1>0, <1>3, LostEffect
  <2> QED BY <2>1, VerdictQuiet
<1>4. CASE SocketDies
  <2>1. /\ UNCHANGED <<applied, settled, refused, login_succeed>> /\ DOMAIN up' = {}
        /\ DOMAIN down' \subseteq DOMAIN down /\ \A n \in DOMAIN down' : down'[n] = down[n]
    BY <1>0, <1>4, DiesEffect
  <2> QED BY <2>1, VerdictQuiet
<1>5. CASE ReadFrame
  <2> DEFINE m == Head(down)
  <2>1. /\ m \in Messages /\ down # <<>> /\ down' = Tail(down) /\ down \in Seq(Messages)
        /\ UNCHANGED <<sock, authenticated, applied>>
        /\ login_succeed' = login_succeed \/ m.msg = "Login"
    BY <1>0, <1>5, ReadEffect DEF SessionType
  <2>2. /\ 1 \in DOMAIN down /\ down[1] = m
        /\ \A n \in DOMAIN down' : n \in Nat \ {0} /\ n + 1 \in DOMAIN down /\ down'[n] = down[n + 1]
    BY <2>1, TailParts
  <2>3. /\ \A p \in DOMAIN up : up'[p] = up[p]
        /\ \A p \in DOMAIN up' \ DOMAIN up : up'[p].req = "UserAction" =>
              /\ m.msg = "Login" /\ sock = "open"
              /\ up'[p].id \in ActionIds /\ user_actions[up'[p].id] # None
    BY <1>0, <1>5, ReadSends
  <2>4. \/ UNCHANGED <<settled, refused>>
        \/ /\ m.msg \in {"UserAction", "Error"} /\ m.id \in ActionIds /\ settled' = settled \cup {m.id}
           /\ refused' = IF m.msg = "Error" THEN refused \cup {m.id} ELSE refused
    BY <1>0, <1>5, SettleEffect
  <2> HIDE DEF m
  <2>5. Done' = Done
    BY <1>c, <2>1
  <2>6. /\ m.msg # "Login" => OnWire' \subseteq OnWire
        /\ \A i \in OnWire' : i \in OnWire \/ i \notin settled
    <3>1. \A i \in OnWire' : i \in OnWire \/ (m.msg = "Login" /\ i \in ActionIds /\ user_actions[i] # None)
      BY <2>3 DEF OnWire
    <3>2. \A i \in ActionIds : user_actions[i] # None => i \notin settled
      BY <1>0 DEF SessionType, QueueInv, NoActionLost
    <3> QED BY <3>1, <3>2
  <2>7. V1' /\ V2'
    BY <1>a, <1>c, <2>2, <2>5
  <2>8. V3'
    <3> SUFFICES ASSUME NEW n \in DOMAIN down', down'[n].msg = "Error", down'[n].id # 0
                 PROVE  \/ down'[n].id \in Shut'
                        \/ /\ down'[n].id \notin OnWire' /\ ~login_succeed'
                           /\ \A q \in DOMAIN down' : q < n => down'[q].msg # "Login"
      OBVIOUS
    <3>1. n + 1 \in DOMAIN down /\ down[n + 1] = down'[n] /\ n \in Nat \ {0}
      BY <2>2
    <3>2. CASE down'[n].id \in Shut
      BY <1>a, <1>c, <2>5, <3>1, <3>2
    <3>3. CASE down'[n].id \notin Shut
      <4>1. /\ down'[n].id \notin OnWire /\ ~login_succeed
            /\ \A q \in DOMAIN down : q < n + 1 => down[q].msg # "Login"
        BY <1>a, <3>1, <3>3
      <4>2. m.msg # "Login"
        BY <2>2, <3>1, <4>1
      <4>3. \A q \in DOMAIN down' : q < n => down'[q].msg # "Login"
        <5> SUFFICES ASSUME NEW q \in DOMAIN down', q < n PROVE down'[q].msg # "Login"
          OBVIOUS
        <5>1. q \in Nat /\ q + 1 \in DOMAIN down /\ down'[q] = down[q + 1]
          BY <2>2
        <5>2. q + 1 < n + 1
          BY <3>1, <5>1
        <5> QED BY <4>1, <5>1, <5>2
      <4> QED BY <2>1, <2>5, <2>6, <4>1, <4>2, <4>3
    <3> QED BY <3>2, <3>3
  <2>9. V4' /\ V5'
    <3>1. 0 \notin ActionIds
      BY DEF ActionIds
    <3>2. m.msg = "UserAction" => m.id \in Done
      BY <1>a, <2>2
    <3>3. (m.msg = "Error" /\ m.id \in ActionIds) => (m.id \in Shut \/ m.id \notin OnWire)
      BY <1>a, <2>2, <3>1
    <3>4. ASSUME NEW i \in refused PROVE i \in settled' /\ (i \in Shut' \/ i \notin OnWire')
      BY <1>a, <1>c, <2>4, <2>5, <2>6
    <3>5. ASSUME NEW i \in refused', i \notin refused
          PROVE  i \in settled' /\ (i \in Shut' \/ i \notin OnWire')
      <4>1. m.msg = "Error" /\ i = m.id /\ m.id \in ActionIds /\ i \in settled'
        BY <2>4, <3>5
      <4> QED BY <1>c, <2>5, <2>6, <3>3, <4>1
    <3>6. V4'
      BY <3>4, <3>5
    <3>7. V5'
      BY <1>a, <2>4, <2>5, <3>2
    <3> QED BY <3>6, <3>7
  <2>10. V6'
    <3> SUFFICES ASSUME ~authenticated PROVE V6'
      BY <2>1
    <3>1. \A p \in DOMAIN up' : up'[p].req = "UserAction" => p \in DOMAIN up /\ up'[p] = up[p]
      BY <1>a, <2>2, <2>3
    <3> QED BY <1>a, <2>5, <3>1
  <2> HIDE DEF V1, V2, V3, V4, V5, V6
  <2> QED BY <1>b, <2>7, <2>8, <2>9, <2>10
<1>6. CASE TakeInput
  <2>1. UNCHANGED <<sock, down, authenticated, login_succeed, settled, refused, applied>>
    BY <1>0, <1>6, TakeEffect
  <2>2. CASE UNCHANGED up
    BY <2>1, <2>2, VerdictQuiet
  <2>3. ASSUME NEW a \in Actions, Queued(a) PROVE VerdictInv'
    <3> DEFINE i == next_action_id
    <3>1. /\ \A p \in DOMAIN up : up'[p] = up[p]
          /\ \A p \in DOMAIN up' \ DOMAIN up : up'[p].id = i
          /\ i \notin DOMAIN decided /\ i # 0 /\ i \notin settled
          /\ \A p, q \in DOMAIN up' \ DOMAIN up : p = q
      BY <2>3 DEF Queued
    <3> HIDE DEF i
    <3>2. Done' = Done /\ OnWire' \subseteq OnWire \cup {i}
      BY <1>c, <2>1, <3>1 DEF OnWire
    <3>3. V1' /\ V2' /\ V4' /\ V5'
      BY <1>a, <1>c, <2>1, <3>1, <3>2
    <3>4. V3'
      BY <1>a, <1>c, <2>1, <3>1, <3>2
    <3>5. V6'
      <4> SUFFICES ASSUME ~authenticated, NEW p \in DOMAIN up', up'[p].req = "UserAction"
                   PROVE  /\ up'[p].id \notin Done
                          /\ \A q \in DOMAIN up' :
                                (up'[q].req = "UserAction" /\ up'[q].id = up'[p].id) => q = p
        BY <2>1, <3>2
      <4>1. \A q \in DOMAIN up : up[q].req = "UserAction" => up[q].id # i
        BY <1>c, <3>1 DEF OnWire
      <4>2. CASE p \in DOMAIN up
        BY <1>a, <3>1, <4>1, <4>2
      <4>3. CASE p \notin DOMAIN up
        BY <1>c, <3>1, <4>1, <4>3
      <4> QED BY <4>2, <4>3
    <3> HIDE DEF V1, V2, V3, V4, V5, V6
    <3> QED BY <1>b, <3>3, <3>4, <3>5
  <2> QED BY <1>0, <1>6, <2>2, <2>3, TakeForms
<1>7. CASE ServerReads
  <2> DEFINE f == Head(up)
             i == f.id
             a == f.arg
             New(n) == n \in DOMAIN down' /\ n \notin DOMAIN down
  <2>1. /\ sock = "open" /\ up # <<>> /\ up' = Tail(up) /\ up \in Seq(Frames)
        /\ UNCHANGED <<login_succeed, settled, refused, decided, used>>
        /\ authenticated \in BOOLEAN
    BY <1>0, <1>7, ServerEffect DEF SessionType
  <2>2. /\ 1 \in DOMAIN up /\ up[1] = f
        /\ \A p \in DOMAIN up' : p \in Nat \ {0} /\ p + 1 \in DOMAIN up /\ up'[p] = up[p + 1]
    BY <2>1, TailParts
  <2>3. f.req = "UserAction" => /\ i \in DOMAIN decided /\ a = decided[i] /\ i \in OnWire
                                /\ a.kind \in Kinds /\ a.id \in Ids
    BY <1>0, <1>7, <2>2, ServerEffect DEF OnWire
  <2>4. \/ /\ UNCHANGED <<applied, authenticated>>
           /\ Behind({Msg("Challenge")}) \/ Behind({Refusal(0)}) \/ Behind({})
        \/ authenticated' = TRUE /\ Behind({Snapshot}) /\ UNCHANGED applied
        \/ /\ f.req = "UserAction" /\ authenticated /\ live[a.kind][a.id] # None
           /\ live' = [live EXCEPT ![a.kind][a.id] = None]
           /\ applied' = applied \cup {<<i, a>>} /\ UNCHANGED authenticated
           /\ Behind({Removed(a.kind, a.id), Ack(i)})
        \/ /\ f.req = "UserAction" /\ live[a.kind][a.id] = None
           /\ Behind({Refusal(i)}) \/ (<<i, a>> \in applied /\ Behind({Ack(i)}))
           /\ UNCHANGED <<applied, authenticated>>
        \/ /\ UNCHANGED <<applied, authenticated>> /\ Behind({Refusal(i)})
           /\ f.req = "UserAction" /\ ~authenticated
    BY <1>0, <1>7, ServerEffect
  <2>5. OnWire' \subseteq OnWire
    BY <2>2 DEF OnWire
  <2> HIDE DEF f
  <2>6. /\ \A n \in DOMAIN down : n \in DOMAIN down' /\ down'[n] = down[n]
        /\ \A n, q : (New(q) /\ n \in DOMAIN down) => n < q
    <3>1. DOMAIN down = 1..Len(down) /\ Len(down) \in Nat /\ DOMAIN down' = 1..Len(down') /\ Len(down') \in Nat
      BY <1>0 DEF SessionType
    <3>2. /\ \A n \in DOMAIN down : n \in DOMAIN down' /\ down'[n] = down[n]
          /\ \A n \in DOMAIN down' \ DOMAIN down : n > Len(down)
      BY <2>4 DEF Behind
    <3> QED BY <3>1, <3>2
  <2>7. (f.req = "UserAction" /\ live[a.kind][a.id] = None) => i \in Shut
    BY <2>3, DecidedKnown DEF Shut
  <2>8. \/ UNCHANGED applied /\ Done' = Done
        \/ /\ Done' = Done \cup {i} /\ i \in OnWire /\ i \notin Shut /\ i \in Shut'
           /\ authenticated /\ i \in DOMAIN decided
    <3>1. CASE UNCHANGED applied
      BY <1>c, <3>1
    <3>2. CASE ~UNCHANGED applied
      <4>1. /\ f.req = "UserAction" /\ authenticated /\ live[a.kind][a.id] # None
            /\ live' = [live EXCEPT ![a.kind][a.id] = None] /\ applied' = applied \cup {<<i, a>>}
        BY <2>4, <3>2
      <4>2. Done' = Done \cup {i}
        BY <4>1, WireAfter
      <4>3. i \notin Shut
        BY <2>3, <4>1 DEF Shut
      <4>4. live'[a.kind][a.id] = None
        BY <1>0, <2>3, <4>1 DEF SessionType, RequestMap
      <4>5. i \in Shut'
        BY <2>1, <2>3, <4>1, <4>4, DecidedKnown DEF Shut
      <4> QED BY <2>3, <4>1, <4>2, <4>3, <4>5
    <3> QED BY <3>1, <3>2
  <2>9. V1'
    BY <1>a, <1>c, <2>8
  <2>10. ASSUME NEW n, New(n)
         PROVE  /\ down'[n].msg = "UserAction" => down'[n].id \in Done'
                /\ (down'[n].msg = "Error" /\ down'[n].id # 0) =>
                      \/ down'[n].id \in Shut'
                      \/ /\ down'[n].id \notin OnWire' /\ ~login_succeed'
                         /\ \A m \in DOMAIN down' : m < n => down'[m].msg # "Login"
    <3>1. CASE Behind({Msg("Challenge")}) \/ Behind({Refusal(0)}) \/ Behind({}) \/ Behind({Snapshot})
      BY <2>10, <3>1, MessageFields DEF Behind
    <3>2. CASE /\ f.req = "UserAction" /\ authenticated /\ live[a.kind][a.id] # None
               /\ applied' = applied \cup {<<i, a>>}
               /\ Behind({Removed(a.kind, a.id), Ack(i)})
      <4>1. Done' = Done \cup {i}
        BY <3>2, WireAfter
      <4> QED BY <2>10, <3>2, <4>1, MessageFields DEF Behind
    <3>3. CASE /\ f.req = "UserAction" /\ live[a.kind][a.id] = None
               /\ Behind({Refusal(i)}) \/ (<<i, a>> \in applied /\ Behind({Ack(i)}))
               /\ UNCHANGED applied
      <4>1. Done' = Done /\ i \in Shut'
        BY <1>c, <2>7, <3>3
      <4>2. <<i, a>> \in applied => i \in Done
        BY DEF Done
      <4>3. down'[n] = Refusal(i) \/ (<<i, a>> \in applied /\ down'[n] = Ack(i))
        BY <2>10, <3>3 DEF Behind
      <4> QED BY <4>1, <4>2, <4>3, MessageFields
    <3>4. CASE /\ UNCHANGED applied /\ Behind({Refusal(i)})
               /\ f.req = "UserAction" /\ ~authenticated
      <4>1. Done' = Done /\ down'[n] = Refusal(i)
        BY <1>c, <2>10, <3>4 DEF Behind
      <4>3. i \notin OnWire'
        <5> SUFFICES ASSUME NEW p \in DOMAIN up', up'[p].req = "UserAction", up'[p].id = i PROVE FALSE
          BY DEF OnWire
        <5>1. p + 1 \in DOMAIN up /\ up[p + 1] = up'[p] /\ p + 1 # 1
          BY <2>2
        <5> QED BY <1>a, <2>2, <3>4, <5>1
      <4>4. ~login_succeed' /\ \A m \in DOMAIN down : down[m].msg # "Login"
        BY <1>a, <2>1, <3>4
      <4>5. \A m \in DOMAIN down' : m \in DOMAIN down \/ down'[m] = Refusal(i)
        BY <3>4 DEF Behind
      <4>6. \A m \in DOMAIN down' : m < n => down'[m].msg # "Login"
        BY <2>6, <4>4, <4>5, MessageFields
      <4> QED BY <4>1, <4>3, <4>4, <4>6, MessageFields
    <3> HIDE DEF New
    <3> QED BY <2>4, <3>1, <3>2, <3>3, <3>4
  <2>11. V2'
    BY <1>a, <2>6, <2>8, <2>10
  <2>12. V3'
    <3> SUFFICES ASSUME NEW n \in DOMAIN down', down'[n].msg = "Error", down'[n].id # 0
                 PROVE  \/ down'[n].id \in Shut'
                        \/ /\ down'[n].id \notin OnWire' /\ ~login_succeed'
                           /\ \A q \in DOMAIN down' : q < n => down'[q].msg # "Login"
      OBVIOUS
    <3>1. CASE n \notin DOMAIN down
      BY <2>10, <3>1
    <3>2. CASE n \in DOMAIN down
      <4>1. /\ down[n] = down'[n]
            /\ \/ down[n].id \in Shut
               \/ /\ down[n].id \notin OnWire /\ ~login_succeed
                  /\ \A m \in DOMAIN down : m < n => down[m].msg # "Login"
        BY <1>a, <2>6, <3>2
      <4>3. \A q \in DOMAIN down' : q < n => q \in DOMAIN down /\ down'[q] = down[q]
        <5>1. DOMAIN down' \subseteq Nat
          BY <1>0 DEF SessionType
        <5> QED BY <2>6, <3>2, <5>1
      <4> QED BY <1>c, <2>1, <2>5, <4>1, <4>3
    <3> QED BY <3>1, <3>2
  <2>13. V4' /\ V5'
    BY <1>a, <1>c, <2>1, <2>5, <2>8
  <2>14. V6'
    <3> SUFFICES ASSUME ~authenticated', NEW p \in DOMAIN up', up'[p].req = "UserAction"
                 PROVE  /\ up'[p].id \notin Done'
                        /\ \A q \in DOMAIN up' :
                              (up'[q].req = "UserAction" /\ up'[q].id = up'[p].id) => q = p
      OBVIOUS
    <3>1. ~authenticated /\ Done' = Done
      BY <2>4, <2>8
    <3>2. up[p + 1] = up'[p] /\ p + 1 \in DOMAIN up /\ p \in Nat
      BY <2>2
    <3>3. ASSUME NEW q \in DOMAIN up', up'[q].req = "UserAction", up'[q].id = up'[p].id PROVE q = p
      <4>1. up[q + 1] = up'[q] /\ q + 1 \in DOMAIN up /\ q \in Nat
        BY <2>2
      <4>2. q + 1 = p + 1
        BY <1>a, <3>1, <3>2, <3>3, <4>1
      <4> QED BY <3>2, <4>1, <4>2
    <3> QED BY <1>a, <3>1, <3>2, <3>3
  <2> HIDE DEF V1, V2, V3, V4, V5, V6
  <2> QED BY <1>b, <2>9, <2>11, <2>12, <2>13, <2>14
<1>8. ASSUME NEW op \in {"Accept", "Reject"}, NEW k \in Kinds, NEW r \in Ids, Tap(op, k, r)
      PROVE  VerdictInv'
  <2>1. UNCHANGED <<applied, settled, refused, login_succeed, up, authenticated, down>>
    BY <1>0, <1>8, TapEffect
  <2> QED BY <2>1, VerdictQuiet
<1>9. ASSUME NEW m, Notified(m), m.msg \in {"Created", "Removed"},
             UNCHANGED <<applied, settled, refused, login_succeed, up, authenticated>>
      PROVE  VerdictInv'
  <2>1. down \in Seq(Messages) /\ DOMAIN down = 1..Len(down) /\ Len(down) \in Nat
    BY <1>0 DEF SessionType
  <2>2. \A n \in DOMAIN down' :
          \/ n \in DOMAIN down /\ down'[n] = down[n]
          \/ down'[n].msg \in {"Created", "Removed"} /\ n > Len(down) /\ n \in Nat
    <3>1. DOMAIN down' = 1..Len(down') /\ Len(down') \in Nat
      BY <1>0 DEF SessionType
    <3> QED BY <1>9, <3>1 DEF Notified, Behind
  <2>3. \A n \in DOMAIN down' : down'[n].msg \in {"UserAction", "Error"} =>
               /\ n \in DOMAIN down /\ down'[n] = down[n]
               /\ \A q \in DOMAIN down' : q < n => q \in DOMAIN down /\ down'[q] = down[q]
    BY <2>1, <2>2
  <2> QED BY <1>9, <2>3, VerdictQuiet
<1>10. ASSUME NEW k \in Kinds, NEW r \in Ids, NEW b \in Bodies, ServerCreates(k, r, b)
       PROVE  VerdictInv'
  <2>1. /\ Notified(Created(k, r, b))
        /\ UNCHANGED <<applied, settled, refused, login_succeed, up, authenticated>>
    BY <1>0, <1>10, CreateEffect
  <2>2. Created(k, r, b).msg = "Created"
    BY MessageFields
  <2> QED BY <1>9, <2>1, <2>2
<1>11. ASSUME NEW k \in Kinds, NEW r \in Ids, ServerExpires(k, r)
       PROVE  VerdictInv'
  <2>1. /\ Notified(Removed(k, r))
        /\ UNCHANGED <<applied, settled, refused, login_succeed, up, authenticated>>
    BY <1>0, <1>11, ExpireEffect
  <2>2. Removed(k, r).msg = "Removed"
    BY MessageFields
  <2> QED BY <1>9, <2>1, <2>2
<1> QED BY <1>1, <1>2, <1>3, <1>4, <1>5, <1>6, <1>7, <1>8, <1>10, <1>11 DEF SessionNext

\* The third layer.
LEMMA VerdictInvariant == SessionSpec => []VerdictInv
<1>1. SessionInit => VerdictInv
  BY DEF SessionInit, Init, VerdictInv, Done
<1>2. BaseInv /\ BaseInv' /\ LoginInv /\ VerdictInv /\ [SessionNext]_sessionVars => VerdictInv'
  BY VerdictStep
<1> QED BY <1>1, <1>2, BaseInvariant, LoginInvariant, PTL DEF SessionSpec

\* Steps that settle nothing, carry nothing out and bring no refusal, and lose word of
\* nothing unnoticed.
LEMMA HeardQuiet ==
    ASSUME BaseInv, HeardInv, UNCHANGED <<applied, settled, refused>>, unheard \subseteq unheard',
           \A n \in DOMAIN down : down[n].msg = "UserAction" =>
               (n \in DOMAIN down' /\ down'[n] = down[n]) \/ down[n].id \in unheard',
           \A n \in DOMAIN down' : down'[n].msg = "Error" =>
               n \in DOMAIN down /\ down'[n] = down[n]
    PROVE  HeardInv'
<1>1. Done' = Done
  BY WireAfter
<1>2. \A i : Word(i) => i \in unheard' \/ Word(i)'
  BY DEF Word
<1>3. \A i, n : WordAhead(i, n) => i \in unheard' \/ WordAhead(i, n)'
  BY DEF WordAhead
<1>4. \A i \in Done' : i \in unheard' \/ i \in settled' \/ Word(i)'
  BY <1>1, <1>2 DEF HeardInv
<1>5. ASSUME NEW n \in DOMAIN down', down'[n].msg = "Error", down'[n].id \in Done'
      PROVE  down'[n].id \in unheard' \/ down'[n].id \in settled' \/ WordAhead(down[n].id, n)'
  <2> DEFINE i == down[n].id
  <2>1. n \in DOMAIN down /\ down'[n] = down[n]
    BY <1>5
  <2>2. i \in unheard \/ i \in settled \/ WordAhead(i, n)
    BY <1>1, <1>5, <2>1 DEF HeardInv
  <2>3. PICK j : j = i
    OBVIOUS
  <2>4. WordAhead(j, n) => j \in unheard' \/ WordAhead(j, n)'
    BY <1>3
  <2>5. WordAhead(j, n)' => WordAhead(down[n].id, n)'
    BY <2>1, <2>3 DEF WordAhead
  <2> QED BY <2>1, <2>2, <2>3, <2>4, <2>5
<1>6. \A i \in refused' : i \in Done' => i \in unheard'
  BY <1>1 DEF HeardInv
<1> QED BY <1>4, <1>5, <1>6 DEF HeardInv

\* The message that is read settles its answer, if it was not settled yet.
LEMMA ReadSettles ==
    ASSUME BaseInv, ReadFrame, Head(down).msg \in {"UserAction", "Error"},
           Head(down).id \in DOMAIN decided
    PROVE  Head(down).id \in settled'
<1> DEFINE i == Head(down).id
<1>0. SessionType
  BY DEF BaseInv
<1>1. settled' = settled \cup {j \in {i} : j \in ActionIds /\ user_actions[j] # None}
  BY <1>0, ReadEffect
<1>2. i \in ActionIds
  BY DecidedKnown
<1>3. i < next_action_id
  <2>1. i \in 1..Len(decided) /\ Len(decided) = next_action_id - 1 /\ next_action_id \in Nat
    BY <1>0 DEF SessionType, TypeOK
  <2> QED BY <2>1
<1>4. user_actions[i] # None \/ i \in settled
  BY <1>0, <1>2, <1>3 DEF SessionType, QueueInv, NoActionLost
<1> QED BY <1>1, <1>2, <1>4

\* HeardInv is kept.
LEMMA HeardStep ==
    ASSUME BaseInv, BaseInv', VerdictInv, HeardInv, [SessionNext]_sessionVars
    PROVE  HeardInv'
<1>0. SessionType /\ SessionType' /\ ChainInv /\ ConsentInv /\ TypeOK'
  BY DEF BaseInv, SessionType
<1>1. CASE AttemptFails \/ Wake \/ UNCHANGED sessionVars
  <2>1. UNCHANGED <<applied, settled, refused, unheard, down>>
    BY <1>1, IdleEffect
  <2> QED BY <2>1, HeardQuiet
<1>2. CASE Attempt
  <2>1. UNCHANGED <<applied, settled, refused, unheard>> /\ DOMAIN down = {} /\ DOMAIN down' = {}
    BY <1>0, <1>2, AttemptEffect
  <2> QED BY <2>1, HeardQuiet
<1>3. CASE ConnectionLost
  <2>1. /\ UNCHANGED <<applied, settled, refused>> /\ DOMAIN down' = {}
        /\ unheard' = unheard \cup Acknowledged(down)
    BY <1>0, <1>3, LostEffect
  <2>2. \A n \in DOMAIN down : down[n].msg = "UserAction" => down[n].id \in unheard'
    BY <2>1 DEF Acknowledged
  <2> QED BY <2>1, <2>2, HeardQuiet
<1>4. CASE SocketDies
  <2>1. /\ UNCHANGED <<applied, settled, refused>>
        /\ DOMAIN down' \subseteq DOMAIN down /\ \A n \in DOMAIN down' : down'[n] = down[n]
        /\ \E lost \in SUBSET Acknowledged(down) :
              /\ unheard' = unheard \cup lost
              /\ \A n \in DOMAIN down \ DOMAIN down' :
                    down[n].msg = "UserAction" => down[n].id \in lost
    BY <1>0, <1>4, DiesEffect
  <2>2. PICK lost : /\ unheard' = unheard \cup lost
                    /\ \A n \in DOMAIN down \ DOMAIN down' :
                          down[n].msg = "UserAction" => down[n].id \in lost
    BY <2>1
  <2>3. \A n \in DOMAIN down : down[n].msg = "UserAction" =>
            (n \in DOMAIN down' /\ down'[n] = down[n]) \/ down[n].id \in unheard'
    BY <2>1, <2>2
  <2> QED BY <2>1, <2>2, <2>3, HeardQuiet
<1>5. CASE ReadFrame
  <2> DEFINE m == Head(down)
  <2>1. /\ m \in Messages /\ down # <<>> /\ down' = Tail(down) /\ down \in Seq(Messages)
        /\ UNCHANGED <<applied, unheard, decided>>
    BY <1>0, <1>5, ReadEffect DEF SessionType
  <2>2. /\ 1 \in DOMAIN down /\ down[1] = m
        /\ \A n \in DOMAIN down' : n \in Nat \ {0} /\ n + 1 \in DOMAIN down /\ down'[n] = down[n + 1]
        /\ \A n \in DOMAIN down : n = 1 \/ (n - 1 \in DOMAIN down' /\ down'[n - 1] = down[n])
        /\ DOMAIN down \subseteq Nat \ {0}
    <3>1. DOMAIN down = 1..Len(down) /\ Len(down) \in Nat /\ Len(down) > 0
      BY <2>1
    <3>2. DOMAIN Tail(down) = 1..(Len(down) - 1)
      BY <2>1, <3>1
    <3>3. /\ 1 \in DOMAIN down /\ down[1] = m
          /\ \A n \in DOMAIN down' : n \in Nat \ {0} /\ n + 1 \in DOMAIN down /\ down'[n] = down[n + 1]
      BY <2>1, TailParts
    <3> QED BY <2>1, <3>1, <3>2, <3>3
  <2>3. \/ UNCHANGED <<settled, refused>>
        \/ /\ m.msg \in {"UserAction", "Error"} /\ m.id \notin settled /\ settled' = settled \cup {m.id}
           /\ refused' = IF m.msg = "Error" THEN refused \cup {m.id} ELSE refused
    BY <1>0, <1>5, SettleEffect
  <2>4. (m.msg = "UserAction" /\ m.id \in DOMAIN decided) => m.id \in settled'
    BY <1>5, ReadSettles
  <2> HIDE DEF m
  <2>5. Done' = Done /\ Done \subseteq DOMAIN decided
    BY <2>1, WireAfter
  <2>6. settled \subseteq settled'
    BY <2>3
  <2>7. \A i \in Done : Word(i) => i \in settled' \/ Word(i)'
    <3> SUFFICES ASSUME NEW i \in Done, NEW n \in DOMAIN down, down[n].msg = "UserAction",
                        down[n].id = i
                 PROVE  i \in settled' \/ Word(i)'
      BY DEF Word
    <3>1. CASE n = 1
      BY <2>2, <2>4, <2>5, <3>1
    <3>2. CASE n # 1
      BY <2>2, <3>2 DEF Word
    <3> QED BY <3>1, <3>2
  <2>8. \A i \in Done' : i \in unheard' \/ i \in settled' \/ Word(i)'
    BY <2>1, <2>5, <2>6, <2>7 DEF HeardInv
  <2>9. ASSUME NEW n \in DOMAIN down', NEW i \in Done, down'[n].msg = "Error", down'[n].id = i
        PROVE  i \in unheard' \/ i \in settled' \/ WordAhead(i, n)'
    <3>1. n + 1 \in DOMAIN down /\ down[n + 1] = down'[n] /\ n \in Nat
      BY <2>2
    <3>2. i \in unheard \/ i \in settled \/ WordAhead(i, n + 1)
      BY <2>9, <3>1 DEF HeardInv
    <3>3. ASSUME NEW q \in DOMAIN down, q < n + 1, down[q].msg = "UserAction", down[q].id = i
          PROVE  i \in settled' \/ WordAhead(i, n)'
      <4>1. CASE q = 1
        BY <2>2, <2>4, <2>5, <3>3, <4>1
      <4>2. CASE q # 1
        <5>1. q - 1 \in DOMAIN down' /\ down'[q - 1] = down[q] /\ q - 1 < n
          BY <2>2, <3>1, <3>3, <4>2
        <5> QED BY <3>3, <5>1 DEF WordAhead
      <4> QED BY <4>1, <4>2
    <3>4. WordAhead(i, n + 1) => i \in settled' \/ WordAhead(i, n)'
      BY <3>3 DEF WordAhead
    <3> QED BY <2>1, <2>6, <3>2, <3>4
  <2>10. \A i \in refused' : i \in Done' => i \in unheard'
    <3> SUFFICES ASSUME NEW i \in refused', i \in Done PROVE i \in unheard
      BY <2>1, <2>5
    <3>1. CASE i \in refused
      BY <3>1 DEF HeardInv
    <3>2. CASE i \notin refused
      <4>1. m.msg = "Error" /\ i = m.id /\ i \notin settled
        BY <2>3, <3>2
      <4>2. ~WordAhead(i, 1)
        BY <2>2 DEF WordAhead
      <4> QED BY <2>2, <4>1, <4>2 DEF HeardInv
    <3> QED BY <3>1, <3>2
  <2>11. \A n \in DOMAIN down' : (down'[n].msg = "Error" /\ down'[n].id \in Done') =>
            \/ down'[n].id \in unheard' \/ down'[n].id \in settled'
            \/ \E q \in DOMAIN down' : q < n /\ down'[q].msg = "UserAction" /\ down'[q].id = down'[n].id
    BY <2>5, <2>9 DEF WordAhead
  <2> QED BY <2>8, <2>10, <2>11 DEF HeardInv, WordAhead
<1>6. CASE TakeInput
  <2>1. UNCHANGED <<applied, settled, refused, unheard, down>>
    BY <1>0, <1>6, TakeEffect
  <2> QED BY <2>1, HeardQuiet
<1>7. CASE ServerReads
  <2> DEFINE f == Head(up)
             i == f.id
             a == f.arg
  <2>1. /\ up # <<>> /\ up \in Seq(Frames) /\ UNCHANGED <<settled, refused, unheard>>
    BY <1>0, <1>7, ServerEffect DEF SessionType
  <2>2. 1 \in DOMAIN up /\ up[1] = f
    BY <2>1, TailParts
  <2>3. f.req = "UserAction" => i \in DOMAIN decided /\ a = decided[i]
    BY <1>0, <1>7, ServerEffect
  <2>4. \/ /\ UNCHANGED applied
           /\ \/ Behind({Msg("Challenge")}) \/ Behind({Refusal(0)}) \/ Behind({Snapshot})
              \/ Behind({}) \/ Behind({Ack(i)})
        \/ /\ f.req = "UserAction" /\ live[a.kind][a.id] # None
           /\ applied' = applied \cup {<<i, a>>} /\ Behind({Removed(a.kind, a.id), Ack(i)})
        \/ /\ f.req = "UserAction" /\ UNCHANGED applied /\ Behind({Refusal(i)})
    BY <1>0, <1>7, ServerEffect
  <2> HIDE DEF f
  <2>5. 0 \notin Done
    <3>1. 0 \notin DOMAIN decided
      BY <1>0 DEF SessionType
    <3> QED BY <3>1, WireAfter
  <2>6. CASE /\ UNCHANGED applied
             /\ \/ Behind({Msg("Challenge")}) \/ Behind({Snapshot})
                \/ Behind({}) \/ Behind({Ack(i)})
    <3>1. /\ \A n \in DOMAIN down : n \in DOMAIN down' /\ down'[n] = down[n]
          /\ \A n \in DOMAIN down' : n \in DOMAIN down \/
                down'[n] \in {Msg("Challenge"), Snapshot, Ack(i)}
      BY <2>6 DEF Behind
    <3>2. \A n \in DOMAIN down' : down'[n].msg = "Error" => n \in DOMAIN down /\ down'[n] = down[n]
      BY <3>1, MessageFields
    <3> QED BY <2>1, <2>6, <3>1, <3>2, HeardQuiet
  <2>7. ASSUME NEW j, UNCHANGED applied, Behind({Refusal(j)}) PROVE HeardInv'
    <3>1. /\ \A n \in DOMAIN down : n \in DOMAIN down' /\ down'[n] = down[n]
          /\ \A n \in DOMAIN down' : n \in DOMAIN down \/ (down'[n] = Refusal(j) /\ n > Len(down))
      BY <2>7 DEF Behind
    <3>2. Done' = Done
      BY <2>7, WireAfter
    <3>3. DOMAIN down = 1..Len(down) /\ Len(down) \in Nat /\ DOMAIN down' \subseteq Nat
      BY <1>0 DEF SessionType
    <3>4. \A k : Word(k) => Word(k)'
      BY <3>1 DEF Word
    <3>5. \A k \in Done' : k \in unheard' \/ k \in settled' \/ Word(k)'
      BY <2>1, <3>2, <3>4 DEF HeardInv
    <3>6. ASSUME NEW n \in DOMAIN down', NEW k \in Done, down'[n].msg = "Error", down'[n].id = k
          PROVE  k \in unheard \/ k \in settled \/ WordAhead(k, n)'
      <4>1. CASE n \in DOMAIN down
        <5>1. k \in unheard \/ k \in settled \/ WordAhead(k, n)
          BY <3>1, <3>6, <4>1 DEF HeardInv
        <5>2. WordAhead(k, n) => WordAhead(k, n)'
          BY <3>1 DEF WordAhead
        <5> QED BY <5>1, <5>2
      <4>2. CASE n \notin DOMAIN down
        <5>1. k \in unheard \/ k \in settled \/ Word(k)
          BY <3>6 DEF HeardInv
        <5>2. \A q \in DOMAIN down : q < n
          BY <3>1, <3>3, <4>2
        <5>3. Word(k) => WordAhead(k, n)'
          BY <3>1, <5>2 DEF Word, WordAhead
        <5> QED BY <5>1, <5>3
      <4> QED BY <4>1, <4>2
    <3>7. \A n \in DOMAIN down' : (down'[n].msg = "Error" /\ down'[n].id \in Done') =>
              \/ down'[n].id \in unheard' \/ down'[n].id \in settled'
              \/ \E q \in DOMAIN down' : q < n /\ down'[q].msg = "UserAction" /\ down'[q].id = down'[n].id
      BY <2>1, <3>2, <3>6 DEF WordAhead
    <3>8. \A k \in refused' : k \in Done' => k \in unheard'
      BY <2>1, <3>2 DEF HeardInv
    <3> QED BY <3>5, <3>7, <3>8 DEF HeardInv, WordAhead
  <2>8. CASE /\ f.req = "UserAction" /\ live[a.kind][a.id] # None
             /\ applied' = applied \cup {<<i, a>>} /\ Behind({Removed(a.kind, a.id), Ack(i)})
    <3>1. /\ \A n \in DOMAIN down : n \in DOMAIN down' /\ down'[n] = down[n]
          /\ \A n \in DOMAIN down' : n \in DOMAIN down \/ down'[n] \in {Removed(a.kind, a.id), Ack(i)}
          /\ \E n \in DOMAIN down' : down'[n] = Ack(i)
      BY <2>8 DEF Behind
    <3>2. Done' = Done \cup {i}
      BY <2>8, WireAfter
    <3>3. i \in OnWire /\ i \notin Shut /\ i # 0
      <4>1. i # 0
        BY <1>0, <2>3, <2>8 DEF SessionType
      <4> QED BY <2>2, <2>3, <2>8, <4>1 DEF OnWire, Shut
    <3>4. i \notin refused
      BY <3>3 DEF VerdictInv
    <3>5. \A n \in DOMAIN down : down[n].msg = "Error" => down[n].id # i
      BY <3>3 DEF VerdictInv
    <3>6. PICK k : k = i
      OBVIOUS
    <3>7. Word(k)'
      BY <3>1, <3>6, MessageFields DEF Word
    <3>8. \A j : Word(j) => Word(j)'
      BY <3>1 DEF Word
    <3>9. \A j \in Done' : j \in unheard' \/ j \in settled' \/ Word(j)'
      BY <2>1, <3>2, <3>6, <3>7, <3>8 DEF HeardInv
    <3>10. ASSUME NEW n \in DOMAIN down', NEW j, down'[n].msg = "Error", j = down'[n].id, j \in Done'
           PROVE  j \in unheard \/ j \in settled \/ WordAhead(j, n)'
      <4>1. n \in DOMAIN down /\ down'[n] = down[n]
        BY <3>1, <3>10, MessageFields
      <4>2. j \in Done
        BY <3>2, <3>5, <3>10, <4>1
      <4>3. j \in unheard \/ j \in settled \/ WordAhead(j, n)
        BY <3>10, <4>1, <4>2 DEF HeardInv
      <4>4. WordAhead(j, n) => WordAhead(j, n)'
        BY <3>1 DEF WordAhead
      <4> QED BY <4>3, <4>4
    <3>11. \A n \in DOMAIN down' : (down'[n].msg = "Error" /\ down'[n].id \in Done') =>
              \/ down'[n].id \in unheard' \/ down'[n].id \in settled'
              \/ \E q \in DOMAIN down' : q < n /\ down'[q].msg = "UserAction" /\ down'[q].id = down'[n].id
      BY <2>1, <3>10 DEF WordAhead
    <3>12. \A j \in refused' : j \in Done' => j \in unheard'
      BY <2>1, <3>2, <3>4 DEF HeardInv
    <3> QED BY <3>9, <3>11, <3>12 DEF HeardInv, WordAhead
  <2> QED BY <2>4, <2>6, <2>7, <2>8
<1>8. ASSUME NEW op \in {"Accept", "Reject"}, NEW k \in Kinds, NEW r \in Ids, Tap(op, k, r)
      PROVE  HeardInv'
  <2>1. UNCHANGED <<applied, settled, refused, unheard, down>>
    BY <1>0, <1>8, TapEffect
  <2> QED BY <2>1, HeardQuiet
<1>9. ASSUME NEW m, Notified(m), m.msg \in {"Created", "Removed"},
             UNCHANGED <<applied, settled, refused, unheard>>
      PROVE  HeardInv'
  <2>1. /\ \A n \in DOMAIN down : n \in DOMAIN down' /\ down'[n] = down[n]
        /\ \A n \in DOMAIN down' : n \in DOMAIN down \/ down'[n] = m
    BY <1>9 DEF Notified, Behind
  <2> QED BY <1>9, <2>1, HeardQuiet
<1>10. ASSUME NEW k \in Kinds, NEW r \in Ids, NEW b \in Bodies, ServerCreates(k, r, b)
       PROVE  HeardInv'
  <2>1. Notified(Created(k, r, b)) /\ UNCHANGED <<applied, settled, refused, unheard>>
    BY <1>0, <1>10, CreateEffect
  <2>2. Created(k, r, b).msg = "Created"
    BY MessageFields
  <2> QED BY <1>9, <2>1, <2>2
<1>11. ASSUME NEW k \in Kinds, NEW r \in Ids, ServerExpires(k, r)
       PROVE  HeardInv'
  <2>1. Notified(Removed(k, r)) /\ UNCHANGED <<applied, settled, refused, unheard>>
    BY <1>0, <1>11, ExpireEffect
  <2>2. Removed(k, r).msg = "Removed"
    BY MessageFields
  <2> QED BY <1>9, <2>1, <2>2
<1> QED BY <1>1, <1>2, <1>3, <1>4, <1>5, <1>6, <1>7, <1>8, <1>10, <1>11 DEF SessionNext

\* The fourth layer.
LEMMA HeardInvariant == SessionSpec => []HeardInv
<1>1. SessionInit => HeardInv
  BY DEF SessionInit, Init, HeardInv, Done
<1>2. BaseInv /\ BaseInv' /\ VerdictInv /\ HeardInv /\ [SessionNext]_sessionVars => HeardInv'
  BY HeardStep
<1> QED BY <1>1, <1>2, BaseInvariant, VerdictInvariant, PTL DEF SessionSpec

\* AnswersAreTrue: whether or not the server remembers what it has carried out, an
\* answer taken off the queue as done was done, and one reported as failed was not,
\* unless its acknowledgement was lost with a connection.
THEOREM VerdictsAreTrue == SessionSpec => []AnswersAreTrue
<1>1. VerdictInv /\ HeardInv => AnswersAreTrue
  <2>1. \A i : i \in Done <=> \E e \in applied : e[1] = i
    BY DEF Done
  <2> QED BY <2>1 DEF VerdictInv, HeardInv, AnswersAreTrue
<1> QED BY <1>1, VerdictInvariant, HeardInvariant, PTL

-----------------------------------------------------------------------------
(* The promise                                                             *)

\* What the host is told of each answer.
Told == [i \in DOMAIN decided |->
            IF user_actions[i] # None THEN "pending"
            ELSE IF i \in refused THEN "failed" ELSE "done"]

\* A function on the positions of a sequence is a sequence of that length.
LEMMA SeqOver ==
    ASSUME NEW S, NEW n \in Nat, NEW f \in [1..n -> S]
    PROVE  f \in Seq(S) /\ Len(f) = n
OBVIOUS

\* What the host is told is a sequence as long as `decided`.
LEMMA ToldShape ==
    ASSUME SessionType
    PROVE  /\ Told \in Seq({"pending", "failed", "done"})
           /\ DOMAIN Told = DOMAIN decided /\ Len(Told) = Len(decided)
<1>1. Len(decided) \in Nat /\ DOMAIN decided = 1..Len(decided)
  BY DEF SessionType
<1>2. Told \in [1..Len(decided) -> {"pending", "failed", "done"}]
  BY <1>1 DEF Told
<1> QED BY <1>1, <1>2, SeqOver

\* An answer of the session is given in the promise.
LEMMA GiveStep ==
    ASSUME BaseInv, BaseInv', TakeInput
    PROVE  UNCHANGED D!promised \/ \E a \in Actions : D!Give(a)
<1>0. SessionType /\ SessionType' /\ TypeOK'
  BY DEF BaseInv, SessionType
<1>1. UNCHANGED <<applied, refused, unheard>>
  BY <1>0, TakeEffect
<1>2. CASE UNCHANGED <<user_actions, next_action_id, decided, early>> /\ effects'.send = {}
  BY <1>1, <1>2 DEF D!promised
<1>3. ASSUME NEW a \in Actions,
             /\ next_action_id \in ActionIds
             /\ user_actions' = [user_actions EXCEPT ![next_action_id] = a]
             /\ decided' = Append(decided, a)
      PROVE  D!Give(a)
  <2> DEFINE i == next_action_id
             S == {"pending", "failed", "done"}
  <2>1. /\ Told \in Seq(S) /\ DOMAIN Told = DOMAIN decided /\ Len(Told) = Len(decided)
        /\ Told' \in Seq(S) /\ DOMAIN Told' = DOMAIN decided'
    <3>1. ASSUME SessionType
          PROVE  Told \in Seq(S) /\ DOMAIN Told = DOMAIN decided /\ Len(Told) = Len(decided)
      BY <3>1, ToldShape
    <3>2. Told' \in Seq(S) /\ DOMAIN Told' = DOMAIN decided'
      <4>1. Len(decided') \in Nat /\ DOMAIN decided' = 1..Len(decided')
        BY <1>0 DEF SessionType
      <4>2. Told' \in [1..Len(decided') -> S]
        BY <4>1 DEF Told
      <4> QED BY <4>1, <4>2, SeqOver
    <3> QED BY <1>0, <3>1, <3>2
  <2>2. /\ decided \in Seq(Actions) /\ Len(decided) + 1 = i /\ i \in Nat
        /\ user_actions \in [ActionIds -> Actions \cup {None}]
    BY <1>0 DEF SessionType, TypeOK
  <2>3. /\ DOMAIN Append(decided, a) = DOMAIN decided \cup {i} /\ i \notin DOMAIN decided
    BY <2>2, AppendParts
  <2>4. /\ Append(Told, "pending") \in Seq(S)
        /\ DOMAIN Append(Told, "pending") = DOMAIN decided \cup {i}
        /\ Append(Told, "pending")[i] = "pending"
        /\ \A j \in DOMAIN decided : Append(Told, "pending")[j] = Told[j]
    BY <2>1, <2>2, AppendParts
  <2>5. Told'[i] = "pending"
    <3>1. user_actions'[i] = a /\ a # None
      BY <1>3, <2>2, NoneAssumption
    <3> QED BY <1>3, <2>3, <3>1 DEF Told
  <2>6. \A j \in DOMAIN decided : Told'[j] = Told[j]
    <3>1. \A j \in DOMAIN decided : j \in ActionIds
      BY DecidedKnown
    <3>2. \A j \in DOMAIN decided : user_actions'[j] = user_actions[j]
      BY <1>3, <2>2, <2>3, <3>1
    <3> QED BY <1>1, <1>3, <2>3, <3>2 DEF Told
  <2>7. Told' = Append(Told, "pending")
    <3> DEFINE x == Append(Told, "pending")
    <3>1. x \in Seq(S) /\ Told' \in Seq(S) /\ DOMAIN x = DOMAIN Told'
      BY <1>3, <2>1, <2>3, <2>4
    <3>2. \A j \in DOMAIN x : Told'[j] = x[j]
      BY <2>4, <2>5, <2>6
    <3> HIDE DEF x
    <3>3. Told' = x
      BY <3>1, <3>2, SeqEqual
    <3> QED BY <3>3 DEF x
  <2> QED BY <1>1, <1>3, <2>7 DEF D!Give, Told
<1> QED BY <1>0, <1>2, <1>3, TakeEffect

\* A verdict settles the answer with what became of it.
LEMMA SettleStep ==
    ASSUME BaseInv, VerdictInv, HeardInv, ReadFrame
    PROVE  \/ UNCHANGED D!promised
           \/ \E i \in DOMAIN decided, verdict \in {"done", "failed"} : D!Settle(i, verdict)
<1> DEFINE m == Head(down)
           i == m.id
<1>0. SessionType
  BY DEF BaseInv
<1>1. /\ UNCHANGED <<applied, decided, unheard>> /\ m \in Messages /\ down # <<>> /\ down \in Seq(Messages)
  BY <1>0, ReadEffect DEF SessionType
<1>2. 1 \in DOMAIN down /\ down[1] = m
  BY <1>1, TailParts
<1>3. \/ UNCHANGED <<settled, refused, user_actions>>
      \/ /\ m.msg \in {"UserAction", "Error"} /\ m.id \in ActionIds
         /\ user_actions[m.id] # None /\ m.id \notin settled
         /\ settled' = settled \cup {m.id}
         /\ refused' = IF m.msg = "Error" THEN refused \cup {m.id} ELSE refused
         /\ user_actions' = [user_actions EXCEPT ![m.id] = None]
  BY <1>0, SettleEffect
<1> HIDE DEF m
<1>4. CASE UNCHANGED <<settled, refused, user_actions>>
  BY <1>1, <1>4 DEF D!promised
<1>5. CASE /\ m.msg \in {"UserAction", "Error"} /\ i \in ActionIds
           /\ user_actions[i] # None /\ i \notin settled
           /\ refused' = IF m.msg = "Error" THEN refused \cup {i} ELSE refused
           /\ user_actions' = [user_actions EXCEPT ![i] = None]
  <2>1. i \in DOMAIN decided /\ i # 0
    BY <1>5 DEF BaseInv, ChainInv, ActionIds
  <2>2. i \notin refused
    BY <1>5 DEF VerdictInv
  <2> DEFINE verdict == IF m.msg = "UserAction" THEN "done" ELSE "failed"
  <2>3. IF m.msg = "UserAction" THEN i \in Done ELSE i \in Done => i \in unheard
    <3>1. DOMAIN down \subseteq Nat \ {0}
      BY <1>1
    <3>2. ~WordAhead(i, 1)
      BY <3>1 DEF WordAhead
    <3> QED BY <1>2, <1>5, <2>1, <3>2 DEF VerdictInv, HeardInv
  <2>4. Told[i] = "pending"
    BY <1>5, <2>1 DEF Told
  <2>5. user_actions \in [ActionIds -> Actions \cup {None}]
    BY <1>0 DEF SessionType, TypeOK
  <2>6. \A j \in DOMAIN decided : Told'[j] = IF j = i THEN verdict ELSE Told[j]
    <3>1. \A j \in DOMAIN decided : j \in ActionIds
      BY DecidedKnown
    <3>2. \A j \in DOMAIN decided : user_actions'[j] = IF j = i THEN None ELSE user_actions[j]
      BY <1>5, <2>5, <3>1
    <3> QED BY <1>1, <1>5, <2>2, <2>3, <3>2 DEF Told
  <2>7. Told' = [Told EXCEPT ![i] = verdict]
    BY <1>1, <2>1, <2>6 DEF Told
  <2>8. PICK j \in DOMAIN decided, v \in {"done", "failed"} : j = i /\ v = verdict
    BY <2>1
  <2>9. (v = "done" => j \in Done) /\ (v = "failed" => j \notin Done \/ j \in unheard)
    BY <1>5, <2>3, <2>8
  <2>10. D!Settle(j, v)
    BY <1>1, <2>1, <2>4, <2>7, <2>8, <2>9 DEF D!Settle, Told, Done
  <2> QED BY <2>10
<1> QED BY <1>3, <1>4, <1>5

\* What the server carries out is pending, and its request was not answered before.
LEMMA CarryStep ==
    ASSUME BaseInv, VerdictInv, ServerReads
    PROVE  UNCHANGED D!promised \/ \E i \in DOMAIN decided : D!CarryOut(i)
<1> DEFINE f == Head(up)
           i == f.id
           a == f.arg
<1>0. SessionType /\ ChainInv /\ ConsentInv
  BY DEF BaseInv
<1>1. /\ UNCHANGED <<user_actions, decided, refused, unheard>>
      /\ up # <<>> /\ up \in Seq(Frames)
  BY <1>0, ServerEffect DEF SessionType
<1>2. 1 \in DOMAIN up /\ up[1] = f
  BY <1>1, TailParts
<1>3. \/ UNCHANGED applied
      \/ /\ f.req = "UserAction" /\ live[a.kind][a.id] # None /\ applied' = applied \cup {<<i, a>>}
         /\ i \in DOMAIN decided /\ i \in ActionIds /\ a = decided[i]
  BY <1>0, ServerEffect
<1> HIDE DEF f
<1>4. CASE UNCHANGED applied
  BY <1>1, <1>4 DEF D!promised
<1>5. CASE /\ f.req = "UserAction" /\ live[a.kind][a.id] # None /\ applied' = applied \cup {<<i, a>>}
           /\ i \in DOMAIN decided /\ i \in ActionIds /\ a = decided[i]
  <2>1. i \in OnWire /\ i \notin Shut
    BY <1>2, <1>5 DEF OnWire, Shut
  <2>2. i \notin refused /\ i \notin Done
    BY <2>1 DEF VerdictInv
  <2>3. i \notin settled
    BY <2>2 DEF VerdictInv
  <2>4. i < next_action_id
    <3>1. i \in 1..Len(decided) /\ Len(decided) = next_action_id - 1 /\ next_action_id \in Nat
      BY <1>0, <1>5 DEF SessionType, TypeOK
    <3> QED BY <3>1
  <2>5. user_actions[i] # None
    BY <1>0, <1>5, <2>3, <2>4 DEF SessionType, QueueInv, NoActionLost
  <2>6. Told[i] = "pending"
    BY <1>5, <2>5 DEF Told
  <2>7. \A j \in Done : ~(decided[i].kind = decided[j].kind /\ decided[i].id = decided[j].id)
    <3> SUFFICES ASSUME NEW j \in Done, decided[i].kind = decided[j].kind, decided[i].id = decided[j].id
                 PROVE  FALSE
      OBVIOUS
    <3>1. j \in Shut
      BY DEF VerdictInv
    <3>2. live[decided[j].kind][decided[j].id] = None
      BY <3>1 DEF Shut
    <3> QED BY <1>5, <3>2
  <2>8. Done' = Done \cup {i}
    BY <1>5, WireAfter
  <2>9. Told' = Told
    BY <1>1 DEF Told
  <2>10. PICK j \in DOMAIN decided : j = i
    BY <1>5
  <2>11. D!CarryOut(j)
    BY <1>1, <2>6, <2>7, <2>8, <2>9, <2>10 DEF D!CarryOut, D!SameRequest, Told, Done
  <2> QED BY <2>11
<1> QED BY <1>3, <1>4, <1>5

\* Every step of the session is a step of the promise or leaves it alone.
LEMMA PromiseStep ==
    ASSUME BaseInv, BaseInv', VerdictInv, HeardInv, [SessionNext]_sessionVars
    PROVE  \/ \E a \in Actions : D!Give(a)
           \/ \E i \in DOMAIN decided :
                 D!CarryOut(i) \/ \E verdict \in {"done", "failed"} : D!Settle(i, verdict)
           \/ \E lost \in SUBSET Done : D!LoseWord(lost)
           \/ UNCHANGED D!promised
<1>0. SessionType /\ ChainInv /\ ConsentInv /\ TypeOK'
  BY DEF BaseInv, SessionType
<1>1. CASE TakeInput
  BY <1>1, GiveStep
<1>2. CASE ReadFrame
  BY <1>2, SettleStep
<1>3. CASE ServerReads
  BY <1>3, CarryStep
<1>4. CASE \/ AttemptFails \/ Wake \/ UNCHANGED sessionVars
           \/ Attempt \/ ConnectionLost \/ SocketDies
           \/ \E k \in Kinds, r \in Ids :
                 \/ \E op \in {"Accept", "Reject"} : Tap(op, k, r)
                 \/ \E b \in Bodies : ServerCreates(k, r, b)
                 \/ ServerExpires(k, r)
  <2>1. CASE AttemptFails \/ Wake \/ UNCHANGED sessionVars
    BY <2>1, IdleEffect DEF D!promised
  <2>2. CASE Attempt
    <3>1. UNCHANGED <<user_actions, decided, refused, applied, unheard>>
      BY <1>0, <2>2, AttemptEffect
    <3> QED BY <3>1 DEF D!promised
  <2>4. CASE ConnectionLost \/ SocketDies
    <3>1. /\ UNCHANGED <<user_actions, decided, refused, applied>>
          /\ \E lost \in SUBSET Acknowledged(down) : unheard' = unheard \cup lost
      BY <1>0, <2>4, LostEffect, DiesEffect
    <3>2. PICK lost \in SUBSET Acknowledged(down) : unheard' = unheard \cup lost
      BY <3>1
    <3>3. Acknowledged(down) \subseteq Done
      BY DEF Acknowledged, VerdictInv
    <3>4. D!LoseWord(lost)
      BY <3>1, <3>2 DEF D!LoseWord
    <3> QED BY <3>2, <3>3, <3>4
  <2>3. ASSUME NEW k \in Kinds, NEW r \in Ids,
               \/ \E op \in {"Accept", "Reject"} : Tap(op, k, r)
               \/ \E b \in Bodies : ServerCreates(k, r, b)
               \/ ServerExpires(k, r)
        PROVE  UNCHANGED D!promised
    <3>1. UNCHANGED <<user_actions, decided, refused, applied, unheard>>
      BY <1>0, <2>3, TapEffect, CreateEffect, ExpireEffect
    <3> QED BY <3>1 DEF D!promised
  <2> QED BY <1>4, <2>1, <2>2, <2>3, <2>4
<1> QED BY <1>1, <1>2, <1>3, <1>4 DEF SessionNext

\* KeepsPromise: the session implements Delivery.  Over any pattern of lost frames,
\* replays and expiry, and whether or not the server remembers, no answer is carried out
\* twice or after it failed, none that is told as done was dropped, one request is
\* answered once, and only a lost acknowledgement makes a failure of what was done.
THEOREM PromiseKept == SessionSpec => KeepsPromise
<1>1. SessionInit => D!NothingPromised
  <2> SUFFICES ASSUME SessionInit PROVE D!NothingPromised
    OBVIOUS
  <2>1. decided = <<>> /\ applied = {} /\ unheard = {}
    BY DEF SessionInit
  <2>2. Told = <<>>
    BY <2>1 DEF Told
  <2> QED BY <2>1, <2>2 DEF D!NothingPromised, Told
<1>2. BaseInv /\ BaseInv' /\ VerdictInv /\ HeardInv /\ [SessionNext]_sessionVars =>
         [\/ \E a \in Actions : D!Give(a)
          \/ \E i \in DOMAIN decided :
                D!CarryOut(i) \/ \E verdict \in {"done", "failed"} : D!Settle(i, verdict)
          \/ \E lost \in SUBSET {e[1] : e \in applied} : D!LoseWord(lost)]_(D!promised)
  BY PromiseStep DEF Done
<1> QED BY <1>1, <1>2, BaseInvariant, VerdictInvariant, HeardInvariant, PTL
        DEF SessionSpec, KeepsPromise, D!Promise

-----------------------------------------------------------------------------
(* Order                                                                   *)

\* OrderInv is kept.
LEMMA OrderStep ==
    ASSUME BaseInv, BaseInv', LoginInv, OrderInv, [SessionNext]_sessionVars
    PROVE  OrderInv'
<1> DEFINE O1 == (login_succeed /\ sock = "open") =>
                    \A j \in DOMAIN decided : j \in settled \/ j \in Shut \/ j \in OnWire
           O2 == \A p \in DOMAIN up : (up[p].req = "UserAction" /\ up[p].id \notin early) =>
                    \A j \in DOMAIN decided :
                        (/\ j < up[p].id /\ decided[j].kind = decided[up[p].id].kind
                         /\ decided[j].id = decided[up[p].id].id) =>
                            \/ j \in settled \/ j \in Shut
                            \/ \E q \in DOMAIN up : q < p /\ up[q].req = "UserAction" /\ up[q].id = j
           O3 == \A e \in applied : e[1] \notin early =>
                    \A j \in DOMAIN decided :
                        (/\ j < e[1] /\ decided[j].kind = decided[e[1]].kind
                         /\ decided[j].id = decided[e[1]].id) => j \in settled
           L1 == sock = "open" /\ (login_succeed \/ \E n \in DOMAIN down : down[n].msg = "Login")
                    => authenticated
           L2 == \A p \in DOMAIN up : up[p].req = "UserAction" =>
                    authenticated \/ up[p].id \in early
<1>0. SessionType /\ SessionType' /\ ChainInv /\ ConsentInv /\ TypeOK'
  BY DEF BaseInv, SessionType
<1>n. /\ DOMAIN decided = 1..Len(decided) /\ Len(decided) \in Nat
      /\ DOMAIN decided' = 1..Len(decided') /\ Len(decided') \in Nat
  BY <1>0 DEF SessionType
<1>a. O1 /\ O2 /\ O3 /\ L1 /\ L2
  <2>1. O3
    <3> SUFFICES ASSUME NEW e \in applied, e[1] \notin early, NEW j \in DOMAIN decided, j < e[1],
                        decided[j].kind = decided[e[1]].kind, decided[j].id = decided[e[1]].id
                 PROVE  j \in settled
      OBVIOUS
    <3>1. e[1] \in DOMAIN decided /\ decided[e[1]] = e[2]
      BY <1>0 DEF ChainInv
    <3>2. j \in 1..(e[1] - 1)
      BY <1>n, <3>1
    <3> QED BY <3>1, <3>2 DEF OrderInv, FirstAnswerWins
  <2> QED BY <2>1 DEF OrderInv, LoginInv
<1>b. O1' /\ O2' /\ O3' => OrderInv'
  <2> SUFFICES ASSUME O1', O2', O3' PROVE FirstAnswerWins'
    BY DEF OrderInv
  <2> SUFFICES ASSUME NEW e \in applied', e[1] \notin early', NEW j \in 1..(e[1] - 1),
                      decided'[j].kind = e[2].kind, decided'[j].id = e[2].id
               PROVE  j \in settled'
    BY DEF FirstAnswerWins
  <2>1. e[1] \in DOMAIN decided' /\ decided'[e[1]] = e[2]
    BY DEF BaseInv, ChainInv
  <2>2. j \in DOMAIN decided' /\ j < e[1]
    BY <1>n, <2>1
  <2> QED BY <2>1, <2>2
<1>c. /\ Shut \subseteq Shut' /\ OnWire \subseteq DOMAIN decided /\ Done \subseteq DOMAIN decided
      /\ \A i \in DOMAIN decided : i \in DOMAIN decided' /\ decided'[i] = decided[i]
  BY Monotone, WireAfter
<1>d. ASSUME UNCHANGED <<applied, decided, settled, early>>,
             (login_succeed' /\ sock' = "open") => (login_succeed /\ sock = "open" /\ up' = up),
             \A p \in DOMAIN up' : up'[p].req = "UserAction" => up' = up
      PROVE  OrderInv'
  <2>1. O1'
    BY <1>a, <1>c, <1>d DEF OnWire
  <2>2. O2' /\ O3'
    BY <1>a, <1>c, <1>d
  <2> HIDE DEF O1, O2, O3
  <2> QED BY <1>b, <2>1, <2>2
<1>1. CASE AttemptFails \/ Wake \/ UNCHANGED sessionVars
  <2>1. UNCHANGED <<applied, decided, settled, early, login_succeed, sock, up>>
    BY <1>1, IdleEffect
  <2> QED BY <1>d, <2>1
<1>2. CASE Attempt
  <2>1. /\ UNCHANGED <<applied, decided, settled, early>> /\ ~login_succeed'
        /\ \A p \in DOMAIN up' : up'[p].req = "Challenge"
    BY <1>0, <1>2, AttemptEffect
  <2> QED BY <1>d, <2>1
<1>3. CASE ConnectionLost
  <2>1. UNCHANGED <<applied, decided, settled, early>> /\ ~login_succeed' /\ DOMAIN up' = {}
    BY <1>0, <1>3, LostEffect
  <2> QED BY <1>d, <2>1
<1>4. CASE SocketDies
  <2>1. UNCHANGED <<applied, decided, settled, early>> /\ sock' = "dead" /\ DOMAIN up' = {}
    BY <1>0, <1>4, DiesEffect
  <2> QED BY <1>d, <2>1
<1>5. CASE ReadFrame
  <2> DEFINE m == Head(down)
             New == DOMAIN up' \ DOMAIN up
  <2>1. /\ down # <<>> /\ down \in Seq(Messages)
        /\ UNCHANGED <<sock, applied, decided, early>>
        /\ login_succeed' = login_succeed \/ m.msg = "Login"
    BY <1>0, <1>5, ReadEffect DEF SessionType
  <2>2. /\ DOMAIN up \subseteq DOMAIN up' /\ \A p \in DOMAIN up : up'[p] = up[p]
        /\ \A p \in New : p > Len(up) /\
              (up'[p].req = "UserAction" => m.msg = "Login" /\ sock = "open")
        /\ (m.msg = "Login" /\ sock = "open") =>
              \A i \in ActionIds : user_actions[i] # None =>
                  \E p \in New : up'[p].req = "UserAction" /\ up'[p].id = i
        /\ \A p, q \in New : p < q => up'[p].id < up'[q].id
    BY <1>0, <1>5, ReadSends
  <2>3. settled \subseteq settled'
    BY <1>0, <1>5, SettleEffect
  <2> HIDE DEF m
  <2>4. OnWire \subseteq OnWire'
    BY <2>2 DEF OnWire
  <2>5. \A j \in DOMAIN decided : j \in settled \/ user_actions[j] # None
    <3> SUFFICES ASSUME NEW j \in DOMAIN decided PROVE j \in settled \/ user_actions[j] # None
      OBVIOUS
    <3>1. j \in ActionIds
      BY DecidedKnown
    <3>2. j < next_action_id
      BY <1>0, <1>n DEF SessionType, TypeOK
    <3> QED BY <1>0, <3>1, <3>2 DEF SessionType, QueueInv, NoActionLost
  <2>6. (m.msg = "Login" /\ sock = "open") => \A j \in DOMAIN decided :
           j \in settled \/ \E p \in New : up'[p].req = "UserAction" /\ up'[p].id = j
    BY <2>2, <2>5, DecidedKnown
  <2>7. O1'
    <3>1. CASE m.msg = "Login" /\ sock = "open"
      <4>1. \A j \in DOMAIN decided : j \in settled \/ j \in OnWire'
        BY <2>6, <3>1 DEF OnWire
      <4> QED BY <2>1, <2>3, <4>1
    <3>2. CASE ~(m.msg = "Login" /\ sock = "open")
      BY <1>a, <1>c, <2>1, <2>3, <2>4, <3>2
    <3> QED BY <3>1, <3>2
  <2>8. O2'
    <3> SUFFICES ASSUME NEW p \in DOMAIN up', up'[p].req = "UserAction", up'[p].id \notin early,
                        NEW j \in DOMAIN decided, j < up'[p].id,
                        decided[j].kind = decided[up'[p].id].kind,
                        decided[j].id = decided[up'[p].id].id
                 PROVE  \/ j \in settled' \/ j \in Shut'
                        \/ \E q \in DOMAIN up' : q < p /\ up'[q].req = "UserAction" /\ up'[q].id = j
      BY <2>1
    <3>1. CASE p \in DOMAIN up
      BY <1>a, <1>c, <2>2, <2>3, <3>1
    <3>2. CASE p \in New
      <4>1. j \in settled \/ \E q \in New : up'[q].req = "UserAction" /\ up'[q].id = j
        BY <2>2, <2>6, <3>2
      <4>2. ASSUME NEW q \in New, up'[q].req = "UserAction", up'[q].id = j PROVE q < p
        <5>1. DOMAIN up' \subseteq Nat
          BY <1>0 DEF SessionType
        <5>2. j \in Nat /\ up'[p].id \in Nat
          <6>1. up' \in Seq(Frames)
            BY <1>0 DEF SessionType
          <6>2. up'[p] \in Frames
            BY <6>1
          <6> QED BY <1>n, <6>2, BoundAssumption DEF Frames
        <5>3. q # p
          BY <4>2, <5>2
        <5>4. ~(p < q)
          BY <2>2, <3>2, <4>2, <5>2
        <5> QED BY <5>1, <5>3, <5>4
      <4> QED BY <2>3, <4>1, <4>2
    <3> QED BY <3>1, <3>2
  <2>9. O3'
    BY <1>a, <2>1, <2>3
  <2> HIDE DEF O1, O2, O3
  <2> QED BY <1>b, <2>7, <2>8, <2>9
<1>6. CASE TakeInput
  <2>1. UNCHANGED <<sock, authenticated, login_succeed, settled, applied>>
    BY <1>0, <1>6, TakeEffect
  <2>2. CASE UNCHANGED <<decided, early, up>>
    BY <1>d, <2>1, <2>2
  <2>3. ASSUME NEW a \in Actions, Queued(a) PROVE OrderInv'
    <3> DEFINE i == next_action_id
    <3>1. /\ DOMAIN up \subseteq DOMAIN up' /\ \A p \in DOMAIN up : up'[p] = up[p]
          /\ \A p \in DOMAIN up' \ DOMAIN up :
                up'[p].id = i /\ up'[p].req = "UserAction" /\ p > Len(up)
          /\ sock = "open" => \E p \in DOMAIN up' \ DOMAIN up : up'[p].id = i /\ up'[p].req = "UserAction"
          /\ DOMAIN decided' = DOMAIN decided \cup {i} /\ \A j \in DOMAIN decided : j < i
          /\ i \notin DOMAIN decided /\ i \in Nat
          /\ early' = IF login_succeed THEN early ELSE early \cup {i}
      BY <2>3 DEF Queued
    <3> HIDE DEF i
    <3>2. OnWire \subseteq OnWire' /\ (sock = "open" => i \in OnWire')
      BY <3>1 DEF OnWire
    <3>3. O1'
      BY <1>a, <1>c, <2>1, <3>1, <3>2
    <3>4. O2'
      <4> SUFFICES ASSUME NEW p \in DOMAIN up', up'[p].req = "UserAction", up'[p].id \notin early',
                          NEW j \in DOMAIN decided', j < up'[p].id,
                          decided'[j].kind = decided'[up'[p].id].kind,
                          decided'[j].id = decided'[up'[p].id].id
                   PROVE  \/ j \in settled' \/ j \in Shut'
                          \/ \E q \in DOMAIN up' : q < p /\ up'[q].req = "UserAction" /\ up'[q].id = j
        OBVIOUS
      <4>1. CASE p \in DOMAIN up
        <5>1. up[p] = up'[p] /\ up[p].id \in DOMAIN decided /\ up[p].id \notin early
          BY <1>c, <3>1, <4>1 DEF OnWire
        <5>2. j \in DOMAIN decided
          <6>1. j # i
            BY <1>n, <3>1, <5>1
          <6> QED BY <3>1, <6>1
        <5>3. decided[j].kind = decided[up[p].id].kind /\ decided[j].id = decided[up[p].id].id
          BY <1>c, <5>1, <5>2
        <5>4. \/ j \in settled \/ j \in Shut
              \/ \E q \in DOMAIN up : q < p /\ up[q].req = "UserAction" /\ up[q].id = j
          BY <1>a, <4>1, <5>1, <5>2, <5>3
        <5> QED BY <1>c, <2>1, <3>1, <5>4
      <4>2. CASE p \notin DOMAIN up
        <5>1. up'[p].id = i /\ p > Len(up) /\ login_succeed
          BY <3>1, <4>2
        <5>2. sock = "open"
          BY <1>0, <2>1, <4>2 DEF SessionType
        <5>3. j \in DOMAIN decided
          BY <3>1, <5>1
        <5>4. j \in settled \/ j \in Shut \/ j \in OnWire
          BY <1>a, <5>1, <5>2, <5>3
        <5>5. ASSUME j \in OnWire
              PROVE  \E q \in DOMAIN up' : q < p /\ up'[q].req = "UserAction" /\ up'[q].id = j
          <6>1. PICK q \in DOMAIN up : up[q].req = "UserAction" /\ up[q].id = j
            BY <5>5 DEF OnWire
          <6>2. q < p
            <7>1. q \in 1..Len(up) /\ Len(up) \in Nat /\ p \in Nat
              BY <1>0 DEF SessionType
            <7> QED BY <5>1, <7>1
          <6> QED BY <3>1, <6>1, <6>2
        <5> QED BY <1>c, <2>1, <5>4, <5>5
      <4> QED BY <4>1, <4>2
    <3>5. O3'
      <4> SUFFICES ASSUME NEW e \in applied, e[1] \notin early',
                          NEW j \in DOMAIN decided', j < e[1],
                          decided'[j].kind = decided'[e[1]].kind, decided'[j].id = decided'[e[1]].id
                   PROVE  j \in settled
        BY <2>1
      <4>1. e[1] \in DOMAIN decided /\ e[1] \notin early
        BY <1>0, <3>1 DEF ChainInv
      <4>2. j \in DOMAIN decided
        <5>1. j # i
          BY <1>n, <3>1, <4>1
        <5> QED BY <3>1, <5>1
      <4> QED BY <1>a, <1>c, <4>1, <4>2
    <3> HIDE DEF O1, O2, O3
    <3> QED BY <1>b, <3>3, <3>4, <3>5
  <2> QED BY <1>0, <1>6, <2>2, <2>3, TakeForms
<1>7. CASE ServerReads
  <2> DEFINE f == Head(up)
             i == f.id
             a == f.arg
  <2>1. /\ sock = "open" /\ up # <<>> /\ up' = Tail(up) /\ up \in Seq(Frames)
        /\ UNCHANGED <<sock, login_succeed, settled, decided, used, early>>
    BY <1>0, <1>7, ServerEffect DEF SessionType
  <2>2. /\ 1 \in DOMAIN up /\ up[1] = f
        /\ \A p \in DOMAIN up' : p \in Nat \ {0} /\ p + 1 \in DOMAIN up /\ up'[p] = up[p + 1]
        /\ \A p \in DOMAIN up : p = 1 \/ (p - 1 \in DOMAIN up' /\ up'[p - 1] = up[p])
    BY <2>1, TailParts
  <2>3. f.req = "UserAction" => /\ i \in DOMAIN decided /\ a = decided[i]
                                /\ a.kind \in Kinds /\ a.id \in Ids
    BY <1>0, <1>7, ServerEffect
  <2>4. /\ (f.req = "UserAction" /\ authenticated) =>
              live' = [live EXCEPT ![a.kind][a.id] = None] \/ (live' = live /\ live[a.kind][a.id] = None)
        /\ \/ applied' = applied
           \/ /\ f.req = "UserAction" /\ authenticated /\ live[a.kind][a.id] # None
              /\ applied' = applied \cup {<<i, a>>}
    BY <1>0, <1>7, ServerEffect
  <2> HIDE DEF f
  <2>5. (f.req = "UserAction" /\ authenticated) => i \in Shut'
    <3> SUFFICES ASSUME f.req = "UserAction", authenticated PROVE i \in Shut'
      OBVIOUS
    <3>1. live'[a.kind][a.id] = None
      BY <1>0, <2>3, <2>4 DEF SessionType, RequestMap
    <3> QED BY <2>1, <2>3, <3>1, DecidedKnown DEF Shut
  <2>6. \A j \in OnWire : j \in OnWire' \/ (f.req = "UserAction" /\ j = i)
    BY <2>2 DEF OnWire
  <2>7. O1'
    BY <1>a, <1>c, <2>1, <2>5, <2>6
  <2>8. O2'
    <3> SUFFICES ASSUME NEW p \in DOMAIN up', up'[p].req = "UserAction", up'[p].id \notin early,
                        NEW j \in DOMAIN decided, j < up'[p].id,
                        decided[j].kind = decided[up'[p].id].kind,
                        decided[j].id = decided[up'[p].id].id
                 PROVE  \/ j \in settled \/ j \in Shut'
                        \/ \E q \in DOMAIN up' : q < p /\ up'[q].req = "UserAction" /\ up'[q].id = j
      BY <2>1
    <3>1. p \in Nat /\ p + 1 \in DOMAIN up /\ up'[p] = up[p + 1]
      BY <2>2
    <3>2. authenticated
      BY <1>a, <3>1
    <3>3. \/ j \in settled \/ j \in Shut
          \/ \E q \in DOMAIN up : q < p + 1 /\ up[q].req = "UserAction" /\ up[q].id = j
      BY <1>a, <3>1
    <3>4. ASSUME NEW q \in DOMAIN up, q < p + 1, up[q].req = "UserAction", up[q].id = j
          PROVE  \/ j \in Shut'
                 \/ \E x \in DOMAIN up' : x < p /\ up'[x].req = "UserAction" /\ up'[x].id = j
      <4>1. CASE q = 1
        BY <2>2, <2>5, <3>2, <3>4, <4>1
      <4>2. CASE q # 1
        <5>1. q \in Nat
          BY <2>1
        <5>2. q - 1 \in DOMAIN up' /\ up'[q - 1] = up[q] /\ q - 1 < p
          BY <2>2, <3>1, <3>4, <4>2, <5>1
        <5> QED BY <3>4, <5>2
      <4> QED BY <4>1, <4>2
    <3> QED BY <1>c, <3>3, <3>4
  <2>9. O3'
    <3> SUFFICES ASSUME NEW e \in applied', e[1] \notin early, NEW j \in DOMAIN decided, j < e[1],
                        decided[j].kind = decided[e[1]].kind, decided[j].id = decided[e[1]].id
                 PROVE  j \in settled
      BY <2>1
    <3>1. CASE e \in applied
      BY <1>a, <3>1
    <3>2. CASE e \notin applied
      <4>1. /\ f.req = "UserAction" /\ live[a.kind][a.id] # None /\ e = <<i, a>>
        BY <2>4, <3>2
      <4>2. e[1] = i
        BY <4>1
      <4>3. j \notin Shut
        BY <2>3, <4>1, <4>2 DEF Shut
      <4>4. ~\E q \in DOMAIN up : q < 1
        BY <2>1
      <4> QED BY <1>a, <2>2, <4>1, <4>2, <4>3, <4>4
    <3> QED BY <3>1, <3>2
  <2> HIDE DEF O1, O2, O3
  <2> QED BY <1>b, <2>7, <2>8, <2>9
<1>8. ASSUME NEW k \in Kinds, NEW r \in Ids,
             \/ \E op \in {"Accept", "Reject"} : Tap(op, k, r)
             \/ \E b \in Bodies : ServerCreates(k, r, b)
             \/ ServerExpires(k, r)
      PROVE  OrderInv'
  <2>1. UNCHANGED <<applied, decided, settled, early, login_succeed, sock, up>>
    BY <1>0, <1>8, TapEffect, CreateEffect, ExpireEffect
  <2> QED BY <1>d, <2>1
<1> QED BY <1>1, <1>2, <1>3, <1>4, <1>5, <1>6, <1>7, <1>8 DEF SessionNext

\* FirstAnswerWins: an answer given while logged in, or offline, is never carried out
\* ahead of an earlier answer to the same request that is still pending, in the first
\* sending or in any replay.
THEOREM OrderIsKept == SessionSpec => []FirstAnswerWins
<1>1. SessionInit => OrderInv
  BY DEF SessionInit, Init, OrderInv, FirstAnswerWins
<1>2. BaseInv /\ BaseInv' /\ LoginInv /\ OrderInv /\ [SessionNext]_sessionVars => OrderInv'
  BY OrderStep
<1>3. OrderInv => FirstAnswerWins
  BY DEF OrderInv
<1> QED BY <1>1, <1>2, <1>3, BaseInvariant, LoginInvariant, PTL DEF SessionSpec

-----------------------------------------------------------------------------
(* The screen                                                              *)

\* Messages added behind the others leave a request in sync if the ones about it are
\* right, and there is one or it was in sync before.
LEMMA SyncBehind ==
    ASSUME SessionType, SessionType', NEW k \in Kinds, NEW r \in Ids, NEW x, Behind(x),
           \A m \in x : About(m, k, r) => Right(m, k, r)',
           \/ \E m \in x : About(m, k, r)
           \/ InSync(k, r) /\ live'[k][r] = live[k][r] /\ requests'[k][r] = requests[k][r]
    PROVE  InSync(k, r)'
<1>1. /\ \A n \in DOMAIN down : n \in DOMAIN down' /\ down'[n] = down[n]
      /\ \A n \in DOMAIN down' \ DOMAIN down : down'[n] \in x
      /\ \A m \in x : \E n \in DOMAIN down' \ DOMAIN down : down'[n] = m
      /\ \A n \in DOMAIN down, q \in DOMAIN down' \ DOMAIN down : q > n
  <2>1. DOMAIN down = 1..Len(down) /\ Len(down) \in Nat /\ DOMAIN down' \subseteq Nat
    BY DEF SessionType
  <2> QED BY <2>1 DEF Behind
<1>2. \A n \in DOMAIN down' \ DOMAIN down : About(down'[n], k, r) => Right(down[n], k, r)'
  BY <1>1 DEF Right
<1>3. CASE \E m \in x : About(m, k, r)
  <2>1. PICK q \in DOMAIN down' \ DOMAIN down : About(down'[q], k, r)
    BY <1>1, <1>3
  <2>2. ASSUME NEW n \in DOMAIN down', About(down'[n], k, r),
               \A z \in DOMAIN down' : z > n => ~About(down'[z], k, r)
        PROVE  Right(down[n], k, r)'
    BY <1>1, <1>2, <2>1, <2>2
  <2> QED BY <2>1, <2>2 DEF InSync, About
<1>4. CASE \A m \in x : ~About(m, k, r)
  <2>1. \A n \in DOMAIN down' \ DOMAIN down : ~About(down'[n], k, r)
    BY <1>1, <1>4
  <2>2. InSync(k, r) /\ live'[k][r] = live[k][r] /\ requests'[k][r] = requests[k][r]
    BY <1>4
  <2>3. ASSUME NEW n \in DOMAIN down', About(down'[n], k, r),
               \A z \in DOMAIN down' : z > n => ~About(down'[z], k, r)
        PROVE  Right(down[n], k, r)'
    <3>1. n \in DOMAIN down /\ down'[n] = down[n] /\ \A z \in DOMAIN down : z > n => ~About(down[z], k, r)
      BY <1>1, <2>1, <2>3
    <3>2. Right(down[n], k, r)
      BY <2>2, <2>3, <3>1 DEF InSync
    <3> QED BY <2>2, <3>1, <3>2 DEF Right
  <2>4. (\A n \in DOMAIN down' : ~About(down'[n], k, r)) => requests'[k][r] = live'[k][r]
    BY <1>1, <2>2 DEF InSync
  <2> QED BY <2>3, <2>4 DEF InSync, About
<1> QED BY <1>3, <1>4

\* Cutting off messages about other requests.
LEMMA SyncCut ==
    ASSUME SessionType, NEW k \in Kinds, NEW r \in Ids, InSync(k, r),
           DOMAIN down' \subseteq DOMAIN down, \A n \in DOMAIN down' : down'[n] = down[n],
           \A n \in DOMAIN down \ DOMAIN down' : ~About(down[n], k, r),
           live'[k][r] = live[k][r], requests'[k][r] = requests[k][r]
    PROVE  InSync(k, r)'
<1>1. ASSUME NEW n \in DOMAIN down', About(down'[n], k, r),
             \A z \in DOMAIN down' : z > n => ~About(down'[z], k, r)
      PROVE  Right(down[n], k, r)'
  <2>1. Right(down[n], k, r) /\ down'[n] = down[n]
    BY <1>1 DEF InSync
  <2> QED BY <2>1 DEF Right
<1>2. (\A n \in DOMAIN down' : ~About(down'[n], k, r)) => requests'[k][r] = live'[k][r]
  BY DEF InSync
<1> QED BY <1>1, <1>2 DEF InSync, About

\* What the core makes of a message about a request.
LEMMA ReadRight ==
    ASSUME BaseInv, ReadFrame, NEW k \in Kinds, NEW r \in Ids
    PROVE  LET m == Head(down) IN
           /\ ~About(m, k, r) => requests'[k][r] = requests[k][r]
           /\ (About(m, k, r) /\ Right(m, k, r)) => requests'[k][r] = live[k][r]
<1> DEFINE m == Head(down)
<1>0. SessionType
  BY DEF BaseInv
<1>1. /\ m \in Messages /\ down # <<>> /\ down \in Seq(Messages)
      /\ \/ m.msg \notin {"Login", "Created", "Removed"} /\ requests' = requests
         \/ m.msg = "Login" /\ requests' = Sync(m.listed)
         \/ m.msg = "Created" /\ requests' = [requests EXCEPT ![m.kind][m.id] = m.body]
         \/ m.msg = "Removed" /\ requests' = [requests EXCEPT ![m.kind][m.id] = None]
  BY <1>0, ReadEffect DEF SessionType
<1>2. 1 \in DOMAIN down /\ down[1] = m
  BY <1>1, TailParts
<1> HIDE DEF m
<1>3. requests \in [Kinds -> RequestMap] /\ live \in [Kinds -> RequestMap]
  BY <1>0 DEF SessionType, TypeOK
<1>4. live[k][r] \in Bodies \cup {None} /\ requests[k][r] \in Bodies \cup {None}
  BY <1>3 DEF RequestMap
<1>5. CASE m.msg \notin {"Login", "Created", "Removed"} /\ requests' = requests
  BY <1>5 DEF About, m
<1>6. CASE m.msg = "Login" /\ requests' = Sync(m.listed)
  <2>1. k \notin SyncedKinds => requests'[k][r] = requests[k][r]
    BY <1>6 DEF Sync
  <2>2. k \in SyncedKinds =>
           requests'[k][r] = IF m.listed[k][r] = None THEN None
                             ELSE IF requests[k][r] # None THEN requests[k][r] ELSE m.listed[k][r]
    BY <1>6 DEF Sync, Held
  <2>3. k \in SyncedKinds => m.listed[k][r] \in Bodies \cup {None}
    BY <1>1, <1>6, MessageParts DEF RequestMap
  <2>4. ASSUME k \in SyncedKinds, Right(m, k, r) PROVE requests'[k][r] = live[k][r]
    <3>1. CASE live[k][r] = None
      <4>1. m.listed[k][r] = None
        BY <1>6, <2>3, <2>4, <3>1 DEF Right, Tells
      <4> QED BY <2>2, <2>4, <3>1, <4>1
    <3>2. CASE live[k][r] # None
      <4>1. m.listed[k][r] = live[k][r]
        BY <1>6, <2>4, <3>2 DEF Right, Tells
      <4>2. Says(k, r, live[k][r]) /\ Says(k, r, requests[k][r])
        BY DEF Says
      <4>3. requests[k][r] # None => requests[k][r] = live[k][r]
        BY <1>4, <3>2, <4>2 DEF BaseInv, OneBodyInv
      <4> QED BY <2>2, <2>4, <3>2, <4>1, <4>3
    <3> QED BY <3>1, <3>2
  <2> QED BY <1>6, <2>1, <2>4 DEF About, m
<1>7. CASE m.msg = "Created" /\ requests' = [requests EXCEPT ![m.kind][m.id] = m.body]
  <2>1. m.kind \in Kinds /\ m.id \in Ids /\ m.body \in Bodies
    BY <1>1, <1>7, MessageParts
  <2>2. requests'[k][r] = IF k = m.kind /\ r = m.id THEN m.body ELSE requests[k][r]
    BY <1>3, <1>7, <2>1 DEF RequestMap
  <2>3. (m.kind = k /\ m.id = r /\ Right(m, k, r)) => m.body = live[k][r]
    BY <1>7, <2>1 DEF Right, Tells
  <2> QED BY <1>7, <2>2, <2>3 DEF About, m
<1>8. CASE m.msg = "Removed" /\ requests' = [requests EXCEPT ![m.kind][m.id] = None]
  <2>1. m.kind \in Kinds /\ m.id \in Ids
    BY <1>1, <1>8, MessageParts
  <2>2. requests'[k][r] = IF k = m.kind /\ r = m.id THEN None ELSE requests[k][r]
    BY <1>3, <1>8, <2>1 DEF RequestMap
  <2>3. Right(m, k, r) => live[k][r] = None
    BY <1>8 DEF Right, Tells
  <2> QED BY <1>8, <2>2, <2>3 DEF About, m
<1> QED BY <1>1, <1>5, <1>6, <1>7, <1>8

\* Reading a message keeps a request in sync.
LEMMA SyncRead ==
    ASSUME BaseInv, ReadFrame, NEW k \in Kinds, NEW r \in Ids, InSync(k, r)
    PROVE  InSync(k, r)'
<1> DEFINE m == Head(down)
<1>0. SessionType
  BY DEF BaseInv
<1>1. down # <<>> /\ down' = Tail(down) /\ down \in Seq(Messages) /\ live' = live
  BY <1>0, ReadEffect DEF SessionType
<1>2. /\ 1 \in DOMAIN down /\ down[1] = m
      /\ \A n \in DOMAIN down' : n \in Nat \ {0} /\ n + 1 \in DOMAIN down /\ down'[n] = down[n + 1]
      /\ \A n \in DOMAIN down : n = 1 \/ (n - 1 \in DOMAIN down' /\ down'[n - 1] = down[n])
  BY <1>1, TailParts
<1>3. /\ ~About(m, k, r) => requests'[k][r] = requests[k][r]
      /\ (About(m, k, r) /\ Right(m, k, r)) => requests'[k][r] = live[k][r]
  BY ReadRight
<1>4. DOMAIN down \subseteq Nat
  BY <1>1
<1> HIDE DEF m
<1>5. ASSUME NEW n \in DOMAIN down', About(down'[n], k, r),
             \A z \in DOMAIN down' : z > n => ~About(down'[z], k, r)
      PROVE  Right(down[n], k, r)'
  <2>1. n + 1 \in DOMAIN down /\ down'[n] = down[n + 1] /\ n \in Nat \ {0}
    BY <1>2
  <2>2. ASSUME NEW z \in DOMAIN down, z > n + 1 PROVE ~About(down[z], k, r)
    <3>1. z # 1 /\ z - 1 > n
      BY <1>4, <2>1, <2>2
    <3>2. z - 1 \in DOMAIN down' /\ down'[z - 1] = down[z]
      BY <1>2, <3>1
    <3> QED BY <1>5, <3>1, <3>2
  <2>3. Right(down[n + 1], k, r)
    BY <1>5, <2>1, <2>2 DEF InSync
  <2> QED BY <1>1, <2>1, <2>3 DEF Right
<1>6. ASSUME \A n \in DOMAIN down' : ~About(down'[n], k, r)
      PROVE  requests'[k][r] = live'[k][r]
  <2>1. \A n \in DOMAIN down : n # 1 => ~About(down[n], k, r)
    BY <1>2, <1>6
  <2>2. CASE About(m, k, r)
    <3>1. \A q \in DOMAIN down : q > 1 => ~About(down[q], k, r)
      BY <2>1
    <3>2. Right(down[1], k, r)
      BY <1>2, <2>2, <3>1 DEF InSync
    <3> QED BY <1>1, <1>2, <1>3, <2>2, <3>2
  <2>3. CASE ~About(m, k, r)
    BY <1>1, <1>2, <1>3, <2>1, <2>3 DEF InSync
  <2> QED BY <2>2, <2>3
<1> QED BY <1>5, <1>6 DEF InSync, About

\* A message that tells of one request is right if the server now has what it tells.
LEMMA NoticeRight ==
    ASSUME NEW m, NEW k \in Kinds, NEW r \in Ids, NEW b,
           NEW j \in Kinds, NEW q \in Ids, About(m, j, q),
           m.kind = k, m.id = r, live'[k][r] = b,
           \/ m.msg = "Created" /\ m.body = b /\ b \in Bodies
           \/ m.msg = "Removed" /\ b = None
    PROVE  j = k /\ q = r /\ Right(m, j, q)'
<1>1. j = k /\ q = r
  BY DEF About
<1> QED BY <1>1, NoneAssumption DEF Right, Tells

\* A change of one request that the wallet is notified of keeps everything in sync.
LEMMA SyncNotified ==
    ASSUME SessionType, SessionType', SyncInv, NEW k \in Kinds, NEW r \in Ids, NEW b, NEW m,
           live' = [live EXCEPT ![k][r] = b], m.kind = k, m.id = r, Notified(m),
           \/ m.msg = "Created" /\ m.body = b /\ b \in Bodies
           \/ m.msg = "Removed" /\ b = None,
           UNCHANGED <<sock, login_succeed, authenticated, requests>>
    PROVE  SyncInv'
<1>1. \A j \in Kinds, q \in Ids : live'[j][q] = IF j = k /\ q = r THEN b ELSE live[j][q]
  BY DEF SessionType, RequestMap
<1>2. \A n \in DOMAIN down : n \in DOMAIN down' /\ down'[n] = down[n]
  BY DEF Notified, Behind
<1>3. (sock' = "open" /\ authenticated') =>
          login_succeed' \/ \E n \in DOMAIN down' : down'[n].msg = "Login"
  BY <1>2 DEF SyncInv
<1>4. ASSUME NEW j \in Kinds, NEW q \in Ids
      PROVE  \/ <<j, q>> \in missed'
             \/ j \in SyncedKinds /\ ~(sock' = "open" /\ authenticated')
             \/ InSync(j, q)'
  <2>1. CASE authenticated
    <3>1. Behind({m}) /\ missed' = missed
      BY <2>1 DEF Notified
    <3>2. \A x \in {m} : About(x, j, q) => Right(x, j, q)'
      BY <1>1, NoticeRight
    <3>3. CASE j = k /\ q = r
      <4>1. \E x \in {m} : About(x, j, q)
        BY <3>3 DEF About
      <4> QED BY <3>1, <3>2, <4>1, SyncBehind
    <3>4. CASE ~(j = k /\ q = r)
      <4>1. live'[j][q] = live[j][q] /\ requests'[j][q] = requests[j][q]
        BY <1>1, <3>4
      <4>2. InSync(j, q) => InSync(j, q)'
        BY <3>1, <3>2, <4>1, SyncBehind
      <4> QED BY <3>1, <4>2 DEF SyncInv
    <3> QED BY <3>3, <3>4
  <2>2. CASE ~authenticated
    <3>1. /\ down' = down /\ missed \subseteq missed'
          /\ k \notin SyncedKinds => <<k, r>> \in missed'
      BY <2>2 DEF Notified
    <3>2. CASE j = k /\ q = r
      BY <2>2, <3>1, <3>2
    <3>3. CASE ~(j = k /\ q = r)
      <4>1. live'[j][q] = live[j][q] /\ requests'[j][q] = requests[j][q]
        BY <1>1, <3>3
      <4>2. InSync(j, q) => InSync(j, q)'
        BY <3>1, <4>1, SyncCut
      <4> QED BY <3>1, <4>2 DEF SyncInv
    <3> QED BY <3>2, <3>3
  <2> QED BY <2>1, <2>2
<1> QED BY <1>3, <1>4 DEF SyncInv

\* SyncInv is kept.
LEMMA SyncStep ==
    ASSUME BaseInv, BaseInv', SyncInv, [SessionNext]_sessionVars
    PROVE  SyncInv'
<1> DEFINE S1 == (sock = "open" /\ authenticated) =>
                    login_succeed \/ \E n \in DOMAIN down : down[n].msg = "Login"
           S2(k, r) == \/ <<k, r>> \in missed
                       \/ k \in SyncedKinds /\ ~(sock = "open" /\ authenticated)
                       \/ InSync(k, r)
<1>0. SessionType /\ SessionType' /\ ChainInv /\ ConsentInv /\ TypeOK'
  BY DEF BaseInv, SessionType
<1>a. S1 /\ \A k \in Kinds, r \in Ids : S2(k, r)
  BY DEF SyncInv
<1>b. ASSUME S1', \A k \in Kinds, r \in Ids : S2(k, r)' PROVE SyncInv'
  BY <1>b DEF SyncInv
<1>c. ASSUME UNCHANGED <<sock, authenticated, login_succeed, down, live, requests, missed>>
      PROVE  SyncInv'
  BY <1>c DEF SyncInv, InSync, Right
<1>1. CASE AttemptFails \/ Wake \/ UNCHANGED sessionVars
  BY <1>1, <1>c, IdleEffect
<1>2. CASE Attempt
  <2>1. /\ ~authenticated /\ ~authenticated' /\ down' = down
        /\ UNCHANGED <<live, requests, missed>>
    BY <1>0, <1>2, AttemptEffect
  <2>2. S1'
    BY <2>1
  <2>3. ASSUME NEW k \in Kinds, NEW r \in Ids PROVE S2(k, r)'
    <3>1. InSync(k, r) => InSync(k, r)'
      BY <1>0, <2>1, SyncCut
    <3> QED BY <1>a, <2>1, <3>1
  <2> HIDE DEF S1, S2
  <2> QED BY <1>b, <2>2, <2>3
<1>3. CASE ConnectionLost
  <2>1. /\ ~authenticated /\ authenticated' = authenticated /\ down' = <<>>
        /\ missed' = missed \cup Unlisted(down) /\ UNCHANGED <<live, requests>>
    BY <1>0, <1>3, LostEffect
  <2>2. S1'
    BY <2>1
  <2>3. ASSUME NEW k \in Kinds, NEW r \in Ids PROVE S2(k, r)'
    <3>1. CASE k \in SyncedKinds
      BY <2>1, <3>1
    <3>2. CASE k \notin SyncedKinds /\ \E n \in DOMAIN down : About(down[n], k, r)
      <4>1. PICK n \in DOMAIN down : About(down[n], k, r)
        BY <3>2
      <4>2. down[n].msg \in {"Created", "Removed"} /\ down[n].kind = k /\ down[n].id = r
        BY <3>2, <4>1 DEF About
      <4>3. <<k, r>> \in Unlisted(down)
        BY <3>2, <4>2 DEF Unlisted
      <4> QED BY <2>1, <4>3
    <3>3. CASE k \notin SyncedKinds /\ \A n \in DOMAIN down : ~About(down[n], k, r)
      <4>1. DOMAIN down' = {}
        BY <2>1
      <4>2. InSync(k, r) => InSync(k, r)'
        BY <1>0, <2>1, <3>3, <4>1, SyncCut
      <4> QED BY <1>a, <2>1, <3>3, <4>2
    <3> QED BY <3>1, <3>2, <3>3
  <2> HIDE DEF S1, S2
  <2> QED BY <1>b, <2>2, <2>3
<1>4. CASE SocketDies
  <2>1. /\ sock' = "dead" /\ DOMAIN down' \subseteq DOMAIN down
        /\ \A n \in DOMAIN down' : down'[n] = down[n]
        /\ missed \subseteq missed'
        /\ \A n \in DOMAIN down \ DOMAIN down' :
              (down[n].msg \in {"Created", "Removed"} /\ down[n].kind \notin SyncedKinds) =>
                  <<down[n].kind, down[n].id>> \in missed'
        /\ UNCHANGED <<live, requests>>
    BY <1>0, <1>4, DiesEffect
  <2>2. S1'
    BY <2>1
  <2>3. ASSUME NEW k \in Kinds, NEW r \in Ids PROVE S2(k, r)'
    <3>1. CASE k \in SyncedKinds
      BY <2>1, <3>1
    <3>2. CASE k \notin SyncedKinds /\ \E n \in DOMAIN down \ DOMAIN down' : About(down[n], k, r)
      BY <2>1, <3>2 DEF About
    <3>3. CASE /\ k \notin SyncedKinds
               /\ \A n \in DOMAIN down \ DOMAIN down' : ~About(down[n], k, r)
      <4>1. InSync(k, r) => InSync(k, r)'
        BY <1>0, <2>1, <3>3, SyncCut
      <4> QED BY <1>a, <2>1, <3>3, <4>1
    <3> QED BY <3>1, <3>2, <3>3
  <2> HIDE DEF S1, S2
  <2> QED BY <1>b, <2>2, <2>3
<1>5. CASE ReadFrame
  <2> DEFINE m == Head(down)
  <2>1. /\ m \in Messages /\ down # <<>> /\ down' = Tail(down) /\ down \in Seq(Messages)
        /\ UNCHANGED <<sock, authenticated, missed>>
        /\ login_succeed' = login_succeed \/ m.msg = "Login"
        /\ m.msg = "Login" => login_succeed'
    BY <1>0, <1>5, ReadEffect DEF SessionType
  <2>2. /\ 1 \in DOMAIN down /\ down[1] = m
        /\ \A n \in DOMAIN down : n = 1 \/ (n - 1 \in DOMAIN down' /\ down'[n - 1] = down[n])
    BY <2>1, TailParts
  <2> HIDE DEF m
  <2>3. S1'
    BY <1>a, <2>1, <2>2
  <2>4. ASSUME NEW k \in Kinds, NEW r \in Ids PROVE S2(k, r)'
    <3>1. InSync(k, r) => InSync(k, r)'
      BY <1>5, SyncRead
    <3> QED BY <1>a, <2>1, <3>1
  <2> HIDE DEF S1, S2
  <2> QED BY <1>b, <2>3, <2>4
<1>6. CASE TakeInput
  BY <1>0, <1>6, <1>c, TakeEffect
<1>7. CASE ServerReads
  <2> DEFINE f == Head(up)
             i == f.id
             a == f.arg
  <2>1. UNCHANGED <<sock, login_succeed, requests, missed>>
    BY <1>0, <1>7, ServerEffect
  <2>2. \/ /\ UNCHANGED <<live, authenticated>>
           /\ \E x : /\ \A y \in x : y.msg \in {"Challenge", "UserAction", "Error"}
                     /\ Behind(x)
        \/ authenticated' = TRUE /\ Behind({Snapshot}) /\ UNCHANGED live
        \/ /\ a.kind \in Kinds /\ a.id \in Ids /\ UNCHANGED authenticated /\ authenticated
           /\ live' = [live EXCEPT ![a.kind][a.id] = None]
           /\ Behind({Removed(a.kind, a.id), Ack(i)})
    <3>1. \/ /\ UNCHANGED <<live, authenticated>>
             /\ \/ Behind({Msg("Challenge")}) \/ Behind({Refusal(0)}) \/ Behind({})
                \/ Behind({Ack(i)}) \/ Behind({Refusal(i)})
          \/ authenticated' = TRUE /\ Behind({Snapshot}) /\ UNCHANGED live
          \/ /\ a.kind \in Kinds /\ a.id \in Ids /\ UNCHANGED authenticated /\ authenticated
             /\ live' = [live EXCEPT ![a.kind][a.id] = None]
             /\ Behind({Removed(a.kind, a.id), Ack(i)})
      BY <1>0, <1>7, ServerEffect
    <3> HIDE DEF f
    <3>2. Msg("Challenge").msg = "Challenge" /\ \A z : Ack(z).msg = "UserAction" /\ Refusal(z).msg = "Error"
      BY MessageFields
    <3> QED BY <3>1, <3>2
  <2> HIDE DEF f
  <2>3. \A n \in DOMAIN down : n \in DOMAIN down' /\ down'[n] = down[n]
    BY <2>2 DEF Behind
  <2>4. ASSUME UNCHANGED <<live, authenticated>>, NEW x, Behind(x),
               \A y \in x : y.msg \in {"Challenge", "UserAction", "Error"}
        PROVE  SyncInv'
    <3>1. S1'
      BY <1>a, <2>1, <2>3, <2>4
    <3>2. ASSUME NEW k \in Kinds, NEW r \in Ids PROVE S2(k, r)'
      <4>1. \A y \in x : ~About(y, k, r)
        BY <2>4 DEF About
      <4>2. InSync(k, r) => InSync(k, r)'
        BY <1>0, <2>1, <2>4, <4>1, SyncBehind
      <4> QED BY <1>a, <2>1, <2>4, <4>2
    <3> HIDE DEF S1, S2
    <3> QED BY <1>b, <3>1, <3>2
  <2>5. CASE authenticated' = TRUE /\ Behind({Snapshot}) /\ UNCHANGED live
    <3>1. PICK s : s = Snapshot
      OBVIOUS
    <3>2. Behind({s}) /\ s.msg = "Login" /\ s.listed = [k \in SyncedKinds |-> live[k]]
      BY <2>5, <3>1, MessageFields
    <3>3. S1'
      BY <3>2 DEF Behind
    <3>4. ASSUME NEW k \in Kinds, NEW r \in Ids PROVE S2(k, r)'
      <4>1. CASE k \in SyncedKinds
        <5>1. About(s, k, r)
          BY <3>2, <4>1 DEF About
        <5>2. s.listed[k][r] = live'[k][r]
          BY <2>5, <3>2, <4>1
        <5>3. Right(s, k, r)'
          BY <3>2, <4>1, <5>2, NoneAssumption DEF Right, Tells
        <5>4. InSync(k, r)'
          BY <1>0, <3>2, <5>1, <5>3, SyncBehind
        <5> QED BY <5>4
      <4>2. CASE k \notin SyncedKinds
        <5>1. ~About(s, k, r)
          BY <3>2, <4>2 DEF About
        <5>2. InSync(k, r) => InSync(k, r)'
          BY <1>0, <2>1, <2>5, <3>2, <5>1, SyncBehind
        <5> QED BY <1>a, <2>1, <4>2, <5>2
      <4> QED BY <4>1, <4>2
    <3> HIDE DEF S1, S2
    <3> QED BY <1>b, <3>3, <3>4
  <2>6. CASE /\ a.kind \in Kinds /\ a.id \in Ids /\ UNCHANGED authenticated /\ authenticated
             /\ live' = [live EXCEPT ![a.kind][a.id] = None]
             /\ Behind({Removed(a.kind, a.id), Ack(i)})
    <3>0. PICK k \in Kinds, r \in Ids : k = a.kind /\ r = a.id
      BY <2>6
    <3>1. PICK m, z : /\ k = a.kind /\ r = a.id
                      /\ m = Removed(k, r) /\ z = Ack(i)
      BY <3>0
    <3>2. /\ m.msg = "Removed" /\ m.kind = k /\ m.id = r /\ z.msg = "UserAction"
          /\ live' = [live EXCEPT ![k][r] = None] /\ Behind({m, z})
      BY <2>6, <3>1, MessageFields
    <3>3. \A j \in Kinds, q \in Ids : live'[j][q] = IF j = k /\ q = r THEN None ELSE live[j][q]
      BY <1>0, <3>2 DEF SessionType, RequestMap
    <3>4. S1'
      BY <1>a, <2>1, <2>3, <2>6
    <3>5. ASSUME NEW j \in Kinds, NEW q \in Ids PROVE S2(j, q)'
      <4>1. \A x \in {m, z} : About(x, j, q) => Right(x, j, q)'
        <5>1. ~About(z, j, q)
          BY <3>2 DEF About
        <5>2. About(m, j, q) => Right(m, j, q)'
          BY <3>2, <3>3, NoticeRight
        <5> QED BY <5>1, <5>2
      <4>2. CASE j = k /\ q = r
        <5>1. About(m, j, q)
          BY <3>2, <4>2 DEF About
        <5>2. InSync(j, q)'
          BY <1>0, <3>2, <4>1, <5>1, SyncBehind
        <5> QED BY <5>2
      <4>3. CASE ~(j = k /\ q = r)
        <5>1. live'[j][q] = live[j][q] /\ requests'[j][q] = requests[j][q]
          BY <2>1, <3>3, <4>3
        <5>2. InSync(j, q) => InSync(j, q)'
          BY <1>0, <3>2, <4>1, <5>1, SyncBehind
        <5> QED BY <1>a, <2>1, <2>6, <5>2
      <4> QED BY <4>2, <4>3
    <3> HIDE DEF S1, S2
    <3> QED BY <1>b, <3>4, <3>5
  <2> QED BY <2>2, <2>4, <2>5, <2>6
<1>8. ASSUME NEW op \in {"Accept", "Reject"}, NEW k \in Kinds, NEW r \in Ids, Tap(op, k, r)
      PROVE  SyncInv'
  BY <1>0, <1>8, <1>c, TapEffect
<1>9. ASSUME NEW k \in Kinds, NEW r \in Ids, NEW b \in Bodies, ServerCreates(k, r, b)
      PROVE  SyncInv'
  <2>1. /\ Notified(Created(k, r, b)) /\ live' = [live EXCEPT ![k][r] = b]
        /\ UNCHANGED <<sock, login_succeed, authenticated, requests>>
    BY <1>0, <1>9, CreateEffect
  <2>2. /\ Created(k, r, b).msg = "Created" /\ Created(k, r, b).kind = k
        /\ Created(k, r, b).id = r /\ Created(k, r, b).body = b
    BY MessageFields
  <2> QED BY <1>0, <2>1, <2>2, SyncNotified
<1>10. ASSUME NEW k \in Kinds, NEW r \in Ids, ServerExpires(k, r)
       PROVE  SyncInv'
  <2>1. /\ Notified(Removed(k, r)) /\ live' = [live EXCEPT ![k][r] = None]
        /\ UNCHANGED <<sock, login_succeed, authenticated, requests>>
    BY <1>0, <1>10, ExpireEffect
  <2>2. Removed(k, r).msg = "Removed" /\ Removed(k, r).kind = k /\ Removed(k, r).id = r
    BY MessageFields
  <2> QED BY <1>0, <2>1, <2>2, SyncNotified
<1> QED BY <1>1, <1>2, <1>3, <1>4, <1>5, <1>6, <1>7, <1>8, <1>9, <1>10 DEF SessionNext

\* ScreenMatchesServer: with nothing in flight on a logged-in connection the wallet
\* shows what the server has, whatever was created, removed, answered, lost or replayed
\* before, except for what no snapshot lists and whose notification was lost.
THEOREM ScreenIsCurrent == SessionSpec => []ScreenMatchesServer
<1>1. SessionInit => SyncInv
  <2> SUFFICES ASSUME SessionInit PROVE SyncInv
    OBVIOUS
  <2>1. down = <<>> /\ DOMAIN down = {} /\ authenticated = FALSE
    BY DEF SessionInit
  <2>2. \A k \in Kinds, r \in Ids : requests[k][r] = None /\ live[k][r] = None
    BY DEF SessionInit, Init
  <2> QED BY <2>1, <2>2 DEF SyncInv, InSync
<1>2. BaseInv /\ BaseInv' /\ SyncInv /\ [SessionNext]_sessionVars => SyncInv'
  BY SyncStep
<1>3. BaseInv /\ LoginInv /\ SyncInv => ScreenMatchesServer
  <2> SUFFICES ASSUME BaseInv, LoginInv, SyncInv, is_logged_in, sock = "open", Quiet,
                      NEW k \in Kinds, NEW r \in Ids
               PROVE  shown[k][r] = live[k][r] \/ <<k, r>> \in missed
    BY DEF ScreenMatchesServer
  <2>1. shown = requests
    BY DEF BaseInv, SessionType, ScreenIsState
  <2>2. login_succeed /\ down = <<>> /\ DOMAIN down = {}
    BY DEF is_logged_in, Quiet
  <2>3. authenticated
    BY <2>2 DEF LoginInv
  <2>4. InSync(k, r) => requests[k][r] = live[k][r]
    BY <2>2 DEF InSync
  <2> QED BY <2>1, <2>3, <2>4 DEF SyncInv
<1> QED BY <1>1, <1>2, <1>3, BaseInvariant, LoginInvariant, PTL DEF SessionSpec

=============================================================================
