---------------------------- MODULE WalletSession ----------------------------
(***************************************************************************)
(* WalletCore driven by Transport against the connect server and a person. *)
(*                                                                         *)
(* The person answers what is on the screen; the answer waits in the       *)
(* actor's input channel, so the core may see it after the request is gone *)
(* and after a reconnect.  The two directions of the WebSocket are FIFO    *)
(* until the socket dies, which loses what is in flight.  The server is    *)
(* not part of the repository: it is modelled from the messages the wallet *)
(* sends and expects (wire.rs), and from what the tests and comments say.  *)
(***************************************************************************)
EXTENDS WalletCore, Sequences, FiniteSets

CONSTANTS
    MaxInputs, RECONNECT_MIN, RECONNECT_MAX,
    MaxFaults,        \* bound on connection attempts that fail and sockets that die
    MaxRequests,      \* bound on requests the server creates
    ServerMayDeny     \* may the server answer Challenge or Login with an Error?

ASSUME MaxFaultsAssumption == MaxFaults \in Nat
ASSUME MaxRequestsAssumption == MaxRequests \in Nat
ASSUME ServerMayDenyAssumption == ServerMayDeny \in BOOLEAN

VARIABLES
    phase, delay, inputs, handle_open, sock, idle,   \* Transport
    was_logged_in, \* Transport's per-connection flag
    status,        \* the connection state the host was last told
    up, down,      \* frames to the server, messages to the wallet
    live,          \* the server's pending requests
    authenticated, \* has the server accepted a Login on this connection?
    denied,        \* has it refused Challenge or Login on this connection?
    (* History. *)
    decided,       \* the action queued under each id
    early,         \* ids queued while connected but not yet logged in
    taps,          \* what the person answered, with the body on screen
    used,          \* <<kind, id>> of every request created: ids are not reused
    applied,       \* <<id, action>> carried out by the server
    delivered,     \* action ids the server saw on an authenticated connection
    refused,       \* action ids reported to the host as failed
    unheard,       \* action ids whose acknowledgement was lost with a connection
    missed,        \* <<kind, id>> of notifications no snapshot makes good
    faults         \* connection faults so far

TapInputs == [op: {"Accept", "Reject"}, kind: Kinds, id: Ids]

T == INSTANCE Transport WITH Inputs <- TapInputs

actor == <<phase, delay, inputs, handle_open, sock, idle>>
server == <<live, authenticated, denied, used>>
record == <<decided, early, taps, applied, delivered, refused, unheard, missed, faults>>
sessionVars == <<vars, actor, was_logged_in, status, up, down, server, record>>

Msg(type) == [msg |-> type]
Ack(i) == [msg |-> "UserAction", id |-> i]
Refusal(i) == [msg |-> "Error", id |-> i]
Snapshot == [msg |-> "Login", listed |-> [k \in SyncedKinds |-> live[k]]]
Created(k, r, body) == [msg |-> "Created", kind |-> k, id |-> r, body |-> body]
Removed(k, r) == [msg |-> "Removed", kind |-> k, id |-> r]

SessionInit ==
    /\ Init /\ T!ActorInit
    /\ was_logged_in = FALSE /\ status = "Disconnected"
    /\ up = <<>> /\ down = <<>>
    /\ live = [k \in Kinds |-> [r \in Ids |-> None]]
    /\ authenticated = FALSE /\ denied = FALSE
    /\ used = {}
    /\ decided = <<>> /\ early = {} /\ taps = {} /\ applied = {}
    /\ delivered = {} /\ refused = {} /\ unheard = {} /\ missed = {} /\ faults = 0

-----------------------------------------------------------------------------
(* Sending                                                                 *)

\* All the frames, one after the other: one call never pushes more than the pending
\* actions and the push token.
Lineups(frames) ==
    {s \in UNION {[1..n -> frames] : n \in 0..(MaxActionId + 1)} :
        \A f \in frames : \E i \in DOMAIN s : s[i] = f}

\* Fault: pending actions are replayed newest first.
InOrderReversed(frames) ==
    {s \in Lineups(frames) : \A i, j \in DOMAIN s : i < j => s[i].id > s[j].id}

\* The order in which `handle` pushes the frames of one call: by action id.
InOrder(frames) ==
    {s \in Lineups(frames) : \A i, j \in DOMAIN s : i < j => s[i].id < s[j].id}

\* The frames of this step leave in order; a dead socket swallows them.
SendFrames ==
    IF sock' = "open" THEN \E s \in InOrder(effects'.send) : up' = up \o s
    ELSE up' = up

\* What this step queued and reported as failed.
Note ==
    /\ decided' = IF next_action_id' = next_action_id THEN decided
                  ELSE Append(decided, user_actions'[next_action_id])
    /\ early' = IF next_action_id' = next_action_id \/ ~connected \/ login_succeed
                THEN early ELSE early \cup {next_action_id}
    /\ refused' = IF effects'.failed = {} THEN refused ELSE refused \cup (settled' \ settled)

-----------------------------------------------------------------------------
(* The actor                                                               *)

\* Fault: the flag of the previous connection is kept.
AttemptKeepsFlag ==
    /\ T!ConnectOk
    /\ Connected
    /\ SendFrames /\ Note
    /\ status' = "Connected"
    /\ UNCHANGED <<was_logged_in, down, server, taps, applied, delivered, unheard, missed, faults>>

Attempt ==
    /\ T!ConnectOk
    /\ Connected
    /\ SendFrames /\ Note
    /\ was_logged_in' = FALSE /\ status' = "Connected"
    /\ UNCHANGED <<down, server, taps, applied, delivered, unheard, missed, faults>>

AttemptFails ==
    /\ faults < MaxFaults
    /\ T!ConnectFail
    /\ faults' = faults + 1
    /\ UNCHANGED <<vars, was_logged_in, status, up, down, server,
                   decided, early, taps, applied, delivered, refused, unheard, missed>>

Wake ==
    /\ T!Wake
    /\ UNCHANGED <<vars, was_logged_in, status, up, down, server, record>>

\* The core's handler for one message of the server.
Recv(m) ==
    \/ m.msg = "Challenge" /\ RecvChallenge
    \/ m.msg = "Login" /\ RecvLogin(m.listed, [d \in Domains |-> None])
    \/ m.msg = "UserAction" /\ RecvUserAction(m.id)
    \/ m.msg = "Error" /\ RecvError(m.id)
    \/ m.msg = "Created" /\ RequestCreated(m.kind, m.id, m.body)
    \/ m.msg = "Removed" /\ RequestRemoved(m.kind, m.id)

\* select!: a text frame arrived.  Events go to the host in this order, so
\* LoggedIn follows the requests the login brought.
ReadFrame ==
    /\ phase = "Online"
    /\ down # <<>>
    /\ Recv(Head(down))
    /\ down' = Tail(down)
    /\ UNCHANGED actor
    /\ SendFrames /\ Note
    /\ LET first == is_logged_in' /\ ~was_logged_in IN
       /\ was_logged_in' = (was_logged_in \/ first)
       /\ status' = IF first THEN "LoggedIn" ELSE status
    /\ UNCHANGED <<server, taps, applied, delivered, unheard, missed, faults>>

\* The core's handler for one answer of the host.
HandleTap(t) ==
    \/ t.op = "Reject" /\ Rejected(t.kind, t.id)
    \/ /\ t.op = "Accept"
       /\ \/ t.kind = "Login" /\ LoginAccepted(t.id, TRUE)
          \/ t.kind = "Sign" /\ SignAccepted(t.id)
          \/ t.kind = "SignMessage" /\ SignMessageAccepted(t.id)
          \/ t.kind \in HostAnsweredKinds /\ HostAnswered(t.kind, t.id)

TakeInput ==
    /\ T!TakeInput
    /\ HandleTap(Head(inputs))
    /\ SendFrames /\ Note
    /\ UNCHANGED <<was_logged_in, status, down, server, taps, applied, delivered, unheard, missed, faults>>

\* Requests whose notification is among msgs and that no snapshot will list.
Unlisted(msgs) ==
    {<<msgs[n].kind, msgs[n].id>> : n \in {i \in DOMAIN msgs :
                                             /\ msgs[i].msg \in {"Created", "Removed"}
                                             /\ msgs[i].kind \notin SyncedKinds}}

\* Actions whose acknowledgement is among msgs.
Acknowledged(msgs) == {msgs[n].id : n \in {i \in DOMAIN msgs : msgs[i].msg = "UserAction"}}

ConnectionLost ==
    /\ T!ConnectionLost
    /\ Disconnected
    /\ down' = <<>> /\ status' = "Disconnected"
    /\ missed' = missed \cup Unlisted(down)
    /\ unheard' = unheard \cup Acknowledged(down)
    /\ UNCHANGED <<was_logged_in, up, server, decided, early, taps, applied,
                   delivered, refused, faults>>

\* The network fails: the server forgets the connection, and the wallet may
\* still read what had already arrived.
SocketDies ==
    /\ faults < MaxFaults
    /\ T!SocketDies
    /\ faults' = faults + 1
    /\ up' = <<>> /\ authenticated' = FALSE /\ denied' = FALSE
    /\ \E n \in 0..Len(down) :
            /\ down' = SubSeq(down, 1, n)
            /\ missed' = missed \cup Unlisted(SubSeq(down, n + 1, Len(down)))
            /\ unheard' = unheard \cup Acknowledged(SubSeq(down, n + 1, Len(down)))
    /\ UNCHANGED <<vars, was_logged_in, status, live, used,
                   decided, early, taps, applied, delivered, refused>>

-----------------------------------------------------------------------------
(* The person                                                              *)

Tap(op, k, r) ==
    /\ shown[k][r] # None
    /\ Len(inputs) + next_action_id <= MaxActionId
    /\ T!HandleSend([op |-> op, kind |-> k, id |-> r])
    /\ taps' = taps \cup {[op |-> op, kind |-> k, id |-> r, body |-> shown[k][r]]}
    /\ UNCHANGED <<vars, was_logged_in, status, up, down, server,
                   decided, early, applied, delivered, refused, unheard, missed, faults>>

-----------------------------------------------------------------------------
(* The connect server (external)                                           *)

\* A notification goes out only on a connection that has logged in.
Push(m) ==
    \/ authenticated /\ down' = Append(down, m) /\ UNCHANGED missed
    \/ ~authenticated /\ missed' = missed \cup Unlisted(<<m>>) /\ UNCHANGED down

ServerCreates(k, r, body) ==
    /\ <<k, r>> \notin used /\ Cardinality(used) < MaxRequests
    /\ used' = used \cup {<<k, r>>}
    /\ live' = [live EXCEPT ![k][r] = body]
    /\ Push(Created(k, r, body))
    /\ UNCHANGED <<vars, actor, was_logged_in, status, up, authenticated, denied,
                   decided, early, taps, applied, delivered, refused, unheard, faults>>

ServerExpires(k, r) ==
    /\ live[k][r] # None
    /\ live' = [live EXCEPT ![k][r] = None]
    /\ Push(Removed(k, r))
    /\ UNCHANGED <<vars, actor, was_logged_in, status, up, authenticated, denied, used,
                   decided, early, taps, applied, delivered, refused, unheard, faults>>

\* An action on an authenticated connection: carried out and its request
\* closed if it is still pending, refused otherwise; a server that remembers
\* that it has carried it out may acknowledge it again.
ServerActs(f) ==
    /\ delivered' = delivered \cup {f.id}
    /\ \/ /\ live[f.arg.kind][f.arg.id] # None
          /\ live' = [live EXCEPT ![f.arg.kind][f.arg.id] = None]
          /\ applied' = applied \cup {<<f.id, f.arg>>}
          /\ \/ down' = down \o <<Removed(f.arg.kind, f.arg.id), Ack(f.id)>>
             \/ down' = down \o <<Ack(f.id), Removed(f.arg.kind, f.arg.id)>>
       \/ /\ live[f.arg.kind][f.arg.id] = None
          /\ \/ down' = Append(down, Refusal(f.id))
             \/ <<f.id, f.arg>> \in applied /\ down' = Append(down, Ack(f.id))
          /\ UNCHANGED <<live, applied>>
    /\ UNCHANGED <<authenticated, denied>>

\* One frame of the wallet.  An action before the login is refused or ignored;
\* Challenge and Login, which go out with id 0, may be refused too.
ServerReads ==
    /\ sock = "open" /\ up # <<>>
    /\ up' = Tail(up)
    /\ LET f == Head(up) IN
       \/ /\ f.req = "Challenge"
          /\ down' = Append(down, Msg("Challenge"))
          /\ UNCHANGED <<live, authenticated, denied, applied, delivered>>
       \/ /\ f.req = "Login"
          /\ authenticated' = TRUE
          /\ down' = Append(down, Snapshot)
          /\ UNCHANGED <<live, denied, applied, delivered>>
       \/ /\ f.req \in {"Challenge", "Login"} /\ ServerMayDeny
          /\ denied' = TRUE
          /\ down' = Append(down, Refusal(0))
          /\ UNCHANGED <<live, authenticated, applied, delivered>>
       \/ f.req = "UserAction" /\ authenticated /\ ServerActs(f)
       \/ /\ f.req = "UserAction" /\ ~authenticated
          /\ down' \in {down, Append(down, Refusal(f.id))}
          /\ UNCHANGED <<live, authenticated, denied, applied, delivered>>
    /\ UNCHANGED <<vars, actor, was_logged_in, status, used,
                   decided, early, taps, refused, unheard, missed, faults>>

-----------------------------------------------------------------------------

SessionNext ==
    \/ Attempt \/ AttemptFails \/ Wake
    \/ ReadFrame \/ TakeInput
    \/ ConnectionLost \/ SocketDies
    \/ ServerReads
    \/ \E k \in Kinds, r \in Ids :
            \/ \E op \in {"Accept", "Reject"} : Tap(op, k, r)
            \/ \E body \in Bodies : ServerCreates(k, r, body)
            \/ ServerExpires(k, r)

SessionSpec == SessionInit /\ [][SessionNext]_sessionVars

\* The runtime polls the actor, the server reads what reaches it, and faults
\* stop (MaxFaults).  People and expiry owe nothing.
SessionFairness ==
    /\ WF_sessionVars(Attempt)
    /\ WF_sessionVars(Wake)
    /\ WF_sessionVars(ReadFrame)
    /\ WF_sessionVars(TakeInput)
    /\ WF_sessionVars(ConnectionLost)
    /\ WF_sessionVars(ServerReads)

FairSessionSpec == SessionSpec /\ SessionFairness

-----------------------------------------------------------------------------
(* Properties                                                              *)

Quiet == up = <<>> /\ down = <<>> /\ inputs = <<>>

\* Consent, end to end: whatever the server carried out is an answer the
\* person gave to that request, and a message signature it accepted is over
\* the body that was on the screen.  Holds across lost answers, replays and
\* requests that go while the answer waits in the channel.
OnlyWhatWasAnswered ==
    \A e \in applied :
        LET a == e[2] IN
        \E t \in taps :
            /\ t.kind = a.kind /\ t.id = a.id
            /\ t.op = (IF a.op = "Accept" THEN "Accept" ELSE "Reject")
            /\ (a.kind = "SignMessage" /\ a.op = "Accept") => t.body = a.payload

\* An answer given while logged in never overtakes an earlier answer to the
\* same request that is still pending: neither in the first sending nor
\* through a disconnect and the replay can a change of mind be carried out
\* first.  An `early` answer can: it is sent at once, ahead of the replay of
\* the older ones, and the server may already have accepted the login.
FirstAnswerWins ==
    \A e \in applied : e[1] \notin early =>
        \A j \in 1..(e[1] - 1) :
            (decided[j].kind = e[2].kind /\ decided[j].id = e[2].id) => j \in settled

\* An action taken off the queue as done was done.  One reported to the host as
\* failed was not, unless its acknowledgement was lost with a connection, so that it
\* had to be replayed, to a server that may have forgotten it: a repeat that the
\* wallet itself causes on one connection never turns a success into a failure.
AnswersAreTrue ==
    \A i \in settled :
        LET done == \E e \in applied : e[1] = i IN
        /\ i \in refused \/ done
        /\ (i \in refused /\ done) => i \in unheard

\* Logged in on a working socket with nothing in flight, the screen shows exactly the
\* server's pending requests: those created and removed while offline do not leave
\* it stale.  Login requests are in no snapshot (core.rs:477): one of them may be
\* stale, or absent, only if its notification was lost with a connection.
ScreenMatchesServer ==
    (is_logged_in /\ sock = "open" /\ Quiet) =>
        \A k \in Kinds, r \in Ids : shown[k][r] = live[k][r] \/ <<k, r>> \in missed

\* The connection state told to the host is the core's, so a screen that is
\* not synced is never labelled as logged in.
StatusIsTrue ==
    /\ (status = "LoggedIn") <=> is_logged_in
    /\ (status = "Disconnected") <=> ~connected

\* An answer given while offline, or while logged in, leaves the queue only after
\* a logged-in connection delivered it.  What an `early` answer gets is at worst a
\* refusal that the host is told of: it is sent before the login, and the Error of
\* a server that takes no actions yet ends it.
BlipLosesOnlyEarly == settled \ delivered \subseteq early \cap refused

\* What the wallet promises of the answers it takes, with `applied` as what was
\* carried out and the queue and ActionFailed as what the host is told.
D == INSTANCE Delivery WITH
        Answers <- Actions,
        queue <- decided,
        outcome <- [i \in DOMAIN decided |->
                       IF user_actions[i] # None THEN "pending"
                       ELSE IF i \in refused THEN "failed" ELSE "done"],
        carried <- {e[1] : e \in applied},
        unheard <- unheard

\* Over any pattern of lost frames, replays and expiry, and whether or not the server
\* remembers, the session implements that promise: no answer is carried out twice or
\* after it failed, none that is told as done was dropped, one request is answered
\* once, and only a lost acknowledgement makes a failure of what was done.
KeepsPromise == D!Promise

\* Once faults stop, every answer is taken from the channel; and unless the server
\* denies the login on the last connection, the wallet is logged in for good and
\* every answer is settled.  (A denial, an Error with id 0, touches nothing in the
\* core: no event, no retry, until the socket dies.)
AnswersSettle ==
    /\ (inputs # <<>>) ~> (inputs = <<>>)
    /\ <>[]denied \/ (/\ <>[]is_logged_in
                      /\ \A i \in ActionIds : <>[](user_actions[i] = None))

=============================================================================
