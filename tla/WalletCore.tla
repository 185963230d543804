----------------------------- MODULE WalletCore -----------------------------
(***************************************************************************)
(* The sans-io wallet-connect machine of lc-wallet-core/src/core.rs: one   *)
(* action per Input and per server message, its fields as variables, and   *)
(* the Effects of the last call of `handle` in the variable `effects`.     *)
(*                                                                         *)
(* The environment is open.  The host may give any answer at any time,     *)
(* whether the request is live or not; while connected the server may send *)
(* any message.  What the driver (transport.rs) guarantees is a guard:     *)
(* Connected and Disconnected alternate, and Recv happens only in between. *)
(*                                                                         *)
(* A request is a kind, an id and a body; a body stands for everything the *)
(* host renders and the wallet acts on.  A BTreeMap is a total function    *)
(* into its values and None.                                               *)
(***************************************************************************)
EXTENDS Naturals

CONSTANTS
    Kinds,            \* the request kinds of this instance, a part of AllKinds
    Ids,              \* request ids (and session ids)
    Bodies,           \* what a request may say
    BindingBodies,    \* login bodies that carry a service_challenge
    MalformedBodies,  \* sign-message bodies whose digest is not 32 bytes of hex
    Domains,          \* relying parties that report holdings
    Reports,          \* non-empty holdings reports
    Empty,            \* the empty holdings report
    SnapshotMayBeEmpty, \* may the login snapshot carry an empty report?
    Tokens,           \* push-notification tokens
    None,             \* an absent map entry
    MaxActionId       \* bound on next_action_id; i32::MAX in the code

AllKinds == {"Login", "Sign", "SignMessage", "ReceiveAddress",
             "AssetBalance", "Pay", "Fund"}

\* LoginResp lists every kind of pending request but the login requests.
SyncedKinds == Kinds \ {"Login"}

\* The kinds whose approval carries something the host produced and is
\* dropped when the request is no longer live.
HostAnsweredKinds == Kinds \cap {"ReceiveAddress", "AssetBalance", "Pay", "Fund"}

ActionIds == 1..MaxActionId

\* What an action carries besides its request: a wallet-key signature over
\* a body, something the host produced, or a login with(out) a binding.
Payloads == Bodies \cup {"FromHost", "Bound", "Unbound", "Nothing"}

Actions == [op: {"Accept", "Cancel", "Link", "Stop"},
            kind: AllKinds \cup {"Session"}, id: Ids, payload: Payloads]

Frames == [id: 0..MaxActionId,
           req: {"Challenge", "Login", "UserAction", "RegisterFcm"},
           arg: Actions \cup Tokens \cup {None}]

ASSUME KindsAssumption == Kinds \subseteq AllKinds
ASSUME BodiesAssumption ==
    /\ BindingBodies \subseteq Bodies
    /\ MalformedBodies \subseteq Bodies
    /\ Bodies \cap {"FromHost", "Bound", "Unbound", "Nothing"} = {}
ASSUME NoneAssumption ==
    /\ None \notin Bodies \cup Reports \cup {Empty} \cup Tokens \cup Actions
    /\ Empty \notin Reports
ASSUME BoundAssumption == MaxActionId \in Nat \ {0}

VARIABLES
    connected,
    login_succeed,
    requests,         \* the seven *_requests maps: requests[kind][id]
    holdings,         \* domain -> last report
    user_actions,     \* pending actions by id
    next_action_id,
    mobile_requests,
    fcm_token,
    effects,          \* what the last call of `handle` returned
    (* History, not program state. *)
    shown,            \* the requests on the host's screen, folded from effects
    shown_holdings,   \* likewise, the holdings
    reported,         \* domain -> what the server last said of it
    wire,             \* the frames handed to the transport on this connection
    settled           \* action ids the server has answered

core == <<connected, login_succeed, requests, holdings, user_actions,
          next_action_id, mobile_requests, fcm_token>>
history == <<shown, shown_holdings, reported, wire, settled>>
vars == <<core, effects, history>>
queueVars == <<user_actions, next_action_id>>

RequestMap == [Ids -> Bodies \cup {None}]
HoldingsMap == [Domains -> Reports \cup {None}]

-----------------------------------------------------------------------------
(* Effects                                                                 *)

NoEffects == [send     |-> {},    \* frames for the server
              add      |-> {},    \* <<kind, id, body>> put on the screen
              remove   |-> {},    \* <<kind, id>> taken off it
              setHold  |-> {},    \* <<domain, report>> restated
              clearHold|-> {},    \* domains cleared
              sessions |-> {},    \* which session events were raised
              failed   |-> {},    \* actions reported as refused
              minimize |-> FALSE] \* hand the person back to the browser

EffectsType == [send: SUBSET Frames,
                add: SUBSET (Kinds \X Ids \X Bodies),
                remove: SUBSET (Kinds \X Ids),
                setHold: SUBSET (Domains \X Reports),
                clearHold: SUBSET Domains,
                sessions: SUBSET {"List", "Created", "Removed"},
                failed: SUBSET Actions,
                minimize: BOOLEAN]

send(id, req, arg) == [id |-> id, req |-> req, arg |-> arg]

\* The host's screen after the Add*Request and Remove*Request effects.
Screen(eff) ==
    [k \in Kinds |-> [i \in Ids |->
        IF \E b \in Bodies : <<k, i, b>> \in eff.add
        THEN CHOOSE b \in Bodies : <<k, i, b>> \in eff.add
        ELSE IF <<k, i>> \in eff.remove THEN None ELSE shown[k][i]]]

HoldingsScreen(eff) ==
    [d \in Domains |->
        IF \E r \in Reports : <<d, r>> \in eff.setHold
        THEN CHOOSE r \in Reports : <<d, r>> \in eff.setHold
        ELSE IF d \in eff.clearHold THEN None ELSE shown_holdings[d]]

\* `handle` returns eff; the driver applies them all before the next call.
Return(eff) ==
    /\ effects' = eff
    /\ shown' = Screen(eff)
    /\ shown_holdings' = HoldingsScreen(eff)
    /\ wire' = wire \cup eff.send

-----------------------------------------------------------------------------
(* Helpers of WalletConnectCore                                            *)

is_logged_in == connected /\ login_succeed

Held(k, id) == requests[k][id] # None

\* Fault: the id counter is not advanced.
add_user_action_reusing_id(action) ==
    /\ next_action_id <= MaxActionId
    /\ next_action_id' = next_action_id
    /\ user_actions' = [user_actions EXCEPT ![next_action_id] = action]

\* add_user_action: the action takes the next id, is kept until the server
\* answers it, and is sent at once if there is a connection.
add_user_action(action) ==
    /\ next_action_id <= MaxActionId
    /\ next_action_id' = next_action_id + 1
    /\ user_actions' = [user_actions EXCEPT ![next_action_id] = action]

ActionFrame(action) ==
    IF connected THEN {send(next_action_id, "UserAction", action)} ELSE {}

\* finish_request, with the effects of the caller.
finish_request(id, frames) ==
    /\ mobile_requests' = mobile_requests \ {id}
    /\ Return([NoEffects EXCEPT !.send = frames,
                                !.minimize = id \in mobile_requests])

\* Fault: send_fcm_token runs before login_succeed is set.
FcmFrameBeforeFlag(token, loggedIn) ==
    IF token # None /\ is_logged_in THEN {send(0, "RegisterFcm", token)} ELSE {}

\* send_fcm_token, as the frames it emits.
FcmFrame(token, loggedIn) ==
    IF token # None /\ loggedIn THEN {send(0, "RegisterFcm", token)} ELSE {}

\* Fault: only the most recent action is replayed.
ReplayLatest == {send(i, "UserAction", user_actions[i]) :
              i \in {j \in ActionIds : user_actions[j] # None /\ j = next_action_id - 1}}

\* The actions replayed after a login.
Replay == {send(i, "UserAction", user_actions[i]) :
              i \in {j \in ActionIds : user_actions[j] # None}}

\* sync_sign_requests and its five siblings: ids the server no longer lists
\* are dropped, ids already held keep the body they had, the rest are added.
Sync(listed) ==
    [k \in Kinds |->
        IF k \in SyncedKinds
        THEN [i \in Ids |-> IF listed[k][i] = None THEN None
                            ELSE IF Held(k, i) THEN requests[k][i]
                            ELSE listed[k][i]]
        ELSE requests[k]]

SyncAdds(listed) ==
    {e \in SyncedKinds \X Ids \X Bodies :
        listed[e[1]][e[2]] = e[3] /\ ~Held(e[1], e[2])}

\* Fault: a dropped request is not announced.
SyncRemovesSilently(listed) == {}

SyncRemoves(listed) ==
    {e \in SyncedKinds \X Ids : listed[e[1]][e[2]] = None /\ Held(e[1], e[2])}

\* Fault: a domain the snapshot does not name is kept.
SyncHoldingsKeepsGone(snapshot) ==
    [d \in Domains |-> IF snapshot[d] \in {Empty, None} THEN holdings[d] ELSE snapshot[d]]

\* sync_holdings: domains the snapshot does not name are cleared, non-empty
\* reports are (re)stated, an empty report is skipped.
SyncHoldings(snapshot) ==
    [d \in Domains |-> IF snapshot[d] = Empty THEN holdings[d] ELSE snapshot[d]]

SyncHoldClears(snapshot) ==
    {d \in Domains : snapshot[d] = None /\ holdings[d] # None}

SyncHoldSets(snapshot) ==
    {e \in Domains \X Reports : snapshot[e[1]] = e[2]}

\* What a report says the RP holds: an empty one is a clear.
Meaning(report) == IF report = Empty THEN None ELSE report

-----------------------------------------------------------------------------
(* new                                                                     *)

Init ==
    /\ connected = FALSE /\ login_succeed = FALSE
    /\ requests = [k \in Kinds |-> [i \in Ids |-> None]]
    /\ holdings = [d \in Domains |-> None]
    /\ user_actions = [i \in ActionIds |-> None]
    /\ next_action_id = 1
    /\ mobile_requests = {}
    /\ fcm_token = None
    /\ effects = NoEffects
    /\ shown = requests /\ shown_holdings = holdings /\ reported = holdings
    /\ wire = {} /\ settled = {}

-----------------------------------------------------------------------------
(* Input::Transport                                                        *)

\* Fault: pending actions are sent as soon as the socket opens.
ConnectedReplays ==
    /\ ~connected
    /\ connected' = TRUE
    /\ Return([NoEffects EXCEPT !.send = {send(0, "Challenge", None)} \cup Replay])
    /\ UNCHANGED <<login_succeed, requests, holdings, queueVars,
                   mobile_requests, fcm_token, reported, settled>>

Connected ==
    /\ ~connected
    /\ connected' = TRUE
    /\ Return([NoEffects EXCEPT !.send = {send(0, "Challenge", None)}])
    /\ UNCHANGED <<login_succeed, requests, holdings, queueVars,
                   mobile_requests, fcm_token, reported, settled>>

\* Fault: losing the connection clears the queue.
DisconnectedForgets ==
    /\ connected
    /\ connected' = FALSE /\ login_succeed' = FALSE
    /\ user_actions' = [i \in ActionIds |-> None]
    /\ effects' = NoEffects
    /\ wire' = {}
    /\ UNCHANGED <<requests, holdings, next_action_id, mobile_requests, fcm_token,
                   shown, shown_holdings, reported, settled>>

Disconnected ==
    /\ connected
    /\ connected' = FALSE /\ login_succeed' = FALSE
    /\ effects' = NoEffects
    /\ wire' = {}
    /\ UNCHANGED <<requests, holdings, queueVars, mobile_requests, fcm_token,
                   shown, shown_holdings, reported, settled>>

\* A frame that does not parse, or a RegisterFcm response.
RecvIgnored ==
    /\ connected
    /\ Return(NoEffects)
    /\ UNCHANGED <<core, reported, settled>>

RecvChallenge ==
    /\ connected
    /\ Return([NoEffects EXCEPT !.send = {send(0, "Login", None)}])
    /\ UNCHANGED <<core, reported, settled>>

Snapshots == [Domains -> Reports \cup {None} \cup
                         (IF SnapshotMayBeEmpty THEN {Empty} ELSE {})]

RecvLogin(listed, snapshot) ==
    /\ connected
    /\ login_succeed' = TRUE
    /\ requests' = Sync(listed)
    /\ holdings' = SyncHoldings(snapshot)
    /\ Return([NoEffects EXCEPT
                  !.send = Replay \cup FcmFrame(fcm_token, TRUE),
                  !.add = SyncAdds(listed),
                  !.remove = SyncRemoves(listed),
                  !.setHold = SyncHoldSets(snapshot),
                  !.clearHold = SyncHoldClears(snapshot),
                  !.sessions = {"List"}])
    /\ reported' = [d \in Domains |-> Meaning(snapshot[d])]
    /\ UNCHANGED <<connected, queueVars, mobile_requests, fcm_token, settled>>

RecvUserAction(id) ==
    /\ connected
    /\ user_actions' = [i \in ActionIds |-> IF i = id THEN None ELSE user_actions[i]]
    /\ settled' = settled \cup {i \in {id} : i \in ActionIds /\ user_actions[i] # None}
    /\ Return(NoEffects)
    /\ UNCHANGED <<connected, login_succeed, requests, holdings,
                   next_action_id, mobile_requests, fcm_token, reported>>

\* Fault: a refusal is swallowed, the host is not told.
RecvErrorSwallowed(id) ==
    /\ connected
    /\ user_actions' = [i \in ActionIds |-> IF i = id THEN None ELSE user_actions[i]]
    /\ settled' = settled \cup {i \in {id} : i \in ActionIds /\ user_actions[i] # None}
    /\ Return(NoEffects)
    /\ UNCHANGED <<connected, login_succeed, requests, holdings,
                   next_action_id, mobile_requests, fcm_token, reported>>

\* Fault: a refused action is reported but stays in the queue.
RecvErrorKeeps(id) ==
    LET refused == {i \in {id} : i \in ActionIds /\ user_actions[i] # None} IN
    /\ connected
    /\ settled' = settled \cup refused
    /\ Return([NoEffects EXCEPT !.failed = {user_actions[i] : i \in refused}])
    /\ UNCHANGED <<connected, login_succeed, requests, holdings, queueVars,
                   mobile_requests, fcm_token, reported>>

RecvError(id) ==
    LET refused == {i \in {id} : i \in ActionIds /\ user_actions[i] # None} IN
    /\ connected
    /\ user_actions' = [i \in ActionIds |-> IF i = id THEN None ELSE user_actions[i]]
    /\ settled' = settled \cup refused
    /\ Return([NoEffects EXCEPT !.failed = {user_actions[i] : i \in refused}])
    /\ UNCHANGED <<connected, login_succeed, requests, holdings,
                   next_action_id, mobile_requests, fcm_token, reported>>

-----------------------------------------------------------------------------
(* handle_notification                                                     *)

SessionNotification(event) ==
    /\ connected
    /\ Return([NoEffects EXCEPT !.sessions = {event}])
    /\ UNCHANGED <<core, reported, settled>>

RequestCreated(k, id, body) ==
    /\ connected
    /\ requests' = [requests EXCEPT ![k][id] = body]
    /\ Return([NoEffects EXCEPT !.add = {<<k, id, body>>}])
    /\ UNCHANGED <<connected, login_succeed, holdings, queueVars,
                   mobile_requests, fcm_token, reported, settled>>

RequestRemoved(k, id) ==
    /\ connected
    /\ requests' = [requests EXCEPT ![k][id] = None]
    /\ Return([NoEffects EXCEPT !.remove = {<<k, id>>}])
    /\ UNCHANGED <<connected, login_succeed, holdings, queueVars,
                   mobile_requests, fcm_token, reported, settled>>

HoldingsUpdated(d, report) ==
    /\ connected
    /\ holdings' = [holdings EXCEPT ![d] = Meaning(report)]
    /\ reported' = [reported EXCEPT ![d] = Meaning(report)]
    /\ Return(IF report = Empty THEN [NoEffects EXCEPT !.clearHold = {d}]
              ELSE [NoEffects EXCEPT !.setHold = {<<d, report>>}])
    /\ UNCHANGED <<connected, login_succeed, requests, queueVars,
                   mobile_requests, fcm_token, settled>>

HoldingsRemoved(d) ==
    /\ connected
    /\ holdings' = [holdings EXCEPT ![d] = None]
    /\ reported' = [reported EXCEPT ![d] = None]
    /\ Return([NoEffects EXCEPT !.clearHold = {e \in {d} : holdings[e] # None}])
    /\ UNCHANGED <<connected, login_succeed, requests, queueVars,
                   mobile_requests, fcm_token, settled>>

-----------------------------------------------------------------------------
(* The host's inputs                                                       *)

Action(op, k, id, payload) ==
    [op |-> op, kind |-> k, id |-> id, payload |-> payload]

\* Queue an answer to a request and finish it.
Answer(action) ==
    /\ add_user_action(action)
    /\ finish_request(action.id, ActionFrame(action))
    /\ UNCHANGED <<connected, login_succeed, requests, holdings, fcm_token,
                   reported, settled>>

\* The approval is logged and dropped, but the request still counts as finished.
DropAnswer(id) ==
    /\ finish_request(id, {})
    /\ UNCHANGED <<connected, login_succeed, requests, holdings, queueVars,
                   fcm_token, reported, settled>>

\* Fault: the service challenge is not looked at.
BindingIgnored(id) == FALSE

BindingWanted(id) == Held("Login", id) /\ requests["Login"][id] \in BindingBodies

LoginAccepted(id, bound) ==
    /\ "Login" \in Kinds
    /\ bound \/ ~BindingWanted(id)
    /\ Answer(Action("Accept", "Login", id, IF bound THEN "Bound" ELSE "Unbound"))

\* The early return: reported as failed, nothing queued, not finished.
LoginAcceptedUnbound(id) ==
    /\ "Login" \in Kinds
    /\ BindingWanted(id)
    /\ Return([NoEffects EXCEPT !.failed = {Action("Cancel", "Login", id, "Nothing")}])
    /\ UNCHANGED <<core, reported, settled>>

\* A signed PSET is queued whether or not its request is still live.
SignAccepted(id) ==
    /\ "Sign" \in Kinds
    /\ Answer(Action("Accept", "Sign", id, "FromHost"))

\* Fault: the digest is taken without looking the request up first.
SignableUnchecked(id) == requests["SignMessage"][id] \notin MalformedBodies

\* sign_message_digest succeeds only for a live request with a proper digest.
Signable(id) == Held("SignMessage", id) /\ requests["SignMessage"][id] \notin MalformedBodies

SignMessageAccepted(id) ==
    /\ "SignMessage" \in Kinds
    /\ \/ /\ Signable(id)
          /\ Answer(Action("Accept", "SignMessage", id, requests["SignMessage"][id]))
       \/ /\ ~Signable(id)
          /\ DropAnswer(id)

AnswerIfLive(k, id) ==
    \/ /\ Held(k, id)
       /\ Answer(Action("Accept", k, id, "FromHost"))
    \/ /\ ~Held(k, id)
       /\ DropAnswer(id)

SignMessageSigned(id) == "SignMessage" \in Kinds /\ AnswerIfLive("SignMessage", id)

\* PayBuilt, ReceiveAddressProvided, AssetBalanceProvided and FundSigned.
HostAnswered(k, id) == AnswerIfLive(k, id)

\* Fault: a rejection is queued as an acceptance.
RejectedAsAccept(k, id) == Answer(Action("Accept", k, id, "FromHost"))

\* The seven *Rejected inputs: no liveness check.
Rejected(k, id) == Answer(Action("Cancel", k, id, "Nothing"))

RegisterFcmToken(token) ==
    /\ fcm_token' = token
    /\ Return([NoEffects EXCEPT !.send = FcmFrame(token, is_logged_in)])
    /\ UNCHANGED <<connected, login_succeed, requests, holdings, queueVars,
                   mobile_requests, reported, settled>>

\* Actions that answer no request: StopSession and the link of a login.
QueueOnly(action) ==
    /\ add_user_action(action)
    /\ Return([NoEffects EXCEPT !.send = ActionFrame(action)])
    /\ UNCHANGED <<connected, login_succeed, requests, holdings, fcm_token,
                   reported, settled>>

StopSession(id) ==
    /\ QueueOnly(Action("Stop", "Session", id, "Nothing"))
    /\ UNCHANGED mobile_requests

NoteMobile(id, is_mobile) ==
    mobile_requests' = mobile_requests \cup (IF is_mobile THEN {id} ELSE {})

LoginLink(id, is_mobile) ==
    /\ QueueOnly(Action("Link", "Login", id, "Nothing"))
    /\ NoteMobile(id, is_mobile)

\* Open and Sign links send nothing.
OpenOrSignLink(id, is_mobile) ==
    /\ NoteMobile(id, is_mobile)
    /\ Return(NoEffects)
    /\ UNCHANGED <<connected, login_succeed, requests, holdings, queueVars,
                   fcm_token, reported, settled>>

-----------------------------------------------------------------------------

ServerStep ==
    \/ RecvIgnored
    \/ RecvChallenge
    \/ \E listed \in [SyncedKinds -> RequestMap], snapshot \in Snapshots :
            RecvLogin(listed, snapshot)
    \/ \E id \in 0..MaxActionId : RecvUserAction(id) \/ RecvError(id)
    \/ \E event \in {"Created", "Removed"} : SessionNotification(event)
    \/ \E k \in Kinds, id \in Ids :
            \/ \E body \in Bodies : RequestCreated(k, id, body)
            \/ RequestRemoved(k, id)
    \/ \E d \in Domains :
            \/ \E report \in Reports \cup {Empty} : HoldingsUpdated(d, report)
            \/ HoldingsRemoved(d)

HostStep ==
    \/ \E id \in Ids :
            \/ \E bound \in BOOLEAN : LoginAccepted(id, bound)
            \/ LoginAcceptedUnbound(id)
            \/ SignAccepted(id)
            \/ SignMessageAccepted(id)
            \/ SignMessageSigned(id)
            \/ StopSession(id)
            \/ \E k \in HostAnsweredKinds : HostAnswered(k, id)
            \/ \E k \in Kinds : Rejected(k, id)
            \/ \E is_mobile \in BOOLEAN :
                    LoginLink(id, is_mobile) \/ OpenOrSignLink(id, is_mobile)
    \/ \E token \in Tokens : RegisterFcmToken(token)

Next == Connected \/ Disconnected \/ ServerStep \/ HostStep

Spec == Init /\ [][Next]_vars

-----------------------------------------------------------------------------
(* Properties                                                              *)

\* Types of the fields of WalletConnectCore, of its effects and the history.
TypeOK ==
    /\ connected \in BOOLEAN /\ login_succeed \in BOOLEAN
    /\ requests \in [Kinds -> RequestMap]
    /\ holdings \in HoldingsMap
    /\ user_actions \in [ActionIds -> Actions \cup {None}]
    /\ next_action_id \in 1..(MaxActionId + 1)
    /\ mobile_requests \subseteq Ids
    /\ fcm_token \in Tokens \cup {None}
    /\ effects \in EffectsType
    /\ shown \in [Kinds -> RequestMap]
    /\ shown_holdings \in HoldingsMap
    /\ reported \in HoldingsMap
    /\ wire \subseteq Frames
    /\ settled \subseteq ActionIds

\* The requests the host has on screen, folded from nothing but the Add and
\* Remove effects, are exactly the requests the core acts on, bodies
\* included; through reconnects and syncs no effect is missing or extra.
ScreenIsState == shown = requests /\ shown_holdings = holdings

\* Every action the core ever queued is either still pending or has been
\* answered by the server, never both and never neither: no reconnect, login
\* or answer to another id loses or revives an approval, and an answer to a
\* fire-and-forget request (id 0) touches none.
NoActionLost ==
    \A i \in ActionIds :
        (user_actions[i] # None) <=> (i < next_action_id /\ i \notin settled)

\* Once a login has succeeded, every pending action has been put on the wire
\* of this very connection, however it came to be pending: before the
\* connection, between connecting and the login, or after it.
ReplayComplete ==
    login_succeed =>
        \A i \in ActionIds : user_actions[i] # None =>
            send(i, "UserAction", user_actions[i]) \in wire

\* While logged in, the server has been given the current push token on this
\* connection, whether it was registered before or after the login.
PushTokenRegistered ==
    (is_logged_in /\ fcm_token # None) => send(0, "RegisterFcm", fcm_token) \in wire

\* A user action frame never carries anything but the action the host took
\* under that id: a pending action never changes, so replays repeat the
\* original approval.
ReplayFaithful ==
    \A f \in wire : f.req = "UserAction" =>
        /\ f.id \in 1..(next_action_id - 1)
        /\ user_actions[f.id] \in {f.arg, None}

\* The holdings the core keeps are what each RP last reported.
HoldingsAreLastReport == holdings = reported

\* What the host has on screen when an acceptance is queued: the kinds that
\* need a live request are on screen, a wallet-key signature is over the body
\* on screen and that body's digest is well formed, and a login on screen
\* that asks for a service binding is not accepted unbound.
OnScreen(a) ==
    /\ a.kind \in Kinds \ {"Login", "Sign"} => shown[a.kind][a.id] # None
    /\ (a.kind = "SignMessage" /\ a.payload # "FromHost") =>
           shown["SignMessage"][a.id] = a.payload /\ a.payload \notin MalformedBodies
    /\ (a.kind = "Login" /\ a.payload = "Unbound") =>
           shown["Login"][a.id] \notin BindingBodies

\* No step queues an acceptance of something other than what the host shows:
\* accepting by id never signs a body that a later notification replaced.
AcceptsWhatIsShown ==
    [][\A i \in ActionIds :
          (user_actions[i] = None /\ user_actions'[i] # None
              /\ user_actions'[i].op = "Accept") => OnScreen(user_actions'[i])]_vars

=============================================================================
