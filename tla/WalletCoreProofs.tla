-------------------------- MODULE WalletCoreProofs --------------------------
(***************************************************************************)
(* Machine-checked proofs about WalletCore, for every value of its         *)
(* constants: any number of requests, kinds, domains, actions.             *)
(***************************************************************************)
EXTENDS WalletCore, TLAPS

-----------------------------------------------------------------------------
(* Lemmas about the helpers                                                *)

\* `Return` keeps the effects and the history they feed well typed.
LEMMA ReturnType ==
    ASSUME TypeOK, NEW eff \in EffectsType, Return(eff)
    PROVE  /\ effects' \in EffectsType
           /\ shown' \in [Kinds -> RequestMap]
           /\ shown_holdings' \in HoldingsMap
           /\ wire' \subseteq Frames
<1>1. shown' \in [Kinds -> RequestMap]
  <2>1. ASSUME NEW k \in Kinds, NEW i \in Ids
        PROVE  Screen(eff)[k][i] \in Bodies \cup {None}
    <3>1. CASE \E b \in Bodies : <<k, i, b>> \in eff.add
      BY <3>1 DEF Screen
    <3>2. CASE ~\E b \in Bodies : <<k, i, b>> \in eff.add
      BY <3>2 DEF Screen, TypeOK, RequestMap
    <3> QED  BY <3>1, <3>2
  <2> QED  BY <2>1 DEF Return, Screen, RequestMap
<1>2. shown_holdings' \in HoldingsMap
  <2>1. ASSUME NEW d \in Domains
        PROVE  HoldingsScreen(eff)[d] \in Reports \cup {None}
    <3>1. CASE \E r \in Reports : <<d, r>> \in eff.setHold
      BY <3>1 DEF HoldingsScreen
    <3>2. CASE ~\E r \in Reports : <<d, r>> \in eff.setHold
      BY <3>2 DEF HoldingsScreen, TypeOK, HoldingsMap
    <3> QED  BY <3>1, <3>2
  <2> QED  BY <2>1 DEF Return, HoldingsScreen, HoldingsMap
<1>3. effects' \in EffectsType /\ wire' \subseteq Frames
  BY DEF Return, EffectsType, TypeOK
<1> QED  BY <1>1, <1>2, <1>3

\* The effect records the actions build are well typed.
LEMMA EffectsShape ==
    /\ NoEffects \in EffectsType
    /\ \A S \in SUBSET Frames : [NoEffects EXCEPT !.send = S] \in EffectsType
    /\ \A S \in SUBSET Frames, m \in BOOLEAN :
          [NoEffects EXCEPT !.send = S, !.minimize = m] \in EffectsType
    /\ \A S \in SUBSET (Kinds \X Ids \X Bodies) : [NoEffects EXCEPT !.add = S] \in EffectsType
    /\ \A S \in SUBSET (Kinds \X Ids) : [NoEffects EXCEPT !.remove = S] \in EffectsType
    /\ \A S \in SUBSET (Domains \X Reports) : [NoEffects EXCEPT !.setHold = S] \in EffectsType
    /\ \A S \in SUBSET Domains : [NoEffects EXCEPT !.clearHold = S] \in EffectsType
    /\ \A S \in SUBSET {"List", "Created", "Removed"} :
          [NoEffects EXCEPT !.sessions = S] \in EffectsType
    /\ \A S \in SUBSET Actions : [NoEffects EXCEPT !.failed = S] \in EffectsType
BY DEF NoEffects, EffectsType

\* Frames built by `send` are frames.
LEMMA SendType ==
    /\ send(0, "Challenge", None) \in Frames
    /\ send(0, "Login", None) \in Frames
    /\ \A t \in Tokens : send(0, "RegisterFcm", t) \in Frames
    /\ \A i \in ActionIds, a \in Actions : send(i, "UserAction", a) \in Frames
BY BoundAssumption DEF send, Frames, ActionIds

\* The frames replayed after a login are frames.
LEMMA ReplayType ==
    ASSUME TypeOK PROVE Replay \subseteq Frames
BY SendType DEF Replay, TypeOK

\* The push-token frame, if any, is a frame.
LEMMA FcmFrameType ==
    ASSUME NEW t \in Tokens \cup {None}, NEW l \in BOOLEAN
    PROVE  FcmFrame(t, l) \subseteq Frames
BY SendType DEF FcmFrame

\* The frame of a new action, if any, is a frame.
LEMMA ActionFrameType ==
    ASSUME TypeOK, NEW a \in Actions, next_action_id <= MaxActionId
    PROVE  ActionFrame(a) \subseteq Frames
BY SendType, BoundAssumption DEF ActionFrame, TypeOK, ActionIds

\* add_user_action keeps the queue and its counter well typed.
LEMMA QueueType ==
    ASSUME TypeOK, NEW a \in Actions, add_user_action(a)
    PROVE  /\ user_actions' \in [ActionIds -> Actions \cup {None}]
           /\ next_action_id' \in 1..(MaxActionId + 1)
           /\ next_action_id \in ActionIds
BY BoundAssumption DEF add_user_action, TypeOK, ActionIds

\* The Login action's effect record is well typed.
LEMMA LoginEffectsType ==
    ASSUME TypeOK, NEW listed \in [SyncedKinds -> RequestMap], NEW snapshot \in Snapshots
    PROVE  [NoEffects EXCEPT
              !.send = Replay \cup FcmFrame(fcm_token, TRUE),
              !.add = SyncAdds(listed),
              !.remove = SyncRemoves(listed),
              !.setHold = SyncHoldSets(snapshot),
              !.clearHold = SyncHoldClears(snapshot),
              !.sessions = {"List"}] \in EffectsType
<1>1. Replay \cup FcmFrame(fcm_token, TRUE) \subseteq Frames
  BY ReplayType, FcmFrameType DEF TypeOK
<1>2. SyncAdds(listed) \subseteq Kinds \X Ids \X Bodies
  BY DEF SyncAdds, SyncedKinds
<1>3. SyncRemoves(listed) \subseteq Kinds \X Ids
  BY DEF SyncRemoves, SyncedKinds
<1>4. SyncHoldSets(snapshot) \subseteq Domains \X Reports
  BY DEF SyncHoldSets
<1>5. SyncHoldClears(snapshot) \subseteq Domains
  BY DEF SyncHoldClears
<1> QED  BY <1>1, <1>2, <1>3, <1>4, <1>5 DEF NoEffects, EffectsType

\* A queued answer, a queued link or session stop, and a dropped answer
\* keep the types; every host decision is one of the three.
LEMMA AnswerType ==
    ASSUME TypeOK, NEW a \in Actions, Answer(a)
    PROVE  TypeOK'
<1>1. add_user_action(a) /\ next_action_id <= MaxActionId
  BY DEF Answer, add_user_action
<1>2. [NoEffects EXCEPT !.send = ActionFrame(a),
                        !.minimize = a.id \in mobile_requests] \in EffectsType
  <2>1. ActionFrame(a) \in SUBSET Frames
    BY <1>1, ActionFrameType
  <2>2. (a.id \in mobile_requests) \in BOOLEAN
    OBVIOUS
  <2> QED  BY <2>1, <2>2, EffectsShape, Zenon
<1> QED  BY <1>1, <1>2, ReturnType, QueueType DEF Answer, finish_request, TypeOK

\* An answer that is dropped keeps the types.
LEMMA DropAnswerType ==
    ASSUME TypeOK, NEW id \in Ids, DropAnswer(id)
    PROVE  TypeOK'
<1>1. [NoEffects EXCEPT !.send = {}, !.minimize = id \in mobile_requests] \in EffectsType
  <2>1. {} \in SUBSET Frames
    OBVIOUS
  <2>2. (id \in mobile_requests) \in BOOLEAN
    OBVIOUS
  <2> QED  BY <2>1, <2>2, EffectsShape, Zenon
<1> QED  BY <1>1, ReturnType DEF DropAnswer, finish_request, TypeOK, queueVars

\* An action that answers no request keeps the types.
LEMMA QueueOnlyType ==
    ASSUME TypeOK, NEW a \in Actions, QueueOnly(a), mobile_requests' \subseteq Ids
    PROVE  TypeOK'
<1>1. add_user_action(a) /\ next_action_id <= MaxActionId
  BY DEF QueueOnly, add_user_action
<1>2. [NoEffects EXCEPT !.send = ActionFrame(a)] \in EffectsType
  BY <1>1, ActionFrameType, EffectsShape
<1> QED  BY <1>1, <1>2, ReturnType, QueueType DEF QueueOnly, TypeOK

\* Actions built from well-typed parts are actions.
LEMMA ActionType ==
    ASSUME NEW op \in {"Accept", "Cancel", "Link", "Stop"},
           NEW k \in AllKinds \cup {"Session"}, NEW id \in Ids, NEW p \in Payloads
    PROVE  Action(op, k, id, p) \in Actions
BY DEF Action, Actions

\* A host step queues an answer, drops one, queues an action that answers
\* no request, or changes neither the queue nor the requests.
LEMMA HostStepForms ==
    ASSUME TypeOK, HostStep
    PROVE  \/ \E a \in Actions : Answer(a)
           \/ \E id \in Ids : DropAnswer(id)
           \/ \E a \in Actions : QueueOnly(a) /\ mobile_requests' \subseteq Ids
           \/ \E id \in Ids : LoginAcceptedUnbound(id)
           \/ \E id \in Ids, m \in BOOLEAN : OpenOrSignLink(id, m)
           \/ \E t \in Tokens : RegisterFcmToken(t)
<1> USE KindsAssumption DEF Payloads, AllKinds
<1>1. ASSUME NEW id \in Ids, NEW bound \in BOOLEAN, LoginAccepted(id, bound)
      PROVE  \E a \in Actions : Answer(a)
  BY <1>1, ActionType DEF LoginAccepted
<1>2. ASSUME NEW id \in Ids, SignAccepted(id)
      PROVE  \E a \in Actions : Answer(a)
  BY <1>2, ActionType DEF SignAccepted
<1>3. ASSUME NEW id \in Ids, SignMessageAccepted(id)
      PROVE  (\E a \in Actions : Answer(a)) \/ DropAnswer(id)
  <2>1. CASE ~Signable(id)
    BY <1>3, <2>1 DEF SignMessageAccepted
  <2>2. CASE Signable(id)
    <3>1. requests["SignMessage"][id] \in Bodies
      BY <1>3, <2>2 DEF Signable, Held, TypeOK, RequestMap, SignMessageAccepted
    <3> QED  BY <1>3, <2>2, <3>1, ActionType DEF SignMessageAccepted
  <2> QED  BY <2>1, <2>2
<1>4. ASSUME NEW k \in Kinds, NEW id \in Ids, AnswerIfLive(k, id)
      PROVE  (\E a \in Actions : Answer(a)) \/ DropAnswer(id)
  BY <1>4, ActionType DEF AnswerIfLive
<1>5. ASSUME NEW k \in Kinds, NEW id \in Ids, Rejected(k, id)
      PROVE  \E a \in Actions : Answer(a)
  BY <1>5, ActionType DEF Rejected
<1>6. ASSUME NEW id \in Ids, StopSession(id)
      PROVE  \E a \in Actions : QueueOnly(a) /\ mobile_requests' \subseteq Ids
  BY <1>6, ActionType DEF StopSession, TypeOK
<1>7. ASSUME NEW id \in Ids, NEW m \in BOOLEAN, LoginLink(id, m)
      PROVE  \E a \in Actions : QueueOnly(a) /\ mobile_requests' \subseteq Ids
  <2>1. mobile_requests' \subseteq Ids
    BY <1>7 DEF LoginLink, NoteMobile, TypeOK
  <2> QED  BY <1>7, <2>1, ActionType DEF LoginLink
<1> QED
  BY <1>1, <1>2, <1>3, <1>4, <1>5, <1>6, <1>7
  DEF HostStep, SignMessageSigned, HostAnswered, HostAnsweredKinds

\* Every Input and server message keeps the types.
LEMMA TypeStep == TypeOK /\ [Next]_vars => TypeOK'
<1> SUFFICES ASSUME TypeOK, [Next]_vars PROVE TypeOK'
  OBVIOUS
<1>1. CASE Connected
  <2>1. [NoEffects EXCEPT !.send = {send(0, "Challenge", None)}] \in EffectsType
    BY EffectsShape, SendType
  <2> QED  BY <1>1, <2>1, ReturnType DEF Connected, TypeOK, queueVars
<1>2. CASE Disconnected
  BY <1>2, EffectsShape DEF Disconnected, TypeOK, queueVars
<1>3. CASE RecvIgnored
  BY <1>3, EffectsShape, ReturnType DEF RecvIgnored, TypeOK, core
<1>4. CASE RecvChallenge
  <2>1. [NoEffects EXCEPT !.send = {send(0, "Login", None)}] \in EffectsType
    BY EffectsShape, SendType
  <2> QED  BY <1>4, <2>1, ReturnType DEF RecvChallenge, TypeOK, core
<1>5. ASSUME NEW listed \in [SyncedKinds -> RequestMap], NEW snapshot \in Snapshots,
             RecvLogin(listed, snapshot)
      PROVE  TypeOK'
  <2>1. requests' \in [Kinds -> RequestMap]
    BY <1>5 DEF RecvLogin, Sync, RequestMap, TypeOK, SyncedKinds
  <2>2. holdings' \in HoldingsMap /\ reported' \in HoldingsMap
    BY <1>5 DEF RecvLogin, SyncHoldings, Meaning, HoldingsMap, TypeOK, Snapshots
  <2> QED  BY <1>5, <2>1, <2>2, LoginEffectsType, ReturnType DEF RecvLogin, TypeOK, queueVars
<1>6. ASSUME NEW id \in 0..MaxActionId, RecvUserAction(id)
      PROVE  TypeOK'
  BY <1>6, EffectsShape, ReturnType DEF RecvUserAction, TypeOK
<1>7. ASSUME NEW id \in 0..MaxActionId, RecvError(id)
      PROVE  TypeOK'
  <2> DEFINE refused == {i \in {id} : i \in ActionIds /\ user_actions[i] # None}
  <2>1. {user_actions[i] : i \in refused} \in SUBSET Actions
    BY DEF TypeOK
  <2>2. [NoEffects EXCEPT !.failed = {user_actions[i] : i \in refused}] \in EffectsType
    BY <2>1, EffectsShape
  <2> QED  BY <1>7, <2>2, ReturnType DEF RecvError, TypeOK
<1>8. ASSUME NEW event \in {"Created", "Removed"}, SessionNotification(event)
      PROVE  TypeOK'
  BY <1>8, EffectsShape, ReturnType DEF SessionNotification, TypeOK, core
<1>9. ASSUME NEW k \in Kinds, NEW id \in Ids, NEW body \in Bodies, RequestCreated(k, id, body)
      PROVE  TypeOK'
  <2>1. requests' \in [Kinds -> RequestMap]
    BY <1>9 DEF RequestCreated, TypeOK, RequestMap
  <2>2. [NoEffects EXCEPT !.add = {<<k, id, body>>}] \in EffectsType
    <3>1. {<<k, id, body>>} \in SUBSET (Kinds \X Ids \X Bodies)
      OBVIOUS
    <3> QED  BY <3>1, EffectsShape, Zenon
  <2> QED  BY <1>9, <2>1, <2>2, ReturnType DEF RequestCreated, TypeOK, queueVars
<1>10. ASSUME NEW k \in Kinds, NEW id \in Ids, RequestRemoved(k, id)
       PROVE  TypeOK'
  <2>1. requests' \in [Kinds -> RequestMap]
    BY <1>10 DEF RequestRemoved, TypeOK, RequestMap
  <2>2. [NoEffects EXCEPT !.remove = {<<k, id>>}] \in EffectsType
    <3>1. {<<k, id>>} \in SUBSET (Kinds \X Ids)
      OBVIOUS
    <3> QED  BY <3>1, EffectsShape, Zenon
  <2> QED  BY <1>10, <2>1, <2>2, ReturnType DEF RequestRemoved, TypeOK, queueVars
<1>11. ASSUME NEW d \in Domains, NEW report \in Reports \cup {Empty}, HoldingsUpdated(d, report)
       PROVE  TypeOK'
  <2>1. holdings' \in HoldingsMap /\ reported' \in HoldingsMap
    BY <1>11 DEF HoldingsUpdated, Meaning, TypeOK, HoldingsMap
  <2>2. CASE report = Empty
    BY <1>11, <2>1, <2>2, EffectsShape, ReturnType DEF HoldingsUpdated, TypeOK, queueVars
  <2>3. CASE report # Empty
    <3>1. [NoEffects EXCEPT !.setHold = {<<d, report>>}] \in EffectsType
      <4>1. {<<d, report>>} \in SUBSET (Domains \X Reports)
        BY <2>3
      <4> QED  BY <4>1, EffectsShape, Zenon
    <3> QED  BY <1>11, <2>1, <2>3, <3>1, ReturnType DEF HoldingsUpdated, TypeOK, queueVars
  <2> QED  BY <2>2, <2>3
<1>12. ASSUME NEW d \in Domains, HoldingsRemoved(d)
       PROVE  TypeOK'
  <2>1. holdings' \in HoldingsMap /\ reported' \in HoldingsMap
    BY <1>12 DEF HoldingsRemoved, TypeOK, HoldingsMap
  <2>2. [NoEffects EXCEPT !.clearHold = {e \in {d} : holdings[e] # None}] \in EffectsType
    BY EffectsShape
  <2> QED  BY <1>12, <2>1, <2>2, ReturnType DEF HoldingsRemoved, TypeOK, queueVars
<1>13. CASE HostStep
  <2>1. ASSUME NEW id \in Ids, LoginAcceptedUnbound(id) PROVE TypeOK'
    <3>1. Action("Cancel", "Login", id, "Nothing") \in Actions
      BY ActionType DEF AllKinds, Payloads
    <3>2. [NoEffects EXCEPT !.failed = {Action("Cancel", "Login", id, "Nothing")}] \in EffectsType
      BY <3>1, EffectsShape
    <3> QED  BY <2>1, <3>2, ReturnType DEF LoginAcceptedUnbound, TypeOK, core
  <2>2. ASSUME NEW id \in Ids, NEW m \in BOOLEAN, OpenOrSignLink(id, m) PROVE TypeOK'
    BY <2>2, EffectsShape, ReturnType DEF OpenOrSignLink, NoteMobile, TypeOK, queueVars
  <2>3. ASSUME NEW t \in Tokens, RegisterFcmToken(t) PROVE TypeOK'
    <3>1. FcmFrame(t, is_logged_in) \subseteq Frames
      BY SendType DEF FcmFrame
    <3>2. [NoEffects EXCEPT !.send = FcmFrame(t, is_logged_in)] \in EffectsType
      BY <3>1, EffectsShape
    <3> QED  BY <2>3, <3>2, ReturnType DEF RegisterFcmToken, TypeOK, queueVars
  <2> QED
    BY <1>13, <2>1, <2>2, <2>3, HostStepForms, AnswerType, DropAnswerType, QueueOnlyType
<1>14. CASE UNCHANGED vars
  BY <1>14 DEF vars, core, history, TypeOK
<1> QED
  BY <1>1, <1>2, <1>3, <1>4, <1>5, <1>6, <1>7, <1>8, <1>9, <1>10, <1>11, <1>12,
     <1>13, <1>14 DEF Next, ServerStep

\* Every field, effect and history variable of the machine keeps its type.
THEOREM TypeCorrect == Spec => []TypeOK
<1>1. Init => TypeOK
  <2>1. NoEffects \in EffectsType
    BY EffectsShape, Zenon
  <2>2. [k \in Kinds |-> [i \in Ids |-> None]] \in [Kinds -> RequestMap]
    BY DEF RequestMap
  <2>3. [d \in Domains |-> None] \in HoldingsMap
    BY DEF HoldingsMap
  <2>4. 1 \in 1..(MaxActionId + 1)
    BY BoundAssumption
  <2> QED  BY <2>1, <2>2, <2>3, <2>4 DEF Init, TypeOK
<1> QED  BY <1>1, TypeStep, PTL DEF Spec

-----------------------------------------------------------------------------
(* The screen is the state                                                 *)

\* Effects that add and remove nothing leave the screen alone.
LEMMA QuietReturn ==
    ASSUME TypeOK, NEW eff, Return(eff),
           eff.add = {}, eff.remove = {}, eff.setHold = {}, eff.clearHold = {}
    PROVE  shown' = shown /\ shown_holdings' = shown_holdings
<1>1. Screen(eff) = shown
  BY DEF Screen, TypeOK, RequestMap
<1>2. HoldingsScreen(eff) = shown_holdings
  BY DEF HoldingsScreen, TypeOK, HoldingsMap
<1> QED  BY <1>1, <1>2 DEF Return

\* No answer of the host touches the requests or the screen.
LEMMA QuietHostStep ==
    ASSUME TypeOK, HostStep
    PROVE  UNCHANGED <<shown, shown_holdings, requests, holdings, connected,
                       login_succeed, reported, settled>>
<1> USE DEF NoEffects
<1>1. ASSUME NEW a \in Actions, Answer(a)
      PROVE  UNCHANGED <<shown, shown_holdings, requests, holdings, connected,
                         login_succeed, reported, settled>>
  BY <1>1, QuietReturn DEF Answer, finish_request
<1>2. ASSUME NEW id \in Ids, DropAnswer(id)
      PROVE  UNCHANGED <<shown, shown_holdings, requests, holdings, connected,
                         login_succeed, reported, settled>>
  BY <1>2, QuietReturn DEF DropAnswer, finish_request
<1>3. ASSUME NEW a \in Actions, QueueOnly(a)
      PROVE  UNCHANGED <<shown, shown_holdings, requests, holdings, connected,
                         login_succeed, reported, settled>>
  BY <1>3, QuietReturn DEF QueueOnly
<1>4. ASSUME NEW id \in Ids, LoginAcceptedUnbound(id)
      PROVE  UNCHANGED <<shown, shown_holdings, requests, holdings, connected,
                         login_succeed, reported, settled>>
  BY <1>4, QuietReturn DEF LoginAcceptedUnbound, core
<1>5. ASSUME NEW id \in Ids, NEW m \in BOOLEAN, OpenOrSignLink(id, m)
      PROVE  UNCHANGED <<shown, shown_holdings, requests, holdings, connected,
                         login_succeed, reported, settled>>
  BY <1>5, QuietReturn DEF OpenOrSignLink
<1>6. ASSUME NEW t \in Tokens, RegisterFcmToken(t)
      PROVE  UNCHANGED <<shown, shown_holdings, requests, holdings, connected,
                         login_succeed, reported, settled>>
  BY <1>6, QuietReturn DEF RegisterFcmToken
<1> QED  BY HostStepForms, <1>1, <1>2, <1>3, <1>4, <1>5, <1>6

\* Every step changes the screen exactly as it changes the maps.
LEMMA ScreenStep == TypeOK /\ ScreenIsState /\ [Next]_vars => ScreenIsState'
<1> SUFFICES ASSUME TypeOK, ScreenIsState, [Next]_vars PROVE ScreenIsState'
  OBVIOUS
<1> USE DEF NoEffects, ScreenIsState
<1>1. CASE Connected
  BY <1>1, QuietReturn DEF Connected
<1>2. CASE Disconnected
  BY <1>2 DEF Disconnected
<1>3. CASE RecvIgnored
  BY <1>3, QuietReturn DEF RecvIgnored, core
<1>4. CASE RecvChallenge
  BY <1>4, QuietReturn DEF RecvChallenge, core
<1>5. ASSUME NEW listed \in [SyncedKinds -> RequestMap], NEW snapshot \in Snapshots,
             RecvLogin(listed, snapshot)
      PROVE  ScreenIsState'
  <2> DEFINE eff == effects'
  <2>1. /\ eff.add = SyncAdds(listed)
        /\ eff.remove = SyncRemoves(listed)
        /\ eff.setHold = SyncHoldSets(snapshot)
        /\ eff.clearHold = SyncHoldClears(snapshot)
        /\ shown' = Screen(eff)
        /\ shown_holdings' = HoldingsScreen(eff)
    BY <1>5 DEF RecvLogin, Return
  <2>2. ASSUME NEW k \in Kinds, NEW i \in Ids
        PROVE  shown'[k][i] = Sync(listed)[k][i]
    <3>1. CASE k \notin SyncedKinds
      <4>1. (~\E b \in Bodies : <<k, i, b>> \in eff.add) /\ <<k, i>> \notin eff.remove
        BY <2>1, <3>1 DEF SyncAdds, SyncRemoves
      <4> QED  BY <2>1, <3>1, <4>1 DEF Screen, Sync
    <3>2. CASE k \in SyncedKinds /\ listed[k][i] = None
      <4>1. ~\E b \in Bodies : <<k, i, b>> \in eff.add
        BY <2>1, <3>2, NoneAssumption DEF SyncAdds
      <4>2. <<k, i>> \in eff.remove \/ requests[k][i] = None
        BY <2>1, <3>2 DEF SyncRemoves, Held
      <4> QED  BY <2>1, <3>2, <4>1, <4>2 DEF Screen, Sync
    <3>3. CASE k \in SyncedKinds /\ listed[k][i] # None /\ Held(k, i)
      <4>1. (~\E b \in Bodies : <<k, i, b>> \in eff.add) /\ <<k, i>> \notin eff.remove
        BY <2>1, <3>3 DEF SyncAdds, SyncRemoves
      <4> QED  BY <2>1, <3>3, <4>1 DEF Screen, Sync
    <3>4. CASE k \in SyncedKinds /\ listed[k][i] # None /\ ~Held(k, i)
      <4>1. listed[k][i] \in Bodies
        BY <3>4 DEF RequestMap
      <4>2. \A b \in Bodies : <<k, i, b>> \in eff.add <=> b = listed[k][i]
        BY <2>1, <3>4 DEF SyncAdds
      <4> QED  BY <2>1, <3>4, <4>1, <4>2 DEF Screen, Sync
    <3> QED  BY <3>1, <3>2, <3>3, <3>4
  <2>3. ASSUME NEW d \in Domains
        PROVE  shown_holdings'[d] = SyncHoldings(snapshot)[d]
    <3>0. snapshot[d] \in Reports \cup {None, Empty}
      BY DEF Snapshots
    <3>1. CASE snapshot[d] = None
      <4>1. ~\E r \in Reports : <<d, r>> \in eff.setHold
        BY <2>1, <3>1, NoneAssumption DEF SyncHoldSets
      <4>2. d \in eff.clearHold \/ holdings[d] = None
        BY <2>1, <3>1 DEF SyncHoldClears
      <4> QED  BY <2>1, <3>1, <4>1, <4>2, NoneAssumption DEF HoldingsScreen, SyncHoldings
    <3>2. CASE snapshot[d] = Empty
      <4>1. ~\E r \in Reports : <<d, r>> \in eff.setHold
        BY <2>1, <3>2, NoneAssumption DEF SyncHoldSets
      <4>2. d \notin eff.clearHold
        BY <2>1, <3>2, NoneAssumption DEF SyncHoldClears
      <4> QED  BY <2>1, <3>2, <4>1, <4>2 DEF HoldingsScreen, SyncHoldings
    <3>3. CASE snapshot[d] \in Reports
      <4>1. \A r \in Reports : <<d, r>> \in eff.setHold <=> r = snapshot[d]
        BY <2>1, <3>3 DEF SyncHoldSets
      <4> QED  BY <2>1, <3>3, <4>1, NoneAssumption DEF HoldingsScreen, SyncHoldings
    <3> QED  BY <3>0, <3>1, <3>2, <3>3
  <2>4. shown' = requests'
    <3>1. requests' = Sync(listed)
      BY <1>5 DEF RecvLogin
    <3>2. shown' \in [Kinds -> RequestMap] /\ requests' \in [Kinds -> RequestMap]
      BY <1>5, TypeStep DEF TypeOK, Next, ServerStep
    <3> QED  BY <2>2, <3>1, <3>2 DEF RequestMap
  <2>5. shown_holdings' = holdings'
    <3>1. holdings' = SyncHoldings(snapshot)
      BY <1>5 DEF RecvLogin
    <3>2. shown_holdings' \in HoldingsMap /\ holdings' \in HoldingsMap
      BY <1>5, TypeStep DEF TypeOK, Next, ServerStep
    <3> QED  BY <2>3, <3>1, <3>2 DEF HoldingsMap
  <2> QED  BY <2>4, <2>5
<1>6. ASSUME NEW id \in 0..MaxActionId, RecvUserAction(id) \/ RecvError(id)
      PROVE  ScreenIsState'
  BY <1>6, QuietReturn DEF RecvUserAction, RecvError
<1>7. ASSUME NEW event \in {"Created", "Removed"}, SessionNotification(event)
      PROVE  ScreenIsState'
  BY <1>7, QuietReturn DEF SessionNotification, core
<1>8. ASSUME NEW k \in Kinds, NEW id \in Ids, NEW body \in Bodies, RequestCreated(k, id, body)
      PROVE  ScreenIsState'
  <2>1. shown' = requests'
    <3>1. /\ shown' = Screen(effects')
          /\ effects'.add = {<<k, id, body>>} /\ effects'.remove = {}
          /\ requests' = [requests EXCEPT ![k][id] = body]
      BY <1>8 DEF RequestCreated, Return
    <3>2. \A kk \in Kinds, i \in Ids :
             shown'[kk][i] = IF kk = k /\ i = id THEN body ELSE requests[kk][i]
      BY <3>1 DEF Screen
    <3> QED  BY <3>1, <3>2 DEF Screen, TypeOK, RequestMap
  <2>2. shown_holdings' = shown_holdings /\ holdings' = holdings
    BY <1>8 DEF RequestCreated, Return, HoldingsScreen, TypeOK, HoldingsMap
  <2> QED  BY <2>1, <2>2
<1>9. ASSUME NEW k \in Kinds, NEW id \in Ids, RequestRemoved(k, id)
      PROVE  ScreenIsState'
  <2>1. shown' = requests'
    <3>1. /\ shown' = Screen(effects')
          /\ effects'.add = {} /\ effects'.remove = {<<k, id>>}
          /\ requests' = [requests EXCEPT ![k][id] = None]
      BY <1>9 DEF RequestRemoved, Return
    <3>2. \A kk \in Kinds, i \in Ids :
             shown'[kk][i] = IF kk = k /\ i = id THEN None ELSE requests[kk][i]
      BY <3>1 DEF Screen
    <3> QED  BY <3>1, <3>2 DEF Screen, TypeOK, RequestMap
  <2>2. shown_holdings' = shown_holdings /\ holdings' = holdings
    BY <1>9 DEF RequestRemoved, Return, HoldingsScreen, TypeOK, HoldingsMap
  <2> QED  BY <2>1, <2>2
<1>10. ASSUME NEW d \in Domains, NEW report \in Reports \cup {Empty}, HoldingsUpdated(d, report)
       PROVE  ScreenIsState'
  <2>1. shown' = shown /\ requests' = requests
    BY <1>10 DEF HoldingsUpdated, Return, Screen, TypeOK, RequestMap
  <2>2. shown_holdings' = holdings'
    BY <1>10, NoneAssumption DEF HoldingsUpdated, Return, HoldingsScreen, Meaning, TypeOK, HoldingsMap
  <2> QED  BY <2>1, <2>2
<1>11. ASSUME NEW d \in Domains, HoldingsRemoved(d)
       PROVE  ScreenIsState'
  <2>1. shown' = shown /\ requests' = requests
    BY <1>11 DEF HoldingsRemoved, Return, Screen, TypeOK, RequestMap
  <2>2. shown_holdings' = holdings'
    BY <1>11 DEF HoldingsRemoved, Return, HoldingsScreen, TypeOK, HoldingsMap
  <2> QED  BY <2>1, <2>2
<1>12. CASE HostStep
  BY <1>12, QuietHostStep
<1>13. CASE UNCHANGED vars
  BY <1>13 DEF vars, core, history
<1> QED
  BY <1>1, <1>2, <1>3, <1>4, <1>5, <1>6, <1>7, <1>8, <1>9, <1>10, <1>11, <1>12,
     <1>13 DEF Next, ServerStep

\* ScreenIsState for every number of kinds, requests, domains and actions:
\* the effects handed to the host always reproduce the maps the core acts on.
THEOREM ScreenCorrect == Spec => []ScreenIsState
<1>1. Init => ScreenIsState
  BY DEF Init, ScreenIsState
<1> QED  BY <1>1, ScreenStep, TypeCorrect, PTL DEF Spec

-----------------------------------------------------------------------------
(* The action queue                                                        *)

\* What makes the queue properties inductive: a login needs a connection,
\* only ids already handed out are settled, and nothing is left on the wire
\* of a connection that is gone.
QueueAux ==
    /\ login_succeed => connected
    /\ \A i \in settled : i < next_action_id
    /\ ~connected => wire = {}

\* The inductive invariant of the pending queue.
QueueInv ==
    /\ QueueAux
    /\ NoActionLost
    /\ ReplayComplete
    /\ ReplayFaithful
    /\ PushTokenRegistered

\* A step that touches neither the queue nor the connection and puts no
\* user action on the wire preserves the queue invariant.
LEMMA QuietQueue ==
    ASSUME TypeOK, QueueInv,
           UNCHANGED <<connected, login_succeed, user_actions, next_action_id,
                       fcm_token, settled>>,
           wire \subseteq wire',
           \A f \in wire' \ wire : f.req # "UserAction",
           ~connected => wire' = {}
    PROVE  QueueInv'
<1>1. QueueAux'
  BY DEF QueueInv, QueueAux
<1>2. NoActionLost'
  BY DEF QueueInv, NoActionLost
<1>3. ReplayComplete'
  BY DEF QueueInv, ReplayComplete
<1>4. ReplayFaithful'
  BY DEF QueueInv, ReplayFaithful
<1>5. PushTokenRegistered'
  BY DEF QueueInv, PushTokenRegistered, is_logged_in
<1> QED  BY <1>1, <1>2, <1>3, <1>4, <1>5 DEF QueueInv

\* Queueing an action, with its frame if there is a connection.
LEMMA QueueAdd ==
    ASSUME TypeOK, QueueInv, NEW a \in Actions, add_user_action(a),
           wire' = wire \cup ActionFrame(a),
           UNCHANGED <<connected, login_succeed, fcm_token, settled>>
    PROVE  QueueInv'
<1>1. /\ next_action_id \in ActionIds /\ next_action_id' = next_action_id + 1
      /\ user_actions' = [user_actions EXCEPT ![next_action_id] = a]
      /\ next_action_id \in Nat
  BY QueueType DEF add_user_action, ActionIds, TypeOK
<1>2. a # None
  BY NoneAssumption
<1>3. QueueAux'
  BY <1>1 DEF QueueInv, QueueAux, ActionFrame, TypeOK, ActionIds
<1>4. NoActionLost'
  <2>1. next_action_id \notin settled
    BY <1>1 DEF QueueInv, QueueAux
  <2> QED  BY <1>1, <1>2, <2>1 DEF QueueInv, NoActionLost, TypeOK, ActionIds
<1>5. ReplayComplete'
  <2>1. login_succeed => send(next_action_id, "UserAction", a) \in wire'
    BY DEF QueueInv, QueueAux, ActionFrame
  <2> QED  BY <1>1, <2>1 DEF QueueInv, ReplayComplete, TypeOK
<1>6. ReplayFaithful'
  <2>1. ASSUME NEW f \in wire', f.req = "UserAction"
        PROVE  f.id \in 1..(next_action_id' - 1) /\ user_actions'[f.id] \in {f.arg, None}
    <3>1. CASE f \in wire
      BY <1>1, <2>1, <3>1 DEF QueueInv, ReplayFaithful, TypeOK, ActionIds
    <3>2. CASE f \notin wire
      <4>1. f = send(next_action_id, "UserAction", a)
        BY <3>2 DEF ActionFrame
      <4> QED  BY <1>1, <4>1 DEF send, TypeOK, ActionIds
    <3> QED  BY <3>1, <3>2
  <2> QED  BY <2>1 DEF ReplayFaithful
<1>7. PushTokenRegistered'
  BY DEF QueueInv, PushTokenRegistered, is_logged_in
<1> QED  BY <1>3, <1>4, <1>5, <1>6, <1>7 DEF QueueInv

\* An answer of the server takes exactly its own id off the queue.
LEMMA QueueSettle ==
    ASSUME TypeOK, QueueInv, NEW id \in 0..MaxActionId,
           user_actions' = [i \in ActionIds |-> IF i = id THEN None ELSE user_actions[i]],
           settled' = settled \cup {i \in {id} : i \in ActionIds /\ user_actions[i] # None},
           UNCHANGED <<connected, login_succeed, next_action_id, fcm_token, wire>>
    PROVE  QueueInv'
<1>1. QueueAux'
  BY DEF QueueInv, QueueAux, NoActionLost
<1>2. NoActionLost'
  BY DEF QueueInv, NoActionLost, TypeOK
<1>3. ReplayComplete'
  BY DEF QueueInv, ReplayComplete
<1>4. ReplayFaithful'
  BY BoundAssumption DEF QueueInv, ReplayFaithful, TypeOK, ActionIds
<1>5. PushTokenRegistered'
  BY DEF QueueInv, PushTokenRegistered, is_logged_in
<1> QED  BY <1>1, <1>2, <1>3, <1>4, <1>5 DEF QueueInv

\* Every step keeps the queue invariant.
LEMMA QueueStep == TypeOK /\ QueueInv /\ [Next]_vars => QueueInv'
<1> SUFFICES ASSUME TypeOK, QueueInv, [Next]_vars PROVE QueueInv'
  OBVIOUS
<1> USE DEF NoEffects
<1>1. CASE Connected
  <2>1. /\ wire = {} /\ ~login_succeed /\ ~login_succeed' /\ connected'
        /\ wire' = {send(0, "Challenge", None)}
        /\ UNCHANGED <<user_actions, next_action_id, settled, fcm_token>>
    BY <1>1 DEF Connected, Return, QueueInv, QueueAux, queueVars
  <2>2. QueueAux' /\ NoActionLost' /\ ReplayComplete' /\ PushTokenRegistered'
    BY <2>1 DEF QueueInv, QueueAux, NoActionLost, ReplayComplete, PushTokenRegistered, is_logged_in
  <2>3. ReplayFaithful'
    BY <2>1 DEF ReplayFaithful, send
  <2> QED  BY <2>2, <2>3 DEF QueueInv
<1>2. CASE Disconnected
  BY <1>2 DEF Disconnected, QueueInv, QueueAux, NoActionLost, ReplayComplete,
              ReplayFaithful, PushTokenRegistered, is_logged_in, queueVars
<1>3. CASE RecvIgnored \/ RecvChallenge
  BY <1>3, QuietQueue DEF RecvIgnored, RecvChallenge, Return, core, send
<1>4. ASSUME NEW listed \in [SyncedKinds -> RequestMap], NEW snapshot \in Snapshots,
             RecvLogin(listed, snapshot)
      PROVE  QueueInv'
  <2>1. /\ connected /\ connected' /\ login_succeed'
        /\ wire' = wire \cup (Replay \cup FcmFrame(fcm_token, TRUE))
        /\ UNCHANGED <<user_actions, next_action_id, settled, fcm_token>>
    BY <1>4 DEF RecvLogin, Return, queueVars
  <2>2. QueueAux' /\ NoActionLost'
    BY <2>1 DEF QueueInv, QueueAux, NoActionLost
  <2>3. ReplayComplete'
    BY <2>1 DEF ReplayComplete, Replay
  <2>4. PushTokenRegistered'
    BY <2>1 DEF PushTokenRegistered, FcmFrame
  <2>5. ReplayFaithful'
    <3>1. ASSUME NEW f \in Replay
          PROVE  f.id \in 1..(next_action_id - 1) /\ user_actions[f.id] \in {f.arg, None}
      <4>1. PICK j \in ActionIds : user_actions[j] # None /\ f = send(j, "UserAction", user_actions[j])
        BY DEF Replay
      <4> QED  BY <4>1 DEF send, QueueInv, NoActionLost, ActionIds, TypeOK
    <3>2. ASSUME NEW f \in FcmFrame(fcm_token, TRUE)
          PROVE  f.req # "UserAction"
      BY DEF FcmFrame, send
    <3> QED  BY <2>1, <3>1, <3>2 DEF QueueInv, ReplayFaithful
  <2> QED  BY <2>2, <2>3, <2>4, <2>5 DEF QueueInv
<1>5. ASSUME NEW id \in 0..MaxActionId, RecvUserAction(id)
      PROVE  QueueInv'
  <2>1. wire' = wire
    BY <1>5 DEF RecvUserAction, Return
  <2> QED  BY <1>5, <2>1, QueueSettle DEF RecvUserAction
<1>6. ASSUME NEW id \in 0..MaxActionId, RecvError(id)
      PROVE  QueueInv'
  <2>1. wire' = wire
    BY <1>6 DEF RecvError, Return
  <2> QED  BY <1>6, <2>1, QueueSettle DEF RecvError
<1>7. ASSUME NEW event \in {"Created", "Removed"}, SessionNotification(event)
      PROVE  QueueInv'
  BY <1>7, QuietQueue DEF SessionNotification, Return, core
<1>8. ASSUME NEW k \in Kinds, NEW id \in Ids, NEW body \in Bodies,
             RequestCreated(k, id, body)
      PROVE  QueueInv'
  BY <1>8, QuietQueue DEF RequestCreated, Return, queueVars
<1>9. ASSUME NEW k \in Kinds, NEW id \in Ids, RequestRemoved(k, id)
      PROVE  QueueInv'
  BY <1>9, QuietQueue DEF RequestRemoved, Return, queueVars
<1>10. ASSUME NEW d \in Domains, NEW report \in Reports \cup {Empty}, HoldingsUpdated(d, report)
       PROVE  QueueInv'
  BY <1>10, QuietQueue DEF HoldingsUpdated, Return, queueVars
<1>11. ASSUME NEW d \in Domains, HoldingsRemoved(d)
       PROVE  QueueInv'
  BY <1>11, QuietQueue DEF HoldingsRemoved, Return, queueVars
<1>12. CASE HostStep
  <2>1. ASSUME NEW a \in Actions, Answer(a) PROVE QueueInv'
    BY <2>1, QueueAdd DEF Answer, finish_request, Return
  <2>2. ASSUME NEW id \in Ids, DropAnswer(id) PROVE QueueInv'
    <3>1. wire' = wire
      BY <2>2 DEF DropAnswer, finish_request, Return
    <3> QED  BY <2>2, <3>1, QuietQueue DEF DropAnswer, queueVars, QueueInv, QueueAux
  <2>3. ASSUME NEW a \in Actions, QueueOnly(a) PROVE QueueInv'
    BY <2>3, QueueAdd DEF QueueOnly, Return
  <2>4. ASSUME NEW id \in Ids, LoginAcceptedUnbound(id) PROVE QueueInv'
    <3>1. wire' = wire
      BY <2>4 DEF LoginAcceptedUnbound, Return
    <3> QED  BY <2>4, <3>1, QuietQueue DEF LoginAcceptedUnbound, core, QueueInv, QueueAux
  <2>5. ASSUME NEW id \in Ids, NEW m \in BOOLEAN, OpenOrSignLink(id, m) PROVE QueueInv'
    <3>1. wire' = wire
      BY <2>5 DEF OpenOrSignLink, Return
    <3> QED  BY <2>5, <3>1, QuietQueue DEF OpenOrSignLink, queueVars, QueueInv, QueueAux
  <2>6. ASSUME NEW t \in Tokens, RegisterFcmToken(t) PROVE QueueInv'
    <3>1. /\ wire' = wire \cup FcmFrame(t, is_logged_in) /\ fcm_token' = t
          /\ UNCHANGED <<connected, login_succeed, user_actions, next_action_id, settled>>
      BY <2>6 DEF RegisterFcmToken, Return, queueVars
    <3>2. FcmFrame(t, is_logged_in) \subseteq {send(0, "RegisterFcm", t)}
      BY DEF FcmFrame
    <3>3. is_logged_in => send(0, "RegisterFcm", t) \in wire'
      BY <3>1, NoneAssumption DEF FcmFrame
    <3>4. ~connected => wire' = {}
      BY <3>1 DEF FcmFrame, is_logged_in, QueueInv, QueueAux
    <3>5. QueueAux' /\ NoActionLost' /\ ReplayComplete'
      BY <3>1, <3>4 DEF QueueInv, QueueAux, NoActionLost, ReplayComplete
    <3>6. ReplayFaithful'
      BY <3>1, <3>2 DEF QueueInv, ReplayFaithful, send
    <3>7. PushTokenRegistered'
      BY <3>1, <3>3 DEF PushTokenRegistered, is_logged_in
    <3> QED  BY <3>5, <3>6, <3>7 DEF QueueInv
  <2> QED  BY <1>12, HostStepForms, <2>1, <2>2, <2>3, <2>4, <2>5, <2>6
<1>13. CASE UNCHANGED vars
  BY <1>13, QuietQueue DEF vars, core, history, QueueInv, QueueAux
<1> QED
  BY <1>1, <1>2, <1>3, <1>4, <1>5, <1>6, <1>7, <1>8, <1>9, <1>10, <1>11, <1>12,
     <1>13 DEF Next, ServerStep

\* The queue invariant holds throughout.
LEMMA QueueInvariant == Spec => []QueueInv
<1>1. Init => QueueInv
  <2>1. Init => QueueAux /\ ReplayComplete /\ ReplayFaithful /\ PushTokenRegistered
    BY DEF Init, QueueAux, ReplayComplete, ReplayFaithful, PushTokenRegistered, is_logged_in
  <2>2. Init => NoActionLost
    BY DEF Init, NoActionLost, ActionIds
  <2> QED  BY <2>1, <2>2 DEF QueueInv
<1> QED  BY <1>1, QueueStep, TypeCorrect, PTL DEF Spec

\* NoActionLost for any number of actions and any interleaving of connects,
\* disconnects, logins and answers: a queued approval leaves the queue only
\* when the server has answered that very id.
THEOREM ActionsAreKept == Spec => []NoActionLost
BY QueueInvariant, PTL DEF QueueInv

\* ReplayComplete: after a login every pending action is on this connection's wire.
THEOREM ReplayCorrect == Spec => []ReplayComplete
BY QueueInvariant, PTL DEF QueueInv

\* ReplayFaithful: every user-action frame of this connection carries the action that
\* was queued under its id.
THEOREM ReplayIsFaithful == Spec => []ReplayFaithful
BY QueueInvariant, PTL DEF QueueInv

\* PushTokenRegistered, in whichever order login and registration come.
THEOREM PushTokenCorrect == Spec => []PushTokenRegistered
BY QueueInvariant, PTL DEF QueueInv

-----------------------------------------------------------------------------
(* Acceptances                                                             *)

NewAccept(i) ==
    user_actions[i] = None /\ user_actions'[i] # None /\ user_actions'[i].op = "Accept"

\* An acceptance enters the queue only through `Answer`.
LEMMA AcceptIsAnswered ==
    ASSUME TypeOK, [Next]_vars, NEW i \in ActionIds, NewAccept(i)
    PROVE  HostStep /\ add_user_action(user_actions'[i])
<1>1. user_actions' # user_actions
  BY DEF NewAccept
<1>2. ~\E id \in 0..MaxActionId : RecvUserAction(id) \/ RecvError(id)
  BY DEF NewAccept, RecvUserAction, RecvError
<1>3. HostStep
  BY <1>1, <1>2 DEF Next, ServerStep, vars, core, queueVars, Connected, Disconnected, RecvIgnored,
     RecvChallenge, RecvLogin, SessionNotification, RequestCreated, RequestRemoved,
     HoldingsUpdated, HoldingsRemoved
<1>4. \E a \in Actions : add_user_action(a)
  BY <1>1, <1>3, HostStepForms DEF Answer, QueueOnly, DropAnswer, LoginAcceptedUnbound,
     OpenOrSignLink, RegisterFcmToken, queueVars, core
<1> QED  BY <1>3, <1>4 DEF add_user_action, NewAccept, TypeOK

\* A step that queues an acceptance queues one of what is shown.
LEMMA AcceptStep ==
    ASSUME TypeOK, ScreenIsState, [Next]_vars, NEW i \in ActionIds, NewAccept(i)
    PROVE  OnScreen(user_actions'[i])
<1> DEFINE a == user_actions'[i]
<1>0. HostStep /\ add_user_action(a) /\ a.op = "Accept" /\ user_actions' # user_actions
  BY AcceptIsAnswered DEF NewAccept
<1>1. ASSUME NEW b \in Actions, add_user_action(b) PROVE b = a
  <2>1. next_action_id \in ActionIds
    BY <1>1, QueueType
  <2> QED  BY <1>0, <1>1, <2>1 DEF add_user_action, TypeOK
<1>q. ASSUME NEW b \in Actions, Answer(b) \/ QueueOnly(b) PROVE b = a
  BY <1>q, <1>1 DEF Answer, QueueOnly
<1>d. ~\E id \in Ids : DropAnswer(id) \/ LoginAcceptedUnbound(id)
  BY <1>0 DEF DropAnswer, LoginAcceptedUnbound, queueVars, core
<1> USE KindsAssumption DEF AllKinds, Payloads
<1>2. ASSUME NEW id \in Ids, NEW bound \in BOOLEAN, LoginAccepted(id, bound)
      PROVE  OnScreen(a)
  <2>1. a = Action("Accept", "Login", id, IF bound THEN "Bound" ELSE "Unbound")
    BY <1>2, <1>q, ActionType DEF LoginAccepted
  <2>2. ~bound => requests["Login"][id] \notin BindingBodies
    BY <1>2, BodiesAssumption, NoneAssumption DEF LoginAccepted, BindingWanted, Held
  <2> QED  BY <2>1, <2>2 DEF Action, OnScreen, ScreenIsState
<1>3. ASSUME NEW id \in Ids, SignAccepted(id)
      PROVE  OnScreen(a)
  <2>1. a = Action("Accept", "Sign", id, "FromHost")
    BY <1>3, <1>q, ActionType DEF SignAccepted
  <2> QED  BY <2>1 DEF Action, OnScreen
<1>4. ASSUME NEW id \in Ids, SignMessageAccepted(id)
      PROVE  OnScreen(a)
  <2>1. Signable(id) /\ Answer(Action("Accept", "SignMessage", id, requests["SignMessage"][id]))
    BY <1>4, <1>d DEF SignMessageAccepted
  <2>2. requests["SignMessage"][id] \in Bodies /\ requests["SignMessage"][id] \notin MalformedBodies
    BY <1>4, <2>1 DEF Signable, Held, TypeOK, RequestMap, SignMessageAccepted
  <2>3. a = Action("Accept", "SignMessage", id, requests["SignMessage"][id])
    BY <2>1, <2>2, <1>q, ActionType
  <2> QED  BY <2>2, <2>3, NoneAssumption DEF Action, OnScreen, ScreenIsState
<1>5. ASSUME NEW k \in Kinds \ {"Login", "Sign"}, NEW id \in Ids, AnswerIfLive(k, id)
      PROVE  OnScreen(a)
  <2>1. Held(k, id) /\ Answer(Action("Accept", k, id, "FromHost"))
    BY <1>5, <1>d DEF AnswerIfLive
  <2>2. a = Action("Accept", k, id, "FromHost")
    BY <2>1, <1>q, ActionType
  <2> QED  BY <2>1, <2>2 DEF Action, OnScreen, Held, ScreenIsState
<1>6. ASSUME NEW k \in Kinds, NEW id \in Ids, Rejected(k, id)
      PROVE  FALSE
  <2>1. a = Action("Cancel", k, id, "Nothing")
    BY <1>6, <1>q, ActionType DEF Rejected
  <2> QED  BY <1>0, <2>1 DEF Action
<1>7. ASSUME NEW id \in Ids, StopSession(id)
      PROVE  FALSE
  <2>1. a = Action("Stop", "Session", id, "Nothing")
    BY <1>7, <1>q, ActionType DEF StopSession
  <2> QED  BY <1>0, <2>1 DEF Action
<1>8. ASSUME NEW id \in Ids, NEW m \in BOOLEAN,
             LoginLink(id, m) \/ OpenOrSignLink(id, m)
      PROVE  FALSE
  <2>1. ~OpenOrSignLink(id, m)
    BY <1>0 DEF OpenOrSignLink, queueVars
  <2>2. a = Action("Link", "Login", id, "Nothing")
    BY <1>8, <2>1, <1>q, ActionType DEF LoginLink
  <2> QED  BY <1>0, <2>2 DEF Action
<1>9. ASSUME NEW t \in Tokens, RegisterFcmToken(t)
      PROVE  FALSE
  BY <1>0, <1>9 DEF RegisterFcmToken, queueVars
<1>10. CASE \E k \in HostAnsweredKinds, id \in Ids : HostAnswered(k, id)
  <2>1. HostAnsweredKinds \subseteq Kinds \ {"Login", "Sign"}
    BY DEF HostAnsweredKinds
  <2> QED  BY <1>5, <1>10, <2>1 DEF HostAnswered
<1>11. CASE \E id \in Ids : SignMessageSigned(id)
  BY <1>5, <1>11 DEF SignMessageSigned
<1> QED
  BY <1>0, <1>d, <1>2, <1>3, <1>4, <1>6, <1>7, <1>8, <1>9, <1>10, <1>11 DEF HostStep

\* AcceptsWhatIsShown for every request, body and number of actions: whatever
\* is created, replaced, removed or synced between showing a request and its
\* approval, an acceptance that is queued matches the screen at that moment.
THEOREM AcceptsCorrect == Spec => AcceptsWhatIsShown
<1>1. TypeOK /\ ScreenIsState /\ [Next]_vars =>
         [\A i \in ActionIds :
             (user_actions[i] = None /\ user_actions'[i] # None
                 /\ user_actions'[i].op = "Accept") => OnScreen(user_actions'[i])]_vars
  BY AcceptStep DEF NewAccept
<1> QED  BY <1>1, TypeCorrect, ScreenCorrect, PTL DEF Spec, AcceptsWhatIsShown

-----------------------------------------------------------------------------
(* Holdings                                                                *)

\* HoldingsAreLastReport, provided the login snapshot carries no empty report:
\* under that assumption about the server the core's entry for a domain is
\* always the RP's last report.
THEOREM HoldingsCorrect ==
    ASSUME SnapshotMayBeEmpty = FALSE
    PROVE  Spec => []HoldingsAreLastReport
<1>1. Init => HoldingsAreLastReport
  BY DEF Init, HoldingsAreLastReport
<1>2. TypeOK /\ HoldingsAreLastReport /\ [Next]_vars => HoldingsAreLastReport'
  <2> SUFFICES ASSUME TypeOK, HoldingsAreLastReport, [Next]_vars PROVE holdings' = reported'
    BY DEF HoldingsAreLastReport
  <2>1. ASSUME NEW listed \in [SyncedKinds -> RequestMap], NEW snapshot \in Snapshots,
               RecvLogin(listed, snapshot)
        PROVE  holdings' = reported'
    <3>1. \A d \in Domains : snapshot[d] # Empty
      BY NoneAssumption DEF Snapshots
    <3> QED  BY <2>1, <3>1 DEF RecvLogin, SyncHoldings, Meaning
  <2>2. ASSUME NEW d \in Domains, NEW report \in Reports \cup {Empty}, HoldingsUpdated(d, report)
        PROVE  holdings' = reported'
    BY <2>2 DEF HoldingsUpdated, HoldingsAreLastReport
  <2>3. ASSUME NEW d \in Domains, HoldingsRemoved(d)
        PROVE  holdings' = reported'
    BY <2>3 DEF HoldingsRemoved, HoldingsAreLastReport
  <2>4. CASE HostStep
    BY <2>4, QuietHostStep DEF HoldingsAreLastReport
  <2>5. CASE ~HostStep /\ UNCHANGED <<holdings, reported>>
    BY <2>5 DEF HoldingsAreLastReport
  <2> QED
    BY <2>1, <2>2, <2>3, <2>4, <2>5 DEF Next, ServerStep, vars, core, history, Connected,
       Disconnected, RecvIgnored, RecvChallenge, RecvUserAction, RecvError,
       SessionNotification, RequestCreated, RequestRemoved
<1> QED  BY <1>1, <1>2, TypeCorrect, PTL DEF Spec

=============================================================================
