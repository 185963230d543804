-------------------------- MODULE TransportProofs --------------------------
(***************************************************************************)
(* The actor of transport.rs for any inputs, channel bound and delays.     *)
(***************************************************************************)
EXTENDS Transport, TLAPS

USE DelayAssumption, MaxInputsAssumption

\* Each step of the actor, of its handle and of the network keeps the types,
\* and doubling the delay keeps it within its two bounds.
LEMMA ActorTypeStep == ActorTypeOK /\ [ActorNext \/ Stopped]_actorVars => ActorTypeOK'
<1> SUFFICES ASSUME ActorTypeOK, [ActorNext \/ Stopped]_actorVars
             PROVE  ActorTypeOK'
  OBVIOUS
<1> USE DEF ActorTypeOK
<1>1. CASE \E input \in Inputs : HandleSend(input)
  <2>1. PICK input \in Inputs : HandleSend(input)
    BY <1>1
  <2>2. inputs' \in Seq(Inputs)
    BY <2>1 DEF HandleSend
  <2> QED
    BY <2>1, <2>2 DEF HandleSend
<1>2. CASE HandleDrop
  BY <1>2 DEF HandleDrop
<1>3. CASE ConnectFail
  BY <1>3 DEF ConnectFail
<1>4. CASE ConnectOk
  BY <1>4 DEF ConnectOk
<1>5. CASE Wake
  <2>1. Doubled \in RECONNECT_MIN..RECONNECT_MAX
    BY DEF Doubled
  <2>2. idle' \in Nat
    BY <1>5 DEF Wake
  <2> QED
    BY <1>5, <2>1, <2>2 DEF Wake
<1>6. CASE TakeInput
  <2>1. inputs' \in Seq(Inputs)
    BY <1>6 DEF TakeInput
  <2> QED
    BY <1>6, <2>1 DEF TakeInput
<1>7. CASE Stop
  BY <1>7 DEF Stop
<1>8. CASE ConnectionLost
  BY <1>8 DEF ConnectionLost
<1>9. CASE SocketDies
  BY <1>9 DEF SocketDies
<1>10. CASE Stopped \/ UNCHANGED actorVars
  BY <1>10 DEF Stopped, actorVars
<1> QED
  BY <1>1, <1>2, <1>3, <1>4, <1>5, <1>6, <1>7, <1>8, <1>9, <1>10 DEF ActorNext

\* The delay between attempts stays within RECONNECT_MIN and RECONNECT_MAX and
\* the rest of the actor's state keeps its type.
THEOREM ActorTypeCorrect == ActorSpec => []ActorTypeOK
<1>1. ActorInit => ActorTypeOK
  BY DEF ActorInit, ActorTypeOK
<1> QED
  BY <1>1, ActorTypeStep, PTL DEF ActorSpec

\* What ties the delay to the time slept: below the cap the delay is the
\* shortest one plus that time, and online nothing has been slept.
BackoffInv ==
    /\ phase \in {"Connecting", "Sleeping"} =>
          delay = RECONNECT_MAX \/ delay = RECONNECT_MIN + idle
    /\ phase \in {"Online"} => delay = RECONNECT_MIN /\ idle = 0

\* The doubling of the delay follows the time spent waiting, whatever the two
\* bounds are, and a successful connection resets both.
THEOREM BackoffCorrect == ActorSpec => []BackoffFollowsWaiting
<1>1. ActorInit => BackoffInv
  BY DEF ActorInit, BackoffInv
<1>2. ActorTypeOK /\ BackoffInv /\ [ActorNext \/ Stopped]_actorVars => BackoffInv'
  <2> SUFFICES ASSUME ActorTypeOK, BackoffInv, [ActorNext \/ Stopped]_actorVars
               PROVE  BackoffInv'
    OBVIOUS
  <2>1. CASE Wake
    <3>1. /\ delay' = Doubled /\ phase' = "Connecting"
          /\ delay = RECONNECT_MAX \/ delay = RECONNECT_MIN + idle
          /\ delay \in RECONNECT_MIN..RECONNECT_MAX /\ idle \in Nat
          /\ idle' = IF idle + delay > 2 * RECONNECT_MAX
                     THEN 2 * RECONNECT_MAX ELSE idle + delay
      BY <2>1 DEF Wake, ActorTypeOK, BackoffInv
    <3>2. CASE delay' = RECONNECT_MAX
      BY <3>1, <3>2 DEF BackoffInv
    <3>3. CASE delay' # RECONNECT_MAX
      <4>1. delay' = 2 * delay /\ 2 * delay < RECONNECT_MAX
        BY <3>1, <3>3 DEF Doubled
      <4>2. delay = RECONNECT_MIN + idle /\ idle' = idle + delay
        BY <3>1, <4>1
      <4> QED
        BY <3>1, <4>1, <4>2 DEF BackoffInv
    <3> QED
      BY <3>2, <3>3
  <2>2. CASE ConnectOk
    BY <2>2 DEF ConnectOk, BackoffInv
  <2>3. CASE ~Wake /\ ~ConnectOk
    BY <2>3 DEF ActorTypeOK, BackoffInv, ActorNext, Stopped, actorVars, HandleSend, HandleDrop,
         ConnectFail, TakeInput, Stop, ConnectionLost, SocketDies
  <2> QED
    BY <2>1, <2>2, <2>3
<1>3. BackoffInv => BackoffFollowsWaiting
  BY DEF BackoffInv, BackoffFollowsWaiting
<1> QED
  BY <1>1, <1>2, <1>3, ActorTypeCorrect, PTL DEF ActorSpec

=============================================================================
