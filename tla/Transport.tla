------------------------------ MODULE Transport ------------------------------
(***************************************************************************)
(* The tokio actor of lc-wallet-core/src/transport.rs: the connect loop    *)
(* with its backoff, the select loop of a connection, and the handle that  *)
(* feeds inputs in.  What the inputs and frames do to the core is left to  *)
(* WalletSession, which composes these steps with WalletCore's.            *)
(***************************************************************************)
EXTENDS Naturals, Sequences

CONSTANTS
    Inputs,         \* what a handle may send
    MaxInputs,      \* bound on the inputs waiting in the (unbounded) channel
    RECONNECT_MIN,  \* seconds
    RECONNECT_MAX

ASSUME DelayAssumption ==
    /\ RECONNECT_MIN \in Nat \ {0} /\ RECONNECT_MAX \in Nat
    /\ RECONNECT_MIN <= RECONNECT_MAX
ASSUME MaxInputsAssumption == MaxInputs \in Nat

VARIABLES
    phase,        \* where the actor is in `run`
    delay,        \* the next sleep between connection attempts
    inputs,       \* input_rx
    handle_open,  \* is some WalletConnect handle still alive?
    sock,         \* the WebSocket: "none", "open", or "dead" but not yet noticed
    idle          \* history: seconds slept since the last successful connect

actorVars == <<phase, delay, inputs, handle_open, sock, idle>>

ActorInit ==
    /\ phase = "Connecting" /\ delay = RECONNECT_MIN
    /\ inputs = <<>> /\ handle_open = TRUE
    /\ sock = "none" /\ idle = 0

-----------------------------------------------------------------------------
(* The handle                                                              *)

\* Any method of WalletConnect: the input goes into the channel.
HandleSend(input) ==
    /\ handle_open
    /\ Len(inputs) < MaxInputs
    /\ inputs' = Append(inputs, input)
    /\ UNCHANGED <<phase, delay, handle_open, sock, idle>>

\* The integration drops its last clone of the handle.
HandleDrop ==
    /\ handle_open
    /\ handle_open' = FALSE
    /\ UNCHANGED <<phase, delay, inputs, sock, idle>>

-----------------------------------------------------------------------------
(* The actor                                                               *)

ConnectFail ==
    /\ phase = "Connecting"
    /\ phase' = "Sleeping"
    /\ UNCHANGED <<delay, inputs, handle_open, sock, idle>>

\* Fault: a successful connection does not reset the delay.
ConnectOkKeepsDelay ==
    /\ phase = "Connecting"
    /\ phase' = "Online" /\ sock' = "open"
    /\ idle' = 0
    /\ UNCHANGED <<delay, inputs, handle_open>>

ConnectOk ==
    /\ phase = "Connecting"
    /\ phase' = "Online" /\ sock' = "open"
    /\ delay' = RECONNECT_MIN
    /\ idle' = 0
    /\ UNCHANGED <<inputs, handle_open>>

\* Fault: the doubling is not capped.
DoubledUncapped == 2 * delay

\* (delay * 2).min(RECONNECT_MAX)
Doubled == IF 2 * delay < RECONNECT_MAX THEN 2 * delay ELSE RECONNECT_MAX

\* The sleep after a failed attempt or a lost connection is over.
Wake ==
    /\ phase = "Sleeping"
    /\ phase' = "Connecting"
    /\ delay' = Doubled
    /\ idle' = IF idle + delay > 2 * RECONNECT_MAX THEN 2 * RECONNECT_MAX ELSE idle + delay
    /\ UNCHANGED <<inputs, handle_open, sock>>

\* The select loop takes the oldest input.
TakeInput ==
    /\ phase = "Online"
    /\ inputs # <<>>
    /\ inputs' = Tail(inputs)
    /\ UNCHANGED <<phase, delay, handle_open, sock, idle>>

\* Fault: a closed channel is read as "nothing to do".
StopIgnored ==
    /\ phase = "Online"
    /\ inputs = <<>> /\ ~handle_open
    /\ UNCHANGED actorVars

\* input_rx.recv() yields None: no handle is left and the channel is empty.
Stop ==
    /\ phase = "Online"
    /\ inputs = <<>> /\ ~handle_open
    /\ phase' = "Stopped" /\ sock' = "none"
    /\ UNCHANGED <<delay, inputs, handle_open, idle>>

\* The end of the stream, a read error, or a ping or frame that cannot be
\* sent: 'connected is left and the actor sleeps.
ConnectionLost ==
    /\ phase = "Online"
    /\ sock = "dead"
    /\ phase' = "Sleeping" /\ sock' = "none"
    /\ UNCHANGED <<delay, inputs, handle_open, idle>>

\* Environment: the network or the server ends the connection.
SocketDies ==
    /\ sock = "open"
    /\ sock' = "dead"
    /\ UNCHANGED <<phase, delay, inputs, handle_open, idle>>

-----------------------------------------------------------------------------

ActorNext ==
    \/ \E input \in Inputs : HandleSend(input)
    \/ HandleDrop
    \/ ConnectFail \/ ConnectOk \/ Wake
    \/ TakeInput \/ Stop
    \/ ConnectionLost \/ SocketDies

\* A stopped actor takes no step.
Stopped == phase = "Stopped" /\ UNCHANGED actorVars

ActorSpec == ActorInit /\ [][ActorNext \/ Stopped]_actorVars

\* The runtime keeps polling the actor: connect_async returns, sleeps end, a
\* dead socket is noticed (at the latest by the ping), and select!, which
\* polls its branches in random order, does not ignore a ready one forever.
ActorFairness ==
    /\ WF_actorVars(ConnectOk \/ ConnectFail)
    /\ WF_actorVars(Wake)
    /\ WF_actorVars(ConnectionLost)
    /\ SF_actorVars(TakeInput)
    /\ SF_actorVars(Stop)

FairActorSpec == ActorSpec /\ ActorFairness

\* As above, and the server can be reached again and again.
ReachableActorSpec == FairActorSpec /\ SF_actorVars(ConnectOk)

-----------------------------------------------------------------------------
(* Properties                                                              *)

\* The actor's state is well typed; the delay stays within the two bounds.
ActorTypeOK ==
    /\ phase \in {"Connecting", "Sleeping", "Online", "Stopped"}
    /\ delay \in RECONNECT_MIN..RECONNECT_MAX
    /\ inputs \in Seq(Inputs)
    /\ handle_open \in BOOLEAN
    /\ sock \in {"none", "open", "dead"}
    /\ idle \in Nat

\* Backoff and waiting time go together: until the cap is reached, the sleep
\* before the next attempt is the shortest one plus the time spent sleeping
\* since the last successful connection, however many of those there were.
BackoffFollowsWaiting ==
    delay = RECONNECT_MAX \/ (phase \in {"Connecting", "Sleeping"} => delay = RECONNECT_MIN + idle)

\* "Dropping it stops the actor": once the last handle is gone the actor
\* handles what is left in the channel and returns.
DropStops == ~handle_open ~> phase = "Stopped"

=============================================================================
