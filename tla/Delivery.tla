------------------------------- MODULE Delivery -------------------------------
(***************************************************************************)
(* What the person is promised of an answer, whatever connections do: it   *)
(* is carried out at most once and never after it was reported as failed,  *)
(* one request is answered once, and an answer is reported as settled only *)
(* with what really became of it, or as failed if the word that it was     *)
(* carried out was lost on the way.                                        *)
(***************************************************************************)
EXTENDS Naturals, Sequences

CONSTANT Answers    \* [kind, id, ...] records: what may be answered

VARIABLES
    queue,      \* the answers given, in order
    outcome,    \* what the wallet says of each: "pending", "done", "failed"
    carried,    \* the positions of the answers that were carried out
    unheard     \* those of which word was lost

promised == <<queue, outcome, carried, unheard>>

SameRequest(i, j) == queue[i].kind = queue[j].kind /\ queue[i].id = queue[j].id

NothingPromised == queue = <<>> /\ outcome = <<>> /\ carried = {} /\ unheard = {}

Give(a) ==
    /\ queue' = Append(queue, a)
    /\ outcome' = Append(outcome, "pending")
    /\ UNCHANGED <<carried, unheard>>

CarryOut(i) ==
    /\ outcome[i] = "pending"
    /\ \A j \in carried : ~SameRequest(i, j)
    /\ carried' = carried \cup {i}
    /\ UNCHANGED <<queue, outcome, unheard>>

LoseWord(lost) ==
    /\ unheard' = unheard \cup lost
    /\ UNCHANGED <<queue, outcome, carried>>

Settle(i, verdict) ==
    /\ outcome[i] = "pending"
    /\ verdict = "done" => i \in carried
    /\ verdict = "failed" => i \notin carried \/ i \in unheard
    /\ outcome' = [outcome EXCEPT ![i] = verdict]
    /\ UNCHANGED <<queue, carried, unheard>>

Promise ==
    NothingPromised /\
    [][\/ \E a \in Answers : Give(a)
       \/ \E i \in DOMAIN queue :
             CarryOut(i) \/ \E verdict \in {"done", "failed"} : Settle(i, verdict)
       \/ \E lost \in SUBSET carried : LoseWord(lost)]_promised

===============================================================================
