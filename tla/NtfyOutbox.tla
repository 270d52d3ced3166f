----------------------------- MODULE NtfyOutbox -----------------------------
(***************************************************************************)
(* What the notification queue promises, without slots, tasks, locks,      *)
(* retries or clocks: a bounded set of messages with a priority, from      *)
(* which a message goes only                                               *)
(*   - when the server has confirmed it, or                                *)
(*   - in favour of ONE new message of at least its priority.              *)
(***************************************************************************)
EXTENDS Naturals, FiniteSets

CONSTANTS Msgs, NoMsg, Prios, Capacity

VARIABLES
    box,        \* the messages owed to the user, each with its priority
    confirmed   \* a message the server has just confirmed, or NoMsg

vars == <<box, confirmed>>

Entry == [msg : Msgs, prio : Prios]

TypeOK ==
    /\ box \subseteq Entry
    /\ Cardinality(box) <= Capacity
    /\ confirmed \in Msgs \cup {NoMsg}

Init == box = {} /\ confirmed = NoMsg

Submit(m, p) ==
    /\ \E gone \in {{}} \cup {{e} : e \in box} :
          /\ \A e \in gone : e.prio <= p
          /\ \A e \in box \ gone : e.msg # m
          /\ box' = (box \ gone) \cup {[msg |-> m, prio |-> p]}
    /\ Cardinality(box') <= Capacity
    /\ UNCHANGED confirmed

Confirm(m) ==
    /\ confirmed = NoMsg
    /\ confirmed' = m
    /\ UNCHANGED box

\* A confirmed message leaves, or has left already, or stays (and may be sent
\* again): delivery is at least once.
Retire ==
    /\ confirmed # NoMsg
    /\ confirmed' = NoMsg
    /\ box' \in {box, {e \in box : e.msg # confirmed}}

Next ==
    \/ \E m \in Msgs, p \in Prios : Submit(m, p)
    \/ \E m \in Msgs : Confirm(m)
    \/ Retire

Spec == Init /\ [][Next]_vars
=============================================================================
