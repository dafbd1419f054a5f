------------------------------ MODULE TimerSet ------------------------------
(***************************************************************************)
(* What SP_IocpEventHeap promises its callers: a set of armed events, each *)
(* with a deadline, of which any may be cancelled and the one to expire    *)
(* next is one with the earliest deadline.                                 *)
(***************************************************************************)
EXTENDS Naturals

CONSTANTS Items, Times

VARIABLES
    armed,          \* [item |-> an event, due |-> its deadline]
    expired         \* the event the last call took out as the next to expire

IsArmed(i) == \E a \in armed : a.item = i

Arm(i, t) ==
    /\ ~IsArmed(i)
    /\ armed' = armed \cup {[item |-> i, due |-> t]}
    /\ expired' = {}
Cancel(i) ==
    /\ armed' = {a \in armed : a.item # i}
    /\ expired' = {}
Expire(i) ==
    \E a \in armed :
        /\ a.item = i /\ \A b \in armed : a.due <= b.due
        /\ armed' = armed \ {a}
        /\ expired' = {i}

TimerSetInit == armed = {} /\ expired = {}
TimerSetNext == \E i \in Items : Cancel(i) \/ Expire(i) \/ \E t \in Times : Arm(i, t)
TimerSetSpec == TimerSetInit /\ [][TimerSetNext]_<<armed, expired>>
=============================================================================
