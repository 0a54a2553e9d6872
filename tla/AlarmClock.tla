----------------------------- MODULE AlarmClock ------------------------------
(***************************************************************************)
(* What `WakeQueue' of timer/queue.rs promises to the server: a callback   *)
(* given a time rings at most once, never before its time, and never after *)
(* it was cancelled.  There are no threads, channels or cookies here.      *)
(***************************************************************************)
EXTENDS Integers

CONSTANTS Reasons,     \* the callbacks ever scheduled, each of them once
          Times        \* the times they may be asked for

VARIABLES clock,       \* the time of day
          used,        \* the callbacks scheduled so far
          armed,       \* the callbacks waiting, with their times
          rung         \* the callbacks that have run

Alarm == [reason : Reasons, time : Times]

Init ==
    /\ clock \in Nat
    /\ used = {} /\ armed = {} /\ rung = {}

Set(r, t) ==
    /\ r \notin used
    /\ used' = used \cup {r}
    /\ armed' = armed \cup {[reason |-> r, time |-> t]}
    /\ UNCHANGED <<clock, rung>>

Cancel(a) ==
    /\ a \in armed
    /\ armed' = armed \ {a}
    /\ UNCHANGED <<clock, used, rung>>

Ring(a) ==
    /\ a \in armed
    /\ a.time < clock
    /\ armed' = armed \ {a}
    /\ rung' = rung \cup {a.reason}
    /\ UNCHANGED <<clock, used>>

Tick ==
    /\ clock' = clock + 1
    /\ UNCHANGED <<used, armed, rung>>

Next ==
    \/ \E r \in Reasons, t \in Times : Set(r, t)
    \/ \E a \in Alarm : Cancel(a) \/ Ring(a)
    \/ Tick

Spec == Init /\ [][Next]_<<clock, used, armed, rung>>
=============================================================================
