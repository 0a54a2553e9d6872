------------------------------ MODULE WheelSpec ------------------------------
(***************************************************************************)
(* What the timer wheel of timer/queue.rs promises to the thread that owns *)
(* it, without the buckets: a set of pending wakes, and a logical time     *)
(* `now' that advances one bucket at a time.  TimerWheel implements this   *)
(* module with the hashed buckets of the code; WakeQueue uses it as its    *)
(* wheel.                                                                  *)
(***************************************************************************)
EXTENDS Integers

CONSTANTS Cookies,     \* the numbers a wake can be known by
          Times,       \* the times a wake can be asked for
          BUCKET_MS    \* how much time one tick of the wheel covers

VARIABLES now,         \* the wheel's logical time
          pending,     \* the wakes waiting in the wheel
          ret          \* the worker's last call, and what it returned

Wake == [when : Times, cookie : Cookies]

(* The call of an operation `op' with argument `arg' that returned `out'.   *)
Call(op, arg, out) == [op |-> op, arg |-> arg, out |-> out]
NoCall == Call("new", {}, {})

(* A wake that is already overdue fires with the next bucket. *)
Clamp(when) == IF when < now THEN now ELSE when

Schedule(w) ==
    /\ pending' = pending \cup {[w EXCEPT !.when = Clamp(w.when)]}
    /\ UNCHANGED now

(* Whether a cancellation finds its wake.  A wake asked for at a time that *)
(* has passed is not found, even while it still waits in the current       *)
(* bucket.                                                                 *)
Hits(w) == w.when >= now /\ w \in pending

Cancel(w) ==
    /\ pending' = IF Hits(w) THEN pending \ {w} ELSE pending
    /\ UNCHANGED now

Due == {w \in pending : w.when < now + BUCKET_MS}

Advance ==
    /\ pending' = pending \ Due
    /\ now' = now + BUCKET_MS

-----------------------------------------------------------------------------

Init == now \in Nat /\ pending = {} /\ ret = NoCall

Next ==
    \/ \E w \in Wake : Schedule(w) /\ ret' = Call("schedule", {w}, {})
    \/ \E w \in Wake : Cancel(w) /\ ret' = Call("cancel", {w}, {Hits(w)})
    \/ Advance /\ ret' = Call("advance", {}, Due)

Spec == Init /\ [][Next]_<<now, pending, ret>>
=============================================================================
