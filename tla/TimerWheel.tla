----------------------------- MODULE TimerWheel ------------------------------
(***************************************************************************)
(* The hashed timer wheel `Wheel' of timer/queue.rs: wakes within one turn *)
(* of the wheel hang in the bucket of their time modulo the turn, the      *)
(* others wait in `later' until an update moves them.  A bucket keeps only *)
(* the low bits of a wake's time, so a wake hung a turn too early fires a  *)
(* turn too early, and one moved too late fires a turn too late.           *)
(*                                                                         *)
(* The worker schedules a cookie only when the wheel does not hold it, so  *)
(* that a bucket is a set, and cancels a wake the wheel holds only by the  *)
(* time it was asked for; WakeQueue_proofs proves both (OneTokenHolds and  *)
(* CancelsOwnWakeHolds).                                                   *)
(***************************************************************************)
EXTENDS Integers

CONSTANTS Cookies,
          BUCKET_MS,        \* 8 in the code
          WHEEL_MS,         \* one turn of the wheel: 2^17 in the code
          UPDATE_INTERVAL,  \* how often `later' is looked through: half a turn
          Start,            \* the wheel's time when the worker starts
          MaxTime           \* bound: no wake is asked for after this time

ASSUME TimerWheelAssumption ==
    /\ BUCKET_MS \in Nat \ {0}
    /\ WHEEL_MS \in Nat \ {0} /\ WHEEL_MS % BUCKET_MS = 0
    /\ UPDATE_INTERVAL \in 1..WHEEL_MS /\ UPDATE_INTERVAL % BUCKET_MS = 0
    /\ Start \in Nat /\ Start % BUCKET_MS = 0
    /\ MaxTime \in Nat

VARIABLES now, soon, later, ret
vars == <<now, soon, later, ret>>

Buckets  == 0 .. (WHEEL_MS \div BUCKET_MS) - 1
Wake     == [when : 0..MaxTime, cookie : Cookies]
WakeSoon == [offset : 0..BUCKET_MS - 1, cookie : Cookies]
Call(op, arg, out) == [op |-> op, arg |-> arg, out |-> out]

BucketIdx(when) == (when % WHEEL_MS) \div BUCKET_MS
Soon(w) == [offset |-> w.when % BUCKET_MS, cookie |-> w.cookie]

MutTooFar(when) == when - now > WHEEL_MS
TooFar(when) == when - now >= WHEEL_MS

(* `at' is the wheel's time when the wake is hung. *)
ClampAt(w, at) == [w EXCEPT !.when = IF @ < at THEN at ELSE @]

(* The buckets `s' with the wakes `ws' hung in them at time `at'. *)
Hang(s, ws, at) ==
    [b \in Buckets |->
        s[b] \cup {Soon(ClampAt(w, at)) : w \in
                    {v \in ws : BucketIdx(ClampAt(v, at).when) = b}}]

Init ==
    /\ now = Start
    /\ soon = [b \in Buckets |-> {}]
    /\ later = {}
    /\ ret = Call("new", {}, {})

(* The time a bucket's entry stands for: the only time of the coming turn  *)
(* with the entry's low bits.                                              *)
TimeOf(b, e) == now + ((b * BUCKET_MS + e.offset - now) % WHEEL_MS)

Pending ==
    later \cup UNION {{[when |-> TimeOf(b, e), cookie |-> e.cookie] : e \in soon[b]}
                      : b \in Buckets}

Holds(c) == \/ \E b \in Buckets : \E e \in soon[b] : e.cookie = c
            \/ \E w \in later : w.cookie = c

Schedule(w) ==
    /\ ~Holds(w.cookie)
    /\ LET v == ClampAt(w, now)
       IN IF TooFar(v.when)
          THEN later' = later \cup {v} /\ UNCHANGED soon
          ELSE soon' = Hang(soon, {v}, now) /\ UNCHANGED later
    /\ ret' = Call("schedule", {w}, {})
    /\ UNCHANGED now

Cancel(w) ==
    /\ \A v \in Pending : v.cookie = w.cookie => v.when = w.when \/ w.when < now
    /\ LET b == BucketIdx(w.when)
           inSoon  == w.when >= now /\ Soon(w) \in soon[b]
           inLater == w.when >= now /\ ~inSoon /\ w \in later
       IN /\ soon'  = IF inSoon THEN [soon EXCEPT ![b] = @ \ {Soon(w)}] ELSE soon
          /\ later' = IF inLater THEN later \ {w} ELSE later
          /\ ret' = Call("cancel", {w}, {inSoon \/ inLater})
    /\ UNCHANGED now

(* The wakes of `later' that an update at time t brings into the wheel. *)
Reachable(t) == {w \in later : w.when < t + WHEEL_MS}

Advance ==
    LET b     == BucketIdx(now)
        next  == now + BUCKET_MS
        moved == IF next % UPDATE_INTERVAL = 0 THEN Reachable(next) ELSE {}
    IN /\ now' = next
       /\ soon' = Hang([soon EXCEPT ![b] = {}], moved, next)
       /\ later' = later \ moved
       /\ ret' = Call("advance", {},
                       {[when |-> now + e.offset, cookie |-> e.cookie] :
                           e \in soon[b]})

Next ==
    \/ \E w \in Wake : Schedule(w) \/ Cancel(w)
    \/ now < MaxTime + WHEEL_MS /\ Advance

Spec == Init /\ [][Next]_vars

-----------------------------------------------------------------------------

TypeOK ==
    /\ now \in Nat
    /\ soon \in [Buckets -> SUBSET WakeSoon]
    /\ later \subseteq Wake
    /\ ret.op \in {"new", "schedule", "cancel", "advance"}
    /\ ret.op = "advance" => ret.out \subseteq [when : Nat, cookie : Cookies]

(* No matter how wakes far ahead, wakes in the past and cancellations are  *)
(* mixed, the buckets, with their truncated times, behave as a set of      *)
(* wakes with full times: every advance fires exactly the wakes due in its *)
(* bucket and every cancellation finds exactly the wake it names           *)
(* (Wheel::schedule, cancel, advance).                                     *)
Abstract == INSTANCE WheelSpec WITH Times <- 0..MaxTime, pending <- Pending
ImplementsWheelSpec == Abstract!Spec
=============================================================================
