------------------------------ MODULE WakeQueue ------------------------------
(***************************************************************************)
(* The wake queue of timer/queue.rs: the main thread, which schedules,     *)
(* cancels and retrieves, and `timer_worker', which owns the wheel.  They  *)
(* share nothing but two channels: commands to the worker, and cookies     *)
(* back.                                                                   *)
(*                                                                         *)
(* A cookie is the index of the item in an IdMap and is used again as soon *)
(* as the item is retrieved.  Everything below therefore hangs on one      *)
(* fact: an item has one token - its Schedule command, its wake in the     *)
(* wheel or in the bucket being sent, or its cookie on the way back - and  *)
(* no token outlives its item.                                             *)
(*                                                                         *)
(* cancel() takes any cookie at any time: the callers keep cookies of      *)
(* their own (see EntityTimers).                                           *)
(***************************************************************************)
EXTENDS Integers, Sequences

CONSTANTS NumCookies,  \* 2^COOKIE_BITS in the code
          Reasons,     \* the callbacks the server schedules, each once
          Times,       \* the times it asks for
          BUCKET_MS,
          LastRequest, \* bound: nothing is scheduled or cancelled after it
          LastTime,    \* bound: the time of day stops here
          MaxCommands  \* bound: commands waiting in the channel

ASSUME WakeQueueAssumption ==
    /\ NumCookies \in Nat /\ Times \subseteq Nat
    /\ BUCKET_MS \in Nat \ {0}
    /\ LastRequest \in Nat /\ LastTime \in Nat /\ MaxCommands \in Nat

VARIABLES
    clock,             \* util::now()
    items,             \* main: WakeQueue.items
    commands,          \* channel to the worker
    cookies,           \* channel back to the main thread
    phase,             \* worker: waiting for a tick, draining, or sending
    wnow, wheel,       \* worker: the wheel
    bucket,            \* worker: what advance() returned and is not yet sent
    used, rung         \* history: callbacks scheduled, callbacks run

mainVars   == <<items, used, rung>>
workerVars == <<phase, wnow, wheel, bucket>>
vars == <<clock, mainVars, commands, cookies, workerVars>>

Cookies == 0 .. NumCookies - 1
NoItem  == [time |-> -1, cancelled |-> FALSE, reason |-> "none"]
Live    == {c \in Cookies : items[c] # NoItem}

Wheel == INSTANCE WheelSpec WITH now <- wnow, pending <- wheel, ret <- bucket

Wake    == [when : Times, cookie : Cookies]
Command == [op : {"Schedule", "Cancel"}, wake : Wake]

Send(op, when, c) ==
    commands' = Append(commands, [op |-> op, wake |-> [when |-> when, cookie |-> c]])

Init ==
    /\ clock \in 0 .. BUCKET_MS - 1
    /\ items = [c \in Cookies |-> NoItem]
    /\ commands = <<>> /\ cookies = <<>>
    /\ phase = "wait" /\ wnow = 0 /\ wheel = {} /\ bucket = {}
    /\ used = {} /\ rung = {}

-----------------------------------------------------------------------------
(* The main thread.                                                        *)

(* IdMap::insert takes the smallest number that is free. *)
IsFree(c) == c \notin Live /\ \A d \in 0 .. c - 1 : d \in Live

Schedule(r, when) ==
    /\ r \notin used
    /\ clock <= LastRequest /\ Len(commands) < MaxCommands
    /\ \E c \in Cookies :
        /\ IsFree(c)
        /\ items' = [items EXCEPT ![c] =
                        [time |-> when, cancelled |-> FALSE, reason |-> r]]
        /\ Send("Schedule", when, c)
    /\ used' = used \cup {r}
    /\ UNCHANGED <<clock, rung, cookies, workerVars>>

Cancel(c) ==
    /\ c \in Live
    /\ clock <= LastRequest /\ Len(commands) < MaxCommands
    /\ Send("Cancel", items[c].time, c)
    /\ items' = [items EXCEPT ![c].cancelled = TRUE]
    /\ UNCHANGED <<clock, used, rung, cookies, workerVars>>

MutRetrieve ==       \* the cancelled flag is not looked at
    /\ cookies # <<>>
    /\ items' = [items EXCEPT ![Head(cookies)] = NoItem]
    /\ rung' = rung \cup ({items[Head(cookies)].reason} \ {"none"})
    /\ cookies' = Tail(cookies)
    /\ UNCHANGED <<clock, used, commands, workerVars>>

(* The callback runs unless its item was cancelled; a cookie without an    *)
(* item is ignored.                                                        *)
Retrieve ==
    /\ cookies # <<>>
    /\ LET c == Head(cookies)
       IN /\ items' = [items EXCEPT ![c] = NoItem]
          /\ rung' = IF c \in Live /\ ~items[c].cancelled
                     THEN rung \cup {items[c].reason} ELSE rung
    /\ cookies' = Tail(cookies)
    /\ UNCHANGED <<clock, used, commands, workerVars>>

-----------------------------------------------------------------------------
(* The worker.                                                             *)

WakeUp ==
    /\ phase = "wait"
    /\ clock >= wnow + BUCKET_MS
    /\ phase' = "drain"
    /\ UNCHANGED <<clock, mainVars, commands, cookies, wnow, wheel, bucket>>

MutDrainSchedule ==  \* the wheel rounds the time up to a whole bucket
    /\ phase = "drain" /\ commands # <<>> /\ Head(commands).op = "Schedule"
    /\ LET up == ((Head(commands).wake.when + BUCKET_MS - 1) \div BUCKET_MS) * BUCKET_MS
       IN Wheel!Schedule([Head(commands).wake EXCEPT !.when = up])
    /\ commands' = Tail(commands)
    /\ UNCHANGED <<clock, mainVars, cookies, phase, bucket>>

DrainSchedule ==
    /\ phase = "drain" /\ commands # <<>> /\ Head(commands).op = "Schedule"
    /\ Wheel!Schedule(Head(commands).wake)
    /\ commands' = Tail(commands)
    /\ UNCHANGED <<clock, mainVars, cookies, phase, bucket>>

MutDrainCancelSends ==   \* the cookie comes back even when nothing was found
    /\ phase = "drain" /\ commands # <<>> /\ Head(commands).op = "Cancel"
    /\ Wheel!Cancel(Head(commands).wake)
    /\ cookies' = Append(cookies, Head(commands).wake.cookie)
    /\ commands' = Tail(commands)
    /\ UNCHANGED <<clock, mainVars, phase, bucket>>

MutDrainCancelKeeps ==   \* the cookie of a cancelled wake does not come back
    /\ phase = "drain" /\ commands # <<>> /\ Head(commands).op = "Cancel"
    /\ Wheel!Cancel(Head(commands).wake)
    /\ commands' = Tail(commands)
    /\ UNCHANGED <<clock, mainVars, phase, bucket, cookies>>

(* A cancellation that finds its wake returns the cookie at once. *)
DrainCancel ==
    /\ phase = "drain" /\ commands # <<>> /\ Head(commands).op = "Cancel"
    /\ Wheel!Cancel(Head(commands).wake)
    /\ cookies' = IF Wheel!Hits(Head(commands).wake)
                  THEN Append(cookies, Head(commands).wake.cookie) ELSE cookies
    /\ commands' = Tail(commands)
    /\ UNCHANGED <<clock, mainVars, phase, bucket>>

Advance ==
    /\ phase = "drain" /\ commands = <<>>
    /\ Wheel!Advance
    /\ bucket' = Wheel!Due
    /\ phase' = "send"
    /\ UNCHANGED <<clock, mainVars, commands, cookies>>

SendWake(w) ==
    /\ phase = "send" /\ w \in bucket
    /\ \A v \in bucket : w.when <= v.when
    /\ cookies' = Append(cookies, w.cookie)
    /\ bucket' = bucket \ {w}
    /\ UNCHANGED <<clock, mainVars, commands, phase, wnow, wheel>>

Sent ==
    /\ phase = "send" /\ bucket = {}
    /\ phase' = "wait"
    /\ UNCHANGED <<clock, mainVars, commands, cookies, wnow, wheel, bucket>>

Worker == \/ WakeUp \/ DrainSchedule \/ DrainCancel \/ Advance
          \/ (\E w \in bucket : SendWake(w)) \/ Sent

-----------------------------------------------------------------------------

Tick ==
    /\ clock < LastTime
    /\ clock' = clock + 1
    /\ UNCHANGED <<mainVars, commands, cookies, workerVars>>

Next ==
    \/ \E r \in Reasons, when \in Times : Schedule(r, when)
    \/ \E c \in Cookies : Cancel(c)
    \/ Retrieve
    \/ Worker
    \/ Tick

(* Time passes, the worker's loop runs on, and the main loop selects over  *)
(* the timer's channel.                                                    *)
Fairness == WF_vars(Tick) /\ WF_vars(Worker) /\ WF_vars(Retrieve)

Spec == Init /\ [][Next]_vars
FairSpec == Spec /\ Fairness

-----------------------------------------------------------------------------

Item == [time : Times, cancelled : BOOLEAN, reason : Reasons]

TypeOK ==
    /\ clock \in Nat
    /\ items \in [Cookies -> Item \cup {NoItem}]
    /\ commands \in Seq(Command)
    /\ cookies \in Seq(Cookies)
    /\ phase \in {"wait", "drain", "send"}
    /\ wnow \in Nat
    /\ wheel \subseteq [when : Nat, cookie : Cookies]
    /\ bucket \subseteq [when : Nat, cookie : Cookies]
    /\ used \subseteq Reasons /\ rung \subseteq Reasons

ScheduleAt(i, c) ==
    i \in 1 .. Len(commands)
        /\ commands[i].op = "Schedule" /\ commands[i].wake.cookie = c
CancelAt(i, c) ==
    i \in 1 .. Len(commands)
        /\ commands[i].op = "Cancel" /\ commands[i].wake.cookie = c

Commanded(c) == \E i \in 1 .. Len(commands) : ScheduleAt(i, c)
InWheel(c)   == \E w \in wheel : w.cookie = c
InBucket(c)  == \E w \in bucket : w.cookie = c
Returning(c) == \E i \in 1 .. Len(cookies) : cookies[i] = c
HasToken(c)  == Commanded(c) \/ InWheel(c) \/ InBucket(c) \/ Returning(c)

(* A token is never in two places, nor twice in one.                       *)
NoSecondToken ==
    /\ \A c \in Cookies :
        /\ Commanded(c) => ~InWheel(c) /\ ~InBucket(c) /\ ~Returning(c)
        /\ InWheel(c) => ~InBucket(c) /\ ~Returning(c)
        /\ InBucket(c) => ~Returning(c)
    /\ \A c \in Cookies : \A i, j \in 1 .. Len(commands) :
            ScheduleAt(i, c) /\ ScheduleAt(j, c) => i = j
    /\ \A v, w \in wheel : v.cookie = w.cookie => v = w
    /\ \A v, w \in bucket : v.cookie = w.cookie => v = w
    /\ \A i, j \in 1 .. Len(cookies) : cookies[i] = cookies[j] => i = j

(* However the two threads interleave, each item of the IdMap has exactly  *)
(* one token and there is no token without an item.  Were there two, the   *)
(* second would retrieve whatever item has got the cookie since; were      *)
(* there none, the item would stay in the map for good.                    *)
OneToken == NoSecondToken /\ \A c \in Cookies : c \in Live <=> HasToken(c)

(* A cookie on its way back belongs to a wake that is due, or that was     *)
(* cancelled: cancelling also sends a cookie back (timer_worker), and that *)
(* cookie must never run a callback before its time.                       *)
NeverEarly ==
    \A i \in 1 .. Len(cookies) :
        \/ items[cookies[i]].cancelled
        \/ items[cookies[i]].time < clock

(* A cancellation that reaches the wheel late never names a later wake of  *)
(* the same cookie.  Wheel::cancel compares truncated times, so that a     *)
(* cancellation for another turn of the wheel would find the wrong wake:   *)
(* TimerWheel relies on this.                                              *)
CancelsOwnWake ==
    \A c \in Cookies : CancelAt(1, c) =>
        \A w \in wheel : w.cookie = c =>
            \/ w.when = commands[1].wake.when
            \/ commands[1].wake.when < wnow

(* The parts that make the three invariants above inductive.  A Cancel       *)
(* command still in the channel names an item that is cancelled, or one    *)
(* that took the cookie over and whose Schedule command is behind it.      *)
Names(i, c) == items[c].cancelled /\ commands[i].wake.when = items[c].time
CancelBehind ==
    \A c \in Live : \A i \in 1 .. Len(commands) :
        CancelAt(i, c) =>
            \/ Names(i, c)
            \/ \E j \in 1 .. Len(commands) : i < j /\ ScheduleAt(j, c)

TokenTimes ==
    /\ \A c \in Cookies : \A i \in 1 .. Len(commands) :
            ScheduleAt(i, c) => commands[i].wake.when = items[c].time
    /\ \A w \in wheel : /\ items[w.cookie].time <= w.when
                         /\ \/ items[w.cookie].time = w.when
                            \/ items[w.cookie].time < wnow
    /\ \A w \in bucket : items[w.cookie].time <= w.when /\ w.when < wnow

WorkerBehindClock ==
    /\ wnow <= clock
    /\ phase = "drain" => wnow + BUCKET_MS <= clock
    /\ phase # "send" => bucket = {}

OwnReason ==
    /\ \A c \in Live : items[c].reason \in used
    /\ \A c, d \in Live : items[c].reason = items[d].reason => c = d

IInv == OneToken /\ NeverEarly /\ CancelBehind /\ TokenTimes
            /\ WorkerBehindClock /\ OwnReason

(* The queue is an alarm clock: whatever the channels hold, a callback     *)
(* runs at most once, after its time, and not after it was cancelled.      *)
Armed == {[reason |-> items[c].reason, time |-> items[c].time] :
            c \in {d \in Live : ~items[d].cancelled}}
Alarms == INSTANCE AlarmClock WITH armed <- Armed
ImplementsAlarmClock == Alarms!Spec

(* No cookie is leaked: each item, cancelled or not, in time or too late,  *)
(* is retrieved and its number freed.                                      *)
EveryCookieReturns == \A c \in Cookies : c \in Live ~> c \notin Live
=============================================================================
