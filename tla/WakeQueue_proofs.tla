-------------------------- MODULE WakeQueue_proofs ---------------------------
(***************************************************************************)
(* Theorems about WakeQueue, for any number of cookies and callbacks, any  *)
(* times, any tick and any bounds.                                         *)
(***************************************************************************)
EXTENDS WakeQueue, TLAPS

USE WakeQueueAssumption

(* Each step of either thread keeps the types. *)
LEMMA TypeStep == TypeOK /\ [Next]_vars => TypeOK'
<1> SUFFICES ASSUME TypeOK, [Next]_vars PROVE TypeOK'
  OBVIOUS
<1> USE DEF TypeOK
<1>1. ASSUME NEW r \in Reasons, NEW when \in Times, Schedule(r, when)
      PROVE  TypeOK'
  BY <1>1 DEF Schedule, Send, Item, Command, Wake, workerVars, mainVars, Cookies
<1>2. ASSUME NEW c \in Cookies, Cancel(c) PROVE TypeOK'
  <2>1. items[c] \in Item
    BY <1>2 DEF Cancel, Live
  <2>2. items' \in [Cookies -> Item \cup {NoItem}]
    BY <1>2, <2>1 DEF Cancel, Item
  <2>3. commands' \in Seq(Command)
    BY <1>2, <2>1 DEF Cancel, Send, Command, Wake, Item
  <2> QED
    BY <1>2, <2>2, <2>3 DEF Cancel, workerVars
<1>3. CASE Retrieve
  BY <1>3 DEF Retrieve, workerVars, Live, Item
<1>4. CASE WakeUp
  BY <1>4 DEF WakeUp, mainVars
<1>5. CASE DrainSchedule
  <2>1. Head(commands) \in Command
    BY <1>5 DEF DrainSchedule
  <2>2. wheel' \subseteq [when : Nat, cookie : Cookies]
    BY <1>5, <2>1 DEF DrainSchedule, Command, Wake, Wheel!Schedule, Wheel!Clamp
  <2> QED
    BY <1>5, <2>1, <2>2 DEF DrainSchedule, Wheel!Schedule, mainVars
<1>11. CASE DrainCancel
  <2>1. Head(commands) \in Command
    BY <1>11 DEF DrainCancel
  <2>2. cookies' \in Seq(Cookies)
    BY <1>11, <2>1 DEF DrainCancel, Command, Wake
  <2> QED
    BY <1>11, <2>1, <2>2 DEF DrainCancel, Wheel!Cancel, mainVars
<1>6. CASE Advance
  BY <1>6 DEF Advance, mainVars, Wheel!Advance, Wheel!Due
<1>7. ASSUME NEW w \in bucket, SendWake(w) PROVE TypeOK'
  BY <1>7 DEF SendWake, mainVars
<1>8. CASE Sent
  BY <1>8 DEF Sent, mainVars
<1>9. CASE Tick
  BY <1>9 DEF Tick, mainVars, workerVars
<1>10. CASE UNCHANGED vars
  BY <1>10 DEF vars, mainVars, workerVars
<1> QED
  BY <1>1, <1>2, <1>3, <1>4, <1>5, <1>6, <1>7, <1>8, <1>9, <1>10, <1>11 DEF Next, Worker

(* Every variable of the queue keeps its type (WakeQueue, timer_worker).   *)
THEOREM TypeCorrect == Spec => []TypeOK
<1>1. Init => TypeOK
  BY DEF Init, TypeOK, Cookies
<1> QED
  BY <1>1, TypeStep, PTL DEF Spec

-----------------------------------------------------------------------------
(* Where things are in a channel after something is sent. *)
LEMMA AppendAt ==
    ASSUME NEW S, NEW s \in Seq(S), NEW x \in S
    PROVE  /\ Len(Append(s, x)) = Len(s) + 1
           /\ Append(s, x)[Len(s) + 1] = x
           /\ \A i \in 1 .. Len(s) : Append(s, x)[i] = s[i]
  OBVIOUS

(* Where things are in a channel after something is received. *)
LEMMA TailAt ==
    ASSUME NEW S, NEW s \in Seq(S), s # <<>>
    PROVE  /\ Len(s) \in Nat \ {0}
           /\ Len(Tail(s)) = Len(s) - 1
           /\ Head(s) = s[1] /\ s[1] \in S
           /\ \A i \in 1 .. Len(s) - 1 : Tail(s)[i] = s[i + 1]
  OBVIOUS

(* A live item is an item, with a time. *)
LEMMA ItemsAreItems ==
    ASSUME TypeOK, NEW c \in Live
    PROVE  c \in Cookies /\ items[c] \in Item /\ items[c].time \in Nat
  BY DEF TypeOK, Live, Item

(* A new item's only token is its command, at the channel's end. *)
LEMMA SchedulePreserves ==
    ASSUME TypeOK, IInv, NEW r \in Reasons, NEW when \in Times, Schedule(r, when)
    PROVE  IInv'
<1> USE DEF TypeOK
<1>1. PICK c \in Cookies :
        /\ c \notin Live
        /\ items' = [items EXCEPT ![c] = [time |-> when, cancelled |-> FALSE, reason |-> r]]
        /\ Send("Schedule", when, c)
  BY DEF Schedule, IsFree
<1> DEFINE n == Len(commands) + 1
           cmd == [op |-> "Schedule", wake |-> [when |-> when, cookie |-> c]]
<1>2. cmd \in Command
  BY DEF Command, Wake
<1>3. /\ Len(commands) \in Nat /\ Len(commands') = n
      /\ commands'[n] = cmd
      /\ \A i \in 1 .. Len(commands) : commands'[i] = commands[i]
  BY <1>1, <1>2, AppendAt DEF Send
<1>4. UNCHANGED <<clock, rung, cookies, phase, wnow, wheel, bucket>>
  BY DEF Schedule, workerVars
<1>5. /\ items'[c] = [time |-> when, cancelled |-> FALSE, reason |-> r]
      /\ \A d \in Cookies : d # c => items'[d] = items[d]
      /\ Live' = Live \cup {c}
  BY <1>1 DEF Live, NoItem
<1>6. ~HasToken(c)
  BY <1>1 DEF IInv, OneToken
<1>7. \A d, i : ScheduleAt(i, d)' <=> ScheduleAt(i, d) \/ (i = n /\ d = c)
  BY <1>3 DEF ScheduleAt
<1>8. \A d, i : CancelAt(i, d)' <=> CancelAt(i, d)
  BY <1>3 DEF CancelAt
<1>9. \A d : Commanded(d)' <=> Commanded(d) \/ d = c
  BY <1>3, <1>7 DEF Commanded, ScheduleAt
<1>10. \A d : (InWheel(d)' <=> InWheel(d)) /\ (InBucket(d)' <=> InBucket(d))
               /\ (Returning(d)' <=> Returning(d))
  BY <1>4 DEF InWheel, InBucket, Returning
<1>11. OneToken'
  <2>1. \A d \in Cookies : (d \in Live <=> HasToken(d))'
    BY <1>5, <1>9, <1>10 DEF IInv, OneToken, HasToken
  <2>2. ASSUME NEW d \in Cookies, NEW i, NEW j, ScheduleAt(i, d)', ScheduleAt(j, d)'
        PROVE  i = j
    <3>1. CASE d = c
      <4>1. \A k : ~ScheduleAt(k, c)
        BY <1>6 DEF HasToken, Commanded, ScheduleAt
      <4> QED
        BY <2>2, <3>1, <4>1, <1>7
    <3>2. CASE d # c
      <4>1. ScheduleAt(i, d) /\ ScheduleAt(j, d)
        BY <2>2, <3>2, <1>7
      <4> QED
        BY <4>1 DEF IInv, OneToken, NoSecondToken, ScheduleAt
    <3> QED
      BY <3>1, <3>2
  <2> QED
    BY <2>1, <2>2, <1>4, <1>6, <1>9, <1>10
    DEF IInv, OneToken, NoSecondToken, HasToken
<1>12. NeverEarly'
  BY <1>4, <1>5, <1>6 DEF IInv, NeverEarly, HasToken, Returning
<1>13. CancelBehind'
  <2> SUFFICES ASSUME NEW d \in Live', NEW i \in 1 .. Len(commands'), CancelAt(i, d)'
               PROVE  \/ Names(i, d)'
                      \/ \E j \in 1 .. Len(commands') : i < j /\ ScheduleAt(j, d)'
    BY DEF CancelBehind
  <2>1. CASE d = c
    BY <2>1, <1>3, <1>7, <1>8 DEF CancelAt
  <2>2. CASE d # c
    <3>1. CancelAt(i, d) /\ i \in 1 .. Len(commands) /\ d \in Live
      BY <2>2, <1>5, <1>8 DEF CancelAt
    <3>2. \/ Names(i, d)
          \/ \E j \in 1 .. Len(commands) : i < j /\ ScheduleAt(j, d)
      BY <3>1 DEF IInv, CancelBehind
    <3>3. /\ commands'[i] = commands[i] /\ items'[d].time = items[d].time
          /\ items[d].cancelled => items'[d].cancelled
      BY <2>2, <3>1, <1>3, <1>5 DEF Live
    <3>4. CASE Names(i, d)
      BY <3>3, <3>4 DEF Names
    <3>5. ASSUME NEW j \in 1 .. Len(commands), i < j, ScheduleAt(j, d)
          PROVE  j \in 1 .. Len(commands') /\ i < j /\ ScheduleAt(j, d)'
      BY <3>5, <1>3, <1>7
    <3>6. CASE \E j \in 1 .. Len(commands) : i < j /\ ScheduleAt(j, d)
      BY <3>5, <3>6
    <3> QED
      BY <3>2, <3>4, <3>6
  <2> QED
    BY <2>1, <2>2
<1>14. TokenTimes'
  <2>1. \A d \in Cookies : \A i \in 1 .. Len(commands') :
            ScheduleAt(i, d)' => commands'[i].wake.when = items'[d].time
    <3> SUFFICES ASSUME NEW d \in Cookies, NEW i \in 1 .. Len(commands'), ScheduleAt(i, d)'
                 PROVE  commands'[i].wake.when = items'[d].time
      OBVIOUS
    <3>1. CASE i = n /\ d = c
      BY <3>1, <1>3, <1>5
    <3>2. CASE ScheduleAt(i, d)
      <4>1. i \in 1 .. Len(commands) /\ commands[i].wake.when = items[d].time
        BY <3>2 DEF IInv, TokenTimes, ScheduleAt
      <4>2. d # c
        BY <3>2, <1>6 DEF HasToken, Commanded, ScheduleAt
      <4> QED
        BY <4>1, <4>2, <1>3, <1>5
    <3> QED
      BY <3>1, <3>2, <1>7
  <2>2. \A w \in wheel \cup bucket : w.cookie \in Cookies /\ w.cookie # c
    BY <1>6 DEF HasToken, InWheel, InBucket
  <2> QED
    BY <2>1, <2>2, <1>4, <1>5 DEF IInv, TokenTimes
<1>15. WorkerBehindClock'
  BY <1>4 DEF IInv, WorkerBehindClock
<1>16. OwnReason'
  BY <1>1, <1>5 DEF IInv, OwnReason, Schedule, Live
<1> QED
  BY <1>11, <1>12, <1>13, <1>14, <1>15, <1>16 DEF IInv

(* Cancelling adds a command, but no token. *)
LEMMA CancelPreserves ==
    ASSUME TypeOK, IInv, NEW c \in Cookies, Cancel(c)
    PROVE  IInv'
<1> USE DEF TypeOK
<1> DEFINE n == Len(commands) + 1
           cmd == [op |-> "Cancel", wake |-> [when |-> items[c].time, cookie |-> c]]
<1>1. c \in Live /\ items[c] \in Item
  BY ItemsAreItems DEF Cancel
<1>2. cmd \in Command
  BY <1>1 DEF Command, Wake, Item
<1>3. /\ Len(commands) \in Nat /\ Len(commands') = n
      /\ commands'[n] = cmd
      /\ \A i \in 1 .. Len(commands) : commands'[i] = commands[i]
  BY <1>2, AppendAt DEF Cancel, Send
<1>4. UNCHANGED <<clock, used, rung, cookies, phase, wnow, wheel, bucket>>
  BY DEF Cancel, workerVars
<1>5. /\ items'[c] = [items[c] EXCEPT !.cancelled = TRUE]
      /\ items'[c].cancelled /\ items'[c].time = items[c].time
      /\ items'[c].reason = items[c].reason
      /\ \A d \in Cookies : d # c => items'[d] = items[d]
  BY <1>1 DEF Cancel, Item
<1>6. Live' = Live
  BY <1>1, <1>5 DEF Live, NoItem, Item
<1>7. \A d, i : ScheduleAt(i, d)' <=> ScheduleAt(i, d)
  BY <1>3 DEF ScheduleAt
<1>8. \A d, i : CancelAt(i, d)' <=> CancelAt(i, d) \/ (i = n /\ d = c)
  BY <1>3 DEF CancelAt
<1>9. \A d : (Commanded(d)' <=> Commanded(d)) /\ (InWheel(d)' <=> InWheel(d))
              /\ (InBucket(d)' <=> InBucket(d)) /\ (Returning(d)' <=> Returning(d))
  BY <1>3, <1>4, <1>7 DEF Commanded, InWheel, InBucket, Returning, ScheduleAt
<1>10. OneToken'
  <2>1. \A d \in Cookies : (d \in Live <=> HasToken(d))'
    BY <1>6, <1>9 DEF IInv, OneToken, HasToken
  <2>2. ASSUME NEW d \in Cookies, NEW i, NEW j, ScheduleAt(i, d)', ScheduleAt(j, d)'
        PROVE  i = j
    <3>1. ScheduleAt(i, d) /\ ScheduleAt(j, d)
      BY <2>2, <1>7
    <3> QED
      BY <3>1 DEF IInv, OneToken, NoSecondToken, ScheduleAt
  <2> QED
    BY <2>1, <2>2, <1>4, <1>9 DEF IInv, OneToken, NoSecondToken
<1>11. NeverEarly'
  <2> SUFFICES ASSUME NEW i \in 1 .. Len(cookies)
               PROVE  items'[cookies[i]].cancelled \/ items'[cookies[i]].time < clock
    BY <1>4 DEF NeverEarly
  <2>1. cookies[i] \in Cookies
    OBVIOUS
  <2>2. items[cookies[i]].cancelled \/ items[cookies[i]].time < clock
    BY DEF IInv, NeverEarly
  <2> QED
    BY <2>1, <2>2, <1>5
<1>12. CancelBehind'
  <2> SUFFICES ASSUME NEW d \in Live, NEW i \in 1 .. Len(commands'), CancelAt(i, d)'
               PROVE  \/ Names(i, d)'
                      \/ \E j \in 1 .. Len(commands') : i < j /\ ScheduleAt(j, d)'
    BY <1>6 DEF CancelBehind
  <2>1. CASE i = n /\ d = c
    BY <2>1, <1>3, <1>5 DEF Names
  <2>2. CASE CancelAt(i, d)
    <3>1. i \in 1 .. Len(commands)
      BY <2>2 DEF CancelAt
    <3>2. \/ Names(i, d)
          \/ \E j \in 1 .. Len(commands) : i < j /\ ScheduleAt(j, d)
      BY <3>1, <2>2 DEF IInv, CancelBehind
    <3>3. /\ commands'[i] = commands[i] /\ items'[d].time = items[d].time
          /\ items[d].cancelled => items'[d].cancelled
      BY <3>1, <1>3, <1>5 DEF Live
    <3>4. CASE Names(i, d)
      BY <3>3, <3>4 DEF Names
    <3>5. ASSUME NEW j \in 1 .. Len(commands), i < j, ScheduleAt(j, d)
          PROVE  j \in 1 .. Len(commands') /\ i < j /\ ScheduleAt(j, d)'
      BY <3>5, <1>3, <1>7
    <3>6. CASE \E j \in 1 .. Len(commands) : i < j /\ ScheduleAt(j, d)
      BY <3>5, <3>6
    <3> QED
      BY <3>2, <3>4, <3>6
  <2> QED
    BY <2>1, <2>2, <1>8
<1>13. TokenTimes'
  <2>1. \A d \in Cookies : items'[d].time = items[d].time
    BY <1>5
  <2>2. \A d \in Cookies : \A i \in 1 .. Len(commands') :
            ScheduleAt(i, d)' => commands'[i].wake.when = items'[d].time
    BY <2>1, <1>3, <1>7 DEF IInv, TokenTimes, ScheduleAt
  <2> QED
    BY <2>1, <2>2, <1>4 DEF IInv, TokenTimes
<1>14. WorkerBehindClock'
  BY <1>4 DEF IInv, WorkerBehindClock
<1>15. OwnReason'
  <2>1. \A d \in Live : items'[d].reason = items[d].reason
    BY <1>5 DEF Live
  <2> QED
    BY <2>1, <1>4, <1>6 DEF IInv, OwnReason
<1> QED
  BY <1>10, <1>11, <1>12, <1>13, <1>14, <1>15 DEF IInv

(* An item goes with its token, and its number becomes free. *)
LEMMA RetrievePreserves ==
    ASSUME TypeOK, IInv, Retrieve
    PROVE  IInv'
<1> USE DEF TypeOK
<1> DEFINE c == Head(cookies)
           n == Len(cookies) - 1
<1>1. /\ Len(cookies) \in Nat \ {0} /\ Len(cookies') = n
      /\ c = cookies[1] /\ c \in Cookies
      /\ \A i \in 1 .. n : cookies'[i] = cookies[i + 1]
  BY TailAt DEF Retrieve
<1>2. UNCHANGED <<clock, used, commands, phase, wnow, wheel, bucket>>
  BY DEF Retrieve, workerVars
<1>3. /\ items'[c] = NoItem
      /\ \A d \in Cookies : d # c => items'[d] = items[d]
      /\ Live' = Live \ {c}
  BY <1>1 DEF Retrieve, Live
<1>4. Returning(c)
  BY <1>1 DEF Returning
<1>5. ~Commanded(c) /\ ~InWheel(c) /\ ~InBucket(c)
  BY <1>1, <1>4 DEF IInv, OneToken, NoSecondToken
<1>6. \A i \in 1 .. Len(cookies') :
        i + 1 \in 1 .. Len(cookies) /\ cookies'[i] = cookies[i + 1]
  BY <1>1
<1>7. \A i, j \in 1 .. Len(cookies) : cookies[i] = cookies[j] => i = j
  BY DEF IInv, OneToken, NoSecondToken
<1>8. \A i \in 1 .. Len(cookies') : cookies'[i] \in Cookies /\ cookies'[i] # c
  <2> TAKE i \in 1 .. Len(cookies')
  <2>1. i + 1 # 1 /\ 1 \in 1 .. Len(cookies)
    BY <1>1
  <2> QED
    BY <2>1, <1>1, <1>6, <1>7
<1>9. \A d \in Cookies : Returning(d)' <=> Returning(d) /\ d # c
  <2> TAKE d \in Cookies
  <2>1. ASSUME Returning(d)' PROVE Returning(d) /\ d # c
    BY <2>1, <1>6, <1>8 DEF Returning
  <2>2. ASSUME Returning(d), d # c PROVE Returning(d)'
    <3>1. PICK i \in 1 .. Len(cookies) : cookies[i] = d
      BY <2>2 DEF Returning
    <3>2. i - 1 \in 1 .. n /\ (i - 1) + 1 = i
      BY <3>1, <2>2, <1>1
    <3> QED
      BY <3>1, <3>2, <1>1 DEF Returning
  <2> QED
    BY <2>1, <2>2
<1>10. \A d, i : (ScheduleAt(i, d)' <=> ScheduleAt(i, d)) /\ (CancelAt(i, d)' <=> CancelAt(i, d))
  BY <1>2 DEF ScheduleAt, CancelAt
<1>11. \A d : (Commanded(d)' <=> Commanded(d)) /\ (InWheel(d)' <=> InWheel(d))
               /\ (InBucket(d)' <=> InBucket(d))
  BY <1>2, <1>10 DEF Commanded, InWheel, InBucket
<1>12. OneToken'
  <2>1. \A d \in Cookies : (d \in Live <=> HasToken(d))'
    BY <1>3, <1>5, <1>9, <1>11 DEF IInv, OneToken, HasToken
  <2>2. \A i, j \in 1 .. Len(cookies') : cookies'[i] = cookies'[j] => i = j
    <3> TAKE i, j \in 1 .. Len(cookies')
    <3>1. cookies'[i] = cookies'[j] => i + 1 = j + 1
      BY <1>6, <1>7
    <3> QED
      BY <3>1, <1>1
  <2> QED
    BY <2>1, <2>2, <1>2, <1>9, <1>10, <1>11 DEF IInv, OneToken, NoSecondToken
<1>13. NeverEarly'
  BY <1>2, <1>3, <1>6, <1>8 DEF IInv, NeverEarly
<1>14. CancelBehind'
  BY <1>2, <1>3, <1>10 DEF IInv, CancelBehind, Live, Names
<1>15. TokenTimes'
  <2>1. \A i : ~ScheduleAt(i, c)
    BY <1>5 DEF Commanded, ScheduleAt
  <2>2. \A w \in wheel \cup bucket : w.cookie \in Cookies /\ w.cookie # c
    BY <1>5 DEF InWheel, InBucket
  <2> QED
    BY <2>1, <2>2, <1>2, <1>3, <1>10 DEF IInv, TokenTimes
<1>16. WorkerBehindClock'
  BY <1>2 DEF IInv, WorkerBehindClock
<1>17. OwnReason'
  BY <1>2, <1>3 DEF IInv, OwnReason, Live
<1> QED
  BY <1>12, <1>13, <1>14, <1>15, <1>16, <1>17 DEF IInv

(* The facts about the command channel that both ways of draining it use.  *)
LEMMA Drained ==
    ASSUME TypeOK, commands # <<>>, commands' = Tail(commands)
    PROVE  /\ Len(commands) \in Nat \ {0} /\ Len(commands') = Len(commands) - 1
           /\ Head(commands) = commands[1] /\ commands[1] \in Command
           /\ \A i \in 1 .. Len(commands') :
                i + 1 \in 1 .. Len(commands) /\ commands'[i] = commands[i + 1]
           /\ \A i, d : ScheduleAt(i, d)' <=> i \in 1 .. Len(commands') /\ ScheduleAt(i + 1, d)
           /\ \A i, d : CancelAt(i, d)' <=> i \in 1 .. Len(commands') /\ CancelAt(i + 1, d)
<1> USE DEF TypeOK
<1>1. /\ Len(commands) \in Nat \ {0} /\ Len(commands') = Len(commands) - 1
      /\ Head(commands) = commands[1] /\ commands[1] \in Command
      /\ \A i \in 1 .. Len(commands) - 1 : commands'[i] = commands[i + 1]
  BY TailAt
<1>2. \A i \in 1 .. Len(commands') :
        i + 1 \in 1 .. Len(commands) /\ commands'[i] = commands[i + 1]
  BY <1>1
<1> QED
  BY <1>1, <1>2 DEF ScheduleAt, CancelAt

(* Taking a command from the channel moves no other token. *)
LEMMA DrainedTokens ==
    ASSUME TypeOK, NoSecondToken, commands # <<>>, commands' = Tail(commands)
    PROVE  /\ \A d \in Cookies : \A i, j \in 1 .. Len(commands') :
                (ScheduleAt(i, d) /\ ScheduleAt(j, d))' => i = j
           /\ \A d \in Cookies : Commanded(d)' <=> Commanded(d) /\ ~ScheduleAt(1, d)
<1>1. ASSUME NEW d \in Cookies, NEW i \in 1 .. Len(commands'), NEW j \in 1 .. Len(commands'),
             ScheduleAt(i, d)', ScheduleAt(j, d)'
      PROVE  i = j
  <2>1. i + 1 = j + 1
    BY <1>1, Drained DEF NoSecondToken
  <2> QED
    BY <2>1
<1>2. ASSUME NEW d \in Cookies, Commanded(d)' PROVE Commanded(d) /\ ~ScheduleAt(1, d)
  <2>1. PICK i \in 1 .. Len(commands') : ScheduleAt(i, d)'
    BY <1>2 DEF Commanded
  <2>2. ScheduleAt(i + 1, d) /\ i + 1 \in 1 .. Len(commands) /\ i + 1 # 1
    BY <2>1, Drained
  <2>3. 1 \in 1 .. Len(commands)
    BY Drained
  <2> QED
    BY <2>2, <2>3 DEF NoSecondToken, Commanded
<1>3. ASSUME NEW d \in Cookies, Commanded(d), ~ScheduleAt(1, d) PROVE Commanded(d)'
  <2>1. PICK i \in 1 .. Len(commands) : ScheduleAt(i, d)
    BY <1>3 DEF Commanded
  <2>2. i - 1 \in 1 .. Len(commands') /\ (i - 1) + 1 = i
    BY <2>1, <1>3, Drained
  <2>3. ScheduleAt(i - 1, d)'
    BY <2>1, <2>2, Drained
  <2> QED
    BY <2>2, <2>3 DEF Commanded
<1> QED
  BY <1>1, <1>2, <1>3

(* The token moves from the channel to the wheel. *)
LEMMA DrainSchedulePreserves ==
    ASSUME TypeOK, IInv, DrainSchedule
    PROVE  IInv'
<1> USE DEF TypeOK
<1> DEFINE w == Head(commands).wake
           c == w.cookie
           v == [w EXCEPT !.when = Wheel!Clamp(w.when)]
<1>1. /\ commands # <<>> /\ commands' = Tail(commands)
      /\ UNCHANGED <<clock, items, used, rung, cookies, phase, bucket, wnow>>
      /\ wheel' = wheel \cup {v}
  BY DEF DrainSchedule, mainVars, Wheel!Schedule
<1>2. /\ w \in Wake /\ c \in Cookies /\ w.when \in Nat
      /\ 1 \in 1 .. Len(commands) /\ w = commands[1].wake
  BY <1>1, Drained DEF Command, Wake
<1>3. ScheduleAt(1, c)
  BY <1>2, <1>1, Drained DEF DrainSchedule, ScheduleAt
<1>4. v.cookie = c /\ w.when <= v.when
  BY <1>2 DEF Wheel!Clamp, Wake
<1>5. Commanded(c)
  BY <1>2, <1>3 DEF Commanded
<1>6. ~InWheel(c) /\ ~InBucket(c) /\ ~Returning(c) /\ c \in Live
  BY <1>2, <1>5 DEF IInv, OneToken, NoSecondToken, HasToken
<1>7. \A d : (InWheel(d)' <=> InWheel(d) \/ d = c) /\ (InBucket(d)' <=> InBucket(d))
              /\ (Returning(d)' <=> Returning(d)) /\ (d \in Live' <=> d \in Live)
  BY <1>1, <1>4 DEF InWheel, InBucket, Returning, Live
<1>8. \A d : ScheduleAt(1, d) => d = c
  BY <1>3 DEF ScheduleAt
<1>9. /\ \A d \in Cookies : \A i, j \in 1 .. Len(commands') :
            (ScheduleAt(i, d) /\ ScheduleAt(j, d))' => i = j
      /\ \A d \in Cookies : Commanded(d)' <=> Commanded(d) /\ d # c
  BY <1>1, <1>3, <1>8, DrainedTokens DEF IInv, OneToken
<1>10. OneToken'
  <2>1. \A d \in Cookies : (d \in Live <=> HasToken(d))'
    BY <1>5, <1>6, <1>7, <1>9 DEF IInv, OneToken, HasToken
  <2>2. \A x, y \in wheel' : x.cookie = y.cookie => x = y
    BY <1>1, <1>4, <1>6 DEF InWheel, IInv, OneToken, NoSecondToken
  <2> QED
    BY <2>1, <2>2, <1>1, <1>6, <1>7, <1>9 DEF IInv, OneToken, NoSecondToken
<1>11. NeverEarly'
  BY <1>1 DEF IInv, NeverEarly
<1>12. CancelBehind'
  <2> SUFFICES ASSUME NEW d \in Live, NEW i \in 1 .. Len(commands'), CancelAt(i, d)',
                      ~Names(i, d)'
               PROVE  \E j \in 1 .. Len(commands') : i < j /\ ScheduleAt(j, d)'
    BY <1>1, <1>7 DEF CancelBehind
  <2>1. CancelAt(i + 1, d) /\ i + 1 \in 1 .. Len(commands)
    BY <1>1, Drained
  <2>2. PICK j \in 1 .. Len(commands) : i + 1 < j /\ ScheduleAt(j, d)
    BY <2>1, <1>1, Drained DEF IInv, CancelBehind, Names
  <2>3. j - 1 \in 1 .. Len(commands') /\ i < j - 1 /\ (j - 1) + 1 = j
    BY <2>2, <1>1, Drained
  <2> QED
    BY <2>2, <2>3, <1>1, Drained
<1>13. TokenTimes'
  <2>1. \A d \in Cookies : \A i \in 1 .. Len(commands') :
            ScheduleAt(i, d)' => commands'[i].wake.when = items[d].time
    BY <1>1, Drained DEF IInv, TokenTimes
  <2>2. items[c].time <= v.when /\ (items[c].time = v.when \/ items[c].time < wnow)
    <3>1. items[c].time = w.when
      BY <1>2, <1>3 DEF IInv, TokenTimes
    <3> QED
      BY <3>1, <1>2, <1>4 DEF Wheel!Clamp, Wake
  <2> QED
    BY <2>1, <2>2, <1>1, <1>4 DEF IInv, TokenTimes
<1>14. WorkerBehindClock' /\ OwnReason'
  BY <1>1, <1>7 DEF IInv, WorkerBehindClock, OwnReason, Live
<1> QED
  BY <1>10, <1>11, <1>12, <1>13, <1>14 DEF IInv

(* The token moves from the wheel to the cookies, if it is there. *)
LEMMA DrainCancelPreserves ==
    ASSUME TypeOK, IInv, DrainCancel
    PROVE  IInv'
<1> USE DEF TypeOK
<1> DEFINE w == Head(commands).wake
           c == w.cookie
           n == Len(cookies) + 1
<1>1. /\ commands # <<>> /\ commands' = Tail(commands)
      /\ UNCHANGED <<clock, items, used, rung, phase, bucket, wnow>>
  BY DEF DrainCancel, mainVars, Wheel!Cancel
<1>2. /\ w \in Wake /\ c \in Cookies
      /\ 1 \in 1 .. Len(commands) /\ w = commands[1].wake
  BY <1>1, Drained DEF Command, Wake
<1>3. CancelAt(1, c) /\ \A d : ~ScheduleAt(1, d)
  BY <1>2, <1>1, Drained DEF DrainCancel, ScheduleAt, CancelAt
<1>4. /\ \A d \in Cookies : \A i, j \in 1 .. Len(commands') :
            (ScheduleAt(i, d) /\ ScheduleAt(j, d))' => i = j
      /\ \A d \in Cookies : Commanded(d)' <=> Commanded(d)
  BY <1>1, <1>3, DrainedTokens DEF IInv, OneToken
<1>5. Live' = Live
  BY <1>1 DEF Live
<1>6. CancelBehind'
  <2> SUFFICES ASSUME NEW d \in Live, NEW i \in 1 .. Len(commands'), CancelAt(i, d)',
                      ~Names(i, d)'
               PROVE  \E j \in 1 .. Len(commands') : i < j /\ ScheduleAt(j, d)'
    BY <1>1, <1>5 DEF CancelBehind
  <2>1. CancelAt(i + 1, d) /\ i + 1 \in 1 .. Len(commands)
    BY <1>1, Drained
  <2>2. PICK j \in 1 .. Len(commands) : i + 1 < j /\ ScheduleAt(j, d)
    BY <2>1, <1>1, Drained DEF IInv, CancelBehind, Names
  <2>3. j - 1 \in 1 .. Len(commands') /\ i < j - 1 /\ (j - 1) + 1 = j
    BY <2>2, <1>1, Drained
  <2> QED
    BY <2>2, <2>3, <1>1, Drained
<1>7. \A d \in Cookies : \A i \in 1 .. Len(commands') :
        ScheduleAt(i, d)' => commands'[i].wake.when = items[d].time
  BY <1>1, Drained DEF IInv, TokenTimes
<1>8. WorkerBehindClock' /\ OwnReason'
  BY <1>1, <1>5 DEF IInv, WorkerBehindClock, OwnReason
<1>9. CASE ~Wheel!Hits(w)
  <2>1. UNCHANGED <<wheel, cookies>>
    BY <1>9 DEF DrainCancel, Wheel!Cancel
  <2>2. \A d : (InWheel(d)' <=> InWheel(d)) /\ (InBucket(d)' <=> InBucket(d))
                /\ (Returning(d)' <=> Returning(d))
    BY <2>1, <1>1 DEF InWheel, InBucket, Returning
  <2>3. OneToken'
    <3>1. \A d \in Cookies : (d \in Live <=> HasToken(d))'
      BY <2>2, <1>4, <1>5 DEF IInv, OneToken, HasToken
    <3> QED
      BY <3>1, <2>1, <2>2, <1>1, <1>4 DEF IInv, OneToken, NoSecondToken
  <2>4. NeverEarly' /\ TokenTimes'
    BY <2>1, <1>1, <1>7 DEF IInv, NeverEarly, TokenTimes
  <2> QED
    BY <2>3, <2>4, <1>6, <1>8 DEF IInv
<1>10. CASE Wheel!Hits(w)
  <2>1. w \in wheel /\ wheel' = wheel \ {w} /\ cookies' = Append(cookies, c)
    BY <1>10 DEF DrainCancel, Wheel!Cancel, Wheel!Hits
  <2>2. /\ Len(cookies) \in Nat /\ Len(cookies') = n /\ cookies'[n] = c
        /\ \A i \in 1 .. Len(cookies) : cookies'[i] = cookies[i]
    BY <2>1, <1>2, AppendAt
  <2>3. InWheel(c)
    BY <2>1 DEF InWheel
  <2>4. c \in Live /\ ~Commanded(c) /\ ~InBucket(c) /\ ~Returning(c)
    BY <1>2, <2>3 DEF IInv, OneToken, NoSecondToken, HasToken
  <2>5. \A d : (InWheel(d)' <=> InWheel(d) /\ d # c) /\ (InBucket(d)' <=> InBucket(d))
    BY <2>1, <1>1 DEF InWheel, InBucket, IInv, OneToken, NoSecondToken
  <2>6. \A d : Returning(d)' <=> Returning(d) \/ d = c
    BY <2>2 DEF Returning
  <2>7. OneToken'
    <3>1. \A d \in Cookies : (d \in Live <=> HasToken(d))'
      BY <2>3, <2>5, <2>6, <1>4, <1>5 DEF IInv, OneToken, HasToken
    <3>2. \A i, j \in 1 .. Len(cookies') : cookies'[i] = cookies'[j] => i = j
      BY <2>2, <2>4 DEF Returning, IInv, OneToken, NoSecondToken
    <3> QED
      BY <3>1, <3>2, <2>1, <2>4, <2>5, <2>6, <1>1, <1>4 DEF IInv, OneToken, NoSecondToken
  <2>8. items[c].cancelled
    <3>1. ~\E j \in 1 .. Len(commands) : 1 < j /\ ScheduleAt(j, c)
      BY <2>4 DEF Commanded
    <3> QED
      BY <3>1, <2>4, <1>2, <1>3 DEF IInv, CancelBehind, Names
  <2>9. NeverEarly'
    BY <2>2, <2>8, <1>1 DEF IInv, NeverEarly
  <2>10. TokenTimes'
    BY <2>1, <1>1, <1>7 DEF IInv, TokenTimes
  <2> QED
    BY <2>7, <2>9, <2>10, <1>6, <1>8 DEF IInv
<1> QED
  BY <1>9, <1>10

(* The tokens of the wakes that are due move to the bucket. *)
LEMMA AdvancePreserves ==
    ASSUME TypeOK, IInv, Advance
    PROVE  IInv'
<1> USE DEF TypeOK
<1>1. /\ UNCHANGED <<clock, items, used, rung, commands, cookies>>
      /\ bucket = {} /\ bucket' = Wheel!Due /\ wheel' = wheel \ bucket'
      /\ wnow' = wnow + BUCKET_MS /\ wnow' <= clock /\ phase' = "send"
  BY DEF Advance, mainVars, Wheel!Advance, IInv, WorkerBehindClock
<1>2. /\ bucket' \subseteq wheel
      /\ \A w \in bucket' : w.when < wnow'
  BY <1>1 DEF Wheel!Due
<1>3. /\ Live' = Live
      /\ \A d, i : (ScheduleAt(i, d)' <=> ScheduleAt(i, d)) /\ (CancelAt(i, d)' <=> CancelAt(i, d))
      /\ \A d : (Commanded(d)' <=> Commanded(d)) /\ (Returning(d)' <=> Returning(d))
  BY <1>1 DEF Live, ScheduleAt, CancelAt, Commanded, Returning
<1>4. \A d : ~InBucket(d)
  BY <1>1 DEF InBucket
<1>5. \A v, w \in wheel : v.cookie = w.cookie => v = w
  BY DEF IInv, OneToken, NoSecondToken
<1>6. \A d : InWheel(d) <=> (InWheel(d)' \/ InBucket(d)')
  BY <1>1, <1>2 DEF InWheel, InBucket
<1>7. \A d : InWheel(d)' => ~InBucket(d)'
  BY <1>1, <1>2, <1>5 DEF InWheel, InBucket
<1>8. OneToken'
  <2>1. \A d \in Cookies : (d \in Live <=> HasToken(d))'
    BY <1>3, <1>4, <1>6 DEF IInv, OneToken, HasToken
  <2>2. /\ \A v, w \in wheel' : v.cookie = w.cookie => v = w
        /\ \A v, w \in bucket' : v.cookie = w.cookie => v = w
    BY <1>1, <1>2, <1>5
  <2> QED
    BY <2>1, <2>2, <1>1, <1>3, <1>6, <1>7 DEF IInv, OneToken, NoSecondToken
<1>9. NeverEarly' /\ CancelBehind' /\ OwnReason'
  BY <1>1, <1>3 DEF IInv, NeverEarly, CancelBehind, OwnReason, Names
<1>10. TokenTimes'
  <2>1. \A w \in wheel : items[w.cookie].time < wnow => items[w.cookie].time < wnow'
    <3> TAKE w \in wheel
    <3>1. w.cookie \in Live
      BY DEF InWheel, IInv, OneToken, HasToken
    <3> QED
      BY <3>1, <1>1, ItemsAreItems
  <2> QED
    BY <2>1, <1>1, <1>2, <1>3 DEF IInv, TokenTimes
<1>11. WorkerBehindClock'
  BY <1>1 DEF WorkerBehindClock
<1> QED
  BY <1>8, <1>9, <1>10, <1>11 DEF IInv

(* A token moves from the bucket to the cookies. *)
LEMMA SendWakePreserves ==
    ASSUME TypeOK, IInv, NEW w \in bucket, SendWake(w)
    PROVE  IInv'
<1> USE DEF TypeOK
<1> DEFINE c == w.cookie
           n == Len(cookies) + 1
<1>1. /\ UNCHANGED <<clock, items, used, rung, commands, wheel, wnow, phase>>
      /\ phase = "send" /\ bucket' = bucket \ {w} /\ c \in Cookies
      /\ cookies' = Append(cookies, c)
  BY DEF SendWake, mainVars
<1>2. /\ Len(cookies) \in Nat /\ Len(cookies') = n /\ cookies'[n] = c
      /\ \A i \in 1 .. Len(cookies) : cookies'[i] = cookies[i]
  BY <1>1, AppendAt
<1>3. /\ Live' = Live
      /\ \A d, i : (ScheduleAt(i, d)' <=> ScheduleAt(i, d)) /\ (CancelAt(i, d)' <=> CancelAt(i, d))
      /\ \A d : (Commanded(d)' <=> Commanded(d)) /\ (InWheel(d)' <=> InWheel(d))
  BY <1>1 DEF Live, ScheduleAt, CancelAt, Commanded, InWheel
<1>4. InBucket(c)
  BY DEF InBucket
<1>5. ~Commanded(c) /\ ~InWheel(c) /\ ~Returning(c)
  BY <1>1, <1>4 DEF IInv, OneToken, NoSecondToken
<1>6. \A d : InBucket(d)' <=> InBucket(d) /\ d # c
  BY <1>1 DEF InBucket, IInv, OneToken, NoSecondToken
<1>7. \A d : Returning(d)' <=> Returning(d) \/ d = c
  BY <1>2 DEF Returning
<1>8. OneToken'
  <2>1. \A d \in Cookies : (d \in Live <=> HasToken(d))'
    BY <1>3, <1>4, <1>6, <1>7 DEF IInv, OneToken, HasToken
  <2>2. \A i, j \in 1 .. Len(cookies') : cookies'[i] = cookies'[j] => i = j
    BY <1>2, <1>5 DEF Returning, IInv, OneToken, NoSecondToken
  <2> QED
    BY <2>1, <2>2, <1>1, <1>3, <1>5, <1>6, <1>7 DEF IInv, OneToken, NoSecondToken
<1>9. NeverEarly'
  <2>1. items[c].time < clock
    <3>1. items[c].time <= w.when /\ w.when < wnow /\ wnow <= clock
      BY DEF IInv, TokenTimes, WorkerBehindClock
    <3>2. c \in Live
      BY <1>1, <1>4 DEF IInv, OneToken, HasToken
    <3> QED
      BY <3>1, <3>2, ItemsAreItems
  <2> QED
    BY <2>1, <1>1, <1>2 DEF IInv, NeverEarly
<1>10. CancelBehind' /\ TokenTimes' /\ OwnReason' /\ WorkerBehindClock'
  BY <1>1, <1>3 DEF IInv, CancelBehind, TokenTimes, OwnReason, WorkerBehindClock, Names
<1> QED
  BY <1>8, <1>9, <1>10 DEF IInv

(* Waking up, finishing a bucket and the clock move no token. *)
LEMMA QuietStepPreserves ==
    ASSUME TypeOK, IInv, WakeUp \/ Sent \/ Tick \/ UNCHANGED vars
    PROVE  IInv'
<1> USE DEF TypeOK
<1>1. /\ UNCHANGED <<items, used, rung, commands, cookies, wheel, bucket, wnow>>
      /\ clock' \in Nat /\ clock <= clock'
  BY DEF WakeUp, Sent, Tick, vars, mainVars, workerVars
<1>2. WorkerBehindClock'
  BY DEF IInv, WorkerBehindClock, WakeUp, Sent, Tick, vars, workerVars
<1>3. /\ Live' = Live
      /\ \A d, i : (ScheduleAt(i, d)' <=> ScheduleAt(i, d)) /\ (CancelAt(i, d)' <=> CancelAt(i, d))
      /\ \A d : HasToken(d)' <=> HasToken(d)
      /\ \A d : (Commanded(d)' <=> Commanded(d)) /\ (InWheel(d)' <=> InWheel(d))
                 /\ (InBucket(d)' <=> InBucket(d)) /\ (Returning(d)' <=> Returning(d))
  BY <1>1 DEF Live, ScheduleAt, CancelAt, Commanded, InWheel, InBucket, Returning, HasToken
<1>4. OneToken'
  BY <1>1, <1>3 DEF IInv, OneToken, NoSecondToken
<1>5. NeverEarly'
  <2> SUFFICES ASSUME NEW i \in 1 .. Len(cookies)
               PROVE  items[cookies[i]].cancelled \/ items[cookies[i]].time < clock'
    BY <1>1 DEF NeverEarly
  <2>1. items[cookies[i]].cancelled \/ items[cookies[i]].time < clock
    BY DEF IInv, NeverEarly
  <2>2. cookies[i] \in Live
    BY DEF IInv, OneToken, HasToken, Returning
  <2> QED
    BY <2>1, <2>2, <1>1, ItemsAreItems
<1>6. CancelBehind' /\ TokenTimes' /\ OwnReason'
  BY <1>1, <1>3 DEF IInv, CancelBehind, TokenTimes, OwnReason, Names
<1> QED
  BY <1>2, <1>4, <1>5, <1>6 DEF IInv

-----------------------------------------------------------------------------

(* The invariant is inductive. *)
LEMMA Inductive == TypeOK /\ IInv /\ [Next]_vars => IInv'
  BY SchedulePreserves, CancelPreserves, RetrievePreserves, DrainSchedulePreserves,
     DrainCancelPreserves, AdvancePreserves, SendWakePreserves, QuietStepPreserves
  DEF Next, Worker

(* The invariant holds throughout. *)
LEMMA InvariantHolds == Spec => []IInv
<1>1. Init => IInv
  BY DEF Init, IInv, OneToken, NoSecondToken, NeverEarly, CancelBehind, TokenTimes,
         WorkerBehindClock, OwnReason, Live, HasToken, Commanded, InWheel, InBucket,
         Returning, ScheduleAt
<1> QED
  BY <1>1, Inductive, TypeCorrect, PTL DEF Spec

(* Each item of the IdMap has exactly one token and no token is without an *)
(* item, whatever main thread and timer_worker do in whatever order.       *)
THEOREM OneTokenHolds == Spec => []OneToken
  BY InvariantHolds, PTL DEF IInv

(* The wheel is never asked to cancel a wake of its cookie's last owner    *)
(* (WakeQueue::cancel, IdMap::insert).                                     *)
THEOREM CancelsOwnWakeHolds == Spec => []CancelsOwnWake
<1>1. TypeOK /\ IInv => CancelsOwnWake
  <2> SUFFICES ASSUME TypeOK, IInv, NEW c \in Cookies, CancelAt(1, c),
                      NEW w \in wheel, w.cookie = c
               PROVE  \/ w.when = commands[1].wake.when
                      \/ commands[1].wake.when < wnow
    BY DEF CancelsOwnWake
  <2>1. InWheel(c)
    BY DEF InWheel
  <2>2. c \in Live /\ ~Commanded(c)
    BY <2>1 DEF IInv, OneToken, NoSecondToken, HasToken
  <2>3. Names(1, c)
    BY <2>2 DEF IInv, CancelBehind, CancelAt, Commanded
  <2> QED
    BY <2>3 DEF Names, IInv, TokenTimes
<1> QED
  BY <1>1, InvariantHolds, TypeCorrect, PTL

(* No cookie that comes back (timer_worker) can run a callback before its  *)
(* time.                                                                   *)
THEOREM NeverEarlyHolds == Spec => []NeverEarly
  BY InvariantHolds, PTL DEF IInv

-----------------------------------------------------------------------------
(* The refinement.  A step that gives up item c takes exactly c's alarm    *)
(* out of Armed, because no other item has c's callback.                   *)

(* Giving up item c takes c's alarm, and no other, out of Armed. *)
LEMMA DisarmOne ==
    ASSUME TypeOK, OwnReason, NEW c \in Live, ~items[c].cancelled, TypeOK',
           \A d \in Cookies : d # c => items'[d] = items[d],
           items'[c] = NoItem \/ items'[c].cancelled
    PROVE  LET a == [reason |-> items[c].reason, time |-> items[c].time]
           IN  /\ a \in Armed /\ a \in Alarms!Alarm
               /\ Armed' = Armed \ {a}
<1> DEFINE Of(d) == [reason |-> items[d].reason, time |-> items[d].time]
           a == Of(c)
           On == {d \in Live : ~items[d].cancelled}
<1>1. c \in Cookies /\ items[c] \in Item
  BY ItemsAreItems
<1>2. a \in Armed /\ a \in Alarms!Alarm
  BY <1>1 DEF Armed, Alarms!Alarm, Item
<1>3. \A d \in On : d # c => Of(d) # a
  BY DEF OwnReason
<1>4. {d \in Live' : ~items'[d].cancelled} = On \ {c}
  BY <1>1 DEF Live
<1>5. \A d \in On \ {c} : items'[d] = items[d]
  BY DEF Live
<1>6. Armed' = {Of(d) : d \in On \ {c}}
  BY <1>4, <1>5 DEF Armed
<1>7. Armed = {Of(d) : d \in On}
  BY DEF Armed
<1>8. Armed' = Armed \ {a}
  BY <1>3, <1>6, <1>7
<1> QED
  BY <1>2, <1>8

(* Every step is a step of AlarmClock, or none. *)
LEMMA StepRefines ==
    ASSUME TypeOK, IInv, TypeOK', [Next]_vars
    PROVE  [Alarms!Next]_<<clock, used, Armed, rung>>
<1> USE DEF TypeOK
<1>1. ASSUME NEW r \in Reasons, NEW when \in Times, Schedule(r, when)
      PROVE  Alarms!Set(r, when)
  <2>1. PICK c \in Cookies :
          /\ c \notin Live
          /\ items' = [items EXCEPT ![c] = [time |-> when, cancelled |-> FALSE, reason |-> r]]
    BY <1>1 DEF Schedule, IsFree
  <2>2. /\ items'[c] = [time |-> when, cancelled |-> FALSE, reason |-> r]
        /\ \A d \in Cookies : d # c => items'[d] = items[d]
    BY <2>1
  <2>3. {d \in Live' : ~items'[d].cancelled} = {d \in Live : ~items[d].cancelled} \cup {c}
    <3>1. Live' = Live \cup {c} /\ ~items'[c].cancelled
      BY <2>1, <2>2 DEF Live, NoItem
    <3>2. \A d \in Live : items'[d].cancelled = items[d].cancelled
      BY <2>1, <2>2 DEF Live
    <3>3. \A d : d \in Live' /\ ~items'[d].cancelled
                  <=> (d \in Live /\ ~items[d].cancelled) \/ d = c
      <4> TAKE d
      <4>1. CASE d = c
        BY <4>1, <3>1
      <4>2. CASE d # c
        BY <4>2, <3>1, <3>2
      <4> QED
        BY <4>1, <4>2
    <3> QED
      BY <3>3
  <2>4. \A d \in Live : d # c /\ items'[d] = items[d]
    BY <2>1, <2>2 DEF Live
  <2>5. Armed' = Armed \cup {[reason |-> r, time |-> when]}
    <3> DEFINE On == {d \in Live : ~items[d].cancelled}
    <3>1. Armed' = {[reason |-> items'[d].reason, time |-> items'[d].time] : d \in On \cup {c}}
      BY <2>3 DEF Armed
    <3>2. \A d \in On : items'[d] = items[d]
      BY <2>4
    <3>3. Armed = {[reason |-> items[d].reason, time |-> items[d].time] : d \in On}
      BY DEF Armed
    <3>4. \A x : x \in Armed' <=>
            \/ \E d \in On : x = [reason |-> items'[d].reason, time |-> items'[d].time]
            \/ x = [reason |-> items'[c].reason, time |-> items'[c].time]
      <4> HIDE DEF On
      <4> QED
        BY <3>1
    <3>5. \A x : x \in Armed <=>
            \E d \in On : x = [reason |-> items[d].reason, time |-> items[d].time]
      <4> HIDE DEF On
      <4> QED
        BY <3>3
    <3>6. items'[c].reason = r /\ items'[c].time = when
      BY <2>2
    <3> HIDE DEF On
    <3> QED
      BY <3>2, <3>4, <3>5, <3>6
  <2> QED
    BY <2>5, <1>1 DEF Alarms!Set, Schedule
<1>2. ASSUME NEW c \in Cookies, Cancel(c), ~items[c].cancelled
      PROVE  \E a \in Alarms!Alarm : Alarms!Cancel(a)
  <2>1. c \in Live /\ items[c] \in Item
    BY <1>2, ItemsAreItems DEF Cancel
  <2>2. /\ items'[c].cancelled
        /\ \A d \in Cookies : d # c => items'[d] = items[d]
    BY <1>2, <2>1 DEF Cancel, Item
  <2> DEFINE a == [reason |-> items[c].reason, time |-> items[c].time]
  <2>3. a \in Armed /\ a \in Alarms!Alarm /\ Armed' = Armed \ {a}
    BY <1>2, <2>1, <2>2, DisarmOne DEF IInv
  <2> QED
    BY <2>3, <1>2 DEF Alarms!Cancel, Cancel
<1>3. ASSUME NEW c \in Cookies, Cancel(c), items[c].cancelled
      PROVE  UNCHANGED <<clock, used, Armed, rung>>
  <2>1. c \in Live /\ items[c] \in Item
    BY <1>3, ItemsAreItems DEF Cancel
  <2>2. items' = items
    BY <1>3, <2>1 DEF Cancel, Item
  <2> QED
    BY <2>2, <1>3 DEF Cancel, Armed, Live
<1>4. ASSUME Retrieve
      PROVE  (\E a \in Alarms!Alarm : Alarms!Ring(a)) \/ UNCHANGED <<clock, used, Armed, rung>>
  <2> DEFINE c == Head(cookies)
             a == [reason |-> items[c].reason, time |-> items[c].time]
  <2>1. c \in Cookies /\ 1 \in 1 .. Len(cookies) /\ c = cookies[1]
    BY <1>4, TailAt DEF Retrieve
  <2>2. c \in Live
    BY <2>1 DEF IInv, OneToken, HasToken, Returning
  <2>3. /\ items'[c] = NoItem
        /\ \A d \in Cookies : d # c => items'[d] = items[d]
    BY <1>4, <2>1 DEF Retrieve
  <2>4. CASE items[c].cancelled
    <3>1. {d \in Live' : ~items'[d].cancelled} = {d \in Live : ~items[d].cancelled}
      BY <2>3, <2>4 DEF Live
    <3>2. \A d \in Live : ~items[d].cancelled => items'[d] = items[d]
      BY <2>3, <2>4 DEF Live
    <3>3. Armed' = Armed
      BY <3>1, <3>2 DEF Armed
    <3> QED
      BY <3>3, <2>4, <1>4 DEF Retrieve
  <2>5. CASE ~items[c].cancelled
    <3>1. a \in Armed /\ a \in Alarms!Alarm /\ Armed' = Armed \ {a}
      BY <2>2, <2>3, <2>5, DisarmOne DEF IInv
    <3>2. a.time < clock
      BY <2>1, <2>5 DEF IInv, NeverEarly
    <3> QED
      BY <3>1, <3>2, <2>2, <2>5, <1>4 DEF Alarms!Ring, Retrieve
  <2> QED
    BY <2>4, <2>5
<1>5. ASSUME Tick PROVE Alarms!Tick
  BY <1>5 DEF Tick, mainVars, Alarms!Tick, Armed, Live
<1>6. ASSUME Worker \/ UNCHANGED vars PROVE UNCHANGED <<clock, used, Armed, rung>>
  BY <1>6 DEF Worker, WakeUp, DrainSchedule, DrainCancel, Advance, SendWake, Sent,
              vars, mainVars, Armed, Live
<1> QED
  BY <1>1, <1>2, <1>3, <1>4, <1>5, <1>6 DEF Next, Alarms!Next

(* The two threads, their channels, the reused cookies and the wheel       *)
(* together are the alarm clock of AlarmClock: a callback runs at most     *)
(* once, after its time, and never once it is cancelled.                   *)
THEOREM Refinement == Spec => ImplementsAlarmClock
<1>1. Init => Alarms!Init
  <2> SUFFICES ASSUME Init PROVE Alarms!Init
    OBVIOUS
  <2>1. Live = {} /\ clock \in Nat
    BY DEF Init, Live
  <2>2. Armed = {}
    BY <2>1 DEF Armed
  <2> QED
    BY <2>1, <2>2 DEF Init, Alarms!Init
<1>2. TypeOK /\ IInv /\ TypeOK' /\ [Next]_vars => [Alarms!Next]_<<clock, used, Armed, rung>>
  BY StepRefines
<1> QED
  BY <1>1, <1>2, TypeCorrect, InvariantHolds, PTL DEF Spec, ImplementsAlarmClock, Alarms!Spec

-----------------------------------------------------------------------------
(* Who uses the queue: EntityTimers, with as many cookies.  An update that *)
(* will run is the last one asked for, for any number of entities and      *)
(* clients.  LatestTimer is inductive with the types of the items and of   *)
(* the remembered cookies: rescheduling cancels the item remembered for    *)
(* the timer, which by LatestTimer is the only one that could still run,   *)
(* and takes a vacant number.                                              *)

CONSTANTS NumEntities, NumClients
VARIABLES entities, pawn, waiting, timers

Extra == INSTANCE EntityTimers WITH items <- waiting

(* The queue's part of the state. *)
Whats == Extra!Timers \cup {Extra!Input(c) : c \in Extra!Cids}
Items == {Extra!NoItem} \cup [what : Whats, cancelled : BOOLEAN]
Queues == [items : [Extra!Cookies -> Items],
           timers : [Extra!Timers -> Extra!Cookies \cup {Extra!None}]]

(* LatestTimer, of a queue. *)
Latest(q) ==
    \A k \in Extra!Cookies :
        q.items[k] # Extra!NoItem /\ ~q.items[k].cancelled /\ q.items[k].what \in Extra!Timers
            => q.timers[q.items[k].what] = k
Good(q) == q \in Queues /\ Latest(q)

(* The inductive invariant. *)
ExtraGood == Good(Extra!Queue)

-----------------------------------------------------------------------------

(* A queue with room has a vacant number to give out (IdMap). *)
LEMMA NewIsVacant ==
    ASSUME NEW its, Extra!Vacant(its) # {}
    PROVE  Extra!NewCookie(its) \in Extra!Vacant(its)
    BY DEF Extra!NewCookie

(* Nothing that waits is taken for an empty place. *)
LEMMA WhatsAreNotNone ==
    \A it \in [what : Whats, cancelled : BOOLEAN] : it # Extra!NoItem
<1>1. \A w \in Whats : w.kind # "none"
    BY DEF Whats, Extra!Timers, Extra!Physics, Extra!View, Extra!Input
<1>2. \A it \in [what : Whats, cancelled : BOOLEAN] : it.what \in Whats
    OBVIOUS
<1>3. Extra!NoItem.what.kind = "none"
    BY DEF Extra!NoItem
<1> QED
    BY <1>1, <1>2, <1>3

(* A player's input is nobody's remembered timer. *)
LEMMA InputIsNoTimer ==
    \A c \in Extra!Cids : Extra!Input(c) \notin Extra!Timers
    BY DEF Extra!Timers, Extra!Physics, Extra!View, Extra!Input

-----------------------------------------------------------------------------

(* Cancelling leaves a good queue good, and every vacant place vacant. *)
LEMMA CancelledGood ==
    ASSUME NEW q, Good(q), NEW k \in Extra!Cookies \cup {Extra!None}
    PROVE  /\ Extra!Cancelled(q.items, k) \in [Extra!Cookies -> Items]
           /\ Latest([q EXCEPT !.items = Extra!Cancelled(q.items, k)])
           /\ Extra!Vacant(Extra!Cancelled(q.items, k)) = Extra!Vacant(q.items)
           /\ \A j \in Extra!Cookies : j # k => Extra!Cancelled(q.items, k)[j] = q.items[j]
           /\ k \in Extra!Cookies /\ q.items[k] # Extra!NoItem
                => Extra!Cancelled(q.items, k)[k].cancelled
<1>1. CASE k = Extra!None \/ q.items[k] = Extra!NoItem
    <2>1. k # Extra!None => k \in Extra!Cookies
        OBVIOUS
    <2>2. k = Extra!None => k \notin Extra!Cookies
        BY DEF Extra!None, Extra!Cookies
    <2> QED
        BY <1>1, <2>1, <2>2 DEF Extra!Cancelled, Good, Queues, Latest
<1>2. CASE k # Extra!None /\ q.items[k] # Extra!NoItem
    <2>1. k \in Extra!Cookies /\ q.items[k] \in [what : Whats, cancelled : BOOLEAN]
        BY <1>2 DEF Good, Queues, Items
    <2> DEFINE its == Extra!Cancelled(q.items, k)
    <2>2. its = [q.items EXCEPT ![k] = [q.items[k] EXCEPT !.cancelled = TRUE]]
        BY <1>2 DEF Extra!Cancelled
    <2>3. its[k] = [what |-> q.items[k].what, cancelled |-> TRUE]
        BY <2>1, <2>2 DEF Good, Queues
    <2>4. its[k] \in [what : Whats, cancelled : BOOLEAN] /\ its[k] # Extra!NoItem
        <3>1. q.items[k].what \in Whats
            BY <2>1
        <3>2. [what |-> q.items[k].what, cancelled |-> TRUE] \in [what : Whats, cancelled : BOOLEAN]
            BY <3>1
        <3> QED
            BY <2>3, <3>2, WhatsAreNotNone
    <2>5. its \in [Extra!Cookies -> Items]
        BY <2>1, <2>2, <2>3, <2>4 DEF Good, Queues, Items
    <2>6. \A j \in Extra!Cookies : j # k => its[j] = q.items[j]
        BY <2>2 DEF Good, Queues
    <2>7. Latest([q EXCEPT !.items = its])
        BY <2>3, <2>6 DEF Good, Queues, Latest
    <2>8. Extra!Vacant(its) = Extra!Vacant(q.items)
        BY <1>2, <2>1, <2>4, <2>6 DEF Extra!Vacant
    <2> QED
        BY <2>3, <2>5, <2>6, <2>7, <2>8
<1> QED
    BY <1>1, <1>2

(* Scheduling a timer anew keeps the queue good, and takes at most one     *)
(* vacant place (schedule_physics_update, schedule_view_update).           *)
LEMMA RescheduledGood ==
    ASSUME NEW q, Good(q), NEW o \in Extra!Timers, NEW again \in BOOLEAN,
           again => Extra!Vacant(q.items) # {}
    PROVE  /\ Good(Extra!Rescheduled(q, o, again))
           /\ \E k \in Extra!Cookies \cup {Extra!None} :
                Extra!Vacant(q.items) \ {k}
                    \subseteq Extra!Vacant(Extra!Rescheduled(q, o, again).items)
<1> DEFINE its == Extra!Cancelled(q.items, q.timers[o])
           k0 == Extra!NewCookie(its)
<1>1. q.timers[o] \in Extra!Cookies \cup {Extra!None} /\ o \in Whats
    BY DEF Good, Queues, Whats
<1>2. /\ its \in [Extra!Cookies -> Items]
      /\ Latest([q EXCEPT !.items = its])
      /\ Extra!Vacant(its) = Extra!Vacant(q.items)
      /\ \A j \in Extra!Cookies : j # q.timers[o] => its[j] = q.items[j]
      /\ q.timers[o] \in Extra!Cookies /\ q.items[q.timers[o]] # Extra!NoItem
            => its[q.timers[o]].cancelled
    BY <1>1, CancelledGood
(* Nothing is left that could run for this timer. *)
<1>3. \A j \in Extra!Cookies : its[j] # Extra!NoItem /\ its[j].what = o => its[j].cancelled
    <2> SUFFICES ASSUME NEW j \in Extra!Cookies, its[j] # Extra!NoItem,
                        its[j].what = o, ~its[j].cancelled
                 PROVE  FALSE
        OBVIOUS
    <2>1. q.timers[o] = j
        BY <1>2 DEF Latest, Good, Queues
    <2>2. q.items[j] # Extra!NoItem
        BY <1>2 DEF Extra!Vacant
    <2> QED
        BY <1>2, <2>1, <2>2
<1>4. \A j \in Extra!Cookies :
        its[j] # Extra!NoItem => its[j] \in [what : Whats, cancelled : BOOLEAN]
    BY <1>2 DEF Items
<1>5. CASE ~again
    <2>1. Extra!Rescheduled(q, o, again)
            = [items |-> its, timers |-> [q.timers EXCEPT ![o] = Extra!None]]
        BY <1>5 DEF Extra!Rescheduled
    <2>2. [q.timers EXCEPT ![o] = Extra!None]
            \in [Extra!Timers -> Extra!Cookies \cup {Extra!None}]
        BY DEF Good, Queues
    <2>3. \A j \in Extra!Cookies :
            its[j] # Extra!NoItem /\ ~its[j].cancelled /\ its[j].what \in Extra!Timers
                => [q.timers EXCEPT ![o] = Extra!None][its[j].what] = j
        BY <1>2, <1>3 DEF Latest, Good, Queues
    <2> QED
        BY <1>2, <2>1, <2>2, <2>3 DEF Good, Queues, Latest
<1>6. CASE again
    <2> DEFINE new == [what |-> o, cancelled |-> FALSE]
               q1 == [items |-> [its EXCEPT ![k0] = new],
                      timers |-> [q.timers EXCEPT ![o] = k0]]
    <2>1. Extra!Rescheduled(q, o, again) = q1
        BY <1>6 DEF Extra!Rescheduled
    <2>2. k0 \in Extra!Vacant(its) /\ k0 \in Extra!Cookies
        BY <1>2, <1>6, NewIsVacant DEF Extra!Vacant
    <2>3. new \in Items
        BY <1>1 DEF Items
    <2>4. q1 \in Queues
        BY <1>2, <2>2, <2>3 DEF Good, Queues
    <2>5. ASSUME NEW j \in Extra!Cookies, q1.items[j] # Extra!NoItem, ~q1.items[j].cancelled,
                 q1.items[j].what \in Extra!Timers
          PROVE  q1.timers[q1.items[j].what] = j
        <3>1. CASE j = k0
            <4>1. q1.items[j] = new
                BY <1>2, <2>2, <3>1
            <4> QED
                BY <3>1, <4>1 DEF Good, Queues
        <3>2. CASE j # k0
            <4>1. q1.items[j] = its[j]
                BY <1>2, <3>2
            <4>2. its[j].what # o
                BY <1>3, <2>5, <4>1
            <4>3. q.timers[its[j].what] = j
                BY <1>2, <2>5, <4>1 DEF Latest, Good, Queues
            <4> QED
                BY <2>5, <4>1, <4>2, <4>3 DEF Good, Queues
        <3> QED
            BY <3>1, <3>2
    <2>6. Latest(q1)
        BY <2>5 DEF Latest
    <2>7. Extra!Vacant(q.items) \ {k0} \subseteq Extra!Vacant(q1.items)
        BY <1>2, <2>2 DEF Extra!Vacant
    <2> QED
        BY <2>1, <2>2, <2>4, <2>6, <2>7 DEF Good
<1> QED
    BY <1>5, <1>6

(* The same for the view update of whoever follows an entity. *)
LEMMA ViewScheduledGood ==
    ASSUME NEW q, Good(q), NEW e, NEW again \in BOOLEAN,
           again => Extra!Vacant(q.items) # {}
    PROVE  Good(Extra!ViewScheduled(q, e, again))
<1>1. CASE Extra!Owners(e) = {}
    BY <1>1 DEF Extra!ViewScheduled
<1>2. CASE Extra!Owners(e) # {}
    <2> DEFINE c == CHOOSE c \in Extra!Owners(e) : TRUE
    <2>1. Extra!View(c) \in Extra!Timers
        BY <1>2 DEF Extra!Owners, Extra!Clients, Extra!Timers
    <2>2. Extra!ViewScheduled(q, e, again) = Extra!Rescheduled(q, Extra!View(c), again)
        BY <1>2 DEF Extra!ViewScheduled
    <2> QED
        BY <2>1, <2>2, RescheduledGood
<1> QED
    BY <1>1, <1>2

(* An item that comes back leaves its place vacant, and the rest as it is. *)
LEMMA RetrievedGood ==
    ASSUME Good(Extra!Queue), NEW k \in Extra!Cookies
    PROVE  /\ Good(Extra!Retrieved(k))
           /\ k \in Extra!Vacant(Extra!Retrieved(k).items)
           /\ Extra!Vacant(waiting) \subseteq Extra!Vacant(Extra!Retrieved(k).items)
<1>1. /\ Extra!Retrieved(k) = [items |-> [waiting EXCEPT ![k] = Extra!NoItem], timers |-> timers]
      /\ waiting \in [Extra!Cookies -> Items]
      /\ timers \in [Extra!Timers -> Extra!Cookies \cup {Extra!None}]
    BY DEF Extra!Retrieved, Extra!Queue, Good, Queues
<1>2. Extra!Retrieved(k) \in Queues
    BY <1>1 DEF Queues, Items
<1>3. Latest(Extra!Retrieved(k))
    BY <1>1 DEF Latest, Good, Extra!Queue
<1> QED
    BY <1>1, <1>2, <1>3 DEF Good, Extra!Vacant

(* A new motion takes two places at most: the item's own, and another. *)
LEMMA MotionChangedGood ==
    ASSUME NEW q, Good(q), NEW e \in Extra!Eids, NEW again \in BOOLEAN,
           NEW i \in Extra!Vacant(q.items), NEW j \in Extra!Vacant(q.items), i # j
    PROVE  Good(Extra!MotionChanged(q, e, again))
<1> DEFINE q1 == Extra!Rescheduled(q, Extra!Physics(e), TRUE)
<1>1. Extra!Physics(e) \in Extra!Timers
    BY DEF Extra!Timers
<1>2. /\ Good(q1)
      /\ \E k \in Extra!Cookies \cup {Extra!None} :
            Extra!Vacant(q.items) \ {k} \subseteq Extra!Vacant(q1.items)
    BY <1>1, RescheduledGood
<1> HIDE DEF q1
<1>3. PICK k : Extra!Vacant(q.items) \ {k} \subseteq Extra!Vacant(q1.items)
    BY <1>2
<1>4. Extra!Vacant(q1.items) # {}
    BY <1>3
<1> QED
    BY <1>2, <1>4, ViewScheduledGood DEF Extra!MotionChanged, q1

-----------------------------------------------------------------------------

(* The types of the queue follow from TypeOK, and give LatestTimer. *)
LEMMA GoodMeansLatest ==
    ExtraGood => Extra!LatestTimer
<1> SUFFICES ASSUME ExtraGood, NEW k \in Extra!Live,
                    ~waiting[k].cancelled, waiting[k].what \in Extra!Timers
             PROVE  timers[waiting[k].what] = k
    BY DEF Extra!LatestTimer
<1>1. k \in Extra!Cookies /\ waiting[k] # Extra!NoItem
    BY DEF Extra!Live, Extra!Vacant
<1> QED
    BY <1>1 DEF ExtraGood, Good, Latest, Extra!Queue

LEMMA ExtraInit ==
    Extra!Init => ExtraGood
<1> SUFFICES ASSUME Extra!Init PROVE Good(Extra!Queue)
    BY DEF ExtraGood
<1>1. Extra!Queue \in Queues
    BY DEF Extra!Init, Extra!Queue, Queues, Items
<1>2. Latest(Extra!Queue)
    BY DEF Extra!Init, Extra!Queue, Latest
<1> QED
    BY <1>1, <1>2 DEF Good

LEMMA ExtraNext ==
    ASSUME ExtraGood, [Extra!Next]_Extra!vars
    PROVE  ExtraGood'
<1> USE DEF ExtraGood
<1>1. Extra!Room => Extra!Vacant(waiting) # {}
    BY DEF Extra!Room
<1>2. ASSUME NEW q, Good(q), Extra!Become(q) PROVE ExtraGood'
    <2>1. Extra!Queue' = [items |-> q.items, timers |-> q.timers]
        BY <1>2 DEF Extra!Become, Extra!Queue
    <2>2. q = [items |-> q.items, timers |-> q.timers]
        BY <1>2 DEF Good, Queues
    <2>3. Extra!Queue' = q
        BY <2>1, <2>2
    <2> QED
        BY <1>2, <2>3
<1>3. UNCHANGED <<waiting, timers>> => ExtraGood'
    BY DEF Extra!Queue
<1>4. ASSUME NEW e \in Extra!Eids, Extra!Room,
             Extra!Become(Extra!Rescheduled(Extra!Queue, Extra!Physics(e), TRUE))
      PROVE  ExtraGood'
    <2>1. Extra!Physics(e) \in Extra!Timers /\ Extra!Vacant(Extra!Queue.items) # {}
        BY <1>1, <1>4 DEF Extra!Timers, Extra!Queue
    <2> QED
        BY <1>2, <1>4, <2>1, RescheduledGood
<1>5. ASSUME NEW e \in Extra!Eids, Extra!CreateEntity(e) PROVE ExtraGood'
    BY <1>4, <1>5 DEF Extra!CreateEntity
<1>6. ASSUME NEW e \in Extra!Eids, Extra!DestroyEntity(e) PROVE ExtraGood'
    BY <1>3, <1>6 DEF Extra!DestroyEntity
<1>7. ASSUME NEW e \in Extra!Eids, Extra!Register(e) PROVE ExtraGood'
    BY <1>4, <1>7 DEF Extra!Register
<1>8. ASSUME NEW c \in Extra!Cids, NEW e \in Extra!Eids, Extra!Login(c, e) PROVE ExtraGood'
    BY <1>4, <1>8 DEF Extra!Login
<1>9. ASSUME NEW c \in Extra!Cids, Extra!Logout(c) PROVE ExtraGood'
    BY <1>3, <1>9 DEF Extra!Logout
<1>10. ASSUME NEW c \in Extra!Cids, Extra!InputRequest(c) PROVE ExtraGood'
    <2> DEFINE k0 == Extra!NewCookie(waiting)
               new == [what |-> Extra!Input(c), cancelled |-> FALSE]
    <2>1. k0 \in Extra!Cookies
        BY <1>1, <1>10, NewIsVacant DEF Extra!InputRequest, Extra!Vacant
    <2>2. /\ waiting \in [Extra!Cookies -> Items]
          /\ timers \in [Extra!Timers -> Extra!Cookies \cup {Extra!None}]
        BY DEF Good, Queues, Extra!Queue
    <2>3. waiting' = [waiting EXCEPT ![k0] = new] /\ timers' = timers
        BY <1>10 DEF Extra!InputRequest
    <2>4. new \in Items
        BY DEF Items, Whats
    <2>5. Extra!Queue' \in Queues
        BY <2>1, <2>2, <2>3, <2>4 DEF Extra!Queue, Queues
    <2>6. new.what \notin Extra!Timers
        BY InputIsNoTimer
    <2>7. Latest(Extra!Queue')
        BY <2>1, <2>2, <2>3, <2>6 DEF Latest, Good, Extra!Queue
    <2> QED
        BY <2>5, <2>7 DEF Good
<1>11. ASSUME NEW k \in Extra!Cookies, Extra!RetrieveCancelled(k) PROVE ExtraGood'
    BY <1>2, <1>11, RetrievedGood DEF Extra!RetrieveCancelled
<1>12. ASSUME NEW k \in Extra!Cookies, NEW e \in Extra!Eids, NEW again \in BOOLEAN,
              Extra!RetrieveMotion(k, e, again)
       PROVE  ExtraGood'
    <2>1. Good(Extra!Retrieved(k)) /\ k \in Extra!Vacant(Extra!Retrieved(k).items)
          /\ Extra!Vacant(waiting) \subseteq Extra!Vacant(Extra!Retrieved(k).items)
        BY RetrievedGood
    <2>2. k \notin Extra!Vacant(waiting) /\ Extra!Vacant(waiting) # {}
        BY <1>12 DEF Extra!RetrieveMotion, Extra!Live
    <2>3. PICK j \in Extra!Vacant(waiting) : j # k
        BY <2>2
    <2>4. Good(Extra!MotionChanged(Extra!Retrieved(k), e, again))
        BY <2>1, <2>3, MotionChangedGood
    <2>5. CASE e \in entities
        BY <1>2, <1>12, <2>4, <2>5 DEF Extra!RetrieveMotion
    <2>6. CASE e \notin entities
        BY <1>2, <1>12, <2>1, <2>6 DEF Extra!RetrieveMotion
    <2> QED
        BY <2>5, <2>6
<1>13. ASSUME NEW k \in Extra!Cookies, NEW c \in Extra!Cids, NEW again \in BOOLEAN,
              Extra!RetrieveView(k, c, again)
       PROVE  ExtraGood'
    <2>1. Good(Extra!Retrieved(k)) /\ k \in Extra!Vacant(Extra!Retrieved(k).items)
        BY RetrievedGood
    <2>2. Good(Extra!ViewScheduled(Extra!Retrieved(k), pawn[c].eid, again))
        BY <2>1, ViewScheduledGood
    <2>3. CASE c \in Extra!Clients /\ pawn[c].eid # Extra!None
        BY <1>2, <1>13, <2>2, <2>3 DEF Extra!RetrieveView
    <2>4. CASE ~(c \in Extra!Clients /\ pawn[c].eid # Extra!None)
        BY <1>2, <1>13, <2>1, <2>4 DEF Extra!RetrieveView
    <2> QED
        BY <2>3, <2>4
<1>14. ASSUME NEW k \in Extra!Cookies, NEW c \in Extra!Cids, Extra!RetrieveIdleInput(k, c)
       PROVE  ExtraGood'
    BY <1>2, <1>14, RetrievedGood DEF Extra!RetrieveIdleInput
<1>15. UNCHANGED Extra!vars => ExtraGood'
    BY <1>3 DEF Extra!vars
<1> QED
    BY <1>5, <1>6, <1>7, <1>8, <1>9, <1>10, <1>11, <1>12, <1>13, <1>14, <1>15
       DEF Extra!Next, Extra!Retrieve

(* An entity never has two physics updates going, nor a client two view    *)
(* updates, however old the cookies are that logic/extra.rs remembers.     *)
THEOREM LatestTimerHolds ==
    Extra!Spec => []Extra!LatestTimer
<1>1. Extra!Init => ExtraGood
    BY ExtraInit
<1>2. ExtraGood /\ [Extra!Next]_Extra!vars => ExtraGood'
    BY ExtraNext
<1>3. ExtraGood => Extra!LatestTimer
    BY GoodMeansLatest
<1> QED
    BY <1>1, <1>2, <1>3, PTL DEF Extra!Spec
=============================================================================
