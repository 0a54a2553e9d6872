-------------------------- MODULE TimerWheel_proofs ---------------------------
(***************************************************************************)
(* The hashed wheel implements the set of pending wakes, for any lengths   *)
(* of a bucket, of a turn and of the interval between updates that divide  *)
(* one another as the code's do, and for any cookies.                      *)
(***************************************************************************)
EXTENDS TimerWheel, TLAPS

USE TimerWheelAssumption

-----------------------------------------------------------------------------
(* Quotients and remainders.                                               *)

(* Division with remainder.                                                *)
LEMMA Divided ==
    ASSUME NEW a \in Int, NEW m \in Nat \ {0}
    PROVE  /\ (a % m) \in 0 .. m - 1 /\ (a \div m) \in Int
           /\ a = m * (a \div m) + (a % m)
  OBVIOUS

(* It is unique.                                                           *)
LEMMA Remainder ==
    ASSUME NEW q \in Int, NEW m \in Nat \ {0}, NEW r \in 0 .. m - 1
    PROVE  (m * q + r) % m = r /\ (m * q + r) \div m = q
  OBVIOUS

(* Full turns do not change it.                                            *)
LEMMA FullTurns ==
    ASSUME NEW a \in Int, NEW m \in Nat \ {0}, NEW k \in Int
    PROVE  (a + m * k) % m = a % m
<1>1. PICK q \in Int, r \in 0 .. m - 1 : a = m * q + r
  BY Divided
<1> DEFINE p == q + k
<1>2. a + m * k = m * p + r
  BY <1>1
<1>3. p \in Int
  OBVIOUS
<1> HIDE DEF p
<1>4. (m * p + r) % m = r
  BY <1>3, Remainder
<1>5. a % m = r
  BY <1>1, Remainder
<1> QED
  BY <1>2, <1>4, <1>5

(* A multiple is one.                                                      *)
LEMMA Multiple ==
    ASSUME NEW m \in Nat \ {0}, NEW b \in Nat \ {0}, m % b = 0
    PROVE  \E n \in Nat \ {0} : m = b * n
  OBVIOUS

(* Two places in a turn of n buckets of b.                                 *)
LEMMA Place ==
    ASSUME NEW b \in Nat \ {0}, NEW n \in Nat \ {0}, NEW i \in 0 .. n - 1, NEW o \in 0 .. b - 1
    PROVE  /\ b * i + o \in 0 .. b * n - 1
           /\ (b * i + o) \div b = i /\ (b * i + o) % b = o
<1>1. b * i + b <= b * n
  <2>1. i + 1 <= n
    OBVIOUS
  <2>2. b * (i + 1) <= b * n
    BY <2>1
  <2> QED
    BY <2>2
<1>2. b * i \in Nat /\ b * n \in Nat
  OBVIOUS
<1> QED
  BY <1>1, <1>2, Remainder

(* Every place is in one of them.                                         *)
LEMMA PlaceOf ==
    ASSUME NEW b \in Nat \ {0}, NEW n \in Nat \ {0}, NEW r \in 0 .. b * n - 1
    PROVE  (r \div b) \in 0 .. n - 1 /\ (r % b) \in 0 .. b - 1 /\ r = b * (r \div b) + (r % b)
<1>1. r \in Int /\ b * n \in Nat
  OBVIOUS
<1>2. /\ (r % b) \in 0 .. b - 1 /\ (r \div b) \in Int /\ r = b * (r \div b) + (r % b)
  BY <1>1, Divided
<1> DEFINE i == r \div b
           o == r % b
<1> HIDE DEF i, o
<1>3. ~(i < 0)
  <2> SUFFICES ASSUME i < 0 PROVE FALSE
    OBVIOUS
  <2>1. b * (i + 1) <= 0
    BY <1>2 DEF i
  <2> QED
    BY <1>2, <2>1 DEF i, o
<1>4. ~(i >= n)
  <2> SUFFICES ASSUME i >= n PROVE FALSE
    OBVIOUS
  <2>1. b * i >= b * n
    BY <1>2 DEF i
  <2> QED
    BY <1>1, <1>2, <2>1 DEF i, o
<1> QED
  BY <1>2, <1>3, <1>4 DEF i

-----------------------------------------------------------------------------
(* Times and buckets.                                                      *)

Turn == WHEEL_MS \div BUCKET_MS        \* how many buckets there are
At(b, o, t) == t + ((b * BUCKET_MS + o - t) % WHEEL_MS)

(* A turn has a whole number of buckets.                                   *)
LEMMA TurnIs ==
    /\ Turn \in Nat \ {0} /\ WHEEL_MS = BUCKET_MS * Turn /\ Buckets = 0 .. Turn - 1
<1>1. PICK n \in Nat \ {0} : WHEEL_MS = BUCKET_MS * n
  BY Multiple
<1>2. n \in Int /\ WHEEL_MS = BUCKET_MS * n + 0 /\ 0 \in 0 .. BUCKET_MS - 1
  BY <1>1
<1>3. WHEEL_MS \div BUCKET_MS = n
  BY <1>2, Remainder
<1> QED
  BY <1>1, <1>3 DEF Turn, Buckets

(* A time is full turns, full buckets, and the offset a bucket keeps.      *)
LEMMA TimeIs ==
    ASSUME NEW when \in Int
    PROVE  /\ BucketIdx(when) \in Buckets /\ (when % BUCKET_MS) \in 0 .. BUCKET_MS - 1
           /\ \E q \in Int :
                when = WHEEL_MS * q + (BUCKET_MS * BucketIdx(when) + (when % BUCKET_MS))
<1> DEFINE n == Turn
           r == when % WHEEL_MS
           q == when \div WHEEL_MS
           i == r \div BUCKET_MS
           o == r % BUCKET_MS
<1>1. n \in Nat \ {0} /\ WHEEL_MS = BUCKET_MS * n /\ Buckets = 0 .. n - 1
  BY TurnIs
<1> HIDE DEF n
<1>2. r \in 0 .. WHEEL_MS - 1 /\ q \in Int /\ when = WHEEL_MS * q + r
  BY Divided
<1> HIDE DEF r, q
<1>3. i \in 0 .. n - 1 /\ o \in 0 .. BUCKET_MS - 1 /\ r = BUCKET_MS * i + o
  BY <1>1, <1>2, PlaceOf
<1>4. BucketIdx(when) = i
  BY DEF BucketIdx, r
<1> HIDE DEF i, o
<1>5. when % BUCKET_MS = o
  <2>1. when = BUCKET_MS * (n * q + i) + o
    BY <1>1, <1>2, <1>3
  <2>2. n * q + i \in Int
    BY <1>1, <1>2, <1>3
  <2> QED
    BY <1>3, <2>1, <2>2, Remainder
<1> QED
  BY <1>1, <1>2, <1>3, <1>4, <1>5

(* What a bucket keeps of a time within the coming turn gives it back.     *)
LEMMA KeptTime ==
    ASSUME NEW t \in Int, NEW when \in Int, t <= when, when < t + WHEEL_MS
    PROVE  At(BucketIdx(when), when % BUCKET_MS, t) = when
<1> DEFINE i == BucketIdx(when)
           o == when % BUCKET_MS
<1>1. PICK q \in Int : when = WHEEL_MS * q + (BUCKET_MS * i + o)
  BY TimeIs
<1>2. i \in Int /\ o \in Int
  BY TimeIs DEF Buckets
<1> HIDE DEF i, o
<1>3. i * BUCKET_MS + o - t = (when - t) + WHEEL_MS * (-q)
  BY <1>1, <1>2
<1>4. (i * BUCKET_MS + o - t) % WHEEL_MS = (when - t) % WHEEL_MS
  <2>1. PICK a \in Int, k \in Int : a = when - t /\ k = -q
    BY <1>1
  <2>2. (a + WHEEL_MS * k) % WHEEL_MS = a % WHEEL_MS
    BY FullTurns
  <2> QED
    BY <1>3, <2>1, <2>2
<1>5. (when - t) % WHEEL_MS = when - t
  <2>1. when - t = WHEEL_MS * 0 + (when - t) /\ when - t \in 0 .. WHEEL_MS - 1
    OBVIOUS
  <2> QED
    BY <2>1, Remainder
<1> QED
  BY <1>4, <1>5 DEF At, i, o

(* An entry of a bucket stands for a time within the coming turn, which    *)
(* is kept as that entry of that bucket.                                   *)
LEMMA StandsFor ==
    ASSUME NEW t \in Int, NEW b \in Buckets, NEW o \in 0 .. BUCKET_MS - 1
    PROVE  /\ At(b, o, t) \in Int /\ t <= At(b, o, t) /\ At(b, o, t) < t + WHEEL_MS
           /\ BucketIdx(At(b, o, t)) = b /\ At(b, o, t) % BUCKET_MS = o
<1> DEFINE n == Turn
           x == b * BUCKET_MS + o
           T == At(b, o, t)
<1>1. n \in Nat \ {0} /\ WHEEL_MS = BUCKET_MS * n /\ b \in 0 .. n - 1
  BY TurnIs
<1> HIDE DEF n
<1>2. /\ x \in 0 .. WHEEL_MS - 1 /\ x \div BUCKET_MS = b /\ x % BUCKET_MS = o
      /\ x = BUCKET_MS * b + o
  <2>1. b * BUCKET_MS = BUCKET_MS * b
    BY <1>1
  <2> QED
    BY <1>1, <2>1, Place
<1> HIDE DEF x
<1>3. PICK q \in Int, s \in 0 .. WHEEL_MS - 1 :
        x - t = WHEEL_MS * q + s /\ s = (x - t) % WHEEL_MS
  <2>1. x - t \in Int
    BY <1>2
  <2> QED
    BY <2>1, Divided
<1>4. T = t + s
  <2>1. b * BUCKET_MS + o - t = x - t
    BY <1>1 DEF x
  <2> QED
    BY <1>3, <2>1 DEF At
<1> HIDE DEF T
<1>5. T = WHEEL_MS * (-q) + x /\ -q \in Int
  BY <1>2, <1>3, <1>4
<1>6. T % WHEEL_MS = x
  BY <1>2, <1>5, Remainder
<1>7. BucketIdx(T) = b
  BY <1>2, <1>6 DEF BucketIdx
<1>8. T % BUCKET_MS = o
  <2>1. T = BUCKET_MS * (b - n * q) + o /\ b - n * q \in Int
    BY <1>1, <1>2, <1>5
  <2> QED
    BY <2>1, Remainder
<1> QED
  BY <1>3, <1>4, <1>7, <1>8 DEF T

(* An entry of the current bucket is due before the next one.              *)
LEMMA CurrentBucket ==
    ASSUME NEW t \in Int, t % BUCKET_MS = 0, NEW o \in 0 .. BUCKET_MS - 1
    PROVE  At(BucketIdx(t), o, t) = t + o
<1> DEFINE i == BucketIdx(t)
<1>1. PICK q \in Int : t = WHEEL_MS * q + (BUCKET_MS * i + 0)
  BY TimeIs
<1>2. i \in Int
  BY TimeIs DEF Buckets
<1> HIDE DEF i
<1>3. i * BUCKET_MS + o - t = WHEEL_MS * (-q) + o
  BY <1>1, <1>2
<1>4. o \in 0 .. WHEEL_MS - 1
  <2>1. o \in 0 .. BUCKET_MS - 1 /\ BUCKET_MS * 1 <= BUCKET_MS * Turn
    BY TurnIs
  <2> QED
    BY <2>1, TurnIs
<1>5. (WHEEL_MS * (-q) + o) % WHEEL_MS = o
  <2>1. -q \in Int
    BY <1>1
  <2> QED
    BY <1>4, <2>1, Remainder
<1> QED
  BY <1>3, <1>5 DEF At, i

(* Nothing else is: when the wheel advances, the entries of the other      *)
(* buckets keep the times they stand for.                                  *)
LEMMA OtherBucket ==
    ASSUME NEW t \in Int, t % BUCKET_MS = 0, NEW b \in Buckets, b # BucketIdx(t),
           NEW o \in 0 .. BUCKET_MS - 1
    PROVE  At(b, o, t) >= t + BUCKET_MS /\ At(b, o, t + BUCKET_MS) = At(b, o, t)
<1> DEFINE T == At(b, o, t)
           i == BucketIdx(t)
<1>1. /\ T \in Int /\ t <= T /\ T < t + WHEEL_MS
      /\ BucketIdx(T) = b /\ T % BUCKET_MS = o
  BY StandsFor
<1> HIDE DEF T
<1>2. T >= t + BUCKET_MS
  <2> SUFFICES ASSUME T < t + BUCKET_MS PROVE BucketIdx(T) = i
    BY <1>1
  <2> DEFINE j == T - t
  <2>1. j \in 0 .. BUCKET_MS - 1 /\ T = t + j
    BY <1>1
  <2> HIDE DEF j
  <2>2. PICK q \in Int : t = WHEEL_MS * q + (BUCKET_MS * i + 0)
    BY TimeIs
  <2>3. i \in 0 .. Turn - 1
    BY TimeIs, TurnIs
  <2> HIDE DEF i
  <2> DEFINE x == BUCKET_MS * i + j
  <2>4. x \in 0 .. WHEEL_MS - 1 /\ x \div BUCKET_MS = i
    BY <2>1, <2>3, TurnIs, Place
  <2>5. T = WHEEL_MS * q + x
    BY <2>1, <2>2, <2>3
  <2> HIDE DEF x
  <2>6. T % WHEEL_MS = x
    BY <2>4, <2>5, Remainder
  <2> QED
    BY <2>4, <2>6 DEF BucketIdx
<1>3. At(b, o, t + BUCKET_MS) = T
  <2>1. t + BUCKET_MS \in Int /\ t + BUCKET_MS <= T /\ T < t + BUCKET_MS + WHEEL_MS
    BY <1>1, <1>2
  <2> QED
    BY <1>1, <2>1, KeptTime
<1> QED
  BY <1>2, <1>3 DEF T

-----------------------------------------------------------------------------
(* The wakes that buckets, `later' and a time stand for.                   *)

Stands(b, e, t) == [when |-> At(b, e.offset, t), cookie |-> e.cookie]

InBuckets(s, t, x) == \E b \in Buckets : \E e \in s[b] : x = Stands(b, e, t)
Wakes(s, l, t) ==
    l \cup UNION {{Stands(b, e, t) : e \in s[b]} : b \in Buckets}

(* Pending, of any state.                                                  *)
LEMMA PendingIs == Pending = Wakes(soon, later, now)
  BY DEF Pending, Wakes, Stands, TimeOf, At

(* Membership, in place of unions.                                         *)
LEMMA InWakes ==
    ASSUME NEW s, NEW l, NEW t, NEW x
    PROVE  x \in Wakes(s, l, t) <=> x \in l \/ InBuckets(s, t, x)
  BY DEF Wakes, InBuckets

Timed == [when : Int, cookie : Cookies]

OnlyEntry(w, t) ==
    \A b \in Buckets, e \in WakeSoon : Stands(b, e, t) = w => b = BucketIdx(w.when) /\ e = Soon(w)

(* A wake is the entry that stands for it, and no other.                   *)
LEMMA EntryOf ==
    ASSUME NEW t \in Int, NEW w \in Timed
    PROVE  /\ Soon(w) \in WakeSoon /\ BucketIdx(w.when) \in Buckets
           /\ t <= w.when /\ w.when < t + WHEEL_MS =>
                Stands(BucketIdx(w.when), Soon(w), t) = w
           /\ OnlyEntry(w, t)
<1>1. w.when \in Int /\ w = [when |-> w.when, cookie |-> w.cookie]
  BY DEF Timed
<1>2. Soon(w) \in WakeSoon /\ BucketIdx(w.when) \in Buckets
  BY <1>1, TimeIs DEF Soon, WakeSoon, Timed
<1>3. ASSUME t <= w.when, w.when < t + WHEEL_MS
      PROVE  Stands(BucketIdx(w.when), Soon(w), t) = w
  <2>1. At(BucketIdx(w.when), w.when % BUCKET_MS, t) = w.when
    BY <1>1, <1>3, KeptTime
  <2> QED
    BY <1>1, <2>1 DEF Stands, Soon
<1>4. ASSUME NEW b \in Buckets, NEW e \in WakeSoon, Stands(b, e, t) = w
      PROVE  b = BucketIdx(w.when) /\ e = Soon(w)
  <2>1. e.offset \in 0 .. BUCKET_MS - 1 /\ e = [offset |-> e.offset, cookie |-> e.cookie]
    BY DEF WakeSoon
  <2>2. w.when = At(b, e.offset, t) /\ w.cookie = e.cookie
    BY <1>4 DEF Stands
  <2>3. BucketIdx(w.when) = b /\ w.when % BUCKET_MS = e.offset
    BY <2>1, <2>2, StandsFor
  <2> QED
    BY <2>1, <2>2, <2>3 DEF Soon
<1> QED
  BY <1>2, <1>3, <1>4 DEF OnlyEntry

(* What hanging wakes in the buckets adds to them.                         *)
Filled(s) == s \in [Buckets -> SUBSET WakeSoon]

Hung(s, ws, t, x) ==
    /\ Filled(x)
    /\ \A v : InBuckets(x, t, v) <=> InBuckets(s, t, v) \/ v \in ws
    /\ \A b \in Buckets : \A e \in x[b] : e \in s[b] \/ \E w \in ws : e = Soon(w)

(* Each wake goes into the bucket of its time, and stands for it there.    *)
LEMMA Hanging ==
    ASSUME NEW t \in Int, NEW s, Filled(s), NEW ws \in SUBSET Timed,
           \A w \in ws : t <= w.when /\ w.when < t + WHEEL_MS
    PROVE  Hung(s, ws, t, Hang(s, ws, t))
<1> DEFINE x == Hang(s, ws, t)
<1>1. \A w \in ws : ClampAt(w, t) = w
  BY DEF ClampAt, Timed
<1>2. \A b \in Buckets : x[b] = s[b] \cup {Soon(ClampAt(w, t)) : w \in
                                {v \in ws : BucketIdx(ClampAt(v, t).when) = b}}
  BY DEF Hang
<1>3. x = [b \in Buckets |-> x[b]]
  BY DEF Hang
<1> HIDE DEF x
<1>4. ASSUME NEW b \in Buckets
      PROVE  \A e : e \in x[b] <=> e \in s[b] \/ \E w \in ws : BucketIdx(w.when) = b /\ e = Soon(w)
  BY <1>1, <1>2
<1>5. \A w \in ws : Soon(w) \in WakeSoon /\ BucketIdx(w.when) \in Buckets
  BY EntryOf
<1>6. Filled(x)
  <2>1. \A b \in Buckets : x[b] \subseteq WakeSoon
    BY <1>4, <1>5 DEF Filled
  <2> QED
    BY <1>3, <2>1 DEF Filled
<1>7. ASSUME NEW v, InBuckets(x, t, v) PROVE InBuckets(s, t, v) \/ v \in ws
  <2>1. PICK b \in Buckets : \E e \in x[b] : v = Stands(b, e, t)
    BY <1>7 DEF InBuckets
  <2>2. PICK e \in x[b] : v = Stands(b, e, t)
    BY <2>1
  <2>3. CASE e \in s[b]
    BY <2>2, <2>3 DEF InBuckets
  <2>4. CASE \E w \in ws : BucketIdx(w.when) = b /\ e = Soon(w)
    <3>1. PICK w \in ws : BucketIdx(w.when) = b /\ e = Soon(w)
      BY <2>4
    <3>2. Stands(BucketIdx(w.when), Soon(w), t) = w
      BY EntryOf
    <3> QED
      BY <2>2, <3>1, <3>2
  <2> QED
    BY <1>4, <2>3, <2>4
<1>8. ASSUME NEW v, InBuckets(s, t, v) PROVE InBuckets(x, t, v)
  BY <1>4, <1>8 DEF InBuckets
<1>9. ASSUME NEW v \in ws PROVE InBuckets(x, t, v)
  <2>1. Stands(BucketIdx(v.when), Soon(v), t) = v
    BY EntryOf
  <2>2. BucketIdx(v.when) \in Buckets /\ Soon(v) \in x[BucketIdx(v.when)]
    BY <1>4, <1>5
  <2> QED
    BY <2>1, <2>2 DEF InBuckets
<1> QED
  BY <1>4, <1>6, <1>7, <1>8, <1>9 DEF Hung, x

-----------------------------------------------------------------------------
(* The inductive invariant.  What waits in `later' is beyond the turn that *)
(* began with the last update, so that no bucket can pass it; a cookie is  *)
(* in one place, so that what a cancellation takes out of its bucket does  *)
(* not also wait.                                                          *)

LastUpdate(t) == t - (t % UPDATE_INTERVAL)

IInv ==
    /\ now \in Nat /\ now % BUCKET_MS = 0
    /\ Filled(soon) /\ later \subseteq Wake
    /\ \A w \in later : w.when >= LastUpdate(now) + WHEEL_MS
    /\ \A v, w \in later : v.cookie = w.cookie => v = w
    /\ \A w \in later : \A b \in Buckets : \A e \in soon[b] : e.cookie # w.cookie

(* A bucket later, the interval goes on or a new one starts.               *)
LEMMA Intervals ==
    ASSUME NEW t \in Int, t % BUCKET_MS = 0
    PROVE  /\ LastUpdate(t) \in Int /\ LastUpdate(t) <= t
           /\ t + BUCKET_MS <= LastUpdate(t) + UPDATE_INTERVAL
           /\ (t + BUCKET_MS) % BUCKET_MS = 0
           /\ (t + BUCKET_MS) % UPDATE_INTERVAL = 0 => LastUpdate(t + BUCKET_MS) = t + BUCKET_MS
           /\ (t + BUCKET_MS) % UPDATE_INTERVAL # 0 => LastUpdate(t + BUCKET_MS) = LastUpdate(t)
<1> DEFINE r == t % UPDATE_INTERVAL
           q == t \div UPDATE_INTERVAL
           k == t \div BUCKET_MS
<1>1. r \in 0 .. UPDATE_INTERVAL - 1 /\ q \in Int /\ t = UPDATE_INTERVAL * q + r
  BY Divided
<1>2. k \in Int /\ t = BUCKET_MS * k
  BY Divided
<1>3. PICK u \in Nat \ {0} : UPDATE_INTERVAL = BUCKET_MS * u
  <2>1. UPDATE_INTERVAL \in Nat \ {0}
    OBVIOUS
  <2> QED
    BY <2>1, Multiple
<1>4. LastUpdate(t) = t - r
  BY DEF LastUpdate
<1> HIDE DEF r, q, k
<1>5. r = BUCKET_MS * (k - u * q)
  BY <1>1, <1>2, <1>3
<1> DEFINE j == k - u * q
<1>6. j \in Int
  BY <1>1, <1>2
<1> HIDE DEF j
<1>7. r = BUCKET_MS * j
  BY <1>5 DEF j
<1>8. j < u
  <2> SUFFICES ASSUME j >= u PROVE FALSE
    BY <1>6
  <2>1. BUCKET_MS * j >= BUCKET_MS * u
    BY <1>6
  <2> QED
    BY <1>1, <1>3, <1>7, <2>1
<1>9. r + BUCKET_MS <= UPDATE_INTERVAL
  <2>1. j + 1 <= u
    BY <1>6, <1>8
  <2>2. BUCKET_MS * (j + 1) <= BUCKET_MS * u
    BY <1>6, <2>1
  <2> QED
    BY <1>3, <1>6, <1>7, <2>2
<1>10. (t + BUCKET_MS) % BUCKET_MS = 0
  <2>1. t + BUCKET_MS = BUCKET_MS * (k + 1) + 0 /\ k + 1 \in Int
    BY <1>2
  <2> QED
    BY <2>1, Remainder
<1>11. CASE r + BUCKET_MS < UPDATE_INTERVAL
  <2>1. r + BUCKET_MS \in 0 .. UPDATE_INTERVAL - 1
    BY <1>1, <1>11
  <2>2. t + BUCKET_MS = UPDATE_INTERVAL * q + (r + BUCKET_MS)
    BY <1>1
  <2>3. (t + BUCKET_MS) % UPDATE_INTERVAL = r + BUCKET_MS
    BY <1>1, <2>1, <2>2, Remainder
  <2>4. LastUpdate(t + BUCKET_MS) = t - r
    BY <1>1, <2>3 DEF LastUpdate
  <2> QED
    BY <1>1, <1>4, <1>9, <1>10, <2>3, <2>4
<1>12. CASE r + BUCKET_MS = UPDATE_INTERVAL
  <2>1. t + BUCKET_MS = UPDATE_INTERVAL * (q + 1) + 0 /\ q + 1 \in Int
    BY <1>1, <1>12
  <2>2. (t + BUCKET_MS) % UPDATE_INTERVAL = 0
    BY <2>1, Remainder
  <2>3. LastUpdate(t + BUCKET_MS) = t + BUCKET_MS
    BY <2>2 DEF LastUpdate
  <2> QED
    BY <1>1, <1>4, <1>9, <1>10, <2>2, <2>3
<1> QED
  BY <1>1, <1>9, <1>11, <1>12

(* Nothing in `later' is due.                                              *)
LEMMA LaterIsLater ==
    ASSUME IInv
    PROVE  later \subseteq Timed /\ \A w \in later : w.when >= now + BUCKET_MS
<1>1. \A w \in later : w.when \in Int /\ w \in Timed
  BY DEF IInv, Wake, Timed
<1>2. LastUpdate(now) \in Int /\ now + BUCKET_MS <= LastUpdate(now) + UPDATE_INTERVAL
  BY Intervals DEF IInv
<1> QED
  BY <1>1, <1>2 DEF IInv

-----------------------------------------------------------------------------
(* Each operation preserves the invariant, and is the operation of         *)
(* WheelSpec of the same name on the wakes it stands for.                  *)

(* What is pending, before a step and after.                               *)
LEMMA InPending == \A x : x \in Pending <=> x \in later \/ InBuckets(soon, now, x)
  BY InWakes, PendingIs

(* The same after a step.                                                  *)
LEMMA InPendingAfter == \A x : x \in Pending' <=> x \in later' \/ InBuckets(soon', now', x)
<1>1. Pending' = Wakes(soon', later', now')
  BY DEF Pending, Wakes, Stands, TimeOf, At
<1> QED
  BY <1>1, InWakes

(* A cookie that the wheel does not hold is scheduled.                     *)

LEMMA ScheduleStep ==
    ASSUME IInv, NEW w \in Wake, Schedule(w)
    PROVE  IInv' /\ Abstract!Schedule(w)
<1> USE DEF IInv
<1> DEFINE v == ClampAt(w, now)
<1>1. /\ v \in Timed /\ v.cookie = w.cookie /\ v.when >= now
      /\ v.when # now => v \in Wake
      /\ v = [w EXCEPT !.when = Abstract!Clamp(w.when)]
  BY DEF ClampAt, Wake, Timed, Abstract!Clamp
<1>2. /\ now' = now
      /\ \A b \in Buckets : \A e \in soon[b] : e.cookie # w.cookie
      /\ \A x \in later : x.cookie # w.cookie
  BY DEF Schedule, Holds
<1>3. CASE TooFar(v.when)
  <2>1. soon' = soon /\ later' = later \cup {v}
    BY <1>3 DEF Schedule
  <2>2. v.when >= now + WHEEL_MS /\ v.when # now
    BY <1>1, <1>3 DEF TooFar, Timed
  <2>3. v.when >= LastUpdate(now) + WHEEL_MS
    <3>1. LastUpdate(now) \in Int /\ LastUpdate(now) <= now
      BY Intervals
    <3> QED
      BY <1>1, <2>2, <3>1 DEF Timed
  <2> HIDE DEF v
  <2>4. IInv'
    <3>1. later' \subseteq Wake /\ \A x \in later' : x.when >= LastUpdate(now) + WHEEL_MS
      BY <1>1, <2>1, <2>2, <2>3
    <3>2. \A x, y \in later' : x.cookie = y.cookie => x = y
      BY <1>1, <1>2, <2>1
    <3>3. \A x \in later' : \A b \in Buckets : \A e \in soon[b] : e.cookie # x.cookie
      BY <1>1, <1>2, <2>1
    <3> QED
      BY <1>2, <2>1, <3>1, <3>2, <3>3
  <2>5. \A x : x \in Pending' <=> x \in Pending \/ x = v
    BY <1>2, <2>1, InPending, InPendingAfter
  <2>6. Pending' = Pending \cup {v}
    BY <2>5
  <2> QED
    BY <1>1, <1>2, <2>4, <2>6 DEF Abstract!Schedule
<1>4. CASE ~TooFar(v.when)
  <2>1. soon' = Hang(soon, {v}, now) /\ later' = later
    BY <1>4 DEF Schedule
  <2>2. v.when < now + WHEEL_MS
    BY <1>1, <1>4 DEF TooFar, Timed
  <2> HIDE DEF v
  <2>3. Hung(soon, {v}, now, soon')
    <3>1. /\ now \in Int /\ {v} \in SUBSET Timed
          /\ \A x \in {v} : now <= x.when /\ x.when < now + WHEEL_MS
      BY <1>1, <2>2 DEF Timed
    <3>2. Hung(soon, {v}, now, Hang(soon, {v}, now))
      BY <3>1, Hanging
    <3> QED
      BY <2>1, <3>2
  <2>4. Soon(v).cookie = w.cookie
    BY <1>1 DEF Soon
  <2>5. \A b \in Buckets : \A e \in soon'[b] : e \in soon[b] \/ e = Soon(v)
    BY <2>3 DEF Hung
  <2>6. IInv'
    <3>1. \A x \in later' : \A b \in Buckets : \A e \in soon'[b] : e.cookie # x.cookie
      BY <1>2, <2>1, <2>4, <2>5
    <3> QED
      BY <1>2, <2>1, <2>3, <3>1 DEF Hung
  <2>7. \A x : x \in Pending' <=> x \in Pending \/ x = v
    <3>1. \A x : InBuckets(soon', now, x) <=> InBuckets(soon, now, x) \/ x = v
      BY <2>3 DEF Hung
    <3> QED
      BY <1>2, <2>1, <3>1, InPending, InPendingAfter
  <2>8. Pending' = Pending \cup {v}
    BY <2>7
  <2> QED
    BY <1>1, <1>2, <2>6, <2>8 DEF Abstract!Schedule
<1> QED
  BY <1>3, <1>4

(* A cancellation takes out what it names and nothing else.                *)
LEMMA CancelStep ==
    ASSUME IInv, NEW w \in Wake, Cancel(w)
    PROVE  /\ IInv' /\ Abstract!Cancel(w)
           /\ ret' = Call("cancel", {w}, {Abstract!Hits(w)})
<1> USE DEF IInv
<1> DEFINE b == BucketIdx(w.when)
           inSoon == w.when >= now /\ Soon(w) \in soon[b]
           inLater == w.when >= now /\ ~inSoon /\ w \in later
<1>1. /\ now' = now /\ \A v \in Pending : v.cookie = w.cookie => v.when = w.when \/ w.when < now
      /\ soon' = IF inSoon THEN [soon EXCEPT ![b] = @ \ {Soon(w)}] ELSE soon
      /\ later' = IF inLater THEN later \ {w} ELSE later
      /\ ret' = Call("cancel", {w}, {inSoon \/ inLater})
  BY DEF Cancel
<1>2. w \in Timed /\ w.when \in Nat
  BY DEF Wake, Timed
<1>3. /\ Soon(w) \in WakeSoon /\ b \in Buckets /\ Soon(w).cookie = w.cookie
      /\ \A i \in Buckets, e \in WakeSoon : Stands(i, e, now) = w => i = b /\ e = Soon(w)
  <2>1. now \in Int
    OBVIOUS
  <2>2. Soon(w) \in WakeSoon /\ b \in Buckets /\ OnlyEntry(w, now)
    BY <1>2, <2>1, EntryOf
  <2> QED
    BY <2>2 DEF OnlyEntry, Soon
<1>4. ASSUME inSoon PROVE Stands(b, Soon(w), now) = w
  <2> DEFINE v == Stands(b, Soon(w), now)
  <2>1. InBuckets(soon, now, v)
    BY <1>3, <1>4 DEF InBuckets
  <2>2. v \in Pending
    BY <2>1, InPending
  <2>3. v.cookie = w.cookie /\ v = [when |-> v.when, cookie |-> v.cookie]
    BY <1>3 DEF Stands
  <2>4. v.when = w.when
    BY <1>1, <1>2, <1>4, <2>2, <2>3
  <2> QED
    BY <1>2, <2>3, <2>4 DEF Timed
<1>5. InBuckets(soon, now, w) => Soon(w) \in soon[b]
  <2> SUFFICES ASSUME InBuckets(soon, now, w) PROVE Soon(w) \in soon[b]
    OBVIOUS
  <2>1. PICK i \in Buckets : \E e \in soon[i] : w = Stands(i, e, now)
    BY DEF InBuckets
  <2>2. PICK e \in soon[i] : w = Stands(i, e, now)
    BY <2>1
  <2>3. e \in WakeSoon
    BY <2>2 DEF Filled
  <2> QED
    BY <1>3, <2>2, <2>3
<1> HIDE DEF b
<1>6. Abstract!Hits(w) <=> inSoon \/ inLater
  <2>1. inSoon => InBuckets(soon, now, w)
    BY <1>3, <1>4 DEF InBuckets
  <2>2. w \in Pending <=> w \in later \/ InBuckets(soon, now, w)
    BY InPending
  <2> QED
    BY <1>5, <2>1, <2>2 DEF Abstract!Hits
<1>7. CASE inSoon
  <2>1. /\ soon' = [soon EXCEPT ![b] = @ \ {Soon(w)}] /\ later' = later
        /\ w \notin later
    BY <1>1, <1>3, <1>7
  <2>2. /\ Filled(soon')
        /\ \A i \in Buckets : soon'[i] = IF i = b THEN soon[b] \ {Soon(w)} ELSE soon[i]
    BY <1>3, <2>1 DEF Filled
  <2>3. IInv'
    BY <1>1, <2>1, <2>2
  <2>4. ASSUME NEW x PROVE InBuckets(soon', now, x) <=> InBuckets(soon, now, x) /\ x # w
    <3>1. ASSUME InBuckets(soon', now, x) PROVE InBuckets(soon, now, x) /\ x # w
      <4>1. PICK i \in Buckets : \E e \in soon'[i] : x = Stands(i, e, now)
        BY <3>1 DEF InBuckets
      <4>2. PICK e \in soon'[i] : x = Stands(i, e, now)
        BY <4>1
      <4>3. e \in soon[i] /\ ~(i = b /\ e = Soon(w)) /\ e \in WakeSoon
        BY <2>2, <4>2 DEF Filled
      <4> QED
        BY <1>3, <4>2, <4>3 DEF InBuckets
    <3>2. ASSUME InBuckets(soon, now, x), x # w PROVE InBuckets(soon', now, x)
      <4>1. PICK i \in Buckets : \E e \in soon[i] : x = Stands(i, e, now)
        BY <3>2 DEF InBuckets
      <4>2. PICK e \in soon[i] : x = Stands(i, e, now)
        BY <4>1
      <4>3. e \in soon'[i]
        BY <1>4, <1>7, <2>2, <3>2, <4>2
      <4> QED
        BY <4>2, <4>3 DEF InBuckets
    <3> QED
      BY <3>1, <3>2
  <2>5. \A x : x \in Pending' <=> x \in Pending /\ x # w
    BY <1>1, <2>1, <2>4, InPending, InPendingAfter
  <2>6. Pending' = Pending \ {w}
    BY <2>5
  <2> QED
    BY <1>1, <1>6, <1>7, <2>3, <2>6 DEF Abstract!Cancel
<1>8. CASE inLater
  <2>1. soon' = soon /\ later' = later \ {w}
    BY <1>1, <1>8
  <2>2. IInv'
    BY <1>1, <2>1
  <2>3. ~InBuckets(soon, now, w)
    BY <1>5, <1>8
  <2>4. \A x : x \in Pending' <=> x \in Pending /\ x # w
    BY <1>1, <2>1, <2>3, InPending, InPendingAfter
  <2>5. Pending' = Pending \ {w}
    BY <2>4
  <2> QED
    BY <1>1, <1>6, <1>8, <2>2, <2>5 DEF Abstract!Cancel
<1>9. CASE ~inSoon /\ ~inLater
  <2>1. soon' = soon /\ later' = later
    BY <1>1, <1>9
  <2>2. IInv'
    BY <1>1, <2>1
  <2>3. Pending' = Pending
    BY <1>1, <2>1 DEF Pending, TimeOf
  <2>4. (inSoon \/ inLater) = Abstract!Hits(w)
    BY <1>6, <1>9 DEF Abstract!Hits
  <2> QED
    BY <1>1, <1>6, <1>9, <2>2, <2>3, <2>4 DEF Abstract!Cancel
<1> QED
  BY <1>7, <1>8, <1>9

(* An advance fires what is due and nothing else, and what it brings into  *)
(* the wheel from `later' comes in time.                                   *)
LEMMA AdvanceStep ==
    ASSUME IInv, Advance
    PROVE  /\ IInv' /\ Abstract!Advance
           /\ ret' = Call("advance", {}, Abstract!Due)
<1> USE DEF IInv
<1> DEFINE b == BucketIdx(now)
           next == now + BUCKET_MS
           moved == IF next % UPDATE_INTERVAL = 0 THEN Reachable(next) ELSE {}
           rest == [soon EXCEPT ![b] = {}]
           fired == {[when |-> now + e.offset, cookie |-> e.cookie] : e \in soon[b]}
<1>1. /\ now' = next /\ soon' = Hang(rest, moved, next) /\ later' = later \ moved
      /\ ret' = Call("advance", {}, fired)
  BY DEF Advance
<1>2. /\ now \in Int /\ next \in Int /\ b \in Buckets /\ next \in Nat /\ next = now + BUCKET_MS
  BY TimeIs
<1>3. \A w \in later : w \in Timed /\ w.when \in Int /\ w.when >= next
  BY LaterIsLater DEF Timed
<1>4. /\ moved \in SUBSET Timed /\ moved \subseteq later
      /\ \A w \in moved : next <= w.when /\ w.when < next + WHEEL_MS
  BY <1>3 DEF Reachable
<1>5. /\ Filled(rest)
      /\ \A i \in Buckets : rest[i] = IF i = b THEN {} ELSE soon[i]
  BY <1>2 DEF Filled
<1>6. \A w \in later \ moved : w.when >= LastUpdate(next) + WHEEL_MS
  <2>1. CASE next % UPDATE_INTERVAL = 0
    <3>1. LastUpdate(next) = next
      BY <1>2, <2>1, Intervals
    <3> QED
      BY <1>2, <1>3, <2>1, <3>1 DEF Reachable
  <2>2. CASE next % UPDATE_INTERVAL # 0
    <3>1. LastUpdate(next) = LastUpdate(now)
      BY <1>2, <2>2, Intervals
    <3> QED
      BY <3>1
  <2> QED
    BY <2>1, <2>2
<1>7. next % BUCKET_MS = 0
  BY <1>2, Intervals
<1> HIDE DEF b, next, moved, rest
<1>8. Hung(rest, moved, next, soon')
  BY <1>1, <1>2, <1>4, <1>5, Hanging
<1>9. IInv'
  <2>1. \A v, w \in later' : v.cookie = w.cookie => v = w
    BY <1>1
  <2>2. ASSUME NEW w \in later', NEW i \in Buckets, NEW e \in soon'[i]
        PROVE  e.cookie # w.cookie
    <3>1. CASE e \in rest[i]
      BY <1>1, <1>5, <2>2, <3>1
    <3>2. CASE \E v \in moved : e = Soon(v)
      <4>1. PICK v \in moved : e = Soon(v)
        BY <3>2
      <4>2. e.cookie = v.cookie /\ v # w
        BY <1>1, <4>1 DEF Soon
      <4> QED
        BY <1>1, <1>4, <4>2
    <3> QED
      BY <1>8, <3>1, <3>2 DEF Hung
  <2>3. Filled(soon')
    BY <1>8 DEF Hung
  <2> QED
    BY <1>1, <1>2, <1>6, <1>7, <2>1, <2>2, <2>3
<1>10. ASSUME NEW i \in Buckets, NEW e \in soon[i]
       PROVE  /\ e \in WakeSoon /\ Stands(i, e, now) \in Timed
              /\ i = b => Stands(i, e, now) = [when |-> now + e.offset, cookie |-> e.cookie]
                         /\ now + e.offset < next
              /\ i # b => Stands(i, e, now).when >= next /\ Stands(i, e, next) = Stands(i, e, now)
  <2>1. e \in WakeSoon
    BY DEF Filled
  <2>2. e.offset \in 0 .. BUCKET_MS - 1 /\ e.cookie \in Cookies
    BY <2>1 DEF WakeSoon
  <2>3. At(i, e.offset, now) \in Int
    BY <1>2, <2>2, StandsFor
  <2>4. CASE i = b
    <3>1. At(i, e.offset, now) = now + e.offset
      BY <1>2, <2>2, <2>4, CurrentBucket DEF b
    <3> QED
      BY <1>2, <2>1, <2>2, <2>3, <2>4, <3>1 DEF Stands, Timed
  <2>5. CASE i # b
    <3>1. At(i, e.offset, now) >= next /\ At(i, e.offset, next) = At(i, e.offset, now)
      BY <1>2, <2>2, <2>5, OtherBucket DEF b
    <3> QED
      BY <2>1, <2>2, <2>3, <2>5, <3>1 DEF Stands, Timed
  <2> QED
    BY <2>4, <2>5
<1>11. \A x : x \in Abstract!Due <=> x \in Pending /\ x.when < next
  BY <1>2 DEF Abstract!Due
<1>12. \A x : x \in Abstract!Due <=> x \in fired
  <2>1. ASSUME NEW x \in fired PROVE x \in Abstract!Due
    <3>1. PICK e \in soon[b] : x = [when |-> now + e.offset, cookie |-> e.cookie]
      OBVIOUS
    <3>2. x = Stands(b, e, now) /\ x.when < next
      BY <1>2, <1>10, <3>1
    <3>3. InBuckets(soon, now, x)
      BY <1>2, <3>1, <3>2 DEF InBuckets
    <3> QED
      BY <1>11, <3>2, <3>3, InPending
  <2>2. ASSUME NEW x \in Abstract!Due PROVE x \in fired
    <3>1. x \in Pending /\ x.when < next
      BY <1>11
    <3>2. x \notin later
      BY <1>2, <1>3, <3>1
    <3>3. InBuckets(soon, now, x)
      BY <3>1, <3>2, InPending
    <3>4. PICK i \in Buckets : \E e \in soon[i] : x = Stands(i, e, now)
      BY <3>3 DEF InBuckets
    <3>5. PICK e \in soon[i] : x = Stands(i, e, now)
      BY <3>4
    <3>6. x.when \in Int
      BY <1>10, <3>5 DEF Timed
    <3>7. i = b
      BY <1>2, <1>10, <3>1, <3>5, <3>6
    <3> QED
      BY <1>10, <3>5, <3>7
  <2> QED
    BY <2>1, <2>2
<1>13. \A x : x \in Pending' <=> x \in Pending /\ x \notin Abstract!Due
  <2>1. ASSUME NEW x PROVE InBuckets(rest, next, x) <=> InBuckets(soon, now, x) /\ ~(x.when < next)
    <3>1. ASSUME InBuckets(rest, next, x)
          PROVE  InBuckets(soon, now, x) /\ ~(x.when < next)
      <4>1. PICK i \in Buckets : \E e \in rest[i] : x = Stands(i, e, next)
        BY <3>1 DEF InBuckets
      <4>2. PICK e \in rest[i] : x = Stands(i, e, next)
        BY <4>1
      <4>3. i # b /\ e \in soon[i]
        BY <1>5, <4>2
      <4>4. x = Stands(i, e, now) /\ x.when >= next /\ x.when \in Int
        BY <1>10, <4>2, <4>3 DEF Timed
      <4> QED
        BY <1>2, <4>3, <4>4 DEF InBuckets
    <3>2. ASSUME InBuckets(soon, now, x), ~(x.when < next)
          PROVE  InBuckets(rest, next, x)
      <4>1. PICK i \in Buckets : \E e \in soon[i] : x = Stands(i, e, now)
        BY <3>2 DEF InBuckets
      <4>2. PICK e \in soon[i] : x = Stands(i, e, now)
        BY <4>1
      <4>3. i # b
        BY <1>10, <3>2, <4>2
      <4>4. x = Stands(i, e, next) /\ e \in rest[i]
        BY <1>5, <1>10, <4>2, <4>3
      <4> QED
        BY <4>4 DEF InBuckets
    <3> QED
      BY <3>1, <3>2
  <2>2. ASSUME NEW x PROVE x \in Pending' <=> x \in later \/ InBuckets(rest, next, x)
    <3>1. InBuckets(soon', next, x) <=> InBuckets(rest, next, x) \/ x \in moved
      BY <1>8 DEF Hung
    <3>2. x \in Pending' <=> x \in later' \/ InBuckets(soon', next, x)
      BY <1>1, InPendingAfter
    <3> QED
      BY <1>1, <1>4, <3>1, <3>2
  <2>3. \A x \in later : ~(x.when < next)
    BY <1>2, <1>3
  <2> QED
    BY <1>11, <2>1, <2>2, <2>3, InPending
<1>14. Pending' = Pending \ Abstract!Due
  BY <1>13
<1>15. Abstract!Due = fired
  <2> HIDE DEF fired
  <2>1. Abstract!Due \subseteq fired /\ fired \subseteq Abstract!Due
    BY <1>12
  <2> QED
    BY <2>1
<1> QED
  BY <1>1, <1>9, <1>14, <1>15 DEF Abstract!Advance, next

-----------------------------------------------------------------------------

(* A wheel starts empty.                                                   *)
LEMMA InitStep == Init => IInv /\ Abstract!Init
<1> SUFFICES ASSUME Init PROVE IInv /\ Abstract!Init
  OBVIOUS
<1>1. now = Start /\ soon = [b \in Buckets |-> {}] /\ later = {} /\ ret = Call("new", {}, {})
  BY DEF Init
<1>2. IInv
  BY <1>1 DEF IInv, Filled
<1>3. \A x : x \notin Pending
  BY <1>1, InPending DEF InBuckets
<1>4. Pending = {}
  BY <1>3
<1> QED
  BY <1>1, <1>2, <1>4 DEF Abstract!Init, Abstract!NoCall, Abstract!Call, Call

(* Every step is one of WheelSpec's, or leaves what is pending as it was.  *)
LEMMA NextStep ==
    IInv /\ [Next]_vars => IInv' /\ [Abstract!Next]_<<now, Pending, ret>>
<1> SUFFICES ASSUME IInv, [Next]_vars
             PROVE  IInv' /\ [Abstract!Next]_<<now, Pending, ret>>
  OBVIOUS
<1>1. ASSUME NEW w \in Wake, Schedule(w) PROVE IInv' /\ Abstract!Next
  <2>1. IInv' /\ Abstract!Schedule(w) /\ ret' = Abstract!Call("schedule", {w}, {})
    BY <1>1, ScheduleStep DEF Schedule, Call, Abstract!Call
  <2> QED
    BY <2>1 DEF Abstract!Next, Abstract!Wake, Wake
<1>2. ASSUME NEW w \in Wake, Cancel(w) PROVE IInv' /\ Abstract!Next
  <2>1. /\ IInv' /\ Abstract!Cancel(w)
        /\ ret' = Abstract!Call("cancel", {w}, {Abstract!Hits(w)})
    BY <1>2, CancelStep DEF Call, Abstract!Call
  <2> QED
    BY <2>1 DEF Abstract!Next, Abstract!Wake, Wake
<1>3. ASSUME Advance PROVE IInv' /\ Abstract!Next
  <2>1. /\ IInv' /\ Abstract!Advance
        /\ ret' = Abstract!Call("advance", {}, Abstract!Due)
    BY <1>3, AdvanceStep DEF Call, Abstract!Call
  <2> QED
    BY <2>1 DEF Abstract!Next
<1>4. CASE UNCHANGED vars
  <2>1. IInv'
    BY <1>4 DEF IInv, vars
  <2>2. Pending' = Pending
    BY <1>4 DEF vars, Pending, TimeOf
  <2> QED
    BY <1>4, <2>1, <2>2 DEF vars
<1> QED
  BY <1>1, <1>2, <1>3, <1>4 DEF Next

(* The inductive invariant holds.                                          *)
THEOREM IInvHolds == Spec => []IInv
  BY InitStep, NextStep, PTL DEF Spec

(* What waits in `later' is never due: an update every half turn brings it *)
(* into its bucket in time (Wheel::advance).                               *)
LaterInTime == \A w \in later : w.when >= now + BUCKET_MS

(* So no wake is forgotten there, however long the turn is.                *)
THEOREM LaterInTimeHolds == Spec => []LaterInTime
<1>1. IInv => LaterInTime
  BY LaterIsLater DEF LaterInTime
<1> QED
  BY <1>1, IInvHolds, PTL

(* The hashed wheel implements the set of wakes: every advance fires       *)
(* exactly what is due and every cancellation finds exactly what it names, *)
(* whatever the lengths of buckets and turns.                              *)
THEOREM ImplementsWheelSpecHolds == Spec => ImplementsWheelSpec
  BY InitStep, NextStep, PTL DEF Spec, ImplementsWheelSpec, Abstract!Spec
=============================================================================
