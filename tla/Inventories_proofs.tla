-------------------------- MODULE Inventories_proofs --------------------------
(***************************************************************************)
(* Proofs about Inventories, for any clients, inventories, items, recipes  *)
(* and counts and without the bounds of the runs: references balance,      *)
(* whoever has an inventory open is told of its changes, browsers come to  *)
(* show what is in it, and items are neither made nor lost.                *)
(***************************************************************************)
EXTENDS Inventories, TLAPS, FiniteSetTheorems, SequenceTheorems, FunctionTheorems,
        WellFoundedInduction

Record     == [refs : Nat \ {0}, counts : Counts]
Tables ==
    /\ contents \in UNION {[S -> Counts] : S \in SUBSET Ids}
    /\ online \subseteq Clients
    /\ visible_inventories \in [Clients -> [Ids -> Nat]]
    /\ inventory_viewers \in [Ids -> SUBSET Clients]
    /\ up \in [Clients -> [Ids -> Nat]]
    /\ down \in [Clients -> Seq(Messages)]
    /\ tracked \in [Clients -> UNION {[S -> Record] : S \in SUBSET Ids}]
    /\ dialog \in [Clients -> SUBSET Ids] /\ \A c \in Clients : dialog[c] \subseteq Shown(c)

(* ComesToShow, of the messages after the k-th. *)
After(q, k, i, it, old, n) ==
    LET Saying == {l \in DOMAIN q : l > k /\ Says(q[l], i, it)} IN
    IF Saying = {} THEN old = n
    ELSE \E l \in Saying : Said(q[l], it) = n /\ \A m \in Saying : m <= l

Matches(q, k, i, old, new) == \A it \in Items : After(q, k, i, it, old[it], new[it])

(* A dialog on the way that is followed by the contents of i. *)
Renews(msg, i) == msg.kind = "open" /\ i \in msg.fresh

(* It finds the browser without i, before and when it arrives. *)
InOrder(q, t, i) ==
    \A k \in DOMAIN q : Renews(q[k], i) =>
        /\ i \in q[k].invs /\ i \notin DOMAIN t
        /\ \A l \in DOMAIN q : l < k => ~(q[l].kind = "open" /\ i \in q[l].invs)

Renewed(q, i, cs) == \A k \in DOMAIN q : Renews(q[k], i) => Matches(q, k, i, Nothing, cs)

(* What is shown, and what will be, agrees with the contents, except for   *)
(* those that the property excepts.                                        *)
Truthful(c, q, t, i, cs) ==
    <<c, i>> \notin orphan =>
        /\ Renewed(q, i, cs)
        /\ i \in DOMAIN t /\ <<c, i>> \notin blank => Matches(q, 0, i, t[i].counts, cs)

Orderly  == \A c \in Clients, i \in Ids : InOrder(down[c], tracked[c], i)
Agreeing == \A c \in Clients, i \in Exists : Truthful(c, down[c], tracked[c], i, contents[i])
Orphaned ==
    \A c \in Clients, i \in Ids \ Exists :
        visible_inventories[c][i] > 0 => <<c, i>> \in orphan

IInv ==
    /\ Tables /\ SubscribersTold /\ ReferencesBalance
    /\ Orderly /\ Agreeing /\ Orphaned

-----------------------------------------------------------------------------
(* Messages and queues of them.                                            *)

LEMMA MessageFields ==
    ASSUME NEW m \in Messages
    PROVE  /\ m.kind \in {"contents", "update", "peek", "open"}
           /\ m.kind = "contents" => m.inv \in Ids /\ m.counts \in Counts
           /\ m.kind = "update" => m.inv \in Ids /\ m.item \in Items /\ m.new \in 0 .. U8Max
           /\ m.kind = "peek" => m.inv \in Ids /\ m.fresh \subseteq Ids
           /\ m.kind = "open" => m.invs \subseteq Ids /\ m.fresh \subseteq Ids
  BY DEF Messages

LEMMA Joined ==
    ASSUME NEW q \in Seq(Messages), NEW p \in Seq(Messages)
    PROVE  /\ q \o p \in Seq(Messages)
           /\ Len(q) \in Nat /\ Len(p) \in Nat
           /\ DOMAIN q = 1 .. Len(q) /\ DOMAIN p = 1 .. Len(p)
           /\ DOMAIN (q \o p) = 1 .. Len(q) + Len(p)
           /\ \A k \in 1 .. Len(q) : (q \o p)[k] = q[k]
           /\ \A k \in 1 .. Len(p) : (q \o p)[Len(q) + k] = p[k]
<1>1. /\ q \o p \in Seq(Messages) /\ Len(q \o p) = Len(q) + Len(p)
      /\ \A k \in 1 .. Len(q) + Len(p) :
            (q \o p)[k] = IF k <= Len(q) THEN q[k] ELSE p[k - Len(q)]
  BY ConcatProperties
<1>2. /\ Len(q) \in Nat /\ Len(p) \in Nat
      /\ DOMAIN q = 1 .. Len(q) /\ DOMAIN p = 1 .. Len(p)
      /\ DOMAIN (q \o p) = 1 .. Len(q \o p)
  BY <1>1, LenProperties
<1>3. \A k \in 1 .. Len(q) : (q \o p)[k] = q[k]
  BY <1>1, <1>2
<1>4. ASSUME NEW k \in 1 .. Len(p) PROVE (q \o p)[Len(q) + k] = p[k]
  <2>1. Len(q) + k \in 1 .. Len(q) + Len(p) /\ ~(Len(q) + k <= Len(q)) /\ Len(q) + k - Len(q) = k
    BY <1>2
  <2> QED
    BY <1>1, <2>1
<1> QED
  BY <1>1, <1>2, <1>3, <1>4

LEMMA Taken ==
    ASSUME NEW q \in Seq(Messages), q # << >>
    PROVE  /\ Head(q) \in Messages /\ Tail(q) \in Seq(Messages)
           /\ Len(q) \in Nat \ {0} /\ DOMAIN q = 1 .. Len(q)
           /\ q[1] = Head(q) /\ DOMAIN Tail(q) = 1 .. Len(q) - 1
           /\ \A k \in 1 .. Len(q) - 1 : Tail(q)[k] = q[k + 1]
           /\ q = <<Head(q)>> \o Tail(q)
  BY HeadTailProperties, LenProperties, EmptySeq

LEMMA Finite ==
    ASSUME NEW q \in Seq(Messages), NEW i
    PROVE  IsFiniteSet({k \in DOMAIN q : Refers(q[k], i)})
<1> DEFINE A == {k \in DOMAIN q : Refers(q[k], i)}
<1>1. DOMAIN q = 1 .. Len(q) /\ Len(q) \in Nat
  BY LenProperties
<1>2. A \in SUBSET (1 .. Len(q)) /\ IsFiniteSet(1 .. Len(q))
  BY <1>1, FS_Interval
<1> HIDE DEF A
<1>3. IsFiniteSet(A)
  BY <1>2, FS_Subset
<1> QED
  BY <1>3 DEF A

LEMMA Numbered ==
    ASSUME NEW q \in Seq(Messages), NEW i
    PROVE  /\ OnTheWay(q, i) \in Nat
           /\ OnTheWay(q, i) = 0 <=> \A k \in DOMAIN q : ~Refers(q[k], i)
<1> DEFINE A == {k \in DOMAIN q : Refers(q[k], i)}
<1>1. IsFiniteSet(A)
  BY Finite
<1>2. Cardinality(A) \in Nat /\ (Cardinality(A) = 0 <=> A = {})
  BY <1>1, FS_CardinalityType, FS_EmptySet
<1>3. A = {} <=> \A k \in DOMAIN q : ~Refers(q[k], i)
  OBVIOUS
<1> QED
  BY <1>2, <1>3 DEF OnTheWay

LEMMA NumberedJoined ==
    ASSUME NEW q \in Seq(Messages), NEW p \in Seq(Messages), NEW i
    PROVE  OnTheWay(q \o p, i) = OnTheWay(q, i) + OnTheWay(p, i)
<1> DEFINE A == {k \in DOMAIN q : Refers(q[k], i)}
           B == {k \in DOMAIN p : Refers(p[k], i)}
           C == {k \in DOMAIN (q \o p) : Refers((q \o p)[k], i)}
           D == {k \in Len(q) + 1 .. Len(q) + Len(p) : Refers((q \o p)[k], i)}
           f == [k \in B |-> Len(q) + k]
<1>1. /\ Len(q) \in Nat /\ Len(p) \in Nat
      /\ DOMAIN q = 1 .. Len(q) /\ DOMAIN p = 1 .. Len(p)
      /\ DOMAIN (q \o p) = 1 .. Len(q) + Len(p)
      /\ \A k \in 1 .. Len(q) : (q \o p)[k] = q[k]
      /\ \A k \in 1 .. Len(p) : (q \o p)[Len(q) + k] = p[k]
  BY Joined
<1>2. IsFiniteSet(A) /\ IsFiniteSet(B) /\ Cardinality(A) \in Nat /\ Cardinality(B) \in Nat
  BY Finite, FS_CardinalityType
<1>3. C = A \cup D /\ A \cap D = {}
  BY <1>1
<1>4. f \in Bijection(B, D)
  <2>1. f \in [B -> D]
    BY <1>1
  <2>2. \A a, b \in B : f[a] = f[b] => a = b
    BY <1>1
  <2>3. ASSUME NEW d \in D PROVE \E b \in B : f[b] = d
    <3>1. d - Len(q) \in 1 .. Len(p) /\ Len(q) + (d - Len(q)) = d
      BY <1>1
    <3>2. d - Len(q) \in B
      BY <1>1, <3>1
    <3> QED
      BY <3>1, <3>2
  <2> HIDE DEF f, B, D
  <2> QED
    BY <2>1, <2>2, <2>3, Fun_IsBij
<1>5. IsFiniteSet(D) /\ Cardinality(D) = Cardinality(B)
  BY <1>2, <1>4, FS_Bijection, Fun_ExistsBij
<1>6. Cardinality(C) = Cardinality(A) + Cardinality(D) - Cardinality(A \cap D)
  BY <1>2, <1>3, <1>5, FS_Union
<1>7. Cardinality(A \cap D) = 0
  BY <1>3, FS_EmptySet
<1> HIDE DEF A, B, C, D
<1>8. Cardinality(C) = Cardinality(A) + Cardinality(B)
  BY <1>2, <1>5, <1>6, <1>7
<1> QED
  BY <1>8 DEF A, B, C, OnTheWay

LEMMA NumberedOne ==
    ASSUME NEW m \in Messages, NEW i
    PROVE  OnTheWay(<<m>>, i) = IF Refers(m, i) THEN 1 ELSE 0
<1> DEFINE A == {k \in DOMAIN <<m>> : Refers(<<m>>[k], i)}
<1>1. DOMAIN <<m>> = {1} /\ <<m>>[1] = m
  OBVIOUS
<1>2. CASE Refers(m, i)
  <2>1. A = {1}
    BY <1>1, <1>2
  <2> HIDE DEF A
  <2> QED
    BY <1>2, <2>1, FS_Singleton DEF OnTheWay, A
<1>3. CASE ~Refers(m, i)
  <2>1. A = {}
    BY <1>1, <1>3
  <2> HIDE DEF A
  <2> QED
    BY <1>3, <2>1, FS_EmptySet DEF OnTheWay, A
<1> QED
  BY <1>2, <1>3

LEMMA NumberedTaken ==
    ASSUME NEW q \in Seq(Messages), q # << >>, NEW i
    PROVE  OnTheWay(q, i) = (IF Refers(Head(q), i) THEN 1 ELSE 0) + OnTheWay(Tail(q), i)
<1>1. Head(q) \in Messages /\ Tail(q) \in Seq(Messages) /\ q = <<Head(q)>> \o Tail(q)
  BY Taken
<1>2. <<Head(q)>> \in Seq(Messages)
  BY <1>1
<1>3. OnTheWay(<<Head(q)>> \o Tail(q), i) = OnTheWay(<<Head(q)>>, i) + OnTheWay(Tail(q), i)
  BY <1>1, <1>2, NumberedJoined
<1>4. OnTheWay(<<Head(q)>>, i) = IF Refers(Head(q), i) THEN 1 ELSE 0
  BY <1>1, NumberedOne
<1> QED
  BY <1>1, <1>3, <1>4

-----------------------------------------------------------------------------
(* What a browser comes to show.                                           *)

(* Messages that say nothing of an item change nothing.                    *)
LEMMA NothingSaid ==
    ASSUME NEW q \in Seq(Messages), NEW p \in Seq(Messages), NEW k \in 0 .. Len(q),
           NEW i, NEW it, NEW old, NEW n, After(q, k, i, it, old, n),
           \A l \in DOMAIN p : ~Says(p[l], i, it)
    PROVE  After(q \o p, k, i, it, old, n)
<1> DEFINE A == {l \in DOMAIN q : l > k /\ Says(q[l], i, it)}
           C == {l \in DOMAIN (q \o p) : l > k /\ Says((q \o p)[l], i, it)}
<1>1. /\ Len(q) \in Nat /\ Len(p) \in Nat
      /\ DOMAIN q = 1 .. Len(q) /\ DOMAIN p = 1 .. Len(p)
      /\ DOMAIN (q \o p) = 1 .. Len(q) + Len(p)
      /\ \A l \in 1 .. Len(q) : (q \o p)[l] = q[l]
      /\ \A l \in 1 .. Len(p) : (q \o p)[Len(q) + l] = p[l]
  BY Joined
<1>2. \A l \in 1 .. Len(q) + Len(p) : l > Len(q) =>
            l - Len(q) \in 1 .. Len(p) /\ Len(q) + (l - Len(q)) = l
  BY <1>1
<1>3. C = A
  BY <1>1, <1>2
<1>4. \A l \in A : (q \o p)[l] = q[l]
  BY <1>1
<1> HIDE DEF A, C
<1>5. IF A = {} THEN old = n ELSE \E l \in A : Said(q[l], it) = n /\ \A m \in A : m <= l
  BY DEF After, A
<1>6. IF C = {} THEN old = n ELSE \E l \in C : Said((q \o p)[l], it) = n /\ \A m \in C : m <= l
  BY <1>3, <1>4, <1>5
<1> QED
  BY <1>6 DEF After, C

(* The last that says anything counts.                                     *)
LEMMA LastSaid ==
    ASSUME NEW q \in Seq(Messages), NEW p \in Seq(Messages), NEW k \in 0 .. Len(q),
           NEW i, NEW it, NEW old, NEW x \in DOMAIN p, Says(p[x], i, it),
           \A l \in DOMAIN p : Says(p[l], i, it) => l = x
    PROVE  After(q \o p, k, i, it, old, Said(p[x], it))
<1> DEFINE C == {l \in DOMAIN (q \o p) : l > k /\ Says((q \o p)[l], i, it)}
<1>1. /\ Len(q) \in Nat /\ Len(p) \in Nat
      /\ DOMAIN q = 1 .. Len(q) /\ DOMAIN p = 1 .. Len(p)
      /\ DOMAIN (q \o p) = 1 .. Len(q) + Len(p)
      /\ \A l \in 1 .. Len(q) : (q \o p)[l] = q[l]
      /\ \A l \in 1 .. Len(p) : (q \o p)[Len(q) + l] = p[l]
  BY Joined
<1>2. Len(q) + x \in C /\ (q \o p)[Len(q) + x] = p[x]
  BY <1>1
<1>3. ASSUME NEW m \in C PROVE m <= Len(q) + x
  <2>1. CASE m <= Len(q)
    BY <1>1, <2>1
  <2>2. CASE m > Len(q)
    <3>1. m - Len(q) \in 1 .. Len(p) /\ Len(q) + (m - Len(q)) = m
      BY <1>1, <2>2
    <3>2. m - Len(q) = x
      BY <1>1, <3>1
    <3> QED
      BY <3>1, <3>2, <1>1
  <2> QED
    BY <2>1, <2>2, <1>1
<1> HIDE DEF C
<1>4. C # {} /\ \E l \in C : Said((q \o p)[l], it) = Said(p[x], it) /\ \A m \in C : m <= l
  BY <1>2, <1>3
<1> QED
  BY <1>4 DEF After, C

(* Taking a message leaves the others to come.                             *)
LEMMA FirstTaken ==
    ASSUME NEW q \in Seq(Messages), q # << >>, NEW i, NEW it, NEW old, NEW n,
           After(q, 0, i, it, old, n)
    PROVE  After(Tail(q), 0, i, it,
                 IF Says(Head(q), i, it) THEN Said(Head(q), it) ELSE old, n)
<1> DEFINE A == {l \in DOMAIN q : l > 0 /\ Says(q[l], i, it)}
           C == {l \in DOMAIN Tail(q) : l > 0 /\ Says(Tail(q)[l], i, it)}
           new == IF Says(Head(q), i, it) THEN Said(Head(q), it) ELSE old
<1>1. /\ Len(q) \in Nat \ {0} /\ DOMAIN q = 1 .. Len(q) /\ q[1] = Head(q)
      /\ DOMAIN Tail(q) = 1 .. Len(q) - 1
      /\ \A k \in 1 .. Len(q) - 1 : Tail(q)[k] = q[k + 1]
  BY Taken
<1>2. \A l \in C : l + 1 \in A /\ Tail(q)[l] = q[l + 1] /\ l \in Int
  BY <1>1
<1>3. \A l \in A : l # 1 => l - 1 \in C /\ Tail(q)[l - 1] = q[l] /\ l \in Int
  BY <1>1
<1>4. 1 \in A <=> Says(Head(q), i, it)
  BY <1>1
<1>5. A \subseteq Nat
  BY <1>1
<1> HIDE DEF A, C
<1>6. IF A = {} THEN old = n ELSE \E l \in A : Said(q[l], it) = n /\ \A m \in A : m <= l
  BY DEF After, A
<1>7. IF C = {} THEN new = n ELSE \E l \in C : Said(Tail(q)[l], it) = n /\ \A m \in C : m <= l
  <2>1. CASE C = {}
    <3>1. A \subseteq {1}
      BY <1>3, <2>1
    <3> QED
      BY <1>1, <1>4, <1>6, <2>1, <3>1
  <2>2. CASE C # {}
    <3>1. PICK l \in A : Said(q[l], it) = n /\ \A m \in A : m <= l
      BY <1>2, <1>6, <2>2
    <3>2. l # 1
      <4>1. PICK m \in C : TRUE
        BY <2>2
      <4>2. m + 1 \in A /\ m \in Nat /\ m > 0
        BY <1>1, <1>2, <4>1 DEF C
      <4> QED
        BY <3>1, <4>2
    <3>3. l - 1 \in C /\ Tail(q)[l - 1] = q[l]
      BY <1>3, <3>2
    <3>4. \A m \in C : m <= l - 1
      BY <1>2, <1>5, <3>1
    <3> QED
      BY <2>2, <3>1, <3>3, <3>4
  <2> QED
    BY <2>1, <2>2
<1> QED
  BY <1>7 DEF After, C

LEMMA LaterTaken ==
    ASSUME NEW q \in Seq(Messages), q # << >>, NEW k \in DOMAIN q,
           NEW i, NEW it, NEW old, NEW n, After(q, k, i, it, old, n)
    PROVE  After(Tail(q), k - 1, i, it, old, n)
<1> DEFINE A == {l \in DOMAIN q : l > k /\ Says(q[l], i, it)}
           C == {l \in DOMAIN Tail(q) : l > k - 1 /\ Says(Tail(q)[l], i, it)}
<1>1. /\ Len(q) \in Nat \ {0} /\ DOMAIN q = 1 .. Len(q)
      /\ DOMAIN Tail(q) = 1 .. Len(q) - 1
      /\ \A l \in 1 .. Len(q) - 1 : Tail(q)[l] = q[l + 1]
  BY Taken
<1>2. \A l \in C : l + 1 \in A /\ l \in Int
  BY <1>1
<1>3. \A l \in A : l - 1 \in C /\ Tail(q)[l - 1] = q[l] /\ l \in Int
  BY <1>1
<1> HIDE DEF A, C
<1>6. IF A = {} THEN old = n ELSE \E l \in A : Said(q[l], it) = n /\ \A m \in A : m <= l
  BY DEF After, A
<1>7. IF C = {} THEN old = n ELSE \E l \in C : Said(Tail(q)[l], it) = n /\ \A m \in C : m <= l
  <2>1. CASE A = {}
    BY <1>2, <1>6, <2>1
  <2>2. CASE A # {}
    <3>1. PICK l \in A : Said(q[l], it) = n /\ \A m \in A : m <= l
      BY <1>6, <2>2
    <3>2. l - 1 \in C /\ Tail(q)[l - 1] = q[l]
      BY <1>3
    <3>3. \A m \in C : m <= l - 1
      BY <1>2, <1>3, <3>1
    <3> QED
      BY <3>1, <3>2, <3>3
  <2> QED
    BY <2>1, <2>2
<1> QED
  BY <1>7 DEF After, C

-----------------------------------------------------------------------------
(* Reports: the messages of update, one for each of some items.            *)

(* Sequences without repetitions. *)
Once(items) == \A k, l \in DOMAIN items : items[k] = items[l] => k = l

LEMMA Permuted ==
    ASSUME NEW S, S \subseteq Items, NEW f \in SetToSeqs(S)
    PROVE  /\ f \in Seq(Items) /\ Once(f)
           /\ \A x : x \in S <=> \E k \in DOMAIN f : f[k] = x
<1>1. f \in [1 .. Cardinality(S) -> S] /\ Once(f)
  BY DEF SetToSeqs, Once
<1>2. IsFiniteSet(S) /\ Cardinality(S) \in Nat
  BY CountsAssumption, FS_Subset, FS_CardinalityType
<1>3. f \in Injection(1 .. Cardinality(S), S)
  BY <1>1, Fun_IsInj DEF Once
<1>4. Cardinality(1 .. Cardinality(S)) = Cardinality(S)
  BY <1>2, FS_Interval
<1>5. f \in Surjection(1 .. Cardinality(S), S)
  BY <1>2, <1>3, <1>4, FS_Injection
<1>6. \A x \in S : \E k \in 1 .. Cardinality(S) : f[k] = x
  BY <1>5 DEF Surjection
<1>7. f \in Seq(Items)
  BY <1>1, <1>2
<1> QED
  BY <1>1, <1>6, <1>7

LEMMA Reporting ==
    ASSUME NEW i \in Ids, NEW items \in Seq(Items), NEW w \in Counts
    PROVE  /\ Reports(i, items, w) \in Seq(Messages)
           /\ DOMAIN Reports(i, items, w) = DOMAIN items
           /\ \A k \in DOMAIN items :
                /\ Reports(i, items, w)[k].kind = "update"
                /\ Reports(i, items, w)[k].inv = i
                /\ Reports(i, items, w)[k].item = items[k]
                /\ Reports(i, items, w)[k].new = w[items[k]]
<1> DEFINE r == Reports(i, items, w)
<1>1. /\ Len(items) \in Nat /\ DOMAIN items = 1 .. Len(items)
      /\ \A k \in DOMAIN items : items[k] \in Items
  BY LenProperties, ElementOfSeq
<1>2. r = [k \in 1 .. Len(items) |-> UpdateMsg(i, items[k], w[items[k]])]
  BY <1>1 DEF Reports
<1>3. \A k \in 1 .. Len(items) : UpdateMsg(i, items[k], w[items[k]]) \in Messages
  BY <1>1 DEF UpdateMsg, Messages, Counts
<1>4. r \in Seq(Messages)
  BY <1>1, <1>2, <1>3
<1>5. \A k \in DOMAIN items : r[k] = UpdateMsg(i, items[k], w[items[k]])
  BY <1>1, <1>2
<1> HIDE DEF r
<1>6. DOMAIN r = DOMAIN items
  BY <1>1, <1>2
<1>7. ASSUME NEW k \in DOMAIN items
      PROVE  /\ r[k].kind = "update" /\ r[k].inv = i
             /\ r[k].item = items[k] /\ r[k].new = w[items[k]]
  <2>1. r[k] = [kind |-> "update", inv |-> i, item |-> items[k], new |-> w[items[k]]]
    BY <1>5 DEF UpdateMsg
  <2> QED
    BY <2>1
<1> QED
  BY <1>4, <1>6, <1>7 DEF r

(* A browser that is told comes to show the new counts.                    *)
LEMMA MatchesReported ==
    ASSUME NEW q \in Seq(Messages), NEW k \in 0 .. Len(q), NEW i \in Ids,
           NEW items \in Seq(Items), Once(items), NEW w \in Counts,
           NEW old, NEW new, NEW v, Matches(q, k, i, old, new),
           \A x \in Items : v[x] = IF \E l \in DOMAIN items : items[l] = x THEN w[x] ELSE new[x]
    PROVE  Matches(q \o Reports(i, items, w), k, i, old, v)
<1> DEFINE r == Reports(i, items, w)
<1>1. /\ r \in Seq(Messages) /\ DOMAIN r = DOMAIN items
      /\ \A l \in DOMAIN items : /\ r[l].kind = "update" /\ r[l].inv = i
                                 /\ r[l].item = items[l] /\ r[l].new = w[items[l]]
  BY Reporting
<1> HIDE DEF r
<1>2. ASSUME NEW x \in Items PROVE After(q \o r, k, i, x, old[x], v[x])
  <2>1. CASE \E l \in DOMAIN items : items[l] = x
    <3>1. PICK l \in DOMAIN items : items[l] = x
      BY <2>1
    <3>2. l \in DOMAIN r /\ Says(r[l], i, x) /\ Said(r[l], x) = v[x]
      BY <1>1, <2>1, <3>1 DEF Says, Said
    <3>3. \A m \in DOMAIN r : Says(r[m], i, x) => m = l
      BY <1>1, <3>1 DEF Says, Once
    <3>4. After(q \o r, k, i, x, old[x], Said(r[l], x))
      BY <1>1, <3>2, <3>3, LastSaid
    <3> QED
      BY <3>2, <3>4
  <2>2. CASE ~\E l \in DOMAIN items : items[l] = x
    <3>1. \A l \in DOMAIN r : ~Says(r[l], i, x)
      BY <1>1, <2>2 DEF Says
    <3>2. After(q, k, i, x, old[x], new[x])
      BY DEF Matches
    <3>3. After(q \o r, k, i, x, old[x], new[x])
      BY <1>1, <3>1, <3>2, NothingSaid
    <3> QED
      BY <2>2, <3>3
  <2> QED
    BY <2>1, <2>2
<1> QED
  BY <1>2 DEF Matches, r

(* Other messages do not concern the inventory.                            *)
LEMMA MatchesOthers ==
    ASSUME NEW q \in Seq(Messages), NEW p \in Seq(Messages), NEW k \in 0 .. Len(q),
           NEW i, NEW old, NEW new, Matches(q, k, i, old, new),
           \A l \in DOMAIN p : \A it \in Items : ~Says(p[l], i, it)
    PROVE  Matches(q \o p, k, i, old, new)
  BY NothingSaid DEF Matches

(* Nor do messages without dialogs change what dialogs are followed by.    *)
LEMMA InOrderJoined ==
    ASSUME NEW q \in Seq(Messages), NEW p \in Seq(Messages), NEW t, NEW i, InOrder(q, t, i),
           \A l \in DOMAIN p : p[l].kind # "open"
    PROVE  InOrder(q \o p, t, i)
<1>1. /\ Len(q) \in Nat /\ Len(p) \in Nat
      /\ DOMAIN q = 1 .. Len(q) /\ DOMAIN p = 1 .. Len(p)
      /\ DOMAIN (q \o p) = 1 .. Len(q) + Len(p)
      /\ \A l \in 1 .. Len(q) : (q \o p)[l] = q[l]
      /\ \A l \in 1 .. Len(p) : (q \o p)[Len(q) + l] = p[l]
  BY Joined
<1>2. ASSUME NEW l \in DOMAIN (q \o p), Renews((q \o p)[l], i) PROVE l \in DOMAIN q
  <2>1. SUFFICES ASSUME l > Len(q) PROVE FALSE
    BY <1>1
  <2>2. l - Len(q) \in 1 .. Len(p) /\ Len(q) + (l - Len(q)) = l
    BY <1>1, <2>1
  <2> QED
    BY <1>1, <1>2, <2>2 DEF Renews
<1> QED
  BY <1>1, <1>2 DEF InOrder

LEMMA DialogsJoined ==
    ASSUME NEW q \in Seq(Messages), NEW p \in Seq(Messages), NEW i,
           \A l \in DOMAIN p : p[l].kind # "open"
    PROVE  \A l \in DOMAIN (q \o p) : Renews((q \o p)[l], i) =>
                l \in DOMAIN q /\ l \in 0 .. Len(q) /\ Renews(q[l], i)
<1>1. /\ Len(q) \in Nat /\ Len(p) \in Nat
      /\ DOMAIN q = 1 .. Len(q) /\ DOMAIN p = 1 .. Len(p)
      /\ DOMAIN (q \o p) = 1 .. Len(q) + Len(p)
      /\ \A l \in 1 .. Len(q) : (q \o p)[l] = q[l]
      /\ \A l \in 1 .. Len(p) : (q \o p)[Len(q) + l] = p[l]
  BY Joined
<1>2. ASSUME NEW l \in DOMAIN (q \o p), Renews((q \o p)[l], i) PROVE l \in DOMAIN q
  <2>1. SUFFICES ASSUME l > Len(q) PROVE FALSE
    BY <1>1
  <2>2. l - Len(q) \in 1 .. Len(p) /\ Len(q) + (l - Len(q)) = l
    BY <1>1, <2>1
  <2> QED
    BY <1>1, <1>2, <2>2 DEF Renews
<1> QED
  BY <1>1, <1>2

-----------------------------------------------------------------------------
(* The server's changes of contents.                                       *)

(* What D, the messages on the way, makes of the browsers agrees with cs.  *)
Synced(D, cs) ==
    /\ D \in [Clients -> Seq(Messages)] /\ cs \in [Exists -> Counts]
    /\ \A c \in Clients, i \in Ids :
        /\ visible_inventories[c][i] = up[c][i] + Held(tracked[c], i) + OnTheWay(D[c], i)
        /\ InOrder(D[c], tracked[c], i)
    /\ \A c \in Clients, i \in Exists : Truthful(c, D[c], tracked[c], i, cs[i])

LEMMA AllSynced == IInv => Synced(down, contents) /\ Exists \subseteq Ids
<1> SUFFICES ASSUME IInv PROVE Synced(down, contents) /\ Exists \subseteq Ids
  OBVIOUS
<1>1. contents \in [Exists -> Counts] /\ Exists \subseteq Ids
  BY DEF IInv, Tables, Exists
<1> QED
  BY <1>1 DEF IInv, Tables, ReferencesBalance, Orderly, Agreeing, Synced

(* Whoever holds a reference, or will, is in the tables.                   *)
LEMMA Viewing ==
    ASSUME IInv, NEW D, NEW cs, Synced(D, cs), NEW c \in Clients, NEW i \in Ids,
           i \in Shown(c) \/ \E k \in DOMAIN D[c] : Refers(D[c][k], i)
    PROVE  /\ visible_inventories[c][i] > 0
           /\ c \in online \cap inventory_viewers[i]
<1>1. /\ up[c][i] \in Nat /\ visible_inventories[c][i] \in Nat
      /\ Held(tracked[c], i) \in Nat
      /\ i \in Shown(c) => Held(tracked[c], i) > 0
  <2>1. up[c][i] \in Nat /\ visible_inventories[c][i] \in Nat
    BY DEF IInv, Tables
  <2>2. i \in Shown(c) => tracked[c][i].refs \in Nat \ {0}
    BY DEF IInv, Tables, Record, Shown
  <2> QED
    BY <2>1, <2>2 DEF Held, Shown
<1>2. D[c] \in Seq(Messages)
  BY DEF Synced
<1>3. /\ OnTheWay(D[c], i) \in Nat
      /\ (\E k \in DOMAIN D[c] : Refers(D[c][k], i)) => OnTheWay(D[c], i) > 0
  BY <1>2, Numbered
<1>4. visible_inventories[c][i] = up[c][i] + Held(tracked[c], i) + OnTheWay(D[c], i)
  BY DEF Synced
<1>5. visible_inventories[c][i] > 0
  BY <1>1, <1>3, <1>4
<1> QED
  BY <1>5 DEF IInv, SubscribersTold

(* One report keeps browsers and contents in step.                         *)
LEMMA ReportKeeps ==
    ASSUME IInv, NEW D, NEW cs, Synced(D, cs), NEW i \in Exists,
           NEW items \in Seq(Items), Once(items), NEW w \in Counts, NEW v \in Counts,
           \A x \in Items : v[x] = IF \E l \in DOMAIN items : items[l] = x
                                   THEN w[x] ELSE cs[i][x]
    PROVE  Synced(Both(D, Told(i, Reports(i, items, w))), [cs EXCEPT ![i] = v])
<1> DEFINE r    == Reports(i, items, w)
           p    == Told(i, r)
           E    == Both(D, p)
           ds   == [cs EXCEPT ![i] = v]
<1>0. Exists \subseteq Ids
  BY AllSynced
<1>1. /\ r \in Seq(Messages) /\ DOMAIN r = DOMAIN items
      /\ \A l \in DOMAIN items : r[l].kind = "update" /\ r[l].inv = i
  BY <1>0, Reporting
<1>2. /\ D \in [Clients -> Seq(Messages)] /\ cs \in [Exists -> Counts]
      /\ ds \in [Exists -> Counts] /\ ds[i] = v
      /\ \A j \in Exists : j # i => ds[j] = cs[j]
  BY DEF Synced
<1> HIDE DEF r, ds
<1>3. \A c \in Clients : /\ E[c] = D[c] \o p[c]
                         /\ p[c] = IF c \in inventory_viewers[i] \cap online THEN r ELSE << >>
  <2>1. \A c \in Clients : E[c] = D[c] \o p[c]
    BY DEF Both
  <2>2. \A c \in Clients : p[c] = IF c \in inventory_viewers[i] \cap online THEN r ELSE << >>
    BY DEF Told
  <2> QED
    BY <2>1, <2>2
<1> HIDE DEF E, p
<1>4. ASSUME NEW c \in Clients
      PROVE  /\ p[c] \in Seq(Messages) /\ DOMAIN p[c] \subseteq DOMAIN r
             /\ \A l \in DOMAIN p[c] : p[c][l].kind = "update" /\ p[c][l].inv = i
             /\ D[c] \in Seq(Messages)
  <2>1. CASE p[c] = r
    BY <1>1, <1>2, <2>1
  <2>2. CASE p[c] = << >>
    BY <1>2, <2>2
  <2> QED
    BY <1>3, <2>1, <2>2
<1>5. E \in [Clients -> Seq(Messages)]
  <2>1. ASSUME NEW c \in Clients PROVE E[c] \in Seq(Messages)
    <3>1. D[c] \o p[c] \in Seq(Messages)
      BY <1>4, Joined
    <3> QED
      BY <1>3, <3>1
  <2>2. DOMAIN E = Clients
    BY DEF E, Both
  <2>3. E = [c \in Clients |-> E[c]]
    BY DEF E, Both
  <2> QED
    BY <2>1, <2>3
<1>6. ASSUME NEW c \in Clients, NEW j \in Ids
      PROVE  /\ visible_inventories[c][j] = up[c][j] + Held(tracked[c], j) + OnTheWay(E[c], j)
             /\ InOrder(E[c], tracked[c], j)
  <2>1. \A l \in DOMAIN p[c] : ~Refers(p[c][l], j) /\ p[c][l].kind # "open"
    BY <1>4 DEF Refers
  <2>2. OnTheWay(p[c], j) = 0
    BY <1>4, <2>1, Numbered
  <2>3. OnTheWay(E[c], j) = OnTheWay(D[c], j)
    <3>0. OnTheWay(D[c] \o p[c], j) = OnTheWay(D[c], j) + OnTheWay(p[c], j)
      BY <1>4, NumberedJoined
    <3>1. OnTheWay(E[c], j) = OnTheWay(D[c], j) + OnTheWay(p[c], j)
      BY <1>3, <3>0
    <3>2. OnTheWay(D[c], j) \in Nat
      BY <1>4, Numbered
    <3> QED
      BY <2>2, <3>1, <3>2
  <2>4. InOrder(D[c] \o p[c], tracked[c], j)
    BY <1>4, <2>1, InOrderJoined DEF Synced
  <2> QED
    BY <1>3, <2>3, <2>4 DEF Synced
<1>7. ASSUME NEW c \in Clients, NEW j \in Exists
      PROVE  Truthful(c, E[c], tracked[c], j, ds[j])
  <2>1. ASSUME NEW k \in 0 .. Len(D[c]), NEW old, Matches(D[c], k, j, old, cs[j]),
               j \in Shown(c) \/ \E l \in DOMAIN D[c] : Refers(D[c][l], j)
        PROVE  Matches(E[c], k, j, old, ds[j])
    <3>1. CASE j = i
      <4>1. p[c] = r
        BY <1>0, <1>3, <2>1, <3>1, Viewing
      <4>2. Matches(D[c] \o Reports(i, items, w), k, i, old, v)
        BY <1>0, <1>4, <2>1, <3>1, MatchesReported
      <4> QED
        BY <1>2, <1>3, <3>1, <4>1, <4>2 DEF r
    <3>2. CASE j # i
      <4>1. \A l \in DOMAIN p[c] : \A it \in Items : ~Says(p[c][l], j, it)
        BY <1>4, <3>2 DEF Says
      <4>2. Matches(D[c] \o p[c], k, j, old, cs[j])
        BY <1>4, <2>1, <4>1, MatchesOthers
      <4> QED
        BY <1>2, <1>3, <3>2, <4>2
    <3> QED
      BY <3>1, <3>2
  <2>2. SUFFICES ASSUME <<c, j>> \notin orphan
                 PROVE  /\ Renewed(E[c], j, ds[j])
                        /\ j \in Shown(c) /\ <<c, j>> \notin blank =>
                                Matches(E[c], 0, j, tracked[c][j].counts, ds[j])
    BY DEF Truthful, Shown
  <2>3. /\ Renewed(D[c], j, cs[j])
        /\ j \in Shown(c) /\ <<c, j>> \notin blank =>
                Matches(D[c], 0, j, tracked[c][j].counts, cs[j])
    BY <2>2 DEF Synced, Truthful, Shown
  <2>4. ASSUME NEW k \in DOMAIN E[c], Renews(E[c][k], j)
        PROVE  Matches(E[c], k, j, Nothing, ds[j])
    <3>1. k \in DOMAIN D[c] /\ k \in 0 .. Len(D[c]) /\ Renews(D[c][k], j)
      <4>1. \A l \in DOMAIN p[c] : p[c][l].kind # "open"
        BY <1>4
      <4> QED
        BY <1>3, <1>4, <2>4, <4>1, DialogsJoined
    <3>2. Refers(D[c][k], j)
      BY <1>0, <3>1 DEF Synced, InOrder, Refers, Renews
    <3>3. Matches(D[c], k, j, Nothing, cs[j])
      BY <2>3, <3>1 DEF Renewed
    <3> QED
      BY <2>1, <3>1, <3>2, <3>3
  <2>5. 0 \in 0 .. Len(D[c])
    BY <1>4, LenProperties
  <2> QED
    BY <2>1, <2>3, <2>4, <2>5 DEF Renewed
<1> QED
  BY <1>2, <1>5, <1>6, <1>7 DEF Synced, E, ds, r, p

(* What the invariant is of when a request has changed contents.           *)
LEMMA BecomesKeeps ==
    ASSUME IInv, NEW cs, NEW told, Becomes(cs, told), Synced(Both(down, told), cs)
    PROVE  IInv'
<1>1. /\ contents' = cs /\ down' = Both(down, told)
      /\ UNCHANGED <<online, visible_inventories, inventory_viewers,
                     up, tracked, dialog, blank, orphan>>
  BY DEF Becomes
<1>2. /\ down' \in [Clients -> Seq(Messages)] /\ contents' \in [Exists -> Counts]
      /\ \A c \in Clients, i \in Ids :
            /\ visible_inventories[c][i] = up[c][i] + Held(tracked[c], i) + OnTheWay(down'[c], i)
            /\ InOrder(down'[c], tracked[c], i)
      /\ \A c \in Clients, i \in Exists : Truthful(c, down'[c], tracked[c], i, contents'[i])
  BY <1>1 DEF Synced
<1>3. DOMAIN contents' = DOMAIN contents /\ Exists \subseteq Ids
  BY <1>2, AllSynced DEF Exists
<1>4. Tables'
  <2>1. contents' \in UNION {[S -> Counts] : S \in SUBSET Ids}
    BY <1>2, <1>3
  <2> QED
    BY <1>1, <1>2, <2>1 DEF IInv, Tables, Shown
<1>5. SubscribersTold' /\ ReferencesBalance'
  BY <1>1, <1>2 DEF IInv, SubscribersTold, ReferencesBalance
<1>6. Orderly' /\ Orphaned'
  BY <1>1, <1>2, <1>3 DEF IInv, Orderly, Orphaned, Exists
<1>7. Agreeing'
  BY <1>1, <1>2, <1>3 DEF Agreeing, Truthful, Exists
<1> QED
  BY <1>4, <1>5, <1>6, <1>7 DEF IInv

LEMMA Clamped ==
    ASSUME NEW n \in 0 .. U8Max, NEW adjust \in Int
    PROVE  /\ UpdateItemCount(n, adjust) \in 0 .. U8Max
           /\ n + adjust \in 0 .. U8Max => UpdateItemCount(n, adjust) = n + adjust
  BY CountsAssumption DEF UpdateItemCount

LEMMA Updating ==
    ASSUME NEW cs \in [Exists -> Counts], NEW i \in Exists, NEW it \in Items, NEW n \in Int
    PROVE  /\ Updated(cs, i, it, n) \in [Exists -> Counts]
           /\ Updated(cs, i, it, n)[i] \in Counts
           /\ Updated(cs, i, it, n) = [cs EXCEPT ![i] = Updated(cs, i, it, n)[i]]
           /\ \A x \in Items : Updated(cs, i, it, n)[i][x] =
                    IF x = it THEN UpdateItemCount(cs[i][it], n) ELSE cs[i][x]
           /\ \A j \in Exists : j # i => Updated(cs, i, it, n)[j] = cs[j]
<1>1. cs[i] \in [Items -> 0 .. U8Max]
  BY DEF Counts
<1>2. UpdateItemCount(cs[i][it], n) \in 0 .. U8Max
  BY <1>1, Clamped
<1>3. [cs[i] EXCEPT ![it] = UpdateItemCount(@, n)] \in Counts
  BY <1>1, <1>2 DEF Counts
<1>4. Updated(cs, i, it, n) = [cs EXCEPT ![i] = [cs[i] EXCEPT ![it] = UpdateItemCount(@, n)]]
  BY DEF Updated
<1> QED
  BY <1>1, <1>3, <1>4

(* A report of one entry.                                                  *)
LEMMA UpdateKeeps ==
    ASSUME IInv, NEW D, NEW cs, Synced(D, cs), NEW i \in Exists, NEW it \in Items, NEW n \in Int
    PROVE  LET ds == Updated(cs, i, it, n) IN
           Synced(Both(D, Told(i, Reports(i, <<it>>, ds[i]))), ds)
<1> DEFINE ds == Updated(cs, i, it, n)
           w  == ds[i]
<1>1. cs \in [Exists -> Counts]
  BY DEF Synced
<1>2. /\ w \in Counts /\ ds = [cs EXCEPT ![i] = w]
      /\ \A x \in Items : x # it => w[x] = cs[i][x]
  BY <1>1, Updating
<1>3. <<it>> \in Seq(Items) /\ Once(<<it>>) /\ DOMAIN <<it>> = {1} /\ <<it>>[1] = it
  BY DEF Once
<1> HIDE DEF ds, w
<1>4. \A x \in Items : w[x] = IF \E l \in DOMAIN <<it>> : <<it>>[l] = x THEN w[x] ELSE cs[i][x]
  BY <1>2, <1>3
<1>5. Synced(Both(D, Told(i, Reports(i, <<it>>, w))), [cs EXCEPT ![i] = w])
  BY <1>2, <1>3, <1>4, ReportKeeps
<1> QED
  BY <1>2, <1>5 DEF ds, w

(* Telling of one thing and then of another.                               *)
LEMMA BothTold ==
    ASSUME NEW D \in [Clients -> Seq(Messages)],
           NEW i, NEW j, NEW p \in Seq(Messages), NEW r \in Seq(Messages)
    PROVE  /\ Both(Both(D, Told(i, p)), Told(j, r)) = Both(D, Both(Told(i, p), Told(j, r)))
           /\ Both(Told(i, p), Told(i, r)) = Told(i, p \o r)
<1> DEFINE a == Told(i, p)
           b == Told(j, r)
<1>1. ASSUME NEW c \in Clients
      PROVE  D[c] \in Seq(Messages) /\ a[c] \in Seq(Messages) /\ b[c] \in Seq(Messages)
  BY DEF Told
<1>2. Both(Both(D, a), b) = Both(D, Both(a, b))
  <2> HIDE DEF a, b
  <2>1. \A x, y, z \in Seq(Messages) : (x \o y) \o z = x \o (y \o z)
    BY ConcatAssociative
  <2>2. ASSUME NEW c \in Clients PROVE (D[c] \o a[c]) \o b[c] = D[c] \o (a[c] \o b[c])
    BY <1>1, <2>1
  <2> QED
    BY <2>2 DEF Both
<1>3. Both(Told(i, p), Told(i, r)) = Told(i, p \o r)
  <2>1. << >> \o << >> = << >>
    OBVIOUS
  <2> QED
    BY <2>1 DEF Both, Told
<1> QED
  BY <1>2, <1>3

LEMMA UpdateStep ==
    ASSUME IInv, NEW i \in Ids, NEW it \in Items, NEW n \in Adjusts, Update(i, it, n)
    PROVE  IInv'
<1>1. i \in Exists /\ n \in Int
  BY CountsAssumption DEF Update
<1> DEFINE cs == Updated(contents, i, it, n)
           told == Told(i, Reports(i, <<it>>, cs[i]))
<1>2. Synced(Both(down, told), cs)
  BY <1>1, AllSynced, UpdateKeeps
<1>3. Becomes(cs, told)
  BY DEF Update
<1> QED
  BY <1>2, <1>3, BecomesKeeps

(* A set of natural numbers that is not empty has a least one.             *)
LEMMA LeastNat ==
    ASSUME NEW T, T \subseteq Nat, T # {}
    PROVE  \E x \in T : \A y \in T : x <= y
<1> DEFINE below == {0 .. x : x \in T}
           R == StrictSubsetOrdering(Nat)
<1>1. IsWellFoundedOn(R, FiniteSubsetsOf(Nat))
  BY FS_StrictSubsetOrderingWellFounded
<1>2. below \subseteq FiniteSubsetsOf(Nat) /\ below # {}
  <2>1. \A x \in T : 0 .. x \subseteq Nat /\ IsFiniteSet(0 .. x)
    BY FS_Interval
  <2>2. \A x \in T : 0 .. x \in FiniteSubsetsOf(Nat)
    BY <2>1 DEF FiniteSubsetsOf
  <2>3. PICK x \in T : TRUE
    OBVIOUS
  <2>4. 0 .. x \in below
    OBVIOUS
  <2>5. below \subseteq FiniteSubsetsOf(Nat)
    BY <2>2, Zenon
  <2> QED
    BY <2>4, <2>5
<1> HIDE DEF R
<1>3. PICK X \in below : \A Y \in below : ~ (<<Y, X>> \in R)
  BY <1>1, <1>2, WFMin
<1>4. PICK x \in T : X = 0 .. x
  OBVIOUS
<1>5. ASSUME NEW y \in T, y < x PROVE FALSE
  <2>1. 0 .. y \subseteq 0 .. x /\ x \in 0 .. x /\ x \notin 0 .. y
    BY <1>5
  <2>2. 0 .. y \in SUBSET Nat /\ 0 .. x \in SUBSET Nat /\ 0 .. y # 0 .. x
    BY <2>1
  <2>3. <<0 .. y, 0 .. x>> \in R
    BY <2>1, <2>2 DEF R, StrictSubsetOrdering
  <2> QED
    BY <1>3, <1>4, <2>3
<1> QED
  BY <1>5

LEMMA LeastOf ==
    ASSUME NEW S \in SUBSET Nat, S # {}
    PROVE  Least(S) \in S /\ \A x \in S : Least(S) <= x
  BY LeastNat DEF Least

LEMMA Moved ==
    ASSUME IInv, NEW from \in Exists, NEW to \in Exists, NEW it \in Items, NEW count \in Requests
    PROVE  LET n == MoveCount(from, to, it, count) IN
           /\ n \in Nat /\ n <= contents[from][it]
           /\ n <= U8Max - contents[to][it] /\ n <= count
<1>1. contents[from][it] \in 0 .. U8Max /\ contents[to][it] \in 0 .. U8Max
  BY DEF IInv, Tables, Exists, Counts
<1>2. count \in Nat /\ U8Max \in Nat
  BY CountsAssumption
<1> DEFINE S == {contents[from][it], U8Max - contents[to][it], count}
<1>3. S \in SUBSET Nat /\ S # {}
  BY <1>1, <1>2
<1>4. Least(S) \in S /\ \A x \in S : Least(S) <= x
  BY <1>3, LeastOf
<1> QED
  BY <1>3, <1>4 DEF MoveCount

LEMMA MoveStep ==
    ASSUME IInv, NEW from \in Ids, NEW to \in Ids, NEW it \in Items, NEW count \in Requests,
           MoveItems(from, to, it, count)
    PROVE  IInv'
<1>1. from \in Exists /\ to \in Exists
  BY DEF MoveItems
<1> DEFINE n    == MoveCount(from, to, it, count)
           left == Updated(contents, from, it, -n)
           cs   == Updated(left, to, it, n)
           p    == Reports(from, <<it>>, left[from])
           r    == Reports(to, <<it>>, cs[to])
<1>2. n \in Int /\ -n \in Int
  BY <1>1, Moved
<1>3. Becomes(cs, Both(Told(from, p), Told(to, r)))
  BY DEF MoveItems
<1> HIDE DEF n
<1>4. Synced(down, contents) /\ contents \in [Exists -> Counts]
      /\ down \in [Clients -> Seq(Messages)] /\ Exists \subseteq Ids
  BY AllSynced DEF Synced
<1>5. left \in [Exists -> Counts] /\ left[from] \in Counts
  BY <1>1, <1>2, <1>4, Updating
<1>6. Synced(Both(down, Told(from, p)), left)
  BY <1>1, <1>2, <1>4, UpdateKeeps
<1> HIDE DEF left
<1>7. cs[to] \in Counts
  BY <1>1, <1>2, <1>5, Updating
<1>8. Synced(Both(Both(down, Told(from, p)), Told(to, r)), cs)
  BY <1>1, <1>2, <1>6, UpdateKeeps
<1> HIDE DEF cs
<1>9. p \in Seq(Messages) /\ r \in Seq(Messages)
  <2>1. <<it>> \in Seq(Items)
    OBVIOUS
  <2> QED
    BY <1>1, <1>4, <1>5, <1>7, <2>1, Reporting
<1> HIDE DEF p, r
<1>10. Both(Both(down, Told(from, p)), Told(to, r)) = Both(down, Both(Told(from, p), Told(to, r)))
  BY <1>4, <1>9, BothTold
<1>11. Synced(Both(down, Both(Told(from, p), Told(to, r))), cs)
  BY <1>8, <1>10
<1> QED
  BY <1>3, <1>11, BecomesKeeps

(* A whole number of recipes fits.                                         *)
LEMMA Fits ==
    ASSUME NEW a \in Nat, NEW b \in Nat \ {0}, NEW n \in Nat, n <= a \div b
    PROVE  n * b \in Nat /\ n * b <= a
<1>1. a \div b \in Nat /\ a = b * (a \div b) + (a % b) /\ a % b \in Nat
  OBVIOUS
<1> DEFINE d == a \div b
<1>2. b * d <= a /\ d \in Nat
  BY <1>1
<1> HIDE DEF d
<1>3. PICK e \in Nat : d = n + e
  <2>1. d - n \in Nat /\ d = n + (d - n)
    BY <1>2 DEF d
  <2> HIDE <1>2
  <2> QED
    BY <2>1
<1>4. b * d = n * b + b * e
  BY <1>3
<1>5. n * b \in Nat /\ b * e \in Nat
  BY <1>3
<1> QED
  BY <1>2, <1>4, <1>5

LEMMA Crafted ==
    ASSUME IInv, NEW i \in Exists, NEW r \in Recipes, NEW count \in Requests
    PROVE  LET n == CraftCount(i, r, count) IN
           /\ n \in Nat /\ n <= count
           /\ \A x \in Items :
                /\ contents[i][x] \in 0 .. U8Max
                /\ n * Inputs[r][x] \in Nat /\ n * Outputs[r][x] \in Nat
                /\ n * Inputs[r][x] <= contents[i][x]
                /\ n * Outputs[r][x] <= U8Max - contents[i][x]
<1> DEFINE n == CraftCount(i, r, count)
           I == {contents[i][it] \div Inputs[r][it] : it \in {x \in Items : Inputs[r][x] > 0}}
           O == {(U8Max - contents[i][it]) \div Outputs[r][it] :
                                                it \in {x \in Items : Outputs[r][x] > 0}}
           S == {count % (U8Max + 1)} \cup I \cup O
<1>1. \A x \in Items : contents[i][x] \in 0 .. U8Max
  BY DEF IInv, Tables, Exists, Counts
<1>2. U8Max \in Nat \ {0} /\ count \in Nat
  BY CountsAssumption
<1>3. \A x \in Items : Inputs[r][x] \in 0 .. U8Max /\ Outputs[r][x] \in 0 .. U8Max
  BY CountsAssumption
<1>4. count % (U8Max + 1) \in Nat /\ count % (U8Max + 1) <= count
  BY <1>2
<1>5. I \subseteq Nat
  BY <1>1, <1>2, <1>3
<1>6. O \subseteq Nat
  <2>1. ASSUME NEW x \in Items, Outputs[r][x] > 0
        PROVE  (U8Max - contents[i][x]) \div Outputs[r][x] \in Nat
    <3>1. U8Max - contents[i][x] \in Nat /\ Outputs[r][x] \in Nat \ {0}
      BY <1>1, <1>2, <1>3, <2>1
    <3> QED
      BY <3>1
  <2> QED
    BY <2>1
<1>7. S \in SUBSET Nat /\ S # {}
  BY <1>4, <1>5, <1>6
<1>8. n = Least(S)
  BY DEF CraftCount
<1> HIDE DEF n
<1>9. n \in Nat /\ \A s \in S : n <= s
  BY <1>7, <1>8, LeastOf
<1>10. n <= count
  BY <1>2, <1>4, <1>9
<1>11. ASSUME NEW x \in Items
       PROVE  n * Inputs[r][x] \in Nat /\ n * Inputs[r][x] <= contents[i][x]
  <2>1. CASE Inputs[r][x] > 0
    <3>1. n <= contents[i][x] \div Inputs[r][x]
      BY <1>9, <2>1
    <3>2. contents[i][x] \in Nat /\ Inputs[r][x] \in Nat \ {0}
      BY <1>1, <1>2, <1>3, <2>1
    <3> QED
      BY <1>9, <3>1, <3>2, Fits
  <2>2. CASE Inputs[r][x] = 0
    BY <1>1, <1>2, <1>9, <2>2
  <2> QED
    BY <1>2, <1>3, <2>1, <2>2
<1>12. ASSUME NEW x \in Items
       PROVE  n * Outputs[r][x] \in Nat /\ n * Outputs[r][x] <= U8Max - contents[i][x]
  <2>1. CASE Outputs[r][x] > 0
    <3>1. n <= (U8Max - contents[i][x]) \div Outputs[r][x]
      BY <1>9, <2>1
    <3>2. U8Max - contents[i][x] \in Nat /\ Outputs[r][x] \in Nat \ {0}
      BY <1>1, <1>2, <1>3, <2>1
    <3> QED
      BY <1>9, <3>1, <3>2, Fits
  <2>2. CASE Outputs[r][x] = 0
    BY <1>1, <1>2, <1>9, <2>2
  <2> QED
    BY <1>2, <1>3, <2>1, <2>2
<1> QED
  BY <1>1, <1>9, <1>10, <1>11, <1>12 DEF n

LEMMA CraftStep ==
    ASSUME IInv, NEW i \in Ids, NEW r \in Recipes, NEW count \in Requests,
           CraftRecipe(i, r, count)
    PROVE  IInv'
<1>1. i \in Exists
  BY DEF CraftRecipe
<1> DEFINE n     == CraftCount(i, r, count)
           taken == [it \in Items |-> UpdateItemCount(contents[i][it], -(n * Inputs[r][it]))]
           given == [it \in Items |-> UpdateItemCount(taken[it], n * Outputs[r][it])]
           Used  == {it \in Items : Inputs[r][it] > 0}
           Made  == {it \in Items : Outputs[r][it] > 0}
<1>2. PICK ins \in SetToSeqs(Used), outs \in SetToSeqs(Made) :
        Becomes([contents EXCEPT ![i] = given],
                Told(i, Reports(i, ins, taken) \o Reports(i, outs, given)))
  BY DEF CraftRecipe
<1>3. n \in Nat /\ \A x \in Items : Inputs[r][x] \in Nat /\ Outputs[r][x] \in Nat
  <2>1. n \in Nat
    BY <1>1, Crafted
  <2> QED
    BY <2>1, CountsAssumption
<1> HIDE DEF n
<1>4. Synced(down, contents) /\ contents \in [Exists -> Counts]
      /\ down \in [Clients -> Seq(Messages)] /\ Exists \subseteq Ids
  BY AllSynced DEF Synced
<1>5. \A x \in Items : contents[i][x] \in 0 .. U8Max
  BY <1>1, <1>4 DEF Counts
<1>6. \A x \in Items : -(n * Inputs[r][x]) \in Int /\ n * Outputs[r][x] \in Int
  BY <1>3
<1>7. taken \in Counts /\ \A x \in Items : x \notin Used => taken[x] = contents[i][x]
  <2>1. \A x \in Items : UpdateItemCount(contents[i][x], -(n * Inputs[r][x])) \in 0 .. U8Max
    BY <1>5, <1>6, Clamped
  <2>2. ASSUME NEW x \in Items, x \notin Used PROVE taken[x] = contents[i][x]
    <3>1. -(n * Inputs[r][x]) = 0
      BY <1>3, <2>2
    <3>2. contents[i][x] + 0 \in 0 .. U8Max /\ contents[i][x] + 0 = contents[i][x]
      BY <1>5
    <3>3. UpdateItemCount(contents[i][x], 0) = contents[i][x]
      BY <1>5, <3>2, Clamped
    <3> QED
      BY <3>1, <3>3
  <2> QED
    BY <2>1, <2>2 DEF Counts
<1>8. \A x \in Items : taken[x] \in 0 .. U8Max
  BY <1>7 DEF Counts
<1> HIDE DEF taken
<1>9. given \in Counts /\ \A x \in Items : x \notin Made => given[x] = taken[x]
  <2>1. \A x \in Items : UpdateItemCount(taken[x], n * Outputs[r][x]) \in 0 .. U8Max
    BY <1>6, <1>8, Clamped
  <2>2. ASSUME NEW x \in Items, x \notin Made PROVE given[x] = taken[x]
    <3>1. n * Outputs[r][x] = 0
      BY <1>3, <2>2
    <3>2. taken[x] + 0 \in 0 .. U8Max /\ taken[x] + 0 = taken[x]
      BY <1>8
    <3>3. UpdateItemCount(taken[x], 0) = taken[x]
      BY <1>8, <3>2, Clamped
    <3> QED
      BY <3>1, <3>3
  <2> QED
    BY <2>1, <2>2 DEF Counts
<1> HIDE DEF given
<1>10. /\ ins \in Seq(Items) /\ Once(ins) /\ \A x : x \in Used <=> \E k \in DOMAIN ins : ins[k] = x
       /\ outs \in Seq(Items) /\ Once(outs) /\ \A x : x \in Made <=> \E k \in DOMAIN outs : outs[k] = x
  <2>1. Used \subseteq Items /\ Made \subseteq Items
    OBVIOUS
  <2> HIDE DEF Used, Made
  <2> QED
    BY <2>1, Permuted
<1> DEFINE p == Reports(i, ins, taken)
           q == Reports(i, outs, given)
           half == [contents EXCEPT ![i] = taken]
<1>11. Synced(Both(down, Told(i, p)), half)
  <2>1. \A x \in Items : taken[x] = IF \E l \in DOMAIN ins : ins[l] = x
                                    THEN taken[x] ELSE contents[i][x]
    BY <1>7, <1>10
  <2> QED
    BY <1>1, <1>4, <1>7, <1>10, <2>1, ReportKeeps
<1>12. half[i] = taken /\ [half EXCEPT ![i] = given] = [contents EXCEPT ![i] = given]
  BY <1>1, <1>4
<1>13. Synced(Both(Both(down, Told(i, p)), Told(i, q)), [half EXCEPT ![i] = given])
  <2>1. \A x \in Items : given[x] = IF \E l \in DOMAIN outs : outs[l] = x
                                    THEN given[x] ELSE half[i][x]
    BY <1>9, <1>10, <1>12
  <2> HIDE DEF half
  <2> QED
    BY <1>1, <1>9, <1>10, <1>11, <2>1, ReportKeeps
<1>14. p \in Seq(Messages) /\ q \in Seq(Messages)
  BY <1>1, <1>4, <1>7, <1>9, <1>10, Reporting
<1> HIDE DEF p, q, half
<1>15. Both(Both(down, Told(i, p)), Told(i, q)) = Both(down, Told(i, p \o q))
  BY <1>4, <1>14, BothTold
<1>16. Synced(Both(down, Told(i, p \o q)), [contents EXCEPT ![i] = given])
  BY <1>12, <1>13, <1>15
<1>17. Becomes([contents EXCEPT ![i] = given], Told(i, p \o q))
  BY <1>2 DEF p, q
<1> QED
  BY <1>16, <1>17, BecomesKeeps

-----------------------------------------------------------------------------
(* Items are neither made nor lost.                                        *)

LEMMA MoveExact ==
    ASSUME IInv, NEW from \in Ids, NEW to \in Ids, NEW it \in Items, NEW count \in Requests,
           MoveItems(from, to, it, count)
    PROVE  \E k \in 1 .. count : \A i \in Exists, x \in Items :
                contents'[i][x] = contents[i][x]
                    + (IF x = it /\ i = to THEN k ELSE 0)
                    - (IF x = it /\ i = from THEN k ELSE 0)
<1>1. from \in Exists /\ to \in Exists
  BY DEF MoveItems
<1> DEFINE n    == MoveCount(from, to, it, count)
           left == Updated(contents, from, it, -n)
           cs   == Updated(left, to, it, n)
<1>2. /\ n \in Nat /\ n <= contents[from][it]
      /\ n <= U8Max - contents[to][it] /\ n <= count
  BY <1>1, Moved
<1>3. n > 0 /\ contents' = cs
  BY DEF MoveItems, Becomes
<1> HIDE DEF n
<1>4. contents \in [Exists -> Counts] /\ U8Max \in Nat /\ count \in Nat
  BY AllSynced, CountsAssumption DEF Synced
<1>5. \A i \in Exists, x \in Items : contents[i][x] \in 0 .. U8Max
  BY <1>4 DEF Counts
<1>6. /\ left \in [Exists -> Counts]
      /\ \A x \in Items : left[from][x] =
            IF x = it THEN UpdateItemCount(contents[from][it], -n) ELSE contents[from][x]
      /\ \A j \in Exists : j # from => left[j] = contents[j]
  BY <1>1, <1>2, <1>4, Updating
<1>7. UpdateItemCount(contents[from][it], -n) = contents[from][it] - n
  BY <1>1, <1>2, <1>4, <1>5 DEF UpdateItemCount
<1> HIDE DEF left
<1>8. /\ \A x \in Items : cs[to][x] =
            IF x = it THEN UpdateItemCount(left[to][it], n) ELSE left[to][x]
      /\ \A j \in Exists : j # to => cs[j] = left[j]
  BY <1>1, <1>2, <1>6, Updating
<1> HIDE DEF cs
<1>9. UpdateItemCount(left[to][it], n) = left[to][it] + n
  <2>1. left[to][it] = IF to = from THEN contents[from][it] - n ELSE contents[to][it]
    BY <1>1, <1>6, <1>7
  <2>2. left[to][it] + n \in 0 .. U8Max /\ left[to][it] \in Int
    BY <1>1, <1>2, <1>4, <1>5, <2>1
  <2> QED
    BY <1>2, <1>4, <2>2 DEF UpdateItemCount
<1>10. ASSUME NEW i \in Exists, NEW x \in Items
       PROVE  cs[i][x] = contents[i][x] + (IF x = it /\ i = to THEN n ELSE 0)
                                        - (IF x = it /\ i = from THEN n ELSE 0)
  <2>1. cs[i][x] = IF i = to /\ x = it THEN left[to][it] + n ELSE left[i][x]
    BY <1>8, <1>9
  <2>2. left[i][x] = IF i = from /\ x = it THEN contents[from][it] - n ELSE contents[i][x]
    BY <1>6, <1>7
  <2>3. contents[i][x] \in Int
    BY <1>5
  <2> QED
    BY <1>2, <2>1, <2>2, <2>3
<1>11. n \in 1 .. count
  BY <1>2, <1>3, <1>4
<1> QED
  BY <1>3, <1>10, <1>11

LEMMA CraftOnce ==
    ASSUME IInv, NEW i \in Ids, NEW r \in Recipes, NEW count \in Requests,
           CraftRecipe(i, r, count)
    PROVE  \E k \in 1 .. count : \A x \in Items :
                contents'[i][x] = contents[i][x] + k * (Outputs[r][x] - Inputs[r][x])
<1>1. i \in Exists
  BY DEF CraftRecipe
<1> DEFINE n     == CraftCount(i, r, count)
           taken == [it \in Items |-> UpdateItemCount(contents[i][it], -(n * Inputs[r][it]))]
           given == [it \in Items |-> UpdateItemCount(taken[it], n * Outputs[r][it])]
<1>2. n > 0 /\ contents' = [contents EXCEPT ![i] = given]
  BY DEF CraftRecipe, Becomes
<1>3. /\ n \in Nat /\ n <= count
      /\ \A x \in Items :
            /\ contents[i][x] \in 0 .. U8Max
            /\ n * Inputs[r][x] \in Nat /\ n * Outputs[r][x] \in Nat
            /\ n * Inputs[r][x] <= contents[i][x]
            /\ n * Outputs[r][x] <= U8Max - contents[i][x]
  BY <1>1, Crafted
<1>4. \A x \in Items : Inputs[r][x] \in Nat /\ Outputs[r][x] \in Nat
  BY CountsAssumption
<1>5. U8Max \in Nat /\ count \in Nat
  BY CountsAssumption
<1>6. contents'[i] = given
  BY <1>1, <1>2 DEF Exists
<1> HIDE DEF n
<1>7. ASSUME NEW x \in Items
      PROVE  given[x] = contents[i][x] + n * (Outputs[r][x] - Inputs[r][x])
  <2> DEFINE a == n * Inputs[r][x]
             b == n * Outputs[r][x]
  <2>1. n * (Outputs[r][x] - Inputs[r][x]) = b - a
    BY <1>3, <1>4
  <2>2. /\ a \in Nat /\ b \in Nat /\ contents[i][x] \in Nat
        /\ a <= contents[i][x] /\ b <= U8Max - contents[i][x]
    BY <1>3, <1>5
  <2>3. taken[x] = UpdateItemCount(contents[i][x], -a) /\ given[x] = UpdateItemCount(taken[x], b)
    OBVIOUS
  <2> HIDE DEF a, b, taken, given
  <2>4. taken[x] = contents[i][x] - a
    BY <1>5, <2>2, <2>3 DEF UpdateItemCount
  <2>5. given[x] = contents[i][x] - a + b
    BY <1>5, <2>2, <2>3, <2>4 DEF UpdateItemCount
  <2> QED
    BY <2>1, <2>2, <2>5
<1>8. n \in 1 .. count
  BY <1>2, <1>3, <1>5
<1> HIDE DEF given
<1> QED
  BY <1>6, <1>7, <1>8

-----------------------------------------------------------------------------
(* Inventories come and go.                                                *)

LEMMA CreateStep ==
    ASSUME IInv, NEW i \in Ids, CreateInventory(i)
    PROVE  IInv'
<1>1. /\ i \notin Exists
      /\ contents' = [j \in Exists \cup {i} |-> IF j = i THEN Nothing ELSE contents[j]]
      /\ UNCHANGED <<online, visible_inventories, inventory_viewers,
                     down, up, tracked, dialog, blank, orphan>>
  BY DEF CreateInventory
<1>2. Synced(down, contents) /\ Exists \subseteq Ids
  BY AllSynced
<1>3. Exists' = Exists \cup {i} /\ \A j \in Exists : contents'[j] = contents[j]
  BY <1>1 DEF Exists
<1>4. Tables'
  <2>1. Nothing \in Counts
    BY CountsAssumption DEF Nothing, Counts
  <2>2. contents' \in [Exists \cup {i} -> Counts]
    BY <1>1, <1>2, <2>1 DEF Synced
  <2>3. contents' \in UNION {[S -> Counts] : S \in SUBSET Ids}
    BY <1>2, <2>2
  <2> QED
    BY <1>1, <2>3 DEF IInv, Tables, Shown
<1>5. SubscribersTold' /\ ReferencesBalance' /\ Orderly'
  BY <1>1 DEF IInv, SubscribersTold, ReferencesBalance, Orderly
<1>6. Orphaned'
  BY <1>1, <1>3 DEF IInv, Orphaned
<1>7. Agreeing'
  <2>1. ASSUME NEW c \in Clients, NEW j \in Exists'
        PROVE  Truthful(c, down[c], tracked[c], j, contents'[j])
    <3>1. CASE j \in Exists
      BY <1>3, <3>1 DEF IInv, Agreeing
    <3>2. CASE j = i
      <4>1. SUFFICES ASSUME <<c, i>> \notin orphan
                     PROVE  /\ Renewed(down[c], i, contents'[i])
                            /\ i \notin DOMAIN tracked[c]
        BY <3>2 DEF Truthful
      <4>2. ~(visible_inventories[c][i] > 0)
        BY <1>1, <4>1 DEF IInv, Orphaned
      <4>3. i \notin Shown(c) /\ \A k \in DOMAIN down[c] : ~Refers(down[c][k], i)
        BY <1>2, <4>2, Viewing
      <4>4. InOrder(down[c], tracked[c], i)
        BY DEF IInv, Orderly
      <4> QED
        BY <4>3, <4>4 DEF Shown, Renewed, InOrder, Renews, Refers
    <3> QED
      BY <1>3, <2>1, <3>1, <3>2
  <2> QED
    BY <1>1, <2>1 DEF Agreeing, Truthful
<1> QED
  BY <1>4, <1>5, <1>6, <1>7 DEF IInv

LEMMA DestroyStep ==
    ASSUME IInv, NEW i \in Ids, DestroyInventory(i)
    PROVE  IInv'
<1>1. /\ i \in Exists /\ contents' = [j \in Exists \ {i} |-> contents[j]]
      /\ orphan' = orphan \cup {p \in online \X {i} : visible_inventories[p[1]][i] > 0}
      /\ UNCHANGED <<online, visible_inventories, inventory_viewers,
                     down, up, tracked, dialog, blank>>
  BY DEF DestroyInventory
<1>2. Synced(down, contents) /\ Exists \subseteq Ids
  BY AllSynced
<1>3. Exists' = Exists \ {i} /\ \A j \in Exists' : contents'[j] = contents[j]
  BY <1>1 DEF Exists
<1>4. Tables'
  <2>1. contents' \in [Exists \ {i} -> Counts]
    BY <1>1, <1>2 DEF Synced
  <2>2. contents' \in UNION {[S -> Counts] : S \in SUBSET Ids}
    BY <1>2, <2>1
  <2> QED
    BY <1>1, <2>2 DEF IInv, Tables, Shown
<1>5. SubscribersTold' /\ ReferencesBalance' /\ Orderly'
  BY <1>1 DEF IInv, SubscribersTold, ReferencesBalance, Orderly
<1>6. Orphaned'
  <2>1. ASSUME NEW c \in Clients, NEW j \in Ids \ Exists', visible_inventories[c][j] > 0
        PROVE  <<c, j>> \in orphan'
    <3>1. CASE j \notin Exists
      BY <1>1, <2>1, <3>1 DEF IInv, Orphaned
    <3>2. CASE j = i
      <4>1. c \in online
        BY <2>1 DEF IInv, SubscribersTold
      <4>2. <<c, i>> \in {p \in online \X {i} : visible_inventories[p[1]][i] > 0}
        BY <2>1, <3>2, <4>1
      <4> QED
        BY <1>1, <3>2, <4>2
    <3> QED
      BY <1>3, <3>1, <3>2
  <2> QED
    BY <1>1, <2>1 DEF Orphaned
<1>7. Agreeing'
  BY <1>1, <1>3 DEF IInv, Agreeing, Truthful
<1> QED
  BY <1>4, <1>5, <1>6, <1>7 DEF IInv

LEMMA ChangesStep == ASSUME IInv, Changes PROVE IInv'
<1>1. ASSUME NEW i \in Ids, CreateInventory(i) \/ DestroyInventory(i) PROVE IInv'
  BY <1>1, CreateStep, DestroyStep
<1>2. ASSUME NEW i \in Ids, NEW it \in Items, NEW n \in Adjusts, Update(i, it, n) PROVE IInv'
  BY <1>2, UpdateStep
<1>3. ASSUME NEW i \in Ids, NEW j \in Ids, NEW it \in Items, NEW n \in Requests,
             MoveItems(i, j, it, n)
      PROVE  IInv'
  BY <1>3, MoveStep
<1>4. ASSUME NEW i \in Ids, NEW r \in Recipes, NEW n \in Requests, CraftRecipe(i, r, n)
      PROVE  IInv'
  BY <1>4, CraftStep
<1> QED
  BY <1>1, <1>2, <1>3, <1>4 DEF Changes

-----------------------------------------------------------------------------
(* Subscriptions.                                                          *)

(* The messages of a request that opens S: one that refers to S, then the  *)
(* contents of those that were not open.                                   *)
Opening(c, S, m, f) ==
    /\ m \in Messages /\ m.kind \in {"peek", "open"} /\ \A i \in Ids : Refers(m, i) <=> i \in S
    /\ m.kind = "open" => m.invs = S /\ m.fresh = Unseen(c, S)
    /\ f \in Seq(Messages) /\ \A k, l \in DOMAIN f : f[k].inv = f[l].inv => k = l
    /\ \A k \in DOMAIN f : /\ f[k].inv \in Unseen(c, S) /\ f[k].kind = "contents"
                           /\ f[k].counts = contents[f[k].inv]
    /\ \A i \in Unseen(c, S) : \E k \in DOMAIN f : f[k].inv = i

(* Contents that arrive at a browser without any make it show them.        *)
LEMMA MatchesFresh ==
    ASSUME NEW q \in Seq(Messages), NEW f \in Seq(Messages), NEW i, NEW cs \in Counts,
           NEW k \in DOMAIN f, f[k].kind = "contents", f[k].inv = i, f[k].counts = cs,
           \A l \in DOMAIN f : l # k => f[l].kind = "contents" /\ f[l].inv # i
    PROVE  Matches(q \o f, Len(q), i, Nothing, cs)
<1>1. Len(q) \in Nat /\ DOMAIN q = 1 .. Len(q)
  BY LenProperties
<1>2. ASSUME NEW x \in Items PROVE After(q \o f, Len(q), i, x, Nothing[x], cs[x])
  <2>1. cs[x] \in Nat /\ Nothing[x] = 0
    BY CountsAssumption DEF Counts, Nothing
  <2>2. \A l \in DOMAIN f : Says(f[l], i, x) => l = k
    BY DEF Says
  <2>3. CASE cs[x] > 0
    <3>1. Says(f[k], i, x) /\ Said(f[k], x) = cs[x]
      BY <2>3 DEF Says, Said
    <3>2. After(q \o f, Len(q), i, x, Nothing[x], Said(f[k], x))
      BY <1>1, <2>2, <3>1, LastSaid
    <3> QED
      BY <3>1, <3>2
  <2>4. CASE cs[x] = 0
    <3>1. \A l \in DOMAIN f : ~Says(f[l], i, x)
      BY <2>2, <2>4 DEF Says
    <3>2. After(q, Len(q), i, x, 0, 0)
      <4>1. {l \in DOMAIN q : l > Len(q) /\ Says(q[l], i, x)} = {}
        BY <1>1
      <4> QED
        BY <4>1 DEF After
    <3>3. After(q \o f, Len(q), i, x, 0, 0)
      BY <1>1, <3>1, <3>2, NothingSaid
    <3> QED
      BY <2>1, <2>4, <3>3
  <2> QED
    BY <2>1, <2>3, <2>4
<1> QED
  BY <1>2 DEF Matches

(* Opening an inventory keeps the invariant.                               *)
LEMMA SubscribedKeeps ==
    ASSUME IInv, NEW c \in online, NEW S \in SUBSET Ids, NEW m, NEW f, Opening(c, S, m, f),
           Subscribed(c, S, <<m>> \o f), Unseen(c, S) \subseteq Exists,
           UNCHANGED <<contents, online, up, tracked, dialog, blank, orphan, crashed>>
    PROVE  IInv'
<1> DEFINE q == down[c]
           p == <<m>> \o f
           v == visible_inventories[c]
<1>1. /\ visible_inventories' = [visible_inventories EXCEPT
                ![c] = [i \in Ids |-> IF i \in S THEN @[i] + 1 ELSE @[i]]]
      /\ inventory_viewers' = [i \in Ids |->
                IF i \in Unseen(c, S) THEN inventory_viewers[i] \cup {c}
                ELSE inventory_viewers[i]]
      /\ down' = [down EXCEPT ![c] = @ \o (<<m>> \o f)]
  BY DEF Subscribed
<1>2. c \in Clients
  BY DEF IInv, Tables
<1>3. /\ m \in Messages /\ <<m>> \in Seq(Messages) /\ f \in Seq(Messages)
      /\ q \in Seq(Messages) /\ v \in [Ids -> Nat] /\ DOMAIN down = Clients
  BY <1>2 DEF IInv, Tables, Opening
<1>4. Synced(down, contents) /\ Exists \subseteq Ids
  BY AllSynced
<1>5. p \in Seq(Messages) /\ q \o p \in Seq(Messages)
  <2>1. p \in Seq(Messages)
    BY <1>3, Joined
  <2> QED
    BY <1>3, <2>1, Joined
<1>6. q \o p = (q \o <<m>>) \o f
  <2>1. \A x, y, z \in Seq(Messages) : (x \o y) \o z = x \o (y \o z)
    BY ConcatAssociative
  <2> QED
    BY <1>3, <2>1
<1>7. /\ DOMAIN p = 1 .. 1 + Len(f) /\ Len(f) \in Nat /\ DOMAIN f = 1 .. Len(f)
      /\ p[1] = m /\ \A k \in 1 .. Len(f) : p[1 + k] = f[k]
  <2>1. Len(<<m>>) = 1 /\ <<m>>[1] = m
    OBVIOUS
  <2> QED
    BY <1>3, <2>1, Joined
<1>8. \A l \in DOMAIN p : l = 1 \/ (l - 1 \in DOMAIN f /\ p[l] = f[l - 1])
  BY <1>7
<1>9. /\ visible_inventories'[c] = [i \in Ids |-> IF i \in S THEN v[i] + 1 ELSE v[i]]
      /\ down'[c] = q \o p
      /\ \A d \in Clients : d # c => /\ visible_inventories'[d] = visible_inventories[d]
                                     /\ down'[d] = down[d]
  <2>1. DOMAIN visible_inventories = Clients
    BY DEF IInv, Tables
  <2> QED
    BY <1>1, <1>2, <1>3, <2>1
<1> HIDE DEF p
<1>10. Tables'
  <2>1. visible_inventories' \in [Clients -> [Ids -> Nat]]
    <3>1. [i \in Ids |-> IF i \in S THEN v[i] + 1 ELSE v[i]] \in [Ids -> Nat]
      BY <1>3
    <3> QED
      BY <1>1, <1>2, <3>1 DEF IInv, Tables
  <2>2. inventory_viewers' \in [Ids -> SUBSET Clients]
    BY <1>1, <1>2 DEF IInv, Tables
  <2>3. down' \in [Clients -> Seq(Messages)]
    <3>1. down' = [down EXCEPT ![c] = q \o p]
      BY <1>1 DEF p
    <3> QED
      BY <1>5, <3>1 DEF IInv, Tables
  <2> QED
    BY <2>1, <2>2, <2>3 DEF IInv, Tables, Shown
<1>11. SubscribersTold'
  <2>1. ASSUME NEW d \in Clients, NEW i \in Ids, visible_inventories'[d][i] > 0
        PROVE  d \in online /\ d \in inventory_viewers'[i]
    <3>1. CASE visible_inventories[d][i] > 0
      BY <1>1, <3>1 DEF IInv, SubscribersTold
    <3>2. CASE ~(visible_inventories[d][i] > 0)
      <4>1. d = c /\ i \in S
        BY <1>9, <2>1, <3>2
      <4>2. i \in Unseen(c, S)
        BY <1>3, <3>2, <4>1 DEF Unseen
      <4> QED
        BY <1>1, <4>1, <4>2
    <3> QED
      BY <3>1, <3>2
  <2> QED
    BY <2>1 DEF SubscribersTold
<1>12. ReferencesBalance'
  <2>1. ASSUME NEW i \in Ids
        PROVE  OnTheWay(q \o p, i) = OnTheWay(q, i) + (IF i \in S THEN 1 ELSE 0)
    <3>1. OnTheWay(<<m>>, i) = IF i \in S THEN 1 ELSE 0
      BY <1>3, NumberedOne DEF Opening
    <3>2. OnTheWay(f, i) = 0
      <4>1. \A k \in DOMAIN f : ~Refers(f[k], i)
        BY DEF Opening, Refers
      <4> QED
        BY <1>3, <4>1, Numbered
    <3>3. OnTheWay(p, i) = OnTheWay(<<m>>, i) + OnTheWay(f, i)
      BY <1>3, NumberedJoined DEF p
    <3>4. OnTheWay(q \o p, i) = OnTheWay(q, i) + OnTheWay(p, i)
      BY <1>3, <1>5, NumberedJoined
    <3>5. OnTheWay(q, i) \in Nat
      BY <1>3, Numbered
    <3> QED
      BY <3>1, <3>2, <3>3, <3>4, <3>5
  <2>2. ASSUME NEW d \in Clients, NEW i \in Ids
        PROVE  visible_inventories'[d][i]
                    = up[d][i] + Held(tracked[d], i) + OnTheWay(down'[d], i)
    <3>1. visible_inventories[d][i] = up[d][i] + Held(tracked[d], i) + OnTheWay(down[d], i)
      BY DEF IInv, ReferencesBalance
    <3>2. CASE d # c
      BY <1>9, <3>1, <3>2
    <3>3. CASE d = c
      <4>1. up[c][i] \in Nat /\ Held(tracked[c], i) \in Nat /\ OnTheWay(q, i) \in Nat
        <5>1. i \in Shown(c) => tracked[c][i].refs \in Nat
          BY <1>2 DEF IInv, Tables, Record, Shown
        <5>2. OnTheWay(q, i) \in Nat
          BY <1>3, Numbered
        <5> QED
          BY <1>2, <5>1, <5>2 DEF IInv, Tables, Held, Shown
      <4>2. visible_inventories'[c][i] = v[i] + (IF i \in S THEN 1 ELSE 0)
        BY <1>3, <1>9
      <4>3. down'[c] = q \o p /\ OnTheWay(q \o p, i) = OnTheWay(q, i) + (IF i \in S THEN 1 ELSE 0)
        BY <1>9, <2>1
      <4> QED
        BY <3>1, <3>3, <4>1, <4>2, <4>3
    <3> QED
      BY <3>2, <3>3
  <2> QED
    BY <2>2 DEF ReferencesBalance
<1>13. Orphaned'
  <2>1. ASSUME NEW d \in Clients, NEW i \in Ids \ Exists, visible_inventories'[d][i] > 0
        PROVE  <<d, i>> \in orphan
    <3>1. CASE visible_inventories[d][i] > 0
      BY <3>1 DEF IInv, Orphaned
    <3>2. CASE ~(visible_inventories[d][i] > 0)
      <4>1. d = c /\ i \in S
        BY <1>9, <2>1, <3>2
      <4> QED
        BY <1>3, <3>2, <4>1 DEF Unseen
    <3> QED
      BY <3>1, <3>2
  <2> QED
    BY <2>1 DEF Orphaned, Exists
<1>14. ASSUME NEW i \in Ids, ~(v[i] > 0)
       PROVE  i \notin Shown(c) /\ \A k \in DOMAIN q : ~Refers(q[k], i)
  BY <1>2, <1>4, <1>14, Viewing
<1> DEFINE e == q \o p
<1>15. /\ Len(q) \in Nat /\ DOMAIN q = 1 .. Len(q)
       /\ DOMAIN e = 1 .. Len(q) + (1 + Len(f))
       /\ \A l \in 1 .. Len(q) : e[l] = q[l]
       /\ e[Len(q) + 1] = m
       /\ \A l \in 1 .. Len(f) : e[Len(q) + (1 + l)] = f[l]
  <2>1. Len(p) = 1 + Len(f)
    BY <1>5, <1>7, LenProperties
  <2>2. \A l \in 1 .. Len(f) : 1 + l \in 1 .. Len(p)
    BY <1>7, <2>1
  <2>3. \A k \in 1 .. Len(p) : e[Len(q) + k] = p[k]
    BY <1>3, <1>5, Joined
  <2>4. 1 \in 1 .. Len(p)
    BY <1>7, <2>1
  <2>5. /\ Len(q) \in Nat /\ DOMAIN q = 1 .. Len(q)
        /\ DOMAIN e = 1 .. Len(q) + Len(p)
        /\ \A l \in 1 .. Len(q) : e[l] = q[l]
    BY <1>3, <1>5, Joined
  <2>6. e[Len(q) + 1] = m
    BY <1>7, <2>3, <2>4
  <2>7. \A l \in 1 .. Len(f) : e[Len(q) + (1 + l)] = f[l]
    BY <1>7, <2>2, <2>3
  <2> QED
    BY <2>1, <2>5, <2>6, <2>7
<1> HIDE DEF e
<1>16. ASSUME NEW k \in DOMAIN e
       PROVE  /\ k \in Nat \ {0}
              /\ k <= Len(q) => k \in DOMAIN q
              /\ k > Len(q) + 1 => k - (Len(q) + 1) \in DOMAIN f
              /\ k > Len(q) + 1 => Len(q) + (1 + (k - (Len(q) + 1))) = k
  <2> DEFINE n == Len(q)
             g == Len(f)
  <2>1. n \in Nat /\ g \in Nat /\ DOMAIN f = 1 .. g /\ DOMAIN q = 1 .. n
    BY <1>7, <1>15
  <2>2. DOMAIN e = 1 .. n + (1 + g)
    BY <1>15
  <2> HIDE DEF n, g, q
  <2>3. /\ k \in Nat \ {0}
        /\ k <= n => k \in DOMAIN q
        /\ k > n + 1 => k - (n + 1) \in DOMAIN f
        /\ k > n + 1 => n + (1 + (k - (n + 1))) = k
    BY <2>1, <2>2
  <2> QED
    BY <2>3 DEF n
<1>17. ASSUME NEW k \in DOMAIN e, k \in DOMAIN q \/ k = Len(q) + 1
       PROVE  \A l \in DOMAIN e : l < k => l \in DOMAIN q /\ e[l] = q[l]
  <2>1. ASSUME NEW l \in DOMAIN e, l < k PROVE l \in DOMAIN q /\ e[l] = q[l]
    <3>1. l \in Nat \ {0} /\ (l <= Len(q) => l \in DOMAIN q)
      BY <1>16
    <3>2. k \in Nat /\ k <= Len(q) + 1 /\ Len(q) \in Nat
      BY <1>15, <1>16, <1>17
    <3>3. l <= Len(q)
      BY <2>1, <3>1, <3>2
    <3> QED
      BY <1>15, <3>1, <3>3
  <2> QED
    BY <2>1
<1>18. ASSUME NEW i \in Ids, NEW k \in DOMAIN e, Renews(e[k], i)
       PROVE  \/ k \in DOMAIN q /\ Renews(q[k], i)
              \/ k = Len(q) + 1 /\ i \in Unseen(c, S) /\ i \in m.invs /\ m.kind = "open"
  <2>1. CASE k <= Len(q)
    BY <1>15, <1>18, <1>16, <2>1
  <2>2. CASE k = Len(q) + 1
    BY <1>15, <1>18, <2>2 DEF Renews, Opening, Unseen
  <2>3. CASE k > Len(q) + 1
    <3>1. k - (Len(q) + 1) \in 1 .. Len(f) /\ Len(q) + (1 + (k - (Len(q) + 1))) = k
      BY <1>7, <1>16, <2>3
    <3>2. e[k] = f[k - (Len(q) + 1)] /\ k - (Len(q) + 1) \in DOMAIN f
      BY <1>7, <1>15, <3>1
    <3>3. e[k].kind = "contents"
      BY <3>2 DEF Opening
    <3> QED
      BY <1>18, <3>3 DEF Renews
  <2> QED
    BY <1>15, <1>16, <2>1, <2>2, <2>3
<1>19. Orderly'
  <2>1. ASSUME NEW i \in Ids PROVE InOrder(e, tracked[c], i)
    <3>1. InOrder(q, tracked[c], i)
      BY <1>2 DEF IInv, Orderly
    <3>2. ASSUME NEW k \in DOMAIN e, Renews(e[k], i)
          PROVE  /\ i \in e[k].invs /\ i \notin DOMAIN tracked[c]
                 /\ \A l \in DOMAIN e :
                        l < k => ~(e[l].kind = "open" /\ i \in e[l].invs)
      <4>1. CASE k \in DOMAIN q /\ Renews(q[k], i)
        <5>1. /\ i \in q[k].invs /\ i \notin DOMAIN tracked[c]
              /\ \A l \in DOMAIN q : l < k => ~(q[l].kind = "open" /\ i \in q[l].invs)
          BY <3>1, <4>1 DEF InOrder
        <5>2. e[k] = q[k] /\ \A l \in DOMAIN e : l < k => l \in DOMAIN q /\ e[l] = q[l]
          BY <1>15, <1>17, <4>1
        <5> QED
          BY <5>1, <5>2
      <4>2. CASE k = Len(q) + 1 /\ i \in Unseen(c, S) /\ i \in m.invs /\ m.kind = "open"
        <5>1. i \notin Shown(c) /\ \A l \in DOMAIN q : ~Refers(q[l], i)
          BY <1>3, <1>14, <4>2 DEF Unseen
        <5>2. e[k] = m /\ \A l \in DOMAIN e : l < k => l \in DOMAIN q /\ e[l] = q[l]
          BY <1>15, <1>17, <4>2
        <5> QED
          BY <4>2, <5>1, <5>2 DEF Shown, Refers
      <4> QED
        BY <1>18, <3>2, <4>1, <4>2
    <3> QED
      BY <3>2 DEF InOrder
  <2>2. ASSUME NEW d \in Clients, NEW i \in Ids PROVE InOrder(down'[d], tracked[d], i)
    BY <1>9, <2>1, <2>2 DEF IInv, Orderly, e
  <2> QED
    BY <2>2 DEF Orderly
<1>20. ASSUME NEW i \in Exists PROVE Truthful(c, q \o p, tracked[c], i, contents[i])
  <2>0. i \in Ids /\ contents[i] \in Counts
    BY <1>4 DEF Synced
  <2>1. SUFFICES ASSUME <<c, i>> \notin orphan
                 PROVE  /\ Renewed(q \o p, i, contents[i])
                        /\ i \in Shown(c) /\ <<c, i>> \notin blank =>
                                Matches(q \o p, 0, i, tracked[c][i].counts, contents[i])
    BY DEF Truthful, Shown
  <2>2. /\ Renewed(q, i, contents[i])
        /\ i \in Shown(c) /\ <<c, i>> \notin blank =>
                Matches(q, 0, i, tracked[c][i].counts, contents[i])
    BY <1>2, <2>1 DEF IInv, Agreeing, Truthful, Shown
  <2>3. ASSUME v[i] > 0, NEW k \in 0 .. Len(q), NEW old, Matches(q, k, i, old, contents[i])
        PROVE  Matches(q \o p, k, i, old, contents[i])
    <3>1. \A l \in DOMAIN f : f[l].kind = "contents" /\ f[l].inv # i
      BY <2>3 DEF Opening, Unseen
    <3>2. \A l \in DOMAIN p : \A it \in Items : ~Says(p[l], i, it)
      BY <1>7, <1>8, <3>1 DEF Says, Opening
    <3> QED
      BY <1>3, <1>5, <2>3, <3>2, MatchesOthers
  <2>4. ASSUME NEW k \in DOMAIN e, Renews(e[k], i)
        PROVE  Matches(q \o p, k, i, Nothing, contents[i])
    <3>1. CASE k \in DOMAIN q /\ Renews(q[k], i)
      <4>1. Refers(q[k], i)
        BY <1>2, <2>0, <3>1 DEF IInv, Orderly, InOrder, Refers, Renews
      <4>2. v[i] > 0
        BY <1>14, <2>0, <3>1, <4>1
      <4>3. k \in 0 .. Len(q)
        BY <1>15, <3>1
      <4> QED
        BY <2>2, <2>3, <3>1, <4>2, <4>3 DEF Renewed
    <3>2. CASE k = Len(q) + 1 /\ i \in Unseen(c, S)
      <4>1. PICK n \in DOMAIN f : f[n].inv = i
        BY <3>2 DEF Opening
      <4>2. f[n].kind = "contents" /\ f[n].counts = contents[i]
        BY <4>1 DEF Opening
      <4>3. \A l \in DOMAIN f : l # n => f[l].kind = "contents" /\ f[l].inv # i
        BY <4>1 DEF Opening
      <4>4. q \o <<m>> \in Seq(Messages) /\ Len(q \o <<m>>) = Len(q) + 1
        <5>1. q \o <<m>> \in Seq(Messages) /\ Len(q \o <<m>>) = Len(q) + Len(<<m>>)
          BY <1>3, ConcatProperties
        <5>2. Len(<<m>>) = 1
          OBVIOUS
        <5> QED
          BY <5>1, <5>2
      <4>5. Matches((q \o <<m>>) \o f, Len(q \o <<m>>), i, Nothing, contents[i])
        BY <1>3, <2>0, <4>1, <4>2, <4>3, <4>4, MatchesFresh
      <4> QED
        BY <1>6, <3>2, <4>4, <4>5
    <3> QED
      BY <1>18, <2>0, <2>4, <3>1, <3>2
  <2>5. ASSUME i \in Shown(c), <<c, i>> \notin blank
        PROVE  Matches(q \o p, 0, i, tracked[c][i].counts, contents[i])
    <3>1. v[i] > 0 /\ 0 \in 0 .. Len(q)
      BY <1>14, <1>15, <2>0, <2>5
    <3> QED
      BY <2>2, <2>3, <2>5, <3>1
  <2> QED
    BY <2>4, <2>5 DEF Renewed, e
<1>21. Agreeing'
  <2>1. ASSUME NEW d \in Clients, NEW i \in Exists
        PROVE  Truthful(d, down'[d], tracked[d], i, contents[i])
    BY <1>9, <1>20, <2>1 DEF IInv, Agreeing
  <2> QED
    BY <2>1 DEF Agreeing, Exists, Truthful
<1> QED
  BY <1>10, <1>11, <1>12, <1>13, <1>19, <1>21 DEF IInv

(* The contents of one inventory, sent or not.                             *)
LEMMA Freshly ==
    ASSUME IInv, NEW c \in online, NEW i \in Ids, i \in Exists \/ visible_inventories[c][i] > 0
    PROVE  /\ Fresh(c, i) \in Seq(Messages)
           /\ i \in Unseen(c, {i}) => /\ i \in Exists
                                      /\ Fresh(c, i) = <<ContentsMsg(i, contents[i])>>
           /\ i \notin Unseen(c, {i}) => Fresh(c, i) = << >>
<1>1. c \in Clients /\ visible_inventories[c][i] \in Nat
  BY DEF IInv, Tables
<1>2. CASE visible_inventories[c][i] = 0
  <2>1. contents[i] \in Counts /\ i \in Exists
    BY <1>2, AllSynced DEF Synced
  <2>2. ContentsMsg(i, contents[i]) \in Messages
    BY <2>1 DEF ContentsMsg, Messages
  <2> QED
    BY <1>2, <2>1, <2>2 DEF Fresh, Unseen
<1>3. CASE visible_inventories[c][i] > 0
  BY <1>1, <1>3 DEF Fresh, Unseen
<1> QED
  BY <1>1, <1>2, <1>3

LEMMA OpeningOne ==
    ASSUME IInv, NEW c \in online, NEW i \in Exists, i \in Ids,
           NEW m \in {InventoryMsg(i, Unseen(c, {i})), OpenMsg({i}, Unseen(c, {i}))}
    PROVE  Opening(c, {i}, m, Fresh(c, i))
<1>1. Unseen(c, {i}) \subseteq {i}
  BY DEF Unseen
<1>2. /\ m \in Messages /\ m.kind \in {"peek", "open"} /\ \A j \in Ids : Refers(m, j) <=> j \in {i}
      /\ m.kind = "open" => m.invs = {i} /\ m.fresh = Unseen(c, {i})
  <2>1. CASE m = InventoryMsg(i, Unseen(c, {i}))
    BY <1>1, <2>1 DEF InventoryMsg, Messages, Refers
  <2>2. CASE m = OpenMsg({i}, Unseen(c, {i}))
    BY <1>1, <2>2 DEF OpenMsg, Messages, Refers
  <2> QED
    BY <2>1, <2>2
<1>3. CASE i \in Unseen(c, {i})
  <2>1. Fresh(c, i) \in Seq(Messages) /\ Fresh(c, i) = <<ContentsMsg(i, contents[i])>>
    BY <1>3, Freshly
  <2>2. /\ DOMAIN Fresh(c, i) = {1} /\ Fresh(c, i)[1].inv = i
        /\ Fresh(c, i)[1].kind = "contents" /\ Fresh(c, i)[1].counts = contents[i]
    BY <2>1 DEF ContentsMsg
  <2> HIDE DEF Fresh
  <2> QED
    BY <1>1, <1>2, <1>3, <2>1, <2>2 DEF Opening
<1>4. CASE i \notin Unseen(c, {i})
  <2>1. Fresh(c, i) = << >> /\ DOMAIN Fresh(c, i) = {} /\ Fresh(c, i) \in Seq(Messages)
    BY <1>4, Freshly
  <2>2. Unseen(c, {i}) = {}
    BY <1>1, <1>4
  <2> QED
    BY <1>2, <2>1, <2>2 DEF Opening
<1> QED
  BY <1>3, <1>4

LEMMA Paired == ASSUME NEW a, NEW b PROVE <<a>> \o <<b>> = <<a, b>>
<1>1. /\ <<a>> \in Seq({a, b}) /\ <<b>> \in Seq({a, b}) /\ <<a, b>> \in Seq({a, b})
      /\ Len(<<a>>) = 1 /\ Len(<<b>>) = 1 /\ Len(<<a, b>>) = 2
  OBVIOUS
<1>2. <<a>> \o <<b>> \in Seq({a, b}) /\ Len(<<a>> \o <<b>>) = 2
  BY <1>1, ConcatProperties
<1>3. (<<a>> \o <<b>>)[1] = a /\ (<<a>> \o <<b>>)[2] = b
  BY <1>1, ConcatProperties
<1>4. \A k \in 1 .. 2 : (<<a>> \o <<b>>)[k] = <<a, b>>[k]
  BY <1>3
<1> QED
  BY <1>1, <1>2, <1>4, SeqEqual

LEMMA OpeningTwo ==
    ASSUME IInv, NEW c \in online, NEW i \in Exists, i \in Ids, NEW j \in Ids, i # j,
           j \in Exists \/ visible_inventories[c][j] > 0
    PROVE  /\ Opening(c, {i, j}, OpenMsg({i, j}, Unseen(c, {i, j})), Fresh(c, i) \o Fresh(c, j))
           /\ Unseen(c, {i, j}) \subseteq Exists
<1> DEFINE m == OpenMsg({i, j}, Unseen(c, {i, j}))
           f == Fresh(c, i)
           g == Fresh(c, j)
           a == ContentsMsg(i, contents[i])
           b == ContentsMsg(j, contents[j])
<1>1. /\ Unseen(c, {i, j}) \subseteq {i, j}
      /\ i \in Unseen(c, {i, j}) <=> i \in Unseen(c, {i})
      /\ j \in Unseen(c, {i, j}) <=> j \in Unseen(c, {j})
  BY DEF Unseen
<1>2. /\ m \in Messages /\ m.kind = "open" /\ \A x \in Ids : Refers(m, x) <=> x \in {i, j}
      /\ m.invs = {i, j} /\ m.fresh = Unseen(c, {i, j})
  BY <1>1 DEF OpenMsg, Messages, Refers
<1>3. /\ f \in Seq(Messages) /\ g \in Seq(Messages)
      /\ i \in Unseen(c, {i}) => f = <<a>>
      /\ i \notin Unseen(c, {i}) => f = << >>
      /\ j \in Unseen(c, {j}) => j \in Exists /\ g = <<b>>
      /\ j \notin Unseen(c, {j}) => g = << >>
  BY Freshly
<1>4. /\ a.inv = i /\ a.kind = "contents" /\ a.counts = contents[i]
      /\ b.inv = j /\ b.kind = "contents" /\ b.counts = contents[j]
  BY DEF ContentsMsg
<1>5. f \o g \in Seq(Messages)
  BY <1>3, Joined
<1> HIDE DEF f, g, a, b, m
<1>10. Unseen(c, {i, j}) \subseteq Exists
  BY <1>1, <1>3
<1>11. <<a>> \o << >> = <<a>> /\ << >> \o <<b>> = <<b>> /\ << >> \o << >> = << >>
  OBVIOUS
<1>6. CASE i \in Unseen(c, {i}) /\ j \in Unseen(c, {j})
  <2>1. f \o g = <<a, b>>
    BY <1>3, <1>6, Paired
  <2>2. Unseen(c, {i, j}) = {i, j} /\ DOMAIN <<a, b>> = {1, 2} /\ <<a, b>>[1] = a /\ <<a, b>>[2] = b
    BY <1>1, <1>6
  <2>3. Opening(c, {i, j}, m, <<a, b>>)
    BY <1>2, <1>4, <1>5, <2>1, <2>2 DEF Opening
  <2> QED
    BY <1>10, <2>1, <2>3 DEF f, g, m
<1>7. CASE i \in Unseen(c, {i}) /\ j \notin Unseen(c, {j})
  <2>1. f \o g = <<a>>
    BY <1>3, <1>7, <1>11
  <2>2. Unseen(c, {i, j}) = {i} /\ DOMAIN <<a>> = {1} /\ <<a>>[1] = a
    BY <1>1, <1>7
  <2>3. Opening(c, {i, j}, m, <<a>>)
    BY <1>2, <1>4, <1>5, <2>1, <2>2 DEF Opening
  <2> QED
    BY <1>10, <2>1, <2>3 DEF f, g, m
<1>8. CASE i \notin Unseen(c, {i}) /\ j \in Unseen(c, {j})
  <2>1. f \o g = <<b>>
    BY <1>3, <1>8, <1>11
  <2>2. Unseen(c, {i, j}) = {j} /\ DOMAIN <<b>> = {1} /\ <<b>>[1] = b
    BY <1>1, <1>8
  <2>3. Opening(c, {i, j}, m, <<b>>)
    BY <1>2, <1>4, <1>5, <2>1, <2>2 DEF Opening
  <2> QED
    BY <1>10, <2>1, <2>3 DEF f, g, m
<1>9. CASE i \notin Unseen(c, {i}) /\ j \notin Unseen(c, {j})
  <2>1. f \o g = << >>
    BY <1>3, <1>9, <1>11
  <2>2. Unseen(c, {i, j}) = {} /\ DOMAIN << >> = {}
    BY <1>1, <1>9
  <2>3. Opening(c, {i, j}, m, << >>)
    BY <1>2, <1>5, <2>1, <2>2 DEF Opening
  <2> QED
    BY <1>10, <2>1, <2>3 DEF f, g, m
<1> QED
  BY <1>6, <1>7, <1>8, <1>9

LEMMA OpenStep ==
    ASSUME IInv, NEW c \in Clients, NEW i \in Ids, OpenInventory(c, i) \/ OpenCrafting(c, i)
    PROVE  IInv'
<1>1. /\ c \in online /\ i \in Exists /\ {i} \in SUBSET Ids
      /\ UNCHANGED <<contents, online, up, tracked, dialog, blank, orphan, crashed>>
  BY DEF OpenInventory, OpenCrafting
<1>2. Unseen(c, {i}) \subseteq Exists
  BY <1>1 DEF Unseen
<1>3. PICK m \in {InventoryMsg(i, Unseen(c, {i})), OpenMsg({i}, Unseen(c, {i}))} :
            Subscribed(c, {i}, <<m>> \o Fresh(c, i))
  BY DEF OpenInventory, OpenCrafting
<1>4. Opening(c, {i}, m, Fresh(c, i))
  BY <1>1, OpeningOne
<1> QED
  BY <1>1, <1>2, <1>3, <1>4, SubscribedKeeps

LEMMA OpenContainerStep ==
    ASSUME IInv, NEW c \in Clients, NEW i \in Ids, NEW j \in Ids, OpenContainer(c, i, j)
    PROVE  IInv'
<1> DEFINE m == OpenMsg({i, j}, Unseen(c, {i, j}))
<1>1. c \in online /\ i \in Exists /\ i # j /\ {i, j} \in SUBSET Ids
  BY DEF OpenContainer
<1>2. CASE j \in Exists \/ visible_inventories[c][j] > 0
  <2>1. /\ Subscribed(c, {i, j}, <<m>> \o Fresh(c, i) \o Fresh(c, j))
        /\ UNCHANGED <<contents, online, up, tracked, dialog, blank, orphan, crashed>>
    BY <1>2 DEF OpenContainer
  <2>2. /\ Opening(c, {i, j}, m, Fresh(c, i) \o Fresh(c, j))
        /\ Unseen(c, {i, j}) \subseteq Exists
    BY <1>1, <1>2, OpeningTwo
  <2>3. Fresh(c, i) \in Seq(Messages) /\ Fresh(c, j) \in Seq(Messages) /\ <<m>> \in Seq(Messages)
    <3>1. m \in Messages
      BY <2>2 DEF Opening
    <3>2. Fresh(c, i) \in Seq(Messages)
      BY <1>1, Freshly
    <3>3. Fresh(c, j) \in Seq(Messages)
      BY <1>1, <1>2, Freshly
    <3> HIDE DEF m
    <3> QED
      BY <3>1, <3>2, <3>3
  <2> HIDE DEF m
  <2>4. <<m>> \o Fresh(c, i) \o Fresh(c, j) = <<m>> \o (Fresh(c, i) \o Fresh(c, j))
    <3>1. \A x, y, z \in Seq(Messages) : (x \o y) \o z = x \o (y \o z)
      BY ConcatAssociative
    <3> QED
      BY <2>3, <3>1
  <2>5. Subscribed(c, {i, j}, <<m>> \o (Fresh(c, i) \o Fresh(c, j)))
    BY <2>1, <2>4
  <2> QED
    BY <1>1, <2>1, <2>2, <2>5, SubscribedKeeps
<1>3. CASE ~(j \in Exists \/ visible_inventories[c][j] > 0)
  <2>1. UNCHANGED <<contents, visible_inventories, inventory_viewers, online, down, up,
                    tracked, dialog, blank, orphan>>
    BY <1>3 DEF OpenContainer, server
  <2> QED
    BY <2>1 DEF IInv, Tables, SubscribersTold, ReferencesBalance, Orderly, Agreeing,
                Orphaned, Exists, Shown, Truthful
<1> QED
  BY <1>2, <1>3

LEMMA AddClientStep ==
    ASSUME IInv, NEW c \in Clients, AddClient(c)
    PROVE  IInv'
<1>1. /\ online' = online \cup {c}
      /\ UNCHANGED <<contents, visible_inventories, inventory_viewers,
                     down, up, tracked, dialog, blank, orphan, crashed>>
  BY DEF AddClient
<1> QED
  BY <1>1 DEF IInv, Tables, SubscribersTold, ReferencesBalance, Orderly, Agreeing,
              Orphaned, Exists, Shown, Truthful

LEMMA RemoveClientStep ==
    ASSUME IInv, NEW c \in Clients, RemoveClient(c)
    PROVE  IInv'
<1>1. /\ online' = online \ {c}
      /\ visible_inventories' = [visible_inventories EXCEPT ![c] = None]
      /\ down' = [down EXCEPT ![c] = << >>]
      /\ up' = [up EXCEPT ![c] = None]
      /\ tracked' = [tracked EXCEPT ![c] = NoData]
      /\ dialog' = [dialog EXCEPT ![c] = {}]
      /\ blank' = {p \in blank : p[1] # c}
      /\ orphan' = {p \in orphan : p[1] # c}
      /\ UNCHANGED <<contents, inventory_viewers>>
  BY DEF RemoveClient
<1>2. None \in [Ids -> Nat] /\ \A i \in Ids : None[i] = 0
  BY DEF None
<1>3. NoData \in UNION {[S -> Record] : S \in SUBSET Ids} /\ DOMAIN NoData = {}
  <2>1. NoData = [x \in {} |-> x] /\ DOMAIN NoData = {}
    BY DEF NoData
  <2>2. NoData \in [{} -> Record]
    BY <2>1
  <2> QED
    BY <2>1, <2>2
<1>4. << >> \in Seq(Messages) /\ \A i : OnTheWay(<< >>, i) = 0
  <2>1. << >> \in Seq(Messages) /\ DOMAIN << >> = {}
    OBVIOUS
  <2> QED
    BY <2>1, Numbered
<1> HIDE DEF NoData, None
<1>5. Tables'
  <2>1. visible_inventories' \in [Clients -> [Ids -> Nat]] /\ up' \in [Clients -> [Ids -> Nat]]
    BY <1>1, <1>2 DEF IInv, Tables
  <2>2. down' \in [Clients -> Seq(Messages)]
    BY <1>1, <1>4 DEF IInv, Tables
  <2>3. tracked' \in [Clients -> UNION {[S -> Record] : S \in SUBSET Ids}]
    BY <1>1, <1>3 DEF IInv, Tables
  <2>4. dialog' \in [Clients -> SUBSET Ids] /\ \A d \in Clients : dialog'[d] \subseteq DOMAIN tracked'[d]
    BY <1>1, <1>3 DEF IInv, Tables, Shown
  <2> QED
    BY <1>1, <2>1, <2>2, <2>3, <2>4 DEF IInv, Tables, Shown
<1>6. ASSUME NEW d \in Clients
      PROVE  \/ /\ d = c /\ visible_inventories'[d] = None /\ up'[d] = None
                /\ down'[d] = << >> /\ tracked'[d] = NoData
             \/ /\ d # c /\ visible_inventories'[d] = visible_inventories[d] /\ up'[d] = up[d]
                /\ down'[d] = down[d] /\ tracked'[d] = tracked[d]
                /\ (d \in online' <=> d \in online)
                /\ \A i : (<<d, i>> \in orphan' <=> <<d, i>> \in orphan)
                          /\ (<<d, i>> \in blank' <=> <<d, i>> \in blank)
  BY <1>1 DEF IInv, Tables
<1>7. SubscribersTold'
  <2>1. ASSUME NEW d \in Clients, NEW i \in Ids, visible_inventories'[d][i] > 0
        PROVE  d \in online' /\ d \in inventory_viewers[i]
    BY <1>2, <1>6, <2>1 DEF IInv, SubscribersTold
  <2> QED
    BY <1>1, <2>1 DEF SubscribersTold
<1>8. ReferencesBalance'
  <2>1. ASSUME NEW d \in Clients, NEW i \in Ids
        PROVE  visible_inventories'[d][i]
                    = up'[d][i] + Held(tracked'[d], i) + OnTheWay(down'[d], i)
    <3>1. CASE d = c
      <4>1. Held(NoData, i) = 0
        BY <1>3 DEF Held
      <4> QED
        BY <1>2, <1>4, <1>6, <3>1, <4>1
    <3>2. CASE d # c
      BY <1>6, <3>2 DEF IInv, ReferencesBalance
    <3> QED
      BY <3>1, <3>2
  <2> QED
    BY <2>1 DEF ReferencesBalance
<1>9. DOMAIN << >> = {}
  OBVIOUS
<1>10. Orderly'
  <2>1. ASSUME NEW d \in Clients, NEW i \in Ids PROVE InOrder(down'[d], tracked'[d], i)
    <3>1. CASE d = c
      BY <1>6, <1>9, <3>1 DEF InOrder
    <3>2. CASE d # c
      BY <1>6, <3>2 DEF IInv, Orderly
    <3> QED
      BY <3>1, <3>2
  <2> QED
    BY <2>1 DEF Orderly
<1>11. Orphaned'
  <2>1. ASSUME NEW d \in Clients, NEW i \in Ids \ Exists, visible_inventories'[d][i] > 0
        PROVE  <<d, i>> \in orphan'
    BY <1>2, <1>6, <2>1 DEF IInv, Orphaned
  <2> QED
    BY <1>1, <2>1 DEF Orphaned, Exists
<1>12. Agreeing'
  <2>1. ASSUME NEW d \in Clients, NEW i \in Exists, <<d, i>> \notin orphan'
        PROVE  /\ Renewed(down'[d], i, contents[i])
               /\ i \in DOMAIN tracked'[d] /\ <<d, i>> \notin blank' =>
                        Matches(down'[d], 0, i, tracked'[d][i].counts, contents[i])
    <3>1. CASE d = c
      BY <1>3, <1>6, <1>9, <3>1 DEF Renewed
    <3>2. CASE d # c
      BY <1>6, <2>1, <3>2 DEF IInv, Agreeing, Truthful
    <3> QED
      BY <3>1, <3>2
  <2> QED
    BY <1>1, <2>1 DEF Agreeing, Exists, Truthful
<1> QED
  BY <1>5, <1>7, <1>8, <1>10, <1>11, <1>12 DEF IInv

(* A reference that is released is retained: there is no panic.            *)
LEMMA UnsubscribeStep ==
    ASSUME IInv, NEW c \in Clients, NEW i \in Ids, Unsubscribe(c, i)
    PROVE  IInv' /\ UNCHANGED crashed
<1> DEFINE v == visible_inventories[c][i]
<1>1. /\ v \in Nat /\ up[c][i] \in Nat /\ down[c] \in Seq(Messages) /\ up[c][i] > 0
      /\ OnTheWay(down[c], i) \in Nat /\ Held(tracked[c], i) \in Nat
      /\ i \in Shown(c) => Held(tracked[c], i) > 0
      /\ v = up[c][i] + Held(tracked[c], i) + OnTheWay(down[c], i)
  <2>1. v \in Nat /\ up[c][i] \in Nat /\ down[c] \in Seq(Messages)
    BY DEF IInv, Tables
  <2>2. i \in Shown(c) => tracked[c][i].refs \in Nat \ {0}
    BY DEF IInv, Tables, Record, Shown
  <2>3. v = up[c][i] + Held(tracked[c], i) + OnTheWay(down[c], i)
    BY DEF IInv, ReferencesBalance
  <2> QED
    BY <2>1, <2>2, <2>3, Numbered DEF Held, Shown, Unsubscribe
<1>2. v > 0
  BY <1>1
<1>3. v = 1 => i \notin Shown(c) /\ \A k \in DOMAIN down[c] : ~Refers(down[c][k], i)
  <2>1. v = 1 => i \notin Shown(c) /\ OnTheWay(down[c], i) = 0
    BY <1>1
  <2> QED
    BY <1>1, <2>1, Numbered
<1>4. /\ up' = [up EXCEPT ![c][i] = @ - 1]
      /\ visible_inventories' = [visible_inventories EXCEPT ![c][i] = @ - 1]
      /\ inventory_viewers' = IF v = 1 THEN [inventory_viewers EXCEPT ![i] = @ \ {c}]
                              ELSE inventory_viewers
      /\ orphan' = IF v = 1 THEN orphan \ {<<c, i>>} ELSE orphan
      /\ UNCHANGED <<contents, online, down, tracked, dialog, blank, crashed>>
  BY <1>2 DEF Unsubscribe
<1>5. ASSUME NEW d \in Clients, NEW j \in Ids
      PROVE  \/ /\ d = c /\ j = i /\ visible_inventories'[d][j] = v - 1
                /\ up'[d][j] = up[c][i] - 1
             \/ /\ d # c \/ j # i
                /\ visible_inventories'[d][j] = visible_inventories[d][j]
                /\ up'[d][j] = up[d][j]
                /\ d \in inventory_viewers'[j] <=> d \in inventory_viewers[j]
                /\ <<d, j>> \in orphan' <=> <<d, j>> \in orphan
  BY <1>4 DEF IInv, Tables
<1>6. visible_inventories'[c][i] = v - 1 /\ up'[c][i] = up[c][i] - 1
  BY <1>4 DEF IInv, Tables
<1>7. Tables'
  <2>1. v - 1 \in Nat /\ up[c][i] - 1 \in Nat
    BY <1>1, <1>2
  <2>2. visible_inventories' \in [Clients -> [Ids -> Nat]] /\ up' \in [Clients -> [Ids -> Nat]]
    BY <1>4, <2>1 DEF IInv, Tables
  <2>3. inventory_viewers' \in [Ids -> SUBSET Clients]
    BY <1>4 DEF IInv, Tables
  <2> QED
    BY <1>4, <2>2, <2>3 DEF IInv, Tables, Shown
<1>8. SubscribersTold'
  <2>1. ASSUME NEW d \in Clients, NEW j \in Ids, visible_inventories'[d][j] > 0
        PROVE  d \in online /\ d \in inventory_viewers'[j]
    <3>1. CASE d = c /\ j = i
      <4>1. v # 1
        BY <1>1, <1>6, <2>1, <3>1
      <4> QED
        BY <1>2, <1>4, <3>1, <4>1 DEF IInv, SubscribersTold
    <3>2. CASE d # c \/ j # i
      BY <1>5, <2>1, <3>2 DEF IInv, SubscribersTold
    <3> QED
      BY <3>1, <3>2
  <2> QED
    BY <1>4, <2>1 DEF SubscribersTold
<1>9. ReferencesBalance'
  <2>1. ASSUME NEW d \in Clients, NEW j \in Ids
        PROVE  visible_inventories'[d][j]
                    = up'[d][j] + Held(tracked[d], j) + OnTheWay(down[d], j)
    <3>1. CASE d = c /\ j = i
      BY <1>1, <1>6, <3>1
    <3>2. CASE d # c \/ j # i
      BY <1>5, <3>2 DEF IInv, ReferencesBalance
    <3> QED
      BY <3>1, <3>2
  <2> QED
    BY <1>4, <2>1 DEF ReferencesBalance
<1>10. Orderly'
  BY <1>4 DEF IInv, Orderly
<1>11. Orphaned'
  <2>1. ASSUME NEW d \in Clients, NEW j \in Ids \ Exists, visible_inventories'[d][j] > 0
        PROVE  <<d, j>> \in orphan'
    <3>1. CASE d = c /\ j = i
      <4>1. v # 1
        BY <1>1, <1>6, <2>1, <3>1
      <4> QED
        BY <1>2, <1>4, <2>1, <3>1, <4>1 DEF IInv, Orphaned
    <3>2. CASE d # c \/ j # i
      BY <1>5, <2>1, <3>2 DEF IInv, Orphaned
    <3> QED
      BY <3>1, <3>2
  <2> QED
    BY <1>4, <2>1 DEF Orphaned, Exists
<1>12. Agreeing'
  <2>1. ASSUME NEW d \in Clients, NEW j \in Exists, <<d, j>> \notin orphan'
        PROVE  /\ Renewed(down[d], j, contents[j])
               /\ j \in DOMAIN tracked[d] /\ <<d, j>> \notin blank =>
                        Matches(down[d], 0, j, tracked[d][j].counts, contents[j])
    <3>1. j \in Ids
      BY AllSynced
    <3>2. CASE d = c /\ j = i /\ v = 1
      <4>1. InOrder(down[c], tracked[c], i)
        BY DEF IInv, Orderly
      <4> QED
        BY <1>3, <3>2, <4>1 DEF Shown, Renewed, InOrder, Renews, Refers
    <3>3. CASE ~(d = c /\ j = i /\ v = 1)
      <4>1. <<d, j>> \notin orphan
        BY <1>4, <2>1, <3>3
      <4> QED
        BY <4>1 DEF IInv, Agreeing, Truthful
    <3> QED
      BY <3>2, <3>3
  <2> QED
    BY <1>4, <2>1 DEF Agreeing, Exists, Truthful
<1> QED
  BY <1>4, <1>7, <1>8, <1>9, <1>10, <1>11, <1>12 DEF IInv

LEMMA RequestedStep == ASSUME IInv, Requested PROVE IInv'
<1>1. ASSUME NEW c \in Clients, AddClient(c) \/ RemoveClient(c) PROVE IInv'
  BY <1>1, AddClientStep, RemoveClientStep
<1>2. ASSUME NEW c \in Clients, NEW i \in Ids,
             OpenInventory(c, i) \/ OpenCrafting(c, i) \/ Unsubscribe(c, i)
      PROVE  IInv'
  BY <1>2, OpenStep, UnsubscribeStep
<1>3. ASSUME NEW c \in Clients, NEW i \in Ids, NEW j \in Ids, OpenContainer(c, i, j) PROVE IInv'
  BY <1>3, OpenContainerStep
<1> QED
  BY <1>1, <1>2, <1>3 DEF Requested

-----------------------------------------------------------------------------
(* The browsers.                                                           *)

(* A message that arrives leaves the others to come.                       *)
LEMMA InOrderTaken ==
    ASSUME NEW q \in Seq(Messages), q # << >>, NEW i, NEW t, NEW u, InOrder(q, t, i),
           i \in DOMAIN u => i \in DOMAIN t \/ (Head(q).kind = "open" /\ i \in Head(q).invs)
    PROVE  InOrder(Tail(q), u, i)
<1>1. /\ Len(q) \in Nat \ {0} /\ DOMAIN q = 1 .. Len(q) /\ q[1] = Head(q)
      /\ DOMAIN Tail(q) = 1 .. Len(q) - 1
      /\ \A k \in 1 .. Len(q) - 1 : Tail(q)[k] = q[k + 1]
  BY Taken
<1>2. \A k \in DOMAIN Tail(q) : /\ k + 1 \in DOMAIN q /\ Tail(q)[k] = q[k + 1]
                                /\ 1 < k + 1 /\ \A l \in DOMAIN Tail(q) : l < k => l + 1 < k + 1
  BY <1>1
<1>3. ASSUME NEW k \in DOMAIN Tail(q), Renews(Tail(q)[k], i)
      PROVE  /\ i \in Tail(q)[k].invs /\ i \notin DOMAIN u
             /\ \A l \in DOMAIN Tail(q) :
                    l < k => ~(Tail(q)[l].kind = "open" /\ i \in Tail(q)[l].invs)
  <2>1. /\ i \in q[k + 1].invs /\ i \notin DOMAIN t
        /\ \A l \in DOMAIN q : l < k + 1 => ~(q[l].kind = "open" /\ i \in q[l].invs)
    BY <1>2, <1>3 DEF InOrder
  <2>2. 1 \in DOMAIN q
    BY <1>1
  <2>3. ~(Head(q).kind = "open" /\ i \in Head(q).invs)
    BY <1>1, <1>2, <2>1, <2>2
  <2> QED
    BY <1>2, <2>1, <2>3
<1> QED
  BY <1>3 DEF InOrder

LEMMA MatchesLater ==
    ASSUME NEW q \in Seq(Messages), q # << >>, NEW k \in DOMAIN q, NEW i, NEW old, NEW cs,
           Matches(q, k, i, old, cs)
    PROVE  Matches(Tail(q), k - 1, i, old, cs)
  BY LaterTaken DEF Matches

LEMMA RenewedTaken ==
    ASSUME NEW q \in Seq(Messages), q # << >>, NEW i, NEW cs, Renewed(q, i, cs)
    PROVE  Renewed(Tail(q), i, cs)
<1>1. /\ Len(q) \in Nat \ {0} /\ DOMAIN q = 1 .. Len(q)
      /\ DOMAIN Tail(q) = 1 .. Len(q) - 1
      /\ \A k \in 1 .. Len(q) - 1 : Tail(q)[k] = q[k + 1]
  BY Taken
<1>2. ASSUME NEW k \in DOMAIN Tail(q), Renews(Tail(q)[k], i)
      PROVE  Matches(Tail(q), k, i, Nothing, cs)
  <2>1. k + 1 \in DOMAIN q /\ Tail(q)[k] = q[k + 1] /\ (k + 1) - 1 = k
    BY <1>1
  <2>2. Matches(q, k + 1, i, Nothing, cs)
    BY <1>2, <2>1 DEF Renewed
  <2>3. Matches(Tail(q), (k + 1) - 1, i, Nothing, cs)
    BY <2>1, <2>2, MatchesLater
  <2> QED
    BY <2>1, <2>3
<1> QED
  BY <1>2 DEF Renewed

LEMMA MatchesTaken ==
    ASSUME NEW q \in Seq(Messages), q # << >>, NEW i, NEW old, NEW new, NEW cs,
           Matches(q, 0, i, old, cs),
           \A it \in Items : new[it] = IF Says(Head(q), i, it) THEN Said(Head(q), it) ELSE old[it]
    PROVE  Matches(Tail(q), 0, i, new, cs)
<1>1. ASSUME NEW it \in Items PROVE After(Tail(q), 0, i, it, new[it], cs[it])
  <2>1. After(q, 0, i, it, old[it], cs[it])
    BY DEF Matches
  <2>2. After(Tail(q), 0, i, it,
              IF Says(Head(q), i, it) THEN Said(Head(q), it) ELSE old[it], cs[it])
    BY <2>1, FirstTaken
  <2> QED
    BY <2>2
<1> QED
  BY <1>1 DEF Matches

(* What one browser does concerns nobody else: q, u, t and s are what is   *)
(* on the way to it and back, its records and its dialog afterwards.       *)
Browses(c, q, u, t, s) ==
    /\ q \in Seq(Messages) /\ u \in [Ids -> Nat]
    /\ t \in UNION {[S -> Record] : S \in SUBSET Ids} /\ s \subseteq DOMAIN t
    /\ down' = [down EXCEPT ![c] = q] /\ up' = [up EXCEPT ![c] = u]
    /\ tracked' = [tracked EXCEPT ![c] = t] /\ dialog' = [dialog EXCEPT ![c] = s]
    /\ \A d \in Clients, i \in Ids : d # c => (<<d, i>> \in blank' <=> <<d, i>> \in blank)
    /\ UNCHANGED <<contents, online, visible_inventories, inventory_viewers, orphan>>

Balanced(c, q, u, t) ==
    \A i \in Ids : /\ visible_inventories[c][i] = u[i] + Held(t, i) + OnTheWay(q, i)
                   /\ InOrder(q, t, i)

Candid(c, q, t, blanks) ==
    \A i \in Exists : <<c, i>> \notin orphan =>
        /\ Renewed(q, i, contents[i])
        /\ i \in DOMAIN t /\ <<c, i>> \notin blanks => Matches(q, 0, i, t[i].counts, contents[i])

LEMMA BrowserKeeps ==
    ASSUME IInv, NEW c \in Clients, NEW q, NEW u, NEW t, NEW s,
           Browses(c, q, u, t, s), Balanced(c, q, u, t), Candid(c, q, t, blank')
    PROVE  IInv'
<1>0. /\ q \in Seq(Messages) /\ u \in [Ids -> Nat]
      /\ t \in UNION {[S -> Record] : S \in SUBSET Ids} /\ s \subseteq DOMAIN t
      /\ down' = [down EXCEPT ![c] = q] /\ up' = [up EXCEPT ![c] = u]
      /\ tracked' = [tracked EXCEPT ![c] = t] /\ dialog' = [dialog EXCEPT ![c] = s]
      /\ \A d \in Clients, i \in Ids : d # c => (<<d, i>> \in blank' <=> <<d, i>> \in blank)
      /\ UNCHANGED <<contents, online, visible_inventories, inventory_viewers, orphan>>
  BY DEF Browses
<1>1. ASSUME NEW d \in Clients
      PROVE  \/ /\ d = c /\ down'[d] = q /\ up'[d] = u /\ tracked'[d] = t /\ dialog'[d] = s
             \/ /\ d # c /\ down'[d] = down[d] /\ up'[d] = up[d]
                /\ tracked'[d] = tracked[d] /\ dialog'[d] = dialog[d]
  BY <1>0 DEF IInv, Tables
<1>2. Exists \subseteq Ids
  BY AllSynced
<1>3. DOMAIN t \subseteq Ids
  BY <1>0
<1>4. Tables'
  <2>1. down' \in [Clients -> Seq(Messages)] /\ up' \in [Clients -> [Ids -> Nat]]
    BY <1>0 DEF IInv, Tables
  <2>2. tracked' \in [Clients -> UNION {[S -> Record] : S \in SUBSET Ids}]
    BY <1>0 DEF IInv, Tables
  <2>3. dialog' \in [Clients -> SUBSET Ids]
    BY <1>0, <1>3 DEF IInv, Tables
  <2>4. \A d \in Clients : dialog'[d] \subseteq DOMAIN tracked'[d]
    BY <1>0, <1>1 DEF IInv, Tables, Shown
  <2> QED
    BY <1>0, <2>1, <2>2, <2>3, <2>4 DEF IInv, Tables, Shown
<1>5. SubscribersTold' /\ Orphaned'
  BY <1>0 DEF IInv, SubscribersTold, Orphaned, Exists
<1>6. ReferencesBalance'
  <2>1. ASSUME NEW d \in Clients, NEW i \in Ids
        PROVE  visible_inventories[d][i]
                    = up'[d][i] + Held(tracked'[d], i) + OnTheWay(down'[d], i)
    BY <1>1 DEF IInv, ReferencesBalance, Balanced
  <2> QED
    BY <1>0, <2>1 DEF ReferencesBalance
<1>7. Orderly'
  <2>1. ASSUME NEW d \in Clients, NEW i \in Ids PROVE InOrder(down'[d], tracked'[d], i)
    BY <1>1 DEF IInv, Orderly, Balanced
  <2> QED
    BY <2>1 DEF Orderly
<1>8. Agreeing'
  <2>1. ASSUME NEW d \in Clients, NEW i \in Exists, <<d, i>> \notin orphan
        PROVE  /\ Renewed(down'[d], i, contents[i])
               /\ i \in DOMAIN tracked'[d] /\ <<d, i>> \notin blank' =>
                        Matches(down'[d], 0, i, tracked'[d][i].counts, contents[i])
    <3>1. CASE d = c
      BY <1>1, <2>1, <3>1 DEF Candid
    <3>2. CASE d # c
      BY <1>0, <1>1, <1>2, <2>1, <3>2 DEF IInv, Agreeing, Truthful
    <3> QED
      BY <3>1, <3>2
  <2> QED
    BY <1>0, <2>1 DEF Agreeing, Exists, Truthful
<1> QED
  BY <1>4, <1>5, <1>6, <1>7, <1>8 DEF IInv

(* What is known of a client whose browser takes a message.                *)
LEMMA Arriving ==
    ASSUME IInv, NEW c \in Clients, down[c] # << >>
    PROVE  /\ down[c] \in Seq(Messages) /\ Tail(down[c]) \in Seq(Messages)
           /\ Head(down[c]) \in Messages /\ up[c] \in [Ids -> Nat]
           /\ tracked[c] \in UNION {[S -> Record] : S \in SUBSET Ids}
           /\ dialog[c] \subseteq DOMAIN tracked[c] /\ Exists \subseteq Ids
           /\ \A i \in Ids :
                /\ visible_inventories[c][i]
                        = up[c][i] + Held(tracked[c], i) + OnTheWay(down[c], i)
                /\ InOrder(down[c], tracked[c], i)
                /\ OnTheWay(down[c], i) = (IF Refers(Head(down[c]), i) THEN 1 ELSE 0)
                                            + OnTheWay(Tail(down[c]), i)
                /\ up[c][i] \in Nat /\ Held(tracked[c], i) \in Nat
                /\ OnTheWay(Tail(down[c]), i) \in Nat
<1>1. /\ down[c] \in Seq(Messages) /\ up[c] \in [Ids -> Nat]
      /\ tracked[c] \in UNION {[S -> Record] : S \in SUBSET Ids}
      /\ dialog[c] \subseteq DOMAIN tracked[c]
  BY DEF IInv, Tables, Shown
<1>2. Tail(down[c]) \in Seq(Messages) /\ Head(down[c]) \in Messages
  BY <1>1, Taken
<1>3. ASSUME NEW i \in Ids
      PROVE  /\ visible_inventories[c][i]
                        = up[c][i] + Held(tracked[c], i) + OnTheWay(down[c], i)
             /\ InOrder(down[c], tracked[c], i)
             /\ OnTheWay(down[c], i) = (IF Refers(Head(down[c]), i) THEN 1 ELSE 0)
                                            + OnTheWay(Tail(down[c]), i)
             /\ up[c][i] \in Nat /\ Held(tracked[c], i) \in Nat
             /\ OnTheWay(Tail(down[c]), i) \in Nat
  <2>1. i \in DOMAIN tracked[c] => tracked[c][i].refs \in Nat
    BY <1>1 DEF Record
  <2>2. up[c][i] \in Nat /\ Held(tracked[c], i) \in Nat
    BY <1>1, <2>1 DEF Held
  <2>3. OnTheWay(Tail(down[c]), i) \in Nat
    BY <1>2, Numbered
  <2>4. OnTheWay(down[c], i) = (IF Refers(Head(down[c]), i) THEN 1 ELSE 0)
                                    + OnTheWay(Tail(down[c]), i)
    BY <1>1, NumberedTaken
  <2> QED
    BY <2>2, <2>3, <2>4 DEF IInv, ReferencesBalance, Orderly
<1> QED
  BY <1>1, <1>2, <1>3, AllSynced

(* Contents and updates: t is what the browser makes of its records.       *)
Reads(c, msg, t) ==
    /\ t \in UNION {[S -> Record] : S \in SUBSET Ids} /\ DOMAIN t = DOMAIN tracked[c]
    /\ \A i \in DOMAIN t :
            /\ t[i].refs = tracked[c][i].refs
            /\ \A it \in Items : t[i].counts[it] =
                    IF Says(msg, i, it) THEN Said(msg, it) ELSE tracked[c][i].counts[it]
    /\ tracked' = [tracked EXCEPT ![c] = t]
    /\ UNCHANGED <<contents, online, visible_inventories, inventory_viewers,
                   up, dialog, blank, orphan>>

LEMMA ReadKeeps ==
    ASSUME IInv, NEW c \in Clients, NEW msg, Received(c, msg), msg.kind \in {"contents", "update"},
           NEW t, Reads(c, msg, t)
    PROVE  IInv'
<1> DEFINE q == Tail(down[c])
<1>1. down[c] # << >> /\ Head(down[c]) = msg /\ down' = [down EXCEPT ![c] = q]
  BY DEF Received
<1>2. /\ down[c] \in Seq(Messages) /\ q \in Seq(Messages) /\ up[c] \in [Ids -> Nat]
      /\ dialog[c] \subseteq DOMAIN tracked[c] /\ Exists \subseteq Ids
      /\ \A i \in Ids :
            /\ visible_inventories[c][i] = up[c][i] + Held(tracked[c], i) + OnTheWay(down[c], i)
            /\ InOrder(down[c], tracked[c], i)
            /\ OnTheWay(down[c], i) = (IF Refers(msg, i) THEN 1 ELSE 0) + OnTheWay(q, i)
            /\ OnTheWay(q, i) \in Nat
  BY <1>1, Arriving
<1> HIDE DEF q
<1>3. ASSUME NEW i \in Ids
      PROVE  /\ visible_inventories[c][i] = up[c][i] + Held(t, i) + OnTheWay(q, i)
             /\ InOrder(q, t, i)
  <2>1. ~Refers(msg, i)
    BY DEF Refers
  <2>2. Held(t, i) = Held(tracked[c], i)
    BY DEF Held, Reads
  <2>3. OnTheWay(down[c], i) = OnTheWay(q, i)
    BY <1>2, <2>1
  <2>4. InOrder(q, t, i)
    BY <1>1, <1>2, InOrderTaken DEF q, Reads
  <2> QED
    BY <1>2, <2>2, <2>3, <2>4
<1>4. ASSUME NEW i \in Exists, <<c, i>> \notin orphan
      PROVE  /\ Renewed(q, i, contents[i])
             /\ i \in DOMAIN t /\ <<c, i>> \notin blank =>
                    Matches(q, 0, i, t[i].counts, contents[i])
  <2>1. /\ Renewed(down[c], i, contents[i])
        /\ i \in DOMAIN t /\ <<c, i>> \notin blank =>
                Matches(down[c], 0, i, tracked[c][i].counts, contents[i])
    BY <1>4 DEF IInv, Agreeing, Truthful, Reads
  <2>2. Renewed(q, i, contents[i])
    BY <1>1, <1>2, <2>1, RenewedTaken DEF q
  <2>3. ASSUME i \in DOMAIN t, <<c, i>> \notin blank
        PROVE  Matches(q, 0, i, t[i].counts, contents[i])
    <3>1. \A it \in Items : t[i].counts[it] =
                IF Says(Head(down[c]), i, it) THEN Said(Head(down[c]), it)
                ELSE tracked[c][i].counts[it]
      BY <1>1, <2>3 DEF Reads
    <3> QED
      BY <1>1, <1>2, <2>1, <2>3, <3>1, MatchesTaken DEF q
  <2> QED
    BY <2>2, <2>3
<1>5. Browses(c, q, up[c], t, dialog[c])
  <2>1. up' = [up EXCEPT ![c] = up[c]] /\ dialog' = [dialog EXCEPT ![c] = dialog[c]]
    BY DEF IInv, Tables, Reads
  <2> QED
    BY <1>1, <1>2, <2>1 DEF Reads, Browses
<1>6. Balanced(c, q, up[c], t)
  BY <1>3 DEF Balanced
<1>7. Candid(c, q, t, blank')
  BY <1>4 DEF Candid, Reads
<1> QED
  BY <1>5, <1>6, <1>7, BrowserKeeps

LEMMA ReceiveContentsStep ==
    ASSUME IInv, NEW c \in Clients, NEW msg, ReceiveContents(c, msg)
    PROVE  IInv'
<1> DEFINE i == msg.inv
           r == [tracked[c][i] EXCEPT !.counts =
                        [it \in Items |-> IF msg.counts[it] > 0 THEN msg.counts[it]
                                          ELSE tracked[c][i].counts[it]]]
           t == IF i \in Shown(c) THEN [tracked[c] EXCEPT ![i] = r] ELSE tracked[c]
<1>1. /\ msg.kind = "contents" /\ Received(c, msg)
      /\ UNCHANGED <<contents, online, visible_inventories, inventory_viewers,
                     up, dialog, blank, orphan>>
  BY DEF ReceiveContents, server
<1>2. tracked' = [tracked EXCEPT ![c] = t]
  BY DEF ReceiveContents, IInv, Tables
<1>3. /\ tracked[c] \in UNION {[S -> Record] : S \in SUBSET Ids}
      /\ msg \in Messages /\ i \in Ids /\ msg.counts \in Counts
  <2>1. msg \in Messages /\ tracked[c] \in UNION {[S -> Record] : S \in SUBSET Ids}
    BY <1>1, Arriving DEF Received
  <2> QED
    BY <1>1, <2>1, MessageFields
<1>4. ASSUME i \in Shown(c)
      PROVE  r \in Record /\ r.refs = tracked[c][i].refs /\
             \A it \in Items : r.counts[it] = IF msg.counts[it] > 0 THEN msg.counts[it]
                                              ELSE tracked[c][i].counts[it]
  <2>1. tracked[c][i] \in Record
    BY <1>3, <1>4 DEF Shown
  <2>2. [it \in Items |-> IF msg.counts[it] > 0 THEN msg.counts[it]
                          ELSE tracked[c][i].counts[it]] \in Counts
    BY <1>3, <2>1 DEF Counts, Record
  <2> QED
    BY <2>1, <2>2 DEF Record
<1> HIDE DEF r
<1>5. /\ t \in UNION {[S -> Record] : S \in SUBSET Ids} /\ DOMAIN t = DOMAIN tracked[c]
      /\ \A j \in DOMAIN t : t[j] = IF j = i THEN r ELSE tracked[c][j]
  BY <1>3, <1>4 DEF Shown
<1>6. ASSUME NEW j \in DOMAIN t
      PROVE  /\ t[j].refs = tracked[c][j].refs
             /\ \A it \in Items : t[j].counts[it] =
                    IF Says(msg, j, it) THEN Said(msg, it) ELSE tracked[c][j].counts[it]
  <2>1. CASE j = i
    <3>1. \A it \in Items : (Says(msg, j, it) <=> msg.counts[it] > 0) /\ Said(msg, it) = msg.counts[it]
      BY <1>1, <2>1 DEF Says, Said
    <3> QED
      BY <1>4, <1>5, <2>1, <3>1 DEF Shown
  <2>2. CASE j # i
    BY <1>1, <1>5, <2>2 DEF Says
  <2> QED
    BY <2>1, <2>2
<1> HIDE DEF t
<1>7. Reads(c, msg, t)
  BY <1>1, <1>2, <1>5, <1>6 DEF Reads
<1> QED
  BY <1>1, <1>7, ReadKeeps

LEMMA ReceiveUpdateStep ==
    ASSUME IInv, NEW c \in Clients, NEW msg, ReceiveUpdate(c, msg)
    PROVE  IInv'
<1> DEFINE i == msg.inv
           r == [tracked[c][i] EXCEPT !.counts = [@ EXCEPT ![msg.item] = msg.new]]
           t == IF i \in Shown(c) THEN [tracked[c] EXCEPT ![i] = r] ELSE tracked[c]
<1>1. /\ msg.kind = "update" /\ Received(c, msg)
      /\ UNCHANGED <<contents, online, visible_inventories, inventory_viewers,
                     up, dialog, blank, orphan>>
  BY DEF ReceiveUpdate, server
<1>2. tracked' = [tracked EXCEPT ![c] = t]
  BY DEF ReceiveUpdate, IInv, Tables
<1>3. /\ tracked[c] \in UNION {[S -> Record] : S \in SUBSET Ids}
      /\ msg \in Messages /\ i \in Ids /\ msg.item \in Items /\ msg.new \in 0 .. U8Max
  <2>1. msg \in Messages /\ tracked[c] \in UNION {[S -> Record] : S \in SUBSET Ids}
    BY <1>1, Arriving DEF Received
  <2> QED
    BY <1>1, <2>1, MessageFields
<1>4. ASSUME i \in Shown(c)
      PROVE  r \in Record /\ r.refs = tracked[c][i].refs /\
             \A it \in Items : r.counts[it] = IF it = msg.item THEN msg.new
                                              ELSE tracked[c][i].counts[it]
  <2>1. tracked[c][i] \in Record
    BY <1>3, <1>4 DEF Shown
  <2>2. tracked[c][i].counts \in [Items -> 0 .. U8Max]
    BY <2>1 DEF Counts, Record
  <2>3. [tracked[c][i].counts EXCEPT ![msg.item] = msg.new] \in Counts
    BY <1>3, <2>2 DEF Counts
  <2> QED
    BY <2>1, <2>2, <2>3 DEF Record
<1> HIDE DEF r
<1>5. /\ t \in UNION {[S -> Record] : S \in SUBSET Ids} /\ DOMAIN t = DOMAIN tracked[c]
      /\ \A j \in DOMAIN t : t[j] = IF j = i THEN r ELSE tracked[c][j]
  BY <1>3, <1>4 DEF Shown
<1>6. ASSUME NEW j \in DOMAIN t
      PROVE  /\ t[j].refs = tracked[c][j].refs
             /\ \A it \in Items : t[j].counts[it] =
                    IF Says(msg, j, it) THEN Said(msg, it) ELSE tracked[c][j].counts[it]
  <2>1. CASE j = i
    <3>1. \A it \in Items : (Says(msg, j, it) <=> it = msg.item) /\ Said(msg, it) = msg.new
      BY <1>1, <2>1 DEF Says, Said
    <3> QED
      BY <1>4, <1>5, <2>1, <3>1 DEF Shown
  <2>2. CASE j # i
    BY <1>1, <1>5, <2>2 DEF Says
  <2> QED
    BY <2>1, <2>2
<1> HIDE DEF t
<1>7. Reads(c, msg, t)
  BY <1>1, <1>2, <1>5, <1>6 DEF Reads
<1> QED
  BY <1>1, <1>7, ReadKeeps

LEMMA ReceivePeekStep ==
    ASSUME IInv, NEW c \in Clients, NEW msg, ReceivePeek(c, msg)
    PROVE  IInv'
<1> DEFINE q == Tail(down[c])
           u == [up[c] EXCEPT ![msg.inv] = @ + 1]
<1>1. /\ msg.kind = "peek" /\ down[c] # << >> /\ Head(down[c]) = msg
      /\ down' = [down EXCEPT ![c] = q] /\ up' = [up EXCEPT ![c] = u]
      /\ UNCHANGED <<contents, online, visible_inventories, inventory_viewers,
                     tracked, dialog, blank, orphan>>
  BY DEF ReceivePeek, Received, server, IInv, Tables
<1>2. /\ down[c] \in Seq(Messages) /\ q \in Seq(Messages) /\ msg \in Messages
      /\ tracked[c] \in UNION {[S -> Record] : S \in SUBSET Ids}
      /\ up[c] \in [Ids -> Nat] /\ dialog[c] \subseteq DOMAIN tracked[c]
      /\ \A i \in Ids :
            /\ visible_inventories[c][i] = up[c][i] + Held(tracked[c], i) + OnTheWay(down[c], i)
            /\ InOrder(down[c], tracked[c], i)
            /\ OnTheWay(down[c], i) = (IF Refers(msg, i) THEN 1 ELSE 0) + OnTheWay(q, i)
            /\ up[c][i] \in Nat /\ Held(tracked[c], i) \in Nat /\ OnTheWay(q, i) \in Nat
  BY <1>1, Arriving
<1>3. u \in [Ids -> Nat] /\ \A i \in Ids : u[i] = up[c][i] + (IF Refers(msg, i) THEN 1 ELSE 0)
  <2>1. msg.inv \in Ids /\ \A i \in Ids : Refers(msg, i) <=> msg.inv = i
    BY <1>1, <1>2, MessageFields DEF Refers
  <2> QED
    BY <1>2, <2>1
<1> HIDE DEF q, u
<1>4. Balanced(c, q, u, tracked[c])
  <2>1. ASSUME NEW i \in Ids
        PROVE  /\ visible_inventories[c][i] = u[i] + Held(tracked[c], i) + OnTheWay(q, i)
               /\ InOrder(q, tracked[c], i)
    <3>1. visible_inventories[c][i] = u[i] + Held(tracked[c], i) + OnTheWay(q, i)
      <4>1. CASE Refers(msg, i)
        <5>1. /\ visible_inventories[c][i]
                        = up[c][i] + Held(tracked[c], i) + OnTheWay(down[c], i)
              /\ OnTheWay(down[c], i) = 1 + OnTheWay(q, i) /\ u[i] = up[c][i] + 1
              /\ up[c][i] \in Nat /\ Held(tracked[c], i) \in Nat /\ OnTheWay(q, i) \in Nat
          BY <1>2, <1>3, <4>1
        <5> QED
          BY <5>1
      <4>2. CASE ~Refers(msg, i)
        BY <1>2, <1>3, <4>2
      <4> QED
        BY <4>1, <4>2
    <3>2. InOrder(q, tracked[c], i)
      BY <1>1, <1>2, InOrderTaken DEF q
    <3> QED
      BY <3>1, <3>2
  <2> QED
    BY <2>1 DEF Balanced
<1>5. Candid(c, q, tracked[c], blank)
  <2>1. ASSUME NEW i \in Exists, <<c, i>> \notin orphan
        PROVE  /\ Renewed(q, i, contents[i])
               /\ i \in DOMAIN tracked[c] /\ <<c, i>> \notin blank =>
                        Matches(q, 0, i, tracked[c][i].counts, contents[i])
    <3>1. /\ Renewed(down[c], i, contents[i])
          /\ i \in DOMAIN tracked[c] /\ <<c, i>> \notin blank =>
                Matches(down[c], 0, i, tracked[c][i].counts, contents[i])
      BY <2>1 DEF IInv, Agreeing, Truthful
    <3>2. \A it \in Items : ~Says(Head(down[c]), i, it)
      BY <1>1 DEF Says
    <3>3. Renewed(q, i, contents[i])
      BY <1>1, <1>2, <3>1, RenewedTaken DEF q
    <3>4. ASSUME i \in DOMAIN tracked[c], <<c, i>> \notin blank
          PROVE  Matches(q, 0, i, tracked[c][i].counts, contents[i])
      BY <1>1, <1>2, <3>1, <3>2, <3>4, MatchesTaken DEF q
    <3> QED
      BY <3>3, <3>4
  <2> QED
    BY <2>1 DEF Candid
<1>6. Browses(c, q, u, tracked[c], dialog[c])
  <2>1. tracked' = [tracked EXCEPT ![c] = tracked[c]] /\ dialog' = [dialog EXCEPT ![c] = dialog[c]]
    BY <1>1 DEF IInv, Tables
  <2> QED
    BY <1>1, <1>2, <1>3, <2>1 DEF Browses
<1>7. blank' = blank
  BY <1>1
<1> QED
  BY <1>4, <1>5, <1>6, <1>7, BrowserKeeps

(* The records of a browser that opens or closes a dialog.                 *)
OpenedAs(o, t, S) ==
    /\ o \in UNION {[R -> Record] : R \in SUBSET Ids}
    /\ DOMAIN o = DOMAIN t \cup S
    /\ \A i \in Ids : Held(o, i) = Held(t, i) + (IF i \in S THEN 1 ELSE 0)
    /\ \A i \in DOMAIN o : o[i].counts = IF i \in DOMAIN t THEN t[i].counts ELSE Nothing

LEMMA OpenedRecords ==
    ASSUME NEW t \in UNION {[S -> Record] : S \in SUBSET Ids}, NEW S \in SUBSET Ids
    PROVE  OpenedAs(Opened(t, S), t, S)
<1> DEFINE o == Opened(t, S)
<1>1. Nothing \in Counts
  BY CountsAssumption DEF Nothing, Counts
<1>2. \A i \in DOMAIN t : t[i] \in Record /\ t[i].refs \in Nat \ {0} /\ t[i].counts \in Counts
  BY DEF Record
<1>3. /\ DOMAIN o = DOMAIN t \cup S /\ DOMAIN o \subseteq Ids
      /\ o = [i \in DOMAIN o |-> o[i]]
      /\ \A i \in DOMAIN o : o[i] = IF i \notin S THEN t[i]
                                    ELSE IF i \in DOMAIN t THEN [t[i] EXCEPT !.refs = @ + 1]
                                    ELSE [refs |-> 1, counts |-> Nothing]
  BY DEF Opened
<1> HIDE DEF o
<1>4. ASSUME NEW i \in DOMAIN o
      PROVE  /\ o[i] \in Record
             /\ o[i].refs = Held(t, i) + (IF i \in S THEN 1 ELSE 0)
             /\ o[i].counts = IF i \in DOMAIN t THEN t[i].counts ELSE Nothing
  <2>1. CASE i \notin S
    <3>1. o[i] = t[i] /\ i \in DOMAIN t
      BY <1>3, <2>1
    <3>2. t[i].refs \in Nat
      BY <1>2, <3>1
    <3> QED
      BY <1>2, <2>1, <3>1, <3>2 DEF Held
  <2>2. CASE i \in S /\ i \in DOMAIN t
    <3>1. o[i] = [t[i] EXCEPT !.refs = @ + 1]
      BY <1>3, <2>2
    <3>2. t[i] \in Record /\ t[i].refs + 1 \in Nat \ {0}
      BY <1>2, <2>2
    <3>3. o[i] \in Record /\ o[i].refs = t[i].refs + 1 /\ o[i].counts = t[i].counts
      BY <3>1, <3>2 DEF Record
    <3> QED
      BY <2>2, <3>3 DEF Held
  <2>3. CASE i \in S /\ i \notin DOMAIN t
    <3>1. o[i] = [refs |-> 1, counts |-> Nothing]
      BY <1>3, <2>3
    <3> QED
      BY <1>1, <2>3, <3>1 DEF Held, Record
  <2> QED
    BY <2>1, <2>2, <2>3
<1>5. o \in [DOMAIN o -> Record]
  BY <1>3, <1>4
<1>6. o \in UNION {[R -> Record] : R \in SUBSET Ids}
  BY <1>3, <1>5
<1>7. ASSUME NEW i \in Ids PROVE Held(o, i) = Held(t, i) + (IF i \in S THEN 1 ELSE 0)
  BY <1>3, <1>4 DEF Held
<1> QED
  BY <1>3, <1>4, <1>6, <1>7 DEF OpenedAs, o

LEMMA ClosedRecords ==
    ASSUME NEW t \in UNION {[S -> Record] : S \in SUBSET Ids}, NEW S, S \subseteq DOMAIN t
    PROVE  /\ Closed(t, S) \in UNION {[R -> Record] : R \in SUBSET Ids}
           /\ DOMAIN Closed(t, S) \subseteq DOMAIN t
           /\ \A i \in Ids : Held(t, i) = Held(Closed(t, S), i) + (IF i \in S THEN 1 ELSE 0)
           /\ \A i \in DOMAIN Closed(t, S) : Closed(t, S)[i].counts = t[i].counts
<1> DEFINE o == Closed(t, S)
<1>2. \A i \in DOMAIN t : t[i] \in Record /\ t[i].refs \in Nat \ {0} /\ t[i].counts \in Counts
  BY DEF Record
<1>3. /\ DOMAIN o = {j \in DOMAIN t : j \notin S \/ t[j].refs > 1} /\ DOMAIN o \subseteq Ids
      /\ o = [i \in DOMAIN o |-> o[i]]
      /\ \A i \in DOMAIN o : o[i] = IF i \in S THEN [t[i] EXCEPT !.refs = @ - 1] ELSE t[i]
  BY DEF Closed
<1> HIDE DEF o
<1>4. ASSUME NEW i \in DOMAIN o
      PROVE  /\ o[i] \in Record
             /\ t[i].refs = o[i].refs + (IF i \in S THEN 1 ELSE 0)
             /\ o[i].counts = t[i].counts
  <2>1. CASE i \notin S
    <3>1. o[i] = t[i] /\ i \in DOMAIN t
      BY <1>3, <2>1
    <3>2. t[i].refs \in Nat
      BY <1>2, <3>1
    <3> QED
      BY <1>2, <2>1, <3>1, <3>2
  <2>2. CASE i \in S
    <3>1. o[i] = [t[i] EXCEPT !.refs = @ - 1]
      BY <1>3, <2>2
    <3>2. t[i] \in Record /\ t[i].refs - 1 \in Nat \ {0}
      BY <1>2, <1>3, <2>2
    <3>3. o[i] \in Record /\ o[i].refs = t[i].refs - 1 /\ o[i].counts = t[i].counts
      BY <3>1, <3>2 DEF Record
    <3>4. t[i].refs \in Nat
      BY <1>2, <1>3
    <3> QED
      BY <2>2, <3>3, <3>4
  <2> QED
    BY <2>1, <2>2
<1>5. o \in [DOMAIN o -> Record]
  BY <1>3, <1>4
<1>6. o \in UNION {[R -> Record] : R \in SUBSET Ids}
  BY <1>3, <1>5
<1>7. ASSUME NEW i \in Ids PROVE Held(t, i) = Held(o, i) + (IF i \in S THEN 1 ELSE 0)
  <2>1. CASE i \in DOMAIN o
    BY <1>3, <1>4, <2>1 DEF Held
  <2>2. CASE i \notin DOMAIN o /\ i \in DOMAIN t
    BY <1>2, <1>3, <2>2 DEF Held
  <2>3. CASE i \notin DOMAIN t
    BY <1>3, <2>3 DEF Held
  <2> QED
    BY <2>1, <2>2, <2>3
<1> QED
  BY <1>3, <1>4, <1>6, <1>7 DEF o

LEMMA ReceiveOpenStep ==
    ASSUME IInv, NEW c \in Clients, NEW msg, ReceiveOpen(c, msg)
    PROVE  IInv'
<1> DEFINE q == Tail(down[c])
           t == Opened(tracked[c], msg.invs)
<1>1. /\ msg.kind = "open" /\ down[c] # << >> /\ Head(down[c]) = msg
      /\ down' = [down EXCEPT ![c] = q] /\ tracked' = [tracked EXCEPT ![c] = t]
      /\ blank' = Blanks(c, t, msg.fresh) /\ dialog' = [dialog EXCEPT ![c] = msg.invs]
      /\ UNCHANGED <<contents, online, visible_inventories, inventory_viewers, up, orphan>>
  BY DEF ReceiveOpen, Received, server
<1>2. /\ down[c] \in Seq(Messages) /\ q \in Seq(Messages) /\ msg \in Messages
      /\ tracked[c] \in UNION {[S -> Record] : S \in SUBSET Ids}
      /\ up[c] \in [Ids -> Nat] /\ Exists \subseteq Ids
      /\ \A i \in Ids :
            /\ visible_inventories[c][i] = up[c][i] + Held(tracked[c], i) + OnTheWay(down[c], i)
            /\ InOrder(down[c], tracked[c], i)
            /\ OnTheWay(down[c], i) = (IF Refers(msg, i) THEN 1 ELSE 0) + OnTheWay(q, i)
            /\ up[c][i] \in Nat /\ Held(tracked[c], i) \in Nat /\ OnTheWay(q, i) \in Nat
  BY <1>1, Arriving
<1>3. msg.invs \in SUBSET Ids /\ \A i \in Ids : Refers(msg, i) <=> i \in msg.invs
  BY <1>1, <1>2, MessageFields DEF Refers
<1>4. /\ t \in UNION {[R -> Record] : R \in SUBSET Ids}
      /\ DOMAIN t = DOMAIN tracked[c] \cup msg.invs
      /\ \A i \in Ids : Held(t, i) = Held(tracked[c], i) + (IF i \in msg.invs THEN 1 ELSE 0)
      /\ \A i \in DOMAIN t : t[i].counts =
                IF i \in DOMAIN tracked[c] THEN tracked[c][i].counts ELSE Nothing
  <2>1. tracked[c] \in UNION {[R -> Record] : R \in SUBSET Ids} /\ msg.invs \in SUBSET Ids
    BY <1>2, <1>3
  <2>2. OpenedAs(t, tracked[c], msg.invs)
    BY <2>1, OpenedRecords
  <2> HIDE DEF t
  <2> QED
    BY <2>2 DEF OpenedAs
<1> HIDE DEF q, t
<1>5. Balanced(c, q, up[c], t)
  <2>1. ASSUME NEW i \in Ids
        PROVE  /\ visible_inventories[c][i] = up[c][i] + Held(t, i) + OnTheWay(q, i)
               /\ InOrder(q, t, i)
    <3>1. visible_inventories[c][i] = up[c][i] + Held(t, i) + OnTheWay(q, i)
      <4>1. CASE i \in msg.invs
        BY <1>2, <1>3, <1>4, <4>1
      <4>2. CASE i \notin msg.invs
        BY <1>2, <1>3, <1>4, <4>2
      <4> QED
        BY <4>1, <4>2
    <3>2. i \in DOMAIN t => i \in DOMAIN tracked[c]
                                \/ (Head(down[c]).kind = "open" /\ i \in Head(down[c]).invs)
      BY <1>1, <1>4
    <3>3. InOrder(q, t, i)
      BY <1>1, <1>2, <3>2, InOrderTaken DEF q
    <3> QED
      BY <3>1, <3>3
  <2> QED
    BY <2>1 DEF Balanced
<1>6. Candid(c, q, t, blank')
  <2>1. ASSUME NEW i \in Exists, <<c, i>> \notin orphan
        PROVE  /\ Renewed(q, i, contents[i])
               /\ i \in DOMAIN t /\ <<c, i>> \notin blank' =>
                        Matches(q, 0, i, t[i].counts, contents[i])
    <3>1. /\ Renewed(down[c], i, contents[i])
          /\ i \in DOMAIN tracked[c] /\ <<c, i>> \notin blank =>
                Matches(down[c], 0, i, tracked[c][i].counts, contents[i])
      BY <2>1 DEF IInv, Agreeing, Truthful
    <3>2. Renewed(q, i, contents[i])
      BY <1>1, <1>2, <3>1, RenewedTaken DEF q
    <3>3. \A it \in Items : ~Says(Head(down[c]), i, it)
      BY <1>1 DEF Says
    <3>4. 1 \in DOMAIN down[c] /\ down[c][1] = msg /\ i \in Ids
      BY <1>1, <1>2, Taken
    <3>5. ASSUME i \in DOMAIN t, <<c, i>> \notin blank'
          PROVE  Matches(q, 0, i, t[i].counts, contents[i])
      <4>1. CASE i \in DOMAIN tracked[c]
        <5>1. ~Renews(msg, i)
          BY <1>2, <3>4, <4>1 DEF InOrder
        <5>2. <<c, i>> \notin blank
          BY <1>1, <3>5, <5>1 DEF Blanks, Renews
        <5>3. Matches(down[c], 0, i, tracked[c][i].counts, contents[i])
          BY <3>1, <4>1, <5>2
        <5>4. Matches(q, 0, i, tracked[c][i].counts, contents[i])
          BY <1>1, <1>2, <3>3, <5>3, MatchesTaken DEF q
        <5> QED
          BY <1>4, <3>5, <4>1, <5>4
      <4>2. CASE i \notin DOMAIN tracked[c]
        <5>1. Renews(msg, i)
          BY <1>1, <3>5, <4>2 DEF Blanks, Renews, Shown
        <5>2. Matches(down[c], 1, i, Nothing, contents[i])
          BY <3>1, <3>4, <5>1 DEF Renewed
        <5>3. Matches(q, 1 - 1, i, Nothing, contents[i])
          BY <1>1, <1>2, <3>4, <5>2, MatchesLater DEF q
        <5> QED
          BY <1>4, <3>5, <4>2, <5>3
      <4> QED
        BY <4>1, <4>2
    <3> QED
      BY <3>2, <3>5
  <2> QED
    BY <2>1 DEF Candid
<1>7. Browses(c, q, up[c], t, msg.invs)
  <2>1. up' = [up EXCEPT ![c] = up[c]]
    BY <1>1 DEF IInv, Tables
  <2>2. \A d \in Clients, i \in Ids : d # c => (<<d, i>> \in blank' <=> <<d, i>> \in blank)
    BY <1>1 DEF Blanks
  <2> QED
    BY <1>1, <1>2, <1>3, <1>4, <2>1, <2>2 DEF Browses
<1> QED
  BY <1>5, <1>6, <1>7, BrowserKeeps

LEMMA CancelStep ==
    ASSUME IInv, NEW c \in Clients, Cancel(c)
    PROVE  IInv'
<1> DEFINE S == dialog[c]
           t == Closed(tracked[c], S)
           u == [i \in Ids |-> IF i \in S THEN up[c][i] + 1 ELSE up[c][i]]
<1>1. /\ down' = [down EXCEPT ![c] = down[c]] /\ tracked' = [tracked EXCEPT ![c] = t]
      /\ up' = [up EXCEPT ![c] = u] /\ dialog' = [dialog EXCEPT ![c] = {}]
      /\ blank' = Blanks(c, t, {})
      /\ UNCHANGED <<contents, online, visible_inventories, inventory_viewers, orphan>>
  BY DEF Cancel, server, IInv, Tables
<1>2. /\ down[c] \in Seq(Messages) /\ up[c] \in [Ids -> Nat] /\ S \subseteq DOMAIN tracked[c]
      /\ tracked[c] \in UNION {[R -> Record] : R \in SUBSET Ids}
  BY DEF IInv, Tables, Shown
<1>3. /\ t \in UNION {[R -> Record] : R \in SUBSET Ids}
      /\ DOMAIN t \subseteq DOMAIN tracked[c]
      /\ \A i \in Ids : Held(tracked[c], i) = Held(t, i) + (IF i \in S THEN 1 ELSE 0)
      /\ \A i \in DOMAIN t : t[i].counts = tracked[c][i].counts
  BY <1>2, ClosedRecords
<1>4. u \in [Ids -> Nat] /\ \A i \in Ids : u[i] = up[c][i] + (IF i \in S THEN 1 ELSE 0)
  BY <1>2
<1>5. \A d \in Clients, i \in Ids : d # c => (<<d, i>> \in blank' <=> <<d, i>> \in blank)
  BY <1>1 DEF Blanks
<1> HIDE DEF t, u, S
<1>6. Balanced(c, down[c], u, t)
  <2>1. ASSUME NEW i \in Ids
        PROVE  /\ visible_inventories[c][i] = u[i] + Held(t, i) + OnTheWay(down[c], i)
               /\ InOrder(down[c], t, i)
    <3>1. /\ visible_inventories[c][i] = up[c][i] + Held(tracked[c], i) + OnTheWay(down[c], i)
          /\ InOrder(down[c], tracked[c], i)
      BY DEF IInv, ReferencesBalance, Orderly
    <3>2. i \in DOMAIN t => t[i].refs \in Nat
      BY <1>3 DEF Record
    <3>3. up[c][i] \in Nat /\ Held(t, i) \in Nat /\ OnTheWay(down[c], i) \in Nat
      BY <1>2, <3>2, Numbered DEF Held
    <3>4. InOrder(down[c], t, i)
      BY <1>3, <3>1 DEF InOrder
    <3> QED
      BY <1>3, <1>4, <3>1, <3>3, <3>4
  <2> QED
    BY <2>1 DEF Balanced
<1>7. Candid(c, down[c], t, blank')
  <2>1. ASSUME NEW i \in Exists, <<c, i>> \notin orphan
        PROVE  /\ Renewed(down[c], i, contents[i])
               /\ i \in DOMAIN t /\ <<c, i>> \notin blank' =>
                        Matches(down[c], 0, i, t[i].counts, contents[i])
    <3>1. /\ Renewed(down[c], i, contents[i])
          /\ i \in DOMAIN tracked[c] /\ <<c, i>> \notin blank =>
                Matches(down[c], 0, i, tracked[c][i].counts, contents[i])
      BY <2>1 DEF IInv, Agreeing, Truthful
    <3>2. i \in DOMAIN t /\ <<c, i>> \notin blank' => <<c, i>> \notin blank
      BY <1>1 DEF Blanks
    <3> QED
      BY <1>3, <3>1, <3>2
  <2> QED
    BY <2>1 DEF Candid
<1>8. Browses(c, down[c], u, t, {})
  BY <1>1, <1>2, <1>3, <1>4, <1>5 DEF Browses
<1> QED
  BY <1>6, <1>7, <1>8, BrowserKeeps

LEMMA BrowsingStep == ASSUME IInv, Browsing PROVE IInv'
<1>1. PICK c \in Clients :
            \/ Cancel(c)
            \/ \E msg : ReceiveContents(c, msg) \/ ReceiveUpdate(c, msg)
                            \/ ReceivePeek(c, msg) \/ ReceiveOpen(c, msg)
  BY DEF Browsing
<1>2. CASE Cancel(c)
  BY <1>2, CancelStep
<1>3. ASSUME NEW msg, ReceiveContents(c, msg) \/ ReceiveUpdate(c, msg)
                            \/ ReceivePeek(c, msg) \/ ReceiveOpen(c, msg)
      PROVE  IInv'
  BY <1>3, ReceiveContentsStep, ReceiveUpdateStep, ReceivePeekStep, ReceiveOpenStep
<1> QED
  BY <1>1, <1>2, <1>3

-----------------------------------------------------------------------------
(* The theorems.                                                           *)

LEMMA Initially == Init => IInv
<1> SUFFICES ASSUME Init PROVE IInv
  OBVIOUS
<1>1. contents = << >> /\ Exists = {}
  BY DEF Init, Exists
<1>2. << >> \in Seq(Messages) /\ DOMAIN << >> = {}
  OBVIOUS
<1>3. NoData \in UNION {[S -> Record] : S \in SUBSET Ids} /\ DOMAIN NoData = {}
  <2>1. NoData = [x \in {} |-> x] /\ DOMAIN NoData = {}
    BY DEF NoData
  <2>2. NoData \in [{} -> Record]
    BY <2>1
  <2> QED
    BY <2>1, <2>2
<1>4. None \in [Ids -> Nat] /\ \A i \in Ids : None[i] = 0
  BY DEF None
<1>5. contents \in UNION {[S -> Counts] : S \in SUBSET Ids}
  <2>1. << >> = [x \in {} |-> x]
    OBVIOUS
  <2>2. contents \in [{} -> Counts]
    BY <1>1, <2>1
  <2> QED
    BY <2>2
<1>6. \A c \in Clients : /\ visible_inventories[c] = None /\ up[c] = None
                         /\ down[c] = << >> /\ tracked[c] = NoData
  BY DEF Init
<1> HIDE DEF NoData, None
<1>7. Tables
  <2>1. down \in [Clients -> Seq(Messages)] /\ dialog \in [Clients -> SUBSET Ids]
    BY <1>2 DEF Init
  <2>2. visible_inventories \in [Clients -> [Ids -> Nat]] /\ up \in [Clients -> [Ids -> Nat]]
    BY <1>4 DEF Init
  <2>3. tracked \in [Clients -> UNION {[S -> Record] : S \in SUBSET Ids}]
    BY <1>3 DEF Init
  <2>4. /\ inventory_viewers \in [Ids -> SUBSET Clients] /\ online \subseteq Clients
        /\ \A c \in Clients : dialog[c] = {}
    BY DEF Init
  <2> QED
    BY <1>5, <2>1, <2>2, <2>3, <2>4 DEF Tables
<1>8. SubscribersTold
  BY <1>4, <1>6 DEF SubscribersTold
<1>9. ReferencesBalance
  <2>1. ASSUME NEW i PROVE OnTheWay(<< >>, i) = 0 /\ Held(NoData, i) = 0
    BY <1>2, <1>3, Numbered DEF Held
  <2> QED
    BY <1>4, <1>6, <2>1 DEF ReferencesBalance
<1>10. Orderly
  BY <1>2, <1>6 DEF Orderly, InOrder
<1>11. Agreeing
  BY <1>1 DEF Agreeing
<1>12. Orphaned
  BY <1>4, <1>6 DEF Orphaned
<1> QED
  BY <1>7, <1>8, <1>9, <1>10, <1>11, <1>12 DEF IInv

LEMMA NextStep == IInv /\ [Next]_vars => IInv'
<1> SUFFICES ASSUME IInv, [Next]_vars PROVE IInv'
  OBVIOUS
<1>1. CASE Changes
  BY <1>1, ChangesStep
<1>2. CASE Requested
  BY <1>2, RequestedStep
<1>3. CASE Browsing
  BY <1>3, BrowsingStep
<1>4. CASE UNCHANGED vars
  BY <1>4 DEF vars, IInv, Tables, SubscribersTold, ReferencesBalance, Orderly, Agreeing,
              Orphaned, Exists, Shown, Truthful
<1> QED
  BY <1>1, <1>2, <1>3, <1>4 DEF Next

(* The invariant all others follow from: what is on the way to a browser   *)
(* and what it keeps fit what the server counts for it and has in the      *)
(* inventory.                                                              *)
THEOREM IInvHolds == Spec => []IInv
  BY Initially, NextStep, PTL DEF Spec

(* Whoever has an inventory open gets its updates (vision.rs,              *)
(* subscribe_inventory, unsubscribe_inventory and remove_client), however  *)
(* often it was opened and closed and whatever entries the last owner of   *)
(* the client's id has left behind.                                        *)
THEOREM SubscribersToldHolds == Spec => []SubscribersTold
<1>1. IInv => SubscribersTold
  BY DEF IInv
<1> QED
  BY <1>1, IInvHolds, PTL

(* The references a client has on the server (vision.rs,                   *)
(* visible_inventories) are those its browser holds (inventory.js), those  *)
(* of dialogs on the way to it and those whose release is on the way back. *)
THEOREM ReferencesBalanceHolds == Spec => []ReferencesBalance
<1>1. IInv => ReferencesBalance
  BY DEF IInv
<1> QED
  BY <1>1, IInvHolds, PTL

(* So the server never panics over a release (util/refcount.rs), in        *)
(* whatever order dialogs are opened, shown and closed.                    *)
THEOREM ReleasedIsRetained ==
    Spec => [][\A c \in Clients, i \in Ids : Unsubscribe(c, i) => UNCHANGED crashed]_vars
<1>1. IInv => \A c \in Clients, i \in Ids : Unsubscribe(c, i) => UNCHANGED crashed
  BY UnsubscribeStep
<1> QED
  BY <1>1, IInvHolds, PTL

(* With the messages on the way a browser comes to show what is in the     *)
(* inventory (vision.rs, update_inventory; inventory.js), except for one   *)
(* that was destroyed while it was open, or that the browser dropped and   *)
(* opened again without the server noticing.                               *)
THEOREM BrowserAgreesHolds == Spec => []BrowserAgrees
<1>1. IInv => BrowserAgrees
  <2>1. SUFFICES ASSUME IInv, NEW c \in online, NEW i \in Shown(c) \cap Exists,
                        <<c, i>> \notin blank \cup orphan, NEW it \in Items
                 PROVE  ComesToShow(down[c], i, it, tracked[c][i].counts[it], contents[i][it])
    BY DEF BrowserAgrees
  <2>2. c \in Clients
    BY <2>1 DEF IInv, Tables
  <2>3. After(down[c], 0, i, it, tracked[c][i].counts[it], contents[i][it])
    BY <2>1, <2>2 DEF IInv, Agreeing, Truthful, Shown, Matches
  <2>4. \A l \in DOMAIN down[c] : l > 0
    <3>1. down[c] \in Seq(Messages)
      BY <2>1, <2>2 DEF IInv, Tables
    <3> QED
      BY <3>1, LenProperties
  <2>5. {l \in DOMAIN down[c] : l > 0 /\ Says(down[c][l], i, it)}
            = {l \in DOMAIN down[c] : Says(down[c][l], i, it)}
    BY <2>4
  <2> QED
    BY <2>3, <2>5 DEF After, ComesToShow
<1> QED
  BY <1>1, IInvHolds, PTL

(* Moving and crafting (logic/items.rs) take exactly what they put         *)
(* elsewhere: no count saturates (world/ops/inventory.rs), although the    *)
(* check and the updates are apart and both inventories may be the same.   *)
THEOREM ItemsConservedHolds == Spec => ItemsConserved
<1>1. IInv => \A from, to \in Ids, it \in Items, n \in Requests :
                MoveItems(from, to, it, n) =>
                    \E k \in 1 .. n : \A i \in Exists, x \in Items :
                        contents'[i][x] = contents[i][x]
                            + (IF x = it /\ i = to THEN k ELSE 0)
                            - (IF x = it /\ i = from THEN k ELSE 0)
  BY MoveExact
<1>2. IInv => \A i \in Ids, r \in Recipes, n \in Requests :
                CraftRecipe(i, r, n) =>
                    \E k \in 1 .. n : \A x \in Items :
                        contents'[i][x] = contents[i][x] + k * (Outputs[r][x] - Inputs[r][x])
  BY CraftOnce
<1>3. Spec => MoveConserves
  BY <1>1, IInvHolds, PTL DEF MoveConserves
<1>4. Spec => CraftExact
  BY <1>2, IInvHolds, PTL DEF CraftExact
<1> QED
  BY <1>3, <1>4 DEF ItemsConserved
=============================================================================
