-------------------------- MODULE ClientViews_proofs ---------------------------
(***************************************************************************)
(* Theorems about ClientViews, for any finite sets of clients and planes,  *)
(* any positions, and any shapes of views and of what chunks keep in       *)
(* memory.                                                                 *)
(***************************************************************************)
EXTENDS ClientViews, Walk, FiniteSetTheorems, WellFoundedInduction, TLAPS

USE ClientViewsAssumption

(* What is true of World when the pawns of P are in it: the limbo plane    *)
(* keeps its id, no two planes have the same one, and every pawn is in the *)
(* table of its plane, or waits for it.                                    *)
Placed(w, P) ==
    /\ w \in Worlds
    /\ w.ids[STABLE_PLANE_LIMBO] = PLANE_LIMBO
    /\ \A s, t \in StablePlanes : w.ids[s] = w.ids[t] /\ w.ids[s] # NotLoaded => s = t
    /\ \A c \in Clients : w.pawn[c].home # STABLE_PLANE_LIMBO
    /\ \A c \in P : w.pawn[c].plane = IdOrLimbo(w, w.pawn[c].home)
    /\ \A i \in PlaneIds : w.by_plane[i] = {c \in P : w.pawn[c].plane = i /\ i # PLANE_LIMBO}
    /\ \A s \in StablePlanes : w.in_limbo[s] =
            {c \in P : w.pawn[c].plane = PLANE_LIMBO /\ w.pawn[c].home = s}

(* Only planes that have been made are in memory, or have pawns.           *)
Known(w, m) ==
    /\ \A s \in StablePlanes : w.ids[s] # NotLoaded => s \in m
    /\ \A c \in Clients : w.pawn[c].home \in m

-----------------------------------------------------------------------------

(* Ids are natural numbers; those of limbo and of the forest are there.    *)
LEMMA Ids ==
    /\ PlaneIds \subseteq Nat /\ PLANE_LIMBO \in PlaneIds /\ 1 \in PlaneIds
    /\ NotLoaded \notin PlaneIds /\ PLANE_LIMBO # NotLoaded
    /\ IsFiniteSet(PlaneIds) /\ Cardinality(PlaneIds) = Cardinality(StablePlanes)
<1> DEFINE n == Cardinality(StablePlanes)
           two == {STABLE_PLANE_LIMBO} \cup {STABLE_PLANE_FOREST}
<1>1. n \in Nat
  BY FS_CardinalityType
<1>2. Cardinality(two) = 2
  <2>1. /\ IsFiniteSet({STABLE_PLANE_LIMBO}) /\ Cardinality({STABLE_PLANE_LIMBO}) = 1
        /\ STABLE_PLANE_FOREST \notin {STABLE_PLANE_LIMBO}
    BY FS_Singleton
  <2>2. Cardinality({STABLE_PLANE_LIMBO} \cup {STABLE_PLANE_FOREST}) =
            Cardinality({STABLE_PLANE_LIMBO}) + 1
    BY <2>1, FS_AddElement, Zenon
  <2>3. Cardinality(two) = Cardinality({STABLE_PLANE_LIMBO}) + 1
    BY <2>2
  <2> HIDE DEF two
  <2> QED
    BY <2>1, <2>3
<1>3. Cardinality(two) <= n
  <2>1. two \subseteq StablePlanes
    OBVIOUS
  <2> HIDE DEF two
  <2> QED
    BY <2>1, FS_Subset
<1> HIDE DEF n, two
<1>4. n >= 2
  BY <1>1, <1>2, <1>3
<1>5. PlaneIds = 0 .. n - 1
  BY DEF PlaneIds, n
<1>6. IsFiniteSet(0 .. n - 1) /\ Cardinality(0 .. n - 1) = n
  BY <1>1, <1>4, FS_Interval
<1> QED
  BY <1>1, <1>4, <1>5, <1>6 DEF PLANE_LIMBO, NotLoaded, n

(* A set of natural numbers that is not empty has a least one.             *)
LEMMA LeastNat ==
    ASSUME NEW T, T \subseteq Nat, T # {}
    PROVE  \E x \in T : \A y \in T : x <= y
<1> DEFINE below == {0 .. x : x \in T}
           R == StrictSubsetOrdering(Nat)
<1>1. IsWellFoundedOn(R, FiniteSubsetsOf(Nat))
  BY FS_StrictSubsetOrderingWellFounded
<1>2. below \subseteq FiniteSubsetsOf(Nat) /\ below # {}
  <2>1. \A x \in T : 0 .. x \subseteq Nat /\ IsFiniteSet(0 .. x)
    BY FS_Interval
  <2>2. \A x \in T : 0 .. x \in FiniteSubsetsOf(Nat)
    BY <2>1 DEF FiniteSubsetsOf
  <2>3. PICK x \in T : TRUE
    OBVIOUS
  <2>4. 0 .. x \in below
    OBVIOUS
  <2>5. below \subseteq FiniteSubsetsOf(Nat)
    BY <2>2, Zenon
  <2> QED
    BY <2>4, <2>5
<1> HIDE DEF R
<1>3. PICK X \in below : \A Y \in below : ~ (<<Y, X>> \in R)
  BY <1>1, <1>2, WFMin
<1>4. PICK x \in T : X = 0 .. x
  OBVIOUS
<1>5. ASSUME NEW y \in T, y < x PROVE FALSE
  <2>1. 0 .. y \subseteq 0 .. x /\ x \in 0 .. x /\ x \notin 0 .. y
    BY <1>5
  <2>2. 0 .. y \in SUBSET Nat /\ 0 .. x \in SUBSET Nat /\ 0 .. y # 0 .. x
    BY <2>1
  <2>3. <<0 .. y, 0 .. x>> \in R
    BY <2>1, <2>2 DEF R, StrictSubsetOrdering
  <2> QED
    BY <1>3, <1>4, <2>3
<1> QED
  BY <1>5

(* While a plane is not in memory there is an id that no plane has.        *)
LEMMA NewPlaneIdIsFree ==
    ASSUME NEW w \in Worlds, NEW s \in StablePlanes, w.ids[s] = NotLoaded
    PROVE  /\ NewPlaneId(w) \in PlaneIds
           /\ \A t \in StablePlanes : w.ids[t] # NewPlaneId(w)
<1> DEFINE others == StablePlanes \ {s}
           taken  == {w.ids[t] : t \in others}
           free   == PlaneIds \ taken
<1>1. /\ IsFiniteSet(others)
      /\ Cardinality(others) = Cardinality(StablePlanes) - 1
  BY FS_RemoveElement
<1>2. IsFiniteSet(taken) /\ Cardinality(taken) <= Cardinality(others)
  <2> DEFINE f == [t \in others |-> w.ids[t]]
  <2>1. f \in Surjection(others, taken)
    BY DEF Surjection
  <2> QED
    BY <1>1, <2>1, FS_Surjection
<1>3. free # {}
  <2>1. SUFFICES ASSUME PlaneIds \subseteq taken PROVE FALSE
    OBVIOUS
  <2>2. Cardinality(PlaneIds) <= Cardinality(taken)
    BY <1>2, <2>1, FS_Subset
  <2>3. /\ Cardinality(taken) \in Nat /\ Cardinality(others) \in Nat
        /\ Cardinality(StablePlanes) \in Nat
    BY <1>1, <1>2, FS_CardinalityType
  <2> QED
    BY <1>1, <1>2, <2>2, <2>3, Ids
<1>4. PICK i \in free : \A j \in free : i <= j
  BY <1>3, Ids, LeastNat
<1>5. \A t \in StablePlanes : w.ids[t] # i
  BY <1>4, Ids
<1>6. ASSUME NEW j \in 0 .. i - 1 PROVE \E t \in StablePlanes : w.ids[t] = j
  <2>1. j \in PlaneIds
    BY <1>4, FS_CardinalityType DEF PlaneIds
  <2>2. j \notin free
    BY <1>4, <2>1, Ids
  <2> QED
    BY <2>1, <2>2
<1>7. i \in PlaneIds
  OBVIOUS
<1> QED
  BY <1>5, <1>6, <1>7 DEF NewPlaneId

-----------------------------------------------------------------------------
(* The operations of World keep it in order.                               *)

(* Moving pawns to another plane changes nothing else about them.          *)
SamePawns(pawns, w) ==
    /\ pawns \in [Clients -> Pawns]
    /\ \A c \in Clients : /\ pawns[c].home = w.pawn[c].home /\ pawns[c].pos = w.pawn[c].pos
                          /\ pawns[c].crossed = w.pawn[c].crossed

(* Pawns that are moved get the new plane, the others keep theirs.         *)
LEMMA MovedPawns ==
    ASSUME NEW w \in Worlds, NEW S, NEW i \in PlaneIds
    PROVE  /\ SamePawns(Moved(w, S, i), w)
           /\ \A c \in Clients : Moved(w, S, i)[c].plane = IF c \in S THEN i ELSE w.pawn[c].plane
<1>1. \A c \in Clients : w.pawn[c] \in Pawns
  BY DEF Worlds
<1>2. ASSUME NEW p \in Pawns
      PROVE  LET q == [p EXCEPT !.plane = i]
             IN /\ q \in Pawns /\ q.home = p.home /\ q.plane = i
                /\ q.pos = p.pos /\ q.crossed = p.crossed
  BY DEF Pawns
<1> DEFINE m == Moved(w, S, i)
<1>3. /\ DOMAIN m = Clients /\ m = [c \in Clients |-> m[c]]
      /\ \A c \in Clients : m[c] = IF c \in S THEN [w.pawn[c] EXCEPT !.plane = i] ELSE w.pawn[c]
  BY DEF Moved
<1> HIDE DEF m
<1>4. ASSUME NEW c \in Clients
      PROVE  /\ m[c] \in Pawns /\ m[c].home = w.pawn[c].home
             /\ m[c].pos = w.pawn[c].pos /\ m[c].crossed = w.pawn[c].crossed
             /\ m[c].plane = IF c \in S THEN i ELSE w.pawn[c].plane
  <2>1. CASE c \in S
    <3>1. m[c] = [w.pawn[c] EXCEPT !.plane = i]
      BY <1>3, <2>1
    <3> QED
      BY <1>1, <1>2, <2>1, <3>1
  <2>2. CASE c \notin S
    BY <1>1, <1>3, <2>2
  <2> QED
    BY <2>1, <2>2
<1>5. m \in [Clients -> Pawns]
  BY <1>3, <1>4
<1> QED
  BY <1>4, <1>5 DEF m, SamePawns

(* A plane comes into memory with the pawns that waited for it.            *)
LEMMA AddPlanePlaces ==
    ASSUME NEW w, NEW P, P \subseteq Clients, Placed(w, P),
           NEW s \in StablePlanes, w.ids[s] = NotLoaded
    PROVE  /\ Placed(AddPlane(w, s), P) /\ SamePawns(AddPlane(w, s).pawn, w)
           /\ NewPlaneId(w) \in PlaneIds
           /\ AddPlane(w, s).ids = [w.ids EXCEPT ![s] = NewPlaneId(w)]
<1> DEFINE i == NewPlaneId(w)
           x == AddPlane(w, s)
<1>1. i \in PlaneIds /\ \A t \in StablePlanes : w.ids[t] # i
  BY NewPlaneIdIsFree DEF Placed
<1> HIDE DEF i
<1>2. /\ x.ids = [w.ids EXCEPT ![s] = i]
      /\ x.pawn = Moved(w, w.in_limbo[s], i)
      /\ x.by_plane = [w.by_plane EXCEPT ![i] = IF w.in_limbo[s] = {} THEN @ ELSE w.in_limbo[s]]
      /\ x.in_limbo = [w.in_limbo EXCEPT ![s] = {}]
      /\ x = [ids |-> x.ids, pawn |-> x.pawn, by_plane |-> x.by_plane, in_limbo |-> x.in_limbo]
  BY DEF AddPlane, i
<1> HIDE DEF x
<1>3. i # PLANE_LIMBO /\ s # STABLE_PLANE_LIMBO /\ i # NotLoaded
  BY <1>1, Ids DEF Placed
<1>11. ASSUME NEW c \in P
       PROVE  /\ w.pawn[c].home = s => w.pawn[c].plane = PLANE_LIMBO
              /\ w.pawn[c].plane # i
  <2>1. w.pawn[c].plane = IdOrLimbo(w, w.pawn[c].home) /\ w.pawn[c].home \in StablePlanes
    BY DEF Placed, Worlds, Pawns
  <2> QED
    BY <1>1, <1>3, <2>1 DEF IdOrLimbo
<1>4. /\ w.in_limbo[s] = {c \in P : w.pawn[c].home = s}
      /\ w.by_plane[i] = {}
  BY <1>1, <1>11 DEF Placed
<1>5. /\ x.pawn \in [Clients -> Pawns]
      /\ \A c \in Clients : x.pawn[c].home = w.pawn[c].home
      /\ SamePawns(x.pawn, w)
      /\ \A c \in P : x.pawn[c].plane =
            IF w.pawn[c].home = s THEN i ELSE w.pawn[c].plane
  <2>1. /\ SamePawns(x.pawn, w)
        /\ \A c \in Clients : x.pawn[c].plane =
                IF c \in w.in_limbo[s] THEN i ELSE w.pawn[c].plane
    BY <1>1, <1>2, MovedPawns DEF Placed
  <2> QED
    BY <1>4, <2>1 DEF SamePawns
<1>6. x \in Worlds
  <2>1. x.ids \in [StablePlanes -> PlaneIds \cup {NotLoaded}]
    BY <1>1, <1>2 DEF Placed, Worlds
  <2>2. x.by_plane \in [PlaneIds -> SUBSET Clients]
        /\ x.in_limbo \in [StablePlanes -> SUBSET Clients]
    BY <1>2, <1>4 DEF Placed, Worlds
  <2> QED
    BY <1>2, <1>5, <2>1, <2>2 DEF Worlds
<1>7. \A t \in StablePlanes : x.ids[t] = IF t = s THEN i ELSE w.ids[t]
  BY <1>2 DEF Placed, Worlds
<1>8. \A c \in P : x.pawn[c].plane = IdOrLimbo(x, x.pawn[c].home)
  <2>1. \A c \in P : w.pawn[c].home \in StablePlanes
    BY DEF Placed, Worlds, Pawns
  <2> QED
    BY <1>3, <1>5, <1>7, <2>1 DEF Placed, IdOrLimbo
<1>9. \A j \in PlaneIds : x.by_plane[j] = {c \in P : x.pawn[c].plane = j /\ j # PLANE_LIMBO}
  <2>1. \A j \in PlaneIds : x.by_plane[j] = IF j = i THEN w.in_limbo[s] ELSE w.by_plane[j]
    BY <1>2, <1>4 DEF Placed, Worlds
  <2>2. ASSUME NEW j \in PlaneIds, j # i
        PROVE  w.by_plane[j] = {c \in P : x.pawn[c].plane = j /\ j # PLANE_LIMBO}
    <3>2. w.by_plane[j] = {c \in P : w.pawn[c].plane = j /\ j # PLANE_LIMBO}
      BY DEF Placed
    <3> QED
      BY <1>3, <1>5, <1>11, <2>2, <3>2
  <2>3. w.in_limbo[s] = {c \in P : x.pawn[c].plane = i /\ i # PLANE_LIMBO}
    BY <1>3, <1>4, <1>5, <1>11
  <2> QED
    BY <2>1, <2>2, <2>3
<1>10. \A t \in StablePlanes : x.in_limbo[t] =
            {c \in P : x.pawn[c].plane = PLANE_LIMBO /\ x.pawn[c].home = t}
  <2>1. \A t \in StablePlanes : x.in_limbo[t] = IF t = s THEN {} ELSE w.in_limbo[t]
    BY <1>2 DEF Placed, Worlds
  <2> QED
    BY <1>3, <1>5, <2>1 DEF Placed
<1> QED
  <2>1. Placed(x, P)
    BY <1>1, <1>3, <1>5, <1>6, <1>7, <1>8, <1>9, <1>10 DEF Placed
  <2> QED
    BY <1>1, <1>2, <1>5, <2>1 DEF x, i

(* The same of get_plane, which loads a plane when it has to.              *)
GotPlane(w, x, s) ==
    /\ x.ids[s] \in PlaneIds
    /\ \A t \in StablePlanes : t # s \/ w.ids[t] # NotLoaded => x.ids[t] = w.ids[t]
    /\ SamePawns(x.pawn, w)

(* get_plane keeps World in order, whoever is in it.                       *)
LEMMA GetPlanePlaces ==
    ASSUME NEW w, NEW P, P \subseteq Clients, Placed(w, P), NEW s \in StablePlanes
    PROVE  Placed(GetPlane(w, s), P) /\ GotPlane(w, GetPlane(w, s), s)
<1> DEFINE x == GetPlane(w, s)
<1>1. CASE w.ids[s] = NotLoaded
  <2>1. x = AddPlane(w, s)
    BY <1>1 DEF GetPlane
  <2>2. Placed(x, P) /\ SamePawns(x.pawn, w) /\ NewPlaneId(w) \in PlaneIds
        /\ x.ids = [w.ids EXCEPT ![s] = NewPlaneId(w)]
    BY <1>1, <2>1, AddPlanePlaces
  <2>3. w.ids \in [StablePlanes -> PlaneIds \cup {NotLoaded}]
    BY DEF Placed, Worlds
  <2> HIDE DEF x
  <2> QED
    BY <1>1, <2>2, <2>3 DEF x, GotPlane
<1>2. CASE w.ids[s] # NotLoaded
  <2>1. x = w
    BY <1>2 DEF GetPlane
  <2>2. SamePawns(w.pawn, w) /\ w.ids[s] \in PlaneIds
    BY <1>2 DEF SamePawns, Placed, Worlds
  <2> QED
    BY <2>1, <2>2 DEF GotPlane
<1> QED
  BY <1>1, <1>2

(* A plane goes, and its pawns wait for it.                                *)
LEMMA RemovePlanePlaces ==
    ASSUME NEW w, NEW P, P \subseteq Clients, Placed(w, P),
           NEW i \in PlaneIds \ {PLANE_LIMBO}, NEW s \in StablePlanes, w.ids[s] = i
    PROVE  /\ Placed(RemovePlane(w, i), P) /\ SamePawns(RemovePlane(w, i).pawn, w)
           /\ RemovePlane(w, i).ids = [w.ids EXCEPT ![s] = NotLoaded]
<1> DEFINE x == RemovePlane(w, i)
<1>1. s = CHOOSE t \in StablePlanes : w.ids[t] = i
  BY Ids DEF Placed
<1>2. /\ x.ids = [w.ids EXCEPT ![s] = NotLoaded]
      /\ x.pawn = Moved(w, w.by_plane[i], PLANE_LIMBO)
      /\ x.by_plane = [w.by_plane EXCEPT ![i] = {}]
      /\ x.in_limbo = [w.in_limbo EXCEPT ![s] = IF w.by_plane[i] = {} THEN @ ELSE w.by_plane[i]]
      /\ x = [ids |-> x.ids, pawn |-> x.pawn, by_plane |-> x.by_plane, in_limbo |-> x.in_limbo]
  BY <1>1 DEF RemovePlane
<1> HIDE DEF x
<1>3. s # STABLE_PLANE_LIMBO /\ i # NotLoaded
  BY Ids DEF Placed
<1>4. ASSUME NEW c \in P
      PROVE  /\ w.pawn[c].home = s <=> w.pawn[c].plane = i
             /\ w.pawn[c].home \in StablePlanes
  <2>1. w.pawn[c].plane = IdOrLimbo(w, w.pawn[c].home) /\ w.pawn[c].home \in StablePlanes
    BY DEF Placed, Worlds, Pawns
  <2> QED
    BY <1>3, <2>1 DEF IdOrLimbo, Placed
<1>5. /\ w.by_plane[i] = {c \in P : w.pawn[c].home = s}
      /\ w.in_limbo[s] = {}
  BY <1>4 DEF Placed
<1>6. /\ SamePawns(x.pawn, w)
      /\ \A c \in P : x.pawn[c].plane =
            IF w.pawn[c].home = s THEN PLANE_LIMBO ELSE w.pawn[c].plane
  <2>1. /\ SamePawns(x.pawn, w)
        /\ \A c \in Clients : x.pawn[c].plane =
                IF c \in w.by_plane[i] THEN PLANE_LIMBO ELSE w.pawn[c].plane
    BY <1>2, Ids, MovedPawns DEF Placed
  <2> QED
    BY <1>5, <2>1
<1>7. \A c \in Clients : x.pawn[c].home = w.pawn[c].home
  BY <1>6 DEF SamePawns
<1>8. x \in Worlds
  <2>1. x.ids \in [StablePlanes -> PlaneIds \cup {NotLoaded}]
    BY <1>2 DEF Placed, Worlds
  <2>2. x.by_plane \in [PlaneIds -> SUBSET Clients]
        /\ x.in_limbo \in [StablePlanes -> SUBSET Clients]
    BY <1>2, <1>5 DEF Placed, Worlds
  <2>3. x.pawn \in [Clients -> Pawns]
    BY <1>6 DEF SamePawns
  <2> QED
    BY <1>2, <2>1, <2>2, <2>3 DEF Worlds
<1>9. \A t \in StablePlanes : x.ids[t] = IF t = s THEN NotLoaded ELSE w.ids[t]
  BY <1>2 DEF Placed, Worlds
<1>10. \A c \in P : x.pawn[c].plane = IdOrLimbo(x, x.pawn[c].home)
  BY <1>4, <1>6, <1>7, <1>9 DEF Placed, IdOrLimbo
<1>11. ASSUME NEW j \in PlaneIds
       PROVE  x.by_plane[j] = {c \in P : x.pawn[c].plane = j /\ j # PLANE_LIMBO}
  <2>1. x.by_plane[j] = IF j = i THEN {} ELSE w.by_plane[j]
    BY <1>2 DEF Placed, Worlds
  <2>2. w.by_plane[j] = {c \in P : w.pawn[c].plane = j /\ j # PLANE_LIMBO}
    BY DEF Placed
  <2> QED
    BY <1>4, <1>6, <2>1, <2>2
<1>12. ASSUME NEW t \in StablePlanes
       PROVE  x.in_limbo[t] = {c \in P : x.pawn[c].plane = PLANE_LIMBO /\ x.pawn[c].home = t}
  <2>1. x.in_limbo[t] = IF t = s THEN w.by_plane[i] ELSE w.in_limbo[t]
    BY <1>2, <1>5 DEF Placed, Worlds
  <2>2. w.in_limbo[t] = {c \in P : w.pawn[c].plane = PLANE_LIMBO /\ w.pawn[c].home = t}
    BY DEF Placed
  <2> QED
    BY <1>5, <1>6, <1>7, <2>1, <2>2
<1>13. Placed(x, P)
  BY <1>3, <1>7, <1>8, <1>9, <1>10, <1>11, <1>12 DEF Placed
<1> QED
  BY <1>2, <1>6, <1>13 DEF x

(* Changing one pawn in place.                                             *)
OnePawn(w, x, c, p) ==
    /\ x \in Worlds /\ x.pawn = [w.pawn EXCEPT ![c] = p]
    /\ x.ids = w.ids /\ x.by_plane = w.by_plane /\ x.in_limbo = w.in_limbo

(* A pawn that keeps its plane, or that is in no table, may change.        *)
LEMMA OnePawnKeeps ==
    ASSUME NEW w, NEW P, P \subseteq Clients, Placed(w, P), NEW c \in Clients,
           NEW p \in Pawns, NEW x, OnePawn(w, x, c, p), p.home # STABLE_PLANE_LIMBO,
           c \in P => p.home = w.pawn[c].home /\ p.plane = w.pawn[c].plane
    PROVE  Placed(x, P)
<1>1. w.pawn \in [Clients -> Pawns]
  BY DEF Placed, Worlds
<1>2. \A d \in P : x.pawn[d].home = w.pawn[d].home /\ x.pawn[d].plane = w.pawn[d].plane
  BY <1>1 DEF OnePawn
<1>3. \A d \in Clients : x.pawn[d].home # STABLE_PLANE_LIMBO
  BY <1>1 DEF OnePawn, Placed
<1>4. /\ x \in Worlds
      /\ x.ids = w.ids /\ x.by_plane = w.by_plane /\ x.in_limbo = w.in_limbo
  BY DEF OnePawn
<1> QED
  BY <1>2, <1>3, <1>4 DEF Placed, IdOrLimbo

(* The parts of a world, each in its set.                                  *)
LEMMA WorldFields ==
    ASSUME NEW w \in Worlds
    PROVE  /\ w = [ids |-> w.ids, pawn |-> w.pawn, by_plane |-> w.by_plane, in_limbo |-> w.in_limbo]
           /\ w.ids \in [StablePlanes -> PlaneIds \cup {NotLoaded}]
           /\ w.pawn \in [Clients -> Pawns]
           /\ w.by_plane \in [PlaneIds -> SUBSET Clients]
           /\ w.in_limbo \in [StablePlanes -> SUBSET Clients]
  BY DEF Worlds

(* An update of one pawn is a change in place.                             *)
LEMMA PawnSet ==
    ASSUME NEW w \in Worlds, NEW c \in Clients, NEW p \in Pawns
    PROVE  OnePawn(w, [w EXCEPT !.pawn[c] = p], c, p)
<1> DEFINE x == [w EXCEPT !.pawn[c] = p]
<1>1. x.ids = w.ids /\ x.by_plane = w.by_plane /\ x.in_limbo = w.in_limbo
  BY DEF Worlds
<1>2. x.pawn = [w.pawn EXCEPT ![c] = p]
  BY DEF Worlds
<1>3. x \in Worlds
  <2>1. [w.pawn EXCEPT ![c] = p] \in [Clients -> Pawns]
    BY WorldFields
  <2>2. x = [ids |-> w.ids, pawn |-> [w.pawn EXCEPT ![c] = p],
             by_plane |-> w.by_plane, in_limbo |-> w.in_limbo]
    BY DEF Worlds
  <2> QED
    BY <2>1, <2>2, WorldFields DEF Worlds
<1> QED
  BY <1>1, <1>2, <1>3 DEF OnePawn

(* What each update of a pawn changes, and what it keeps.                  *)
LEMMA PawnFields ==
    ASSUME NEW p \in Pawns
    PROVE  /\ p.home \in StablePlanes /\ p.pos \in Centers
           /\ \A at, to \in Centers :
                LET q == [p EXCEPT !.pos = at, !.to = to, !.crossed = FALSE]
                IN q \in Pawns /\ q.home = p.home /\ q.plane = p.plane
                    /\ q.pos = at /\ q.crossed = FALSE
           /\ \A at \in Centers :
                LET q == [p EXCEPT !.pos = at, !.crossed = TRUE]
                IN q \in Pawns /\ q.home = p.home /\ q.plane = p.plane
                    /\ q.pos = at /\ q.crossed = TRUE
           /\ \A s \in StablePlanes, i \in PlaneIds :
                LET q == [p EXCEPT !.home = s, !.plane = i]
                IN q \in Pawns /\ q.home = s /\ q.plane = i
                    /\ q.pos = p.pos /\ q.crossed = p.crossed
           /\ LET q == [p EXCEPT !.plane = NotLoaded]
              IN q \in Pawns /\ q.home = p.home /\ q.pos = p.pos /\ q.crossed = p.crossed
  BY DEF Pawns

(* A pawn is at a place.                                                   *)
LEMMA PawnPos ==
    ASSUME NEW w \in Worlds, NEW c \in Clients
    PROVE  w.pawn[c] \in Pawns /\ w.pawn[c].pos \in Centers
<1>1. w.pawn[c] \in Pawns
  BY WorldFields
<1> QED
  BY <1>1, PawnFields

(* Changing one entry of a table of pawns.                                 *)
LEMMA TableSet ==
    ASSUME NEW w \in Worlds
    PROVE  /\ \A s \in StablePlanes, S \in SUBSET Clients :
                LET x == [w EXCEPT !.in_limbo[s] = S]
                IN /\ x \in Worlds /\ x.ids = w.ids /\ x.pawn = w.pawn
                   /\ x.by_plane = w.by_plane /\ x.in_limbo = [w.in_limbo EXCEPT ![s] = S]
           /\ \A i \in PlaneIds, S \in SUBSET Clients :
                LET x == [w EXCEPT !.by_plane[i] = S]
                IN /\ x \in Worlds /\ x.ids = w.ids /\ x.pawn = w.pawn
                   /\ x.in_limbo = w.in_limbo /\ x.by_plane = [w.by_plane EXCEPT ![i] = S]
<1>1. ASSUME NEW s \in StablePlanes, NEW S \in SUBSET Clients
      PROVE  LET x == [w EXCEPT !.in_limbo[s] = S]
             IN /\ x \in Worlds /\ x.ids = w.ids /\ x.pawn = w.pawn
                /\ x.by_plane = w.by_plane /\ x.in_limbo = [w.in_limbo EXCEPT ![s] = S]
  <2> DEFINE x == [w EXCEPT !.in_limbo[s] = S]
  <2>1. x = [ids |-> w.ids, pawn |-> w.pawn, by_plane |-> w.by_plane,
             in_limbo |-> [w.in_limbo EXCEPT ![s] = S]]
    BY DEF Worlds
  <2>2. [w.in_limbo EXCEPT ![s] = S] \in [StablePlanes -> SUBSET Clients]
    BY WorldFields
  <2> QED
    BY <2>1, <2>2, WorldFields DEF Worlds
<1>2. ASSUME NEW i \in PlaneIds, NEW S \in SUBSET Clients
      PROVE  LET x == [w EXCEPT !.by_plane[i] = S]
             IN /\ x \in Worlds /\ x.ids = w.ids /\ x.pawn = w.pawn
                /\ x.in_limbo = w.in_limbo /\ x.by_plane = [w.by_plane EXCEPT ![i] = S]
  <2> DEFINE x == [w EXCEPT !.by_plane[i] = S]
  <2>1. x = [ids |-> w.ids, pawn |-> w.pawn, in_limbo |-> w.in_limbo,
             by_plane |-> [w.by_plane EXCEPT ![i] = S]]
    BY DEF Worlds
  <2>2. [w.by_plane EXCEPT ![i] = S] \in [PlaneIds -> SUBSET Clients]
    BY WorldFields
  <2> QED
    BY <2>1, <2>2, WorldFields DEF Worlds
<1> QED
  BY <1>1, <1>2

(* set_motion changes one pawn in place.                                   *)
LEMMA SetMotionIs ==
    ASSUME NEW w \in Worlds, NEW c \in Clients, NEW at \in Centers, NEW to \in Centers
    PROVE  OnePawn(w, SetMotion(w, c, at, to), c,
                   [w.pawn[c] EXCEPT !.pos = at, !.to = to, !.crossed = FALSE])
<1>1. w.pawn[c] \in Pawns
  BY WorldFields
<1> QED
  BY <1>1, PawnFields, PawnSet DEF SetMotion

(* What views need to know of x: the pawns of w, with c's home at s.       *)
Rehomed(w, x, c, s) ==
    /\ x.ids = w.ids
    /\ \A d \in Clients : /\ x.pawn[d].home = IF d = c THEN s ELSE w.pawn[d].home
                          /\ x.pawn[d].pos = w.pawn[d].pos
                          /\ x.pawn[d].crossed = w.pawn[d].crossed

(* A pawn comes into the world, on its plane or waiting for it.            *)
LEMMA EnteredPlaces ==
    ASSUME NEW w, NEW P, P \subseteq Clients, Placed(w, P), NEW c \in Clients \ P,
           NEW s \in StablePlanes \ {STABLE_PLANE_LIMBO}
    PROVE  Placed(Entered(w, c, s), P \cup {c}) /\ Rehomed(w, Entered(w, c, s), c, s)
<1> DEFINE i == IdOrLimbo(w, s)
           p == [w.pawn[c] EXCEPT !.home = s, !.plane = i]
           y == [w EXCEPT !.pawn[c] = p]
           x == Entered(w, c, s)
<1>1. w \in Worlds /\ w.pawn[c] \in Pawns
  BY WorldFields DEF Placed
<1>2. i \in PlaneIds
  BY <1>1, WorldFields, Ids DEF IdOrLimbo
<1>3. /\ p \in Pawns /\ p.home = s /\ p.plane = i
      /\ p.pos = w.pawn[c].pos /\ p.crossed = w.pawn[c].crossed
  <2> HIDE DEF i
  <2> QED
    BY <1>1, <1>2 DEF Pawns
<1>4. x = IF i = PLANE_LIMBO THEN [y EXCEPT !.in_limbo[s] = y.in_limbo[s] \cup {c}]
          ELSE [y EXCEPT !.by_plane[i] = y.by_plane[i] \cup {c}]
  BY DEF Entered
<1> HIDE DEF p
<1>5. OnePawn(w, y, c, p)
  BY <1>1, <1>3, PawnSet
<1> HIDE DEF x, y
<1>6. /\ y \in Worlds /\ y.pawn = [w.pawn EXCEPT ![c] = p]
      /\ y.ids = w.ids /\ y.by_plane = w.by_plane /\ y.in_limbo = w.in_limbo
  BY <1>5 DEF OnePawn
<1>7. /\ x \in Worlds /\ x.ids = w.ids /\ x.pawn = [w.pawn EXCEPT ![c] = p]
      /\ x.in_limbo = IF i = PLANE_LIMBO THEN [w.in_limbo EXCEPT ![s] = w.in_limbo[s] \cup {c}]
                      ELSE w.in_limbo
      /\ x.by_plane = IF i = PLANE_LIMBO THEN w.by_plane
                      ELSE [w.by_plane EXCEPT ![i] = w.by_plane[i] \cup {c}]
  <2>1. y.in_limbo[s] \cup {c} \in SUBSET Clients
    BY <1>6, WorldFields
  <2>2. y.by_plane[i] \cup {c} \in SUBSET Clients
    BY <1>2, <1>6, WorldFields
  <2> HIDE DEF i
  <2>3. CASE i = PLANE_LIMBO
    <3> DEFINE S == y.in_limbo[s] \cup {c}
    <3>1. x = [y EXCEPT !.in_limbo[s] = S]
      BY <1>4, <2>3
    <3>2. S = w.in_limbo[s] \cup {c}
      BY <1>6
    <3> HIDE DEF S
    <3> QED
      BY <1>6, <2>1, <2>3, <3>1, <3>2, TableSet DEF S
  <2>4. CASE i # PLANE_LIMBO
    <3> DEFINE S == y.by_plane[i] \cup {c}
    <3>1. x = [y EXCEPT !.by_plane[i] = S]
      BY <1>4, <2>4
    <3>2. S = w.by_plane[i] \cup {c}
      BY <1>6
    <3> HIDE DEF S
    <3> QED
      BY <1>2, <1>6, <2>2, <2>4, <3>1, <3>2, TableSet DEF S
  <2> QED
    BY <2>3, <2>4
<1>8. \A d \in Clients : x.pawn[d] = IF d = c THEN p ELSE w.pawn[d]
  BY <1>1, <1>7, WorldFields
<1>9. Rehomed(w, x, c, s)
  BY <1>3, <1>7, <1>8 DEF Rehomed
<1>10. \A d \in P \cup {c} : x.pawn[d].plane = IdOrLimbo(x, x.pawn[d].home)
  <2>1. \A t : IdOrLimbo(x, t) = IdOrLimbo(w, t)
    BY <1>7 DEF IdOrLimbo
  <2> QED
    BY <1>3, <1>8, <2>1 DEF Placed
<1>11. ASSUME NEW j \in PlaneIds
       PROVE  x.by_plane[j] = {d \in P \cup {c} : x.pawn[d].plane = j /\ j # PLANE_LIMBO}
  <2>1. w.by_plane[j] = {d \in P : w.pawn[d].plane = j /\ j # PLANE_LIMBO}
    BY DEF Placed
  <2>2. x.by_plane[j] = IF j = i /\ j # PLANE_LIMBO THEN w.by_plane[j] \cup {c} ELSE w.by_plane[j]
    BY <1>1, <1>7, WorldFields
  <2> QED
    BY <1>3, <1>8, <2>1, <2>2
<1>12. ASSUME NEW t \in StablePlanes
       PROVE  x.in_limbo[t] =
                {d \in P \cup {c} : x.pawn[d].plane = PLANE_LIMBO /\ x.pawn[d].home = t}
  <2>1. w.in_limbo[t] = {d \in P : w.pawn[d].plane = PLANE_LIMBO /\ w.pawn[d].home = t}
    BY DEF Placed
  <2>2. x.in_limbo[t] = IF t = s /\ i = PLANE_LIMBO THEN w.in_limbo[t] \cup {c} ELSE w.in_limbo[t]
    BY <1>1, <1>7, WorldFields
  <2> QED
    BY <1>3, <1>8, <2>1, <2>2
<1>13. \A d \in Clients : x.pawn[d].home # STABLE_PLANE_LIMBO
  BY <1>3, <1>8 DEF Placed
<1>14. Placed(x, P \cup {c})
  BY <1>7, <1>10, <1>11, <1>12, <1>13 DEF Placed
<1> QED
  BY <1>9, <1>14 DEF x

(* A pawn is taken out of the table it is in.                              *)
LEMMA TakenOutPlaces ==
    ASSUME NEW w, NEW P, P \subseteq Clients, Placed(w, P), NEW c \in P
    PROVE  /\ Placed(TakenOut(w, c), P \ {c})
           /\ TakenOut(w, c).ids = w.ids /\ TakenOut(w, c).pawn = w.pawn
<1> DEFINE i == w.pawn[c].plane
           s == w.pawn[c].home
           x == TakenOut(w, c)
<1>1. w \in Worlds /\ w.pawn[c] \in Pawns /\ s \in StablePlanes
  <2>1. w \in Worlds
    BY DEF Placed
  <2>2. w.pawn[c] \in Pawns
    BY <2>1, WorldFields
  <2> QED
    BY <2>1, <2>2 DEF Pawns
<1>2. i \in PlaneIds
  <2>1. i = IdOrLimbo(w, s)
    BY DEF Placed
  <2> HIDE DEF i, s
  <2> QED
    BY <1>1, <2>1, WorldFields, Ids DEF IdOrLimbo
<1>3. x = IF i = PLANE_LIMBO THEN [w EXCEPT !.in_limbo[s] = w.in_limbo[s] \ {c}]
          ELSE [w EXCEPT !.by_plane[i] = w.by_plane[i] \ {c}]
  BY DEF TakenOut
<1> HIDE DEF x
<1>4. /\ x \in Worlds /\ x.ids = w.ids /\ x.pawn = w.pawn
      /\ x.in_limbo = IF i = PLANE_LIMBO THEN [w.in_limbo EXCEPT ![s] = w.in_limbo[s] \ {c}]
                      ELSE w.in_limbo
      /\ x.by_plane = IF i = PLANE_LIMBO THEN w.by_plane
                      ELSE [w.by_plane EXCEPT ![i] = w.by_plane[i] \ {c}]
  <2>1. w.in_limbo[s] \ {c} \in SUBSET Clients
    BY <1>1, WorldFields
  <2>2. w.by_plane[i] \ {c} \in SUBSET Clients
    BY <1>1, <1>2, WorldFields
  <2> HIDE DEF i, s
  <2>3. CASE i = PLANE_LIMBO
    BY <1>1, <1>3, <2>1, <2>3, TableSet
  <2>4. CASE i # PLANE_LIMBO
    BY <1>1, <1>2, <1>3, <2>2, <2>4, TableSet
  <2> QED
    BY <2>3, <2>4
<1>5. ASSUME NEW j \in PlaneIds
      PROVE  x.by_plane[j] = {d \in P \ {c} : x.pawn[d].plane = j /\ j # PLANE_LIMBO}
  <2>1. w.by_plane[j] = {d \in P : w.pawn[d].plane = j /\ j # PLANE_LIMBO}
    BY DEF Placed
  <2>2. x.by_plane[j] = IF j = i /\ j # PLANE_LIMBO THEN w.by_plane[j] \ {c} ELSE w.by_plane[j]
    BY <1>1, <1>4, WorldFields
  <2> QED
    BY <1>4, <2>1, <2>2
<1>6. ASSUME NEW t \in StablePlanes
      PROVE  x.in_limbo[t] =
                {d \in P \ {c} : x.pawn[d].plane = PLANE_LIMBO /\ x.pawn[d].home = t}
  <2>1. w.in_limbo[t] = {d \in P : w.pawn[d].plane = PLANE_LIMBO /\ w.pawn[d].home = t}
    BY DEF Placed
  <2>2. x.in_limbo[t] = IF t = s /\ i = PLANE_LIMBO THEN w.in_limbo[t] \ {c} ELSE w.in_limbo[t]
    BY <1>1, <1>4, WorldFields
  <2> QED
    BY <1>4, <2>1, <2>2
<1>7. Placed(x, P \ {c})
  BY <1>4, <1>5, <1>6 DEF Placed, IdOrLimbo
<1> QED
  BY <1>4, <1>7 DEF x

(* A pawn goes to another plane, loaded or not.                            *)
LEMMA SetStablePlanePlaces ==
    ASSUME NEW w, NEW P, P \subseteq Clients, Placed(w, P), NEW c \in P,
           NEW s \in StablePlanes \ {STABLE_PLANE_LIMBO}
    PROVE  Placed(SetStablePlane(w, c, s), P) /\ Rehomed(w, SetStablePlane(w, c, s), c, s)
<1>1. CASE s = w.pawn[c].home
  BY <1>1 DEF SetStablePlane, Rehomed
<1>2. CASE s # w.pawn[c].home
  <2> DEFINE y == TakenOut(w, c)
  <2>1. Placed(y, P \ {c}) /\ y.ids = w.ids /\ y.pawn = w.pawn
    BY TakenOutPlaces
  <2>2. SetStablePlane(w, c, s) = Entered(y, c, s)
    BY <1>2 DEF SetStablePlane
  <2> HIDE DEF y
  <2>3. /\ Placed(Entered(y, c, s), (P \ {c}) \cup {c})
        /\ Rehomed(y, Entered(y, c, s), c, s)
    BY <2>1, EnteredPlaces
  <2>4. (P \ {c}) \cup {c} = P
    OBVIOUS
  <2> QED
    BY <2>1, <2>2, <2>3, <2>4 DEF Rehomed
<1> QED
  BY <1>1, <1>2

-----------------------------------------------------------------------------
(* How many users a chunk has.                                             *)

PlacedViews == [plane : PlaneIds, center : Centers]
Sees(v, i, q) == v # NoView /\ v.plane = i /\ q \in View[v.center]
ViewersAt(views, i, q) == {c \in Clients : Sees(views[c], i, q)}

(* Users are views: for each chunk, as many as see it.                     *)
Counted(u, views) ==
    /\ u \in [PlaneIds -> [Pos -> Nat]]
    /\ views \in [Clients -> {NoView} \cup PlacedViews]
    /\ \A i \in PlaneIds, q \in Pos : u[i][q] = Cardinality(ViewersAt(views, i, q))

(* The parts of a view; no view of a plane is NoView.                      *)
LEMMA ViewFields ==
    /\ NoView \notin PlacedViews
    /\ \A v \in PlacedViews : /\ v.plane \in PlaneIds /\ v.center \in Centers
                              /\ View[v.center] \subseteq Pos /\ View[v.center] # {}
    /\ \A i \in PlaneIds, k \in Centers :
            LET v == [plane |-> i, center |-> k]
            IN v \in PlacedViews /\ v.plane = i /\ v.center = k
<1>1. NoView \notin PlacedViews
  BY Ids DEF NoView, PlacedViews
<1>2. ASSUME NEW v \in PlacedViews
      PROVE  /\ v.plane \in PlaneIds /\ v.center \in Centers
             /\ View[v.center] \subseteq Pos /\ View[v.center] # {}
  <2>1. v.plane \in PlaneIds /\ v.center \in Centers
    BY DEF PlacedViews
  <2>2. View[v.center] \in (SUBSET Pos) \ {{}}
    BY <2>1
  <2> QED
    BY <2>1, <2>2
<1>3. ASSUME NEW i \in PlaneIds, NEW k \in Centers
      PROVE  LET v == [plane |-> i, center |-> k]
             IN v \in PlacedViews /\ v.plane = i /\ v.center = k
  BY DEF PlacedViews
<1> QED
  BY <1>1, <1>2, <1>3

(* A client's new view counts where it is, its old one no longer does.     *)
Use(v, i, q) == IF Sees(v, i, q) THEN 1 ELSE 0
Within(i, R, j, q) == IF j = i /\ q \in R THEN 1 ELSE 0

ViewersLaw(views, c, v, i, q) ==
    /\ Cardinality(ViewersAt(views, i, q)) \in Nat
    /\ Cardinality(ViewersAt([views EXCEPT ![c] = v], i, q)) =
            Cardinality(ViewersAt(views, i, q)) + Use(v, i, q) - Use(views[c], i, q)
    /\ Sees(views[c], i, q) => Cardinality(ViewersAt(views, i, q)) > 0

(* Who sees a chunk changes by the one client whose view does.             *)
LEMMA ViewersChange ==
    ASSUME NEW views \in [Clients -> {NoView} \cup PlacedViews], NEW c \in Clients, NEW v,
           NEW i, NEW q
    PROVE  ViewersLaw(views, c, v, i, q)
<1> DEFINE S == ViewersAt(views, i, q)
           T == ViewersAt([views EXCEPT ![c] = v], i, q)
<1>1. IsFiniteSet(S)
  BY FS_Subset DEF ViewersAt
<1>2. T = IF Sees(v, i, q) THEN S \cup {c} ELSE S \ {c}
  BY DEF ViewersAt
<1>3. c \in S <=> Sees(views[c], i, q)
  BY DEF ViewersAt
<1> HIDE DEF S, T
<1>4. Cardinality(S) \in Nat /\ (c \in S => Cardinality(S) > 0)
  <2>1. Cardinality(S) \in Nat
    BY <1>1, FS_CardinalityType
  <2>2. Cardinality(S) = 0 <=> S = {}
    BY <1>1, FS_EmptySet
  <2> QED
    BY <2>1, <2>2
<1>5. Cardinality(S \cup {c}) = IF c \in S THEN Cardinality(S) ELSE Cardinality(S) + 1
  BY <1>1, FS_AddElement
<1>6. Cardinality(S \ {c}) = IF c \in S THEN Cardinality(S) - 1 ELSE Cardinality(S)
  BY <1>1, FS_RemoveElement
<1>7. Cardinality(T) = Cardinality(S) + Use(v, i, q) - Use(views[c], i, q)
  BY <1>2, <1>3, <1>4, <1>5, <1>6 DEF Use
<1> QED
  BY <1>3, <1>4, <1>7 DEF S, T, ViewersLaw

(* Users come and go by one in a region of a plane.                        *)
LEMMA MoreFewer ==
    ASSUME NEW u \in [PlaneIds -> [Pos -> Nat]], NEW i \in PlaneIds, NEW R
    PROVE  /\ More(u, i, R) \in [PlaneIds -> [Pos -> Nat]]
           /\ Fewer(u, i, R) = [j \in PlaneIds |-> Fewer(u, i, R)[j]]
           /\ \A j \in PlaneIds : Fewer(u, i, R)[j] \in [Pos -> Int]
           /\ \A j \in PlaneIds, q \in Pos :
                /\ More(u, i, R)[j][q] = u[j][q] + Within(i, R, j, q)
                /\ Fewer(u, i, R)[j][q] = u[j][q] - Within(i, R, j, q)
<1> DEFINE more == [q \in Pos |-> IF q \in R THEN u[i][q] + 1 ELSE u[i][q]]
           fewer == [q \in Pos |-> IF q \in R THEN u[i][q] - 1 ELSE u[i][q]]
<1>1. More(u, i, R) = [u EXCEPT ![i] = more] /\ Fewer(u, i, R) = [u EXCEPT ![i] = fewer]
  BY DEF More, Fewer
<1>2. \A j \in PlaneIds, q \in Pos : u[j][q] \in Nat
  OBVIOUS
<1>3. more \in [Pos -> Nat] /\ fewer \in [Pos -> Int]
  BY <1>2
<1>4. \A q \in Pos : /\ more[q] = u[i][q] + Within(i, R, i, q)
                     /\ fewer[q] = u[i][q] - Within(i, R, i, q)
  BY <1>2 DEF Within
<1> HIDE DEF more, fewer
<1>5. /\ More(u, i, R) \in [PlaneIds -> [Pos -> Nat]]
      /\ Fewer(u, i, R) = [j \in PlaneIds |-> Fewer(u, i, R)[j]]
      /\ \A j \in PlaneIds : /\ More(u, i, R)[j] = IF j = i THEN more ELSE u[j]
                             /\ Fewer(u, i, R)[j] = IF j = i THEN fewer ELSE u[j]
  BY <1>1, <1>3
<1>6. ASSUME NEW j \in PlaneIds, NEW q \in Pos
      PROVE  /\ More(u, i, R)[j][q] = u[j][q] + Within(i, R, j, q)
             /\ Fewer(u, i, R)[j][q] = u[j][q] - Within(i, R, j, q)
  <2>1. CASE j = i
    BY <1>4, <1>5, <2>1
  <2>2. CASE j # i
    BY <1>2, <1>5, <2>2 DEF Within
  <2> QED
    BY <2>1, <2>2
<1>7. \A j \in PlaneIds : Fewer(u, i, R)[j] \in [Pos -> Int]
  BY <1>3, <1>5
<1> QED
  BY <1>5, <1>6, <1>7

(* Counts that follow one client's view count all views.                   *)
LEMMA CountsFollow ==
    ASSUME NEW u, NEW views, Counted(u, views), NEW c \in Clients,
           NEW v \in {NoView} \cup PlacedViews, NEW x,
           x = [i \in PlaneIds |-> x[i]], \A i \in PlaneIds : x[i] \in [Pos -> Int],
           \A i \in PlaneIds, q \in Pos :
                x[i][q] = u[i][q] + Use(v, i, q) - Use(views[c], i, q)
    PROVE  Counted(x, [views EXCEPT ![c] = v])
<1> DEFINE after == [views EXCEPT ![c] = v]
<1>1. after \in [Clients -> {NoView} \cup PlacedViews]
  BY DEF Counted
<1>2. ASSUME NEW i \in PlaneIds, NEW q \in Pos
      PROVE  x[i][q] = Cardinality(ViewersAt(after, i, q)) /\ x[i][q] \in Nat
  <2>1. u[i][q] = Cardinality(ViewersAt(views, i, q))
    BY DEF Counted
  <2>2. Cardinality(ViewersAt(after, i, q)) =
            Cardinality(ViewersAt(views, i, q)) + Use(v, i, q) - Use(views[c], i, q)
    <3>1. ViewersLaw(views, c, v, i, q)
      BY ViewersChange DEF Counted
    <3> QED
      BY <3>1 DEF ViewersLaw
  <2>3. Cardinality(ViewersAt(after, i, q)) \in Nat
    <3>1. ViewersLaw(after, c, v, i, q)
      BY <1>1, ViewersChange
    <3> QED
      BY <3>1 DEF ViewersLaw
  <2> QED
    BY <2>1, <2>2, <2>3
<1>3. \A i \in PlaneIds : x[i] \in [Pos -> Nat]
  BY <1>2
<1>4. x \in [PlaneIds -> [Pos -> Nat]]
  BY <1>3
<1> QED
  BY <1>1, <1>2, <1>4 DEF Counted

(* login: the view's chunks get a user each.                               *)
LEMMA LoginCounts ==
    ASSUME NEW u, NEW views, Counted(u, views), NEW c \in Clients, views[c] = NoView,
           NEW v \in PlacedViews
    PROVE  Counted(More(u, v.plane, View[v.center]), [views EXCEPT ![c] = v])
<1> DEFINE x == More(u, v.plane, View[v.center])
<1>1. v.plane \in PlaneIds /\ v # NoView
  BY ViewFields
<1>2. u \in [PlaneIds -> [Pos -> Nat]]
  BY DEF Counted
<1>3. /\ x \in [PlaneIds -> [Pos -> Nat]]
      /\ \A i \in PlaneIds, q \in Pos :
            x[i][q] = u[i][q] + Within(v.plane, View[v.center], i, q)
  BY <1>1, <1>2, MoreFewer
<1> HIDE DEF x
<1>4. \A i \in PlaneIds : x[i] \in [Pos -> Int]
  BY <1>3
<1>5. ASSUME NEW i \in PlaneIds, NEW q \in Pos
      PROVE  x[i][q] = u[i][q] + Use(v, i, q) - Use(views[c], i, q)
  BY <1>1, <1>2, <1>3 DEF Sees, Use, Within
<1>6. x = [i \in PlaneIds |-> x[i]]
  BY <1>3
<1> QED
  BY <1>4, <1>5, <1>6, CountsFollow DEF x

(* logout: they lose it.                                                   *)
LEMMA LogoutCounts ==
    ASSUME NEW u, NEW views, Counted(u, views), NEW c \in Clients, views[c] # NoView,
           NEW v, v = views[c]
    PROVE  Counted(Fewer(u, v.plane, View[v.center]), [views EXCEPT ![c] = NoView])
<1> DEFINE x == Fewer(u, v.plane, View[v.center])
<1>1. v.plane \in PlaneIds /\ v # NoView
  BY ViewFields DEF Counted
<1>2. u \in [PlaneIds -> [Pos -> Nat]]
  BY DEF Counted
<1>3. /\ x = [i \in PlaneIds |-> x[i]] /\ \A i \in PlaneIds : x[i] \in [Pos -> Int]
      /\ \A i \in PlaneIds, q \in Pos :
            x[i][q] = u[i][q] - Within(v.plane, View[v.center], i, q)
  BY <1>1, <1>2, MoreFewer
<1> HIDE DEF x
<1>4. ASSUME NEW i \in PlaneIds, NEW q \in Pos
      PROVE  x[i][q] = u[i][q] + Use(NoView, i, q) - Use(views[c], i, q)
  BY <1>1, <1>2, <1>3 DEF Sees, Use, Within
<1>5. NoView \in {NoView} \cup PlacedViews
  OBVIOUS
<1>6. Counted(x, [views EXCEPT ![c] = NoView])
  <2>1. x = [i \in PlaneIds |-> x[i]]
    BY <1>3
  <2>2. \A i \in PlaneIds : x[i] \in [Pos -> Int]
    BY <1>3
  <2>3. PICK none \in {NoView} \cup PlacedViews : none = NoView
    OBVIOUS
  <2>4. \A i \in PlaneIds, q \in Pos :
            x[i][q] = u[i][q] + Use(none, i, q) - Use(views[c], i, q)
    BY <1>4, <2>3
  <2>5. Counted(x, [views EXCEPT ![c] = none])
    BY <2>1, <2>2, <2>4, CountsFollow
  <2> QED
    BY <2>3, <2>5
<1> QED
  BY <1>6 DEF x

(* set_view: what is in both views keeps its user.                         *)
LEMMA SetViewCounts ==
    ASSUME NEW u, NEW views, Counted(u, views), NEW c \in Clients, views[c] # NoView,
           NEW old, old = views[c], NEW new \in PlacedViews
    PROVE  Counted(Fewer(More(u, new.plane, Beyond(new, old)), old.plane, Beyond(old, new)),
                   [views EXCEPT ![c] = new])
<1> DEFINE y == More(u, new.plane, Beyond(new, old))
           x == Fewer(y, old.plane, Beyond(old, new))
<1>1. /\ old.plane \in PlaneIds /\ old # NoView
      /\ new.plane \in PlaneIds /\ new # NoView
  BY ViewFields DEF Counted
<1>2. u \in [PlaneIds -> [Pos -> Nat]]
  BY DEF Counted
<1>3. /\ y \in [PlaneIds -> [Pos -> Nat]]
      /\ \A i \in PlaneIds, q \in Pos :
            y[i][q] = u[i][q] + Within(new.plane, Beyond(new, old), i, q)
  BY <1>1, <1>2, MoreFewer
<1> HIDE DEF y
<1>4. /\ x = [i \in PlaneIds |-> x[i]] /\ \A i \in PlaneIds : x[i] \in [Pos -> Int]
      /\ \A i \in PlaneIds, q \in Pos :
            x[i][q] = y[i][q] - Within(old.plane, Beyond(old, new), i, q)
  BY <1>1, <1>3, MoreFewer
<1> HIDE DEF x
<1>5. ASSUME NEW i \in PlaneIds, NEW q \in Pos
      PROVE  x[i][q] = u[i][q] + Use(new, i, q) - Use(views[c], i, q)
  <2>1. u[i][q] \in Nat
    BY <1>2
  <2>2. x[i][q] = u[i][q] + Within(new.plane, Beyond(new, old), i, q)
                          - Within(old.plane, Beyond(old, new), i, q)
    <3>1. y[i][q] = u[i][q] + Within(new.plane, Beyond(new, old), i, q)
      BY <1>3
    <3>2. x[i][q] = y[i][q] - Within(old.plane, Beyond(old, new), i, q)
      BY <1>4
    <3> QED
      BY <2>1, <3>1, <3>2 DEF Within
  <2>3. /\ q \in Beyond(new, old) <=> q \in View[new.center]
                /\ (q \notin View[old.center] \/ new.plane # old.plane)
        /\ q \in Beyond(old, new) <=> q \in View[old.center]
                /\ (q \notin View[new.center] \/ new.plane # old.plane)
    BY DEF Beyond
  <2>4. /\ Sees(new, i, q) <=> new.plane = i /\ q \in View[new.center]
        /\ Sees(views[c], i, q) <=> old.plane = i /\ q \in View[old.center]
    BY <1>1 DEF Sees
  <2> QED
    BY <2>1, <2>2, <2>3, <2>4 DEF Use, Within
<1> QED
  BY <1>4, <1>5, CountsFollow DEF x, y

(* The chunks of a view are in memory.                                     *)
LEMMA ViewInMemory ==
    ASSUME NEW u, NEW views, Counted(u, views), NEW c \in Clients, views[c] # NoView,
           NEW q \in View[views[c].center]
    PROVE  /\ q \in Pos /\ u[views[c].plane][q] > 0
           /\ <<views[c].plane, q>> \in InMemory(u)
<1>1. q \in Pos /\ views[c].plane \in PlaneIds
  BY ViewFields DEF Counted
<1>2. Sees(views[c], views[c].plane, q)
  BY DEF Sees
<1>3. u[views[c].plane][q] > 0
  <2>1. u[views[c].plane][q] = Cardinality(ViewersAt(views, views[c].plane, q))
    BY <1>1 DEF Counted
  <2>2. Cardinality(ViewersAt(views, views[c].plane, q)) > 0
    <3>1. ViewersLaw(views, c, NoView, views[c].plane, q)
      BY ViewersChange DEF Counted
    <3> QED
      BY <1>2, <3>1 DEF ViewersLaw
  <2> QED
    BY <2>1, <2>2
<1>4. q \in Near[q]
  BY <1>1
<1> QED
  BY <1>1, <1>3, <1>4 DEF InMemory

(* Nobody sees a chunk that is not in memory.                              *)
LEMMA NoneSeen ==
    ASSUME NEW u, NEW views, Counted(u, views), NEW X
    PROVE  Seen(X \ InMemory(u), views) = {}
<1> SUFFICES ASSUME NEW d \in Clients, views[d] # NoView,
                    NEW q \in View[views[d].center],
                    <<views[d].plane, q>> \in X \ InMemory(u)
             PROVE  FALSE
  BY DEF Seen
<1> QED
  BY ViewInMemory

-----------------------------------------------------------------------------
(* Views and the planes they are on.                                       *)

(* Who has a view.                                                         *)
On(views) == {c \in Clients : views[c] # NoView}

(* Each view is of a plane in memory, and nobody looks at limbo.           *)
ViewsHeld(w, views) ==
    \A c \in Clients : views[c] # NoView =>
        /\ views[c].plane # PLANE_LIMBO
        /\ \E s \in StablePlanes : w.ids[s] = views[c].plane

(* ViewFollowsPawn, of any world, views and updates.                       *)
Follows(w, views, pend) ==
    \A c \in Clients :
        views[c] # NoView /\ views[c].center # w.pawn[c].pos =>
            pend[c] # "none" \/ w.pawn[c].crossed

(* What a client's update can be.                                          *)
PendingOK(pend) == pend \in [Clients -> {"none", "now", "crossing"}]

(* Hooked clients get an update when their view is elsewhere.              *)
LEMMA ScheduledFollows ==
    ASSUME PendingOK(pending), NEW w, NEW views, NEW hooked,
           \A c \in Clients \ hooked :
                views[c] # NoView /\ views[c].center # w.pawn[c].pos =>
                    pending[c] # "none" \/ w.pawn[c].crossed
    PROVE  /\ PendingOK(Scheduled(w, views, hooked))
           /\ Follows(w, views, Scheduled(w, views, hooked))
<1>1. \A p, v : p.pos # v.center => Due(p, v) = "now"
  BY DEF Due
<1> DEFINE pend == Scheduled(w, views, hooked)
<1>2. /\ pend = [c \in Clients |-> pend[c]]
      /\ \A c \in Clients : pend[c] = IF c \in hooked /\ views[c] # NoView
                                      THEN Due(w.pawn[c], views[c]) ELSE pending[c]
  BY DEF Scheduled
<1> HIDE DEF pend
<1>3. ASSUME NEW c \in Clients PROVE pend[c] \in {"none", "now", "crossing"}
  <2>1. pending[c] \in {"none", "now", "crossing"}
    BY DEF PendingOK
  <2>2. Due(w.pawn[c], views[c]) \in {"none", "now", "crossing"}
    BY DEF Due
  <2>3. pend[c] = Due(w.pawn[c], views[c]) \/ pend[c] = pending[c]
    BY <1>2
  <2> QED
    BY <2>1, <2>2, <2>3
<1>4. PendingOK(pend)
  BY <1>2, <1>3 DEF PendingOK
<1>5. Follows(w, views, pend)
  BY <1>1, <1>2 DEF Follows
<1> QED
  BY <1>4, <1>5 DEF pend

(* Other planes, tables and homes do not tell a view from its pawn.        *)
LEMMA FollowsSame ==
    ASSUME NEW w, NEW x, NEW views, NEW pend, Follows(w, views, pend),
           SamePawns(x.pawn, w) \/ \E c, s : Rehomed(w, x, c, s)
    PROVE  Follows(x, views, pend)
  BY DEF Follows, SamePawns, Rehomed

(* A plane that is loaded is no view's yet.                                *)
LEMMA GotPlaneHolds ==
    ASSUME NEW w, NEW x, NEW s, NEW u, NEW views, Counted(u, views),
           ViewsHeld(w, views), GotPlane(w, x, s)
    PROVE  ViewsHeld(x, views)
<1>1. \A c \in Clients : views[c] # NoView => views[c].plane \in PlaneIds
  BY ViewFields DEF Counted
<1>2. \A t \in StablePlanes : w.ids[t] # NotLoaded => x.ids[t] = w.ids[t]
  BY DEF GotPlane
<1> QED
  BY <1>1, <1>2, Ids DEF ViewsHeld

(* A plane goes with its last user, which no view needs.                   *)
Shed(w, x) == \A t \in StablePlanes : x.ids[t] = w.ids[t] \/ x.ids[t] = NotLoaded

(* So World and all views stay in order.                                   *)
LEMMA WithoutUnusedPlaces ==
    ASSUME NEW w, NEW P, P \subseteq Clients, Placed(w, P),
           NEW i \in PlaneIds \ {PLANE_LIMBO}, \E s \in StablePlanes : w.ids[s] = i,
           NEW u, NEW views, Counted(u, views), ViewsHeld(w, views)
    PROVE  LET x == WithoutUnused(w, u, i)
           IN Placed(x, P) /\ SamePawns(x.pawn, w) /\ ViewsHeld(x, views) /\ Shed(w, x)
<1>1. CASE \A q \in Pos : u[i][q] = 0
  <2> DEFINE x == RemovePlane(w, i)
  <2>1. WithoutUnused(w, u, i) = x
    BY <1>1 DEF WithoutUnused
  <2>2. PICK s \in StablePlanes : w.ids[s] = i
    OBVIOUS
  <2>3. Placed(x, P) /\ SamePawns(x.pawn, w) /\ x.ids = [w.ids EXCEPT ![s] = NotLoaded]
    BY <2>2, RemovePlanePlaces
  <2> HIDE DEF x
  <2>4. w.ids \in [StablePlanes -> PlaneIds \cup {NotLoaded}]
    BY DEF Placed, Worlds
  <2>5. \A t \in StablePlanes : x.ids[t] = IF t = s THEN NotLoaded ELSE w.ids[t]
    BY <2>3, <2>4
  <2>6. ASSUME NEW c \in Clients, views[c] # NoView PROVE views[c].plane # i
    <3>1. PICK q \in View[views[c].center] : TRUE
      BY <2>6, ViewFields DEF Counted
    <3>2. q \in Pos /\ u[views[c].plane][q] > 0
      BY <2>6, ViewInMemory
    <3> QED
      BY <1>1, <3>2
  <2>7. ViewsHeld(x, views)
    BY <2>2, <2>5, <2>6 DEF ViewsHeld
  <2> QED
    BY <2>1, <2>3, <2>5, <2>7 DEF Shed
<1>2. CASE ~ \A q \in Pos : u[i][q] = 0
  <2>1. WithoutUnused(w, u, i) = w
    BY <1>2 DEF WithoutUnused
  <2>2. SamePawns(w.pawn, w)
    BY DEF Placed, Worlds, SamePawns
  <2> QED
    BY <2>1, <2>2 DEF Shed
<1> QED
  BY <1>1, <1>2

-----------------------------------------------------------------------------

(* The inductive invariant.  The planes must be known to those that were   *)
(* made, or a new plane could be loaded twice, and each view's plane must  *)
(* not be limbo's, or unloading it would leave the pawns that wait without *)
(* an id.                                                                  *)
IInv ==
    /\ made \subseteq StablePlanes /\ STABLE_PLANE_FOREST \in made
    /\ Placed(world, On(view)) /\ Known(world, made)
    /\ Counted(used, view) /\ ViewsHeld(world, view)
    /\ PendingOK(pending) /\ Follows(world, view, pending)
    /\ surprises = {}

(* Each action preserves the invariant.  First login.                      *)
LEMMA LoginKeeps ==
    ASSUME IInv, NEW c \in Clients, Login(c)
    PROVE  IInv'
<1> USE DEF IInv
<1> DEFINE home == world.pawn[c].home
           e == Entered(world, c, home)
           w == GetPlane(e, home)
           v == [plane |-> w.ids[home], center |-> w.pawn[c].pos]
           u == More(used, v.plane, View[v.center])
<1>1. /\ view[c] = NoView /\ world' = w /\ used' = u
      /\ view' = [view EXCEPT ![c] = v]
      /\ pending' = Scheduled(w, view, ChangedPlane(world, w))
      /\ surprises' = Seen(InMemory(u) \ InMemory(used), view)
      /\ made' = made
  BY DEF Login, Online
<1>2. /\ world.pawn[c] \in Pawns /\ home \in StablePlanes \ {STABLE_PLANE_LIMBO}
      /\ home \in made /\ world.pawn[c].pos \in Centers
      /\ view \in [Clients -> {NoView} \cup PlacedViews]
  <2>1. world.pawn[c] \in Pawns
    BY WorldFields DEF Placed
  <2> QED
    BY <2>1, PawnFields DEF Placed, Known, Counted
<1>3. c \notin On(view) /\ On(view) \subseteq Clients
  BY <1>1 DEF On
<1>4. Placed(e, On(view) \cup {c}) /\ Rehomed(world, e, c, home)
  BY <1>2, <1>3, EnteredPlaces
<1> HIDE DEF e
<1>5. Placed(w, On(view) \cup {c}) /\ GotPlane(e, w, home)
  BY <1>2, <1>3, <1>4, GetPlanePlaces
<1> HIDE DEF w
<1>6. /\ v \in PlacedViews /\ v # NoView /\ v.plane = w.ids[home]
      /\ v.center = w.pawn[c].pos
  <2>1. w.ids[home] \in PlaneIds
    BY <1>5 DEF GotPlane
  <2>2. w.pawn[c].pos \in Centers
    BY <1>2, <1>4, <1>5 DEF GotPlane, Rehomed, SamePawns
  <2> QED
    BY <2>1, <2>2, ViewFields
<1> HIDE DEF v
<1>7. On(view') = On(view) \cup {c}
  BY <1>1, <1>2, <1>6 DEF On
<1>8. Known(w, made)
  BY <1>2, <1>4, <1>5 DEF GotPlane, Rehomed, SamePawns, Known
<1>9. Counted(u, view')
  BY <1>1, <1>6, LoginCounts
<1>10. ViewsHeld(w, view')
  <2>1. ViewsHeld(e, view)
    BY <1>4 DEF ViewsHeld, Rehomed
  <2>2. ViewsHeld(w, view)
    BY <1>5, <2>1, GotPlaneHolds
  <2>3. v.plane # PLANE_LIMBO /\ w.ids[home] = v.plane
    BY <1>2, <1>5, <1>6, Ids DEF GotPlane, Placed
  <2> QED
    BY <1>1, <1>2, <2>2, <2>3 DEF ViewsHeld
<1>11. Follows(w, view, pending)
  <2>1. Follows(e, view, pending)
    BY <1>4, FollowsSame
  <2> QED
    BY <1>5, <2>1, FollowsSame DEF GotPlane
<1>12. PendingOK(pending') /\ Follows(w, view, pending')
  BY <1>1, <1>11, ScheduledFollows DEF Follows
<1>13. Follows(w, view', pending')
  <2>1. view'[c].center = w.pawn[c].pos /\ \A d \in Clients \ {c} : view'[d] = view[d]
    BY <1>1, <1>2, <1>6
  <2> QED
    BY <1>12, <2>1 DEF Follows
<1>14. surprises' = {}
  BY <1>1, NoneSeen
<1> QED
  BY <1>1, <1>5, <1>7, <1>8, <1>9, <1>10, <1>12, <1>13, <1>14

(* logout, which may unload the plane under the pawn.                      *)
LEMMA LogoutKeeps ==
    ASSUME IInv, NEW c \in Clients, Logout(c)
    PROVE  IInv'
<1> USE DEF IInv
<1> DEFINE v == view[c]
           views == [view EXCEPT ![c] = NoView]
           u == Fewer(used, v.plane, View[v.center])
           w == WithoutUnused(world, u, v.plane)
           x == TakenOut(w, c)
           p == [x.pawn[c] EXCEPT !.plane = NotLoaded]
           pend == Scheduled(w, views, ChangedPlane(world, w))
<1>1. /\ view[c] # NoView /\ world' = [x EXCEPT !.pawn[c] = p]
      /\ used' = u /\ view' = views
      /\ pending' = [pend EXCEPT ![c] = IF @ = "crossing" THEN "now" ELSE @]
      /\ surprises' = Seen(InMemory(used) \ InMemory(u), views)
      /\ made' = made
  BY DEF Logout, Online
<1> HIDE DEF p, pend
<1>2. /\ c \in On(view) /\ On(view) \subseteq Clients
      /\ view \in [Clients -> {NoView} \cup PlacedViews] /\ v \in PlacedViews
  BY <1>1 DEF On, Counted
<1>3. Counted(u, views)
  BY <1>1, LogoutCounts
<1> HIDE DEF u
<1>4. /\ \A d \in Clients : views[d] = IF d = c THEN NoView ELSE view[d]
      /\ ViewsHeld(world, views) /\ On(views) = On(view) \ {c}
  <2>1. \A d \in Clients : views[d] = IF d = c THEN NoView ELSE view[d]
    BY <1>2
  <2> HIDE DEF views
  <2> QED
    BY <2>1 DEF ViewsHeld, On
<1> HIDE DEF views
<1>5. Placed(w, On(view)) /\ SamePawns(w.pawn, world) /\ ViewsHeld(w, views) /\ Shed(world, w)
  <2>1. v.plane \in PlaneIds \ {PLANE_LIMBO} /\ \E s \in StablePlanes : world.ids[s] = v.plane
    BY <1>1, <1>2, ViewFields DEF ViewsHeld
  <2> HIDE DEF v
  <2> QED
    BY <1>2, <1>3, <1>4, <2>1, WithoutUnusedPlaces
<1> HIDE DEF w
<1>6. Placed(x, On(views)) /\ x.ids = w.ids /\ x.pawn = w.pawn
  BY <1>2, <1>4, <1>5, TakenOutPlaces
<1> HIDE DEF x
<1>7. p \in Pawns /\ p.home = w.pawn[c].home
  <2>1. x.pawn[c] \in Pawns
    BY <1>6, WorldFields DEF Placed
  <2> QED
    BY <1>6, <2>1, PawnFields DEF p
<1>8. OnePawn(x, world', c, p)
  BY <1>1, <1>6, <1>7, PawnSet DEF Placed
<1>9. Placed(world', On(views))
  <2>1. On(views) \subseteq Clients /\ c \notin On(views)
    BY <1>2, <1>4
  <2>2. p.home # STABLE_PLANE_LIMBO
    BY <1>5, <1>7 DEF Placed
  <2> QED
    BY <1>6, <1>7, <1>8, <2>1, <2>2, OnePawnKeeps
<1>10. /\ world'.ids = w.ids
       /\ \A d \in Clients : world'.pawn[d].home = world.pawn[d].home
       /\ \A d \in Clients \ {c} : world'.pawn[d] = w.pawn[d]
  <2>1. x.pawn \in [Clients -> Pawns]
    BY <1>6, WorldFields DEF Placed
  <2>2. \A d \in Clients : world'.pawn[d] = IF d = c THEN p ELSE w.pawn[d]
    BY <1>6, <1>8, <2>1 DEF OnePawn
  <2> QED
    BY <1>5, <1>6, <1>7, <1>8, <2>2 DEF OnePawn, SamePawns
<1>11. Known(world', made)
  <2>1. ASSUME NEW s \in StablePlanes, world'.ids[s] # NotLoaded PROVE s \in made
    <3>1. world'.ids[s] = world.ids[s]
      BY <1>5, <1>10, <2>1 DEF Shed
    <3> QED
      BY <2>1, <3>1 DEF Known
  <2>2. ASSUME NEW d \in Clients PROVE world'.pawn[d].home \in made
    BY <1>10 DEF Known
  <2> QED
    BY <2>1, <2>2 DEF Known
<1>12. ViewsHeld(world', views)
  BY <1>5, <1>10 DEF ViewsHeld
<1>13. PendingOK(pend) /\ Follows(w, views, pend)
  <2>1. Follows(w, views, pending)
    BY <1>4, <1>5 DEF Follows, SamePawns
  <2> QED
    BY <2>1, ScheduledFollows DEF Follows, pend
<1>14. PendingOK(pending') /\ Follows(world', views, pending')
  <2>1. /\ pending' \in [Clients -> {"none", "now", "crossing"}]
        /\ \A d \in Clients \ {c} : pending'[d] = pend[d]
    BY <1>1, <1>13 DEF PendingOK
  <2>2. ASSUME NEW d \in Clients, views[d] # NoView,
               views[d].center # world'.pawn[d].pos
        PROVE  pending'[d] # "none" \/ world'.pawn[d].crossed
    <3>1. d # c
      BY <1>4, <2>2
    <3>2. pending'[d] = pend[d] /\ world'.pawn[d] = w.pawn[d]
      BY <1>10, <2>1, <3>1
    <3> QED
      BY <1>13, <2>2, <3>2 DEF Follows
  <2> QED
    BY <2>1, <2>2 DEF PendingOK, Follows
<1>15. surprises' = {}
  BY <1>1, <1>3, NoneSeen
<1> QED
  BY <1>1, <1>3, <1>9, <1>11, <1>12, <1>14, <1>15

(* The view goes where its pawn is, and may take the old plane's last user. *)
LEMMA SetViewKeeps ==
    ASSUME IInv, NEW c \in Clients, view[c] # NoView, SetView(c), UNCHANGED made
    PROVE  IInv'
<1> USE DEF IInv
<1> DEFINE old == view[c]
           home == world.pawn[c].home
           w1 == GetPlane(world, home)
           new == [plane |-> w1.ids[home], center |-> world.pawn[c].pos]
           u1 == More(used, new.plane, Beyond(new, old))
           u2 == Fewer(u1, old.plane, Beyond(old, new))
           views == [view EXCEPT ![c] = new]
           w2 == IF Beyond(old, new) = {} THEN w1 ELSE WithoutUnused(w1, u2, old.plane)
           hooked == ChangedPlane(world, w1) \cup ChangedPlane(w1, w2) \cup {c}
<1>1. /\ world' = w2 /\ used' = u2 /\ view' = views
      /\ pending' = Scheduled(w2, views, hooked)
      /\ surprises' = Seen(InMemory(u1) \ InMemory(used), view)
                       \cup Seen(InMemory(u1) \ InMemory(u2), views)
  BY DEF SetView, WhenUnloading
<1> HIDE DEF hooked
<1>2. /\ On(view) \subseteq Clients /\ home \in StablePlanes \ {STABLE_PLANE_LIMBO}
      /\ home \in made /\ world.pawn[c].pos \in Centers
      /\ view \in [Clients -> {NoView} \cup PlacedViews] /\ old \in PlacedViews
  <2>1. world.pawn[c] \in Pawns
    BY WorldFields DEF Placed
  <2> QED
    BY <2>1, PawnFields DEF Placed, Known, Counted, On
<1>3. Placed(w1, On(view)) /\ GotPlane(world, w1, home)
  BY <1>2, GetPlanePlaces
<1> HIDE DEF w1
<1>4. new \in PlacedViews /\ new.plane = w1.ids[home] /\ new.center = world.pawn[c].pos
  BY <1>2, <1>3, ViewFields DEF GotPlane
<1>5. new # NoView
  BY <1>4, ViewFields
<1> HIDE DEF new
<1>6. Counted(u2, views)
  BY <1>4, SetViewCounts
<1>7. surprises' = {}
  BY <1>1, <1>6, NoneSeen
<1> HIDE DEF u2
<1>8. /\ \A d \in Clients : views[d] = IF d = c THEN new ELSE view[d]
      /\ On(views) = On(view)
  <2>1. \A d \in Clients : views[d] = IF d = c THEN new ELSE view[d]
    BY <1>2
  <2> HIDE DEF views
  <2> QED
    BY <1>5, <2>1 DEF On
<1> HIDE DEF views
<1>9. ViewsHeld(w1, view)
  BY <1>3, GotPlaneHolds
<1>10. ViewsHeld(w1, views)
  <2>1. new.plane # PLANE_LIMBO
    BY <1>2, <1>3, <1>4, Ids DEF GotPlane, Placed
  <2> QED
    BY <1>2, <1>4, <1>8, <1>9, <2>1 DEF ViewsHeld
<1>11. Placed(w2, On(view)) /\ SamePawns(w2.pawn, w1) /\ ViewsHeld(w2, views) /\ Shed(w1, w2)
  <2>1. CASE Beyond(old, new) = {}
    <3>1. SamePawns(w1.pawn, w1)
      BY <1>3 DEF Placed, Worlds, SamePawns
    <3> QED
      BY <1>3, <1>10, <2>1, <3>1 DEF Shed
  <2>2. CASE Beyond(old, new) # {}
    <3>1. /\ old.plane \in PlaneIds \ {PLANE_LIMBO}
          /\ \E s \in StablePlanes : w1.ids[s] = old.plane
      BY <1>2, <1>9, ViewFields DEF ViewsHeld
    <3> HIDE DEF old
    <3>2. LET x == WithoutUnused(w1, u2, old.plane)
          IN Placed(x, On(view)) /\ SamePawns(x.pawn, w1) /\ ViewsHeld(x, views) /\ Shed(w1, x)
      BY <1>2, <1>3, <1>6, <1>10, <3>1, WithoutUnusedPlaces
    <3> QED
      BY <2>2, <3>2
  <2> QED
    BY <2>1, <2>2
<1> HIDE DEF w2
<1>12. Known(w2, made)
  BY <1>2, <1>3, <1>11 DEF Known, GotPlane, Shed, SamePawns
<1>13. PendingOK(pending') /\ Follows(w2, views, pending')
  <2>1. \A d \in Clients \ {c} :
            views[d] # NoView /\ views[d].center # w2.pawn[d].pos =>
                pending[d] # "none" \/ w2.pawn[d].crossed
    BY <1>3, <1>8, <1>11 DEF Follows, GotPlane, SamePawns
  <2>2. c \in hooked
    BY DEF hooked
  <2> QED
    BY <1>1, <2>1, <2>2, ScheduledFollows
<1> QED
  BY <1>1, <1>6, <1>7, <1>8, <1>11, <1>12, <1>13

(* An order that does not tell where the pawns are.                        *)
InOrder(w, m, views) == Placed(w, On(views)) /\ Known(w, m) /\ ViewsHeld(w, views)

(* A pawn on its plane moves: planes, tables and views stay in order.      *)
LEMMA OnePawnInOrder ==
    ASSUME NEW w, NEW m, NEW views, InOrder(w, m, views), NEW c \in Clients, NEW p \in Pawns,
           p.home = w.pawn[c].home, p.plane = w.pawn[c].plane, NEW x, OnePawn(w, x, c, p)
    PROVE  InOrder(x, m, views) /\ \A d \in Clients : x.pawn[d] = IF d = c THEN p ELSE w.pawn[d]
<1>1. w.pawn \in [Clients -> Pawns]
  BY WorldFields DEF InOrder, Placed
<1>2. x.ids = w.ids /\ \A d \in Clients : x.pawn[d] = IF d = c THEN p ELSE w.pawn[d]
  BY <1>1 DEF OnePawn
<1>3. Placed(x, On(views))
  <2>1. p.home # STABLE_PLANE_LIMBO
    BY DEF InOrder, Placed
  <2>2. On(views) \subseteq Clients
    BY DEF On
  <2> QED
    BY <2>1, <2>2, OnePawnKeeps DEF InOrder
<1>4. Known(x, m)
  BY <1>2 DEF InOrder, Known
<1>5. ViewsHeld(x, views)
  BY <1>2 DEF InOrder, ViewsHeld
<1> QED
  BY <1>2, <1>3, <1>4, <1>5 DEF InOrder

(* A new motion: its client's view update is scheduled.                    *)
Resumed(x, m, c) ==
    /\ InOrder(x, m, view)
    /\ PendingOK(Scheduled(x, view, {c})) /\ Follows(x, view, Scheduled(x, view, {c}))

(* All other clients' updates are as before.                               *)
LEMMA SetMotionKeeps ==
    ASSUME PendingOK(pending), NEW w, NEW m, InOrder(w, m, view), NEW c \in Clients,
           \A d \in Clients \ {c} : view[d] # NoView /\ view[d].center # w.pawn[d].pos =>
                                    pending[d] # "none" \/ w.pawn[d].crossed,
           NEW at \in Centers, NEW to \in Centers
    PROVE  Resumed(SetMotion(w, c, at, to), m, c)
<1> DEFINE x == SetMotion(w, c, at, to)
           p == [w.pawn[c] EXCEPT !.pos = at, !.to = to, !.crossed = FALSE]
<1>1. w \in Worlds /\ w.pawn[c] \in Pawns
  BY WorldFields DEF InOrder, Placed
<1>2. OnePawn(w, x, c, p)
  BY <1>1, SetMotionIs
<1>3. p \in Pawns /\ p.home = w.pawn[c].home /\ p.plane = w.pawn[c].plane
  BY <1>1 DEF Pawns
<1> HIDE DEF x, p
<1>4. InOrder(x, m, view) /\ \A d \in Clients : x.pawn[d] = IF d = c THEN p ELSE w.pawn[d]
  BY <1>2, <1>3, OnePawnInOrder
<1>5. \A d \in Clients \ {c} : view[d] # NoView /\ view[d].center # x.pawn[d].pos =>
                                pending[d] # "none" \/ x.pawn[d].crossed
  BY <1>4
<1>6. PendingOK(Scheduled(x, view, {c})) /\ Follows(x, view, Scheduled(x, view, {c}))
  BY <1>5, ScheduledFollows
<1> QED
  BY <1>4, <1>6 DEF Resumed, x

(* A teleport to a plane, which need not be in memory.                     *)
LEMMA ChangePlaneKeeps ==
    ASSUME IInv, NEW c \in On(view), NEW s \in made \ {STABLE_PLANE_LIMBO},
           NEW to \in Centers
    PROVE  Resumed(SetMotion(SetStablePlane(world, c, s), c, to, to), made, c)
<1> USE DEF IInv
<1> DEFINE w == SetStablePlane(world, c, s)
<1>1. c \in Clients /\ s \in StablePlanes \ {STABLE_PLANE_LIMBO} /\ On(view) \subseteq Clients
  BY DEF On
<1>2. Placed(w, On(view)) /\ Rehomed(world, w, c, s)
  BY <1>1, SetStablePlanePlaces
<1> HIDE DEF w
<1>3. InOrder(w, made, view)
  <2>1. Known(w, made)
    BY <1>2 DEF Known, Rehomed
  <2>2. ViewsHeld(w, view)
    BY <1>2 DEF ViewsHeld, Rehomed
  <2> QED
    BY <1>2, <2>1, <2>2 DEF InOrder
<1>4. \A d \in Clients \ {c} : view[d] # NoView /\ view[d].center # w.pawn[d].pos =>
                                pending[d] # "none" \/ w.pawn[d].crossed
  BY <1>2 DEF Rehomed, Follows
<1> QED
  BY <1>1, <1>3, <1>4, SetMotionKeeps DEF w

(* What is left to say of a step that starts a motion.                     *)
LEMMA ResumedKeeps ==
    ASSUME IInv, NEW c \in Clients, NEW x, Resumed(x, made, c), world' = x,
           pending' = Scheduled(x, view, {c}), surprises' = {}, UNCHANGED <<made, view, used>>
    PROVE  IInv'
  BY DEF IInv, Resumed, InOrder

-----------------------------------------------------------------------------

(* The timer's callback, for a client that is there or gone.               *)
LEMMA UpdateViewKeeps ==
    ASSUME IInv, NEW c \in Clients, UpdateView(c)
    PROVE  IInv'
<1>1. CASE c \in Online
  BY <1>1, SetViewKeeps DEF UpdateView, Online
<1>2. CASE c \notin Online
  <2>1. /\ pending' = [pending EXCEPT ![c] = "none"] /\ surprises' = {} /\ view[c] = NoView
        /\ UNCHANGED <<world, made, view, used>>
    BY <1>2 DEF UpdateView, Online
  <2>2. PendingOK(pending') /\ \A d \in Clients \ {c} : pending'[d] = pending[d]
    BY <2>1 DEF IInv, PendingOK
  <2>3. Follows(world, view, pending')
    BY <2>1, <2>2 DEF IInv, Follows
  <2> QED
    BY <2>1, <2>2, <2>3 DEF IInv
<1> QED
  BY <1>1, <1>2

(* A motion starts, or the pawn is put elsewhere on its plane.             *)
LEMMA MoveKeeps ==
    ASSUME IInv, NEW c \in Clients, NEW to \in Centers,
           Move(c, to) \/ TeleportEntity(c, to)
    PROVE  IInv'
<1>1. PICK at \in Centers, end \in Centers :
        /\ world' = SetMotion(world, c, at, end)
        /\ pending' = Scheduled(world', view, {c})
        /\ surprises' = {} /\ UNCHANGED <<made, view, used>>
  <2>1. world.pawn[c].pos \in Centers
    BY PawnPos DEF IInv, Placed
  <2> QED
    BY <2>1 DEF Move, TeleportEntity
<1>2. Resumed(world', made, c)
  <2>1. InOrder(world, made, view) /\ PendingOK(pending)
    BY DEF IInv, InOrder
  <2>2. \A d \in Clients \ {c} : view[d] # NoView /\ view[d].center # world.pawn[d].pos =>
                                  pending[d] # "none" \/ world.pawn[d].crossed
    BY DEF IInv, Follows
  <2> QED
    BY <1>1, <2>1, <2>2, SetMotionKeeps
<1> QED
  BY <1>1, <1>2, ResumedKeeps

(* A teleport to a plane, or to another pawn, which has one.               *)
LEMMA TeleportKeeps ==
    ASSUME IInv, NEW c \in Clients, NEW d \in Clients, NEW s \in StablePlanes,
           NEW to \in Centers,
           TeleportEntityStablePlane(c, s, to) \/ TeleportEntityPlane(c, d)
    PROVE  IInv'
<1>1. CASE UNCHANGED vars
  BY <1>1 DEF IInv, vars
<1>2. CASE ~ UNCHANGED vars
  <2>1. PICK t \in made \ {STABLE_PLANE_LIMBO}, end \in Centers :
          /\ c \in On(view)
          /\ world' = SetMotion(SetStablePlane(world, c, t), c, end, end)
          /\ pending' = Scheduled(world', view, {c})
          /\ surprises' = {} /\ UNCHANGED <<made, view, used>>
    <3>1. CASE TeleportEntityStablePlane(c, s, to)
      BY <3>1 DEF TeleportEntityStablePlane, Online, On
    <3>2. CASE TeleportEntityPlane(c, d)
      <4>1. /\ c \in On(view) /\ d \in On(view) /\ world.pawn[d].plane # PLANE_LIMBO
            /\ surprises' = {} /\ UNCHANGED <<made, view, used>>
        BY <3>2 DEF TeleportEntityPlane, Online, On
      <4>2. surprises = {}
        BY DEF IInv
      <4>3. PICK t \in StablePlanes :
              /\ world.ids[t] = world.pawn[d].plane
              /\ world' = SetMotion(SetStablePlane(world, c, t), c,
                                    world.pawn[d].pos, world.pawn[d].pos)
              /\ pending' = Scheduled(world', view, {c})
        BY <1>2, <3>2, <4>1, <4>2 DEF TeleportEntityPlane, vars
      <4>4. world.pawn[d].pos \in Centers
        BY PawnPos DEF IInv, Placed
      <4>5. t # STABLE_PLANE_LIMBO
        BY <4>1, <4>3 DEF IInv, Placed
      <4>6. t \in made
        <5>1. world.pawn[d].plane = IdOrLimbo(world, world.pawn[d].home)
          BY <4>1 DEF IInv, Placed
        <5>2. world.pawn[d].plane # NotLoaded
          BY <4>1, <5>1 DEF IdOrLimbo
        <5> QED
          BY <4>3, <5>2 DEF IInv, Known
      <4> QED
        BY <4>1, <4>3, <4>4, <4>5, <4>6
    <3> QED
      BY <3>1, <3>2
  <2>2. Resumed(world', made, c)
    BY <2>1, ChangePlaneKeeps
  <2> QED
    BY <2>1, <2>2, ResumedKeeps
<1> QED
  BY <1>1, <1>2

(* The pawn comes into another chunk by its motion.                        *)
LEMMA CrossKeeps ==
    ASSUME IInv, NEW c \in Clients, NEW at \in Centers, Cross(c, at)
    PROVE  IInv'
<1> DEFINE p == [world.pawn[c] EXCEPT !.pos = at, !.crossed = TRUE]
<1>1. /\ world' = [world EXCEPT !.pawn[c] = p]
      /\ surprises' = {} /\ UNCHANGED <<made, view, used>>
      /\ pending' = pending \/ pending' = [pending EXCEPT ![c] = "none"]
  BY DEF Cross
<1>2. world \in Worlds /\ world.pawn[c] \in Pawns
  BY PawnPos DEF IInv, Placed
<1>3. p \in Pawns /\ p.home = world.pawn[c].home /\ p.plane = world.pawn[c].plane
      /\ p.crossed = TRUE
  BY <1>2 DEF Pawns
<1> HIDE DEF p
<1>4. OnePawn(world, world', c, p)
  BY <1>1, <1>2, <1>3, PawnSet
<1>5. InOrder(world, made, view)
  BY DEF IInv, InOrder
<1>6. /\ InOrder(world', made, view)
      /\ \A d \in Clients : world'.pawn[d] = IF d = c THEN p ELSE world.pawn[d]
  BY <1>3, <1>4, <1>5, OnePawnInOrder
<1>7. PendingOK(pending') /\ \A d \in Clients \ {c} : pending'[d] = pending[d]
  BY <1>1 DEF IInv, PendingOK
<1>8. Follows(world', view, pending')
  BY <1>3, <1>6, <1>7 DEF IInv, Follows
<1> QED
  BY <1>1, <1>6, <1>7, <1>8 DEF IInv, InOrder

(* A plane that is made has no id before.                                  *)
LEMMA CreatePlaneKeeps ==
    ASSUME IInv, NEW s \in StablePlanes, CreatePlane(s)
    PROVE  IInv'
<1> USE DEF IInv
<1> DEFINE w == GetPlane(world, s)
<1>1. world.ids[s] = NotLoaded
  BY DEF CreatePlane, Known
<1>2. /\ world' = w /\ made' = made \cup {s} /\ surprises' = {}
      /\ UNCHANGED <<view, used, pending>>
  BY <1>1 DEF CreatePlane, GetPlane
<1>3. Placed(w, On(view)) /\ GotPlane(world, w, s)
  <2>1. On(view) \subseteq Clients
    BY DEF On
  <2> QED
    BY <2>1, GetPlanePlaces
<1> HIDE DEF w
<1>4. ViewsHeld(w, view)
  BY <1>3, GotPlaneHolds
<1>5. Known(w, made')
  BY <1>2, <1>3 DEF Known, GotPlane, SamePawns
<1>6. Follows(w, view, pending)
  BY <1>3, FollowsSame DEF GotPlane
<1> QED
  BY <1>2, <1>3, <1>4, <1>5, <1>6

-----------------------------------------------------------------------------
(* Nobody is there when the server starts.                                 *)

Empty(pawns) ==
    [ids |-> FirstPlanes, pawn |-> pawns, by_plane |-> [i \in PlaneIds |-> {}],
     in_limbo |-> [s \in StablePlanes |-> {}]]

(* The planes that start_up loads, with empty tables.                      *)
LEMMA EmptyPlaced ==
    ASSUME NEW pawns \in [Clients -> Pawns],
           \A c \in Clients : pawns[c].home # STABLE_PLANE_LIMBO
    PROVE  Placed(Empty(pawns), {})
<1>1. /\ FirstPlanes \in [StablePlanes -> PlaneIds \cup {NotLoaded}]
      /\ FirstPlanes[STABLE_PLANE_LIMBO] = PLANE_LIMBO
      /\ \A s, t \in StablePlanes :
            FirstPlanes[s] = FirstPlanes[t] /\ FirstPlanes[s] # NotLoaded => s = t
  <2>1. 0 \in PlaneIds /\ 1 \in PlaneIds /\ NotLoaded # 0 /\ NotLoaded # 1 /\ 0 # 1
    BY Ids DEF PLANE_LIMBO, NotLoaded
  <2> QED
    BY <2>1 DEF FirstPlanes, PLANE_LIMBO
<1> DEFINE w == Empty(pawns)
<1>2. /\ w.ids = FirstPlanes /\ w.pawn = pawns
      /\ w.by_plane = [i \in PlaneIds |-> {}] /\ w.in_limbo = [s \in StablePlanes |-> {}]
  BY DEF Empty
<1>3. w \in Worlds
  BY <1>1 DEF Empty, Worlds
<1> HIDE DEF w
<1>4. w.ids[STABLE_PLANE_LIMBO] = PLANE_LIMBO
  BY <1>1, <1>2
<1>5. \A s, t \in StablePlanes : w.ids[s] = w.ids[t] /\ w.ids[s] # NotLoaded => s = t
  BY <1>1, <1>2
<1>6. /\ \A i \in PlaneIds : w.by_plane[i] = {} /\ \A s \in StablePlanes : w.in_limbo[s] = {}
  BY <1>2
<1> QED
  BY <1>2, <1>3, <1>4, <1>5, <1>6 DEF Placed, w

(* No views, no users.                                                     *)
LEMMA EmptyCounted ==
    Counted([i \in PlaneIds |-> [q \in Pos |-> 0]], [c \in Clients |-> NoView])
<1>1. \A i \in PlaneIds, q \in Pos : ViewersAt([c \in Clients |-> NoView], i, q) = {}
  BY DEF ViewersAt, Sees
<1>2. Cardinality({}) = 0
  BY FS_EmptySet
<1> QED
  BY <1>1, <1>2 DEF Counted

(* What the invariant says of a server nobody has logged into.             *)
LEMMA NobodyThere ==
    ASSUME NEW pawns \in [Clients -> Pawns],
           \A c \in Clients : pawns[c].home \in made \ {STABLE_PLANE_LIMBO},
           made \subseteq StablePlanes, {STABLE_PLANE_LIMBO, STABLE_PLANE_FOREST} \subseteq made,
           NEW views, views = [c \in Clients |-> NoView],
           NEW pend, pend = [c \in Clients |-> "none"],
           NEW w, w = Empty(pawns)
    PROVE  /\ Placed(w, On(views)) /\ Known(w, made) /\ ViewsHeld(w, views)
           /\ PendingOK(pend) /\ Follows(w, views, pend)
<1>1. \A c \in Clients : views[c] = NoView
  OBVIOUS
<1>2. On(views) = {}
  BY <1>1 DEF On
<1>3. Placed(w, On(views))
  BY <1>2, EmptyPlaced
<1>4. Known(w, made)
  BY DEF Known, Empty, FirstPlanes
<1>5. ViewsHeld(w, views) /\ Follows(w, views, pend)
  BY <1>1 DEF ViewsHeld, Follows
<1>6. PendingOK(pend)
  BY DEF PendingOK
<1> QED
  BY <1>3, <1>4, <1>5, <1>6

(* The first state.                                                        *)
LEMMA InitIInv == Init => IInv
<1> SUFFICES ASSUME Init PROVE IInv
  OBVIOUS
<1> DEFINE pawns == [c \in Clients |-> [home |-> STABLE_PLANE_FOREST, plane |-> NotLoaded,
                                       pos |-> Start, to |-> Start, crossed |-> FALSE]]
<1>1. pawns \in [Clients -> Pawns] /\ \A c \in Clients : pawns[c].home = STABLE_PLANE_FOREST
  BY DEF Pawns
<1>2. world = Empty(pawns)
  BY DEF Init, Empty
<1> HIDE DEF pawns
<1>3. /\ made = {STABLE_PLANE_LIMBO, STABLE_PLANE_FOREST}
      /\ view = [c \in Clients |-> NoView] /\ pending = [c \in Clients |-> "none"]
      /\ used = [i \in PlaneIds |-> [q \in Pos |-> 0]] /\ surprises = {}
  BY DEF Init
<1>4. /\ Placed(world, On(view)) /\ Known(world, made) /\ ViewsHeld(world, view)
      /\ PendingOK(pending) /\ Follows(world, view, pending)
  BY <1>1, <1>2, <1>3, NobodyThere
<1>5. Counted(used, view)
  BY <1>3, EmptyCounted
<1> QED
  BY <1>3, <1>4, <1>5 DEF IInv

(* A restart, from any state.                                              *)
LEMMA RestartKeeps ==
    ASSUME IInv, Restart
    PROVE  IInv'
<1> DEFINE pawns == [c \in Clients |-> [world.pawn[c] EXCEPT !.plane = NotLoaded]]
<1>1. /\ world' = Empty(pawns) /\ made' = made /\ surprises' = {}
      /\ view' = [c \in Clients |-> NoView] /\ pending' = [c \in Clients |-> "none"]
      /\ used' = [i \in PlaneIds |-> [q \in Pos |-> 0]]
  BY DEF Restart, Empty
<1>2. \A c \in Clients : world.pawn[c] \in Pawns
  BY PawnPos DEF IInv, Placed
<1>3. \A c \in Clients : pawns[c] \in Pawns /\ pawns[c].home = world.pawn[c].home
  BY <1>2 DEF Pawns
<1>4. pawns \in [Clients -> Pawns]
  BY <1>3
<1> HIDE DEF pawns
<1>5. \A c \in Clients : pawns[c].home \in made \ {STABLE_PLANE_LIMBO}
  BY <1>3 DEF IInv, Placed, Known
<1>6. made \subseteq StablePlanes /\ {STABLE_PLANE_LIMBO, STABLE_PLANE_FOREST} \subseteq made
  BY Ids DEF IInv, Placed, Known
<1>7. /\ Placed(world', On(view')) /\ Known(world', made) /\ ViewsHeld(world', view')
      /\ PendingOK(pending') /\ Follows(world', view', pending')
  BY <1>1, <1>4, <1>5, <1>6, NobodyThere
<1>8. Counted(used', view')
  BY <1>1, EmptyCounted
<1> QED
  BY <1>1, <1>6, <1>7, <1>8 DEF IInv

(* Every step.                                                             *)
LEMMA NextIInv == IInv /\ [Next]_vars => IInv'
<1> SUFFICES ASSUME IInv, [Next]_vars PROVE IInv'
  OBVIOUS
<1>1. CASE UNCHANGED vars
  BY <1>1 DEF IInv, vars
<1>2. ASSUME NEW c \in Clients, Login(c) \/ Logout(c) \/ UpdateView(c) PROVE IInv'
  BY <1>2, LoginKeeps, LogoutKeeps, UpdateViewKeeps
<1>3. ASSUME NEW c \in Clients, NEW to \in Centers,
             Move(c, to) \/ Cross(c, to) \/ TeleportEntity(c, to)
      PROVE  IInv'
  BY <1>3, MoveKeeps, CrossKeeps
<1>4. ASSUME NEW c \in Clients, NEW s \in StablePlanes, NEW to \in Centers,
             TeleportEntityStablePlane(c, s, to)
      PROVE  IInv'
  BY <1>4, TeleportKeeps
<1>5. ASSUME NEW c \in Clients, NEW d \in Clients, TeleportEntityPlane(c, d) PROVE IInv'
  BY <1>5, TeleportKeeps
<1>6. ASSUME NEW s \in StablePlanes, CreatePlane(s) PROVE IInv'
  BY <1>6, CreatePlaneKeeps
<1>7. CASE Restart
  BY <1>7, RestartKeeps
<1> QED
  BY <1>1, <1>2, <1>3, <1>4, <1>5, <1>6, <1>7 DEF Next

(* The inductive invariant holds: planes, pawns, tables, users, views and  *)
(* timers agree in every state.                                            *)
THEOREM IInvHolds == Spec => []IInv
  BY InitIInv, NextIInv, PTL DEF Spec

-----------------------------------------------------------------------------

(* Every variable has its type: in particular no count of users goes below *)
(* zero, and no plane gets an id that is out of range.                     *)
THEOREM TypeOKHolds == Spec => []TypeOK
<1>1. IInv => TypeOK
  BY DEF IInv, Placed, Counted, PlacedViews, PendingOK, TypeOK
<1> QED
  BY <1>1, IInvHolds, PTL

(* Each chunk of a plane has as many users as there are views it is in,    *)
(* and every view is of a plane that is in memory: after any logins, moves *)
(* and teleports, logging everybody out leaves nothing loaded, and nobody  *)
(* looks at what is not.                                                   *)
THEOREM UsersAreViewsHolds == Spec => []UsersAreViews
<1>1. IInv => UsersAreViews
  <2> SUFFICES ASSUME IInv PROVE UsersAreViews
    OBVIOUS
  <2>1. ASSUME NEW i \in PlaneIds, NEW q \in Pos
        PROVE  used[i][q] = Cardinality({c \in Online : view[c].plane = i
                                                         /\ q \in View[view[c].center]})
    <3>1. {c \in Online : view[c].plane = i /\ q \in View[view[c].center]} = ViewersAt(view, i, q)
      BY DEF Online, ViewersAt, Sees
    <3> QED
      BY <3>1 DEF IInv, Counted
  <2>2. \A c \in Online : \E s \in StablePlanes : world.ids[s] = view[c].plane
    BY DEF IInv, ViewsHeld, Online
  <2> QED
    BY <2>1, <2>2 DEF UsersAreViews
<1> QED
  BY <1>1, IInvHolds, PTL

(* No chunk is loaded or unloaded by the calls that do not tell Vision     *)
(* while some client sees it, for any views and any sets of chunks that    *)
(* are kept for a position.                                                *)
THEOREM NoSurpriseHolds == Spec => []NoSurprise
<1>1. IInv => NoSurprise
  BY DEF IInv, NoSurprise
<1> QED
  BY <1>1, IInvHolds, PTL

(* Every pawn is on its plane when that is in memory and in limbo when it  *)
(* is not, and in the one table where it is looked for.                    *)
THEOREM PawnsPlacedHolds == Spec => []PawnsPlaced
<1>1. IInv => PawnsPlaced
  <2> SUFFICES ASSUME IInv PROVE PawnsPlaced
    OBVIOUS
  <2>1. Online = On(view)
    BY DEF Online, On
  <2> QED
    BY <2>1 DEF IInv, Placed, PawnsPlaced, PlaneOfPawn, PawnTables
<1> QED
  BY <1>1, IInvHolds, PTL

(* A view that is not where its pawn is has an update pending, or the      *)
(* pawn is still in the motion that took it there.                         *)
THEOREM ViewFollowsPawnHolds == Spec => []ViewFollowsPawn
<1>1. IInv => ViewFollowsPawn
  BY DEF IInv, Follows, Online, ViewFollowsPawn
<1> QED
  BY <1>1, IInvHolds, PTL

-----------------------------------------------------------------------------
(* How a pawn gets to where its motion leads: Walk, for any terrain and    *)
(* any sizes.  That it is never inside an obstacle is inductive as it      *)
(* stands, but one has to follow a walk step by step.                      *)

HIDE ClientViewsAssumption
USE SizesAssumption

Points == Int \X Int \X Int
Offsets == (-1 .. 1) \X (-1 .. 1) \X (-1 .. 1)

(* Division by the size of a tile, rounding down. *)
LEMMA DivBounds ==
    ASSUME NEW T \in Nat \ {0}, NEW v \in Int, NEW k \in Int
    PROVE  /\ v \div T \in Int
           /\ k <= v \div T <=> k * T <= v
           /\ v \div T <= k <=> v < (k + 1) * T
<1> DEFINE d == v \div T
<1>1. d \in Int /\ d * T <= v /\ v < d * T + T
  OBVIOUS
<1> HIDE DEF d
<1>2. d + 1 <= k => d * T + T <= k * T
  BY <1>1
<1>3. k <= d => k * T <= d * T
  BY <1>1
<1>4. k + 1 <= d => (k + 1) * T <= d * T
  BY <1>1
<1>5. d <= k => d * T + T <= (k + 1) * T
  BY <1>1
<1>6. k * T \in Int /\ (k + 1) * T \in Int /\ d * T \in Int
  BY <1>1
<1>7. k <= d <=> k * T <= v
  BY <1>1, <1>2, <1>3, <1>6
<1>8. d <= k <=> v < (k + 1) * T
  BY <1>1, <1>4, <1>5, <1>6
<1> QED
  BY <1>1, <1>7, <1>8 DEF d

(* A player is larger than a pixel. *)
LEMMA SizeFacts ==
    \A a \in Axes : Size[a] \in Nat \ {0, 1}
  BY DEF SizesAssumption, Size, Axes

(* The tiles a player is in, along one axis. *)
LEMMA TilesFact ==
    ASSUME NEW p \in Points, NEW a \in Axes, NEW k
    PROVE  k \in TilesAlong(p, a) <=>
              k \in Int /\ k * TILE_SIZE < p[a] + Size[a] /\ p[a] < (k + 1) * TILE_SIZE
<1>1. p[a] \in Int /\ Size[a] \in Nat \ {0, 1} /\ TILE_SIZE \in Nat \ {0}
  BY SizeFacts DEF SizesAssumption, Points, Axes
<1>2. p[a] + Size[a] - 1 \in Int
  BY <1>1
<1>3. CASE k \in Int
  <2>1. p[a] \div TILE_SIZE <= k <=> p[a] < (k + 1) * TILE_SIZE
    BY <1>1, <1>3, DivBounds
  <2>2. k <= (p[a] + Size[a] - 1) \div TILE_SIZE <=> k * TILE_SIZE <= p[a] + Size[a] - 1
    BY <1>1, <1>2, <1>3, DivBounds
  <2>3. k * TILE_SIZE \in Int
    BY <1>1, <1>3
  <2>4. k * TILE_SIZE <= p[a] + Size[a] - 1 <=> k * TILE_SIZE < p[a] + Size[a]
    BY <1>1, <2>3
  <2>5. p[a] \div TILE_SIZE \in Int /\ (p[a] + Size[a] - 1) \div TILE_SIZE \in Int
    BY <1>1, <1>2, DivBounds
  <2> QED
    BY <1>3, <2>1, <2>2, <2>4, <2>5 DEF TilesAlong
<1>4. CASE k \notin Int
  BY <1>4 DEF TilesAlong
<1> QED
  BY <1>3, <1>4

(* Of the sections that something touches, one has all its edges. *)
LEMMA EdgeSection ==
    ASSUME NEW lo \in Points, NEW hi \in Points, NEW corner,
           \A a \in Axes : lo[a] < hi[a]
    PROVE  EdgeAxes(lo, hi, corner) \in Touched(lo, hi, corner)
<1> DEFINE edge == EdgeAxes(lo, hi, corner)
<1>1. \A a \in Axes : lo[a] \in Int /\ hi[a] \in Int
  BY DEF Points, Axes
<1>2. Axes \ edge \subseteq MidAxes(lo, hi, edge)
  BY <1>1 DEF MidAxes
<1> HIDE DEF edge
<1>3. edge \in Sections(edge, MidAxes(lo, hi, edge))
  BY <1>2 DEF Sections
<1> QED
  BY <1>3 DEF edge, Touched

Moving(dir) == {a \in Axes : dir[a] # 0}

(* Nothing blocks only if nothing is hit at an edge in motion. *)
LEMMA BlockingFacts ==
    ASSUME NEW S, NEW dir
    PROVE  /\ Blocking(S, dir) \subseteq Moving(dir)
           /\ Blocking(S, dir) = {} => \A s \in S : s \cap Moving(dir) = {}
<1> DEFINE hit == {s \cap Moving(dir) : s \in S} \ {{}}
           faces == {s \in hit : \E a \in Axes : s = {a}}
           chosen == IF faces # {} THEN faces
                     ELSE IF hit # {Axes} THEN hit \ {Axes} ELSE hit
<1>1. Blocking(S, dir) = UNION chosen
  BY DEF Blocking, Moving
<1>2. \A s \in hit : s \subseteq Moving(dir) /\ s # {}
  OBVIOUS
<1>3. \A s \in S : s \cap Moving(dir) # {} => s \cap Moving(dir) \in hit
  OBVIOUS
<1>4. chosen \subseteq hit
  OBVIOUS
<1> HIDE DEF hit
<1>5. hit # {} => chosen # {}
  OBVIOUS
<1> HIDE DEF faces, chosen
<1>6. UNION chosen \subseteq Moving(dir)
  BY <1>2, <1>4
<1>7. UNION chosen = {} => chosen = {}
  BY <1>2, <1>4
<1> QED
  BY <1>1, <1>3, <1>5, <1>6, <1>7


(* A step is one pixel at most along each axis. *)
LEMMA PlusType ==
    ASSUME NEW p \in Points, NEW dir \in Offsets
    PROVE  /\ Plus(p, dir) \in Points
           /\ \A a \in Axes : Plus(p, dir)[a] = p[a] + dir[a] /\ dir[a] \in {-1, 0, 1}
  BY DEF Plus, Points, Offsets, Axes

(* What a player at p takes up of tile t, along one axis. *)
LEMMA PartType ==
    ASSUME NEW p \in Points, NEW t \in Points
    PROVE  /\ PartLo(p, t) \in Points /\ PartHi(p, t) \in Points
           /\ \A a \in Axes : PartLo(p, t)[a] = Lowest(p, t, a)
                             /\ PartHi(p, t)[a] = Highest(p, t, a)
<1>1. \A a \in Axes : Size[a] \in Int /\ p[a] \in Int /\ t[a] \in Int
  BY SizeFacts DEF Points, Axes
<1>2. TILE_SIZE \in Nat
  BY DEF SizesAssumption
<1>3. \A a \in Axes : t[a] * TILE_SIZE \in Int /\ (t[a] + 1) * TILE_SIZE \in Int
  BY <1>1, <1>2
<1>4. \A a \in Axes : Lowest(p, t, a) \in Int /\ Highest(p, t, a) \in Int
  BY <1>1, <1>3 DEF Lowest, Highest, Later, Sooner
<1> QED
  BY <1>4 DEF PartLo, PartHi, Points, Axes

Tiles(p) == TilesAlong(p, 1) \X TilesAlong(p, 2) \X TilesAlong(p, 3)

(* The tiles a player is in. *)
LEMMA TilesType ==
    ASSUME NEW p \in Points, NEW t
    PROVE  t \in Tiles(p) <=> t \in Points /\ \A a \in Axes : t[a] \in TilesAlong(p, a)
<1>1. \A a \in Axes : TilesAlong(p, a) \subseteq Int
  BY TilesFact
<1> QED
  BY <1>1 DEF Tiles, Points, Axes

(* A step that nothing blocks along an axis: the part of a tile that the   *)
(* player takes up after it was its own before.                            *)
LEMMA AlongAxis ==
    ASSUME NEW p \in Points, NEW dir \in Offsets, NEW t \in Points,
           NEW a \in Axes,
           t[a] \in TilesAlong(Plus(p, dir), a),
           \/ dir[a] = 0
           \/ ~ /\ Lowest(Plus(p, dir), t, a) <= Foremost(Plus(p, dir), dir, a)
                /\ Foremost(Plus(p, dir), dir, a) < Highest(Plus(p, dir), t, a)
    PROVE  /\ t[a] \in TilesAlong(p, a)
           /\ Lowest(p, t, a) <= Lowest(Plus(p, dir), t, a)
           /\ Highest(Plus(p, dir), t, a) <= Highest(p, t, a)
<1> DEFINE q == Plus(p, dir)
           lo == t[a] * TILE_SIZE
           hi == (t[a] + 1) * TILE_SIZE
           size == Size[a]
<1>1. /\ q \in Points /\ q[a] = p[a] + dir[a] /\ dir[a] \in {-1, 0, 1}
      /\ p[a] \in Int /\ q[a] \in Int /\ t[a] \in Int
  BY PlusType DEF Points, Axes
<1>2. size \in Nat \ {0, 1} /\ TILE_SIZE \in Nat \ {0, 1}
  BY SizeFacts DEF SizesAssumption
<1>3. lo \in Int /\ hi = lo + TILE_SIZE
  BY <1>1, <1>2
<1>4. lo < q[a] + size /\ q[a] < hi
  BY <1>1, TilesFact
<1>5. /\ Lowest(p, t, a) = Later(p[a], lo)
      /\ Highest(p, t, a) = Sooner(p[a] + size, hi)
      /\ Lowest(q, t, a) = Later(q[a], lo)
      /\ Highest(q, t, a) = Sooner(q[a] + size, hi)
      /\ Foremost(q, dir, a) = IF dir[a] > 0 THEN q[a] + size - 1 ELSE q[a]
  BY DEF Lowest, Highest, Foremost
<1>6. t[a] \in TilesAlong(p, a) <=> lo < p[a] + size /\ p[a] < hi
  BY <1>1, TilesFact
<1> HIDE DEF q, lo, hi, size
<1>7. \/ dir[a] = 0
      \/ ~ (/\ Later(q[a], lo) <= (IF dir[a] > 0 THEN q[a] + size - 1 ELSE q[a])
            /\ (IF dir[a] > 0 THEN q[a] + size - 1 ELSE q[a]) < Sooner(q[a] + size, hi))
  BY <1>5 DEF q
<1>8. /\ lo < p[a] + size /\ p[a] < hi
      /\ Later(p[a], lo) <= Later(q[a], lo)
      /\ Sooner(q[a] + size, hi) <= Sooner(p[a] + size, hi)
  BY <1>1, <1>2, <1>3, <1>4, <1>7 DEF Later, Sooner
<1> QED
  BY <1>5, <1>6, <1>8 DEF q

(* More of a tile collides if less of it does: a ramp is highest at a      *)
(* corner of the part, and the part begins at its bottom.                  *)
LEMMA CollidesMore ==
    ASSUME NEW p \in Points, NEW q \in Points, NEW t \in Points,
           \A a \in Axes : /\ Lowest(p, t, a) <= Lowest(q, t, a)
                             /\ Lowest(q, t, a) < Highest(q, t, a)
                             /\ Highest(q, t, a) <= Highest(p, t, a),
           Collides(q, t)
    PROVE  Collides(p, t)
<1> DEFINE lo(s) == InTile(PartLo(s, t), t)
           hi(s) == InTile(PartHi(s, t), t)
           top(s) == MaxAltitude(Shape(t), lo(s), hi(s))
<1>1. TILE_SIZE \in Nat
  BY DEF SizesAssumption
<1>2. ASSUME NEW s \in {p, q}
      PROVE  /\ lo(s) \in Points /\ hi(s) \in Points
             /\ \A a \in Axes : /\ lo(s)[a] = Lowest(s, t, a) - t[a] * TILE_SIZE
                                  /\ hi(s)[a] = Highest(s, t, a) - t[a] * TILE_SIZE
  <2>1. /\ PartLo(s, t) \in Points /\ PartHi(s, t) \in Points
        /\ \A a \in Axes : PartLo(s, t)[a] = Lowest(s, t, a)
                          /\ PartHi(s, t)[a] = Highest(s, t, a)
    BY PartType
  <2>2. \A a \in Axes : t[a] * TILE_SIZE \in Int
    BY <1>1 DEF Points, Axes
  <2> QED
    BY <2>1, <2>2 DEF InTile, Points, Axes
<1>3. \A s \in {p, q}, a \in Axes : lo(s)[a] \in Int /\ hi(s)[a] \in Int
  BY <1>2 DEF Points, Axes
<1>4. \A a \in Axes : Lowest(p, t, a) \in Int /\ Lowest(q, t, a) \in Int
                     /\ Highest(p, t, a) \in Int /\ Highest(q, t, a) \in Int
                     /\ t[a] * TILE_SIZE \in Int
  <2>1. \A s \in {p, q}, a \in Axes : Lowest(s, t, a) \in Int /\ Highest(s, t, a) \in Int
    BY PartType DEF Points, Axes
  <2> QED
    BY <1>1, <2>1 DEF Points, Axes
<1>5. \A a \in Axes :
        lo(p)[a] <= lo(q)[a] /\ lo(q)[a] < hi(q)[a] /\ hi(q)[a] <= hi(p)[a]
  BY <1>2, <1>4
<1> HIDE DEF lo, hi
<1>6. CASE Shape(t) = "Solid"
  BY <1>6 DEF Collides
<1>7. CASE Shape(t) \in Ramps
  <2>1. lo(q)[3] < top(q)
    BY <1>7 DEF Collides, lo, hi, Ramps
  <2>2. /\ lo(p)[1] <= lo(q)[1] /\ lo(p)[2] <= lo(q)[2] /\ lo(p)[3] <= lo(q)[3]
        /\ lo(q)[1] < hi(q)[1] /\ lo(q)[2] < hi(q)[2]
        /\ hi(q)[1] <= hi(p)[1] /\ hi(q)[2] <= hi(p)[2]
        /\ \A s \in {p, q} : lo(s)[1] \in Int /\ lo(s)[2] \in Int /\ lo(s)[3] \in Int
                          /\ hi(s)[1] \in Int /\ hi(s)[2] \in Int
    BY <1>3, <1>5 DEF Axes
  <2>3. top(q) <= top(p) /\ top(q) \in Int /\ top(p) \in Int
    <3> DEFINE alt(x, y) == Altitude(Shape(t), x, y)
    <3>1. \A x, y \in Int : /\ Shape(t) = "RampE" => alt(x, y) = x
                            /\ Shape(t) = "RampW" => alt(x, y) = TILE_SIZE - x
                            /\ Shape(t) = "RampS" => alt(x, y) = y
                            /\ Shape(t) = "RampN" => alt(x, y) = TILE_SIZE - y
      BY DEF Altitude
    <3>2. Shape(t) \in {"RampE", "RampW", "RampS", "RampN"}
      BY <1>7 DEF Ramps
    <3>3. \A s \in {p, q} :
            top(s) = Later(alt(lo(s)[1], lo(s)[2]), alt(hi(s)[1], hi(s)[2]))
      BY DEF MaxAltitude
    <3> HIDE DEF alt, top
    <3>4. top(p) = Later(alt(lo(p)[1], lo(p)[2]), alt(hi(p)[1], hi(p)[2]))
      BY <3>3
    <3>5. top(q) = Later(alt(lo(q)[1], lo(q)[2]), alt(hi(q)[1], hi(q)[2]))
      BY <3>3
    <3>6. /\ lo(p)[1] \in Int /\ lo(p)[2] \in Int /\ hi(p)[1] \in Int /\ hi(p)[2] \in Int
          /\ lo(q)[1] \in Int /\ lo(q)[2] \in Int /\ hi(q)[1] \in Int /\ hi(q)[2] \in Int
      BY <2>2
    <3>7. CASE Shape(t) = "RampE"
      <4>1. top(p) = Later(lo(p)[1], hi(p)[1]) /\ top(q) = Later(lo(q)[1], hi(q)[1])
        BY <3>1, <3>4, <3>5, <3>6, <3>7
      <4> QED
        BY <2>2, <3>6, <4>1 DEF Later
    <3>8. CASE Shape(t) = "RampW"
      <4>1. /\ top(p) = Later(TILE_SIZE - lo(p)[1], TILE_SIZE - hi(p)[1])
            /\ top(q) = Later(TILE_SIZE - lo(q)[1], TILE_SIZE - hi(q)[1])
        BY <3>1, <3>4, <3>5, <3>6, <3>8
      <4> QED
        BY <1>1, <2>2, <3>6, <4>1 DEF Later
    <3>9. CASE Shape(t) = "RampS"
      <4>1. top(p) = Later(lo(p)[2], hi(p)[2]) /\ top(q) = Later(lo(q)[2], hi(q)[2])
        BY <3>1, <3>4, <3>5, <3>6, <3>9
      <4> QED
        BY <2>2, <3>6, <4>1 DEF Later
    <3>10. CASE Shape(t) = "RampN"
      <4>1. /\ top(p) = Later(TILE_SIZE - lo(p)[2], TILE_SIZE - hi(p)[2])
            /\ top(q) = Later(TILE_SIZE - lo(q)[2], TILE_SIZE - hi(q)[2])
        BY <3>1, <3>4, <3>5, <3>6, <3>10
      <4> QED
        BY <1>1, <2>2, <3>6, <4>1 DEF Later
    <3> QED
      BY <3>2, <3>7, <3>8, <3>9, <3>10
  <2>4. lo(p)[3] < top(p)
    BY <2>1, <2>2, <2>3
  <2> QED
    BY <1>7, <2>4 DEF Collides, lo, hi
<1> QED
  BY <1>6, <1>7 DEF Collides


(* A tile that a player is in, it is in along every axis. *)
LEMMA PartNotEmpty ==
    ASSUME NEW p \in Points, NEW t \in Tiles(p)
    PROVE  t \in Points /\ \A a \in Axes : Lowest(p, t, a) < Highest(p, t, a)
<1>1. t \in Points /\ \A a \in Axes : t[a] \in TilesAlong(p, a)
  BY TilesType
<1>2. ASSUME NEW a \in Axes PROVE Lowest(p, t, a) < Highest(p, t, a)
  <2>1. p[a] \in Int /\ Size[a] \in Nat \ {0, 1} /\ TILE_SIZE \in Nat \ {0}
    BY SizeFacts DEF SizesAssumption, Points, Axes
  <2>2. t[a] \in Int /\ t[a] * TILE_SIZE < p[a] + Size[a] /\ p[a] < (t[a] + 1) * TILE_SIZE
    BY <1>1, TilesFact
  <2>3. t[a] * TILE_SIZE \in Int /\ (t[a] + 1) * TILE_SIZE = t[a] * TILE_SIZE + TILE_SIZE
    BY <2>1, <2>2
  <2> QED
    BY <2>1, <2>2, <2>3 DEF Lowest, Highest, Later, Sooner
<1> QED
  BY <1>1, <1>2

(* A step that is not blocked leads from where nothing collides to where   *)
(* nothing collides: what it could run into at its edges is looked at, and *)
(* the rest of the player was there before.                                *)
LEMMA UnblockedStep ==
    ASSUME NEW p \in Points, NEW dir \in Offsets,
           Obstacles(p) = {}, Blocked(Plus(p, dir), dir) = {}
    PROVE  Obstacles(Plus(p, dir)) = {} /\ ~ TooHigh(Plus(p, dir))
<1> DEFINE q == Plus(p, dir)
           corner == Corner(q, dir)
           S == UNION {Touched(PartLo(q, t), PartHi(q, t), corner) :
                            t \in Obstacles(q)}
<1>1. q \in Points
  BY PlusType
<1>2. ~ TooHigh(q) /\ Blocking(S, dir) = {}
  BY DEF Blocked
<1>3. \A s \in S : s \cap Moving(dir) = {}
  <2> HIDE DEF S
  <2> QED
    BY <1>2, BlockingFacts
<1>4. ASSUME NEW t \in Obstacles(q) PROVE FALSE
  <2>1. t \in Tiles(q) /\ Collides(q, t)
    BY DEF Obstacles, Tiles
  <2>2. /\ t \in Points /\ \A a \in Axes : Lowest(q, t, a) < Highest(q, t, a)
        /\ \A a \in Axes : t[a] \in TilesAlong(q, a)
    BY <1>1, <2>1, PartNotEmpty, TilesType
  <2> DEFINE lo == PartLo(q, t)
             hi == PartHi(q, t)
             edge == EdgeAxes(lo, hi, corner)
  <2>3. /\ lo \in Points /\ hi \in Points
        /\ \A a \in Axes : lo[a] = Lowest(q, t, a) /\ hi[a] = Highest(q, t, a)
    BY <1>1, <2>2, PartType
  <2>4. edge \in Touched(lo, hi, corner)
    <3> HIDE DEF lo, hi, corner
    <3> QED
      BY <2>2, <2>3, EdgeSection DEF edge
  <2>5. edge \cap Moving(dir) = {}
    BY <1>3, <2>4
  <2>6. \A a \in Axes : corner[a] = Foremost(q, dir, a)
    BY DEF Corner, Axes
  <2>7. ASSUME NEW a \in Axes
        PROVE  \/ dir[a] = 0
               \/ ~ /\ Lowest(q, t, a) <= Foremost(q, dir, a)
                    /\ Foremost(q, dir, a) < Highest(q, t, a)
    <3> HIDE DEF lo, hi, corner, q
    <3> QED
      BY <2>3, <2>5, <2>6 DEF edge, EdgeAxes, Moving
  <2>8. ASSUME NEW a \in Axes
        PROVE  /\ t[a] \in TilesAlong(p, a)
               /\ Lowest(p, t, a) <= Lowest(q, t, a)
               /\ Highest(q, t, a) <= Highest(p, t, a)
    BY <2>2, <2>7, AlongAxis
  <2>9. t \in Tiles(p)
    BY <2>2, <2>8, TilesType
  <2>10. Collides(p, t)
    <3> HIDE DEF q
    <3> QED
      BY <1>1, <2>1, <2>2, <2>8, CollidesMore
  <2> QED
    BY <2>9, <2>10 DEF Obstacles, Tiles
<1> QED
  BY <1>2, <1>4

-----------------------------------------------------------------------------
(* An offset that a player at p may take. *)
Open(p, dir) == dir \in Offsets /\ (dir = Zero \/ Blocked(Plus(p, dir), dir) = {})

(* What the checks leave of an offset is one, too. *)
LEMMA ZeroOffset == Zero \in Offsets
  BY DEF Zero, Offsets

LEMMA WithoutType ==
    ASSUME NEW dir \in Offsets, NEW axes
    PROVE  Without(dir, axes) \in Offsets
  BY ZeroOffset DEF Without, Offsets

LEMMA CorrectedOffset ==
    ASSUME NEW p \in Points, NEW dir \in Offsets
    PROVE  Corrected(p, dir) \in Offsets
  BY WithoutType, ZeroOffset DEF Corrected

(* A check that fails changes the offset: one that is left as it is has    *)
(* passed them all.                                                        *)
LEMMA CorrectedOpen ==
    ASSUME NEW p \in Points, NEW dir \in Offsets, Corrected(p, dir) = dir
    PROVE  Open(p, dir)
<1> DEFINE c == Blocked(Plus(p, dir), dir)
<1>1. CASE dir[1] = 0 /\ dir[2] = 0
  BY <1>1 DEF Corrected, Open
<1>2. CASE ~ (dir[1] = 0 /\ dir[2] = 0) /\ c # {}
  <2>1. Without(dir, c) = dir
    BY <1>2 DEF Corrected
  <2>2. 3 \notin c
    BY <1>2, <2>1 DEF Without, Zero
  <2>3. c \subseteq Moving(dir)
    <3>1. \A S : Blocking(S, dir) \subseteq Moving(dir)
      BY BlockingFacts
    <3> QED
      BY <2>2, <3>1 DEF Blocked
  <2> HIDE DEF c
  <2>4. (1 \in c /\ dir[1] # 0) \/ (2 \in c /\ dir[2] # 0)
    <3>1. PICK a \in c : TRUE
      BY <1>2
    <3>2. a \in 1 .. 3 /\ a # 3 /\ dir[a] # 0
      BY <2>2, <2>3, <3>1 DEF Moving, Axes
    <3>3. a = 1 \/ a = 2
      BY <3>2
    <3> QED
      BY <3>1, <3>2, <3>3
  <2>5. Without(dir, c)[1] = (IF 1 \in c THEN 0 ELSE dir[1])
    BY <2>2 DEF Without
  <2>6. Without(dir, c)[2] = (IF 2 \in c THEN 0 ELSE dir[2])
    BY <2>2 DEF Without
  <2> QED
    BY <2>1, <2>4, <2>5, <2>6
<1>3. CASE c = {}
  BY <1>3 DEF Open
<1> QED
  BY <1>1, <1>2, <1>3

(* So the offset that is chosen is open, or there is none. *)
LEMMA PlanarOpen ==
    ASSUME NEW p \in Points, NEW dir \in Offsets
    PROVE  Open(p, Planar(p, dir))
<1> DEFINE dir1 == Corrected(p, dir)
           dir2 == Corrected(p, dir1)
           dir3 == Corrected(p, dir2)
<1>1. dir1 \in Offsets /\ dir2 \in Offsets /\ dir3 \in Offsets
  <2>1. dir1 \in Offsets
    BY CorrectedOffset
  <2> HIDE DEF dir1
  <2>2. dir2 \in Offsets
    BY <2>1, CorrectedOffset
  <2> HIDE DEF dir2
  <2> QED
    BY <2>1, <2>2, CorrectedOffset
<1>2. \/ Planar(p, dir) = Zero
      \/ \E d \in {dir, dir1, dir2, dir3} : Planar(p, dir) = d /\ Corrected(p, d) = d
  BY DEF Planar
<1> HIDE DEF dir1, dir2, dir3
<1>3. \A d \in {dir, dir1, dir2, dir3} : Corrected(p, d) = d => Open(p, d)
  BY <1>1, CorrectedOpen
<1>4. Open(p, Zero)
  BY ZeroOffset DEF Open
<1> QED
  BY <1>2, <1>3, <1>4

LEMMA AdjustOffsetOpen ==
    ASSUME NEW p \in Points, NEW dir \in Directions
    PROVE  Open(p, AdjustOffset(p, dir))
<1>1. dir \in Offsets /\ [dir EXCEPT ![3] = 1] \in Offsets /\ [dir EXCEPT ![3] = -1] \in Offsets
  BY DEF Directions, Offsets
<1>2. Open(p, Zero)
  BY ZeroOffset DEF Open
<1>3. Open(p, Upward(p, dir)) /\ Open(p, Downward(p, dir))
  BY <1>1, <1>2, PlanarOpen DEF Upward, Downward
<1>4. Open(p, Level(p, dir))
  BY <1>1, WithoutType, PlanarOpen DEF Level
<1> QED
  BY <1>3, <1>4 DEF AdjustOffset, OrElse


-----------------------------------------------------------------------------
(* Not inside an obstacle. *)
Free(p) == p \in Points /\ Obstacles(p) = {} /\ ~ TooHigh(p)

(* Nothing collides after a step. *)
LEMMA OneStep ==
    ASSUME NEW p, Free(p), NEW offset, Open(p, offset), offset # Zero
    PROVE  Free(Plus(p, offset))
<1>1. p \in Points /\ offset \in Offsets /\ Blocked(Plus(p, offset), offset) = {}
  BY DEF Free, Open
<1>2. Plus(p, offset) \in Points
  BY <1>1, PlusType
<1> QED
  BY <1>1, <1>2, UnblockedStep DEF Free

(* Where a player is after one more step. *)
LEMMA AfterSteps ==
    ASSUME NEW p \in Points, NEW offset \in Offsets, NEW k \in Nat
    PROVE  /\ After(p, offset, k) \in Points
           /\ After(p, offset, 0) = p
           /\ After(p, offset, k + 1) = Plus(After(p, offset, k), offset)
<1>1. \A a \in Axes : offset[a] \in {-1, 0, 1} /\ p[a] \in Int
  BY DEF Points, Offsets, Axes
<1>2. \A a \in Axes : (k + 1) * offset[a] = k * offset[a] + offset[a]
                     /\ k * offset[a] \in Int /\ 0 * offset[a] = 0
  BY <1>1
<1>3. 1 \in Axes /\ 2 \in Axes /\ 3 \in Axes
  BY DEF Axes
<1>4. p = <<p[1], p[2], p[3]>>
  BY DEF Points
<1>5. After(p, offset, k) \in Points
  BY <1>1, <1>2, <1>3 DEF After, Points
<1>6. After(p, offset, 0) = p
  BY <1>1, <1>2, <1>3, <1>4 DEF After
<1>7. \A a \in Axes : p[a] + (k + 1) * offset[a] = (p[a] + k * offset[a]) + offset[a]
  BY <1>1, <1>2
<1>8. After(p, offset, k + 1) = Plus(After(p, offset, k), offset)
  BY <1>3, <1>7 DEF After, Plus
<1> QED
  BY <1>5, <1>6, <1>8

(* A walk has a length: it ends where another offset comes out, first.     *)
LEMMA StepsExist ==
    ASSUME NEW p, NEW dir, NEW offset
    PROVE  LET n == Steps(p, dir, offset)
           IN /\ n \in 1 .. MaxSteps
              /\ \A k \in 1 .. n - 1 :
                    AdjustOffset(After(p, offset, k), dir) = offset
<1> DEFINE goesOn(k) == AdjustOffset(After(p, offset, k), dir) = offset
           ends == {n \in 1 .. MaxSteps : n = MaxSteps \/ ~ goesOn(n)}
           right(n) == /\ n = MaxSteps \/ ~ goesOn(n)
                       /\ \A k \in 1 .. n - 1 : goesOn(k)
<1>1. MaxSteps \in Nat \ {0}
  BY DEF SizesAssumption
<1>2. PICK n \in ends : \A k \in ends : n <= k
  <2>1. ends \subseteq Nat /\ MaxSteps \in ends
    BY <1>1
  <2> HIDE DEF ends
  <2> QED
    BY <2>1, LeastNat
<1>3. n \in 1 .. MaxSteps /\ right(n)
  <2> HIDE DEF goesOn
  <2>1. n \in 1 .. MaxSteps /\ (n = MaxSteps \/ ~ goesOn(n))
    BY <1>2
  <2>2. ASSUME NEW k \in 1 .. n - 1 PROVE goesOn(k)
    <3>1. k \in 1 .. MaxSteps /\ k < n
      BY <1>1, <2>1
    <3>2. k \notin ends
      BY <1>2, <2>1, <3>1
    <3> QED
      BY <3>1, <3>2
  <2> QED
    BY <2>1, <2>2
<1>4. Steps(p, dir, offset) = CHOOSE m \in 1 .. MaxSteps : right(m)
  BY DEF Steps
<1> HIDE DEF right
<1>5. Steps(p, dir, offset) \in 1 .. MaxSteps /\ right(Steps(p, dir, offset))
  BY <1>3, <1>4
<1> QED
  BY <1>5 DEF right

(* All the way nothing collides: there is no first place where it does.    *)
LEMMA WalkFree ==
    ASSUME NEW p, Free(p), NEW dir \in Directions,
           NEW q \in Walks(p, dir)
    PROVE  Free(q)
<1> DEFINE offset == AdjustOffset(p, dir)
           n == Steps(p, dir, offset)
           at(k) == After(p, offset, k)
           bad == {k \in 0 .. n : ~ Free(at(k))}
<1>1. CASE offset = Zero
  BY <1>1 DEF Walks, Along
<1>2. CASE offset # Zero
  <2>1. p \in Points /\ Open(p, offset) /\ offset \in Offsets
    BY AdjustOffsetOpen DEF Free, Open
  <2>2. n \in Nat /\ \A k \in 1 .. n - 1 : AdjustOffset(at(k), dir) = offset
    <3>1. MaxSteps \in Nat
      BY DEF SizesAssumption
    <3> QED
      BY <3>1, StepsExist
  <2>3. \A k \in Nat : /\ at(k) \in Points /\ at(0) = p
                       /\ at(k + 1) = Plus(at(k), offset)
    BY <2>1, AfterSteps
  <2>4. PICK k \in 0 .. n : q = at(k)
    BY <1>2 DEF Walks, Along
  <2>5. ASSUME NEW j \in 0 .. n - 1 PROVE Open(at(j), offset)
    <3>1. CASE j = 0
      BY <2>1, <2>3, <3>1
    <3>2. CASE j # 0
      <4>1. j \in 1 .. n - 1 /\ j \in Nat
        BY <2>2, <3>2
      <4>2. AdjustOffset(at(j), dir) = offset /\ at(j) \in Points
        BY <2>2, <2>3, <4>1
      <4> QED
        BY <4>2, AdjustOffsetOpen
    <3> QED
      BY <3>1, <3>2
  <2> HIDE DEF offset, n, at
  <2>6. bad = {}
    <3> SUFFICES ASSUME bad # {} PROVE FALSE
      OBVIOUS
    <3>1. bad \subseteq Nat
      BY <2>2
    <3>2. PICK m \in bad : \A k1 \in bad : m <= k1
      <4> HIDE DEF bad
      <4> QED
        BY <3>1, LeastNat
    <3>3. m \in 0 .. n /\ ~ Free(at(m))
      BY <3>2
    <3>4. m # 0
      BY <2>2, <2>3, <3>3
    <3>5. m - 1 \in 0 .. n - 1 /\ m - 1 \in 0 .. n /\ m - 1 \in Nat /\ m = (m - 1) + 1
      BY <2>2, <3>3, <3>4
    <3>6. m - 1 \notin bad
      BY <2>2, <3>2, <3>3, <3>5
    <3>7. Free(at(m - 1)) /\ Open(at(m - 1), offset)
      BY <2>5, <3>5, <3>6
    <3>8. at(m) = Plus(at(m - 1), offset)
      BY <2>3, <3>5
    <3> QED
      BY <1>2, <3>3, <3>7, <3>8, OneStep
  <2> QED
    BY <2>4, <2>6
<1> QED
  BY <1>1, <1>2

-----------------------------------------------------------------------------
(* The player spawns on a floor with nothing above it.                     *)
LEMMA SpawnFree ==
    ASSUME SizesAssumption, WalkInit
    PROVE  Free(pos)
<1>1. PICK z \in 0 .. CHUNK_SIZE - 2 :
        /\ terrain[Spawn][z + 1] = "Floor" /\ terrain[Spawn][z + 2] = "Empty"
        /\ pos = <<Spawn[1] * TILE_SIZE, Spawn[2] * TILE_SIZE, z * TILE_SIZE>>
  BY DEF WalkInit
<1>2. /\ TILE_SIZE \in Nat \ {0, 1} /\ CHUNK_SIZE \in Nat \ {0, 1}
      /\ Spawn[1] \in Int /\ Spawn[2] \in Int /\ z \in Int
      /\ Spawn = <<Spawn[1], Spawn[2]>>
  BY DEF SizesAssumption
<1>3. pos \in Points
  BY <1>1, <1>2 DEF Points
<1>4. ~ TooHigh(pos)
  <2>1. (z + 2) * TILE_SIZE <= CHUNK_SIZE * TILE_SIZE
    BY <1>2
  <2>2. pos[3] + Size[3] = z * TILE_SIZE + 2 * TILE_SIZE
    BY <1>1 DEF Size
  <2>3. /\ z * TILE_SIZE + 2 * TILE_SIZE = (z + 2) * TILE_SIZE
        /\ (z + 2) * TILE_SIZE \in Int /\ CHUNK_SIZE * TILE_SIZE \in Int
    BY <1>2
  <2> QED
    BY <2>1, <2>2, <2>3 DEF TooHigh
<1>5. ASSUME NEW t \in Tiles(pos) PROVE ~ Collides(pos, t)
  <2>1. t \in Points /\ \A a \in Axes : t[a] \in TilesAlong(pos, a)
    BY <1>3, TilesType
  <2>2. \A a \in Axes : /\ t[a] \in Int /\ t[a] * TILE_SIZE < pos[a] + Size[a]
                          /\ pos[a] < (t[a] + 1) * TILE_SIZE
    BY <1>3, <2>1, TilesFact
  <2>3. ASSUME NEW k \in Int, NEW b \in Int, NEW c \in {1, 2},
               k * TILE_SIZE < b * TILE_SIZE + c * TILE_SIZE,
               b * TILE_SIZE < (k + 1) * TILE_SIZE
        PROVE  k \in b .. b + c - 1
    <3>1. k >= b + c => k * TILE_SIZE >= b * TILE_SIZE + c * TILE_SIZE
      BY <1>2
    <3>2. b >= k + 1 => b * TILE_SIZE >= (k + 1) * TILE_SIZE
      BY <1>2
    <3>3. k * TILE_SIZE \in Int /\ b * TILE_SIZE \in Int /\ c * TILE_SIZE \in Int
          /\ (k + 1) * TILE_SIZE \in Int
      BY <1>2
    <3> QED
      BY <2>3, <3>1, <3>2, <3>3
  <2>4. /\ pos[1] = Spawn[1] * TILE_SIZE /\ pos[2] = Spawn[2] * TILE_SIZE
        /\ pos[3] = z * TILE_SIZE
        /\ Size[1] = 1 * TILE_SIZE /\ Size[2] = 1 * TILE_SIZE
        /\ Size[3] = 2 * TILE_SIZE
        /\ 1 \in Axes /\ 2 \in Axes /\ 3 \in Axes
    BY <1>1, <1>2 DEF Size, Axes
  <2>5. t[1] \in Spawn[1] .. Spawn[1] + 1 - 1
    BY <1>2, <2>2, <2>3, <2>4
  <2>6. t[2] \in Spawn[2] .. Spawn[2] + 1 - 1
    BY <1>2, <2>2, <2>3, <2>4
  <2>7. t[3] \in z .. z + 2 - 1
    BY <1>2, <2>2, <2>3, <2>4
  <2>8. t[1] = Spawn[1] /\ t[2] = Spawn[2] /\ (t[3] = z \/ t[3] = z + 1)
    BY <1>2, <2>5, <2>6, <2>7
  <2>9. Shape(t) \in {"Floor", "Empty"}
    BY <1>1, <1>2, <2>8 DEF Shape
  <2> QED
    BY <2>9 DEF Collides, Ramps
<1> QED
  BY <1>3, <1>4, <1>5 DEF Free, Obstacles, Tiles

(* A player is never inside an obstacle, whatever the terrain and however  *)
(* large its tiles.                                                        *)
THEOREM NeverInsideHolds == WalkSpec => []NeverInside
<1>1. WalkInit => Free(pos)
  BY SpawnFree
<1>2. Free(pos) /\ [WalkNext]_walkVars => Free(pos)'
  <2> SUFFICES ASSUME Free(pos), [WalkNext]_walkVars PROVE Free(pos)'
    OBVIOUS
  <2>0. ASSUME terrain' = terrain, Free(pos') PROVE Free(pos)'
    <3>1. \A t : Shape(t)' = Shape(t)
      BY <2>0 DEF Shape
    <3>2. Obstacles(pos)' = {t \in Tiles(pos') : Collides(pos', t)}
      BY <3>1 DEF Obstacles, Collides, Tiles
    <3>3. Obstacles(pos)' = Obstacles(pos')
      BY <3>2 DEF Obstacles, Tiles
    <3> QED
      BY <2>0, <3>3 DEF Free, TooHigh
  <2>1. CASE WalkNext
    <3>1. PICK dir \in Directions : pos' \in Walks(pos, dir)
      BY <2>1 DEF WalkNext, Walk
    <3>2. Free(pos')
      BY <3>1, WalkFree
    <3> QED
      BY <2>0, <2>1, <3>2 DEF WalkNext, Walk
  <2>2. CASE UNCHANGED walkVars
    BY <2>0, <2>2 DEF walkVars
  <2> QED
    BY <2>1, <2>2
<1>3. Free(pos) => NeverInside
  BY DEF Free, NeverInside
<1> QED
  BY <1>1, <1>2, <1>3, PTL DEF WalkSpec
=============================================================================
