--------------------------- MODULE Chunks_proofs -----------------------------
(***************************************************************************)
(* Theorems about Chunks, for any planes, any finite plane and any notion  *)
(* of which chunks are near.                                               *)
(***************************************************************************)
EXTENDS Chunks, FiniteSetTheorems, TLAPS

USE ChunksAssumption

Counted == TypeOK /\ CountsAgree

(* The sets that the counts count are finite. *)
LEMMA Finite ==
    \A p \in Planes : /\ IsFiniteSet(Used(p)) /\ Cardinality(Used(p)) \in Nat
                      /\ \A k \in CPos : /\ IsFiniteSet(Retainers(p, k))
                                         /\ Cardinality(Retainers(p, k)) \in Nat
<1>1. ASSUME NEW S, S \subseteq CPos PROVE IsFiniteSet(S) /\ Cardinality(S) \in Nat
  BY <1>1, FS_Subset, FS_CardinalityType
<1>2. \A p : Used(p) \subseteq CPos /\ \A k : Retainers(p, k) \subseteq CPos
  BY DEF Used, Retainers
<1> QED
  BY <1>1, <1>2

(* The first user of a chunk adds it to what retains the chunks near it. *)
LEMMA FirstUserCounted ==
    ASSUME Counted, NEW p \in Planes, NEW c \in CPos, FirstUser(p, c)
    PROVE  TypeOK' /\ CountsAgree'
<1> USE DEF Counted, TypeOK
<1>1. /\ user_ref_count[<<p, c>>] = 0
      /\ user_ref_count' = [user_ref_count EXCEPT ![<<p, c>>] = 1]
      /\ ref_count' = Retained(p, c)
      /\ plane_ref_count' = [plane_ref_count EXCEPT ![p] = @ + 1]
      /\ UNCHANGED <<planes, crashed>>
  BY DEF FirstUser
<1>2. TypeOK'
  <2>1. ref_count' \in [Planes \X CPos -> Nat]
    BY <1>1 DEF Retained
  <2>2. chunks' \subseteq Planes \X CPos /\ failed' \subseteq {"load", "save"}
    <3>1. \A x \in In(p, Near[c]) : x \in Planes \X CPos
      BY DEF In
    <3> QED
      BY <3>1 DEF FirstUser
  <2>3. user_ref_count' \in [Planes \X CPos -> Nat] /\ plane_ref_count' \in [Planes -> Nat]
    BY <1>1
  <2>4. planes' \subseteq Planes /\ crashed' \in BOOLEAN
    BY <1>1
  <2> QED
    BY <2>1, <2>2, <2>3, <2>4
<1>3. /\ c \notin Used(p) /\ Used(p)' = Used(p) \cup {c}
      /\ \A q \in Planes \ {p} : Used(q)' = Used(q)
  BY <1>1 DEF Used
<1>4. \A k \in CPos : /\ c \notin Retainers(p, k)
                      /\ k \in Near[c] => Retainers(p, k)' = Retainers(p, k) \cup {c}
                      /\ k \notin Near[c] => Retainers(p, k)' = Retainers(p, k)
                      /\ \A q \in Planes \ {p} : Retainers(q, k)' = Retainers(q, k)
  BY <1>3 DEF Retainers
<1>5. ASSUME NEW q \in Planes PROVE plane_ref_count'[q] = Cardinality(Used(q)')
  <2>1. CASE q = p
    <3>1. Cardinality(Used(p) \cup {c}) = Cardinality(Used(p)) + 1
      BY <1>3, Finite, FS_AddElement
    <3> QED
      BY <2>1, <3>1, <1>1, <1>3 DEF CountsAgree
  <2>2. CASE q # p
    BY <2>2, <1>1, <1>3 DEF CountsAgree
  <2> QED
    BY <2>1, <2>2
<1>6. ASSUME NEW q \in Planes, NEW k \in CPos
      PROVE  ref_count'[<<q, k>>] = Cardinality(Retainers(q, k)')
  <2>1. ref_count'[<<q, k>>] = IF q = p /\ k \in Near[c] THEN ref_count[<<q, k>>] + 1
                                                         ELSE ref_count[<<q, k>>]
    BY <1>1 DEF Retained, In
  <2>2. ref_count[<<q, k>>] = Cardinality(Retainers(q, k))
    BY DEF CountsAgree
  <2>3. CASE q = p /\ k \in Near[c]
    <3>1. Cardinality(Retainers(p, k) \cup {c}) = Cardinality(Retainers(p, k)) + 1
      BY <1>4, Finite, FS_AddElement
    <3> QED
      BY <2>1, <2>2, <2>3, <3>1, <1>4
  <2>4. CASE ~(q = p /\ k \in Near[c])
    BY <2>1, <2>2, <2>4, <1>4
  <2> QED
    BY <2>3, <2>4
<1> QED
  BY <1>2, <1>5, <1>6 DEF CountsAgree

(* The last user of a chunk takes it away again; no count was 0.  *)
LEMMA LastUserCounted ==
    ASSUME Counted, NEW p \in Planes, NEW c \in CPos, LastUser(p, c)
    PROVE  TypeOK' /\ CountsAgree'
<1> USE DEF Counted, TypeOK
<1>1. /\ user_ref_count[<<p, c>>] = 1
      /\ user_ref_count' = [user_ref_count EXCEPT ![<<p, c>>] = 0]
      /\ ref_count' = Released(p, c)
      /\ plane_ref_count' = [plane_ref_count EXCEPT ![p] = @ - 1]
      /\ UNCHANGED crashed
  BY DEF LastUser
<1>2. /\ c \in Used(p) /\ Used(p)' = Used(p) \ {c}
      /\ \A q \in Planes \ {p} : Used(q)' = Used(q)
  BY <1>1 DEF Used
<1>3. \A k \in CPos : /\ k \in Near[c] => /\ c \in Retainers(p, k)
                                          /\ Retainers(p, k)' = Retainers(p, k) \ {c}
                      /\ k \notin Near[c] => Retainers(p, k)' = Retainers(p, k)
                      /\ \A q \in Planes \ {p} : Retainers(q, k)' = Retainers(q, k)
  BY <1>2 DEF Retainers
<1>4. ASSUME NEW q \in Planes
      PROVE  plane_ref_count'[q] = Cardinality(Used(q)') /\ plane_ref_count'[q] \in Nat
  <2>1. IsFiniteSet(Used(q)) /\ Cardinality(Used(q)) = plane_ref_count[q]
    BY Finite DEF CountsAgree
  <2>2. CASE q = p
    <3>1. /\ Cardinality(Used(p) \ {c}) = Cardinality(Used(p)) - 1
          /\ Cardinality(Used(p) \ {c}) \in Nat
      BY <1>2, Finite, FS_RemoveElement, FS_CardinalityType
    <3> QED
      BY <2>1, <2>2, <3>1, <1>1, <1>2
  <2>3. CASE q # p
    BY <2>1, <2>3, <1>1, <1>2
  <2> QED
    BY <2>2, <2>3
<1>5. ASSUME NEW q \in Planes, NEW k \in CPos
      PROVE  /\ ref_count'[<<q, k>>] = Cardinality(Retainers(q, k)')
             /\ ref_count'[<<q, k>>] \in Nat
  <2>1. ref_count'[<<q, k>>] = IF q = p /\ k \in Near[c] THEN ref_count[<<q, k>>] - 1
                                                         ELSE ref_count[<<q, k>>]
    BY <1>1 DEF Released, In
  <2>2. IsFiniteSet(Retainers(q, k)) /\ ref_count[<<q, k>>] = Cardinality(Retainers(q, k))
    BY Finite DEF CountsAgree
  <2>3. CASE q = p /\ k \in Near[c]
    <3>1. /\ Cardinality(Retainers(p, k) \ {c}) = Cardinality(Retainers(p, k)) - 1
          /\ Cardinality(Retainers(p, k) \ {c}) \in Nat
      BY <2>3, <1>3, Finite, FS_RemoveElement, FS_CardinalityType
    <3> QED
      BY <2>1, <2>2, <2>3, <3>1, <1>3
  <2>4. CASE ~(q = p /\ k \in Near[c])
    BY <2>1, <2>2, <2>4, <1>3
  <2> QED
    BY <2>3, <2>4
<1>6. TypeOK'
  <2>1. ref_count' \in [Planes \X CPos -> Nat]
    <3>1. ref_count' = [x \in Planes \X CPos |-> ref_count'[x]]
      BY <1>1 DEF Released
    <3>2. \A x \in Planes \X CPos : ref_count'[x] \in Nat
      BY <1>5
    <3> QED
      BY <3>1, <3>2
  <2>2. plane_ref_count' \in [Planes -> Nat]
    <3>1. plane_ref_count' = [q \in Planes |-> plane_ref_count'[q]]
      BY <1>1
    <3> QED
      BY <3>1, <1>4
  <2>3. planes' \subseteq Planes /\ chunks' \subseteq Planes \X CPos
        /\ failed' \subseteq {"load", "save"}
    BY DEF LastUser
  <2> QED
    BY <1>1, <2>1, <2>2, <2>3
<1> QED
  BY <1>4, <1>5, <1>6 DEF CountsAgree

(* The other steps leave the internal counts alone. *)
LEMMA OtherStepsCounted ==
    ASSUME Counted, NEW p \in Planes, NEW c \in CPos,
           AddUser(p, c) \/ DropUser(p, c) \/ LastUserOfLost(p, c)
    PROVE  TypeOK' /\ CountsAgree'
<1> USE DEF Counted, TypeOK
<1>1. \A q \in Planes : Used(q)' = Used(q) /\ \A k : Retainers(q, k)' = Retainers(q, k)
  <2>1. \A x \in Planes \X CPos : user_ref_count'[x] > 0 <=> user_ref_count[x] > 0
    <3>1. CASE LastUserOfLost(p, c)
      BY <3>1 DEF LastUserOfLost, counts
    <3>2. CASE AddUser(p, c) \/ DropUser(p, c)
      BY <3>2 DEF AddUser, DropUser
    <3> QED
      BY <3>1, <3>2
  <2>2. \A q \in Planes, d \in CPos : <<q, d>> \in Planes \X CPos
    OBVIOUS
  <2> QED
    BY <2>1, <2>2 DEF Used, Retainers
<1>2. UNCHANGED <<ref_count, plane_ref_count>>
  BY DEF AddUser, DropUser, LastUserOfLost, counts
<1>3. TypeOK'
  <2>1. user_ref_count' \in [Planes \X CPos -> Nat]
    <3>1. CASE LastUserOfLost(p, c)
      BY <3>1 DEF LastUserOfLost, counts
    <3>2. CASE AddUser(p, c)
      BY <3>2 DEF AddUser
    <3>3. CASE DropUser(p, c)
      BY <3>3 DEF DropUser
    <3> QED
      BY <3>1, <3>2, <3>3
  <2>2. UNCHANGED <<planes, chunks, failed>> /\ crashed' \in BOOLEAN
    BY DEF AddUser, DropUser, LastUserOfLost
  <2> QED
    BY <1>2, <2>1, <2>2
<1> QED
  BY <1>1, <1>2, <1>3 DEF CountsAgree

(* CountsAgree reads nothing but the counts. *)
LEMMA SameCountsCounted ==
    ASSUME Counted, UNCHANGED counts
    PROVE  CountsAgree'
<1>1. \A q : Used(q)' = Used(q)
  BY DEF Used, counts
<1>2. \A q, k : Retainers(q, k)' = Retainers(q, k)
  BY <1>1 DEF Retainers
<1> QED
  BY <1>1, <1>2 DEF Counted, CountsAgree, counts

(* Counted is inductive. *)
LEMMA CountedStep == Counted /\ [Next]_vars => Counted'
<1> SUFFICES ASSUME Counted, [Next]_vars PROVE Counted'
  OBVIOUS
<1>1. ASSUME NEW p \in Planes, OpenPlane(p) PROVE Counted'
  <2>1. TypeOK'
    BY <1>1 DEF OpenPlane, Counted, TypeOK, counts
  <2> QED
    BY <1>1, <2>1, SameCountsCounted DEF Counted, OpenPlane
<1>2. ASSUME NEW p \in Planes, NEW c \in CPos, Load(p, c) PROVE Counted'
  BY <1>2, FirstUserCounted, OtherStepsCounted DEF Load, Counted
<1>3. ASSUME NEW p \in Planes, NEW c \in CPos, Unload(p, c) PROVE Counted'
  BY <1>3, LastUserCounted, OtherStepsCounted DEF Unload, Counted
<1>4. CASE UNCHANGED vars
  <2>1. TypeOK'
    BY <1>4 DEF vars, Counted, TypeOK, counts
  <2> QED
    BY <1>4, <2>1, SameCountsCounted DEF Counted, vars
<1> QED
  BY <1>1, <1>2, <1>3, <1>4 DEF Next

-----------------------------------------------------------------------------

(* Initially nothing is counted. *)
LEMMA InitCounted == Init => Counted
<1> SUFFICES ASSUME Init PROVE Counted
  OBVIOUS
<1>1. \A q \in Planes : Used(q) = {} /\ \A k : Retainers(q, k) = {}
  BY DEF Init, Used, Retainers
<1> QED
  BY <1>1, FS_EmptySet DEF Init, Counted, TypeOK, CountsAgree

(* The inductive invariant holds throughout. *)
THEOREM CountedHolds == Spec => []Counted
  BY InitCounted, CountedStep, PTL DEF Spec

(* Every variable keeps its type.  In particular no count falls below      *)
(* zero, which is where release and release_inner panic.                   *)
THEOREM TypeCorrect == Spec => []TypeOK
  BY CountedHolds, PTL DEF Counted

(* The reference counts agree with the users, whatever order the views     *)
(* come and go in (Lifecycle::retain, Lifecycle::release).                 *)
THEOREM CountsAgreeHolds == Spec => []CountsAgree
  BY CountedHolds, PTL DEF Counted

-----------------------------------------------------------------------------

(* The chunks and planes loaded against the counts. *)
Settled == Counted /\ RetainedIsLoaded /\ NoLeak /\ PlaneGoneClean

(* A plane with no chunk in use has no count left. *)
LEMMA LastUserOfPlane ==
    ASSUME Counted, NEW p \in Planes, NEW c \in CPos, LastUser(p, c), LastOfPlane(p)
    PROVE  \A k \in CPos : /\ user_ref_count'[<<p, k>>] = 0
                            /\ ref_count'[<<p, k>>] = 0
<1>1. TypeOK' /\ CountsAgree'
  BY LastUserCounted
<1>2. plane_ref_count'[p] = 0
  BY DEF LastUser, LastOfPlane, Counted, TypeOK
<1>3. IsFiniteSet(Used(p)') /\ Cardinality(Used(p)') = 0
  <2>1. Used(p)' \subseteq CPos
    BY DEF Used
  <2> QED
    BY <1>1, <1>2, <2>1, FS_Subset DEF CountsAgree
<1>4. Used(p)' = {}
  BY <1>3, FS_EmptySet
<1>5. \A k \in CPos : Retainers(p, k)' = {}
  BY <1>4 DEF Retainers
<1>6. \A k \in CPos : ref_count'[<<p, k>>] = 0
  <2>1. \A k \in CPos : Cardinality(Retainers(p, k)') = 0
    BY <1>5, FS_EmptySet
  <2> QED
    BY <1>1, <2>1 DEF CountsAgree
<1>7. \A k \in CPos : user_ref_count'[<<p, k>>] = 0
  BY <1>1, <1>4 DEF Used, TypeOK
<1> QED
  BY <1>6, <1>7

(* Loading the chunks that were not retained before. *)
LEMMA FirstUserSettled ==
    ASSUME Settled, NEW p \in planes, NEW c \in CPos, FirstUser(p, c), ~crashed
    PROVE  RetainedIsLoaded' /\ NoLeak' /\ PlaneGoneClean'
<1> USE DEF Settled, Counted
<1> DEFINE missing == {x \in In(p, Near[c]) : ref_count[x] = 0}
<1>1. p \in Planes /\ In(p, Near[c]) \subseteq Planes \X CPos
  BY DEF TypeOK, In
<1>2. PICK loaded \in SUBSET missing, lost \in SUBSET (missing \cup {Home}) :
        /\ loaded = missing => lost = {}
        /\ chunks' = (chunks \cup loaded) \ lost
        /\ failed' = IF loaded = missing THEN failed ELSE failed \cup {"load"}
  BY DEF FirstUser
<1>3. \A x \in Planes \X CPos :
        ref_count'[x] = IF x \in In(p, Near[c]) THEN ref_count[x] + 1 ELSE ref_count[x]
  BY DEF FirstUser, Retained
<1>4. RetainedIsLoaded'
  <2> SUFFICES ASSUME "load" \notin failed', NEW x \in Planes \X CPos, ref_count'[x] > 0
               PROVE  ~crashed' /\ x \in chunks'
    BY <1>1, FirstUserCounted DEF RetainedIsLoaded, FirstUser
  <2>1. loaded = missing /\ failed' = failed
    BY <1>2
  <2>2. x \in missing \/ ref_count[x] > 0
    BY <1>3 DEF TypeOK
  <2>3. x \in missing \/ x \in chunks
    BY <2>1, <2>2 DEF RetainedIsLoaded
  <2> QED
    BY <1>2, <2>1, <2>3 DEF FirstUser
<1>5. NoLeak'
  <2> SUFFICES ASSUME "save" \notin failed', NEW x \in chunks' PROVE ref_count'[x] > 0
    BY DEF NoLeak
  <2>1. x \in missing \/ x \in chunks
    BY <1>2
  <2>2. x \in Planes \X CPos /\ ref_count[x] \in Nat
    BY <2>1, <1>1 DEF TypeOK
  <2>3. x \in missing \/ ref_count[x] > 0
    BY <2>1, <1>2 DEF NoLeak
  <2> QED
    BY <2>2, <2>3, <1>3
<1>6. PlaneGoneClean'
  <2> SUFFICES ASSUME NEW q \in Planes, q \notin planes, NEW k \in CPos
               PROVE  /\ plane_ref_count'[q] = 0 /\ user_ref_count'[<<q, k>>] = 0
                      /\ ref_count'[<<q, k>>] = 0 /\ <<q, k>> \notin chunks'
    BY DEF PlaneGoneClean, FirstUser
  <2>1. q # p /\ <<q, k>> \notin In(p, Near[c]) /\ <<q, k>> # <<p, c>>
    BY DEF In
  <2>2. plane_ref_count'[q] = 0 /\ user_ref_count'[<<q, k>>] = 0
    BY <2>1, <1>1 DEF PlaneGoneClean, FirstUser, TypeOK
  <2> QED
    BY <2>1, <2>2, <1>2, <1>3 DEF PlaneGoneClean
<1> QED
  BY <1>4, <1>5, <1>6

(* Unloading the chunks that nobody retains any more. *)
LEMMA LastUserSettled ==
    ASSUME Settled, NEW p \in planes, NEW c \in CPos, LastUser(p, c), ~crashed
    PROVE  RetainedIsLoaded' /\ NoLeak' /\ PlaneGoneClean'
<1> USE DEF Settled, Counted
<1>1. p \in Planes /\ In(p, Near[c]) \subseteq Planes \X CPos
  BY DEF TypeOK, In
<1>2. PICK kept \in SUBSET Unneeded(p, c), planeKept \in BOOLEAN :
        /\ planeKept \/ LastOfPlane(p)
        /\ planes' = IF planeKept THEN planes ELSE planes \ {p}
        /\ chunks' = IF planeKept THEN chunks \ (Unneeded(p, c) \ kept)
                                  ELSE chunks \ In(p, CPos)
        /\ failed' = IF kept = {} /\ (planeKept <=> ~LastOfPlane(p))
                     THEN failed ELSE failed \cup {"save"}
  BY DEF LastUser
<1>3. \A x \in Planes \X CPos :
        ref_count'[x] = IF x \in In(p, Near[c]) THEN ref_count[x] - 1 ELSE ref_count[x]
  BY DEF LastUser, Released
<1>4. \A x \in Planes \X CPos : ref_count[x] \in Nat
  BY DEF TypeOK
<1>5. ~planeKept => \A k \in CPos : /\ user_ref_count'[<<p, k>>] = 0
                                     /\ ref_count'[<<p, k>>] = 0
  BY <1>1, <1>2, LastUserOfPlane
<1>6. RetainedIsLoaded'
  <2> SUFFICES ASSUME "load" \notin failed
               PROVE  \A x \in Planes \X CPos : ref_count'[x] > 0 => x \in chunks'
    BY <1>2 DEF RetainedIsLoaded, LastUser
  <2> SUFFICES ASSUME NEW x \in Planes \X CPos, ref_count'[x] > 0 PROVE x \in chunks'
    OBVIOUS
  <2>1. x \notin Unneeded(p, c) /\ ref_count[x] > 0
    BY <1>3, <1>4 DEF Unneeded
  <2>2. x \in chunks
    BY <2>1 DEF RetainedIsLoaded
  <2>3. ~planeKept => x \notin In(p, CPos)
    BY <1>5 DEF In
  <2> QED
    BY <1>2, <2>1, <2>2, <2>3
<1>7. NoLeak'
  <2> SUFFICES ASSUME "save" \notin failed', NEW x \in chunks' PROVE ref_count'[x] > 0
    BY DEF NoLeak
  <2>1. /\ "save" \notin failed /\ x \in chunks
        /\ planeKept => x \notin Unneeded(p, c)
        /\ ~planeKept => x \notin In(p, CPos)
    BY <1>2
  <2>2. x \in Planes \X CPos /\ ref_count[x] > 0
    BY <2>1 DEF NoLeak, TypeOK
  <2>3. x \in In(p, Near[c]) => planeKept /\ ref_count[x] # 1
    BY <2>1, <2>2 DEF In, Unneeded
  <2> QED
    BY <2>2, <2>3, <1>3, <1>4
<1>8. PlaneGoneClean'
  <2> SUFFICES ASSUME NEW q \in Planes, q \notin planes', NEW k \in CPos
               PROVE  /\ plane_ref_count'[q] = 0 /\ user_ref_count'[<<q, k>>] = 0
                      /\ ref_count'[<<q, k>>] = 0 /\ <<q, k>> \notin chunks'
    BY DEF PlaneGoneClean
  <2>1. CASE q = p
    <3>1. ~planeKept
      BY <2>1, <1>2
    <3>2. plane_ref_count'[p] = 0
      BY <3>1, <1>1, <1>2 DEF LastUser, LastOfPlane, TypeOK
    <3>3. <<p, k>> \notin chunks'
      BY <3>1, <1>2 DEF In
    <3> QED
      BY <2>1, <3>1, <3>2, <3>3, <1>5
  <2>2. CASE q # p
    <3>1. q \notin planes /\ <<q, k>> \notin In(p, Near[c]) /\ <<q, k>> # <<p, c>>
      BY <2>2, <1>2 DEF In
    <3>2. plane_ref_count'[q] = 0 /\ user_ref_count'[<<q, k>>] = 0
      BY <3>1, <2>2, <1>1 DEF PlaneGoneClean, LastUser, TypeOK
    <3> QED
      BY <3>1, <3>2, <1>2, <1>3 DEF PlaneGoneClean
  <2> QED
    BY <2>1, <2>2
<1> QED
  BY <1>6, <1>7, <1>8

(* Settled is inductive. *)
LEMMA SettledStep == Settled /\ [Next]_vars => Settled'
<1> SUFFICES ASSUME Settled, [Next]_vars PROVE RetainedIsLoaded' /\ NoLeak' /\ PlaneGoneClean'
  BY CountedStep DEF Settled
<1> USE DEF Settled
<1>1. ASSUME NEW p \in Planes, OpenPlane(p)
      PROVE RetainedIsLoaded' /\ NoLeak' /\ PlaneGoneClean'
  BY <1>1 DEF OpenPlane, counts, RetainedIsLoaded, NoLeak, PlaneGoneClean
<1>2. ASSUME NEW p \in Planes, NEW c \in CPos, Load(p, c)
      PROVE RetainedIsLoaded' /\ NoLeak' /\ PlaneGoneClean'
  <2>1. CASE FirstUser(p, c)
    BY <1>2, <2>1, FirstUserSettled DEF Load
  <2>2. CASE AddUser(p, c)
    <3>1. \A q \in Planes \ planes, k \in CPos : user_ref_count'[<<q, k>>] = user_ref_count[<<q, k>>]
      BY <1>2, <2>2 DEF Load, AddUser, Counted, TypeOK
    <3> QED
      BY <2>2, <3>1 DEF AddUser, RetainedIsLoaded, NoLeak, PlaneGoneClean
  <2> QED
    BY <1>2, <2>1, <2>2 DEF Load
<1>3. ASSUME NEW p \in Planes, NEW c \in CPos, Unload(p, c)
      PROVE RetainedIsLoaded' /\ NoLeak' /\ PlaneGoneClean'
  <2>0. p \in planes
    BY <1>3 DEF Unload, DropUser, LastUser, LastUserOfLost, PlaneGoneClean
  <2>1. CASE LastUser(p, c)
    BY <1>3, <2>0, <2>1, LastUserSettled DEF Unload
  <2>2. CASE DropUser(p, c)
    <3>1. \A q \in Planes \ planes, k \in CPos : user_ref_count'[<<q, k>>] = user_ref_count[<<q, k>>]
      BY <2>0, <2>2 DEF DropUser, Counted, TypeOK
    <3> QED
      BY <2>2, <3>1 DEF DropUser, RetainedIsLoaded, NoLeak, PlaneGoneClean
  <2>3. CASE LastUserOfLost(p, c)
    <3>1. PICK x \in Unneeded(p, c) : x \notin chunks
      BY <2>3 DEF LastUserOfLost
    <3>2. x \in Planes \X CPos /\ ref_count[x] > 0
      BY <3>1 DEF Unneeded, In
    <3>3. "load" \in failed
      BY <3>1, <3>2 DEF RetainedIsLoaded
    <3> QED
      BY <2>3, <3>3 DEF LastUserOfLost, counts, RetainedIsLoaded, NoLeak, PlaneGoneClean
  <2> QED
    BY <1>3, <2>1, <2>2, <2>3 DEF Unload
<1>4. CASE UNCHANGED vars
  BY <1>4 DEF vars, counts, RetainedIsLoaded, NoLeak, PlaneGoneClean
<1> QED
  BY <1>1, <1>2, <1>3, <1>4 DEF Next

(* Settled holds throughout. *)
LEMMA SettledHolds == Spec => []Settled
<1>1. Init => Settled
  BY InitCounted DEF Init, Settled, RetainedIsLoaded, NoLeak, PlaneGoneClean
<1> QED
  BY <1>1, SettledStep, PTL DEF Spec

(* As long as no load has failed, every retained chunk is in the world and *)
(* the server has not panicked, even if saves have failed (retain_inner,   *)
(* release_inner, save_terrain_chunk).                                     *)
THEOREM RetainedIsLoadedHolds == Spec => []RetainedIsLoaded
  BY SettledHolds, PTL DEF Settled

(* As long as no save has failed, only retained chunks are in the world.   *)
THEOREM NoLeakHolds == Spec => []NoLeak
  BY SettledHolds, PTL DEF Settled

(* A plane is unloaded only when nothing of it is in use or loaded.        *)
THEOREM PlaneGoneCleanHolds == Spec => []PlaneGoneClean
  BY SettledHolds, PTL DEF Settled
=============================================================================
