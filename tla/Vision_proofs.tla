---------------------------- MODULE Vision_proofs ----------------------------
(***************************************************************************)
(* Theorems about Vision, for any clients and objects, any number of       *)
(* planes, any finite set of positions and any shapes of views and areas.  *)
(***************************************************************************)
EXTENDS Vision, FiniteSetTheorems, TLAPS

USE VisionAssumption

(* The positions of x outside limbo: those the tables list. *)
Lit(x) == {k \in Cells(x) : k[1] # PLANE_LIMBO}

Agree == TablesAgree /\ ScreenAgrees

-----------------------------------------------------------------------------

(* A view or an area has finitely many positions. *)
LEMMA PlacesAreFinite ==
    ASSUME NEW R, R \subseteq SUBSET Pos, NEW x \in Places(R)
    PROVE  /\ x.plane \in Planes /\ x.area \subseteq Pos
           /\ Cells(x) \subseteq Planes \X Pos /\ IsFiniteSet(Cells(x))
           /\ Lit(x) \subseteq Cells(x) /\ IsFiniteSet(Lit(x))
<1>1. x.plane \in Planes /\ x.area \subseteq Pos
  BY DEF Places, At, Nowhere
<1>2. Cells(x) \subseteq Planes \X Pos
  BY <1>1 DEF Cells
<1>3. IsFiniteSet(Cells(x))
  BY <1>1, FS_Subset, FS_Singleton, FS_Product DEF Cells
<1>4. Lit(x) \subseteq Cells(x)
  BY DEF Lit
<1> QED
  BY <1>1, <1>2, <1>3, <1>4, FS_Subset

(* Being nowhere is a place without positions, and the only such place.    *)
LEMMA PlacesAt ==
    /\ Nowhere \in Places(Views) /\ Nowhere \in Places(Areas)
    /\ \A p \in Planes, v \in Views : At(p, v) \in Places(Views) /\ At(p, v) # Nowhere
    /\ \A p \in Planes, a \in Areas : At(p, a) \in Places(Areas) /\ At(p, a) # Nowhere
    /\ Cells(Nowhere) = {} /\ Lit(Nowhere) = {}
<1>1. \A R : /\ Nowhere \in Places(R)
             /\ \A p \in Planes, r \in R : At(p, r) \in Places(R)
  BY DEF Places
<1>2. \A p, r : r # {} => At(p, r) # Nowhere
  BY DEF At, Nowhere
<1>3. Nowhere.area = {}
  BY DEF Nowhere
<1>4. Cells(Nowhere) = {} /\ Lit(Nowhere) = {}
  BY <1>3 DEF Cells, Lit
<1> QED
  BY <1>1, <1>2, <1>4

(* What a view and an object share are the positions both are lit at.      *)
LEMMA LitMeet ==
    \A x, y : (IF x.plane = PLANE_LIMBO THEN {} ELSE Cells(x) \cap Cells(y))
                = Lit(x) \cap Lit(y)
  BY DEF Lit, Cells

LEMMA SharedIsLit ==
    \A c \in Clients, o \in Objects : Shared(c, o) = Lit(view[c]) \cap Lit(object[o])
  BY LitMeet DEF Shared

(* The size of two disjoint finite sets together.                          *)
LEMMA DisjointSum ==
    ASSUME NEW S, NEW T, IsFiniteSet(S), IsFiniteSet(T), S \cap T = {}
    PROVE  Cardinality(S \cup T) = Cardinality(S) + Cardinality(T)
<1>1. /\ Cardinality(S \cup T) = Cardinality(S) + Cardinality(T) - Cardinality({})
      /\ Cardinality({}) = 0 /\ Cardinality(S) \in Nat /\ Cardinality(T) \in Nat
  BY FS_Union, FS_EmptySet, FS_CardinalityType
<1> QED
  BY <1>1

(* The arithmetic of a move from the positions A to the positions N, as    *)
(* seen from a set B: what is shared, left and entered.                    *)
MoveLaw(A, N, B) ==
    LET shared  == Cardinality(A \cap B)
        left    == Cardinality((A \ N) \cap B)
        entered == Cardinality((N \ A) \cap B)
    IN /\ Cardinality(N \cap B) = shared - left + entered
       /\ left > 0 <=> (A \ N) \cap B # {}
       /\ entered > 0 <=> (N \ A) \cap B # {}
       /\ shared = left <=> A \cap N \cap B = {}
       /\ shared = 0 <=> A \cap B = {}
       /\ shared + entered = left <=> N \cap B = {}

LEMMA MoveBalance ==
    ASSUME NEW A, NEW N, NEW B, IsFiniteSet(A), IsFiniteSet(N), IsFiniteSet(B)
    PROVE  MoveLaw(A, N, B)
<1> DEFINE shared == Cardinality(A \cap B)
           left == Cardinality((A \ N) \cap B)
           entered == Cardinality((N \ A) \cap B)
<1> DEFINE K == A \cap N \cap B
           L == (A \ N) \cap B
           E == (N \ A) \cap B
           kept == Cardinality(K)
<1>1. IsFiniteSet(K) /\ IsFiniteSet(L) /\ IsFiniteSet(E)
  BY FS_Intersection
<1>2. kept \in Nat /\ left \in Nat /\ entered \in Nat
  BY <1>1, FS_CardinalityType
<1>3. /\ kept = 0 <=> K = {}
      /\ left = 0 <=> L = {}
      /\ entered = 0 <=> E = {}
  BY <1>1, FS_EmptySet
<1>4. Cardinality(K \cup L) = kept + left /\ Cardinality(K \cup E) = kept + entered
  <2>1. K \cap L = {} /\ K \cap E = {}
    OBVIOUS
  <2> QED
    BY <1>1, <2>1, DisjointSum
<1>5. K \cup L = A \cap B /\ K \cup E = N \cap B
  OBVIOUS
<1>6. shared = kept + left /\ Cardinality(N \cap B) = kept + entered
  BY <1>4, <1>5
<1>7. /\ A \cap B = {} <=> kept = 0 /\ left = 0
      /\ N \cap B = {} <=> kept = 0 /\ entered = 0
  BY <1>3, <1>5
<1> HIDE DEF kept, shared, left, entered
<1>8. /\ shared \in Nat /\ left <= shared
      /\ Cardinality(N \cap B) = shared - left + entered
  BY <1>2, <1>6
<1>9. shared = left <=> K = {}
  BY <1>2, <1>3, <1>6
<1>10. shared = 0 <=> A \cap B = {}
  BY <1>2, <1>7, <1>6
<1>11. shared + entered = left <=> N \cap B = {}
  BY <1>2, <1>7, <1>6
<1>12. /\ left > 0 <=> L # {}
       /\ entered > 0 <=> E # {}
  BY <1>2, <1>3
<1> QED
  BY <1>8, <1>9, <1>10, <1>11, <1>12 DEF shared, left, entered, MoveLaw

-----------------------------------------------------------------------------

(* What the tables say of the positions that a move from x to y leaves.    *)
LEMMA ObjectsMet ==
    ASSUME IndexesAgree, NEW o \in Objects,
           NEW x \in Places(Views), NEW y \in Places(Views)
    PROVE  Met(objects_by_pos, o, Left(x, y)) =
                Cardinality((Lit(x) \ Lit(y)) \cap Lit(object[o]))
<1>1. Cells(x) \subseteq Planes \X Pos
  BY PlacesAreFinite
<1>2. ASSUME NEW k \in Cells(x)
      PROVE  o \in objects_by_pos[k] <=> k[1] # PLANE_LIMBO /\ k \in Cells(object[o])
  <2>1. k \in Planes \X Pos
    BY <1>1
  <2>2. CASE k[1] = PLANE_LIMBO
    BY <2>1, <2>2 DEF IndexesAgree
  <2>3. CASE k[1] # PLANE_LIMBO
    BY <2>1, <2>3 DEF IndexesAgree
  <2> QED
    BY <2>2, <2>3
<1>3. {k \in Left(x, y) : o \in objects_by_pos[k]} = (Lit(x) \ Lit(y)) \cap Lit(object[o])
  BY <1>2 DEF Left, Lit
<1> QED
  BY <1>3 DEF Met

(* The same for an object's positions.                                     *)
LEMMA ClientsMet ==
    ASSUME IndexesAgree, NEW c \in Clients,
           NEW x \in Places(Areas), NEW y \in Places(Areas)
    PROVE  Met(viewers_by_pos, c, Left(x, y)) =
                Cardinality((Lit(x) \ Lit(y)) \cap Lit(view[c]))
<1>1. Cells(x) \subseteq Planes \X Pos
  BY PlacesAreFinite
<1>2. ASSUME NEW k \in Cells(x)
      PROVE  c \in viewers_by_pos[k] <=> k[1] # PLANE_LIMBO /\ k \in Cells(view[c])
  <2>1. k \in Planes \X Pos
    BY <1>1
  <2>2. CASE k[1] = PLANE_LIMBO
    BY <2>1, <2>2 DEF IndexesAgree
  <2>3. CASE k[1] # PLANE_LIMBO
    BY <2>1, <2>3 DEF IndexesAgree
  <2> QED
    BY <2>2, <2>3
<1>3. {k \in Left(x, y) : c \in viewers_by_pos[k]} = (Lit(x) \ Lit(y)) \cap Lit(view[c])
  BY <1>2 DEF Left, Lit
<1> QED
  BY <1>3 DEF Met

(* A table that lists the S by position, for where they are.               *)
Lists(table, S, at) ==
    /\ table \in [Planes \X Pos -> SUBSET S]
    /\ \A k \in Planes \X Pos :
         table[k] = IF k[1] = PLANE_LIMBO THEN {} ELSE {s \in S : k \in Cells(at[s])}

(* What a table lists after a move is what it would list from scratch.     *)
LEMMA ListedAgrees ==
    ASSUME NEW S, NEW R, R \subseteq SUBSET Pos,
           NEW at \in [S -> Places(R)], NEW x \in S, NEW y \in Places(R),
           NEW table, Lists(table, S, at)
    PROVE  Lists(Listed(table, x, Left(at[x], y), Entered(at[x], y)), S, [at EXCEPT ![x] = y])
<1> DEFINE new   == Listed(table, x, Left(at[x], y), Entered(at[x], y))
           moved == [at EXCEPT ![x] = y]
<1> USE DEF Lists
<1>1. new \in [Planes \X Pos -> SUBSET S]
  BY DEF Listed
<1>2. \A s \in S : moved[s] = IF s = x THEN y ELSE at[s]
  OBVIOUS
<1> HIDE DEF moved
<1>3. ASSUME NEW k \in Planes \X Pos
      PROVE  new[k] = IF k[1] = PLANE_LIMBO THEN {} ELSE {s \in S : k \in Cells(moved[s])}
  <2>1. CASE k[1] = PLANE_LIMBO
    BY <2>1 DEF Listed
  <2>2. CASE k[1] # PLANE_LIMBO
    <3>1. table[k] = {s \in S : k \in Cells(at[s])}
      BY <2>2
    <3>2. CASE k \in Cells(y)
      <4>1. {s \in S : k \in Cells(moved[s])} = table[k] \cup {x}
        BY <1>2, <3>1, <3>2
      <4>2. new[k] = table[k] \cup {x}
        <5>1. CASE k \in Cells(at[x])
          BY <3>1, <3>2, <5>1 DEF Listed, Left, Entered
        <5>2. CASE k \notin Cells(at[x])
          BY <2>2, <3>2, <5>2 DEF Listed, Left, Entered
        <5> QED
          BY <5>1, <5>2
      <4> QED
        BY <2>2, <4>1, <4>2
    <3>3. CASE k \notin Cells(y)
      <4>1. {s \in S : k \in Cells(moved[s])} = table[k] \ {x}
        BY <1>2, <3>1, <3>3
      <4>2. new[k] = table[k] \ {x}
        <5>1. CASE k \in Cells(at[x])
          BY <3>1, <3>3, <5>1 DEF Listed, Left, Entered
        <5>2. CASE k \notin Cells(at[x])
          BY <3>1, <3>3, <5>2 DEF Listed, Left, Entered
        <5> QED
          BY <5>1, <5>2
      <4> QED
        BY <2>2, <4>1, <4>2
    <3> QED
      BY <3>2, <3>3
  <2> QED
    BY <2>1, <2>2
<1> QED
  BY <1>1, <1>3 DEF moved

-----------------------------------------------------------------------------

(* The effect of a view's move, said without counting: the counts, what    *)
(* the client loses sight of and what it gets to see.                      *)
ViewLaw(c, new, o) ==
    LET left    == Left(view[c], new)
        entered == Entered(view[c], new)
        before  == Lit(view[c]) \cap Lit(object[o])
        after   == Lit(new) \cap Lit(object[o])
    IN /\ Cardinality(after) \in Nat
       /\ visible[c][o] - Met(objects_by_pos, o, left)
             + Met(objects_by_pos, o, entered) = Cardinality(after)
       /\ o \in Vanishing(c, left) <=> before # {} /\ before \cap after = {}
       /\ o \in Emerging(c, left, entered) <=> after # {} /\ before \cap after = {}

LEMMA ViewMoves ==
    ASSUME Agree, NEW c \in Clients, NEW new \in Places(Views), NEW o \in Objects
    PROVE  ViewLaw(c, new, o)
<1> USE DEF Agree, TablesAgree
<1> DEFINE A == Lit(view[c])
           N == Lit(new)
           B == Lit(object[o])
           met_left == Met(objects_by_pos, o, Left(view[c], new))
           met_entered == Met(objects_by_pos, o, Entered(view[c], new))
<1>1. view[c] \in Places(Views) /\ object[o] \in Places(Areas)
  BY DEF TypeOK
<1>2. IsFiniteSet(A) /\ IsFiniteSet(N) /\ IsFiniteSet(B) /\ N \subseteq Planes \X Pos
  BY <1>1, PlacesAreFinite
<1>3. met_left = Cardinality((A \ N) \cap B)
  BY <1>1, ObjectsMet
<1>4. met_entered = Cardinality((N \ A) \cap B)
  <2>1. Entered(view[c], new) = Left(new, view[c])
    BY DEF Entered, Left
  <2> QED
    BY <1>1, <2>1, ObjectsMet
<1>5. visible[c][o] = Cardinality(A \cap B)
  BY SharedIsLit DEF CountsAgree
<1>6. Cardinality(N \cap B) \in Nat
  BY <1>2, FS_Intersection, FS_CardinalityType
<1> HIDE DEF A, N, B
<1>7. /\ Cardinality(N \cap B) = visible[c][o] - met_left + met_entered
      /\ met_left > 0 <=> (A \ N) \cap B # {}
      /\ met_entered > 0 <=> (N \ A) \cap B # {}
      /\ visible[c][o] = met_left <=> A \cap N \cap B = {}
  <2>1. MoveLaw(A, N, B)
    BY <1>2, MoveBalance
  <2> HIDE DEF met_left, met_entered
  <2> QED
    BY <2>1, <1>3, <1>4, <1>5 DEF MoveLaw
<1>8. o \in Vanishing(c, Left(view[c], new)) <=> A \cap B # {} /\ A \cap N \cap B = {}
  <2>1. o \in Vanishing(c, Left(view[c], new)) <=> met_left > 0 /\ visible[c][o] = met_left
    BY DEF Vanishing
  <2> QED
    BY <1>7, <2>1
<1>9. o \in Emerging(c, Left(view[c], new), Entered(view[c], new))
        <=> N \cap B # {} /\ A \cap N \cap B = {}
  <2>1. o \in Emerging(c, Left(view[c], new), Entered(view[c], new))
            <=> met_entered > 0 /\ visible[c][o] = met_left
    BY DEF Emerging
  <2> QED
    BY <1>7, <2>1
<1>10. /\ A \cap B \cap (N \cap B) = A \cap N \cap B
  OBVIOUS
<1> QED
  BY <1>6, <1>7, <1>8, <1>9, <1>10 DEF A, N, B, ViewLaw

(* The same for an object's move, seen from a client.                      *)
ObjectLaw(o, new, c) ==
    LET up     == Met(viewers_by_pos, c, Entered(object[o], new))
        down   == Met(viewers_by_pos, c, Left(object[o], new))
        before == Lit(view[c]) \cap Lit(object[o])
        after  == Lit(view[c]) \cap Lit(new)
    IN /\ Cardinality(after) \in Nat
       /\ visible[c][o] + up - down = Cardinality(after)
       /\ up > 0 /\ visible[c][o] = 0 <=> before = {} /\ after # {}
       /\ down > 0 /\ visible[c][o] + up = down <=> before # {} /\ after = {}

LEMMA ObjectMoves ==
    ASSUME Agree, NEW o \in Objects, NEW new \in Places(Areas), NEW c \in Clients
    PROVE  ObjectLaw(o, new, c)
<1> USE DEF Agree, TablesAgree
<1> DEFINE A == Lit(object[o])
           N == Lit(new)
           B == Lit(view[c])
           up == Met(viewers_by_pos, c, Entered(object[o], new))
           down == Met(viewers_by_pos, c, Left(object[o], new))
<1>1. view[c] \in Places(Views) /\ object[o] \in Places(Areas)
  BY DEF TypeOK
<1>2. IsFiniteSet(A) /\ IsFiniteSet(N) /\ IsFiniteSet(B)
  BY <1>1, PlacesAreFinite
<1>3. down = Cardinality((A \ N) \cap B)
  BY <1>1, ClientsMet
<1>4. up = Cardinality((N \ A) \cap B)
  <2>1. Entered(object[o], new) = Left(new, object[o])
    BY DEF Entered, Left
  <2> QED
    BY <1>1, <2>1, ClientsMet
<1>5. visible[c][o] = Cardinality(A \cap B)
  <2>1. B \cap A = A \cap B
    OBVIOUS
  <2> QED
    BY <2>1, SharedIsLit DEF CountsAgree
<1>6. /\ Cardinality(N \cap B) \in Nat /\ Cardinality(A \cap B) \in Nat
      /\ Cardinality((A \ N) \cap B) \in Nat /\ Cardinality((N \ A) \cap B) \in Nat
  <2>1. \A S : IsFiniteSet(S \cap B) /\ Cardinality(S \cap B) \in Nat
    BY <1>2, FS_Intersection, FS_CardinalityType
  <2> QED
    BY <2>1
<1> HIDE DEF A, N, B, up, down
<1>7. MoveLaw(A, N, B)
  BY <1>2, MoveBalance
<1>8. visible[c][o] + up - down = Cardinality(N \cap B)
  BY <1>3, <1>4, <1>5, <1>6, <1>7 DEF MoveLaw
<1>9. up > 0 /\ visible[c][o] = 0 <=> A \cap B = {} /\ N \cap B # {}
  BY <1>4, <1>5, <1>7 DEF MoveLaw
<1>10. down > 0 /\ visible[c][o] + up = down <=> A \cap B # {} /\ N \cap B = {}
  BY <1>3, <1>4, <1>5, <1>7 DEF MoveLaw
<1>11. B \cap A = A \cap B /\ B \cap N = N \cap B
  OBVIOUS
<1> QED
  BY <1>6, <1>8, <1>9, <1>10, <1>11 DEF A, N, B, up, down, ObjectLaw

-----------------------------------------------------------------------------

(* A picture tells which object it shows and where.                        *)
LEMMA PicturesTell ==
    /\ \A o, x : Picture(o, x).obj = o /\ Picture(o, x).plane = x.plane
                /\ Picture(o, x).area = x.area
    /\ \A o \in Objects, x \in Places(Areas) : Picture(o, x) \in Pictures
  BY DEF Picture, Pictures

(* Pictures of what shares a position with one view make one view.         *)
LEMMA OneViewful ==
    ASSUME NEW x \in Places(Views), NEW S,
           \A s \in S : \E o, y : s = Picture(o, y) /\ Lit(x) \cap Lit(y) # {}
    PROVE  \E p \in Planes, v \in Views : \A s \in S : s.plane = p /\ s.area \cap v # {}
<1>1. CASE x = Nowhere
  <2>1. S = {}
    BY <1>1, PlacesAt
  <2>2. PLANE_LIMBO \in Planes /\ \E v \in Views : TRUE
    OBVIOUS
  <2> QED
    BY <2>1, <2>2
<1>2. CASE x # Nowhere
  <2>1. PICK p \in Planes, v \in Views : x = At(p, v)
    BY <1>2 DEF Places
  <2>2. ASSUME NEW s \in S PROVE s.plane = p /\ s.area \cap v # {}
    <3>1. PICK o, y : s = Picture(o, y) /\ Lit(x) \cap Lit(y) # {}
      OBVIOUS
    <3>2. PICK k \in Cells(x) : k \in Cells(y)
      BY <3>1 DEF Lit
    <3>3. k[1] = p /\ k[1] = y.plane /\ k[2] \in v /\ k[2] \in y.area
      BY <2>1, <3>2 DEF Cells, At
    <3>4. s.plane = y.plane /\ s.area = y.area
      BY <3>1, PicturesTell
    <3> QED
      BY <3>3, <3>4
  <2> QED
    BY <2>2
<1> QED
  BY <1>1, <1>2

-----------------------------------------------------------------------------

Seen == Agree /\ OneView

(* add_client, set_client_view and remove_client.                          *)
LEMMA SetClientViewKeeps ==
    ASSUME Seen, NEW c \in Clients, NEW new \in Places(Views), SetClientView(c, new)
    PROVE  Seen'
<1> USE DEF Seen, Agree, TablesAgree
<1> DEFINE left      == Left(view[c], new)
           entered   == Entered(view[c], new)
           vanishing == Vanishing(c, left)
           emerging  == Emerging(c, left, entered)
           before(o) == Lit(view[c]) \cap Lit(object[o])
           after(o)  == Lit(new) \cap Lit(object[o])
<1>1. /\ view' = [view EXCEPT ![c] = new]
      /\ visible' = [visible EXCEPT ![c] =
            [o \in Objects |-> @[o] - Met(objects_by_pos, o, left)
                                    + Met(objects_by_pos, o, entered)]]
      /\ viewers' = [o \in Objects |->
            IF o \in emerging THEN viewers[o] \cup {c}
            ELSE IF o \in vanishing THEN viewers[o] \ {c} ELSE viewers[o]]
      /\ viewers_by_pos' = Listed(viewers_by_pos, c, left, entered)
      /\ half' = [half EXCEPT ![c] = {s \in screen[c] : s.obj \notin vanishing}]
      /\ screen' = [screen EXCEPT ![c] =
            {s \in screen[c] : s.obj \notin vanishing}
                \cup {Picture(o, object[o]) : o \in emerging}]
      /\ UNCHANGED <<object, objects_by_pos>>
  BY DEF SetClientView, FirstHalf, TypeOK
<1>2. ASSUME NEW o \in Objects
      PROVE  /\ Cardinality(after(o)) \in Nat
             /\ visible[c][o] - Met(objects_by_pos, o, left)
                    + Met(objects_by_pos, o, entered) = Cardinality(after(o))
             /\ o \in vanishing <=> before(o) # {} /\ before(o) \cap after(o) = {}
             /\ o \in emerging <=> after(o) # {} /\ before(o) \cap after(o) = {}
  <2>1. ViewLaw(c, new, o)
    BY ViewMoves DEF Seen
  <2> QED
    BY <2>1 DEF ViewLaw
<1>3. view' \in [Clients -> Places(Views)] /\ view'[c] = new
      /\ \A d \in Clients \ {c} : view'[d] = view[d]
  BY <1>1 DEF TypeOK
<1>4. ASSUME NEW o \in Objects
      PROVE  /\ Shared(c, o) = before(o) /\ Shared(c, o)' = after(o)
             /\ \A d \in Clients \ {c} : Shared(d, o)' = Shared(d, o)
  <2>1. Shared(c, o) = before(o)
    BY SharedIsLit
  <2>2. Shared(c, o)' = after(o)
    <3>1. Shared(c, o)' = Lit(view'[c]) \cap Lit(object'[o])
      BY LitMeet DEF Shared, Cells
    <3> QED
      BY <1>1, <1>3, <3>1
  <2>3. \A d \in Clients \ {c} : Shared(d, o)' = Shared(d, o)
    BY <1>1, <1>3 DEF Shared, Cells
  <2> QED
    BY <2>1, <2>2, <2>3
<1>5. vanishing \subseteq Objects /\ emerging \subseteq Objects
  BY DEF Vanishing, Emerging
<1>6. viewers_by_pos' \in [Planes \X Pos -> SUBSET Clients] /\ IndexesAgree'
  <2>1. Lists(viewers_by_pos, Clients, view)
    BY DEF IndexesAgree, Lists, TypeOK
  <2>2. Lists(viewers_by_pos', Clients, view')
    BY <1>1, <2>1, ListedAgrees DEF TypeOK
  <2>3. /\ viewers_by_pos' \in [Planes \X Pos -> SUBSET Clients]
        /\ \A k \in Planes \X Pos : viewers_by_pos'[k] =
            IF k[1] = PLANE_LIMBO THEN {} ELSE {d \in Clients : k \in Cells(view'[d])}
    BY <2>2 DEF Lists
  <2>4. ASSUME NEW k \in Planes \X Pos
        PROVE  objects_by_pos'[k] = IF k[1] = PLANE_LIMBO THEN {}
                                    ELSE {o \in Objects : k \in Cells(object'[o])}
    BY <1>1 DEF IndexesAgree
  <2>5. IndexesAgree'
    BY <2>3, <2>4, Zenon DEF IndexesAgree, Cells
  <2> QED
    BY <2>3, <2>5
<1> HIDE DEF left, entered, vanishing, emerging, before, after
<1>7. visible' \in [Clients -> [Objects -> Nat]] /\ CountsAgree'
  <2>1. visible'[c] = [o \in Objects |-> Cardinality(after(o))]
    BY <1>1, <1>2 DEF TypeOK
  <2>2. \A d \in Clients \ {c} : visible'[d] = visible[d]
    BY <1>1 DEF TypeOK
  <2>3. visible' \in [Clients -> [Objects -> Nat]]
    <3>1. visible'[c] \in [Objects -> Nat]
      BY <1>2, <2>1
    <3> QED
      BY <1>1, <3>1 DEF TypeOK
  <2>4. \A d \in Clients, o \in Objects : visible'[d][o] = Cardinality(Shared(d, o)')
    BY <1>4, <2>1, <2>2 DEF CountsAgree
  <2>5. ASSUME NEW o \in Objects PROVE viewers'[o] = {d \in Clients : Sees(d, o)'}
    <3>1. viewers[o] = {d \in Clients : Sees(d, o)}
      BY DEF CountsAgree
    <3>2. \A d \in Clients \ {c} : Sees(d, o)' <=> Sees(d, o)
      BY <1>4 DEF Sees
    <3>3. (Sees(c, o) <=> before(o) # {}) /\ (Sees(c, o)' <=> after(o) # {})
      BY <1>4 DEF Sees
    <3>4. viewers'[o] = IF o \in emerging THEN viewers[o] \cup {c}
                        ELSE IF o \in vanishing THEN viewers[o] \ {c} ELSE viewers[o]
      BY <1>1
    <3>5. CASE o \in emerging
      BY <1>2, <3>1, <3>2, <3>3, <3>4, <3>5
    <3>6. CASE o \notin emerging /\ o \in vanishing
      BY <1>2, <3>1, <3>2, <3>3, <3>4, <3>6
    <3>7. CASE o \notin emerging /\ o \notin vanishing
      <4>1. before(o) # {} <=> after(o) # {}
        BY <1>2, <3>7
      <4> QED
        BY <3>1, <3>2, <3>3, <3>4, <3>7, <4>1
    <3> QED
      BY <3>5, <3>6, <3>7
  <2> QED
    BY <2>3, <2>4, <2>5 DEF CountsAgree
<1>8. ASSUME NEW s, s \in half'[c]
      PROVE  \E o \in Objects : s = Picture(o, object[o]) /\ Sees(c, o)' /\ s \in screen[c]
  <2>1. s \in screen[c] /\ s.obj \notin vanishing
    BY <1>1, <1>8 DEF TypeOK
  <2>2. PICK o \in Objects : s = Picture(o, object[o]) /\ Sees(c, o)
    BY <2>1 DEF ScreenAgrees
  <2>3. o \notin vanishing /\ before(o) # {}
    BY <1>4, <2>1, <2>2, PicturesTell DEF Sees
  <2>4. after(o) # {}
    BY <1>2, <2>3
  <2> QED
    BY <1>4, <2>1, <2>2, <2>4 DEF Sees
<1>9. ScreenAgrees'
  <2>1. ASSUME NEW d \in Clients, d # c
        PROVE  screen'[d] = {Picture(o, object'[o]) : o \in {b \in Objects : Sees(d, b)'}}
    BY <1>1, <1>4, <2>1 DEF TypeOK, ScreenAgrees, Sees
  <2>2. screen'[c] = {Picture(o, object[o]) : o \in {b \in Objects : Sees(c, b)'}}
    <3>1. screen'[c] = half'[c] \cup {Picture(o, object[o]) : o \in emerging}
      BY <1>1 DEF TypeOK
    <3>2. ASSUME NEW s \in screen'[c]
          PROVE  \E o \in Objects : Sees(c, o)' /\ s = Picture(o, object[o])
      <4>1. CASE s \in half'[c]
        BY <1>8, <4>1
      <4>2. CASE \E o \in emerging : s = Picture(o, object[o])
        BY <1>2, <1>4, <1>5, <4>2 DEF Sees
      <4> QED
        BY <3>1, <4>1, <4>2
    <3>3. ASSUME NEW o \in Objects, Sees(c, o)'
          PROVE  Picture(o, object[o]) \in screen'[c]
      <4>1. after(o) # {}
        BY <1>4, <3>3 DEF Sees
      <4>2. CASE o \in emerging
        BY <3>1, <4>2
      <4>3. CASE o \notin emerging
        <5>1. before(o) # {} /\ o \notin vanishing
          BY <1>2, <4>1, <4>3
        <5>2. Picture(o, object[o]) \in screen[c]
          BY <1>4, <5>1 DEF ScreenAgrees, Sees
        <5> QED
          BY <1>1, <3>1, <5>1, <5>2, PicturesTell DEF TypeOK
      <4> QED
        BY <4>2, <4>3
    <3> QED
      BY <3>2, <3>3
  <2> QED
    BY <1>1, <2>1, <2>2 DEF ScreenAgrees
<1>10. screen' \in [Clients -> SUBSET Pictures] /\ half' \in [Clients -> SUBSET Pictures]
  <2>1. half'[c] \subseteq Pictures
    BY <1>8 DEF TypeOK
  <2>2. \A o \in emerging : Picture(o, object[o]) \in Pictures
    BY <1>5, PicturesTell DEF TypeOK
  <2>3. screen'[c] \subseteq Pictures
    BY <1>1, <2>1, <2>2 DEF TypeOK
  <2> QED
    BY <1>1, <2>1, <2>3 DEF TypeOK
<1>11. TypeOK'
  <2>1. viewers' \in [Objects -> SUBSET Clients]
    BY <1>1 DEF TypeOK
  <2>2. object' \in [Objects -> Places(Areas)]
        /\ objects_by_pos' \in [Planes \X Pos -> SUBSET Objects]
    BY <1>1 DEF TypeOK
  <2> QED
    BY <1>3, <1>6, <1>7, <1>10, <2>1, <2>2 DEF TypeOK, Places, Pictures
<1>12. OneView'
  <2>1. \E p \in Planes, v \in Views :
            \A s \in half'[c] : s.plane = p /\ s.area \cap v # {}
    <3>1. \A s \in half'[c] : \E o, y : s = Picture(o, y) /\ Lit(new) \cap Lit(y) # {}
      BY <1>4, <1>8 DEF Sees, after
    <3> QED
      BY <3>1, OneViewful
  <2> QED
    BY <1>1, <2>1 DEF OneView, TypeOK
<1> QED
  BY <1>6, <1>7, <1>9, <1>11, <1>12

(* add_entity, set_entity_area, remove_entity and their like.              *)
LEMMA SetObjectAreaKeeps ==
    ASSUME Seen, NEW o \in Objects, NEW new \in Places(Areas), SetObjectArea(o, new)
    PROVE  Seen'
<1> USE DEF Seen, Agree, TablesAgree
<1> DEFINE left    == Left(object[o], new)
           entered == Entered(object[o], new)
           up(c)   == Met(viewers_by_pos, c, entered)
           down(c) == Met(viewers_by_pos, c, left)
           emerging  == {c \in Clients : up(c) > 0 /\ visible[c][o] = 0}
           vanishing == {c \in Clients : down(c) > 0 /\ visible[c][o] + up(c) = down(c)}
           seers     == (viewers[o] \cup emerging) \ vanishing
           knows(c)  == c \in emerging \/ \E s \in screen[c] : s.obj = o
           before(c) == Lit(view[c]) \cap Lit(object[o])
           after(c)  == Lit(view[c]) \cap Lit(new)
<1>1. /\ object' = [object EXCEPT ![o] = new]
      /\ visible' = [c \in Clients |->
                        [visible[c] EXCEPT ![o] = @ + up(c) - down(c)]]
      /\ viewers' = [viewers EXCEPT ![o] = seers]
      /\ objects_by_pos' = Listed(objects_by_pos, o, left, entered)
      /\ screen' = [c \in Clients |->
            IF c \in seers /\ knows(c)
            THEN {s \in screen[c] : s.obj # o} \cup {Picture(o, new)}
            ELSE IF c \in vanishing THEN {s \in screen[c] : s.obj # o}
            ELSE screen[c]]
      /\ half' = screen'
      /\ UNCHANGED <<view, viewers_by_pos>>
  BY DEF SetObjectArea
<1>2. ASSUME NEW c \in Clients
      PROVE  /\ Cardinality(after(c)) \in Nat
             /\ visible[c][o] + up(c) - down(c) = Cardinality(after(c))
             /\ c \in emerging <=> before(c) = {} /\ after(c) # {}
             /\ c \in vanishing <=> before(c) # {} /\ after(c) = {}
  <2>1. ObjectLaw(o, new, c)
    BY ObjectMoves
  <2> QED
    BY <2>1 DEF ObjectLaw
<1>3. object' \in [Objects -> Places(Areas)] /\ object'[o] = new
      /\ \A b \in Objects \ {o} : object'[b] = object[b]
  BY <1>1 DEF TypeOK
<1>4. ASSUME NEW c \in Clients
      PROVE  /\ Shared(c, o) = before(c) /\ Shared(c, o)' = after(c)
             /\ \A b \in Objects \ {o} : Shared(c, b)' = Shared(c, b)
  <2>1. Shared(c, o) = before(c)
    BY SharedIsLit
  <2>2. Shared(c, o)' = after(c)
    <3>1. Shared(c, o)' = Lit(view'[c]) \cap Lit(object'[o])
      BY LitMeet DEF Shared, Cells
    <3> QED
      BY <1>1, <1>3, <3>1
  <2>3. \A b \in Objects \ {o} : Shared(c, b)' = Shared(c, b)
    BY <1>1, <1>3 DEF Shared, Cells
  <2> QED
    BY <2>1, <2>2, <2>3
<1>5. objects_by_pos' \in [Planes \X Pos -> SUBSET Objects] /\ IndexesAgree'
  <2>1. Lists(objects_by_pos, Objects, object)
    BY DEF IndexesAgree, Lists, TypeOK
  <2>2. Lists(objects_by_pos', Objects, object')
    BY <1>1, <2>1, ListedAgrees DEF TypeOK
  <2>3. /\ objects_by_pos' \in [Planes \X Pos -> SUBSET Objects]
        /\ \A k \in Planes \X Pos : objects_by_pos'[k] =
            IF k[1] = PLANE_LIMBO THEN {} ELSE {b \in Objects : k \in Cells(object'[b])}
    BY <2>2 DEF Lists
  <2>4. ASSUME NEW k \in Planes \X Pos
        PROVE  viewers_by_pos'[k] = IF k[1] = PLANE_LIMBO THEN {}
                                    ELSE {c \in Clients : k \in Cells(view'[c])}
    BY <1>1 DEF IndexesAgree
  <2>5. IndexesAgree'
    BY <2>3, <2>4, Zenon DEF IndexesAgree, Cells
  <2> QED
    BY <2>3, <2>5
<1>6. vanishing \subseteq Clients /\ emerging \subseteq Clients
  OBVIOUS
<1> HIDE DEF left, entered, up, down, vanishing, emerging, before, after
<1>7. /\ seers = {c \in Clients : Sees(c, o)'}
      /\ \A c \in Clients : c \in seers <=> after(c) # {}
  <2>1. viewers[o] = {c \in Clients : Sees(c, o)}
    BY DEF CountsAgree
  <2>2. \A c \in Clients : (Sees(c, o) <=> before(c) # {}) /\ (Sees(c, o)' <=> after(c) # {})
    BY <1>4 DEF Sees
  <2>3. ASSUME NEW c \in Clients PROVE c \in seers <=> after(c) # {}
    BY <1>2, <2>1, <2>2
  <2>4. seers \subseteq Clients
    BY <1>6, <2>1
  <2> QED
    BY <2>2, <2>3, <2>4
<1>8. visible' \in [Clients -> [Objects -> Nat]] /\ CountsAgree'
  <2>1. ASSUME NEW c \in Clients
        PROVE  /\ visible'[c] \in [Objects -> Nat]
               /\ \A b \in Objects : visible'[c][b] = Cardinality(Shared(c, b)')
    <3>1. visible'[c] = [visible[c] EXCEPT ![o] = visible[c][o] + up(c) - down(c)]
      BY <1>1 DEF TypeOK
    <3>2. visible'[c] = [visible[c] EXCEPT ![o] = Cardinality(after(c))]
      BY <1>2, <3>1
    <3>3. visible'[c] \in [Objects -> Nat]
      BY <1>2, <3>2 DEF TypeOK
    <3>4. \A b \in Objects : visible'[c][b] =
                IF b = o THEN Cardinality(after(c)) ELSE visible[c][b]
      BY <3>2 DEF TypeOK
    <3>5. \A b \in Objects : visible[c][b] = Cardinality(Shared(c, b))
      BY DEF CountsAgree
    <3> QED
      BY <1>4, <3>3, <3>4, <3>5
  <2>2. visible' \in [Clients -> [Objects -> Nat]]
    BY <1>1, <2>1
  <2>3. ASSUME NEW b \in Objects PROVE viewers'[b] = {c \in Clients : Sees(c, b)'}
    <3>1. CASE b = o
      BY <1>1, <1>7, <3>1 DEF TypeOK
    <3>2. CASE b # o
      BY <1>1, <1>4, <3>2 DEF TypeOK, CountsAgree, Sees
    <3> QED
      BY <3>1, <3>2
  <2> QED
    BY <2>1, <2>2, <2>3 DEF CountsAgree
<1>9. ASSUME NEW c \in Clients
      PROVE  screen'[c] = {Picture(b, object'[b]) : b \in {x \in Objects : Sees(c, x)'}}
  <2> DEFINE others == {Picture(b, object[b]) : b \in {x \in Objects \ {o} : Sees(c, x)}}
  <2>1. {Picture(b, object'[b]) : b \in {x \in Objects : Sees(c, x)'}} =
            IF after(c) # {} THEN others \cup {Picture(o, new)} ELSE others
    BY <1>3, <1>4 DEF Sees
  <2>2. screen[c] = IF before(c) # {} THEN others \cup {Picture(o, object[o])} ELSE others
    BY <1>4 DEF ScreenAgrees, Sees
  <2>3. \A s \in others : s.obj # o
    BY PicturesTell
  <2>4. Picture(o, object[o]).obj = o
    BY PicturesTell
  <2> HIDE DEF others
  <2>5. {s \in screen[c] : s.obj # o} = others
    BY <2>2, <2>3, <2>4
  <2>6. screen'[c] = IF c \in seers /\ knows(c) THEN others \cup {Picture(o, new)}
                     ELSE IF c \in vanishing THEN others ELSE screen[c]
    BY <1>1, <2>5
  <2>7. CASE after(c) # {}
    <3>1. knows(c)
      BY <1>2, <2>2, <2>4, <2>7
    <3> QED
      BY <1>7, <2>1, <2>6, <2>7, <3>1
  <2>8. CASE after(c) = {}
    <3>1. CASE before(c) # {}
      BY <1>2, <1>7, <2>1, <2>6, <2>8, <3>1
    <3>2. CASE before(c) = {}
      BY <1>2, <1>7, <2>1, <2>2, <2>6, <2>8, <3>2
    <3> QED
      BY <3>1, <3>2
  <2> QED
    BY <2>7, <2>8
<1>10. ScreenAgrees'
  BY <1>9 DEF ScreenAgrees
<1>11. TypeOK'
  <2>1. \A c \in Clients : screen'[c] \subseteq Pictures
    BY <1>3, <1>9, PicturesTell
  <2>2. screen' \in [Clients -> SUBSET Pictures] /\ half' = screen'
    BY <1>1, <2>1
  <2>3. viewers' \in [Objects -> SUBSET Clients]
    BY <1>1, <1>7 DEF TypeOK
  <2>4. view' \in [Clients -> Places(Views)]
        /\ viewers_by_pos' \in [Planes \X Pos -> SUBSET Clients]
    BY <1>1 DEF TypeOK
  <2> QED
    BY <1>3, <1>5, <1>8, <2>2, <2>3, <2>4 DEF TypeOK, Places, Pictures
<1>12. OneView'
  <2>1. ASSUME NEW c \in Clients
        PROVE  \E p \in Planes, v \in Views :
                    \A s \in screen'[c] : s.plane = p /\ s.area \cap v # {}
    <3>1. \A b \in Objects : Sees(c, b)' => Lit(view[c]) \cap Lit(object'[b]) # {}
      <4>1. \A b \in Objects : Shared(c, b)' = Lit(view'[c]) \cap Lit(object'[b])
        BY LitMeet DEF Shared, Cells
      <4> QED
        BY <1>1, <4>1 DEF Sees
    <3>2. \A s \in screen'[c] : \E b, y : s = Picture(b, y) /\ Lit(view[c]) \cap Lit(y) # {}
      BY <1>9, <3>1
    <3>3. view[c] \in Places(Views)
      BY DEF TypeOK
    <3> QED
      BY <3>2, <3>3, OneViewful
  <2> QED
    BY <1>1, <2>1 DEF OneView
<1> QED
  BY <1>5, <1>8, <1>10, <1>11, <1>12

(* The invariant holds at the start and through every step.                *)
LEMMA InitSeen == Init => Seen
<1> SUFFICES ASSUME Init PROVE Seen
  OBVIOUS
<1> USE DEF Init
<1>1. TypeOK
  BY PlacesAt DEF TypeOK
<1>2. \A c \in Clients, o \in Objects : Shared(c, o) = {}
  BY PlacesAt DEF Shared
<1>3. CountsAgree
  BY <1>2, FS_EmptySet DEF CountsAgree, Sees
<1>4. IndexesAgree
  BY PlacesAt DEF IndexesAgree
<1>5. ScreenAgrees
  BY <1>2 DEF ScreenAgrees, Sees
<1>6. OneView
  BY DEF OneView
<1> QED
  BY <1>1, <1>3, <1>4, <1>5, <1>6 DEF Seen, Agree, TablesAgree

LEMMA NextSeen == Seen /\ [Next]_vars => Seen'
<1> SUFFICES ASSUME Seen, [Next]_vars PROVE Seen'
  OBVIOUS
<1>1. ASSUME NEW c \in Clients, NEW p \in Planes, NEW v \in Views,
             AddClient(c, p, v) \/ MoveView(c, p, v)
      PROVE  Seen'
  BY <1>1, PlacesAt, SetClientViewKeeps DEF AddClient, MoveView
<1>2. ASSUME NEW c \in Clients, RemoveClient(c) PROVE Seen'
  BY <1>2, PlacesAt, SetClientViewKeeps DEF RemoveClient
<1>3. ASSUME NEW o \in Objects, NEW p \in Planes, NEW a \in Areas,
             AddObject(o, p, a) \/ MoveObject(o, p, a)
      PROVE  Seen'
  BY <1>3, PlacesAt, SetObjectAreaKeeps DEF AddObject, MoveObject
<1>4. ASSUME NEW o \in Objects, RemoveObject(o) PROVE Seen'
  BY <1>4, PlacesAt, SetObjectAreaKeeps DEF RemoveObject
<1>5. CASE UNCHANGED vars
  <2> USE <1>5 DEF vars, Seen, Agree, TablesAgree
  <2>1. TypeOK'
    BY DEF TypeOK, Places, Pictures
  <2>2. \A c \in Clients, o \in Objects : Shared(c, o)' = Shared(c, o)
    BY DEF Shared, Cells
  <2>3. CountsAgree'
    BY <2>2 DEF CountsAgree, Sees
  <2>4. IndexesAgree'
    BY DEF IndexesAgree, Cells
  <2>5. ScreenAgrees'
    BY <2>2 DEF ScreenAgrees, Sees
  <2>6. OneView'
    BY DEF OneView
  <2> QED
    BY <2>1, <2>3, <2>4, <2>5, <2>6
<1> QED
  BY <1>1, <1>2, <1>3, <1>4, <1>5 DEF Next

-----------------------------------------------------------------------------

(* The counts of vision.rs never drift: after any moves of views and       *)
(* objects they, the viewers of each object and the tables by position are *)
(* what they would be if computed afresh.                                  *)
THEOREM TablesAgreeHolds == Spec => []TablesAgree
<1>1. Seen => TablesAgree
  BY DEF Seen, Agree
<1> QED
  BY InitSeen, NextSeen, <1>1, PTL DEF Spec

(* The messages that the filter lets through (logic/vision.rs) add up to   *)
(* what is in each client's view, where it is.                             *)
THEOREM ScreenAgreesHolds == Spec => []ScreenAgrees
<1>1. Seen => ScreenAgrees
  BY DEF Seen, Agree
<1> QED
  BY InitSeen, NextSeen, <1>1, PTL DEF Spec

(* "Gone" before "appear": between the two halves of a call's messages a   *)
(* client is shown no more than some view could hold (vision.rs,           *)
(* set_client_view).                                                       *)
THEOREM OneViewHolds == Spec => []OneView
<1>1. Seen => OneView
  BY DEF Seen
<1> QED
  BY InitSeen, NextSeen, <1>1, PTL DEF Spec
=============================================================================
