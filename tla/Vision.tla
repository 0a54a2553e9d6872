------------------------------- MODULE Vision --------------------------------
(***************************************************************************)
(* The visibility filter of vision.rs: which objects each client's view    *)
(* meets, kept as counts that are updated when a view or an object moves,  *)
(* and the messages that keep the client's screen up to date               *)
(* (logic/vision.rs).                                                      *)
(*                                                                         *)
(* Entities, structures and terrain chunks are handled alike: an object    *)
(* covers an area, and may move (a structure, by being replaced).  Only,   *)
(* a client is not told when a chunk is gone, so that what is said about   *)
(* screens is about entities and structures.  Inventories have a module of *)
(* their own.                                                              *)
(***************************************************************************)
EXTENDS Integers, FiniteSets

CONSTANTS Clients, Objects,
          Planes, PLANE_LIMBO,
          Pos,         \* the chunk positions
          Views,       \* the regions a client can view (vision_region)
          Areas        \* the sets of positions an object can cover

ASSUME VisionAssumption ==
    /\ PLANE_LIMBO \in Planes
    /\ IsFiniteSet(Pos)
    /\ Views \subseteq SUBSET Pos /\ {} \notin Views /\ Views # {}
    /\ Areas \subseteq SUBSET Pos /\ {} \notin Areas

VARIABLES
    view,              \* the plane and region of each client
    object,            \* the plane and area of each object
    visible,           \* client, object: how many positions they share
    viewers,           \* object: the clients that see it
    viewers_by_pos, objects_by_pos,
    screen,            \* client: what the messages sent to it add up to
    half               \* history: the same after the last call's gone messages

vars == <<view, object, visible, viewers, viewers_by_pos, objects_by_pos,
          screen, half>>

(* A client or an object that does not exist is nowhere. *)
Nowhere == [plane |-> PLANE_LIMBO, area |-> {}]
Present(x) == x # Nowhere

At(p, a) == [plane |-> p, area |-> a]
Cells(x) == {x.plane} \X x.area
Picture(o, x) == [obj |-> o, plane |-> x.plane, area |-> x.area]

Init ==
    /\ view = [c \in Clients |-> Nowhere]
    /\ object = [o \in Objects |-> Nowhere]
    /\ visible = [c \in Clients |-> [o \in Objects |-> 0]]
    /\ viewers = [o \in Objects |-> {}]
    /\ viewers_by_pos = [k \in Planes \X Pos |-> {}]
    /\ objects_by_pos = [k \in Planes \X Pos |-> {}]
    /\ screen = [c \in Clients |-> {}] /\ half = screen

-----------------------------------------------------------------------------
(* A move from `old' to `new' leaves some positions and enters others; a   *)
(* change of plane leaves and enters all of them.                          *)

Left(old, new) == Cells(old) \ Cells(new)
MutEntered(old, new) ==             \* a change of plane is forgotten
    {k \in Cells(new) : k[2] \notin old.area}
Entered(old, new) == Cells(new) \ Cells(old)

(* A by-position table after x has left and entered positions.  Limbo is   *)
(* never entered in it, so that it always appears empty.                   *)
Listed(table, x, left, entered) ==
    [k \in Planes \X Pos |->
        IF k \in entered /\ k[1] # PLANE_LIMBO THEN table[k] \cup {x}
        ELSE IF k \in left THEN table[k] \ {x} ELSE table[k]]

(* How often x is met in the positions `cells'. *)
Met(table, x, cells) == Cardinality({k \in cells : x \in table[k]})

(* Which objects a client loses sight of when its view leaves positions,   *)
(* and which it then gets to see.                                          *)
MutVanishing(c, left) == {o \in Objects : Met(objects_by_pos, o, left) > 0}
Vanishing(c, left) ==
    {o \in Objects : /\ Met(objects_by_pos, o, left) > 0
                     /\ visible[c][o] = Met(objects_by_pos, o, left)}
Emerging(c, left, entered) ==
    {o \in Objects : /\ Met(objects_by_pos, o, entered) > 0
                     /\ visible[c][o] = Met(objects_by_pos, o, left)}

(* The client's screen after the first half of the messages: "gone" ones   *)
(* are sent before "appear" ones.                                          *)
MutFirstHalf(c, vanishing, emerging) ==
    screen[c] \cup {Picture(o, object[o]) : o \in emerging}
FirstHalf(c, vanishing, emerging) ==
    {s \in screen[c] : s.obj \notin vanishing}

SetClientView(c, new) ==
    LET left      == Left(view[c], new)
        entered   == Entered(view[c], new)
        vanishing == Vanishing(c, left)
        emerging  == Emerging(c, left, entered)
    IN /\ view' = [view EXCEPT ![c] = new]
       /\ visible' = [visible EXCEPT ![c] =
            [o \in Objects |-> @[o] - Met(objects_by_pos, o, left)
                                    + Met(objects_by_pos, o, entered)]]
       /\ viewers' = [o \in Objects |->
            IF o \in emerging THEN viewers[o] \cup {c}
            ELSE IF o \in vanishing THEN viewers[o] \ {c} ELSE viewers[o]]
       /\ viewers_by_pos' = Listed(viewers_by_pos, c, left, entered)
       /\ half' = [half EXCEPT ![c] = FirstHalf(c, vanishing, emerging)]
       /\ screen' = [screen EXCEPT ![c] =
            {s \in @ : s.obj \notin vanishing}
                \cup {Picture(o, object[o]) : o \in emerging}]
       /\ UNCHANGED <<object, objects_by_pos>>

AddClient(c, p, v) == ~Present(view[c]) /\ SetClientView(c, At(p, v))

MoveView(c, p, v) == Present(view[c]) /\ SetClientView(c, At(p, v))

(* logout has removed the client from Messages, which drops what is sent. *)
RemoveClient(c) == Present(view[c]) /\ SetClientView(c, Nowhere)

-----------------------------------------------------------------------------

(* The counts go up before they go down, so that an object that stays in   *)
(* view neither disappears nor appears again.  Whoever sees it then learns *)
(* where it is (on_entity_motion_change, on_structure_replace).            *)
SetObjectArea(o, new) ==
    LET left    == Left(object[o], new)
        entered == Entered(object[o], new)
        up(c)   == Met(viewers_by_pos, c, entered)
        down(c) == Met(viewers_by_pos, c, left)
        emerging  == {c \in Clients : up(c) > 0 /\ visible[c][o] = 0}
        vanishing == {c \in Clients : down(c) > 0 /\ visible[c][o] + up(c) = down(c)}
        seers     == (viewers[o] \cup emerging) \ vanishing
        knows(c)  == c \in emerging \/ \E s \in screen[c] : s.obj = o
    IN /\ object' = [object EXCEPT ![o] = new]
       /\ visible' = [c \in Clients |->
                        [visible[c] EXCEPT ![o] = @ + up(c) - down(c)]]
       /\ viewers' = [viewers EXCEPT ![o] = seers]
       /\ objects_by_pos' = Listed(objects_by_pos, o, left, entered)
       /\ screen' = [c \in Clients |->
            IF c \in seers /\ knows(c)
            THEN {s \in screen[c] : s.obj # o} \cup {Picture(o, new)}
            ELSE IF c \in vanishing THEN {s \in screen[c] : s.obj # o}
            ELSE screen[c]]
       /\ half' = screen'
       /\ UNCHANGED <<view, viewers_by_pos>>

AddObject(o, p, a) == ~Present(object[o]) /\ SetObjectArea(o, At(p, a))

MoveObject(o, p, a) == Present(object[o]) /\ SetObjectArea(o, At(p, a))

RemoveObject(o) == Present(object[o]) /\ SetObjectArea(o, Nowhere)

Next ==
    \/ \E c \in Clients, p \in Planes, v \in Views : AddClient(c, p, v) \/ MoveView(c, p, v)
    \/ \E c \in Clients : RemoveClient(c)
    \/ \E o \in Objects, p \in Planes, a \in Areas : AddObject(o, p, a) \/ MoveObject(o, p, a)
    \/ \E o \in Objects : RemoveObject(o)

Spec == Init /\ [][Next]_vars

-----------------------------------------------------------------------------

Places(regions) == {Nowhere} \cup {At(p, r) : p \in Planes, r \in regions}
Pictures == {Picture(o, x) : o \in Objects, x \in Places(Areas)}

(* Releasing what is not retained is a panic (RefcountedMap): it would     *)
(* make a count negative.                                                  *)
TypeOK ==
    /\ view \in [Clients -> Places(Views)]
    /\ object \in [Objects -> Places(Areas)]
    /\ visible \in [Clients -> [Objects -> Nat]]
    /\ viewers \in [Objects -> SUBSET Clients]
    /\ viewers_by_pos \in [Planes \X Pos -> SUBSET Clients]
    /\ objects_by_pos \in [Planes \X Pos -> SUBSET Objects]
    /\ screen \in [Clients -> SUBSET Pictures]
    /\ half \in [Clients -> SUBSET Pictures]

(* The positions where a client sees an object. *)
Shared(c, o) == IF view[c].plane = PLANE_LIMBO THEN {}
                ELSE Cells(view[c]) \cap Cells(object[o])
Sees(c, o)   == Shared(c, o) # {}

(* However views and objects have moved, past each other and from plane to *)
(* plane, the counts are what they would be if computed afresh, and each   *)
(* object knows who sees it.                                               *)
CountsAgree ==
    /\ \A c \in Clients, o \in Objects : visible[c][o] = Cardinality(Shared(c, o))
    /\ \A o \in Objects : viewers[o] = {c \in Clients : Sees(c, o)}

(* The tables by position are those of the views and objects outside       *)
(* limbo: "none of the x_by_pos maps should ever have PLANE_LIMBO in their *)
(* keys" (vision.rs 51).                                                   *)
IndexesAgree ==
    \A k \in Planes \X Pos :
        /\ viewers_by_pos[k] = IF k[1] = PLANE_LIMBO THEN {}
                               ELSE {c \in Clients : k \in Cells(view[c])}
        /\ objects_by_pos[k] = IF k[1] = PLANE_LIMBO THEN {}
                               ELSE {o \in Objects : k \in Cells(object[o])}

(* Both kinds of tables. *)
TablesAgree == TypeOK /\ CountsAgree /\ IndexesAgree

(* The messages sent to a client add up to the objects in its view, where  *)
(* they are: no message that the filter held back was needed.              *)
ScreenAgrees ==
    \A c \in Clients :
        screen[c] = {Picture(o, object[o]) : o \in {b \in Objects : Sees(c, b)}}

(* Not even halfway through a call does a client see what no view could    *)
(* show together: the code is "carefully arranged" against "an             *)
(* inconsistent view, in which (for example) two structures more than      *)
(* VIEW_SIZE distance apart are visible at the same time".                 *)
OneView ==
    \A c \in Clients : \E p \in Planes, v \in Views :
        \A s \in half[c] : s.plane = p /\ s.area \cap v # {}
=============================================================================
