----------------------------- MODULE ClientViews -----------------------------
(***************************************************************************)
(* What players are shown, from login to logout (logic/client.rs): the     *)
(* planes that World has in memory, the pawns on them and those waiting in *)
(* limbo for theirs, the views that Vision keeps, the chunks that are held *)
(* for them, and the timers that make a view follow its pawn.              *)
(*                                                                         *)
(* Chunks proves that what is held is in memory, Vision that a view shows  *)
(* what is in it, EntityTimers that a client has one view update at most.  *)
(* A client keeps its id here.                                             *)
(***************************************************************************)
EXTENDS Integers, FiniteSets

CONSTANTS Clients,
          StablePlanes,     \* the stable ids of planes
          STABLE_PLANE_LIMBO, STABLE_PLANE_FOREST,
          Pos, Centers,     \* chunk positions, and those a pawn can be in
          View,             \* center: the region seen from it (vision_region)
          Near,             \* position: what Chunks keeps in memory for it
          Start             \* where register puts a pawn

ASSUME ClientViewsAssumption ==
    /\ STABLE_PLANE_LIMBO \in StablePlanes /\ STABLE_PLANE_FOREST \in StablePlanes
    /\ STABLE_PLANE_LIMBO # STABLE_PLANE_FOREST
    /\ IsFiniteSet(StablePlanes) /\ IsFiniteSet(Clients)
    /\ Start \in Centers
    /\ View \in [Centers -> (SUBSET Pos) \ {{}}] /\ Near \in [Pos -> SUBSET Pos]
    /\ \A q \in Pos : q \in Near[q]

VARIABLES
    world,      \* planes and pawns: see Init
    made,       \* the planes that have been created
    view,       \* Vision: the plane and center of each client's view
    used,       \* Chunks: how many users each position of a plane has
    pending,    \* the client's view update: none, now, or at a crossing
    surprises   \* hidden loads or unloads of the last step that a client saw

vars == <<world, made, view, used, pending, surprises>>

PlaneIds == 0 .. Cardinality(StablePlanes) - 1
PLANE_LIMBO == 0
NotLoaded == -1
NoView == [plane |-> NotLoaded, center |-> Start]
Online == {c \in Clients : view[c] # NoView}

(* What start_up loads. *)
FirstPlanes ==
    [s \in StablePlanes |-> IF s = STABLE_PLANE_LIMBO THEN 0
                            ELSE IF s = STABLE_PLANE_FOREST THEN 1 ELSE NotLoaded]

(* ids: the transient id of a plane.  pawn: the plane it belongs to, the id *)
(* it has in the world, where it is, where its motion leads, and whether    *)
(* it came there by it; the pawn of a client that is offline is in its file.   *)
(* by_plane, in_limbo: entities_by_plane and limbo_entities.                *)
Init ==
    /\ world = [ids |-> FirstPlanes,
                pawn |-> [c \in Clients |->
                    [home |-> STABLE_PLANE_FOREST, plane |-> NotLoaded,
                     pos |-> Start, to |-> Start, crossed |-> FALSE]],
                by_plane |-> [i \in PlaneIds |-> {}],
                in_limbo |-> [s \in StablePlanes |-> {}]]
    /\ made = {STABLE_PLANE_LIMBO, STABLE_PLANE_FOREST}
    /\ view = [c \in Clients |-> NoView]
    /\ used = [i \in PlaneIds |-> [q \in Pos |-> 0]]
    /\ pending = [c \in Clients |-> "none"]
    /\ surprises = {}

-----------------------------------------------------------------------------
(* Operations of World. *)

NewPlaneId(w) ==
    CHOOSE i \in PlaneIds : /\ \A s \in StablePlanes : w.ids[s] # i
                            /\ \A j \in 0 .. i - 1 : \E s \in StablePlanes : w.ids[s] = j

Moved(w, pawns, i) ==
    [c \in Clients |-> IF c \in pawns THEN [w.pawn[c] EXCEPT !.plane = i] ELSE w.pawn[c]]

(* A plane comes into memory, and the pawns that waited for it go there. *)
MutAddPlane(w, s) ==        \* those that wait are left waiting
    [w EXCEPT !.ids[s] = NewPlaneId(w)]
AddPlane(w, s) ==
    LET i == NewPlaneId(w)
        waiting == w.in_limbo[s]
    IN [ids |-> [w.ids EXCEPT ![s] = i],
        pawn |-> Moved(w, waiting, i),
        by_plane |-> [w.by_plane EXCEPT ![i] = IF waiting = {} THEN @ ELSE waiting],
        in_limbo |-> [w.in_limbo EXCEPT ![s] = {}]]

(* A plane is saved and destroyed; its pawns wait in limbo. *)
RemovePlane(w, i) ==
    LET s == CHOOSE s \in StablePlanes : w.ids[s] = i
        there == w.by_plane[i]
    IN [ids |-> [w.ids EXCEPT ![s] = NotLoaded],
        pawn |-> Moved(w, there, PLANE_LIMBO),
        by_plane |-> [w.by_plane EXCEPT ![i] = {}],
        in_limbo |-> [w.in_limbo EXCEPT ![s] = IF there = {} THEN @ ELSE there]]

IdOrLimbo(w, s) == IF w.ids[s] = NotLoaded THEN PLANE_LIMBO ELSE w.ids[s]

(* Entering a pawn in the table of its plane, and taking it out. *)
Entered(w, c, s) ==
    LET i == IdOrLimbo(w, s)
        placed == [w EXCEPT !.pawn[c] = [@ EXCEPT !.home = s, !.plane = i]]
    IN IF i = PLANE_LIMBO THEN [placed EXCEPT !.in_limbo[s] = @ \cup {c}]
       ELSE [placed EXCEPT !.by_plane[i] = @ \cup {c}]

TakenOut(w, c) ==
    IF w.pawn[c].plane = PLANE_LIMBO
    THEN [w EXCEPT !.in_limbo[w.pawn[c].home] = @ \ {c}]
    ELSE [w EXCEPT !.by_plane[w.pawn[c].plane] = @ \ {c}]

SetStablePlane(w, c, s) ==
    IF s = w.pawn[c].home THEN w ELSE Entered(TakenOut(w, c), c, s)

SetMotion(w, c, pos, to) ==
    [w EXCEPT !.pawn[c] = [@ EXCEPT !.pos = pos, !.to = to, !.crossed = FALSE]]

(* Whose pawn changes planes from w to w2; their hooks are called. *)
ChangedPlane(w, w2) == {c \in Clients : w.pawn[c].plane # w2.pawn[c].plane}

GetPlane(w, s) == IF w.ids[s] = NotLoaded THEN AddPlane(w, s) ELSE w

-----------------------------------------------------------------------------
(* Timers: a view update is scheduled for each hooked client that Vision   *)
(* knows.  Only the region is compared.                                    *)

MutDue(p, v) == IF p.to # p.pos THEN "crossing" ELSE "none"  \* walking only
Due(p, v) == IF p.pos # v.center THEN "now"
             ELSE IF p.to # p.pos THEN "crossing" ELSE "none"

Scheduled(w, views, hooked) ==
    [c \in Clients |-> IF c \in hooked /\ views[c] # NoView
                       THEN Due(w.pawn[c], views[c]) ELSE pending[c]]

(* Chunks: `used' with more or fewer users, what is in memory for it, and  *)
(* the plane that goes with its last user.                                 *)
More(u, i, region) == [u EXCEPT ![i] = [q \in Pos |-> IF q \in region THEN @[q] + 1 ELSE @[q]]]
Fewer(u, i, region) == [u EXCEPT ![i] = [q \in Pos |-> IF q \in region THEN @[q] - 1 ELSE @[q]]]
InMemory(u) == {k \in PlaneIds \X Pos : \E q \in Pos : u[k[1]][q] > 0 /\ k[2] \in Near[q]}

WithoutUnused(w, u, i) ==
    IF \A q \in Pos : u[i][q] = 0 THEN RemovePlane(w, i) ELSE w

(* Who sees one of the given chunks: nothing is seen in limbo. *)
Seen(chunks, views) ==
    {d \in Clients : /\ views[d] # NoView /\ views[d].plane # PLANE_LIMBO
                     /\ \E q \in View[views[d].center] : <<views[d].plane, q>> \in chunks}

-----------------------------------------------------------------------------
(* The pawn is loaded with its client, into its plane or limbo.  The hooks *)
(* called for it find no view yet.  A second login of a name first logs    *)
(* the first one out: Logout and Login.                                    *)
Login(c) ==
    LET home == world.pawn[c].home
        w == GetPlane(Entered(world, c, home), home)
        v == [plane |-> w.ids[home], center |-> w.pawn[c].pos]
        u == More(used, v.plane, View[v.center])
    IN /\ c \notin Online
       /\ world' = w
       /\ used' = u
       /\ view' = [view EXCEPT ![c] = v]
       /\ pending' = Scheduled(w, view, ChangedPlane(world, w))
       /\ surprises' = Seen(InMemory(u) \ InMemory(used), view)
       /\ UNCHANGED made

(* Out of Vision, then the chunks, then the pawn is saved and destroyed.   *)
(* The timer is not cancelled: its time may come while the client's next   *)
(* pawn stands still.                                                      *)
Logout(c) ==
    LET v == view[c]
        views == [view EXCEPT ![c] = NoView]
        u == Fewer(used, v.plane, View[v.center])
        w == WithoutUnused(world, u, v.plane)
    IN /\ c \in Online
       /\ world' = [TakenOut(w, c) EXCEPT !.pawn[c] = [@ EXCEPT !.plane = NotLoaded]]
       /\ used' = u
       /\ view' = views
       /\ pending' = [Scheduled(w, views, ChangedPlane(world, w))
                        EXCEPT ![c] = IF @ = "crossing" THEN "now" ELSE @]
       /\ surprises' = Seen(InMemory(used) \ InMemory(u), views)
       /\ UNCHANGED made

(* The positions of `new' that are not in `old': both are views. *)
MutBeyond(new, old) == View[new.center] \ View[old.center]
Beyond(new, old) == {q \in View[new.center] : q \notin View[old.center] \/ new.plane # old.plane}

(* The views at the time when chunks are unloaded: "in this specific order *)
(* to make sure the chunks being un/loaded are actually not in the         *)
(* client's vision".                                                       *)
MutWhenUnloading(c, new) == view
WhenUnloading(c, new) == [view EXCEPT ![c] = new]

SetView(c) ==
    LET old == view[c]
        w1  == GetPlane(world, world.pawn[c].home)
        new == [plane |-> w1.ids[world.pawn[c].home], center |-> world.pawn[c].pos]
        u1  == More(used, new.plane, Beyond(new, old))
        u2  == Fewer(u1, old.plane, Beyond(old, new))
        views == [view EXCEPT ![c] = new]
        w2  == IF Beyond(old, new) = {} THEN w1 ELSE WithoutUnused(w1, u2, old.plane)
    IN /\ world' = w2
       /\ used' = u2
       /\ view' = views
       /\ pending' = Scheduled(w2, views, ChangedPlane(world, w1) \cup ChangedPlane(w1, w2) \cup {c})
       /\ surprises' = Seen(InMemory(u1) \ InMemory(used), view)
                        \cup Seen(InMemory(u1) \ InMemory(u2), WhenUnloading(c, new))

(* The timer's callback, once its time has come. *)
UpdateView(c) ==
    /\ \/ pending[c] = "now"
       \/ pending[c] = "crossing" /\ world.pawn[c].pos # view[c].center
    /\ IF c \in Online THEN SetView(c)
       ELSE /\ pending' = [pending EXCEPT ![c] = "none"] /\ surprises' = {}
            /\ UNCHANGED <<world, view, used>>
    /\ UNCHANGED made

-----------------------------------------------------------------------------

(* Input, or the end of a motion, starts the next one (physics.rs). *)
Move(c, to) ==
    /\ c \in Online
    /\ world' = SetMotion(world, c, world.pawn[c].pos, to)
    /\ pending' = Scheduled(world', view, {c})
    /\ surprises' = {}
    /\ UNCHANGED <<made, view, used>>

(* Time passes: the pawn comes through other chunks to where its motion    *)
(* leads.  A boundary crossed in the last moment of a motion may be        *)
(* rounded past its end: nothing was scheduled for it.                     *)
Cross(c, pos) ==
    /\ c \in Online /\ world.pawn[c].pos \notin {pos, world.pawn[c].to}
    /\ world' = [world EXCEPT !.pawn[c] = [@ EXCEPT !.pos = pos, !.crossed = TRUE]]
    /\ \/ UNCHANGED pending
       \/ /\ pos = world.pawn[c].to /\ pending[c] = "crossing"
          /\ pending' = [pending EXCEPT ![c] = "none"]
    /\ surprises' = {}
    /\ UNCHANGED <<made, view, used>>

TeleportEntity(c, to) ==
    /\ c \in Online
    /\ world' = SetMotion(world, c, to, to)
    /\ pending' = Scheduled(world', view, {c})
    /\ surprises' = {}
    /\ UNCHANGED <<made, view, used>>

TeleportEntityStablePlane(c, s, to) ==
    /\ c \in Online /\ s \in made \ {STABLE_PLANE_LIMBO}
    /\ s # world.pawn[c].home
    /\ world' = SetMotion(SetStablePlane(world, c, s), c, to, to)
    /\ pending' = Scheduled(world', view, {c})
    /\ surprises' = {}
    /\ UNCHANGED <<made, view, used>>

(* To another player's pawn: the plane is its transient id; an id that is  *)
(* not in use is an error.  While that pawn waits it is the limbo plane's, *)
(* which is then unloaded as any other and its id given to the next plane: *)
(* nobody follows into limbo here.                                         *)
TeleportEntityPlane(c, d) ==
    LET i == world.pawn[d].plane
        planes == {s \in StablePlanes : world.ids[s] = i}
    IN /\ c \in Online /\ d \in Online
       /\ i # PLANE_LIMBO
       /\ IF planes = {} THEN UNCHANGED <<world, pending>>
          ELSE /\ \E s \in planes :
                    world' = SetMotion(SetStablePlane(world, c, s), c,
                                       world.pawn[d].pos, world.pawn[d].pos)
               /\ pending' = Scheduled(world', view, {c})
       /\ surprises' = {}
       /\ UNCHANGED <<made, view, used>>

(* A script makes a plane: it is in memory, and nobody is on it. *)
CreatePlane(s) ==
    /\ s \notin made
    /\ made' = made \cup {s}
    /\ world' = AddPlane(world, s)
    /\ surprises' = {}
    /\ UNCHANGED <<view, used, pending>>

(* shut_down logs everybody out and unloads what is left; start_up. *)
Restart ==
    /\ world' = [ids |-> FirstPlanes,
                 pawn |-> [c \in Clients |-> [world.pawn[c] EXCEPT !.plane = NotLoaded]],
                 by_plane |-> [i \in PlaneIds |-> {}],
                 in_limbo |-> [s \in StablePlanes |-> {}]]
    /\ view' = [c \in Clients |-> NoView]
    /\ used' = [i \in PlaneIds |-> [q \in Pos |-> 0]]
    /\ pending' = [c \in Clients |-> "none"]
    /\ surprises' = {}
    /\ UNCHANGED made

Next ==
    \/ \E c \in Clients : Login(c) \/ Logout(c) \/ UpdateView(c)
    \/ \E c \in Clients, to \in Centers : Move(c, to) \/ Cross(c, to) \/ TeleportEntity(c, to)
    \/ \E c \in Clients, s \in StablePlanes, to \in Centers : TeleportEntityStablePlane(c, s, to)
    \/ \E c, d \in Clients : c # d /\ TeleportEntityPlane(c, d)
    \/ \E s \in StablePlanes : CreatePlane(s)
    \/ Restart

Spec == Init /\ [][Next]_vars

-----------------------------------------------------------------------------

Pawns == [home : StablePlanes, plane : PlaneIds \cup {NotLoaded},
          pos : Centers, to : Centers, crossed : BOOLEAN]

Worlds == [ids : [StablePlanes -> PlaneIds \cup {NotLoaded}],
           pawn : [Clients -> Pawns],
           by_plane : [PlaneIds -> SUBSET Clients],
           in_limbo : [StablePlanes -> SUBSET Clients]]

TypeOK ==
    /\ world \in Worlds
    /\ made \subseteq StablePlanes
    /\ view \in [Clients -> {NoView} \cup [plane : PlaneIds, center : Centers]]
    /\ used \in [PlaneIds -> [Pos -> Nat]]
    /\ pending \in [Clients -> {"none", "now", "crossing"}]
    /\ surprises \subseteq Clients

(* Each chunk has as many users as there are views it is in, through all   *)
(* logins, moves and changes of plane; so every chunk in a view is in      *)
(* memory, and logging everybody out leaves none.  A view's plane is in    *)
(* memory too.                                                             *)
UsersAreViews ==
    /\ \A i \in PlaneIds, q \in Pos :
        used[i][q] = Cardinality({c \in Online : view[c].plane = i /\ q \in View[view[c].center]})
    /\ \A c \in Online : \E s \in StablePlanes : world.ids[s] = view[c].plane

(* "un/load_chunk use HiddenWorldFragment, so do the calls in this         *)
(* specific order to make sure the chunks being un/loaded are actually not *)
(* in the client's vision" (logic/client.rs 167) - nor in anybody else's.  *)
NoSurprise == surprises = {}

(* "Either `plane` refers to a loaded plane whose stable ID is             *)
(* `stable_plane`, or `plane` is `PLANE_LIMBO` and the plane with stable   *)
(* ID `stable_plane` is not loaded" (world/mod.rs 89).                     *)
PlaneOfPawn ==
    \A c \in Online : world.pawn[c].plane = IdOrLimbo(world, world.pawn[c].home)

(* "Entities in PLANE_LIMBO are not included here", and limbo_entities are *)
(* "indexed by the stable ID of their containing plane" (world/mod.rs 61): *)
(* whichever way a pawn and its plane came and went, the pawn is in the    *)
(* table where they will be looked for, and nobody who is gone is.         *)
PawnTables ==
    /\ \A i \in PlaneIds : world.by_plane[i] =
            {c \in Online : world.pawn[c].plane = i /\ i # PLANE_LIMBO}
    /\ \A s \in StablePlanes : world.in_limbo[s] =
            {c \in Online : world.pawn[c].plane = PLANE_LIMBO /\ world.pawn[c].home = s}

(* Where a pawn is and where it is looked for.                             *)
PawnsPlaced == PlaneOfPawn /\ PawnTables

(* A view is where its pawn is, or an update is pending, or the motion in  *)
(* which the pawn came there is not over: its end will schedule one.       *)
ViewFollowsPawn ==
    \A c \in Online : view[c].center # world.pawn[c].pos =>
                        pending[c] # "none" \/ world.pawn[c].crossed
=============================================================================
