---------------------------- MODULE EntityTimers -----------------------------
(***************************************************************************)
(* Who uses the wake queue.  An entity's next physics update and a         *)
(* client's next view update are timers; logic/extra.rs remembers their    *)
(* cookies by entity and client, and logic/world.rs cancels the remembered *)
(* timer before it schedules the next one.  A player's input is a timer    *)
(* too, whose cookie nobody remembers.                                     *)
(*                                                                         *)
(* A remembered cookie is not forgotten when its timer fires or when its   *)
(* entity is destroyed, and entity numbers are used again as cookies are.  *)
(* The queue is here what WakeQueue shows it to be: any item may come back *)
(* at any time, each of them once.                                         *)
(***************************************************************************)
EXTENDS Integers, FiniteSetsExt

CONSTANTS NumEntities,   \* bound: entities alive at a time
          NumClients,    \* bound: clients logged in at a time
          NumCookies     \* bound: items in the queue

VARIABLES
    entities,            \* the entities alive
    pawn,                \* the clients logged in, and the pawn each controls
    items,               \* the wake queue's items
    timers               \* Extra: the cookie remembered for each timer

vars == <<entities, pawn, items, timers>>

Eids    == 0 .. NumEntities - 1
Cids    == 0 .. NumClients - 1
Cookies == 0 .. NumCookies - 1
None    == -1

Physics(e) == [kind |-> "physics", id |-> e]
View(c)    == [kind |-> "view", id |-> c]
Input(c)   == [kind |-> "input", id |-> c]
Timers     == {Physics(e) : e \in Eids} \cup {View(c) : c \in Cids}
NoItem     == [what |-> [kind |-> "none", id |-> None], cancelled |-> FALSE]

Vacant(its) == {k \in Cookies : its[k] = NoItem}
Live        == Cookies \ Vacant(items)
Clients     == {c \in Cids : pawn[c].online}
Offline     == [online |-> FALSE, eid |-> None]

(* The numbers an IdMap gives out; of those for items, any that is vacant. *)
NewCookie(its) == CHOOSE k \in Vacant(its) : TRUE
NewEntity(e) == e \in Eids \ entities /\ e = Min(Eids \ entities)
NewClient(c) == c \in Cids \ Clients /\ c = Min(Cids \ Clients)

(* Bound: an operation starts only if it cannot run out of cookies. *)
Room == \E j, k \in Vacant(items) : j # k

Init ==
    /\ entities = {}
    /\ pawn = [c \in Cids |-> Offline]
    /\ items = [k \in Cookies |-> NoItem]
    /\ timers = [o \in Timers |-> None]

-----------------------------------------------------------------------------
(* The queue's operations, on a pair of items and timers that are passed   *)
(* from one to the next.                                                   *)

Cancelled(its, k) ==
    IF k = None \/ its[k] = NoItem THEN its ELSE [its EXCEPT ![k].cancelled = TRUE]

Rescheduled(q, o, again) ==
    LET its == Cancelled(q.items, q.timers[o])
    IN IF again
       THEN [items |-> [its EXCEPT ![NewCookie(its)] =
                            [what |-> o, cancelled |-> FALSE]],
             timers |-> [q.timers EXCEPT ![o] = NewCookie(its)]]
       ELSE [items |-> its, timers |-> [q.timers EXCEPT ![o] = None]]

(* The clients whose view follows entity e. *)
Owners(e) == {c \in Clients : pawn[c].eid = e}

(* schedule_view_update: whether there is a next update depends on where   *)
(* the pawn is heading.                                                    *)
ViewScheduled(q, e, again) ==
    IF Owners(e) = {} THEN q
    ELSE Rescheduled(q, View(CHOOSE c \in Owners(e) : TRUE), again)

(* on_entity_motion_change *)
MotionChanged(q, e, again) ==
    ViewScheduled(Rescheduled(q, Physics(e), TRUE), e, again)

Become(q) == items' = q.items /\ timers' = q.timers

Queue == [items |-> items, timers |-> timers]
Retrieved(k) == [Queue EXCEPT !.items[k] = NoItem]

-----------------------------------------------------------------------------

CreateEntity(e) ==
    /\ NewEntity(e) /\ Room
    /\ entities' = entities \cup {e}
    /\ Become(Rescheduled(Queue, Physics(e), TRUE))
    /\ UNCHANGED pawn

DestroyEntity(e) ==
    /\ e \in entities
    /\ entities' = entities \ {e}
    /\ pawn' = [c \in Cids |-> IF pawn[c].eid = e
                               THEN [pawn[c] EXCEPT !.eid = None] ELSE pawn[c]]
    /\ UNCHANGED <<items, timers>>

(* The pawn comes from the client's file.  It is created before Vision     *)
(* knows the client, so that no view update is scheduled.                  *)
Login(c, e) ==
    /\ NewClient(c) /\ NewEntity(e) /\ Room
    /\ entities' = entities \cup {e}
    /\ pawn' = [pawn EXCEPT ![c] = [online |-> TRUE, eid |-> e]]
    /\ Become(Rescheduled(Queue, Physics(e), TRUE))

Logout(c) ==
    /\ c \in Clients
    /\ entities' = entities \ {pawn[c].eid}
    /\ pawn' = [pawn EXCEPT ![c] = Offline]
    /\ UNCHANGED <<items, timers>>

(* register() creates the new player's pawn, saves it and destroys it. *)
Register(e) ==
    /\ NewEntity(e) /\ Room
    /\ Become(Rescheduled(Queue, Physics(e), TRUE))
    /\ UNCHANGED <<entities, pawn>>

InputRequest(c) ==
    /\ c \in Clients /\ Room
    /\ items' = [items EXCEPT ![NewCookie(items)] =
                    [what |-> Input(c), cancelled |-> FALSE]]
    /\ UNCHANGED <<entities, pawn, timers>>

-----------------------------------------------------------------------------
(* An item comes back.  Its callback is run unless it was cancelled.       *)

RetrieveCancelled(k) ==
    /\ k \in Live /\ items[k].cancelled
    /\ Become(Retrieved(k))
    /\ UNCHANGED <<entities, pawn>>

(* Both update_physics and input compute a new motion for an entity. *)
RetrieveMotion(k, e, again) ==
    /\ k \in Live /\ ~items[k].cancelled /\ Vacant(items) # {}
    /\ items[k].what = Physics(e) \/ (\E c \in Owners(e) : items[k].what = Input(c))
    /\ Become(IF e \in entities THEN MotionChanged(Retrieved(k), e, again)
                                ELSE Retrieved(k))
    /\ UNCHANGED <<entities, pawn>>

RetrieveView(k, c, again) ==
    /\ k \in Live /\ items[k] = [what |-> View(c), cancelled |-> FALSE]
    /\ Become(IF c \in Clients /\ pawn[c].eid # None
              THEN ViewScheduled(Retrieved(k), pawn[c].eid, again)
              ELSE Retrieved(k))
    /\ UNCHANGED <<entities, pawn>>

(* input() for a client that is gone or has no pawn. *)
RetrieveIdleInput(k, c) ==
    /\ k \in Live /\ items[k] = [what |-> Input(c), cancelled |-> FALSE]
    /\ pawn[c].eid = None
    /\ Become(Retrieved(k))
    /\ UNCHANGED <<entities, pawn>>

Retrieve(k) ==
    \/ RetrieveCancelled(k)
    \/ \E e \in Eids, again \in BOOLEAN : RetrieveMotion(k, e, again)
    \/ \E c \in Cids, again \in BOOLEAN : RetrieveView(k, c, again)
    \/ \E c \in Cids : RetrieveIdleInput(k, c)

Next ==
    \/ \E e \in Eids : CreateEntity(e) \/ DestroyEntity(e) \/ Register(e)
    \/ \E c \in Cids, e \in Eids : Login(c, e)
    \/ \E c \in Cids : Logout(c) \/ InputRequest(c)
    \/ \E k \in Cookies : Retrieve(k)

Spec == Init /\ [][Next]_vars

-----------------------------------------------------------------------------

TypeOK ==
    /\ entities \subseteq Eids
    /\ pawn \in [Cids -> [online : BOOLEAN, eid : Eids \cup {None}]]
    /\ items \in [Cookies -> {NoItem} \cup
            [what : Timers \cup {Input(c) : c \in Cids}, cancelled : BOOLEAN]]
    /\ timers \in [Timers -> Cookies \cup {None}]

(* However old the remembered cookies are, an update that will run is the  *)
(* last one that was asked for: an entity never has two physics updates    *)
(* going, nor a client two view updates (schedule_physics_update and       *)
(* schedule_view_update).                                                  *)
LatestTimer ==
    \A k \in Live : ~items[k].cancelled /\ items[k].what \in Timers
                        => timers[items[k].what] = k
=============================================================================
