------------------------------- MODULE Objects -------------------------------
(***************************************************************************)
(* The objects of a server (world/): what is attached to what, the tables  *)
(* that find objects by plane and by chunk, stable ids, and the files that *)
(* objects are written to and read back from (world/save/).                *)
(*                                                                         *)
(* A transient id is a kind and a number, the least that is free, and is   *)
(* used again.  An operator named for a change maps a world to a world, as *)
(* operations call one another (ops/).                                     *)
(***************************************************************************)
EXTENDS Integers, SequencesExt

CONSTANTS Names,              \* of players
          Pos,                \* positions of chunks; of structures, too
          Templates, Covers,  \* template -> position -> the chunks it is in
          Most,               \* bound: kind -> how many objects at a time
          MaxStable,          \* bound: kind -> the stable ids ever given out
          Pinned              \* the kinds whose stable ids scripts ask for

Kinds == {"client", "entity", "inventory", "plane", "chunk", "structure"}

ASSUME WorldAssumption ==
    /\ Most \in [Kinds -> Nat] /\ MaxStable \in [Kinds -> Nat]
    /\ Pinned \subseteq Kinds
    /\ Covers \in [Templates -> [Pos -> SUBSET Pos]]
    /\ \A t \in Templates, q \in Pos : q \in Covers[t][q]

NO_STABLE_ID == 0
STABLE_PLANE_LIMBO == 1
STABLE_PLANE_FOREST == 2
PLANE_LIMBO == <<"plane", 0>>
Nobody == <<"none", 0>>           \* not attached, no pawn

Kind(id) == id[1]
Objects(w) == DOMAIN w.obj
Those(w, kind) == {id \in Objects(w) : Kind(id) = kind}
InChunk == <<"its chunk", 0>> \* StructureAttachment::Chunk

-----------------------------------------------------------------------------
(* Ids (util/id_map.rs, util/stable_id_map.rs).                            *)

(* IdMap.insert: the first hole, or one past the end. *)
FreeId(w, kind) ==
    LET used == {id[2] : id \in Those(w, kind)} IN
    <<kind, CHOOSE n \in 0 .. Most[kind] : n \notin used /\ \A m \in 0 .. n - 1 : m \in used>>

Put(w, id, o) == [w EXCEPT !.obj = [x \in Objects(w) \cup {id} |->
                                            IF x = id THEN o ELSE w.obj[x]]]
Drop(w, id) == [w EXCEPT !.obj = [x \in Objects(w) \ {id} |-> w.obj[x]]]

GetId(w, kind, stable) ==
    LET S == {id \in Those(w, kind) : w.obj[id].stable = stable} IN
    IF stable = NO_STABLE_ID \/ S = {} THEN Nobody ELSE CHOOSE id \in S : TRUE

(* try_pin. *)
Pin(w, id) ==
    IF w.obj[id].stable # NO_STABLE_ID THEN w
    ELSE [w EXCEPT !.obj[id].stable = w.next[Kind(id)], !.next[Kind(id)] = @ + 1]

-----------------------------------------------------------------------------
(* Objects (world/mod.rs), as create_unchecked makes them.                 *)

Fresh(kind) ==
    CASE kind = "client"    -> [stable |-> 0, pawn |-> Nobody, kids |-> {}]
      [] kind = "entity"    -> [stable |-> 0, on |-> Nobody, home |-> 0,
                                plane |-> PLANE_LIMBO, kids |-> {}]
      [] kind = "inventory" -> [stable |-> 0, on |-> Nobody]
      [] kind = "plane"     -> [stable |-> 0, loaded |-> << >>, saved |-> << >>]
      [] kind = "chunk"     -> [stable |-> 0, plane |-> PLANE_LIMBO,
                                pos |-> CHOOSE q \in Pos : TRUE, pending |-> FALSE, kids |-> {}]
      [] kind = "structure" -> [stable |-> 0, on |-> Nobody, plane |-> PLANE_LIMBO,
                                pos |-> CHOOSE q \in Pos : TRUE,
                                template |-> CHOOSE t \in Templates : TRUE, kids |-> {}]

AddKid(w, parent, id) ==
    IF parent \in Objects(w) THEN [w EXCEPT !.obj[parent].kids = @ \cup {id}] ELSE w
RemoveKid(w, parent, id) ==
    IF parent \in Objects(w) THEN [w EXCEPT !.obj[parent].kids = @ \ {id}] ELSE w

(* The hooks tell the scripts that an object is gone: its data goes, too.  *)
(* They are not told of planes.                                            *)
Forget(w, id) == [w EXCEPT !.extra = [x \in DOMAIN w.extra \ {id} |-> w.extra[x]]]

EntityTable(w, e) == IF w.obj[e].plane = PLANE_LIMBO THEN "limbo" ELSE "by_plane"
EntityKey(w, e) == IF w.obj[e].plane = PLANE_LIMBO THEN w.obj[e].home ELSE w.obj[e].plane

EntityFiled(w, e) ==
    IF EntityTable(w, e) = "limbo" THEN [w EXCEPT !.limbo[EntityKey(w, e)] = @ \cup {e}]
    ELSE [w EXCEPT !.by_plane[EntityKey(w, e)] = @ \cup {e}]

(* entity::post_init and pre_fini. *)
EntityEntered(w, e) ==
    LET p == GetId(w, "plane", w.obj[e].home) IN
    EntityFiled([w EXCEPT !.obj[e].plane = IF p = Nobody THEN PLANE_LIMBO ELSE p], e)
EntityLeft(w, e) ==
    IF EntityTable(w, e) = "limbo" THEN [w EXCEPT !.limbo[EntityKey(w, e)] = @ \ {e}]
    ELSE [w EXCEPT !.by_plane[EntityKey(w, e)] = @ \ {e}]

PlaneOfEntities(w, S, p) ==
    [w EXCEPT !.obj = [x \in Objects(w) |->
                        IF x \in S THEN [w.obj[x] EXCEPT !.plane = p] ELSE w.obj[x]]]

MutPlaneEntered(w, p) == Pin(w, p)       \* those that wait for it are left in limbo

Moved(w, es, to, limbo, here) ==
    IF es = {} THEN w
    ELSE [PlaneOfEntities(w, es, to) EXCEPT !.limbo[w.obj[here].stable] = limbo,
                                            !.by_plane[here] = es \ limbo]
LeaveLimbo(w, p) == Moved(w, w.limbo[w.obj[p].stable], p, {}, p)
EnterLimbo(w, p) == Moved(w, w.by_plane[p], PLANE_LIMBO, w.by_plane[p], p)

(* plane::post_init, the entities that wait for it leave limbo; pre_fini.  *)
PlaneEntered(w, p) == LeaveLimbo(Pin(w, p), p)
PlaneLeft(w, p) == EnterLimbo(Pin(w, p), p)

(* terrain_chunk::post_init and pre_fini: by position, whatever is there;  *)
(* the plane may be gone.                                                  *)
ChunkEntered(w, c) ==
    LET o == w.obj[c] IN
    [w EXCEPT !.obj[o.plane].loaded =
        [q \in DOMAIN @ \cup {o.pos} |-> IF q = o.pos THEN c ELSE @[q]]]
ChunkLeft(w, c) ==
    LET o == w.obj[c] IN
    IF o.plane \in Objects(w)
    THEN [w EXCEPT !.obj[o.plane].loaded = [q \in DOMAIN @ \ {o.pos} |-> @[q]]]
    ELSE w

Footprint(o) == {<<o.plane, q>> : q \in Covers[o.template][o.pos]}
StructureEntered(w, s) ==
    [w EXCEPT !.by_chunk = [k \in DOMAIN @ |->
        IF k \in Footprint(w.obj[s]) THEN @[k] \cup {s} ELSE @[k]]]
StructureLeft(w, s) ==
    [w EXCEPT !.by_chunk = [k \in DOMAIN @ |->
        IF k \in Footprint(w.obj[s]) THEN @[k] \ {s} ELSE @[k]]]

-----------------------------------------------------------------------------
(* destroy: the object first, then what is attached to it.                 *)

InventoryDestroyed(i, w) ==
    Forget(RemoveKid(Drop(w, i), w.obj[i].on, i), i)

MutEntityGone(w, e) ==      \* its owner keeps it as a child
    LET on == w.obj[e].on IN
    IF on \in Objects(w) /\ w.obj[on].pawn = e THEN [w EXCEPT !.obj[on].pawn = Nobody] ELSE w

(* Its owner has one child less, and perhaps no pawn. *)
EntityGone(w, e) ==
    LET on == w.obj[e].on IN
    IF on \in Objects(w) /\ w.obj[on].pawn = e
    THEN [RemoveKid(w, on, e) EXCEPT !.obj[on].pawn = Nobody] ELSE RemoveKid(w, on, e)

EntityDestroyed(e, w) ==
    Forget(FoldSet(InventoryDestroyed, Drop(EntityGone(EntityLeft(w, e), e), e), w.obj[e].kids), e)

ClientDestroyed(c, w) ==
    LET kids == w.obj[c].kids IN
    Forget(FoldSet(InventoryDestroyed,
                   FoldSet(EntityDestroyed, Drop(w, c), {k \in kids : Kind(k) = "entity"}),
                   {k \in kids : Kind(k) = "inventory"}), c)

StructureGone(w, s) ==
    LET o == w.obj[s] IN
    IF /\ o.on = InChunk /\ o.plane \in Objects(w)
       /\ o.pos \in DOMAIN w.obj[o.plane].loaded
    THEN RemoveKid(w, w.obj[o.plane].loaded[o.pos], s) ELSE w
StructureDestroyed(s, w) ==
    Forget(FoldSet(InventoryDestroyed, Drop(StructureGone(StructureLeft(w, s), s), s),
                   w.obj[s].kids), s)

ChunkDestroyed(c, w) ==
    FoldSet(StructureDestroyed, Drop(ChunkLeft(w, c), c), w.obj[c].kids)

LoadedChunks(w, p) == {w.obj[p].loaded[q] : q \in DOMAIN w.obj[p].loaded}
PlaneDestroyed(p, w) ==
    FoldSet(ChunkDestroyed, Drop(PlaneLeft(w, p), p), LoadedChunks(w, p))

-----------------------------------------------------------------------------
(* attach: the new parent is told first, then the old one.                 *)

Attached(w, id, on) ==
    IF on = w.obj[id].on THEN w
    ELSE RemoveKid([AddKid(w, on, id) EXCEPT !.obj[id].on = on], w.obj[id].on, id)

(* Its chunk is the one its position is in. *)
ChunkOf(w, s) == w.obj[w.obj[s].plane].loaded[w.obj[s].pos]
StructureAttached(w, s, on) ==
    IF on = w.obj[s].on THEN w
    ELSE LET w1 == IF on = InChunk THEN AddKid(w, ChunkOf(w, s), s)
                   ELSE RemoveKid(w, ChunkOf(w, s), s)
         IN  [w1 EXCEPT !.obj[s].on = on]

-----------------------------------------------------------------------------
(* Files: the objects of a tree, each before those attached to it, with    *)
(* the fields that are written.  An id in a file stands for an object of   *)
(* the file, whatever its number.                                          *)

Written(kind) ==
    CASE kind = "client" -> {"stable", "pawn"}
      [] kind = "entity" -> {"stable", "home"}
      [] kind = "inventory" -> {"stable"}
      [] kind = "plane" -> {"stable", "saved"}
      [] kind = "chunk" -> {"stable", "pending"}
      [] kind = "structure" -> {"stable", "pos", "template"}

(* What the scripts keep about an object. *)
Extra(w, id) == IF id \in DOMAIN w.extra THEN w.extra[id] ELSE Nobody

Entry(w, id, under) ==
    [id |-> id, under |-> under,
     is |-> [f \in Written(Kind(id)) |-> w.obj[id][f]],
     extra |-> Extra(w, id)]

Flat(w, ids, under, Below(_)) ==
    FoldLeft(LAMBDA s, id : s \o <<Entry(w, id, under)>> \o Below(id), << >>, SetToSeq(ids))
Kids(w, id, kind) == {k \in w.obj[id].kids : Kind(k) = kind}
Nothing(id) == << >>
InventoriesOf(w, id) == Flat(w, Kids(w, id, "inventory"), id, Nothing)
EntitiesBelow(w, S, under) == Flat(w, S, under, LAMBDA e : InventoriesOf(w, e))

ClientFile(w, c) == <<Entry(w, c, Nobody)>> \o EntitiesBelow(w, Kids(w, c, "entity"), c)
                        \o InventoriesOf(w, c)
PlaneFile(w, p) == <<Entry(w, p, Nobody)>>
ChunkFile(w, c) ==
    <<Entry(w, c, Nobody)>> \o Flat(w, w.obj[c].kids, InChunk, LAMBDA s : InventoriesOf(w, s))
WorldFile(w) ==
    EntitiesBelow(w, {e \in Those(w, "entity") : w.obj[e].on = Nobody}, Nobody)
        \o Flat(w, {i \in Those(w, "inventory") : w.obj[i].on = Nobody}, Nobody, Nothing)

Pawns(en) == {en.is[f] : f \in DOMAIN en.is \cap {"pawn"}} \ {Nobody}
Refs(en) == Pawns(en) \cup ({en.extra} \ {Nobody})
Defined(file) == {file[k].id : k \in DOMAIN file}
Mentioned(file) == Defined(file) \cup UNION {Refs(file[k]) : k \in DOMAIN file}
(* handle_missing, and check_objs of the reader. *)
Complete(file) == \A k \in DOMAIN file : Refs(file[k]) \subseteq Defined(file)

-----------------------------------------------------------------------------
(* Reading a file.  ids: what its ids stand for.  made: the new objects.   *)

Reading(w) == [w |-> w, ids |-> << >>, ok |-> TRUE]
Made(st) == {st.ids[k] : k \in DOMAIN st.ids}

(* read_id: the first mention makes the object. *)
Mention(id, st) ==
    IF id \in DOMAIN st.ids THEN st
    ELSE LET new == FreeId(st.w, Kind(id)) IN
         [st EXCEPT !.w = Put(st.w, new, Fresh(Kind(id))),
                    !.ids = [k \in DOMAIN st.ids \cup {id} |->
                                IF k = id THEN new ELSE st.ids[k]]]

Entered(w, id) ==
    CASE Kind(id) = "entity" -> EntityEntered(w, id)
      [] Kind(id) = "plane" -> PlaneEntered(w, id)
      [] Kind(id) = "chunk" -> ChunkEntered(w, id)
      [] Kind(id) = "structure" -> StructureEntered(w, id)
      [] OTHER -> w
Left(w, id) ==
    CASE Kind(id) = "entity" -> EntityLeft(w, id)
      [] Kind(id) = "plane" -> PlaneLeft(w, id)
      [] Kind(id) = "chunk" -> ChunkLeft(w, id)
      [] Kind(id) = "structure" -> StructureLeft(w, id)
      [] OTHER -> w

(* The fields that come from the file, from where it is read, and as made. *)
FieldsRead(st, en, id, where) ==
    [f \in DOMAIN st.w.obj[id] |->
        IF f = "pawn" THEN (IF en.is.pawn = Nobody THEN Nobody ELSE st.ids[en.is.pawn])
        ELSE IF f \in DOMAIN en.is THEN en.is[f]
        ELSE IF f \in DOMAIN where /\ Kind(id) \in {"chunk", "structure"} THEN where[f]
        ELSE st.w.obj[id][f]]

MutAttachedRead(w, id, under) ==    \* what is below an entity comes to the world
    IF under = Nobody \/ Kind(under) = "entity" THEN w ELSE Attached(w, id, under)

AttachedRead(w, id, under) ==
    IF under = Nobody THEN w
    ELSE IF under = InChunk THEN StructureAttached(w, id, InChunk)
    ELSE Attached(w, id, under)

(* One object: its id and those that its fields mention, its fields, the   *)
(* scripts' data, its place.  Reading may stop before the fields are set,  *)
(* or after post_init, before the scripts have their data.                 *)
ReadHeader(st, en) == FoldSet(Mention, Mention(en.id, st), Pawns(en))
ReadFields(st, en, id, where) ==
    [st EXCEPT !.w = Entered([@ EXCEPT !.obj[id] = FieldsRead(st, en, id, where)], id)]
ReadExtra(st, en, id) ==
    IF en.extra = Nobody THEN [st EXCEPT !.w = Forget(@, id)]
    ELSE LET Known(s) == [s EXCEPT !.w.extra = [x \in DOMAIN @ \cup {id} |->
                                        IF x = id THEN s.ids[en.extra] ELSE @[x]]]
         IN  Known(Mention(en.extra, st))
ReadPlace(st, en, id) ==
    [st EXCEPT !.w = AttachedRead(@, id,
        IF en.under \in {Nobody, InChunk} THEN en.under ELSE st.ids[en.under])]

Fields(st, en, id, where, part) ==
    IF part = "header" \/ GetId(st.w, Kind(id), en.is.stable) # Nobody
    THEN [st EXCEPT !.ok = FALSE]
    ELSE IF part = "fields" THEN [ReadFields(st, en, id, where) EXCEPT !.ok = FALSE]
    ELSE ReadPlace(ReadExtra(ReadFields(st, en, id, where), en, id), en, id)
ReadFrom(st, en, where, part) == Fields(st, en, st.ids[en.id], where, part)

ReadUntil(w, file, where, stop, part) ==
    LET Step(st, k) ==
            IF ~st.ok THEN st
            ELSE ReadFrom(ReadHeader(st, file[k]), file[k], where,
                          IF k = stop THEN part ELSE "whole")
        st == FoldLeft(Step, Reading(w), [k \in 1 .. Len(file) |-> k])
    IN  [st EXCEPT !.ok = @ /\ Complete(file)]

MutCleanup(st) ==           \* the objects go without leaving their tables
    FoldSet(LAMBDA id, w : Forget(Drop(w, id), id), st.w, Made(st))

(* cleanup: everything this file has made goes. *)
Cleanup(st) ==
    FoldSet(LAMBDA id, w : Forget(Drop(Left(w, id), id), id), st.w, Made(st))

(* load_object. *)
Result(st) == IF st.ok THEN st.w ELSE Cleanup(st)
Loaded(w, file) == Result(ReadUntil(w, file, << >>, 0, "whole"))
=============================================================================
