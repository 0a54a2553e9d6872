-------------------------------- MODULE World --------------------------------
(***************************************************************************)
(* What requests, scripts, the chunks in use and a restart do to the       *)
(* objects of a server and to their files.  Nobody is shown limbo here, so *)
(* that its plane stays in memory (see ClientViews); files are written     *)
(* whole (see Session).  A file is forgotten here when it has been read:   *)
(* without a crash it is written again before it is read again.            *)
(***************************************************************************)
EXTENDS Objects

VARIABLES
    world,     \* the objects, their tables, the scripts' data, the next ids
    files,     \* by name, by the stable id of a plane or chunk, and "world"
    name,      \* client -> its player's name
    up,        \* is the server running?
    kept       \* history: what was written to a file, last

vars == <<world, files, name, up, kept>>

CONSTANTS Scripted,   \* the kinds that scripts keep data for
          Referred,   \* the kinds that it refers to
          Homes       \* the planes, by stable id, that entities are sent to

StableIds(kind) == 1 .. MaxStable[kind]
NoFiles == << >>
ClientKey(n) == <<"client", n>>
PlaneKey(s) == <<"plane", s>>
ChunkKey(s) == <<"chunk", s>>
WorldKey == <<"world", 0>>
Written1(fs, key, file) == [k \in DOMAIN fs \cup {key} |-> IF k = key THEN file ELSE fs[k]]
Without(fs, keys) == [k \in DOMAIN fs \ keys |-> fs[k]]

Empty ==
    [obj |-> << >>, extra |-> << >>,
     by_chunk |-> [k \in {<<"plane", n>> : n \in 0 .. Most["plane"]} \X Pos |-> {}],
     by_plane |-> [p \in {<<"plane", n>> : n \in 0 .. Most["plane"]} |-> {}],
     limbo |-> [s \in 0 .. MaxStable["plane"] |-> {}],
     next |-> [k \in Kinds |-> 1]]

CreatedPlane(w) ==
    LET p == FreeId(w, "plane") IN PlaneEntered(Put(w, p, Fresh("plane")), p)

(* A first start_up makes limbo and the forest, in that order. *)
Init ==
    /\ world = CreatedPlane(CreatedPlane(Empty))
    /\ files = NoFiles /\ kept = NoFiles
    /\ name = << >> /\ up = TRUE

-----------------------------------------------------------------------------

Fits(file) ==                                      \* bound
    \A k \in Kinds : Cardinality(Those(world, k))
        + Cardinality({id \in Mentioned(file) : Kind(id) = k}) <= Most[k]
Room(kind) == Cardinality(Those(world, kind)) < Most[kind]
Pins(w, kind) == w.next[kind] <= MaxStable[kind]   \* bound
Change(w) == up /\ world' = w /\ UNCHANGED <<files, name, up, kept>>

CreateEntity(p) ==
    /\ Room("entity") /\ world.obj[p].stable \in Homes
    /\ LET w1 == Pin(world, p)
           e == FreeId(w1, "entity") IN
        Change(EntityEntered(Put(w1, e, [Fresh("entity") EXCEPT !.home = w1.obj[p].stable]), e))

CreateInventory ==
    /\ Room("inventory")
    /\ Change(Put(world, FreeId(world, "inventory"), Fresh("inventory")))

CreatePlane == Room("plane") /\ Pins(world, "plane") /\ Change(CreatedPlane(world))

Placed(w, p, q, t) ==
    LET s == FreeId(w, "structure")
        o == [Fresh("structure") EXCEPT !.plane = p, !.pos = q, !.template = t]
    IN  StructureAttached(StructureEntered(Put(w, s, o), s), s, InChunk)

(* Placed where the cache knows all the chunks that it covers, and attached *)
(* to its own chunk. *)
CreateStructure(p, q, t) ==
    /\ Room("structure")
    /\ Covers[t][q] \subseteq DOMAIN world.obj[p].loaded
    /\ Change(Placed(world, p, q, t))

DestroyEntity(e) == Change(EntityDestroyed(e, world))
DestroyInventory(i) == Change(InventoryDestroyed(i, world))
DestroyStructure(s) == Change(StructureDestroyed(s, world))

AttachEntity(e, on) == world.obj[e].on # on /\ Change(Attached(world, e, on))
AttachInventory(i, on) == world.obj[i].on # on /\ Change(Attached(world, i, on))

(* The templates that scripts put in each other's place cover the same     *)
(* chunks: structures_by_chunk is not updated.                             *)
Replace(s, t) ==
    /\ t # world.obj[s].template
    /\ Covers[t][world.obj[s].pos] = Covers[world.obj[s].template][world.obj[s].pos]
    /\ Change([world EXCEPT !.obj[s].template = t])

SetPawn(c, e) == Change([Attached(world, e, c) EXCEPT !.obj[c].pawn = e])
ClearPawn(c) == world.obj[c].pawn # Nobody /\ Change([world EXCEPT !.obj[c].pawn = Nobody])

SetStablePlane(e, s) ==
    /\ world.obj[e].home # s
    /\ Change(EntityEntered([EntityLeft(world, e) EXCEPT !.obj[e].home = s], e))

StableId(id) ==
    /\ Kind(id) \in Pinned /\ world.obj[id].stable = NO_STABLE_ID
    /\ Pins(world, Kind(id)) /\ Change(Pin(world, id))

SetExtra(id, ref) ==
    /\ Kind(id) \in Scripted /\ Kind(ref) \in Referred
    /\ Change([world EXCEPT !.extra = Written1(@, id, ref)])

-----------------------------------------------------------------------------
(* Trees, whatever the numbers of their objects.                           *)

Marks(w, root, id) ==
    [pawn |-> Kind(root) = "client" /\ w.obj[root].pawn = id,
     extra |-> root \in DOMAIN w.extra /\ w.extra[root] = id]
Alike(S, Form(_)) == [f \in {Form(x) : x \in S} |-> Cardinality({x \in S : Form(x) = f})]
Leaf(w, root, id) ==
    <<Kind(id), [f \in Written(Kind(id)) \ {"pawn"} |-> w.obj[id][f]], Marks(w, root, id)>>
Branch(w, root, id) ==
    <<Leaf(w, root, id), Alike(Kids(w, id, "inventory"), LAMBDA i : Leaf(w, root, i))>>
Tree(w, id) ==
    <<Branch(w, id, id), Alike(w.obj[id].kids \ Kids(w, id, "inventory"),
                               LAMBDA k : Branch(w, id, k))>>

-----------------------------------------------------------------------------
(* Players (logic/client.rs).                                              *)

(* The file has whatever could be written: a reference to an object that   *)
(* is not in it is an error at its end.                                    *)
Save(key, file, tree) ==
    /\ files' = Written1(files, key, file)
    /\ kept' = IF Complete(file) THEN Written1(kept, key, tree) ELSE kept

Read(keys) == files' = Without(files, keys) /\ kept' = Without(kept, keys)
LoadFrom(st, keys) ==
    /\ up /\ world' = Result(st)
    /\ IF st.ok THEN Read(keys) ELSE UNCHANGED <<files, kept>>
    /\ UNCHANGED up

Register(n) ==
    /\ up /\ ClientKey(n) \notin DOMAIN files /\ n \notin {name[c] : c \in DOMAIN name}
    /\ Room("entity") /\ Room("client")
    /\ LET e  == FreeId(world, "entity")
           c  == FreeId(world, "client")
           w1 == EntityEntered(
                    Put(world, e, [Fresh("entity") EXCEPT !.home = STABLE_PLANE_FOREST]), e)
           w2 == Attached(Put(w1, c, Fresh("client")), e, c)
           w3 == [w2 EXCEPT !.obj[c].pawn = e]
       IN  /\ Save(ClientKey(n), ClientFile(w3, c), Tree(w3, c))
           /\ world' = ClientDestroyed(c, w3)
    /\ UNCHANGED <<name, up>>

(* A failed save leaves the client in the world. *)
Logout(c) ==
    /\ up
    /\ LET file == ClientFile(world, c) IN
        /\ Save(ClientKey(name[c]), file, Tree(world, c))
        /\ world' = IF Complete(file) THEN ClientDestroyed(c, world) ELSE world
    /\ name' = Without(name, {c})
    /\ UNCHANGED up

(* Reading may stop anywhere in the file. *)
Login(n, file, stop, part) ==
    /\ up /\ file # << >> /\ n \notin {name[c] : c \in DOMAIN name}
    /\ Fits(file)
    /\ \E st \in {ReadUntil(world, file, << >>, stop, part)} :
        /\ LoadFrom(st, {ClientKey(n)})
        /\ name' = IF st.ok THEN Written1(name, st.ids[file[1].id], n) ELSE name

-----------------------------------------------------------------------------
(* Planes and chunks (logic/chunks.rs, world/object.rs).                   *)

CreatedChunk(w, p, q) ==
    LET c == FreeId(w, "chunk") IN
    ChunkEntered(Put(w, c, [Fresh("chunk") EXCEPT !.plane = p, !.pos = q, !.pending = TRUE]), c)

(* No entries: a chunk that was unloaded before it was generated has a      *)
(* stable id and no file.                                                   *)
SavedChunk(p, q) ==
    LET saved == world.obj[p].saved IN
    IF q \in DOMAIN saved /\ ChunkKey(saved[q]) \in DOMAIN files
    THEN files[ChunkKey(saved[q])] ELSE << >>

(* From its file, or made to be generated. *)
LoadChunk(p, q, stop, part) ==
    /\ p # PLANE_LIMBO /\ Room("chunk") /\ q \notin DOMAIN world.obj[p].loaded
    /\ LET file == SavedChunk(p, q) IN
        IF file = << >> THEN Change(CreatedChunk(world, p, q))
        ELSE /\ Fits(file)
             /\ LoadFrom(ReadUntil(world, file, [plane |-> p, pos |-> q], stop, part),
                         {ChunkKey(world.obj[p].saved[q])})
             /\ UNCHANGED name

(* With the structures that were generated, wherever they reach. *)
Generated(c, S) ==
    /\ world.obj[c].pending /\ (S # {} => Room("structure"))
    /\ Change(FoldSet(LAMBDA t, w : Placed(w, w.obj[c].plane, w.obj[c].pos, t),
                      [world EXCEPT !.obj[c].pending = FALSE], S))

(* save_terrain_chunk. *)
Kept(w, c) ==
    LET w1 == Pin(w, c) IN
    [w1 EXCEPT !.obj[w.obj[c].plane].saved = Written1(@, w.obj[c].pos, w1.obj[c].stable)]
Place(w, c) == <<w.obj[w.obj[c].plane].stable, w.obj[c].pos>>

(* There is no file of a chunk that was not generated yet. *)
UnloadChunk(c) ==
    /\ up /\ (world.obj[c].stable # NO_STABLE_ID \/ Pins(world, "chunk"))
    /\ \E w \in {Kept(world, c)} :
        IF w.obj[c].pending THEN UNCHANGED <<files, kept>> /\ world' = ChunkDestroyed(c, w)
        ELSE /\ Save(ChunkKey(w.obj[c].stable), ChunkFile(w, c), <<Place(w, c), Tree(w, c)>>)
             /\ world' = IF Complete(ChunkFile(w, c)) THEN ChunkDestroyed(c, w) ELSE w
    /\ UNCHANGED <<name, up>>

(* When its last chunk is let go of. *)
UnloadPlane(p) ==
    /\ up /\ p # PLANE_LIMBO /\ world.obj[p].loaded = << >>
    /\ files' = Written1(files, PlaneKey(world.obj[p].stable), PlaneFile(world, p))
    /\ world' = PlaneDestroyed(p, world)
    /\ UNCHANGED <<name, up, kept>>

LoadPlane(s, part) ==
    /\ Room("plane") /\ PlaneKey(s) \in DOMAIN files /\ GetId(world, "plane", s) = Nobody
    /\ part = "header" => Pins(world, "plane")     \* it is given another id, then
    /\ LoadFrom(ReadUntil(world, files[PlaneKey(s)], << >>, 1, part), {PlaneKey(s)})
    /\ UNCHANGED name

-----------------------------------------------------------------------------
(* Restarting (logic/lifecycle.rs).                                        *)

(* Everybody is logged out and all chunks are unloaded by then; planes in  *)
(* the order of their ids, then the rest of the world.                     *)
ShutDown ==
    /\ up /\ Those(world, "client") = {} /\ Those(world, "chunk") = {}
    /\ LET ps == SetToSortSeq(Those(world, "plane"), LAMBDA a, b : a[2] < b[2])
           w  == FoldLeft(LAMBDA v, p : PlaneDestroyed(p, v), world, ps)
           rest == [next |-> w.next, objects |-> WorldFile(w)]
       IN  files' = Written1(
                FoldLeft(LAMBDA fs, p : Written1(fs, PlaneKey(world.obj[p].stable),
                                                 PlaneFile(world, p)), files, ps),
                WorldKey, rest)
    /\ world' = Empty /\ up' = FALSE
    /\ UNCHANGED <<name, kept>>

WithPlanes(w) == Loaded(Loaded(w, files[PlaneKey(STABLE_PLANE_LIMBO)]),
                        files[PlaneKey(STABLE_PLANE_FOREST)])

MutStartUp ==      \* stable ids are given out from the start again
    /\ ~up
    /\ world' = WithPlanes(Loaded(Empty, files[WorldKey].objects))
    /\ up' = TRUE
    /\ Read({WorldKey, PlaneKey(STABLE_PLANE_LIMBO), PlaneKey(STABLE_PLANE_FOREST)})
    /\ UNCHANGED name

(* load_world and load_plane must succeed. *)
StartUp ==
    /\ ~up
    /\ world' = WithPlanes(Loaded([Empty EXCEPT !.next = files[WorldKey].next],
                                  files[WorldKey].objects))
    /\ up' = TRUE
    /\ Read({WorldKey, PlaneKey(STABLE_PLANE_LIMBO), PlaneKey(STABLE_PLANE_FOREST)})
    /\ UNCHANGED name

-----------------------------------------------------------------------------

(* Reading stops in a part of an object of the file, or it does not. *)
Stops(file) == {<<1, "whole">>} \cup ((DOMAIN file) \X {"header", "fields"})

File(n) == IF ClientKey(n) \in DOMAIN files THEN files[ClientKey(n)] ELSE << >>

Operations ==
    \/ CreateInventory \/ CreatePlane
    \/ \E p \in Those(world, "plane") : CreateEntity(p)
    \/ \E p \in Those(world, "plane"), q \in Pos, t \in Templates : CreateStructure(p, q, t)
    \/ \E e \in Those(world, "entity") :
        \/ DestroyEntity(e)
        \/ \E on \in {Nobody} \cup Those(world, "client") : AttachEntity(e, on)
        \/ \E c \in Those(world, "client") : SetPawn(c, e)
        \/ \E s \in Homes : s < world.next["plane"] /\ SetStablePlane(e, s)
    \/ \E i \in Those(world, "inventory") :
        \/ DestroyInventory(i)
        \/ \E on \in {Nobody} \cup Those(world, "client") \cup Those(world, "entity")
                        \cup Those(world, "structure") : AttachInventory(i, on)
    \/ \E s \in Those(world, "structure") :
        DestroyStructure(s) \/ \E t \in Templates : Replace(s, t)
    \/ \E c \in Those(world, "client") : ClearPawn(c)
    \/ \E id \in Objects(world) :
        \/ StableId(id)
        \/ \E ref \in Objects(world) : SetExtra(id, ref)

Memory ==
    \/ \E n \in Names : Register(n)
    \/ \E n \in Names : \E at \in Stops(File(n)) : Login(n, File(n), at[1], at[2])
    \/ \E c \in DOMAIN name : Logout(c)
    \/ \E p \in Those(world, "plane") : UnloadPlane(p)
    \/ \E p \in Those(world, "plane"), q \in Pos :
            \E at \in Stops(SavedChunk(p, q)) : LoadChunk(p, q, at[1], at[2])
    \/ \E s \in StableIds("plane"), part \in {"header", "fields", "whole"} : LoadPlane(s, part)
    \/ \E c \in Those(world, "chunk") :
        UnloadChunk(c) \/ \E S \in {{}} \cup {{t} : t \in Templates} : Generated(c, S)
    \/ ShutDown \/ StartUp

Next == Operations \/ Memory

Spec == Init /\ [][Next]_vars

-----------------------------------------------------------------------------

Parents(w, kind) ==
    IF kind = "entity" THEN Those(w, "client")
    ELSE IF kind = "inventory"
    THEN Those(w, "client") \cup Those(w, "entity") \cup Those(w, "structure") ELSE {}
ParentOf(w, id) ==
    IF Kind(id) = "structure"
    THEN (IF w.obj[id].on = InChunk THEN ChunkOf(w, id) ELSE Nobody) ELSE w.obj[id].on

TypeOK ==
    /\ \A id \in Objects(world) :
        /\ Kind(id) \in Kinds /\ id[2] \in 0 .. Most[Kind(id)] - 1
        /\ DOMAIN world.obj[id] = DOMAIN Fresh(Kind(id))
        /\ world.obj[id].stable \in 0 .. world.next[Kind(id)] - 1
    /\ DOMAIN world.extra \subseteq Objects(world)
    /\ DOMAIN name \subseteq Those(world, "client") /\ up \in BOOLEAN

(* Whatever is created, attached elsewhere, destroyed with what it is      *)
(* attached to, written and read back, half read and thrown away: an       *)
(* object is attached to one that exists, which has it among its children, *)
(* and nobody else has; a plane finds its chunks where they are.           *)
TreeAgrees ==
    /\ \A id \in Objects(world) : Kind(id) \in {"client", "entity", "chunk", "structure"} =>
            world.obj[id].kids =
                {k \in Objects(world) : Kind(k) \in {"entity", "inventory", "structure"}
                                            /\ ParentOf(world, k) = id}
    /\ \A id \in Objects(world) : Kind(id) \in {"entity", "inventory"} =>
            world.obj[id].on \in {Nobody} \cup Parents(world, Kind(id))
    /\ \A p \in Those(world, "plane") :
            world.obj[p].loaded = [q \in {world.obj[c].pos : c \in
                    {c \in Those(world, "chunk") : world.obj[c].plane = p}} |->
                CHOOSE c \in Those(world, "chunk") :
                    world.obj[c].plane = p /\ world.obj[c].pos = q]
    /\ \A c \in Those(world, "chunk") : world.obj[c].plane \in Objects(world)
    /\ \A a, b \in Those(world, "chunk") :
            world.obj[a].plane = world.obj[b].plane /\ world.obj[a].pos = world.obj[b].pos => a = b

(* An entity is on the plane it belongs to if that is in memory, whichever *)
(* came first, and waits in limbo for it otherwise; both tables and the    *)
(* structures of a chunk are what the objects say, nothing more: an id     *)
(* left behind in them would panic whoever looks it up, or be somebody     *)
(* else's by then.                                                         *)
TablesAgree ==
    /\ TypeOK
    /\ \A e \in Those(world, "entity") :
            world.obj[e].plane = LET p == GetId(world, "plane", world.obj[e].home) IN
                                 IF p = Nobody THEN PLANE_LIMBO ELSE p
    /\ \A p \in DOMAIN world.by_plane : world.by_plane[p] =
            {e \in Those(world, "entity") : world.obj[e].plane = p /\ p # PLANE_LIMBO}
    /\ \A s \in DOMAIN world.limbo : world.limbo[s] =
            {e \in Those(world, "entity") : world.obj[e].plane = PLANE_LIMBO
                                            /\ world.obj[e].home = s}
    /\ \A k \in DOMAIN world.by_chunk : world.by_chunk[k] =
            {s \in Those(world, "structure") : k \in Footprint(world.obj[s])}

(* A client or a chunk that is read back is what was last written of it:   *)
(* the same tree with the same stable ids, pawn and data, though every     *)
(* object has a new number, and for a chunk in the same place.  Restarts   *)
(* and other objects' stable ids do not come between.                      *)
ReadAsWritten ==
    [][/\ \A c \in DOMAIN name' \ DOMAIN name : Tree(world', c) = kept[ClientKey(name'[c])]
       /\ \A c \in Those(world', "chunk") \ Those(world, "chunk") :
            LET o == world'.obj[c] IN
            o.stable # NO_STABLE_ID =>
                kept[ChunkKey(o.stable)] = <<<<world'.obj[o.plane].stable, o.pos>>,
                                             Tree(world', c)>>]_vars

(* A player's or a chunk's file that cannot be read, wherever reading      *)
(* stops and whatever is in memory by then, leaves nothing behind: no      *)
(* object, no entry of a table, no data of the scripts.                    *)
LeavesNothing(file, where) ==
    file # << >> /\ Fits(file) =>
        \A at \in Stops(file) :
            \E st \in {ReadUntil(world, file, where, at[1], at[2])} : st.ok \/ Result(st) = world
AllOrNothing ==
    up => /\ \A n \in Names : LeavesNothing(File(n), << >>)
          /\ \A p \in Those(world, "plane"), q \in Pos :
                q \notin DOMAIN world.obj[p].loaded =>
                    LeavesNothing(SavedChunk(p, q), [plane |-> p, pos |-> q])

(* Of a chunk in memory that its plane has a stable id for, that id is its *)
(* own, unless it was never generated while it had it.                     *)
SavedChunksAgree ==
    \A p \in Those(world, "plane") :
        LET o == world.obj[p] IN
        \A q \in DOMAIN o.saved \cap DOMAIN o.loaded :
            \/ world.obj[o.loaded[q]].stable = o.saved[q]
            \/ world.obj[o.loaded[q]].stable = NO_STABLE_ID
                    /\ ChunkKey(o.saved[q]) \notin DOMAIN files
=============================================================================
