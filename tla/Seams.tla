-------------------------------- MODULE Seams --------------------------------
(***************************************************************************)
(* How chunks of the forest that are generated one by one, in any order,   *)
(* come to fit together (libterrain_gen).  What a chunk shares with those  *)
(* generated later is kept in its summary: the height at every vertex,     *)
(* border included, the trees, and constraints on the heights of other     *)
(* chunks that a tree reaches into.  Summaries are in a cache of limited   *)
(* size, and in files once they had to make room.                          *)
(*                                                                         *)
(* The ground rises in steps two heights high; chunks fit together where   *)
(* they have the same step.  The vertices are a sample of a chunk's 17x17. *)
(* A vertex that nothing bears upon gets any height (algo/dsc.rs bounds    *)
(* how far it may be from its neighbours), and any wall or none in the     *)
(* hill's lowest layer, the only one there is here.                        *)
(*                                                                         *)
(* Names that TerrainGen has, too, are others here, so that a module of    *)
(* proofs can extend both.                                                 *)
(***************************************************************************)
EXTENDS Integers, SequencesExt

CONSTANTS
    Chunks,      \* positions <<x, y>>
    Seeds,       \* the vertices that are the corner of a chunk
    On,          \* chunk -> its vertices, those on its border included
    Trees,       \* chunk -> where a tree may be: [at, foot], a vertex and all
                 \* the vertices it covers
    Crowded,     \* pairs of vertices less than min_spacing apart
    Doors,       \* chunk -> where a cave may open: [door, step, edge], vertices
                 \* of the hill, those below them, and is it at its border?
    Heights,     \* bound: the heights there are, from 98
    CACHE_LIMIT,
    Again        \* the chunks that may be generated when they have been

VARIABLES
    cache,       \* the least recently used first: [pos, summ, dirty]
    stored,      \* position -> summary, in a file
    super,       \* seed -> its height in the superchunk's summary
    land,        \* history: what was generated of each chunk, unless it was lost
    panicked     \* the worker looked for a summary that was not in the cache

seamsVars == <<cache, stored, super, land, panicked>>

DIRS == << <<1, 0>>, <<1, 1>>, <<0, 1>>, <<-1, 1>>, <<-1, 0>>, <<-1, -1>>, <<0, -1>>, <<1, -1>> >>
Beside(c, dir) == <<c[1] + dir[1], c[2] + dir[2]>>

Step(h) == (h - 98) \div 2
Has(f, c) == c \in DOMAIN f
With(f, c, x) == [k \in DOMAIN f \cup {c} |-> IF k = c THEN x ELSE f[k]]
Without(f, S) == [k \in DOMAIN f \ S |-> f[k]]

(* tied: vertex -> the lower of the two heights a tree asks for.  It is a  *)
(* list, of which the last entry for a vertex counts.                      *)
Alloc(c) == [height |-> [v \in On[c] |-> 0], tied |-> << >>, trees |-> {},
             open |-> On[c], doors |-> {}]

-----------------------------------------------------------------------------
(* The cache.  st: cache and files; full: can nothing be written?  A file  *)
(* that could not be written cannot be read, either.                       *)

Cached(st, c) == \E i \in DOMAIN st.cache : st.cache[i].pos = c
Index(st, c) == CHOOSE i \in DOMAIN st.cache : st.cache[i].pos = c
Summ(st, c) == st.cache[Index(st, c)].summ
Kept(st) == {c \in Chunks : Cached(st, c) \/ Has(st.files, c)}

MutEvicted(st, full) ==             \* nothing is written
    [cache |-> Tail(st.cache), files |-> st.files]
Evicted(st, full) ==
    LET e == Head(st.cache) IN
    [cache |-> Tail(st.cache),
     files |-> IF ~e.dirty THEN st.files
               ELSE IF full THEN Without(st.files, {e.pos}) ELSE With(st.files, e.pos, e.summ)]

(* make_space, for one more. *)
MutWithSpace(st, full) ==           \* one too many goes
    IF Len(st.cache) + 1 >= CACHE_LIMIT THEN Evicted(st, full) ELSE st
WithSpace(st, full) ==
    IF Len(st.cache) + 1 > CACHE_LIMIT THEN Evicted(st, full) ELSE st

Inserted(st, c, summ) ==
    [cache |-> Append(st.cache, [pos |-> c, summ |-> summ, dirty |-> FALSE]),
     files |-> st.files]
Refreshed(st, c) ==
    [cache |-> Append(RemoveAt(st.cache, Index(st, c)), st.cache[Index(st, c)]),
     files |-> st.files]

(* load: room is made for it even if there is no file. *)
Loaded(st, c, full) ==
    IF Cached(st, c) THEN Refreshed(st, c)
    ELSE LET st1 == WithSpace(st, full)
         IN  IF Has(st1.files, c) THEN Inserted(st1, c, st1.files[c]) ELSE st1

LoadedOrCreated(st, c, full) ==
    LET st1 == Loaded(st, c, full)
    IN  IF Cached(st1, c) THEN st1 ELSE Inserted(WithSpace(st1, full), c, Alloc(c))

(* get_mut, and what is then written. *)
Updated(st, c, summ) ==
    [cache |-> [st.cache EXCEPT ![Index(st, c)] = [pos |-> c, summ |-> summ, dirty |-> TRUE]],
     files |-> st.files]

(* generate_into, up to `generate': the chunk, then the eight around it.   *)
(* seen: the summaries that were there, in this order.                     *)
Looked(g, d, full) ==
    LET st1 == Loaded(g.st, d, full)
    IN  [st |-> st1, seen |-> IF Cached(st1, d) THEN Append(g.seen, Summ(st1, d)) ELSE g.seen]
Gathered(st, c, full) ==
    LET g[k \in 0 .. Len(DIRS)] ==
            IF k = 0 THEN [st |-> LoadedOrCreated(st, c, full), seen |-> << >>]
            ELSE Looked(g[k - 1], Beside(c, DIRS[k]), full)
    IN  g[Len(DIRS)]

-----------------------------------------------------------------------------
(* Heights (forest/heightmap.rs).                                          *)

(* What the superchunk's summary says of the seeds. *)
Seeded == [v \in Seeds |-> {super[v] - 1, super[v]}]

(* load: what a summary says of a vertex it bears upon: the height it has, *)
(* then a constraint on it.                                                *)
Bears(summ) == DOMAIN summ.height \cup DOMAIN summ.tied
MutTaken(summ, v) ==                \* constraints are not looked at
    IF Has(summ.height, v) THEN {summ.height[v]} ELSE Heights
Taken(summ, v) ==
    IF Has(summ.tied, v) THEN {summ.tied[v], summ.tied[v] + 1} ELSE {summ.height[v]}

(* The last summary that bears upon a vertex counts. *)
Ranges(seen) ==
    [v \in Seeds \cup UNION {Bears(seen[i]) : i \in DOMAIN seen} |->
        LET upon == {i \in DOMAIN seen : v \in Bears(seen[i])}
        IN  IF upon = {} THEN Seeded[v] ELSE Taken(seen[Max(upon)], v)]

(* The vertices of the grid that this chunk's summary depends on. *)
Covered(c) == On[c] \cup UNION {t.foot : t \in Trees[c]}

(* What is chosen for a vertex with a range is in it. *)
Valid(ranges, v) == IF Has(ranges, v) THEN ranges[v] \cap Heights ELSE Heights

(* DscGrid::fill *)
Grids(c, ranges) ==
    {g \in [Covered(c) -> Heights] : \A v \in Covered(c) : g[v] \in Valid(ranges, v)}

-----------------------------------------------------------------------------
(* Trees (forest/trees.rs).                                                *)

(* check_placement: on level ground. *)
Stands(t, grid) == \A v \in t.foot : Step(grid[v]) = Step(grid[t.at])

(* DiskSampler, then check_placement: any trees that keep their distance   *)
(* from one another and from those of the chunks around.                   *)
Apart(t, u) == <<t.at, u.at>> \notin Crowded /\ <<u.at, t.at>> \notin Crowded
Sampled(c, seen, grid) ==
    LET placed == UNION {seen[i].trees : i \in DOMAIN seen} IN
    {ts \in SUBSET {t \in Trees[c] : Stands(t, grid)} :
        \A t \in ts : \A u \in (ts \cup placed) \ {t} : Apart(t, u)}

(* bounds.contains_inclusive *)
Extends(t, c) == ~ t.foot \subseteq On[c]

(* add_placement_constraints: on all the vertices the trees cover, those   *)
(* of their own chunk included.  Trees that share a vertex stand on the    *)
(* same step.                                                              *)
Tied(tied, ts, grid) ==
    [v \in DOMAIN tied \cup UNION {t.foot : t \in ts} |->
        IF \E t \in ts : v \in t.foot
        THEN LET t == CHOOSE t \in ts : v \in t.foot IN (grid[t.at] \div 2) * 2
        ELSE tied[v]]

(* save, of the heights, of the trees, and of the caves. *)
WithHeights(summ, c, grid) == [summ EXCEPT !.height = [v \in On[c] |-> grid[v]]]
WithTrees(summ, c, grid, ts) ==
    [summ EXCEPT !.trees = ts, !.tied = Tied(@, {t \in ts : Extends(t, c)}, grid)]
WithCaves(summ, ds, open) == [summ EXCEPT !.doors = ds, !.open = open]

-----------------------------------------------------------------------------
(* Caves (forest/cliff_vaults.rs, forest/caves.rs).                        *)

cutoff == 100

MutPlaced(d) == TRUE
(* Temporary::check_placement: "cave entrances placed right at the chunk   *)
(* edge may not get a chance to influence cave generation".                *)
Placed(d) == ~d.edge

(* One entrance, if there is a place for one. *)
Entrances(c, grid) ==
    LET candidates == {d \in Doors[c] : /\ Placed(d)
                                        /\ \A v \in d.door : grid[v] >= cutoff
                                        /\ \A v \in d.step : grid[v] < cutoff}
    IN  IF candidates = {} THEN {{}} ELSE {{d} : d \in candidates}

(* Caves::init: walls outside the hill, none close to the entrance.        *)
Forced(c, grid, ds) ==
    [v \in {w \in On[c] : grid[w] < cutoff \/ \E d \in ds : w \in d.door} |->
        grid[v] >= cutoff]
(* load: what is open or not in the chunks around; the last one counts. *)
Fixed(forced, seen) ==
    [v \in DOMAIN forced \cup UNION {DOMAIN seen[i].height : i \in DOMAIN seen} |->
        LET upon == {i \in DOMAIN seen : Has(seen[i].height, v)}
        IN  IF upon = {} THEN forced[v] ELSE v \in seen[Max(upon)].open]
(* CellularGrid::step changes nothing that is fixed. *)
Open(c, fixed) ==
    {o \in SUBSET On[c] : \A v \in On[c] \cap DOMAIN fixed : v \in o <=> fixed[v]}

(* get_vertex_key: what is seen of the hill at a vertex. *)
Key(summ, v) ==
    IF summ.height[v] < cutoff THEN "outside" ELSE IF v \in summ.open THEN "cave" ELSE "wall"

-----------------------------------------------------------------------------

Adjacent(c, d) == \E k \in DOMAIN DIRS : d = Beside(c, DIRS[k])

(* Trees reach no farther than the next chunk, and keep less distance than *)
(* a chunk is wide.  A place that is not at the edge is the chunk's own.   *)
(* What is generated again bears on nothing else.  And the cache has more  *)
(* room than there are chunks around one, whichever is still to come.      *)
ASSUME SeamsAssumption ==
    /\ Chunks \subseteq Int \X Int /\ Heights \subseteq Int
    /\ \A c \in Chunks : \A t \in Trees[c] : t.at \in On[c] /\ t.at \in t.foot
    /\ \A c, d \in Chunks : c = d \/ Adjacent(c, d)
                          \/ /\ Covered(c) \cap Covered(d) = {}
                             /\ \A t \in Trees[c], u \in Trees[d] : Apart(t, u)
    /\ \A c, d \in Chunks : \A e \in Doors[c] :
            \/ e.edge
            \/ e.door \subseteq On[c] /\ (c = d \/ e.door \cap On[d] = {})
    /\ \A c \in Again : On[c] = {} /\ Trees[c] = {} /\ Doors[c] = {}
    /\ \A c \in Chunks :
            \A f \in [1 .. CACHE_LIMIT - 1 ->
                        {k \in 1 .. Len(DIRS) - 1 : Beside(c, DIRS[k]) \in Chunks}] :
                \E i, j \in 1 .. CACHE_LIMIT - 1 : i # j /\ f[i] = f[j]
    /\ CACHE_LIMIT \in Nat

SeamsInit ==
    /\ cache = << >> /\ stored = << >>
    /\ super \in [Seeds -> Heights]
    /\ land = << >> /\ panicked = FALSE

Now == [cache |-> cache, files |-> stored]
(* What was lost with a summary, as it could not be written or the worker  *)
(* was killed, is not to be compared any more.                             *)
Become(st, shown, losing) ==
    /\ cache' = st.cache /\ stored' = st.files
    /\ land' = IF losing THEN [c \in DOMAIN shown \cap Kept(st) |-> shown[c]] ELSE shown

(* generate_summary: heights, trees, then caves, each of which looks for   *)
(* the same summaries again.                                               *)
Generate(c, full) ==
    /\ ~panicked /\ (Has(land, c) => c \in Again)
    /\ \E g1 \in {Gathered(Now, c, full)} :
        IF ~Cached(g1.st, c) THEN panicked' = TRUE /\ UNCHANGED <<cache, stored, land>>
        ELSE \E grid \in Grids(c, Ranges(g1.seen)) :
             \E g2 \in {Gathered(Updated(g1.st, c, WithHeights(Summ(g1.st, c), c, grid)), c, full)} :
             IF ~Cached(g2.st, c) THEN panicked' = TRUE /\ UNCHANGED <<cache, stored, land>>
             ELSE \E ts \in Sampled(c, g2.seen, grid), ds \in Entrances(c, grid) :
                  \E open \in Open(c, Fixed(Forced(c, grid, ds), g2.seen)) :
                  \E summ \in {WithCaves(WithTrees(Summ(g2.st, c), c, grid, ts), ds, open)} :
                  /\ Become(Updated(g2.st, c, summ), With(land, c, summ), full)
                  /\ UNCHANGED panicked
    /\ UNCHANGED super

(* make_space, for as many as there may be. *)
Emptied(st, full) ==
    LET dirty == {c \in Chunks : Cached(st, c) /\ st.cache[Index(st, c)].dirty}
    IN  [cache |-> << >>,
         files |-> [c \in (IF full THEN DOMAIN st.files \ dirty ELSE DOMAIN st.files \cup dirty) |->
                        IF c \in dirty THEN Summ(st, c) ELSE st.files[c]]]

(* The worker ends, and Drop writes what is dirty; or it is killed.  A     *)
(* superchunk that was lost is made anew.                                  *)
Restart(full) ==
    /\ ~panicked
    /\ Become(Emptied(Now, full), land, full)
    /\ IF full THEN super' \in [Seeds -> Heights] ELSE UNCHANGED super
    /\ UNCHANGED panicked

Crash ==
    /\ ~panicked
    /\ Become([cache |-> << >>, files |-> stored], land, TRUE)
    /\ super' \in [Seeds -> Heights]
    /\ UNCHANGED panicked

SeamsNext ==
    \/ \E c \in Chunks, full \in BOOLEAN : Generate(c, full)
    \/ \E full \in BOOLEAN : Restart(full)
    \/ Crash

SeamsSpec == SeamsInit /\ [][SeamsNext]_seamsVars

-----------------------------------------------------------------------------

(* In whatever order chunks are generated, and whatever was evicted,       *)
(* written and read again in between, two chunks show the same at the      *)
(* vertices they share (get_vertex_key): the ground outside the hill, its  *)
(* inside, or a wall.                                                      *)
SeamsAgree ==
    \A c, d \in DOMAIN land : \A v \in On[c] \cap On[d] : Key(land[c], v) = Key(land[d], v)

(* "Add extra constraints so that the neighboring chunk will include       *)
(* appropriate terrain": whichever of the chunks it reaches into came      *)
(* first, a tree stands on level ground in all of them; and it keeps its   *)
(* distance from the trees of the others.                                  *)
TreesFit ==
    \A c, d \in DOMAIN land : \A t \in land[c].trees :
        /\ \A v \in t.foot \cap On[d] : Step(land[d].height[v]) = Step(land[c].height[t.at])
        /\ \A u \in land[d].trees \ {t} : Apart(t, u)

(* "Placing an entrance where there is no cave causes a crash": none is    *)
(* placed where a wall of a chunk that came before would close it          *)
(* (cliff_vaults.rs).                                                      *)
EntranceOpens ==
    \A c \in DOMAIN land : \A d \in land[c].doors : \A v \in d.door : Key(land[c], v) = "cave"

(* "Summary was previously loaded.  We assume it's still around (requires  *)
(* cache size of at least 9)" (prop.rs).                                   *)
StillAround == ~panicked
=============================================================================
