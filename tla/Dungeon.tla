------------------------------- MODULE Dungeon -------------------------------
(***************************************************************************)
(* The plan of a dungeon: `Plan' of libterrain_gen/dungeon/plan.rs.  On a  *)
(* triangulated graph it claims the entrance, then takes paths from a      *)
(* queue in a random order, digs tunnels from their ends, and puts doors,  *)
(* gem puzzles and treasure there.  When the queue is empty it cuts the    *)
(* caves out of the triangles and puts the items the locks need into the   *)
(* treasure chests.                                                        *)
(*                                                                         *)
(* A random choice is a choice of the model.  The vertices are numbered in *)
(* the order of a random sampler, so "the first by number" is any one.     *)
(* Positions matter where the code asks which edge points up (the y axis   *)
(* points down) or lies flat, and for the lengths of paths.                *)
(*                                                                         *)
(* In the code the plan finishes, or panics for want of a treasure spot,   *)
(* in one call; the actions are the rounds of its loops.                   *)
(***************************************************************************)
EXTENDS Integers, FiniteSets, FiniteSetsExt, Sequences, Bags, BagsExt

CONSTANTS
    Verts,      \* the vertices of the base graph,
    Pos,        \* their positions <<x, y>>,
    Edges,      \* and its edges, sets of two vertices
    Origin,     \* the vertex at ENTRANCE_POS
    Counts,     \* how many tunnels a path is extended by: in the code 1 .. 3
    Lengths,    \* how long a tunnel is meant to be: in the code 2 .. 4
    Primaries   \* the primary colours a puzzle is made from: in the code {0, 2, 4}

VARIABLES
    area,       \* BaseVert.area and
    label,      \* BaseVert.label of every vertex
    tunnels,    \* the edges that are tunnels
    next_area,  \* the next area to allocate
    spots,      \* treasure_spots: [vert, level, nth]
    needs,      \* required_items: [item, level, area]; `area' is that of the lock
    locks,      \* the doors: [area, from, to, slots]; a key door has no slots
    caves,      \* tris and neg_edges: sets of vertices a cave joins
    queue,      \* the bag of paths to extend: [cur, level]
    turn,       \* the path being extended, or Idle
    phase,      \* "gen", "assign" or "done"
    chest,      \* the spot of every item needed, once assigned,
    big,        \* and the spots that got the big loot
    rough       \* the tunnel vertices dug without a label (history)

plan == <<area, label, tunnels, next_area, needs, locks, caves, rough>>
loot == <<chest, big>>
vars == <<area, label, tunnels, next_area, spots, needs, locks, caves, queue,
          turn, phase, chest, big, rough>>

AREA_NONE == 0
AREA_TUNNEL == 1
AREA_FIRST_PUZZLE == 2
Idle == [step |-> "idle"]

-----------------------------------------------------------------------------
(* The graph.                                                              *)

Nbrs == [v \in Verts |-> {w \in Verts : {v, w} \in Edges}]
Common(v, w) == Nbrs[v] \cap Nbrs[w]
Triangles == UNION {{e \cup {c} : c \in {c \in Verts : \A v \in e : c \in Nbrs[v]}} : e \in Edges}

Abs(n) == IF n < 0 THEN -n ELSE n
Dx(v, w) == Pos[w][1] - Pos[v][1]
Dy(v, w) == Pos[w][2] - Pos[v][2]
Dist(v, w) == LET x == Abs(Dx(v, w)) y == Abs(Dy(v, w)) IN IF x > y THEN x ELSE y

PathEdges(path) == {{path[i], path[i + 1]} : i \in 1 .. Len(path) - 1}
OnPath(path) == {path[i] : i \in 1 .. Len(path)}

\* The path from v to w, through vertices not in `avoid', is below `limit'.
RECURSIVE Nearer(_, _, _, _)
Nearer(v, w, avoid, limit) ==
    /\ limit > 0
    /\ \/ v = w
       \/ \E u \in Nbrs[v] \ avoid : Nearer(u, w, avoid, limit - Dist(v, u))

\* a_star: the shortest paths from v to w around `avoid', those of at most
\* three vertices, which is all that its callers take.
ShortPaths(v, w, avoid) ==
    IF v = w THEN {<<v>>}
    ELSE {p \in ({<<v, w>>} \cup {<<v, u, w>> : u \in Common(v, w) \ avoid}) :
            /\ w \in Nbrs[p[Len(p) - 1]] \ avoid
            /\ ~ Nearer(v, w, avoid, IF Len(p) = 2 THEN Dist(v, w)
                                     ELSE Dist(v, p[2]) + Dist(p[2], w))}

\* breadth_first: the vertices one, two and three steps from v.
Around(vs) == UNION {Nbrs[v] : v \in vs}
Layers == [v \in Verts |-> <<Nbrs[v],
                             Around(Nbrs[v]) \ (Nbrs[v] \cup {v}),
                             Around(Around(Nbrs[v])) \ (Around(Nbrs[v]) \cup Nbrs[v])>>]

Free == {v \in Verts : area[v] = AREA_NONE}

-----------------------------------------------------------------------------
(* The colours of gem puzzles.                                             *)

\* GemColor::cycle, for primary colours.
Cycle(c, n) == (c + n) % 6

\* GemColor::blend: of two primary colours, the secondary one between them.
Blend(c1, c2) == IF Abs(c1 - c2) = 2 THEN (c1 + c2) \div 2 ELSE 5

EmptySlot == -1

\* The puzzles gen_gem_puzzle makes: the colours of the slots and the gems
\* that are missing.  Both ends are given only at level 0.
Puzzles(level) ==
    {[slots |-> <<c1, EmptySlot, (c1 + 2 * j) % 6>>,
      gems |-> {Blend(c1, (c1 + 2 * j) % 6)}] :
        c1 \in (IF level = 0 THEN Primaries ELSE {}), j \in 1 .. 2}
    \cup
    {[slots |-> [i \in 1 .. 3 |-> IF i = end THEN c ELSE EmptySlot],
      gems |-> {Cycle(c, dir), Cycle(c, 2 * dir)}] :
        c \in Primaries, end \in {1, 3}, dir \in {1, -1}}

-----------------------------------------------------------------------------
(* Digging.                                                                *)

\* gen_tunnel: the ways a tunnel of n steps can go from v.
RECURSIVE Walks(_, _, _)
Walks(v, free, n) ==
    IF n = 0 \/ Nbrs[v] \cap free = {} THEN {<<v>>}
    ELSE UNION {{<<v>> \o w : w \in Walks(u, free \ {u}, n - 1)} :
                    u \in Nbrs[v] \cap free}

Marked(f, vs, x) == [v \in Verts |-> IF v \in vs THEN x ELSE f[v]]

\* What a gen_tunnel that forgets the label would do.
MutTunnel(path, lbl) ==
    /\ tunnels' = tunnels \cup PathEdges(path)
    /\ area' = Marked(area, OnPath(Tail(path)), AREA_TUNNEL)
    /\ label' = label
\* gen_tunnel, along a path.
Tunnel(path, lbl) ==
    /\ tunnels' = tunnels \cup PathEdges(path)
    /\ area' = Marked(area, OnPath(Tail(path)), AREA_TUNNEL)
    /\ label' = Marked(label, OnPath(Tail(path)), lbl)

\* treasure_spots.push.
WithSpot(v, level) ==
    spots \cup {[vert |-> v, level |-> level,
                 nth |-> Cardinality({s \in spots : s.vert = v /\ s.level = level})]}

\* One of the tunnels of the path that is extended is finished.
NextTunnel == IF turn.left = 1 THEN Idle
              ELSE [turn EXCEPT !.step = "dig", !.left = @ - 1]

-----------------------------------------------------------------------------
(* The rooms a triangle of the caves has: a corner takes part in the cave  *)
(* of the triangle when it has a cave and no negative edge cuts it off.    *)

Conn(ts, v) == \E e \in ts : v \in e

\* What a process_triangle that looks at one edge of the corner only would do.
MutCutOff(ts, t, v) ==
    /\ Conn(ts, v) \/ t \ {v} \in ts
    /\ \A w \in t : {v, w} \notin ts
    /\ t \ {v} \notin ts
\* process_triangle.
CutOff(ts, t, v) ==
    /\ Conn(ts, v) \/ t \ {v} \in ts
    /\ \A w \in t \ {v} : {v, w} \notin ts

JoinedIn(ts, t) == {v \in t : Conn(ts, v) /\ ~ CutOff(ts, t, v)}

\* place_door: the triangle on the side c of the edge from a up to b.
JoinedAtDoor(ts, a, b, c) ==
    {v \in {a, b} : {v, c} \in ts}
    \cup {v \in {c} : Conn(ts, c) /\ ({a, c} \in ts \/ {b, c} \in ts)}

-----------------------------------------------------------------------------
(* The steps of the plan.                                                  *)

\* gen_entrance: the origin and its neighbours are one area; the paths start
\* from three of them.
Init ==
    \E out \in kSubset(3, Nbrs[Origin]) :
        /\ area = Marked([v \in Verts |-> AREA_NONE],
                         Nbrs[Origin] \cup {Origin}, AREA_FIRST_PUZZLE)
        /\ label = [v \in Verts |-> IF v \in out THEN 1 ELSE 0]
        /\ tunnels = {e \in Edges : e \subseteq Nbrs[Origin] \cup {Origin}}
        /\ caves = {t \in Triangles : t \subseteq Nbrs[Origin] \cup {Origin}}
        /\ queue = SetToBag({[cur |-> v, level |-> 0] : v \in out})
        /\ next_area = AREA_FIRST_PUZZLE + 1
        /\ spots = {} /\ needs = {} /\ locks = {} /\ rough = {}
        /\ turn = Idle /\ phase = "gen" /\ chest = <<>> /\ big = {}

\* The next path is any of the queue.
Pop ==
    /\ phase = "gen" /\ turn = Idle
    /\ \E p \in BagToSet(queue), count \in Counts :
        /\ queue' = BagRemove(queue, p)
        /\ turn' = [step |-> "dig", cur |-> p.cur, level |-> p.level,
                    left |-> count, at |-> p.cur]
    /\ UNCHANGED <<plan, spots, phase, loot>>

\* There is nowhere to dig: the path ends without treasure.
DeadEnd ==
    /\ turn.step = "dig" /\ Nbrs[turn.cur] \cap Free = {}
    /\ turn' = Idle
    /\ UNCHANGED <<plan, spots, queue, phase, loot>>

Dig ==
    /\ turn.step = "dig" /\ Nbrs[turn.cur] \cap Free # {}
    /\ \E n \in Lengths : \E path \in Walks(turn.cur, Free, n) :
        /\ Tunnel(path, turn.level)
        /\ turn' = [turn EXCEPT !.step = "place", !.at = path[Len(path)]]
    /\ UNCHANGED <<next_area, spots, needs, locks, caves, rough, queue, phase, loot>>

\* The path is cut short: some treasure, and no further tunnels.
TerminalLoot ==
    /\ turn.step = "place" /\ turn.level > 0
    /\ spots' = WithSpot(turn.at, turn.level)
    /\ turn' = Idle
    /\ UNCHANGED <<plan, queue, phase, loot>>

\* gen_door: an edge that points up, from the start or a free neighbour of it
\* to a free vertex, with no area on its sides.
DoorsFrom(start, vs) ==
    UNION {UNION {{[from |-> v, to |-> n, path |-> p] : p \in ShortPaths(start, v, {n})} :
                n \in {n \in Nbrs[v] \cap Free :
                        /\ -Dy(v, n) > Abs(Dx(v, n))
                        /\ \A c \in Common(v, n) : area[c] < AREA_FIRST_PUZZLE}} :
            v \in vs}
Doors(start) ==
    IF DoorsFrom(start, {start}) # {} THEN DoorsFrom(start, {start})
    ELSE DoorsFrom(start, Nbrs[start] \cap Free)

\* The path to a door goes on one level deeper.
PlaceDoor ==
    /\ turn.step = "place"
    /\ \E d \in Doors(turn.at) :
        LET sides == Common(d.from, d.to)
            ts == tunnels \cup PathEdges(d.path)
        IN /\ tunnels' = ts
           /\ area' = Marked(Marked(area, OnPath(Tail(d.path)), AREA_TUNNEL),
                             sides \cup {d.from, d.to}, next_area)
           /\ locks' = locks \cup {[area |-> next_area, from |-> d.from, to |-> d.to,
                                    claim |-> sides \cup {d.from, d.to}, slots |-> <<>>]}
           /\ caves' = caves \cup {JoinedAtDoor(ts, d.from, d.to, c) : c \in sides}
           /\ needs' = needs \cup {[item |-> "Key", level |-> turn.level, area |-> next_area]}
           /\ queue' = BagAdd(queue, [cur |-> d.to, level |-> turn.level + 1])
           /\ next_area' = next_area + 1
           /\ turn' = [turn EXCEPT !.step = "extra"]
    /\ UNCHANGED <<label, rough, spots, phase, loot>>

\* gen_gem_puzzle: a flat edge between two free vertices, with a free vertex
\* above, one below, and one in each lower corner; the start may be a corner.
Flat(v, n) == Abs(Dx(v, n)) >= 8 /\ Abs(Dx(v, n)) >= (Abs(Dy(v, n)) * 5) \div 2
Topmost(vs) == {v \in vs : \A w \in vs : Pos[v][2] <= Pos[w][2]}
Lowest(vs) == {v \in vs : \A w \in vs : Pos[v][2] >= Pos[w][2]}
Corners(start, b, v, n) == {c \in Common(b, v) \ {n} : c = start \/ c \in Free}

SitesFrom(start, v) ==
    UNION {UNION {
        {[mid |-> {v, n}, above |-> a, below |-> b, path |-> p, corners |-> {cv, cn}] :
            p \in ShortPaths(start, b, {v, n, a}),
            cv \in Corners(start, b, v, n), cn \in Corners(start, b, n, v)} :
                a \in Topmost(Common(v, n) \cap Free), b \in Lowest(Common(v, n) \cap Free)} :
                    n \in {n \in Nbrs[v] \cap Free : Flat(v, n)}}
SitesAt(start, depth) == UNION {SitesFrom(start, v) : v \in Layers[start][depth] \cap Free}
Sites(start) ==
    IF SitesAt(start, 1) # {} THEN SitesAt(start, 1)
    ELSE IF SitesAt(start, 2) # {} THEN SitesAt(start, 2) ELSE SitesAt(start, 3)

\* The way on is two levels deeper; two more paths start below the puzzle.
PlacePuzzle ==
    /\ turn.step = "place"
    /\ \E s \in Sites(turn.at), puzzle \in Puzzles(turn.level) :
        LET claim == s.mid \cup s.corners \cup {s.above, s.below}
            below == [cur |-> s.below, level |-> turn.level]
        IN /\ tunnels' = tunnels \cup PathEdges(s.path)
           /\ area' = Marked(Marked(area, OnPath(s.path), AREA_TUNNEL), claim, next_area)
           /\ label' = Marked(label, claim, 0)
           /\ rough' = rough \cup {v \in OnPath(s.path) \ claim : area[v] # AREA_TUNNEL}
           /\ locks' = locks \cup {[area |-> next_area, from |-> s.below, to |-> s.above,
                                    claim |-> claim, slots |-> puzzle.slots]}
           /\ caves' = caves \cup {s.corners \cup {s.below}}
           /\ needs' = needs \cup {[item |-> g, level |-> turn.level, area |-> next_area] :
                                    g \in puzzle.gems}
           /\ queue' = BagAdd(BagAdd(BagAdd(queue, below), below),
                              [cur |-> s.above, level |-> turn.level + 2])
           /\ next_area' = next_area + 1
           /\ turn' = [turn EXCEPT !.step = "extra"]
    /\ UNCHANGED <<spots, phase, loot>>

\* The kind of lock that was tried does not fit.
FallbackLoot ==
    /\ turn.step = "place" /\ (Doors(turn.at) = {} \/ Sites(turn.at) = {})
    /\ spots' = WithSpot(turn.at, turn.level)
    /\ turn' = [turn EXCEPT !.step = "extra"]
    /\ UNCHANGED <<plan, queue, phase, loot>>

NoExtraLoot ==
    /\ turn.step = "extra"
    /\ turn' = NextTunnel
    /\ UNCHANGED <<plan, spots, queue, phase, loot>>

\* Treasure beside any tunnel, of the level of that tunnel.  Whether there is
\* room for it is asked of the end of the path, not of that tunnel.
ExtraLoot ==
    /\ turn.step = "extra" /\ Nbrs[turn.cur] \cap Free # {}
    /\ \E v \in {v \in Verts : area[v] = AREA_TUNNEL} :
        \E path \in Walks(v, Free, 1) :
            /\ Tunnel(path, label[v])
            /\ spots' = WithSpot(path[Len(path)], label[v])
            /\ rough' = IF v \in rough THEN rough \cup OnPath(path) ELSE rough
    /\ turn' = NextTunnel
    /\ UNCHANGED <<next_area, needs, locks, caves, queue, phase, loot>>

\* make_edges and make_tris: a tunnel is a cave, and the triangles that are
\* not inside one area have their corners joined or cut off.
MakeTris ==
    /\ phase = "gen" /\ turn = Idle /\ queue = EmptyBag
    /\ caves' = caves \cup tunnels
                    \cup {JoinedIn(tunnels, t) :
                            t \in {t \in Triangles : \A v \in t :
                                    area[v] >= AREA_FIRST_PUZZLE => \E w \in t : area[w] # area[v]}}
    /\ phase' = "assign"
    /\ UNCHANGED <<area, label, tunnels, next_area, needs, locks, rough, spots, queue, turn, loot>>

\* assign_treasure: an item goes to a spot of its level or a lesser one, or to
\* any spot when there is none.  One of the deepest spots gets the big loot,
\* in place of whatever was assigned to it.  Without a spot the code panics.
Fitting(n) == {s \in spots : s.level <= n.level}
AssignTreasure ==
    /\ phase = "assign" /\ spots # {}
    /\ chest' \in {f \in [needs -> spots] :
                    \A n \in needs : Fitting(n) # {} => f[n] \in Fitting(n)}
    /\ \E s \in spots : /\ \A t \in spots : t.level <= s.level
                        /\ big' = {s}
    /\ phase' = "done"
    /\ UNCHANGED <<plan, spots, queue, turn>>

Next ==
    \/ Pop \/ DeadEnd \/ Dig \/ TerminalLoot \/ PlaceDoor \/ PlacePuzzle
    \/ FallbackLoot \/ NoExtraLoot \/ ExtraLoot \/ MakeTris \/ AssignTreasure

Spec == Init /\ [][Next]_vars

-----------------------------------------------------------------------------
(* Properties.                                                             *)

RECURSIVE Spread(_, _)
Spread(links, vs) ==
    IF \E e \in links : e \cap vs # {} /\ ~ e \subseteq vs
    THEN Spread(links, vs \cup UNION {e \in links : e \cap vs # {}})
    ELSE vs

Ways(opened) == {{l.from, l.to} : l \in opened}

\* puzzle_solved of gem_puzzle.lua: every slot is filled, primary and secondary
\* colours alternate, and a secondary one is between those it is mixed from.
PuzzleSolved(slots) ==
    \A i \in 1 .. Len(slots) :
        /\ slots[i] >= 0
        /\ i % 2 = (slots[i] + 1) % 2
        /\ i % 2 = 0 => {slots[i - 1], slots[i + 1]} = {(slots[i] + 5) % 6, (slots[i] + 1) % 6}

\* The slots can be filled with these gems.
Fills(slots, gems) ==
    \E f \in [{i \in 1 .. Len(slots) : slots[i] = EmptySlot} -> gems] :
        PuzzleSolved([i \in 1 .. Len(slots) |-> IF i \in DOMAIN f THEN f[i] ELSE slots[i]])

\* What a player who holds these items can do with a lock.
Opens(l, items) ==
    LET own == {n.item : n \in {n \in items : n.area = l.area}}
    IN IF l.slots = <<>> THEN own # {} ELSE Fills(l.slots, own)

ItemsIn(vs) == {n \in needs : chest[n] \notin big /\ chest[n].vert \in vs}

\* The locks a player can open in turn, and where that takes them.
RECURSIVE Opened(_)
Opened(opened) ==
    LET vs == Spread(tunnels \cup Ways(opened), {Origin})
        more == {l \in locks \ opened : l.from \in vs /\ Opens(l, ItemsIn(vs))}
    IN IF more = {} THEN opened ELSE Opened(opened \cup more)

\* Every item needed is in a chest of its level, none was displaced by the big
\* loot, and none is beside a tunnel that was dug without a label.
WellPlaced ==
    \A n \in needs : /\ chest[n].level <= n.level
                     /\ chest[n] \notin big
                     /\ chest[n].vert \notin rough

\* A dungeon can be completed: when the items are well placed, a player who
\* starts at the entrance finds, in one order or another, the key of every
\* door and the gems that solve every puzzle, and so gets to every treasure.
Completable ==
    phase = "done" /\ WellPlaced =>
        /\ Opened({}) = locks
        /\ \A s \in spots : s.vert \in Spread(tunnels \cup Ways(locks), {Origin})

\* The areas of the locks are as they were claimed.
Intact == \A l \in locks : \A v \in l.claim : area[v] = l.area

\* The caves give no way round a lock that the plan does not have: what can be
\* reached in them without opening one lock can be reached through tunnels
\* and the other locks.
NoWayRound ==
    phase = "assign" /\ Intact =>
        \A l \in locks :
            LET others == Ways(locks \ {l})
            IN \A v \in Spread(caves \cup others, {Origin}) :
                Conn(tunnels, v) => v \in Spread(tunnels \cup others, {Origin})

=============================================================================
