-------------------------------- MODULE Walk --------------------------------
(***************************************************************************)
(* How a player walks: libphysics (`collide', `walk_path', `GroundStep')   *)
(* and the glue to the terrain in server/physics.rs.                       *)
(*                                                                         *)
(* A walk is a number of steps of one pixel in a direction.  Every step is *)
(* checked against obstacles, against missing floor and against breaks in  *)
(* a ramp, and the direction is changed to one the terrain allows.         *)
(*                                                                         *)
(* The code divides the space a player takes up into eight sections: along *)
(* each axis it is the one-pixel layer in the direction of the motion (the *)
(* edge) or the rest (the middle).  Here a section is the set of the axes  *)
(* along which it is the edge, and a set of bits is a set of sections.     *)
(*                                                                         *)
(* The names that every module has start with Walk, so that a module of    *)
(* proofs can extend this one along with others.                           *)
(***************************************************************************)
EXTENDS Integers, FiniteSets, FiniteSetsExt, Sequences

CONSTANTS
    TILE_SIZE,   \* the pixels of a tile: in the code 32
    CHUNK_SIZE,  \* the levels of the terrain: in the code 16
    Columns,     \* the columns of shapes the terrain is made of, from the bottom
    MaxSteps,    \* the longest walk in steps: in the code 500
    Width, Depth,\* the tiles from west to east and from north to south
    Spawn        \* the tile where the player spawns

VARIABLES
    terrain,     \* the column of every tile of the plane
    pos          \* where the player is: <<x, y, z>> in pixels

walkVars == <<terrain, pos>>

ASSUME SizesAssumption ==
    /\ TILE_SIZE \in Nat \ {0, 1} /\ CHUNK_SIZE \in Nat \ {0, 1} /\ MaxSteps \in Nat \ {0}
    /\ Width \in Nat /\ Depth \in Nat /\ Spawn \in (1 .. Width) \X (1 .. Depth)

Axes == 1 .. 3
Zero == <<0, 0, 0>>
Plus(v, w) == <<v[1] + w[1], v[2] + w[2], v[3] + w[3]>>

Later(m, n) == IF m > n THEN m ELSE n
Sooner(m, n) == IF m < n THEN m ELSE n

\* update: the player is one tile wide and deep and two tiles high.
Size == <<TILE_SIZE, TILE_SIZE, 2 * TILE_SIZE>>

-----------------------------------------------------------------------------
(* Shapes.                                                                 *)

Ramps == {"RampN", "RampS", "RampE", "RampW"}

\* ChunksSource::get_shape: nothing outside the terrain that is loaded.
Plane == (1 .. Width) \X (1 .. Depth)
Shape(t) == IF <<t[1], t[2]>> \in Plane /\ t[3] \in 0 .. CHUNK_SIZE - 1
            THEN terrain[<<t[1], t[2]>>][t[3] + 1] ELSE "Empty"

\* get_shape_below: the level of the first shape at z or below; 0 if none.
LevelBelow(x, y, z) ==
    LET found == {k \in 0 .. z : Shape(<<x, y, k>>) # "Empty"}
    IN IF found = {} THEN 0 ELSE Max(found)

\* altitude_at_pixel.
Altitude(shape, x, y) ==
    CASE shape = "Empty" -> -1
      [] shape = "Floor" -> 0
      [] shape = "Solid" -> TILE_SIZE
      [] shape = "RampE" -> x
      [] shape = "RampW" -> TILE_SIZE - x
      [] shape = "RampS" -> y
      [] shape = "RampN" -> TILE_SIZE - y

\* max_altitude over the part [lo, hi) of the tile: a ramp is highest at a corner.
MaxAltitude(shape, lo, hi) ==
    Later(Altitude(shape, lo[1], lo[2]), Altitude(shape, hi[1], hi[2]))

-----------------------------------------------------------------------------
(* Sections.                                                               *)

\* BLOCKED_SECTIONS_TABLE: the sections something touches that takes up the
\* edge along the axes `edge', and the middle along the axes `mid'.
Sections(edge, mid) == {s \in SUBSET edge : Axes \ s \subseteq mid}

\* overlap_key: of a region [lo, hi), with `corner' the pixel that is at the
\* edge along every axis.
EdgeAxes(lo, hi, corner) == {a \in Axes : lo[a] <= corner[a] /\ corner[a] < hi[a]}
MidAxes(lo, hi, edge) ==
    {a \in Axes : hi[a] - lo[a] >= (IF a \in edge THEN 2 ELSE 1)}
Touched(lo, hi, corner) ==
    Sections(EdgeAxes(lo, hi, corner), MidAxes(lo, hi, EdgeAxes(lo, hi, corner)))

\* adjust_blocked and BLOCKING_TABLE: along an axis without motion all is
\* middle; the sections with the fewest edges decide which axes are blocked,
\* and what is in the middle only blocks nothing.
Blocking(sections, dir) ==
    LET moving == {a \in Axes : dir[a] # 0}
        hit == {s \cap moving : s \in sections} \ {{}}
        faces == {s \in hit : \E a \in Axes : s = {a}}
    IN UNION IF faces # {} THEN faces
             ELSE IF hit # {Axes} THEN hit \ {Axes} ELSE hit

\* What a corner one pixel beyond the player would do.
MutForemost(p, dir, a) == IF dir[a] > 0 THEN p[a] + Size[a] ELSE p[a]
\* The pixel of a player at p that is foremost in direction dir.
Foremost(p, dir, a) == IF dir[a] > 0 THEN p[a] + Size[a] - 1 ELSE p[a]
Corner(p, dir) == <<Foremost(p, dir, 1), Foremost(p, dir, 2), Foremost(p, dir, 3)>>

\* div_round: the tiles a player at p is in, and the part of one of them.
TilesAlong(p, a) == (p[a] \div TILE_SIZE) .. ((p[a] + Size[a] - 1) \div TILE_SIZE)
Lowest(p, t, a) == Later(p[a], t[a] * TILE_SIZE)
Highest(p, t, a) == Sooner(p[a] + Size[a], (t[a] + 1) * TILE_SIZE)
PartLo(p, t) == <<Lowest(p, t, 1), Lowest(p, t, 2), Lowest(p, t, 3)>>
PartHi(p, t) == <<Highest(p, t, 1), Highest(p, t, 2), Highest(p, t, 3)>>
InTile(v, t) == <<v[1] - t[1] * TILE_SIZE, v[2] - t[2] * TILE_SIZE, v[3] - t[3] * TILE_SIZE>>

-----------------------------------------------------------------------------
(* The three checks, at the position p the player would move to.           *)

\* collide_tile, for the part of the tile that the player takes up.
Collides(p, t) ==
    \/ Shape(t) = "Solid"
    \/ /\ Shape(t) \in Ramps
       /\ InTile(PartLo(p, t), t)[3]
            < MaxAltitude(Shape(t), InTile(PartLo(p, t), t), InTile(PartHi(p, t), t))

Obstacles(p) ==
    {t \in TilesAlong(p, 1) \X TilesAlong(p, 2) \X TilesAlong(p, 3) : Collides(p, t)}

\* check_blocked: the axes that are blocked, and whether ramps alone do it.
TooHigh(p) == p[3] + Size[3] > CHUNK_SIZE * TILE_SIZE
Blocked(p, dir) ==
    IF TooHigh(p) THEN {3}
    ELSE Blocking(UNION {Touched(PartLo(p, t), PartHi(p, t), Corner(p, dir)) :
                            t \in Obstacles(p)}, dir)
BlockedByRamp(p) ==
    /\ ~ TooHigh(p) /\ Obstacles(p) # {}
    /\ \A t \in Obstacles(p) : Shape(t) \in Ramps

\* check_floor: the tiles at the feet that are no floor to stand on, the axes
\* along which that matters, and the top of the ramps at or below the feet.
Feet(p) == {<<x, y, p[3] \div TILE_SIZE>> : x \in TilesAlong(p, 1), y \in TilesAlong(p, 2)}
NoFloorAt(p) == {t \in Feet(p) : ~ (Shape(t) = "Floor" /\ p[3] % TILE_SIZE = 0)}
NoFloor(p, dir) ==
    LET corner == Corner(p, dir)
    IN Blocking(UNION {Touched(<<PartLo(p, t)[1], PartLo(p, t)[2], 0>>,
                               <<PartHi(p, t)[1], PartHi(p, t)[2], 2>>,
                               <<corner[1], corner[2], 0>>) : t \in NoFloorAt(p)}, dir) \ {3}

Below(t) == <<t[1], t[2], t[3] - 1>>
RampTop(p) ==
    LET top(t) == t[3] * TILE_SIZE
                    + MaxAltitude(Shape(t), InTile(PartLo(p, t), t), InTile(PartHi(p, t), t))
        ramps == {t \in NoFloorAt(p) : Shape(t) \in Ramps}
        under == {Below(t) : t \in {t \in NoFloorAt(p) : /\ Shape(t) = "Empty" /\ t[3] > 0
                                                         /\ Shape(Below(t)) \in Ramps}}
    IN Max({-2} \cup {top(t) : t \in ramps \cup under})
OnRamp(p) == p[3] = RampTop(p)
\* What a step down that looks for the ramp itself would do.
MutAboveRamp(p) == p[3] = RampTop(p)
AboveRamp(p) == p[3] = RampTop(p) + 1
AboveFloor(p) == p[3] % TILE_SIZE = 1

\* check_ramp_continuity: what is east or south of a tile, as it is seen from
\* the level z of the ground there.
Adjacent(x, y, z, lookUp) ==
    IF lookUp /\ Shape(<<x, y, z + 1>>) # "Empty" THEN z + 1
    ELSE IF Shape(<<x, y, z>>) # "Empty" THEN z ELSE z - 1

\* blocked_by_line: the sections a line between two tiles of the footprint is in.
LineSections(line, corner) ==
    LET across == IF line.lo[2] = line.hi[2] THEN 2 ELSE 1
        along == 3 - across
        ahead == corner[across] = line.lo[across] \/ corner[across] + 1 = line.lo[across]
        atEnd == line.lo[along] <= corner[along] /\ corner[along] < line.hi[along]
    IN Sections({3} \cup {a \in {across} : ahead} \cup {a \in {along} : atEnd},
                {3} \cup {a \in {across} : ~ ahead}
                    \cup {a \in {along} : line.hi[a] - line.lo[a] >= (IF atEnd THEN 2 ELSE 1)})

\* check_ramp_continuity and check_ramp: the lines inside the footprint where
\* the ground, seen from either side, is at different heights.
Breaks(p) ==
    LET top == p[3] \div TILE_SIZE
        xs == TilesAlong(p, 1)
        ys == TilesAlong(p, 2)
        level(x, y) == LevelBelow(x, y, top)
        \* the ends of the footprint within a tile
        x0(x) == Later(p[1] - x * TILE_SIZE, 0)
        y0(y) == Later(p[2] - y * TILE_SIZE, 0)
        x1(x) == Sooner(p[1] + Size[1] - x * TILE_SIZE, TILE_SIZE)
        y1(y) == Sooner(p[2] + Size[2] - y * TILE_SIZE, TILE_SIZE)
        height(x, y, z, px, py) == z * TILE_SIZE + Altitude(Shape(<<x, y, z>>), px, py)
        next(x, y, u, v) ==
            Adjacent(u, v, level(x, y),
                     /\ Altitude(Shape(<<x, y, level(x, y)>>), x1(x), y1(y)) = TILE_SIZE
                     /\ level(x, y) < top)
        east(x, y) == next(x, y, x + 1, y)
        south(x, y) == next(x, y, x, y + 1)
        eastBreak(x, y) ==
            \E py \in {y0(y), y1(y)} :
                height(x, y, level(x, y), TILE_SIZE, py) # height(x + 1, y, east(x, y), 0, py)
        southBreak(x, y) ==
            \E px \in {x0(x), x1(x)} :
                height(x, y, level(x, y), px, TILE_SIZE) # height(x, y + 1, south(x, y), px, 0)
        eastOf(x, y) == [lo |-> <<(x + 1) * TILE_SIZE, y * TILE_SIZE + y0(y)>>,
                         hi |-> <<(x + 1) * TILE_SIZE, y * TILE_SIZE + y1(y)>>]
        southOf(x, y) == [lo |-> <<x * TILE_SIZE + x0(x), (y + 1) * TILE_SIZE>>,
                          hi |-> <<x * TILE_SIZE + x1(x), (y + 1) * TILE_SIZE>>]
    IN {eastOf(t[1], t[2]) : t \in
            {t \in xs \X ys : /\ t[1] + 1 \in xs
                              /\ \/ eastBreak(t[1], t[2])
                                 \/ east(t[1], t[2]) # level(t[1] + 1, t[2])}}
       \cup
       {southOf(t[1], t[2]) : t \in
            {t \in xs \X ys : /\ t[2] + 1 \in ys
                              /\ \/ southBreak(t[1], t[2])
                                 \/ /\ t[1] - 1 \notin xs
                                    /\ south(t[1], t[2]) # level(t[1], t[2] + 1)}}

\* What a check_ramp that looks at the middle only would do.
MutDiscontinuous(p, dir) ==
    Blocking({{}} \cap UNION {LineSections(l, Corner(p, dir)) : l \in Breaks(p)}, dir)
Discontinuous(p, dir) ==
    Blocking(UNION {LineSections(l, Corner(p, dir)) : l \in Breaks(p)}, dir) \ {3}

-----------------------------------------------------------------------------
(* A step.                                                                 *)

\* apply_collision_planar.
Without(dir, axes) ==
    IF 3 \in axes THEN Zero
    ELSE <<IF 1 \in axes THEN 0 ELSE dir[1], IF 2 \in axes THEN 0 ELSE dir[2], dir[3]>>

\* adjust_planar, once round: what the first check that fails leaves.
Corrected(p, dir) ==
    LET q == Plus(p, dir)
        c1 == Blocked(q, dir)
        c2 == IF OnRamp(q) THEN {} ELSE NoFloor(q, dir)
        c3 == Discontinuous(q, dir)
    IN IF dir[1] = 0 /\ dir[2] = 0 THEN Zero
       ELSE IF c1 # {} THEN Without(dir, c1)
       ELSE IF c2 # {} THEN Without(dir, c2)
       ELSE Without(dir, c3)
\* adjust_planar: the first direction that a round leaves as it is, of four rounds.
Planar(p, dir) ==
    LET round4(d, e) == IF e = d THEN d ELSE Zero
        round3(d, e) == IF e = d THEN d ELSE round4(e, Corrected(p, e))
        round2(d, e) == IF e = d THEN d ELSE round3(e, Corrected(p, e))
        round1(d, e) == IF e = d THEN d ELSE round2(e, Corrected(p, e))
    IN round1(dir, Corrected(p, dir))

\* GroundStep::adjust_offset: up a ramp, or down, or along the ground.
Upward(p, dir) ==
    IF BlockedByRamp(Plus(p, dir)) THEN Planar(p, [dir EXCEPT ![3] = 1]) ELSE Zero
Downward(p, dir) ==
    IF AboveRamp(Plus(p, dir)) \/ AboveFloor(Plus(p, dir))
    THEN Planar(p, [dir EXCEPT ![3] = -1]) ELSE Zero
Level(p, dir) ==
    Planar(p, Without(dir, Blocked(Plus(p, dir), dir)
                            \cup (IF OnRamp(Plus(p, dir)) THEN {} ELSE NoFloor(Plus(p, dir), dir))))
OrElse(v, w) == IF v # Zero THEN v ELSE w
AdjustOffset(p, dir) == OrElse(Upward(p, dir), OrElse(Downward(p, dir), Level(p, dir)))

-----------------------------------------------------------------------------
(* The player walks.                                                       *)

\* Where a player from p is after k steps.
After(p, offset, k) ==
    <<p[1] + k * offset[1], p[2] + k * offset[2], p[3] + k * offset[3]>>
\* walk_path: how many steps the same offset comes out for.
Steps(p, dir, offset) ==
    LET goesOn(k) == AdjustOffset(After(p, offset, k), dir) = offset
    IN CHOOSE n \in 1 .. MaxSteps : /\ n = MaxSteps \/ ~ goesOn(n)
                                    /\ \A k \in 1 .. n - 1 : goesOn(k)
Along(p, dir, offset) ==
    IF offset = Zero THEN {p}
    ELSE {After(p, offset, k) : k \in 0 .. Steps(p, dir, offset)}
Walks(p, dir) == Along(p, dir, AdjustOffset(p, dir))

\* InputBits::to_velocity: the player's keys only give these.
Directions == ((-1 .. 1) \X (-1 .. 1) \X {0}) \ {Zero}

\* The player is on the floor of the tile it spawns at.
WalkInit ==
    /\ terrain \in [Plane -> Columns]
    /\ \E z \in 0 .. CHUNK_SIZE - 2 :
        /\ terrain[Spawn][z + 1] = "Floor"
        /\ terrain[Spawn][z + 2] = "Empty"
        /\ pos = <<Spawn[1] * TILE_SIZE, Spawn[2] * TILE_SIZE, z * TILE_SIZE>>

\* set_velocity and update: the player sets off in some direction; until the
\* next input it gets to any point of the walk, for Motion::pos interpolates.
Walk ==
    /\ \E dir \in Directions :
        pos' \in Walks(pos, dir)
    /\ UNCHANGED terrain

WalkNext == Walk
WalkSpec == WalkInit /\ [][WalkNext]_walkVars

-----------------------------------------------------------------------------
(* Properties.                                                             *)

\* The height of the ground at the point q of tile t, as seen from level z.
Ground(t, q, z) ==
    LET k == LevelBelow(t[1], t[2], z)
    IN k * TILE_SIZE + Altitude(Shape(<<t[1], t[2], k>>), q[1] - t[1] * TILE_SIZE,
                                                        q[2] - t[2] * TILE_SIZE)

\* The tiles the point q is in, on the border of, or at a corner of.
TilesAt(p, q) ==
    {t \in TilesAlong(p, 1) \X TilesAlong(p, 2) :
        \A a \in 1 .. 2 : t[a] * TILE_SIZE <= q[a] /\ q[a] <= (t[a] + 1) * TILE_SIZE}

Footprint(p) == (p[1] .. p[1] + Size[1]) \X (p[2] .. p[2] + Size[2])

\* A player is never inside an obstacle.
NeverInside == Obstacles(pos) = {} /\ ~ TooHigh(pos)

\* A player always has its feet on the ground: the ground under it has no gaps
\* or steps, and its highest point is where the player is.
FeetOnTheGround ==
    LET z == pos[3] \div TILE_SIZE
        heights(q) == {Ground(t, q, z) : t \in TilesAt(pos, q)}
    IN /\ \A q \in Footprint(pos) : Cardinality(heights(q)) = 1
       /\ Max(UNION {heights(q) : q \in Footprint(pos)}) = pos[3]

\* Where a player walked to it can walk back from, in one go.
WayBack ==
    [][pos' # pos => \E q \in {pos'}, dir \in Directions : pos \in Walks(q, dir)]_walkVars

=============================================================================
