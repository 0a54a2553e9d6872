# Everfree Outpost: a verification of the game server

Everfree Outpost is a multiplayer sandbox game.  Browsers talk to a front-end
*wrapper* (C++), which talks over pipes to the *server* (`src/src/server`, Rust).
The server has one main thread, the `Engine`, which selects over three channels:
timer cookies, requests from the wires, and answers of the terrain generator.
Everything else is a set of tables that this thread keeps in step with one
another, and the files they are written to.  These modules model those tables,
the threads and processes around them, and the algorithms behind them that are
hard to get right: walking, dungeons, and terrain that fits together.

Paths below are relative to `src/src/server` unless they say otherwise.

## 1. Inventory

| Part | State | Operations | Talks to | What is hard |
|---|---|---|---|---|
| Timer wheel (`timer/queue.rs: Wheel`) | logical time, buckets, `later` | schedule, cancel, advance | owned by `timer_worker` | times are truncated to one turn |
| Wake queue (`timer/queue.rs: WakeQueue`) | items by cookie; two channels | schedule, cancel, retrieve; worker loop | main and worker thread | cookies are used again while commands and cookies are on their way |
| Timers of entities and clients (`logic/extra.rs`, `logic/world.rs`) | a remembered cookie per entity and client | hooks, input, login, logout, the callbacks | wake queue | a remembered cookie outlives its timer and its entity |
| Chunks (`chunks.rs`, `logic/chunks.rs`) | three tables of reference counts | load, unload, get_plane_id | provider: world, files, terrain generator | counts must agree although the provider fails |
| Terrain generation (`terrain_gen.rs`, `libterrain_gen/worker.rs`) | placeholders in the world, two channels | generate, process; worker loop | worker thread, chunks | answers come late, to another chunk than asked |
| Files of chunks (`logic/chunks.rs`, `util/stable_id_map.rs`, `logic/lifecycle.rs`) | stable ids, `saved_chunks`, files | pin, save, load, start_up, shut_down | world, storage | ids name files across restarts |
| Vision (`vision.rs`, `logic/vision.rs`) | views, areas, counts, tables by position; subscriptions | add, move and remove clients and objects; subscribe | messages | incremental counts; order of messages |
| Client views (`logic/client.rs`, `logic/world.rs`) | none of their own | login, logout, update_view, teleports | chunks, vision, timers, world | several steps over tables that each have their own idea of a plane |
| Items (`logic/items.rs`, `world/ops/inventory.rs`) | u8 counts | move, craft, open | vision, messages | arithmetic at the limits |
| Browser's inventories (`src/src/client/js/inventory.js`) | a reference count and contents per inventory | subscribe, unsubscribe, dialogs | server | dialogs opened and closed pass each other |
| Messages (`messages/`, `tasks.rs`) | clients by wire and by name | process, send | reader and writer threads | requests of a client that is gone |
| Engine (`engine/`) | `now`, all components | event loop, login, kick, restart | all | order of events; time going backwards; failures half way |
| Wrapper (`src/src/wrapper`) | both sides of every connection, messages held back | connect, close, restart | server, websockets | survives a restart of the back end |
| World (`world/`, `world/ops/`) | objects and their attachments; planes, limbo; tables | create, destroy, attach, set_plane, pin | hooks | a tree with back references, ids used again |
| Saving and loading (`world/save/`, `script/save.rs`) | - | save and load each kind of object, clean up | world, scripts | half-read objects are cleaned up |
| Physics (`physics.rs`, `src/src/libphysics`) | - | walk | terrain cache | boxes at borders, corners and heights |
| Terrain generators (`src/src/libterrain_gen/forest`, `cache.rs`, `prop.rs`) | summaries in a cache and in files | generate a chunk | files | chunks are generated in any order and must fit |
| Dungeons (`src/src/libterrain_gen/dungeon`) | a graph of tunnels, locks, caves | plan a dungeon | - | keys must not lie behind their locks |
| Terrain cache (`cache.rs`), authentication, scripts, data files, generators of assets | | | | see PROJECT.json for why each is left out or partly so |

What makes each part correct: a timer runs once, in time, unless cancelled;
what is in use is loaded and nothing else is; terrain is generated once and edits
are kept; a client's screen is exactly what its view meets, and a browser's
inventories what is in them; items are neither made nor lost; a player comes
back to what he left; the tree of objects and its tables say the same; a file is
read as it was written or not at all; a player is never inside a block; chunks
fit together at their borders; a dungeon can be completed.

## 2. Modules

| Module | Models | Uses |
|---|---|---|
| `WheelSpec` | what the wheel promises: a set of pending wakes | |
| `TimerWheel` | the hashed wheel itself | implements `WheelSpec` |
| `AlarmClock` | what the wake queue promises | |
| `WakeQueue` | main thread, worker thread, channels, cookies | `WheelSpec` as its wheel; implements `AlarmClock` |
| `EntityTimers` | the callers of the wake queue and the cookies they keep | the wake queue as an unordered set of items |
| `Chunks` | reference counts and the provider | |
| `Terrain` | what players see of the terrain of a plane | |
| `TerrainGen` | worker, placeholders, stable ids, files, restarts | implements `Terrain` |
| `Vision` | views, areas, counts, tables by position, screens | |
| `ClientViews` | pawns, planes and limbo, and what follows them: views, held chunks, view updates | the promises of `Chunks`, `Vision` and `EntityTimers` |
| `Inventories` | contents, subscriptions, messages and browsers | |
| `Session` | wrapper, pipes, engine, client files, restarts | |
| `Objects` | objects, tables, their operations, what is written of them and how it is read | |
| `World` | requests, scripts, chunks, files and restarts acting on `Objects` | `Objects` |
| `Walk` | `GroundStep` over blocks and ramps | |
| `Seams` | generation of neighbouring chunks, with the cache of summaries | |
| `Dungeon` | the plan of a dungeon | |
| `MC...` | instances for TLC | |
| `..._proofs` | theorems | |

Definitions prefixed `Mut` are mutations of the definition that follows them;
nothing uses them in the runs.  They document which bug each property catches.

### Timers

`WakeQueue` has one action per step of either thread.  `Schedule`, `Cancel` and
`Retrieve` are the methods of `WakeQueue`; `WakeUp`, `DrainSchedule`,
`DrainCancel`, `Advance`, `SendWake` and `Sent` are the worker's loop, one
command or cookie at a time, so that the main thread may act between any two.
`cancel` accepts any cookie at any time, as the callers keep cookies of their
own.  The wheel inside is `WheelSpec`, an idea of the wheel without buckets;
`TimerWheel` shows that the buckets implement it, provided that a cookie is
scheduled only when the wheel does not hold it and cancelled by its own time.
`WakeQueue` proves that this is how the worker uses it (`OneToken`,
`CancelsOwnWake`), so the two modules lean on each other without a gap.
Order among the wakes of a bucket with the same time is arbitrary, as is
the position of an element in the code's buckets.

`EntityTimers` models the callers.  What `Extra` remembers is `timers`; an item
of the queue is its callback and its `cancelled` flag.  Motion, views and chunks
are abstracted to the one thing timers depend on: whether an update asks for
another.  Its property, `LatestTimer`, is proved outright, without bounds on
entities, clients or cookies, and so has no run.

### Chunks and terrain

`Chunks` keeps the three tables of `chunks.rs` as functions with 0 for a vacant
entry.  `FirstUser` and `LastUser` are `load` and `unload` on a first or last
user: they do all of retain, retain_inner, the plane's count and the provider's
calls in one step, as the code does.  The provider may fail in any of its calls:
a load that fails leaves nothing, or takes the half-made chunk (or, through
`create_unchecked`'s default position, the one at 0,0 of plane 0: `Home`) out of
its plane; a save that fails leaves the chunk in memory.  `Near` is an
arbitrary neighbourhood; the code's is a square around the chunk.

`TerrainGen` is one plane.  `loaded` is the world's chunks with their
`TC_GENERATION_PENDING` flag, `files`, `plane_file` and `world_file` what is on
disk.  Blocks are abstracted to "placeholder", "generated" or an edit.  A restart
is `ShutDown`, after its loops, and `StartUp`; the answers still in the channels
are lost with the process.  `Terrain` is the same seen by players: a chunk has no
content, then generated content, then whatever edits make of it.

### Vision and views

`Vision` handles entities, structures and terrain chunks alike.  A client or an
object that does not exist is `Nowhere`, the value with which the code creates
and removes them (`PLANE_LIMBO` and an empty region).  `SetClientView` and
`SetObjectArea` are `set_client_view` and `set_entity_area` with every count,
table and message; the other six operations call them, as in the code.
`screen` is what the messages sent to a client add up to, and `half` the same
after the "gone" messages of the last call.  An entity loaded by login is added
without messages, removed and added again: for a screen that is one `AddObject`,
since a "gone" for an unknown entity is ignored.  Chunks are loaded and unloaded
without messages when they are in nobody's view.

`ClientViews` composes the parts that a player's session touches; each of them
is reduced to what its own module shows of it.  Of `Chunks` only the number of
users of a position is left (what is in memory follows from it), of `Vision` the
plane and center of each view, of the timers whether a client's view update is
`pending`: at once, when the pawn crosses a chunk boundary, or not at all.
What remains is new: `world`, the part of `World` with planes and pawns.  A plane
has a transient id while it is in memory, the lowest free one; a pawn belongs to
a plane by stable id and has the transient id of that plane, or `PLANE_LIMBO`,
which is 0, while the plane is not in memory.  `Login`, `Logout`, `SetView`
(`update_view`) and the teleports are whole functions, with the planes they load
and let go and the hooks of every pawn that changes planes on the way.  `Move`
starts a motion (input, or the end of the last), `Cross` takes the pawn to another
chunk, through any chunk in between.  A "crossing" timer that a logout leaves
behind comes at any time.  Nobody is teleported to a pawn in limbo (section 5,
observation 4), no save fails, and a client keeps its id.

### Inventories

The server's side is `contents`, the viewers' references (`visible_inventories`)
and the table of who is told (`inventory_viewers`).  Each update tells of itself at
once, as the hooks do: `Told` says who gets which messages, and `Becomes` takes the
new contents and the messages of a request's updates together.  The browser's side is
`tracked` and `dialog`; `down` and `up` are the two directions of the connection.
Only releases are kept as a number in `up`, for each inventory: they commute.
`blank` and `orphan` name the pairs that `BrowserAgrees` excepts (section 5).

### Sessions

`Session` has a state for each of the two processes.  `Open`, `Send`, `Close`,
`Control`, `Removed` and `BackendGone` are the wrapper's handlers; the `Handle...`
actions, `HandleShutdown` and `HandleRestart` are the engine's, each a whole
request, with `Login`, `Logout`, `KickClient`, `ShutDown` as operators on the
engine's part of the state (`Server`), as functions call one another.  Saving a
client may fail at any time, leaving the file cut off ("broken", created and not
finished); reading such a file is the assertion of `reader.rs: read_buf`, a panic,
or, where it was cut off at a field's end, an error.  A panic ends the back end,
after which the wrapper exits, or, in a restart, starts the next one.
The loops of `shut_down` and `post_restart` are stated by what they lead to: the
first client that cannot be logged out ends the one (`ShutDown`), and of those whom
the restart file names all come back who can be loaded, in some order, up to a
torn file (`Returning`, `Back`).

### World

`Objects` has each operation of `world/ops/` as an operator from a world to a
world, `World` the actions: scripts' operations, and what logins, logouts, chunks
and restarts do.  A file is a sequence of records in the order in which
`ObjectWriter` writes them; `ReadUntil` is `ObjectReader` as far as a given place,
with `Cleanup` if it stops there.  Ids are kind and number, the least number free,
as `IdMap` gives them out; stable ids count up.  The data of a script is the object
it refers to.  `kept` is what was last written, as a tree without transient ids,
so that what is read back can be compared.

### Algorithms

`Walk` is `libphysics/walk.rs`: the three checks of `GroundStep` (blocked, floor,
ramp) section by section, the adjustment of the direction, and the loop of
`walk_path`.  The four rounds of `adjust_planar` are `Corrected` four times over, and
`Steps` is the number of steps of `walk_path` as the code's loop leaves it: the least
at which the offset changes.  One action is a walk of up to `MaxSteps` pixels in one direction;
any prefix of its path is a position the server may compute (`Motion::pos`
interpolates).

`Dungeon` is `dungeon/plan.rs`: each action is one round of `gen_base`'s loop,
`MakeTris` what comes after it and `AssignTreasure` puts the items in the chests.
Random choices are choices of the model.

`Seams` is what chunks that are generated one after the other share: the LRU cache
of `cache.rs` with its files, the pass over neighbours of `prop.rs`, heights with
their constraints (`dsc.rs` as the sets of ranges it may fill), trees, cave
entrances and cave walls.  The rest of a chunk is random and its own.  The module
assumes (`SeamsAssumption`) what the code's shapes give: trees reach no farther than
the next chunk, a door that is not at the edge is the chunk's own, and the cache has
room for a chunk and the eight around it, or as many as there are.

## 3. Runs

Each run is `MC<Module>` with its .cfg and ends within five minutes on two
workers.

| Run | Shows | Bounds |
|---|---|---|
| `wheel` | `TimerWheel` implements `WheelSpec` | four buckets of 2 ms, an update every half turn, times over two turns: wakes in the past, in the current bucket, in the wheel, exactly one turn ahead, and more than that |
| `wake_queue` | `OneToken`, `CancelsOwnWake`, the alarm clock; every cookie comes back | 2 cookies for 3 callbacks, so that a number is used again while its last owner may still cancel it; 3 commands in the channel, so that Cancel, Schedule and Cancel of one number are in it together; times overdue, in the current bucket, and ahead; requests stop at a given time, time goes on |
| `chunks` | counts agree, no leak, nothing in use missing | 2 planes of 3 chunks in a row, 2 users each; every subset of failures |
| `terrain_gen` | `OwnFile`, `Terrain`; placeholders are filled | 2 chunks, 4 ids, 3 requests or answers under way: a chunk is asked for again twice before its first answer |
| `vision` | counts and tables, screens, `OneView` | 2 clients, 2 objects, 2 planes and limbo, a line of 4 positions, views of 2, areas of 1 or 2: views overlap, touch or are apart, and an object may be in two views or straddle one |
| `client_views` | chunks held for views, hidden loads unseen, pawns and planes, views follow | 2 clients, 3 planes, a line of 4 positions, views of 2, chunks that keep their neighbours: a plane comes and goes while a pawn is on its way to it, and its id is another's when it is back |
| `inventories` | references balance, subscribers are told, browsers agree, items are conserved | 1 client id used again, 2 inventories, one item with counts up to 2 (so a `u8` is cut at 3: a request for 4 is one for 1), a recipe that makes and one that uses up; 2 references of one client, 3 messages on the way: a dialog may be opened, closed and opened again before either side hears of it |
| `session` | tables and sockets agree, progress is kept, panics come from failed saves, ids are freed | 2 wires, 1 name, 2 client ids, 1 command, 2 requests and 2 answers in the pipes: the second wire logs in as the first does, closes or is kicked, before, in and after a restart |
| `world` | tree and tables agree, files are read as written or not at all, `saved_chunks` | 1 client, 2 entities, 1 inventory, 1 structure, 2 chunks, 3 planes with limbo, at most five objects; players and chunks are apart (`Small`): objects attached anywhere, saved, half read wherever reading can stop, over restarts |
| `dungeon` | a dungeon can be completed and caves give no way round a lock | a graph of 18 vertices with room for one gem puzzle and for doors before, beyond or in place of it, tunnels of length 2, one or two at a time; all random choices |
| `walk` | never inside a block, feet on the ground, the way back | every terrain of 2 by 3 tiles of four columns (floor, rock, ramp, low ceiling), tiles of 2 pixels, walks of 8 pixels from every position that is reached, in all directions |
| `seams` | chunks fit, trees stand level, entrances open, summaries are still around | 3 chunks around a corner and 2 far ones, a cache of 4, heights on two steps, trees over both borders, entrances at the border and inside; writes that fail, restarts and crashes |

Where bounds are small for time's sake, larger or other ones were tried once and
held: `walk` with seven columns, with ramps in other directions and with tiles of
3 pixels; `seams` with three heights and no caves, and with four chunks and a
cache of five.

Deadlock is checked except where the system may stop: `wake_queue` (time and
requests end), `chunks` and `inventories` (a panic ends the run), `terrain_gen`
(the ids run out, and what a deadlock would hide is a violation of
`PlaceholdersFilled`), `session` (the wrapper exits with the back end), `dungeon`
(the plan ends) and `walk` (a terrain with nowhere to go).

**Fairness.**  `WakeQueue`: time passes, the worker's loop never blocks for good
(it sleeps a bounded time and `try_recv`s), and the main loop serves the timer's
channel - `select!` takes the first channel that is ready, and the timer's is
listed first (`engine/mod.rs` 105-109).  `TerrainGen`: the worker serves its
queue, and the main loop comes to its answers when the other two channels are
empty.  `Session`: each process reads its pipes, a back end that has exited is
noticed, and websocketpp closes the sockets it was told to close.  Nothing else is
assumed: clients need not act, chunks need not be unloaded.

**What is excepted, and why.**  `OwnProgress` excepts names whose save failed,
`SessionsConnected` the sessions of observation 6, and it and `ClosedIsFreed` wires
whose message was lost with a back end (observation 10); `BrowserAgrees` excepts
inventories destroyed while open and those opened again while their closing was
on the way (11, 12); `Completable` dungeons whose items were not placed well and
`NoWayRound` locks whose vertices were dug over (20, 21), which the code lets
happen; `SeamsAgree` what was lost with a summary that could not be written.

## 4. Proofs

The proofs hold for all values of the constants that satisfy the modules'
named assumptions.

`WakeQueue_proofs`.  `OneToken` is not inductive: that a late cancellation finds
no other wake depends on where its item's Schedule command is.  `IInv` adds
`CancelBehind` (a Cancel command in the channel names a cancelled item, or one
whose Schedule command is behind it), `TokenTimes` (a token carries its item's
time, or a clamped one that is past), `WorkerBehindClock` and `OwnReason`.  The
queue lemmas say what appending to and taking from a channel does to the tokens
in it.  `Refinement` maps each step of either thread to a step of `AlarmClock`
or to a stutter.

The same module has the theorem about who uses the queue, `EntityTimers`, as an
instance (`Extra`).  Of the items in the queue that are not cancelled, at most one is an update of a given entity or client, and then it is the one that is
remembered: inductive with the types, since rescheduling cancels what is
remembered before it remembers the next, and retrieving an item removes it.

`Chunks_proofs`.  `CountedHolds` is the inductive core: the counts are
cardinalities of sets of users, so that adding a first user to `Near[c]` adds one
element to each of the sets concerned.  The four properties about memory follow
with invariants that say what is loaded and what is retained under "no load has
failed" and "no save has failed".

`TerrainGen_proofs`.  `IInv` is `TypeOK`, `OwnFile` and `LoadedOverSaved` (a
placeholder has no file; a loaded chunk with an id has the id of the plane's
map).  Without the last, an `UnloadChunk` could overwrite a file, and neither
`OwnFile` nor the refinement would be inductive.

`Inventories_proofs`.  `SubscribersTold` and `ReferencesBalance` are inductive with
the types: a queue holds as many references as there are dialogs in it for the
inventory, and what is put behind it or taken from its head adds to or takes from
that number.  With them a release never panics (`ReleasedIsRetained`).
`BrowserAgrees` needs more (`IInv`).  A dialog that the server follows up with the
contents finds the browser without the inventory, now and when it arrives
(`InOrder`), so that the record it opens starts from nothing and from nothing the
messages behind it lead to the contents (`Renewed`).  Who does not get messages has
no record and no dialog on the way: that is the balance.  And what is open but does
not exist is excepted (`Orphaned`), so that the next inventory with its id starts with nobody
who shows it.  A request's updates are taken one at a time (`Synced`, of any
messages and contents half way), and what a browser does is reduced to its own queue
and records (`BrowserKeeps`).  `ItemsConserved` is arithmetic over the invariant: the
limits of `MoveCount` and `CraftCount` leave nothing for `UpdateItemCount` to cut off.
None of the run's bounds plays a part; there must be finitely many items.

`Vision_proofs`.  `TablesAgree` and `ScreenAgrees` are inductive together, with
`OneView` (`Seen`).  The work is in the counts: a client's count of an object is the
number of positions the object's area and the client's view share, and
`set_client_view` and `set_entity_area` add and subtract what enters and leaves
(`MoveBalance`), so that a count reaches zero exactly when nothing is shared.
The theorems need finitely many positions and that no view and no area is empty,
which is how the code builds them.

`ClientViews_proofs`.  `IInv` holds that every plane in memory is known by a stable
id that was made and by one transient id (`Known`), that pawns and planes agree
(`Placed`), users are views (`Counted`), the plane of every view is in memory and is not
limbo (`ViewsHeld`), and views are where pawns are or an update is on its way
(`Follows`).  Each helper - loading a plane, letting go of one, making the users of a
view - has a lemma that says which parts it keeps, with the view it is half way to as
a parameter, since `update_view` takes the new chunks before it lets go of the old
ones.  It rests on two assumptions that the code's shapes satisfy: a view is never
empty, and a chunk keeps itself in memory.

`TimerWheel_proofs`.  `IInv` says that a bucket holds wakes of its own stretch of
time, that what waits in `later` is due a whole turn or more after the last update of
the wheel, and that no cookie is in both or twice in `later`.  From the second part follows
`LaterInTime`: a wake leaves `later` before its time.  The lemmas are about remainders:
which stretch of time a bucket stands for now (`TurnIs`), that it keeps it until
its time has come, and that two times less than a turn apart share a bucket only if
they share a stretch.  With them each operation on the buckets is the one on the set
of wakes, for buckets, turns and intervals of any length that divide one another.

`Session_proofs`.  A handler of the engine is a function of its state, a record
(`Server`), so that the lemmas are about such records: `Good` is what holds of one
between two handlers, and `Ending` the little that is enough when the engine ends.
`Good` has the tables and the progress, and what they rest on, `Files`: who is logged
in has an outdated file, who is in the world without being known to Messages has a
broken one - hence the panics -, and an outdated file is that of a session or of
somebody whose data was not saved - hence `OwnProgress` over any number of logins and
restarts.  `KickGood`, `LoadGood`, `RegisterGood`, `ShutDownEnds` and `BackGood` show
what each piece makes of them.  The rest of `IInv` is about the two processes together.
`ClosesReported`: the close of a socket is in one of the pipes, or went with a back
end.  `ClientsHeld`: as long as somebody is logged in on a wire, nothing in the pipe
to the wrapper says that it closed.  And `ToRestart` carries both through the
file between two back ends.  `SessionsAgree` follows, for any number of wires, names
and commands and pipes of any length.

`NeverInsideHolds`, at the end of `ClientViews_proofs`, is about `Walk`, which that
module extends, too (hence the names `WalkInit`, `WalkNext`, `WalkSpec`).  That no
obstacle is where the player is (`Free`) is inductive by itself; the work is in one step of a walk.
If the check for obstacles blocks no axis, every tile the player would be in has a part
that it was in before, or lies across an edge, and then the section of that edge is
in the table's row (`EdgeSection`).  A ramp is highest at a corner of a part, so that
who is above it on the larger part is above it on the smaller.  A direction which a
round of corrections leaves as it is has passed all three checks; along a walk, the
least step that would be inside an obstacle is not one that the loop takes.  The table
itself is `Blocking`; the sizes of tiles and of the terrain are any but 0 and 1, the
columns are any, and so is the length of a walk.

`SeamsInvHolds`, in `TerrainGen_proofs`, is about `Seams`, which that module extends,
too (hence the names `SeamsInit`, `SeamsNext`, `SeamsSpec`).  It has two halves that
hardly touch.  One is about the cache: `Sound` says that every copy of a summary, in
the cache or in a file, is that of one map from chunks to summaries, `Written` that
what is not in a file is dirty, `Backed` the same except for the chunk in hand.
Loading, refreshing, inserting and evicting keep that (`Keeps`), and behind the chunk
in hand there are only chunks in the directions that were looked at (`Behind`).  When
a chunk is pushed out, seven directions have been looked at at most, so that a cache
of nine, as the comment in `prop.rs` asks for, does not push out the chunk in hand
(`NotTheHead`): `StillAround`.  Either pass sees the summaries of all chunks around that
are still there when the new one is written (`GatheredFacts`, `GeneratedFacts`).
The other half, `Fits`, is about the map alone.  A height or a tree *claims* a step at
a vertex (`Claim`); whatever two summaries claim of a vertex is the same.  This is
stronger than `SeamsAgree` and `TreesFit` and inductive where they are not: a chunk
that does not exist yet, but is reached by trees of two others, must be able to
satisfy both.  Since all claims agree, it does not matter that only the last
summary that bears upon a vertex counts (`GridClaims`), and the same for what is open
(`MadeOpen`).  The theorems hold for any chunks, vertices, trees, doors and heights
and any size of the cache that `SeamsAssumption` allows; what they do not cover are
chunks that border on others and are generated when they have been (`Again`), of
which observation 23 says what goes wrong.

Only model-checked: liveness (`EveryCookieReturns`, `PlaceholdersFilled`,
`ClosedIsFreed`), which the prover does not reach; `FeetOnTheGround` and `WayBack` of
`Walk`; and the properties of `World` and `Dungeon`.  `FeetOnTheGround` is
about the maximum of heights of several ramps at once, for which one needs all shapes
of ground under a footprint, and `WayBack` retraces a walk.  `Dungeon` computes over
data with RECURSIVE operators, which a module with theorems cannot have.  `World` reads files,
cleans up after half of one and destroys what objects have attached to them with folds
over sets and sequences, of which the provers know nothing without an induction they
cannot do: it is a candidate once these steps are stated without folds, as
`Session` states who comes back after a restart and `Inventories` what browsers are
told.

## 5. Observations

What was noticed while modelling.  None has a run of its own; the models follow
the code, and the properties say what holds all the same.

*Timers and views*
1. `schedule_physics_update` cancels the cookie it remembers for an entity id, but
   that is not forgotten when its timer fires or its entity is destroyed
   (`logic/world.rs` 89-92, 215), so it may cancel another entity's update, against
   the comment at 419-420.  Likewise a player's input timer captures the client id
   (`engine/mod.rs` 235) and acts on whoever has it later.
2. A timer's callback runs with `now` set to its own time, which may be before the
   last message's (`engine/mod.rs` 115).
3. "Loading" may be sent without an "Ok" to follow: teleported away and back before
   the view update, or to another plane at the same position, no update is
   scheduled (`logic/world.rs` 231-234 against 440-443).
   `ViewFollowsPawn` is therefore about positions.
4. A teleport to a player whose pawn is in limbo (`logic/world.rs` 454) makes users
   for the limbo plane; when it is unloaded, its id 0 goes to another plane, against
   `world/mod.rs` 89-90.  `TeleportEntityPlane` leaves it out by its guard.

*Sessions*

5. A client file is created, and so cut off, before it is written
   (`logic/client.rs` 135-138).  When saving fails, the client stays in the world and
   `shut_down` logs it out again, which is a panic (`messages/clients.rs` `remove`)
   before the world and misc files are written.  A cut-off file panics whoever reads
   it (`world/save/reader.rs` 115); in `post_restart` the restart file stays and the
   next back end panics again.
6. A wire that logs in after it was kicked, before the wrapper knows, leaves a
   session nobody logs out until its name logs in again (`ghosts`).
7. A login that fails while loading is not answered, and a second restart command
   during a restart ends the wrapper with the next back end.
8. After a crash, stable ids that have files are handed out again
   (`logic/lifecycle.rs` 72); a plane that fails to load uses up a stable id.
9. `storage.rs` cuts a sanitized name at a byte, by an index of characters.
10. What the output thread has not yet written when `main` returns is lost, and so is
    what a back end has not read that is told to restart again: when the restart after
    it is asked for in time, who closed his socket meanwhile is logged in again, on a
    wire that is gone (`wrapper/server.cpp` 41-49).

*Inventories*

11. A browser that closes an inventory and is sent it again at the same time shows
    it empty: the server's subscription never ended, so that it does not send the
    contents again (`src/src/client/js/inventory.js` 50).
12. The subscribers of an inventory that is destroyed are not told, and are sent the
    updates of the next one with its id; `remove_client` leaves its entries in
    `inventory_viewers`, so that the next client with that id is sent updates of what
    the last had open (`vision.rs` 168, against 13-15).
13. `open_container` looks up its first inventory twice and never the second
    (`logic/items.rs` 32-33): a missing one is a panic.
    `unsubscribe_inventory` of what is not open is a panic (`util/refcount.rs` 78-79),
    where its caller says that it does nothing (`logic/input.rs` 40); the client of
    this repository never asks for it (`ReleasedIsRetained`).
14. A dialog that another replaces is hidden and not cancelled: its references stay.

*World and files*

15. An entity whose own plane is limbo waits in limbo like the others, and when
    `start_up` loads the limbo plane it is entered in the table by plane, against
    `world/mod.rs` 61 (`Homes` leaves such entities out of the run).
    The invariants of `Client.pawn`, `Plane.saved_chunks` and
    `Structure.plane` in `world/mod.rs` can be broken by attaching a pawn elsewhere, by
    unloading a chunk that is still generated, and by attaching a structure to its
    plane and unloading that.
16. `structure::replace` leaves `structures_by_chunk` as it was when the new template
    covers other chunks (`world/ops/structure.rs` 169-205); destroying an id that does
    not exist panics in `pre_fini`; the scripts' data of a plane is not cleared with it.
17. Cleaning up a chunk that was never finished unregisters the one at 0,0 of limbo
    (`world/ops/terrain_chunk.rs` 35).
18. Nothing at all is written for a script value of an unsupported type
    (`script/save.rs` 303), so that what follows it is read wrongly; data that refers to
    an object outside the file makes every save of it fail.
19. Structures across a border may overlap when the chunk on the other side was
    unloaded while they were placed, and which shape a tile has where two overlap
    depends on the order of a hash table.

*Dungeons and terrain*

20. The spot of the big loot loses a key or gem that was put there
    (`plan.rs` 1043-1045), and where no chest has the level, any is taken.
21. A path to a gem puzzle may go through vertices claimed by something else, and the
    vertices between its ends keep no label, so that an item beside it may be put
    behind its own lock.  Extra loot looks for room beside the wrong vertex
    (`p.cur` instead of `v`), and a plan without any spot is a panic.
22. `add_placement_constraints` (`forest/trees.rs` 47) tests the offset where the
    position is meant, so that a tree also constrains the chunk it stands in.
23. A chunk that is generated again after its file was lost gets other heights while
    its neighbours keep the constraints of the first: `SeamsAgree` does not hold with
    such chunks in `Again`.
24. Summaries are written only when they are evicted or the worker ends in order; a
    write that fails is a warning.  At shutdown the channel for answers goes before
    the worker, which panics if a request is still queued.  A load that fails has
    pushed out another entry all the same (`cache.rs` 81).
25. Only one of the kinds of ramps can come from the data files
    (`Shape::from_primitive`); `walk` uses that one.

## 6. Not modelled

PROJECT.json lists every part with the reason.  In the modules themselves: the
limit of 2^29 cookies, the shift between world time and unix time, the order of
items with equal times, the bytes of messages and files, unsaved effects of
crashes other than on terrain summaries, and failures of steps other than saving
and loading.  `World` does not unload limbo's plane, and forgets a file once it
is read: without a crash it is written again before it is read again.  Not
covered by any module: the terrain cache (`cache.rs`), the superchunk's diamond
square and the inner features of a chunk, the small loot of dungeons, game rules
in Lua other than the gem puzzle's, rendering and prediction in the browser, the
wrapper's REPL, authentication, and build-time tools.

## 7. Plan

Done: timers, chunks, terrain, vision, views, inventories, sessions, world and
files, walking, dungeons, forest.  Next, in this order:

1. Proofs: `TreeAgrees` and `TablesAgree` of `World`, after its folds are restated.
2. `TerrainCache`: the shapes and layers of blocks follow every change of chunks and
   structures (needs the order of overlapping structures, observation 19).
3. Crashes between the saves of a chunk, its plane and the world: an abstract disk,
   and what survives of it.
