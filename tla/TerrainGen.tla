----------------------------- MODULE TerrainGen ------------------------------
(***************************************************************************)
(* The life of the chunks of one plane: generated by the worker thread of  *)
(* libterrain_gen behind a placeholder (terrain_gen.rs), edited, saved and *)
(* loaded (logic/chunks.rs), across orderly restarts of the server         *)
(* (logic/lifecycle.rs).                                                   *)
(*                                                                         *)
(* A chunk's file is named by its stable id, which it gets when it is      *)
(* first unloaded; the plane's map from position to stable id is in the    *)
(* plane's file, and the next stable id in the world's.  An answer of the  *)
(* worker finds its chunk by position, so it may meet a later chunk than   *)
(* the one it was asked for.                                               *)
(*                                                                         *)
(* A chunk is loaded only when it is absent, and a plane unloaded only     *)
(* without chunks: Chunks_proofs proves it, as long as saving succeeds.    *)
(***************************************************************************)
EXTENDS Integers, Sequences

CONSTANTS CPos, Edits,
          MaxId,       \* bound: stable ids of terrain chunks
          MaxInFlight  \* bound: requests and answers in the channels

ASSUME TerrainGenAssumption ==
    /\ MaxId \in Nat /\ MaxInFlight \in Nat
    /\ {"none", "placeholder"} \cap Edits = {}

VARIABLES
    running,                   \* the server runs
    plane, saved_chunks,       \* the plane is loaded, and its ids by position
    loaded,                    \* the terrain chunks in the world
    next_id,                   \* World.terrain_chunks.next_id
    requests, responses,       \* channels to and from the worker
    files,                     \* chunk files, by stable id
    plane_file, world_file     \* saved_chunks and next_id as last saved

channels == <<requests, responses>>
disk == <<files, plane_file, world_file>>
vars == <<running, plane, saved_chunks, loaded, next_id, channels, disk>>

NO_STABLE_ID == 0
Ids == 1 .. MaxId
Chunk(id, pending, blocks) == [stable_id |-> id, pending |-> pending, blocks |-> blocks]
Absent == Chunk(NO_STABLE_ID, FALSE, "none")

Init ==
    /\ running = TRUE
    /\ plane = FALSE /\ saved_chunks = [c \in CPos |-> NO_STABLE_ID]
    /\ loaded = [c \in CPos |-> Absent]
    /\ next_id = 1
    /\ requests = <<>> /\ responses = <<>>
    /\ files = [i \in Ids |-> "none"]
    /\ plane_file = saved_chunks /\ world_file = 1

-----------------------------------------------------------------------------
(* The main thread.                                                        *)

LoadPlane ==
    /\ running /\ ~plane
    /\ plane' = TRUE
    /\ saved_chunks' = plane_file
    /\ UNCHANGED <<running, loaded, next_id, channels, disk>>

UnloadPlane ==
    /\ plane /\ \A c \in CPos : loaded[c] = Absent
    /\ plane' = FALSE
    /\ plane_file' = saved_chunks
    /\ UNCHANGED <<running, saved_chunks, loaded, next_id, channels, files, world_file>>

HasFile(c) == saved_chunks[c] # NO_STABLE_ID /\ files[saved_chunks[c]] # "none"

ReadChunk(c) ==
    /\ plane /\ loaded[c] = Absent
    /\ HasFile(c)
    /\ loaded' = [loaded EXCEPT ![c] =
                    Chunk(saved_chunks[c], FALSE, files[saved_chunks[c]])]
    /\ UNCHANGED <<running, plane, saved_chunks, next_id, channels, disk>>

MutGenerateChunk(c) ==   \* a chunk that has an id was asked for before
    /\ plane /\ loaded[c] = Absent
    /\ ~HasFile(c)
    /\ Len(requests) + Len(responses) < MaxInFlight
    /\ loaded' = [loaded EXCEPT ![c] = Chunk(NO_STABLE_ID, TRUE, "placeholder")]
    /\ requests' = IF saved_chunks[c] = NO_STABLE_ID THEN Append(requests, c) ELSE requests
    /\ UNCHANGED <<running, plane, saved_chunks, next_id, responses, disk>>

GenerateChunk(c) ==
    /\ plane /\ loaded[c] = Absent
    /\ ~HasFile(c)
    /\ Len(requests) + Len(responses) < MaxInFlight
    /\ loaded' = [loaded EXCEPT ![c] = Chunk(NO_STABLE_ID, TRUE, "placeholder")]
    /\ requests' = Append(requests, c)
    /\ UNCHANGED <<running, plane, saved_chunks, next_id, responses, disk>>

(* pin: the chunk's stable id, which is a new one if it has none. *)
Pinned(c) == IF loaded[c].stable_id = NO_STABLE_ID THEN next_id ELSE loaded[c].stable_id

(* The id is entered in the plane's map even if the chunk is a placeholder *)
(* and is not saved under it.                                              *)
UnloadChunk(c) ==
    /\ loaded[c] # Absent /\ Pinned(c) \in Ids
    /\ saved_chunks' = [saved_chunks EXCEPT ![c] = Pinned(c)]
    /\ next_id' = IF Pinned(c) = next_id THEN next_id + 1 ELSE next_id
    /\ files' = IF loaded[c].pending THEN files
                ELSE [files EXCEPT ![Pinned(c)] = loaded[c].blocks]
    /\ loaded' = [loaded EXCEPT ![c] = Absent]
    /\ UNCHANGED <<running, plane, channels, plane_file, world_file>>

(* Players and scripts change what is there.  The blocks of a placeholder  *)
(* are solid and have none of the names an edit looks for.                 *)
Edit(c, v) ==
    /\ loaded[c] # Absent /\ ~loaded[c].pending
    /\ loaded' = [loaded EXCEPT ![c].blocks = v]
    /\ UNCHANGED <<running, plane, saved_chunks, next_id, channels, disk>>

MutProcess ==            \* whatever chunk is there is filled
    /\ responses # <<>>
    /\ responses' = Tail(responses)
    /\ LET c == Head(responses)
       IN loaded' = IF loaded[c] # Absent
                    THEN [loaded EXCEPT ![c].pending = FALSE, ![c].blocks = "generated"]
                    ELSE loaded
    /\ UNCHANGED <<running, plane, saved_chunks, next_id, requests, disk>>

(* An answer for a chunk that is gone, or no longer a placeholder, is      *)
(* dropped.                                                                *)
Process ==
    /\ responses # <<>>
    /\ responses' = Tail(responses)
    /\ LET c == Head(responses)
       IN loaded' = IF loaded[c].pending
                    THEN [loaded EXCEPT ![c].pending = FALSE, ![c].blocks = "generated"]
                    ELSE loaded
    /\ UNCHANGED <<running, plane, saved_chunks, next_id, requests, disk>>

(* shut_down, after its loops have unloaded every chunk and plane. *)
ShutDown ==
    /\ running /\ ~plane
    /\ running' = FALSE
    /\ world_file' = next_id
    /\ requests' = <<>> /\ responses' = <<>>
    /\ UNCHANGED <<plane, saved_chunks, loaded, next_id, files, plane_file>>

MutStartUp ==            \* the next id is not restored
    /\ ~running
    /\ running' = TRUE
    /\ next_id' = 1
    /\ UNCHANGED <<plane, saved_chunks, loaded, channels, disk>>

StartUp ==
    /\ ~running
    /\ running' = TRUE
    /\ next_id' = world_file
    /\ UNCHANGED <<plane, saved_chunks, loaded, channels, disk>>

-----------------------------------------------------------------------------
(* The worker.                                                             *)

Work ==
    /\ requests # <<>>
    /\ requests' = Tail(requests)
    /\ responses' = Append(responses, Head(requests))
    /\ UNCHANGED <<running, plane, saved_chunks, loaded, next_id, disk>>

Next ==
    \/ LoadPlane \/ UnloadPlane \/ ShutDown \/ StartUp
    \/ \E c \in CPos : ReadChunk(c) \/ GenerateChunk(c) \/ UnloadChunk(c)
    \/ \E c \in CPos, v \in Edits : Edit(c, v)
    \/ Process
    \/ Work

Spec == Init /\ [][Next]_vars

(* The worker serves its queue, and the main loop selects over its answers. *)
FairSpec == Spec /\ WF_vars(Work) /\ WF_vars(Process)

-----------------------------------------------------------------------------

Contents == {"generated"} \cup Edits

TypeOK ==
    /\ running \in BOOLEAN /\ plane \in BOOLEAN
    /\ saved_chunks \in [CPos -> {NO_STABLE_ID} \cup Ids]
    /\ plane_file \in [CPos -> {NO_STABLE_ID} \cup Ids]
    /\ loaded \in [CPos -> [stable_id : {NO_STABLE_ID} \cup Ids, pending : BOOLEAN,
                            blocks : Contents \cup {"none", "placeholder"}]]
    /\ next_id \in Nat \ {0} /\ world_file \in Nat \ {0}
    /\ requests \in Seq(CPos) /\ responses \in Seq(CPos)
    /\ files \in [Ids -> Contents \cup {"none"}]

(* Where the saved version of a chunk is, and the version a player gets.   *)
Known(c)   == IF plane THEN saved_chunks[c] ELSE plane_file[c]
Saved(c)   == IF Known(c) = NO_STABLE_ID THEN "none" ELSE files[Known(c)]
Content(c) == IF loaded[c] # Absent /\ ~loaded[c].pending THEN loaded[c].blocks
                                                         ELSE Saved(c)

(* Whatever the worker answers late, and however often chunks, the plane   *)
(* and the server go and come back, terrain is generated once and edits    *)
(* are never lost: process drops what would "RESET chunk contents (erasing *)
(* modifications)".                                                        *)
Players == INSTANCE Terrain WITH content <- [c \in CPos |-> Content(c)]
ImplementsTerrain == Players!Spec

(* No two chunks share a stable id, and so a file, and no id is handed out *)
(* that has a file from before the restart (pin, save_world).              *)
NextId == IF running THEN next_id ELSE world_file
OwnFile ==
    /\ \A c, d \in CPos : Known(c) = Known(d) => c = d \/ Known(c) = NO_STABLE_ID
    /\ \A c \in CPos : Known(c) < NextId
    /\ \A i \in Ids : files[i] # "none" => i < NextId

(* What makes the others inductive: what is loaded and what is saved. *)
LoadedOverSaved ==
    /\ \A c \in CPos :
        /\ loaded[c].pending => Saved(c) = "none"
        /\ loaded[c].stable_id # NO_STABLE_ID => loaded[c].stable_id = saved_chunks[c]
        /\ loaded[c] # Absent => plane
        /\ loaded[c].blocks = "none" => loaded[c] = Absent
        /\ loaded[c].blocks = "placeholder" <=> loaded[c].pending
    /\ plane => running

IInv == TypeOK /\ OwnFile /\ LoadedOverSaved

(* A placeholder does not stay: it is filled, or unloaded. *)
PlaceholdersFilled == \A c \in CPos : loaded[c].pending ~> ~loaded[c].pending
=============================================================================
