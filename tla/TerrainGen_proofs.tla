-------------------------- MODULE TerrainGen_proofs --------------------------
(***************************************************************************)
(* Theorems about TerrainGen, for any chunks, edits and bounds, and, after *)
(* them, about Seams, for any forest and any cache that is large enough.   *)
(***************************************************************************)
EXTENDS TerrainGen, Seams, SequenceTheorems, FiniteSetTheorems, WellFoundedInduction, TLAPS

USE TerrainGenAssumption DEF NO_STABLE_ID, Ids

(* Initially nothing is loaded, saved or on its way. *)
LEMMA InitInvariant == Init => IInv
<1> SUFFICES ASSUME Init PROVE IInv
  OBVIOUS
<1>1. TypeOK
  <2>1. requests \in Seq(CPos) /\ responses \in Seq(CPos)
    BY EmptySeq DEF Init
  <2>2. loaded \in [CPos -> [stable_id : {NO_STABLE_ID} \cup Ids, pending : BOOLEAN,
                            blocks : Contents \cup {"none", "placeholder"}]]
    BY DEF Init, Absent, Chunk
  <2>3. running \in BOOLEAN /\ plane \in BOOLEAN
    BY DEF Init
  <2>4. /\ saved_chunks \in [CPos -> {NO_STABLE_ID} \cup Ids]
        /\ plane_file \in [CPos -> {NO_STABLE_ID} \cup Ids]
        /\ files \in [Ids -> Contents \cup {"none"}]
        /\ next_id \in Nat \ {0} /\ world_file \in Nat \ {0}
    BY DEF Init
  <2> QED
    BY <2>1, <2>2, <2>3, <2>4 DEF TypeOK
<1>2. OwnFile /\ LoadedOverSaved
  BY DEF Init, OwnFile, LoadedOverSaved, NextId, Known, Saved, Absent, Chunk
<1> QED
  BY <1>1, <1>2 DEF IInv

(* The invariant says nothing about the channels but their type. *)
LEMMA ChannelsOnly ==
    ASSUME IInv, requests' \in Seq(CPos), responses' \in Seq(CPos),
           UNCHANGED <<running, plane, saved_chunks, loaded, next_id, disk>>
    PROVE  IInv'
<1>1. TypeOK'
  BY DEF IInv, TypeOK, disk
<1>2. /\ NextId' = NextId /\ UNCHANGED <<loaded, plane, running, saved_chunks, files>>
      /\ \A c : Known(c)' = Known(c) /\ Saved(c)' = Saved(c)
  BY DEF NextId, Known, Saved, disk
<1>3. OwnFile'
  BY <1>2 DEF IInv, OwnFile
<1>4. LoadedOverSaved'
  <2>1. Absent' = Absent
    BY DEF Absent
  <2> QED
    BY <1>2, <2>1 DEF IInv, LoadedOverSaved
<1> QED
  BY <1>1, <1>3, <1>4 DEF IInv

(* The worker moves a position from one channel to the other. *)
LEMMA WorkStep == IInv /\ Work => IInv'
<1> SUFFICES ASSUME IInv, Work PROVE IInv'
  OBVIOUS
<1>1. Head(requests) \in CPos /\ Tail(requests) \in Seq(CPos)
  BY DEF IInv, TypeOK, Work
<1>2. requests' \in Seq(CPos) /\ responses' \in Seq(CPos)
  BY <1>1 DEF IInv, TypeOK, Work
<1> QED
  BY <1>2, ChannelsOnly DEF Work

(* The server comes and goes with nothing loaded, and its next id with it. *)
LEMMA ServerStep == IInv /\ (ShutDown \/ StartUp) => IInv'
<1> SUFFICES ASSUME IInv, ShutDown \/ StartUp PROVE IInv'
  OBVIOUS
<1>1. TypeOK'
  <2>1. requests' \in Seq(CPos) /\ responses' \in Seq(CPos)
    BY EmptySeq DEF IInv, TypeOK, ShutDown, StartUp, channels
  <2> QED
    BY <2>1 DEF IInv, TypeOK, ShutDown, StartUp, disk
<1>2. /\ UNCHANGED <<plane, saved_chunks, plane_file, files, loaded>>
      /\ NextId' = NextId
  BY DEF ShutDown, StartUp, NextId, disk
<1>3. \A c : Known(c)' = Known(c) /\ Saved(c)' = Saved(c)
  BY <1>2 DEF Known, Saved
<1>4. OwnFile'
  BY <1>2, <1>3 DEF IInv, OwnFile
<1>5. LoadedOverSaved'
  BY <1>2, <1>3 DEF IInv, LoadedOverSaved, Absent, ShutDown, StartUp
<1> QED
  BY <1>1, <1>4, <1>5 DEF IInv

(* The plane's map is the same before and after it is loaded or unloaded. *)
LEMMA PlaneStep == IInv /\ (LoadPlane \/ UnloadPlane) => IInv'
<1> SUFFICES ASSUME IInv, LoadPlane \/ UnloadPlane PROVE IInv'
  OBVIOUS
<1>1. TypeOK'
  BY DEF IInv, TypeOK, LoadPlane, UnloadPlane, channels, disk
<1>2. UNCHANGED <<files, loaded, running>> /\ NextId' = NextId
  BY DEF LoadPlane, UnloadPlane, NextId, disk
<1>3. \A c : Known(c)' = Known(c) /\ Saved(c)' = Saved(c)
  BY <1>2 DEF LoadPlane, UnloadPlane, Known, Saved, disk
<1>4. OwnFile'
  BY <1>2, <1>3 DEF IInv, OwnFile
<1>5. \A c \in CPos : loaded[c] = Absent
  BY DEF IInv, LoadedOverSaved, LoadPlane, UnloadPlane
<1>6. LoadedOverSaved'
  BY <1>2, <1>5 DEF IInv, LoadedOverSaved, Absent, Chunk, LoadPlane, UnloadPlane
<1> QED
  BY <1>1, <1>4, <1>6 DEF IInv

(* A step that only changes what is loaded at c keeps the invariant if the *)
(* chunk put there is consistent with what is saved.                       *)
LEMMA ChunkStep ==
    ASSUME IInv, NEW c \in CPos, NEW t, plane,
           t \in [stable_id : {NO_STABLE_ID} \cup Ids, pending : BOOLEAN,
                  blocks : Contents \cup {"none", "placeholder"}],
           t.pending => Saved(c) = "none",
           t.stable_id # NO_STABLE_ID => t.stable_id = saved_chunks[c],
           t.blocks = "none" => t = Absent,
           t.blocks = "placeholder" <=> t.pending,
           loaded' = [loaded EXCEPT ![c] = t],
           requests' \in Seq(CPos), responses' \in Seq(CPos),
           UNCHANGED <<running, plane, saved_chunks, next_id, disk>>
    PROVE  IInv'
<1>1. TypeOK'
  BY DEF IInv, TypeOK, disk
<1>2. NextId' = NextId /\ \A d : Known(d)' = Known(d) /\ Saved(d)' = Saved(d)
  BY DEF NextId, Known, Saved, disk
<1>3. OwnFile'
  BY <1>2 DEF IInv, OwnFile, disk
<1>4. \A d \in CPos : loaded'[d] = IF d = c THEN t ELSE loaded[d]
  BY DEF IInv, TypeOK
<1>5. LoadedOverSaved'
  <2>1. \A d \in CPos :
            /\ loaded'[d].pending => Saved(d)' = "none"
            /\ loaded'[d].stable_id # NO_STABLE_ID => loaded'[d].stable_id = saved_chunks'[d]
            /\ loaded'[d].blocks = "none" => loaded'[d] = Absent
            /\ loaded'[d].blocks = "placeholder" <=> loaded'[d].pending
    <3> SUFFICES ASSUME NEW d \in CPos
                 PROVE  /\ loaded'[d].pending => Saved(d)' = "none"
                        /\ loaded'[d].stable_id # NO_STABLE_ID => loaded'[d].stable_id = saved_chunks'[d]
                        /\ loaded'[d].blocks = "none" => loaded'[d] = Absent
                        /\ loaded'[d].blocks = "placeholder" <=> loaded'[d].pending
      OBVIOUS
    <3>1. CASE d = c
      BY <3>1, <1>2, <1>4
    <3>2. CASE d # c
      BY <3>2, <1>2, <1>4 DEF IInv, LoadedOverSaved
    <3> QED
      BY <3>1, <3>2
  <2>2. plane' /\ (plane' => running')
    BY DEF IInv, LoadedOverSaved
  <2> QED
    BY <2>1, <2>2 DEF LoadedOverSaved, Absent
<1> QED
  BY <1>1, <1>3, <1>5 DEF IInv

(* Loading, editing and filling a chunk. *)
LEMMA LoadStep ==
    ASSUME IInv, NEW c \in CPos,
           ReadChunk(c) \/ GenerateChunk(c) \/ \E v \in Edits : Edit(c, v)
    PROVE  IInv'
<1> USE DEF IInv, TypeOK
<1>1. CASE ReadChunk(c)
  <2> DEFINE t == Chunk(saved_chunks[c], FALSE, files[saved_chunks[c]])
  <2>1. saved_chunks[c] \in Ids /\ files[saved_chunks[c]] \in Contents
    BY <1>1 DEF ReadChunk, HasFile
  <2>2. files[saved_chunks[c]] # "none" /\ files[saved_chunks[c]] # "placeholder"
    BY <2>1 DEF Contents
  <2>3. plane /\ loaded' = [loaded EXCEPT ![c] = t]
        /\ UNCHANGED <<running, plane, saved_chunks, next_id, channels, disk>>
    BY <1>1 DEF ReadChunk
  <2>4. t \in [stable_id : {NO_STABLE_ID} \cup Ids, pending : BOOLEAN,
               blocks : Contents \cup {"none", "placeholder"}]
        /\ t.pending = FALSE /\ t.stable_id = saved_chunks[c]
        /\ t.blocks # "none" /\ t.blocks # "placeholder"
    BY <2>1, <2>2 DEF Chunk
  <2> HIDE DEF t
  <2> QED
    BY <2>3, <2>4, ChunkStep DEF channels
<1>2. CASE GenerateChunk(c)
  <2> DEFINE t == Chunk(NO_STABLE_ID, TRUE, "placeholder")
  <2>1. plane /\ loaded' = [loaded EXCEPT ![c] = t] /\ requests' = Append(requests, c)
        /\ UNCHANGED <<running, plane, saved_chunks, next_id, responses, disk>>
    BY <1>2 DEF GenerateChunk
  <2>2. Saved(c) = "none"
    BY <1>2 DEF GenerateChunk, HasFile, Saved, Known
  <2>3. t \in [stable_id : {NO_STABLE_ID} \cup Ids, pending : BOOLEAN,
               blocks : Contents \cup {"none", "placeholder"}]
        /\ t.pending = TRUE /\ t.stable_id = NO_STABLE_ID /\ t.blocks = "placeholder"
    BY DEF Chunk
  <2>4. requests' \in Seq(CPos)
    BY <2>1
  <2> HIDE DEF t
  <2> QED
    BY <2>1, <2>2, <2>3, <2>4, ChunkStep
<1>3. ASSUME NEW v \in Edits, Edit(c, v) PROVE IInv'
  <2> DEFINE t == [loaded[c] EXCEPT !.blocks = v]
  <2>1. loaded[c] # Absent /\ ~loaded[c].pending /\ loaded' = [loaded EXCEPT ![c] = t]
        /\ UNCHANGED <<running, plane, saved_chunks, next_id, channels, disk>>
    BY <1>3 DEF Edit
  <2>2. plane /\ (loaded[c].stable_id # NO_STABLE_ID => loaded[c].stable_id = saved_chunks[c])
    BY <2>1 DEF LoadedOverSaved
  <2>3. t \in [stable_id : {NO_STABLE_ID} \cup Ids, pending : BOOLEAN,
               blocks : Contents \cup {"none", "placeholder"}]
        /\ t.pending = FALSE /\ t.stable_id = loaded[c].stable_id
        /\ t.blocks # "none" /\ t.blocks # "placeholder"
    BY <2>1 DEF Contents
  <2> HIDE DEF t
  <2> QED
    BY <2>1, <2>2, <2>3, ChunkStep DEF channels
<1> QED
  BY <1>1, <1>2, <1>3

(* An answer fills the placeholder at its position, or nothing. *)
LEMMA ProcessStep == IInv /\ Process => IInv'
<1> SUFFICES ASSUME IInv, Process PROVE IInv'
  OBVIOUS
<1> USE DEF IInv, TypeOK
<1> DEFINE c == Head(responses)
           t == [loaded[c] EXCEPT !.pending = FALSE, !.blocks = "generated"]
<1>1. c \in CPos /\ responses' \in Seq(CPos)
  BY DEF Process
<1>2. UNCHANGED <<running, plane, saved_chunks, next_id, requests, disk>>
  BY DEF Process
<1>3. loaded' = IF loaded[c].pending THEN [loaded EXCEPT ![c] = t] ELSE loaded
  BY <1>1 DEF Process
<1>4. CASE loaded[c].pending
  <2>1. loaded[c] # Absent
    BY <1>4 DEF Absent, Chunk
  <2>2. plane /\ (loaded[c].stable_id # NO_STABLE_ID => loaded[c].stable_id = saved_chunks[c])
    BY <1>1, <2>1 DEF LoadedOverSaved
  <2>3. t \in [stable_id : {NO_STABLE_ID} \cup Ids, pending : BOOLEAN,
               blocks : Contents \cup {"none", "placeholder"}]
        /\ t.pending = FALSE /\ t.stable_id = loaded[c].stable_id
        /\ t.blocks = "generated"
    BY <1>1 DEF Contents
  <2> HIDE DEF t, c
  <2> QED
    BY <1>1, <1>2, <1>3, <1>4, <2>2, <2>3, ChunkStep
<1>5. CASE ~loaded[c].pending
  BY <1>1, <1>2, <1>3, <1>5, ChannelsOnly
<1> QED
  BY <1>4, <1>5

(* An unloaded chunk is saved under an id that no other chunk has. *)
LEMMA UnloadStep ==
    ASSUME IInv, NEW c \in CPos, UnloadChunk(c)
    PROVE  IInv'
<1> USE DEF IInv, TypeOK
<1> DEFINE id == Pinned(c)
<1>1. plane /\ running /\ loaded[c] # Absent
  BY DEF UnloadChunk, LoadedOverSaved
<1>2. id \in Ids /\ next_id' \in Nat \ {0} /\ id < next_id' /\ next_id <= next_id'
      /\ (id = next_id \/ id = saved_chunks[c])
  <2>1. saved_chunks[c] < next_id
    BY <1>1 DEF OwnFile, Known, NextId
  <2>2. id = next_id \/ (id = saved_chunks[c] /\ id # NO_STABLE_ID)
    BY DEF Pinned, LoadedOverSaved
  <2>3. id \in Ids /\ next_id' = IF id = next_id THEN next_id + 1 ELSE next_id
    BY DEF UnloadChunk
  <2> HIDE DEF id
  <2> QED
    BY <2>1, <2>2, <2>3
<1>3. /\ saved_chunks' = [saved_chunks EXCEPT ![c] = id]
      /\ files' = IF loaded[c].pending THEN files
                  ELSE [files EXCEPT ![id] = loaded[c].blocks]
      /\ loaded' = [loaded EXCEPT ![c] = Absent]
      /\ UNCHANGED <<running, plane, requests, responses, plane_file, world_file>>
  BY DEF UnloadChunk, channels
<1>4. loaded[c].pending \/ loaded[c].blocks \in Contents
  BY <1>1 DEF LoadedOverSaved
<1> HIDE DEF id
<1>5. TypeOK'
  BY <1>2, <1>3, <1>4 DEF Absent, Chunk
<1>6. /\ NextId = next_id /\ NextId' = next_id'
      /\ \A d : Known(d) = saved_chunks[d] /\ Known(d)' = saved_chunks'[d]
  BY <1>1, <1>3 DEF NextId, Known
<1>7. \A d \in CPos : saved_chunks'[d] = IF d = c THEN id ELSE saved_chunks[d]
  BY <1>3
<1>8. \A d \in CPos : d # c => saved_chunks[d] # id
  BY <1>2, <1>6 DEF OwnFile
<1>9. OwnFile'
  <2>1. \A d, e \in CPos : saved_chunks'[d] = saved_chunks'[e]
                                => d = e \/ saved_chunks'[d] = NO_STABLE_ID
    BY <1>6, <1>7, <1>8 DEF OwnFile
  <2>2. \A d \in CPos : saved_chunks'[d] < next_id'
    <3> SUFFICES ASSUME NEW d \in CPos PROVE saved_chunks'[d] < next_id'
      OBVIOUS
    <3>1. saved_chunks[d] < next_id /\ saved_chunks[d] \in Nat
      BY <1>6 DEF OwnFile
    <3> QED
      BY <3>1, <1>2, <1>7
  <2>3. \A i \in Ids : files'[i] # "none" => i < next_id'
    BY <1>2, <1>3, <1>6 DEF OwnFile
  <2> QED
    BY <2>1, <2>2, <2>3, <1>6 DEF OwnFile
<1>10. LoadedOverSaved'
  <2>1. \A d \in CPos \ {c} : Saved(d)' = Saved(d)
    BY <1>2, <1>3, <1>6, <1>7, <1>8 DEF Saved
  <2>2. \A d \in CPos : loaded'[d] = IF d = c THEN Absent ELSE loaded[d]
    BY <1>3
  <2>3. plane' /\ running'
    BY <1>1, <1>3
  <2>4. \A d \in CPos \ {c} :
            /\ loaded'[d].pending => Saved(d)' = "none"
            /\ loaded'[d].stable_id # NO_STABLE_ID => loaded'[d].stable_id = saved_chunks'[d]
            /\ loaded'[d].blocks = "none" => loaded'[d] = Absent
            /\ loaded'[d].blocks = "placeholder" <=> loaded'[d].pending
    BY <2>1, <2>2, <1>7 DEF LoadedOverSaved
  <2>5. /\ ~loaded'[c].pending /\ loaded'[c].stable_id = NO_STABLE_ID
        /\ loaded'[c] = Absent /\ loaded'[c].blocks = "none"
    BY <2>2 DEF Absent, Chunk
  <2> QED
    BY <2>3, <2>4, <2>5 DEF LoadedOverSaved, Absent
<1> QED
  BY <1>5, <1>9, <1>10

(* The invariant is inductive. *)
LEMMA Inductive == IInv /\ [Next]_vars => IInv'
<1> SUFFICES ASSUME IInv, [Next]_vars PROVE IInv'
  OBVIOUS
<1>1. CASE UNCHANGED vars
  BY <1>1, ChannelsOnly DEF vars, channels, IInv, TypeOK
<1> QED
  BY <1>1, WorkStep, ServerStep, PlaneStep, LoadStep, ProcessStep, UnloadStep DEF Next

(* The inductive invariant holds throughout. *)
LEMMA Invariant == Spec => []IInv
  BY InitInvariant, Inductive, PTL DEF Spec

(* Every variable keeps its type.  In particular a placeholder is never    *)
(* written to a file (unload_terrain_chunk).                               *)
THEOREM TypeCorrect == Spec => []TypeOK
  BY Invariant, PTL DEF IInv

(* No two chunks share a file, over any number of restarts (pin,           *)
(* save_world, read_world).                                                *)
THEOREM OwnFileHolds == Spec => []OwnFile
  BY Invariant, PTL DEF IInv

-----------------------------------------------------------------------------
(* The refinement.                                                         *)

content == [c \in CPos |-> Content(c)]

(* What a chunk contains depends on what is loaded and saved for it. *)
LEMMA SameContent ==
    ASSUME NEW d \in CPos, loaded'[d] = loaded[d], Saved(d)' = Saved(d)
    PROVE  Content(d)' = Content(d)
  BY DEF Content, Absent

(* Saved versions change only when a chunk is unloaded. *)
LEMMA SameSaved ==
    ASSUME IInv, [Next]_vars, \A c \in CPos : ~UnloadChunk(c)
    PROVE  \A d \in CPos : Saved(d)' = Saved(d)
<1>1. UNCHANGED files /\ \A d \in CPos : Known(d)' = Known(d)
  <2>1. CASE LoadPlane \/ UnloadPlane
    BY <2>1 DEF LoadPlane, UnloadPlane, disk, Known
  <2>2. CASE UNCHANGED <<plane, saved_chunks, plane_file, files>>
    BY <2>2 DEF Known
  <2>3. UNCHANGED <<plane, saved_chunks, plane_file, files>> \/ LoadPlane \/ UnloadPlane
    BY DEF Next, vars, ShutDown, StartUp, ReadChunk, GenerateChunk, Edit, Process, Work, disk
  <2> QED
    BY <2>1, <2>2, <2>3
<1> QED
  BY <1>1 DEF Saved

(* Saving and loading a chunk brings back what was there. *)
LEMMA UnloadContent ==
    ASSUME IInv, NEW c \in CPos, UnloadChunk(c)
    PROVE  UNCHANGED content
<1> USE DEF IInv, TypeOK
<1> DEFINE id == Pinned(c)
<1>1. /\ plane /\ running /\ loaded[c] # Absent /\ id \in Ids
      /\ saved_chunks' = [saved_chunks EXCEPT ![c] = id]
      /\ files' = IF loaded[c].pending THEN files
                  ELSE [files EXCEPT ![id] = loaded[c].blocks]
      /\ loaded' = [loaded EXCEPT ![c] = Absent]
      /\ UNCHANGED plane
  BY DEF UnloadChunk, LoadedOverSaved
<1>2. \A d \in CPos : /\ Known(d) = saved_chunks[d] /\ Known(d)' = saved_chunks'[d]
                       /\ saved_chunks'[d] = IF d = c THEN id ELSE saved_chunks[d]
  BY <1>1 DEF Known
<1>3. id = saved_chunks[c] \/ id = next_id
  BY DEF Pinned, LoadedOverSaved
<1> HIDE DEF id
<1>4. \A d \in CPos : d # c => saved_chunks[d] # id
  BY <1>1, <1>2, <1>3 DEF OwnFile, NextId
<1>5. ASSUME NEW d \in CPos, d # c PROVE Content(d)' = Content(d)
  <2>1. Saved(d)' = Saved(d)
    BY <1>1, <1>2, <1>4, <1>5 DEF Saved
  <2>2. loaded'[d] = loaded[d]
    BY <1>1, <1>5
  <2> QED
    BY <2>1, <2>2, SameContent
<1>6. Content(c)' = Content(c)
  <2>1. Content(c)' = files'[id]
    <3>1. loaded'[c] = Absent' /\ Absent' = Absent
      BY <1>1 DEF Absent
    <3> QED
      BY <3>1, <1>1, <1>2 DEF Content, Saved
  <2>2. CASE loaded[c].pending
    <3>1. Content(c) = "none" /\ Saved(c) = "none"
      BY <2>2 DEF Content, LoadedOverSaved
    <3>2. files[id] = "none"
      <4>1. CASE id = saved_chunks[c]
        BY <4>1, <3>1, <1>1, <1>2 DEF Saved
      <4>2. CASE id = next_id
        BY <4>2, <1>1 DEF OwnFile, NextId
      <4> QED
        BY <4>1, <4>2, <1>3
    <3> QED
      BY <2>1, <2>2, <3>1, <3>2, <1>1
  <2>3. CASE ~loaded[c].pending
    BY <2>1, <2>3, <1>1 DEF Content
  <2> QED
    BY <2>2, <2>3
<1> QED
  BY <1>5, <1>6 DEF content

(* A step that changes no chunk but c, and no saved version. *)
LEMMA OneChunk ==
    ASSUME IInv, NEW c \in CPos, NEW t, loaded' = [loaded EXCEPT ![c] = t],
           \A d \in CPos : Saved(d)' = Saved(d)
    PROVE  content' = [content EXCEPT ![c] = Content(c)']
<1>1. \A d \in CPos : d # c => loaded'[d] = loaded[d]
  BY DEF IInv, TypeOK
<1>2. \A d \in CPos : d # c => Content(d)' = Content(d)
  BY <1>1, SameContent
<1> QED
  BY <1>2 DEF content

(* Every step is a step of Terrain, or none. *)
LEMMA StepRefines ==
    ASSUME IInv, IInv', [Next]_vars
    PROVE  [Players!Next]_content
<1> USE DEF IInv, TypeOK
<1>1. CASE \E c \in CPos : UnloadChunk(c)
  BY <1>1, UnloadContent
<1>2. ASSUME \A c \in CPos : ~UnloadChunk(c) PROVE \A d \in CPos : Saved(d)' = Saved(d)
  BY <1>2, SameSaved
<1>3. ASSUME \A c \in CPos : ~UnloadChunk(c), UNCHANGED loaded PROVE UNCHANGED content
  BY <1>2, <1>3, SameContent DEF content
<1>4. ASSUME NEW c \in CPos, \A d \in CPos : ~UnloadChunk(d), ReadChunk(c)
      PROVE  UNCHANGED content
  <2>1. /\ loaded' = [loaded EXCEPT ![c] = Chunk(saved_chunks[c], FALSE, files[saved_chunks[c]])]
        /\ plane /\ loaded[c] = Absent /\ HasFile(c)
    BY <1>4 DEF ReadChunk
  <2>2. Content(c) = files[saved_chunks[c]]
    BY <2>1 DEF Content, Saved, Known, HasFile
  <2>3. Content(c)' = files[saved_chunks[c]]
    <3>1. /\ loaded'[c].pending = FALSE /\ loaded'[c].blocks = files[saved_chunks[c]]
          /\ files[saved_chunks[c]] # "none"
      BY <2>1 DEF Chunk, HasFile
    <3>2. loaded'[c] # Absent'
      BY <3>1 DEF Absent, Chunk
    <3> QED
      BY <3>1, <3>2 DEF Content
  <2>4. content' = [content EXCEPT ![c] = Content(c)']
    BY <2>1, <1>2, <1>4, OneChunk
  <2>5. Content(c)' = Content(c)
    BY <2>2, <2>3
  <2> QED
    BY <2>4, <2>5 DEF content
<1>5. ASSUME NEW c \in CPos, \A d \in CPos : ~UnloadChunk(d), GenerateChunk(c)
      PROVE  UNCHANGED content
  <2>1. loaded' = [loaded EXCEPT ![c] = Chunk(NO_STABLE_ID, TRUE, "placeholder")]
        /\ loaded[c] = Absent
    BY <1>5 DEF GenerateChunk
  <2>2. Content(c) = Saved(c) /\ Content(c)' = Saved(c)'
    BY <2>1 DEF Content, Chunk
  <2> QED
    BY <2>1, <2>2, <1>2, <1>5, OneChunk DEF content
<1>6. ASSUME NEW c \in CPos, NEW v \in Edits, \A d \in CPos : ~UnloadChunk(d), Edit(c, v)
      PROVE  Players!Edit(c, v)
  <2>1. /\ loaded' = [loaded EXCEPT ![c] = [loaded[c] EXCEPT !.blocks = v]]
        /\ loaded[c] # Absent /\ ~loaded[c].pending
    BY <1>6 DEF Edit
  <2>2. Content(c) # "none"
    BY <2>1 DEF Content, LoadedOverSaved
  <2>3. Content(c)' = v
    <3>1. loaded'[c].blocks = v /\ ~loaded'[c].pending /\ v # "none"
      BY <2>1
    <3>2. loaded'[c] # Absent'
      BY <3>1 DEF Absent, Chunk
    <3> QED
      BY <3>1, <3>2 DEF Content
  <2> QED
    BY <2>1, <2>2, <2>3, <1>2, <1>6, OneChunk DEF content, Players!Edit
<1>7. ASSUME Process, \A d \in CPos : ~UnloadChunk(d), loaded' # loaded
      PROVE  \E c \in CPos : Players!Generate(c)
  <2>1. PICK c \in CPos : c = Head(responses)
    BY <1>7 DEF Process
  <2>2. /\ loaded[c].pending
        /\ loaded' = [loaded EXCEPT ![c] =
                        [loaded[c] EXCEPT !.pending = FALSE, !.blocks = "generated"]]
    BY <1>7, <2>1 DEF Process
  <2>3. Content(c) = "none"
    BY <2>1, <2>2 DEF Content, LoadedOverSaved
  <2>4. Content(c)' = "generated"
    <3>1. loaded'[c].blocks = "generated" /\ ~loaded'[c].pending
      BY <2>1, <2>2
    <3>2. loaded'[c] # Absent'
      BY <3>1 DEF Absent, Chunk
    <3> QED
      BY <3>1, <3>2 DEF Content
  <2>5. content' = [content EXCEPT ![c] = Content(c)']
    BY <2>1, <2>2, <1>2, <1>7, OneChunk
  <2> QED
    BY <2>1, <2>3, <2>4, <2>5 DEF content, Players!Generate
<1>8. CASE UNCHANGED loaded
  BY <1>1, <1>3, <1>8
<1>9. UNCHANGED loaded \/ Process \/ (\E c \in CPos : ReadChunk(c) \/ GenerateChunk(c)
        \/ UnloadChunk(c) \/ \E v \in Edits : Edit(c, v))
  BY DEF Next, vars, LoadPlane, UnloadPlane, ShutDown, StartUp, Work
<1> QED
  BY <1>1, <1>4, <1>5, <1>6, <1>7, <1>8, <1>9 DEF Players!Next, content

(* Terrain is generated once and edits are never lost, over any number of  *)
(* requests in flight, unloadings and orderly restarts (process,           *)
(* unload_terrain_chunk, load_terrain_chunk).                              *)
THEOREM Refinement == Spec => ImplementsTerrain
<1>1. Init => Players!Init
  BY DEF Init, Players!Init, Content, Saved, Known, Absent
<1>2. IInv /\ IInv' /\ [Next]_vars => [Players!Next]_[c \in CPos |-> Content(c)]
  BY StepRefines DEF content
<1> QED
  BY <1>1, <1>2, Invariant, PTL DEF Spec, ImplementsTerrain, Players!Spec

HIDE TerrainGenAssumption DEF NO_STABLE_ID, Ids

-----------------------------------------------------------------------------
(* Seams: the cache, and what it is a cache of.                            *)

(* Which positions can a summary be found for, and is it that of L? *)
Entries(L) == {[pos |-> c, summ |-> L[c], dirty |-> b] : c \in DOMAIN L, b \in BOOLEAN}
Shelves(L) == {[c \in S |-> L[c]] : S \in SUBSET DOMAIN L}

Sound(st, L) ==
    /\ st \in [cache : Seq(Entries(L)), files : Shelves(L)]
    /\ \A i, j \in DOMAIN st.cache : st.cache[i].pos = st.cache[j].pos => i = j
(* What is not written yet is dirty; chunk c is about to be. *)
Backed(st, c) ==
    \A i \in DOMAIN st.cache :
        st.cache[i].pos = c \/ st.cache[i].dirty \/ Has(st.files, st.cache[i].pos)

LEMMA EntryFacts ==
    ASSUME NEW L, NEW e \in Entries(L)
    PROVE  /\ e \in [pos : DOMAIN L, summ : {L[c] : c \in DOMAIN L}, dirty : BOOLEAN]
           /\ e.pos \in DOMAIN L /\ e.summ = L[e.pos] /\ e.dirty \in BOOLEAN
  BY DEF Entries

LEMMA ShelfFacts ==
    ASSUME NEW L, NEW f
    PROVE  f \in Shelves(L) <=> /\ DOMAIN f \subseteq DOMAIN L /\ f = [c \in DOMAIN f |-> f[c]]
                                /\ \A c \in DOMAIN f : f[c] = L[c]
<1>1. ASSUME f \in Shelves(L)
      PROVE  /\ DOMAIN f \subseteq DOMAIN L /\ f = [c \in DOMAIN f |-> f[c]]
             /\ \A c \in DOMAIN f : f[c] = L[c]
  BY <1>1 DEF Shelves
<1>2. ASSUME DOMAIN f \subseteq DOMAIN L, f = [c \in DOMAIN f |-> f[c]],
             \A c \in DOMAIN f : f[c] = L[c]
      PROVE  f \in Shelves(L)
  <2>1. f = [c \in DOMAIN f |-> L[c]]
    BY <1>2
  <2> QED
    BY <1>2, <2>1 DEF Shelves
<1> QED
  BY <1>1, <1>2

LEMMA ShelfLess ==
    ASSUME NEW L, NEW f \in Shelves(L), NEW d
    PROVE  Without(f, {d}) \in Shelves(L) /\ DOMAIN Without(f, {d}) = DOMAIN f \ {d}
<1>1. DOMAIN f \subseteq DOMAIN L /\ \A c \in DOMAIN f : f[c] = L[c]
  BY ShelfFacts
<1>2. Without(f, {d}) = [c \in DOMAIN f \ {d} |-> L[c]]
  BY <1>1 DEF Without
<1>3. DOMAIN f \ {d} \in SUBSET DOMAIN L
  BY <1>1
<1> QED
  BY <1>2, <1>3 DEF Shelves

LEMMA ShelfMore ==
    ASSUME NEW L, NEW f \in Shelves(L), NEW d \in DOMAIN L
    PROVE  With(f, d, L[d]) \in Shelves(L) /\ DOMAIN With(f, d, L[d]) = DOMAIN f \cup {d}
<1>1. DOMAIN f \subseteq DOMAIN L /\ \A c \in DOMAIN f : f[c] = L[c]
  BY ShelfFacts
<1>2. With(f, d, L[d]) = [c \in DOMAIN f \cup {d} |-> L[c]]
  BY <1>1 DEF With
<1>3. DOMAIN f \cup {d} \in SUBSET DOMAIN L
  BY <1>1
<1> QED
  BY <1>2, <1>3 DEF Shelves

(* What is in the cache. *)
LEMMA CacheFacts ==
    ASSUME NEW L, NEW st, Sound(st, L)
    PROVE  /\ st.cache \in Seq(Entries(L)) /\ Len(st.cache) \in Nat
           /\ DOMAIN st.cache = 1 .. Len(st.cache)
           /\ \A i \in 1 .. Len(st.cache) :
                /\ st.cache[i] \in Entries(L) /\ st.cache[i].pos \in DOMAIN L
                /\ st.cache[i].summ = L[st.cache[i].pos]
           /\ \A i, j \in 1 .. Len(st.cache) : st.cache[i].pos = st.cache[j].pos => i = j
           /\ st.files \in Shelves(L)
           /\ DOMAIN st.files \subseteq DOMAIN L /\ \A c \in DOMAIN st.files : st.files[c] = L[c]
           /\ st = [cache |-> st.cache, files |-> st.files]
<1>1. st.cache \in Seq(Entries(L)) /\ st.files \in Shelves(L)
  BY DEF Sound
<1>2. \A i \in 1 .. Len(st.cache) : st.cache[i] \in Entries(L)
  BY <1>1
<1>3. \A i \in 1 .. Len(st.cache) :
         st.cache[i].pos \in DOMAIN L /\ st.cache[i].summ = L[st.cache[i].pos]
  BY <1>2, EntryFacts
<1>4. DOMAIN st.files \subseteq DOMAIN L /\ \A c \in DOMAIN st.files : st.files[c] = L[c]
  BY <1>1, ShelfFacts
<1> QED
  BY <1>1, <1>2, <1>3, <1>4 DEF Sound

LEMMA IndexFacts ==
    ASSUME NEW L, NEW st, Sound(st, L), NEW d, Cached(st, d)
    PROVE  /\ Index(st, d) \in 1 .. Len(st.cache) /\ st.cache[Index(st, d)].pos = d
           /\ d \in DOMAIN L /\ Summ(st, d) = L[d]
           /\ \A i \in 1 .. Len(st.cache) : st.cache[i].pos = d => i = Index(st, d)
<1>1. DOMAIN st.cache = 1 .. Len(st.cache)
  BY CacheFacts
<1>2. Index(st, d) \in DOMAIN st.cache /\ st.cache[Index(st, d)].pos = d
  BY DEF Cached, Index
<1> QED
  BY <1>1, <1>2, CacheFacts DEF Summ

(* A cache made from another one. *)
LEMMA SoundMade ==
    ASSUME NEW L, NEW q \in Seq(Entries(L)), NEW f \in Shelves(L),
           \A i, j \in 1 .. Len(q) : q[i].pos = q[j].pos => i = j
    PROVE  Sound([cache |-> q, files |-> f], L)
<1>1. DOMAIN q = 1 .. Len(q)
  OBVIOUS
<1> QED
  BY <1>1 DEF Sound

-----------------------------------------------------------------------------
(* What an operation on the cache keeps: all copies are those of L; what   *)
(* was there is still there, unless nothing can be written; and the file   *)
(* of the chunk in hand is not touched.                                    *)
Keeps(st, st1, L, c, full) ==
    /\ Sound(st1, L) /\ Backed(st1, c)
    /\ Kept(st1) \subseteq Kept(st)
    /\ ~full => Kept(st1) = Kept(st)
    /\ Has(st1.files, c) <=> Has(st.files, c)

LEMMA EvictedKeeps ==
    ASSUME NEW L, DOMAIN L \subseteq Chunks, NEW st, NEW c, NEW full \in BOOLEAN,
           Sound(st, L), Backed(st, c), Len(st.cache) > 0, Head(st.cache).pos # c
    PROVE  /\ Keeps(st, Evicted(st, full), L, c, full)
           /\ Evicted(st, full).cache = Tail(st.cache)
           /\ \A d : d # Head(st.cache).pos => 
                        /\ Cached(Evicted(st, full), d) <=> Cached(st, d)
                        /\ Has(Evicted(st, full).files, d) <=> Has(st.files, d)
<1> DEFINE q == st.cache
           e == Head(q)
           r == Tail(q)
           f == IF ~e.dirty THEN st.files
                ELSE IF full THEN Without(st.files, {e.pos}) ELSE With(st.files, e.pos, e.summ)
           n == Len(q)
<1>1. /\ q \in Seq(Entries(L)) /\ n \in Nat /\ n > 0 /\ st.files \in Shelves(L)
      /\ st = [cache |-> q, files |-> st.files]
      /\ \A i, j \in 1 .. n : q[i].pos = q[j].pos => i = j
  BY CacheFacts
<1>2. Evicted(st, full) = [cache |-> r, files |-> f]
  BY <1>1 DEF Evicted
<1>3. /\ e = q[1] /\ e \in Entries(L) /\ r \in Seq(Entries(L)) /\ Len(r) = n - 1
      /\ \A i \in 1 .. n - 1 : r[i] = q[i + 1]
  BY <1>1
<1>4. e.pos \in DOMAIN L /\ e.summ = L[e.pos] /\ e.dirty \in BOOLEAN
  BY <1>3, EntryFacts
<1>5. /\ DOMAIN f = IF ~e.dirty THEN DOMAIN st.files
                    ELSE IF full THEN DOMAIN st.files \ {e.pos}
                    ELSE DOMAIN st.files \cup {e.pos}
      /\ f \in Shelves(L)
  <2>1. CASE ~e.dirty
    <3>1. f = st.files
      BY <2>1
    <3> HIDE DEF f, e
    <3> QED
      BY <1>1, <2>1, <3>1
  <2>2. CASE e.dirty /\ full
    <3>1. f = Without(st.files, {e.pos})
      BY <2>2
    <3>2. st.files \in Shelves(L) /\ full
      BY <1>1, <2>2
    <3> HIDE DEF f, e
    <3>3. Without(st.files, {e.pos}) \in Shelves(L)
          /\ DOMAIN Without(st.files, {e.pos}) = DOMAIN st.files \ {e.pos}
      BY <3>2, ShelfLess
    <3> QED
      BY <2>2, <3>1, <3>3
  <2>3. CASE e.dirty /\ ~full
    <3>1. f = With(st.files, e.pos, L[e.pos])
      BY <1>4, <2>3
    <3>2. st.files \in Shelves(L) /\ e.pos \in DOMAIN L
      BY <1>1, <1>4
    <3> HIDE DEF f, e
    <3>3. \A x \in DOMAIN L : /\ With(st.files, x, L[x]) \in Shelves(L)
                              /\ DOMAIN With(st.files, x, L[x]) = DOMAIN st.files \cup {x}
      BY <3>2, ShelfMore
    <3> QED
      BY <2>3, <3>1, <3>2, <3>3
  <2> QED
    BY <2>1, <2>2, <2>3
<1> HIDE DEF q, e, r, f, n
<1>6. \A i, j \in 1 .. Len(r) : r[i].pos = r[j].pos => i = j
  <2> SUFFICES ASSUME NEW i \in 1 .. Len(r), NEW j \in 1 .. Len(r), r[i].pos = r[j].pos
               PROVE  i = j
    OBVIOUS
  <2>1. i + 1 \in 1 .. n /\ j + 1 \in 1 .. n /\ q[i + 1].pos = q[j + 1].pos
    BY <1>1, <1>3
  <2>2. i + 1 = j + 1
    BY <1>1, <2>1
  <2> QED
    BY <2>2
<1>7. Sound([cache |-> r, files |-> f], L)
  BY <1>3, <1>5, <1>6, SoundMade
<1>8. /\ DOMAIN q = 1 .. n /\ DOMAIN r = 1 .. n - 1
  BY <1>1, <1>3 DEF n
<1>9. \A d : (\E i \in 1 .. n : q[i].pos = d) <=> d = e.pos \/ \E i \in 1 .. n - 1 : r[i].pos = d
  <2> TAKE d
  <2>1. ASSUME NEW i \in 1 .. n, q[i].pos = d PROVE d = e.pos \/ \E k \in 1 .. n - 1 : r[k].pos = d
    <3>1. CASE i = 1
      BY <1>3, <2>1, <3>1
    <3>2. CASE i # 1
      <4>1. i - 1 \in 1 .. n - 1 /\ (i - 1) + 1 = i
        BY <1>1, <3>2
      <4>2. r[i - 1] = q[i]
        BY <1>3, <4>1
      <4> QED
        BY <2>1, <4>1, <4>2
    <3> QED
      BY <3>1, <3>2
  <2>2. ASSUME d = e.pos PROVE \E k \in 1 .. n : q[k].pos = d
    <3>1. 1 \in 1 .. n /\ q[1].pos = d
      BY <1>1, <1>3, <2>2
    <3> QED
      BY <3>1
  <2>3. ASSUME NEW i \in 1 .. n - 1, r[i].pos = d PROVE \E k \in 1 .. n : q[k].pos = d
    <3>1. i + 1 \in 1 .. n /\ q[i + 1].pos = d
      BY <1>1, <1>3, <2>3
    <3> QED
      BY <3>1
  <2> QED
    BY <2>1, <2>2, <2>3
<1>10. \A i \in 1 .. n - 1 : r[i].pos # e.pos
  <2> SUFFICES ASSUME NEW i \in 1 .. n - 1, r[i].pos = e.pos PROVE FALSE
    OBVIOUS
  <2>1. i + 1 \in 1 .. n /\ 1 \in 1 .. n /\ q[i + 1].pos = q[1].pos
    BY <1>1, <1>3
  <2>2. i + 1 = 1
    BY <1>1, <2>1
  <2> QED
    BY <2>2
<1>11. Backed([cache |-> r, files |-> f], c)
  <2> SUFFICES ASSUME NEW i \in 1 .. n - 1, r[i].pos # c, ~r[i].dirty PROVE Has(f, r[i].pos)
    BY <1>8 DEF Backed
  <2>1. i + 1 \in 1 .. n /\ q[i + 1] = r[i]
    BY <1>1, <1>3
  <2>2. Has(st.files, r[i].pos)
    BY <1>8, <2>1 DEF Backed, q
  <2> QED
    BY <1>5, <1>10, <2>2 DEF Has
<1>12. \A d : Cached(st, d) <=> d = e.pos \/ Cached([cache |-> r, files |-> f], d)
  BY <1>8, <1>9 DEF Cached, q
<1>13. ~Cached([cache |-> r, files |-> f], e.pos)
  BY <1>8, <1>10 DEF Cached
<1>14. /\ Kept([cache |-> r, files |-> f]) \subseteq Kept(st)
       /\ ~full => Kept([cache |-> r, files |-> f]) = Kept(st)
  <2>1. \A d : Has(f, d) => Has(st.files, d) \/ d = e.pos
    BY <1>4, <1>5 DEF Has
  <2>2. ~full => \A d : Has(st.files, d) => Has(f, d)
    BY <1>5 DEF Has
  <2>3. ~full => Has(f, e.pos)
    <3>1. ASSUME ~e.dirty PROVE Has(st.files, e.pos)
      <4>1. 1 \in DOMAIN q /\ e.pos # c
        BY <1>1, <1>8 DEF e, q
      <4> QED
        BY <1>3, <3>1, <4>1 DEF Backed, q
    <3> QED
      BY <1>4, <1>5, <3>1 DEF Has
  <2> QED
    BY <1>4, <1>12, <2>1, <2>2, <2>3 DEF Kept
<1>15. \A d : d # e.pos => (Has(f, d) <=> Has(st.files, d))
  BY <1>5 DEF Has
<1>19. e.pos # c
  BY DEF e, q
<1>16. Has(f, c) <=> Has(st.files, c)
  BY <1>15, <1>19
<1>17. Keeps(st, [cache |-> r, files |-> f], L, c, full)
  BY <1>7, <1>11, <1>14, <1>16 DEF Keeps
<1>18. \A d : d # e.pos => (Cached([cache |-> r, files |-> f], d) <=> Cached(st, d))
  BY <1>12
<1>20. Evicted(st, full).cache = Tail(st.cache)
  BY <1>2 DEF r, q
<1>21. Evicted(st, full).files = f
  BY <1>2
<1>22. e = Head(st.cache)
  BY DEF e, q
<1> QED
  BY <1>2, <1>15, <1>17, <1>18, <1>20, <1>21, <1>22

LEMMA KeepsTransitive ==
    ASSUME NEW st, NEW st1, NEW st2, NEW L, NEW c, NEW full \in BOOLEAN,
           Keeps(st, st1, L, c, full), Keeps(st1, st2, L, c, full)
    PROVE  Keeps(st, st2, L, c, full)
  BY DEF Keeps

(* What is refreshed comes last, and the rest moves up. *)
LEMMA RefreshedOrder ==
    ASSUME NEW L, NEW st, Sound(st, L), NEW d, Cached(st, d)
    PROVE  LET q == st.cache
               i == Index(st, d)
               r == Refreshed(st, d).cache
               n == Len(q)
           IN  /\ r \in Seq(Entries(L)) /\ Len(r) = n /\ n \in Nat /\ i \in 1 .. n
               /\ \A j \in 1 .. n : r[j] = IF j < i THEN q[j] ELSE IF j < n THEN q[j + 1] ELSE q[i]
<1> DEFINE q == st.cache
           i == Index(st, d)
           n == Len(q)
           a == SubSeq(q, 1, i - 1)
           b == SubSeq(q, i + 1, n)
<1>1. q \in Seq(Entries(L)) /\ n \in Nat /\ i \in 1 .. n
  BY CacheFacts, IndexFacts
<1>2. Refreshed(st, d).cache = Append(a \o b, q[i])
  BY DEF Refreshed, RemoveAt
<1> HIDE DEF q, i, n
<1>3. /\ a \in Seq(Entries(L)) /\ Len(a) = i - 1 /\ \A j \in 1 .. i - 1 : a[j] = q[j]
      /\ b \in Seq(Entries(L)) /\ Len(b) = n - i /\ \A j \in 1 .. n - i : b[j] = q[i + j]
  <2>1. n = Len(q)
    BY DEF n
  <2> QED
    BY <1>1, <2>1
<1> HIDE DEF a, b
<1>4. /\ a \o b \in Seq(Entries(L)) /\ Len(a \o b) = n - 1
      /\ \A j \in 1 .. n - 1 : (a \o b)[j] = IF j < i THEN q[j] ELSE q[j + 1]
  <2>1. a \o b \in Seq(Entries(L)) /\ Len(a \o b) = n - 1
    <3>1. a \o b \in Seq(Entries(L)) /\ Len(a \o b) = Len(a) + Len(b)
      BY <1>3, ConcatProperties
    <3> QED
      BY <1>1, <1>3, <3>1
  <2>2. ASSUME NEW j \in 1 .. n - 1 PROVE (a \o b)[j] = IF j < i THEN q[j] ELSE q[j + 1]
    <3>1. CASE j < i
      BY <1>1, <1>3, <3>1
    <3>2. CASE ~(j < i)
      <4>1. j - (i - 1) \in 1 .. n - i /\ i + (j - (i - 1)) = j + 1
        BY <1>1, <3>2
      <4>2. (a \o b)[j] = b[j - (i - 1)]
        BY <1>1, <1>3, <3>2
      <4> QED
        BY <1>3, <3>2, <4>1, <4>2
    <3> QED
      BY <3>1, <3>2
  <2> QED
    BY <2>1, <2>2
<1>5. q[i] \in Entries(L)
  BY <1>1, CacheFacts DEF q, n
<1> DEFINE m == a \o b
           r == Append(m, q[i])
<1> HIDE DEF m
<1>6. /\ r \in Seq(Entries(L)) /\ Len(r) = n /\ r[n] = q[i]
      /\ \A j \in 1 .. n - 1 : r[j] = m[j]
  BY <1>1, <1>4, <1>5 DEF m
<1> HIDE DEF r
<1>7. \A j \in 1 .. n : r[j] = IF j < i THEN q[j] ELSE IF j < n THEN q[j + 1] ELSE q[i]
  <2> SUFFICES ASSUME NEW j \in 1 .. n
               PROVE  r[j] = IF j < i THEN q[j] ELSE IF j < n THEN q[j + 1] ELSE q[i]
    OBVIOUS
  <2>1. CASE j = n
    BY <1>1, <1>6, <2>1
  <2>2. CASE j # n
    <3>1. j \in 1 .. n - 1 /\ j < n
      BY <1>1, <2>2
    <3>2. m[j] = IF j < i THEN q[j] ELSE q[j + 1]
      BY <1>4, <3>1 DEF m
    <3> QED
      BY <1>6, <3>1, <3>2
  <2> QED
    BY <2>1, <2>2
<1>8. Refreshed(st, d).cache = r
  BY <1>2 DEF r, m
<1> QED
  BY <1>1, <1>6, <1>7, <1>8 DEF q, i, n

LEMMA RefreshedKeeps ==
    ASSUME NEW L, NEW st, NEW c, NEW full \in BOOLEAN,
           Sound(st, L), Backed(st, c), NEW d, Cached(st, d)
    PROVE  /\ Keeps(st, Refreshed(st, d), L, c, full)
           /\ \A x : Cached(Refreshed(st, d), x) <=> Cached(st, x)
<1> DEFINE q == st.cache
           i == Index(st, d)
           r == Refreshed(st, d).cache
           n == Len(q)
           to(j) == IF j < i THEN j ELSE IF j < n THEN j + 1 ELSE i
           from(j) == IF j < i THEN j ELSE IF j = i THEN n ELSE j - 1
<1>1. /\ r \in Seq(Entries(L)) /\ Len(r) = n /\ n \in Nat /\ i \in 1 .. n
      /\ \A j \in 1 .. n : r[j] = q[to(j)]
  BY RefreshedOrder
<1>2. /\ \A j, k \in 1 .. n : q[j].pos = q[k].pos => j = k
      /\ DOMAIN q = 1 .. n /\ st.files \in Shelves(L)
  BY CacheFacts
<1>3. Refreshed(st, d) = [cache |-> r, files |-> st.files]
  BY DEF Refreshed
<1> HIDE DEF q, i, r, n
<1>4. /\ \A j \in 1 .. n : to(j) \in 1 .. n /\ from(j) \in 1 .. n /\ to(from(j)) = j
      /\ \A j, k \in 1 .. n : to(j) = to(k) => j = k
  BY <1>1
<1> HIDE DEF to, from
<1>5. \A j, k \in 1 .. n : r[j].pos = r[k].pos => j = k
  <2> SUFFICES ASSUME NEW j \in 1 .. n, NEW k \in 1 .. n, r[j].pos = r[k].pos PROVE j = k
    OBVIOUS
  <2>1. to(j) \in 1 .. n /\ to(k) \in 1 .. n /\ r[j] = q[to(j)] /\ r[k] = q[to(k)]
    BY <1>1, <1>4
  <2>2. to(j) = to(k)
    BY <1>2, <2>1
  <2> QED
    BY <1>4, <2>2
<1>6. Sound([cache |-> r, files |-> st.files], L)
  BY <1>1, <1>2, <1>5, SoundMade
<1>7. DOMAIN r = 1 .. n
  BY <1>1
<1>8. Backed([cache |-> r, files |-> st.files], c)
  <2>1. \A k \in 1 .. n : q[k].pos = c \/ q[k].dirty \/ Has(st.files, q[k].pos)
    BY <1>2 DEF Backed, q
  <2>2. \A j \in 1 .. n : r[j].pos = c \/ r[j].dirty \/ Has(st.files, r[j].pos)
    BY <1>1, <1>4, <2>1
  <2> QED
    BY <1>7, <2>2 DEF Backed
<1>9. \A x : Cached([cache |-> r, files |-> st.files], x) <=> Cached(st, x)
  <2> TAKE x
  <2>1. ASSUME Cached([cache |-> r, files |-> st.files], x) PROVE Cached(st, x)
    <3>1. PICK j \in 1 .. n : r[j].pos = x
      BY <1>7, <2>1 DEF Cached
    <3>2. to(j) \in 1 .. n /\ q[to(j)].pos = x
      BY <1>1, <1>4, <3>1
    <3> QED
      BY <1>2, <3>2 DEF Cached, q
  <2>2. ASSUME Cached(st, x) PROVE Cached([cache |-> r, files |-> st.files], x)
    <3>1. PICK j \in 1 .. n : q[j].pos = x
      BY <1>2, <2>2 DEF Cached, q
    <3>2. from(j) \in 1 .. n /\ r[from(j)].pos = x
      BY <1>1, <1>4, <3>1
    <3> QED
      BY <1>7, <3>2 DEF Cached
  <2> QED
    BY <2>1, <2>2
<1>10. Kept([cache |-> r, files |-> st.files]) = Kept(st)
  BY <1>9 DEF Kept
<1> QED
  BY <1>3, <1>6, <1>8, <1>9, <1>10 DEF Keeps

LEMMA InsertedSound ==
    ASSUME NEW L, DOMAIN L \subseteq Chunks, NEW st, NEW c,
           Sound(st, L), Backed(st, c), NEW d \in DOMAIN L, ~ Cached(st, d),
           d = c \/ Has(st.files, d)
    PROVE  /\ Sound(Inserted(st, d, L[d]), L) /\ Backed(Inserted(st, d, L[d]), c)
           /\ \A x : Cached(Inserted(st, d, L[d]), x) <=> Cached(st, x) \/ x = d
           /\ Kept(Inserted(st, d, L[d])) = Kept(st) \cup {d}
           /\ Inserted(st, d, L[d]).files = st.files
           /\ LET r == Inserted(st, d, L[d]).cache
                  n == Len(st.cache)
              IN  /\ n \in Nat /\ Len(r) = n + 1 /\ r[n + 1].pos = d
                  /\ \A j \in 1 .. n : r[j] = st.cache[j]
<1> DEFINE e == [pos |-> d, summ |-> L[d], dirty |-> FALSE]
           q == st.cache
           n == Len(q)
           r == Append(q, e)
           st1 == [cache |-> r, files |-> st.files]
<1>1. Inserted(st, d, L[d]) = st1
  BY DEF Inserted
<1>2. /\ q \in Seq(Entries(L)) /\ n \in Nat /\ DOMAIN q = 1 .. n /\ st.files \in Shelves(L)
      /\ \A i, j \in 1 .. n : q[i].pos = q[j].pos => i = j
  BY CacheFacts
<1>3. e \in Entries(L) /\ e.pos = d
  <2>1. \E b \in BOOLEAN : e = [pos |-> d, summ |-> L[d], dirty |-> b]
    OBVIOUS
  <2>2. e.pos = d
    OBVIOUS
  <2> HIDE DEF e
  <2> QED
    BY <2>1, <2>2 DEF Entries
<1>4. \A j \in 1 .. n : q[j].pos # d
  BY <1>2 DEF Cached
<1> HIDE DEF e, q
<1>5. /\ r \in Seq(Entries(L)) /\ Len(r) = n + 1 /\ r[n + 1] = e
      /\ \A j \in 1 .. n : r[j] = q[j]
  BY <1>2, <1>3
<1> HIDE DEF n, r
<1>6. DOMAIN r = 1 .. n + 1 /\ \A j \in 1 .. n + 1 : j \in 1 .. n \/ j = n + 1
  BY <1>2, <1>5
<1>7. \A i, j \in 1 .. n + 1 : r[i].pos = r[j].pos => i = j
  BY <1>2, <1>3, <1>4, <1>5, <1>6
<1>8. Sound(st1, L)
  BY <1>2, <1>5, <1>7, SoundMade
<1>9. Backed(st1, c)
  BY <1>2, <1>3, <1>5, <1>6 DEF Backed, q
<1>10. \A x : Cached(st1, x) <=> Cached(st, x) \/ x = d
  <2> TAKE x
  <2>1. Cached(st1, x) <=> \E j \in 1 .. n + 1 : r[j].pos = x
    BY <1>6 DEF Cached
  <2>2. Cached(st, x) <=> \E j \in 1 .. n : q[j].pos = x
    BY <1>2 DEF Cached, q
  <2>3. n + 1 \in 1 .. n + 1 /\ \A j \in 1 .. n : j \in 1 .. n + 1
    BY <1>2
  <2> QED
    BY <1>3, <1>5, <1>6, <2>1, <2>2, <2>3
<1>11. Kept(st1) = Kept(st) \cup {d}
  BY <1>10 DEF Kept
<1> HIDE DEF st1
<1>12. st1.cache = r /\ st1.files = st.files
  BY DEF st1
<1> QED
  BY <1>1, <1>2, <1>3, <1>5, <1>8, <1>9, <1>10, <1>11, <1>12 DEF q, n

LEMMA DirFacts ==
    /\ Len(DIRS) = 8 /\ DOMAIN DIRS = 1 .. 8
    /\ \A c \in Chunks, k \in 1 .. 8 : Beside(c, DIRS[k]) # c
<1>1. Len(DIRS) = 8 /\ DOMAIN DIRS = 1 .. 8
  BY DEF DIRS
<1>2. \A k \in 1 .. 8 : DIRS[k] \in Int \X Int /\ (DIRS[k][1] # 0 \/ DIRS[k][2] # 0)
  BY DEF DIRS
<1>3. ASSUME NEW c \in Chunks, NEW k \in 1 .. 8 PROVE Beside(c, DIRS[k]) # c
  <2>1. c \in Int \X Int
    <3>1. Chunks \subseteq Int \X Int
      BY SeamsAssumption DEF SeamsAssumption
    <3> QED
      BY <3>1
  <2>2. PICK x \in Int, y \in Int : DIRS[k] = <<x, y>> /\ (x # 0 \/ y # 0)
    BY <1>2
  <2>3. PICK u \in Int, v \in Int : c = <<u, v>>
    BY <2>1
  <2>4. Beside(c, DIRS[k]) = <<u + x, v + y>>
    BY <2>2, <2>3 DEF Beside
  <2>5. u + x # u \/ v + y # v
    BY <2>2, <2>3
  <2> QED
    BY <2>3, <2>4, <2>5
<1> QED
  BY <1>1, <1>3

(* Chunk c is in the cache, and behind it are only chunks in the first k   *)
(* directions from it.                                                     *)
Behind(st, c, k) ==
    \E i \in 1 .. Len(st.cache) :
        /\ st.cache[i].pos = c
        /\ \A j \in i + 1 .. Len(st.cache) : \E m \in 1 .. k : st.cache[j].pos = Beside(c, DIRS[m])

LEMMA LimitFacts ==
    /\ CACHE_LIMIT \in Nat
    /\ \A c \in Chunks :
        /\ CACHE_LIMIT > 1
        /\ \A f \in [1 .. CACHE_LIMIT - 1 -> {k \in 1 .. 7 : Beside(c, DIRS[k]) \in Chunks}] :
              \E i, j \in 1 .. CACHE_LIMIT - 1 : i # j /\ f[i] = f[j]
<1>1. CACHE_LIMIT \in Nat
  BY SeamsAssumption DEF SeamsAssumption
<1> SUFFICES ASSUME NEW c \in Chunks
             PROVE  /\ CACHE_LIMIT > 1
                    /\ \A f \in [1 .. CACHE_LIMIT - 1 ->
                                 {k \in 1 .. 7 : Beside(c, DIRS[k]) \in Chunks}] :
                          \E i, j \in 1 .. CACHE_LIMIT - 1 : i # j /\ f[i] = f[j]
  BY <1>1
<1> DEFINE S == {k \in 1 .. 7 : Beside(c, DIRS[k]) \in Chunks}
           T == 1 .. CACHE_LIMIT - 1
<1>2. S = {k \in 1 .. Len(DIRS) - 1 : Beside(c, DIRS[k]) \in Chunks}
  BY DirFacts
<1>3. \A f \in [T -> S] : \E i, j \in T : i # j /\ f[i] = f[j]
  <2>1. \A f \in [T -> {k \in 1 .. Len(DIRS) - 1 : Beside(c, DIRS[k]) \in Chunks}] :
            \E i, j \in T : i # j /\ f[i] = f[j]
    BY SeamsAssumption DEF SeamsAssumption
  <2> HIDE DEF S
  <2> QED
    BY <1>2, <2>1
<1>4. CACHE_LIMIT > 1
  <2> SUFFICES ASSUME ~(CACHE_LIMIT > 1) PROVE FALSE
    OBVIOUS
  <2>1. T = {}
    BY <1>1
  <2> HIDE DEF T, S
  <2>2. [x \in T |-> x] \in [T -> S]
    BY <2>1
  <2> QED
    BY <1>3, <2>1, <2>2
<1> QED
  BY <1>3, <1>4

(* The cache is large enough for c to stay. *)
LEMMA NotTheHead ==
    ASSUME NEW L, DOMAIN L \subseteq Chunks, NEW st, Sound(st, L), NEW c \in Chunks,
           NEW k \in 0 .. 7, Behind(st, c, k), Len(st.cache) + 1 > CACHE_LIMIT
    PROVE  Len(st.cache) > 0 /\ Head(st.cache).pos # c
<1> DEFINE q == st.cache
           n == Len(q)
<1>1. /\ n \in Nat /\ q \in Seq(Entries(L))
      /\ \A i \in 1 .. n : q[i].pos \in DOMAIN L
      /\ \A i, j \in 1 .. n : q[i].pos = q[j].pos => i = j
  BY CacheFacts
<1>2. PICK i \in 1 .. n :
         /\ q[i].pos = c
         /\ \A j \in i + 1 .. n : \E m \in 1 .. k : q[j].pos = Beside(c, DIRS[m])
  BY DEF Behind
<1>3. n > 0
  BY <1>1, <1>2
<1>4. ASSUME Head(q).pos = c PROVE FALSE
  <2>1. 1 \in 1 .. n /\ q[1].pos = c
    BY <1>1, <1>3, <1>4
  <2>2. i = 1
    BY <1>1, <1>2, <2>1
  <2> DEFINE T == 1 .. CACHE_LIMIT - 1
             f == [x \in T |-> CHOOSE m \in 1 .. k : q[x + 1].pos = Beside(c, DIRS[m])]
  <2> HIDE DEF q, n
  <2>3. \A x \in T : x + 1 \in i + 1 .. n /\ x + 1 \in 1 .. n
    BY <1>1, <2>2, LimitFacts DEF n, q
  <2>4. ASSUME NEW x \in T
        PROVE  /\ f[x] \in 1 .. k /\ q[x + 1].pos = Beside(c, DIRS[f[x]])
               /\ f[x] \in {m \in 1 .. 7 : Beside(c, DIRS[m]) \in Chunks}
    <3>1. \E m \in 1 .. k : q[x + 1].pos = Beside(c, DIRS[m])
      BY <1>2, <2>3
    <3>2. f[x] \in 1 .. k /\ q[x + 1].pos = Beside(c, DIRS[f[x]])
      BY <3>1
    <3>3. q[x + 1].pos \in Chunks
      BY <1>1, <2>3
    <3> QED
      BY <3>2, <3>3
  <2> HIDE DEF f
  <2>5. f \in [T -> {m \in 1 .. 7 : Beside(c, DIRS[m]) \in Chunks}]
    <3>1. f = [x \in T |-> f[x]]
      BY DEF f
    <3> QED
      BY <2>4, <3>1
  <2>6. PICK x \in T, y \in T : x # y /\ f[x] = f[y]
    BY <2>5, LimitFacts
  <2>7. q[x + 1].pos = q[y + 1].pos
    BY <2>4, <2>6
  <2>8. x + 1 = y + 1
    BY <1>1, <2>3, <2>7
  <2> QED
    BY <2>6, <2>8, LimitFacts
<1> QED
  BY <1>3, <1>4

(* Room for one more. *)
LEMMA WithSpaceKeeps ==
    ASSUME NEW L, DOMAIN L \subseteq Chunks, NEW st, NEW c, NEW full \in BOOLEAN,
           Sound(st, L), Backed(st, c),
           Len(st.cache) + 1 > CACHE_LIMIT => Len(st.cache) > 0 /\ Head(st.cache).pos # c
    PROVE  /\ Keeps(st, WithSpace(st, full), L, c, full)
           /\ \A d : ~ Cached(st, d) => /\ ~ Cached(WithSpace(st, full), d)
                                        /\ Has(WithSpace(st, full).files, d) <=> Has(st.files, d)
           /\ \A k \in Nat : Behind(st, c, k) => Behind(WithSpace(st, full), c, k)
<1>1. CASE ~ (Len(st.cache) + 1 > CACHE_LIMIT)
  BY <1>1 DEF WithSpace, Keeps
<1>2. CASE Len(st.cache) + 1 > CACHE_LIMIT
  <2> DEFINE st1 == Evicted(st, full)
             q == st.cache
             n == Len(q)
  <2>1. WithSpace(st, full) = st1
    BY <1>2 DEF WithSpace
  <2>2. /\ Keeps(st, st1, L, c, full) /\ st1.cache = Tail(st.cache)
        /\ \A d : d # Head(st.cache).pos =>
                    /\ Cached(st1, d) <=> Cached(st, d)
                    /\ Has(st1.files, d) <=> Has(st.files, d)
    <3>1. Len(st.cache) > 0 /\ Head(st.cache).pos # c
      BY <1>2
    <3> HIDE DEF q, n
    <3>2. Keeps(st, Evicted(st, full), L, c, full)
      BY <3>1, EvictedKeeps
    <3>3. Evicted(st, full).cache = Tail(st.cache)
      BY <3>1, EvictedKeeps
    <3>4. \A d : d # Head(st.cache).pos =>
                    /\ Cached(Evicted(st, full), d) <=> Cached(st, d)
                    /\ Has(Evicted(st, full).files, d) <=> Has(st.files, d)
      BY <3>1, EvictedKeeps
    <3> QED
      BY <3>2, <3>3, <3>4
  <2>3. Cached(st, Head(st.cache).pos)
    <3>1. st.cache \in Seq(Entries(L)) /\ DOMAIN st.cache = 1 .. Len(st.cache) /\ Len(st.cache) \in Nat
      BY CacheFacts
    <3>2. 1 \in DOMAIN st.cache /\ Head(st.cache) = st.cache[1]
      BY <1>2, <3>1
    <3> QED
      BY <3>2 DEF Cached
  <2>4. \A d : ~ Cached(st, d) => /\ ~ Cached(st1, d)
                                  /\ Has(st1.files, d) <=> Has(st.files, d)
    BY <2>2, <2>3
  <2>5. ASSUME NEW k \in Nat, Behind(st, c, k) PROVE Behind(st1, c, k)
    <3> HIDE DEF st1
    <3>1. /\ q \in Seq(Entries(L)) /\ n \in Nat /\ n > 0 /\ Head(q).pos # c
          /\ st1.cache = Tail(q)
      BY <1>2, <2>2, CacheFacts
    <3>2. PICK i \in 1 .. n :
             /\ q[i].pos = c
             /\ \A j \in i + 1 .. n : \E m \in 1 .. k : q[j].pos = Beside(c, DIRS[m])
      BY <2>5 DEF Behind
    <3> DEFINE r == Tail(q)
    <3>3. Len(r) = n - 1 /\ Head(q) = q[1] /\ \A j \in 1 .. n - 1 : r[j] = q[j + 1]
      BY <3>1
    <3> HIDE DEF q, n, r
    <3>4. i # 1 /\ i - 1 \in 1 .. n - 1 /\ (i - 1) + 1 = i
      BY <3>1, <3>2, <3>3
    <3>5. r[i - 1].pos = c
      BY <3>2, <3>3, <3>4
    <3>6. ASSUME NEW j \in (i - 1) + 1 .. n - 1
          PROVE  \E m \in 1 .. k : r[j].pos = Beside(c, DIRS[m])
      <4>1. j \in 1 .. n - 1 /\ j + 1 \in i + 1 .. n
        BY <3>1, <3>4
      <4> QED
        BY <3>2, <3>3, <4>1
    <3>7. st1.cache = r
      BY <3>1 DEF r
    <3> QED
      BY <3>3, <3>4, <3>5, <3>6, <3>7 DEF Behind
  <2> QED
    BY <2>1, <2>2, <2>4, <2>5
<1> QED
  BY <1>1, <1>2

(* A chunk that is in no cache and in no file is not there. *)
LEMMA Found ==
    ASSUME NEW L, DOMAIN L \subseteq Chunks, NEW st, Sound(st, L), NEW d
    PROVE  d \in Kept(st) <=> Cached(st, d) \/ Has(st.files, d)
<1>1. Cached(st, d) => d \in DOMAIN L
  BY IndexFacts
<1>2. Has(st.files, d) => d \in DOMAIN L
  BY CacheFacts DEF Has
<1> QED
  BY <1>1, <1>2 DEF Kept

LEMMA LoadedKeeps ==
    ASSUME NEW L, DOMAIN L \subseteq Chunks, NEW st, NEW c, NEW full \in BOOLEAN, NEW d,
           Sound(st, L), Backed(st, c),
           ~ Cached(st, d) /\ Len(st.cache) + 1 > CACHE_LIMIT =>
                Len(st.cache) > 0 /\ Head(st.cache).pos # c
    PROVE  /\ Keeps(st, Loaded(st, d, full), L, c, full)
           /\ Cached(Loaded(st, d, full), d) <=> d \in Kept(st)
           /\ ~ Cached(Loaded(st, d, full), d) => Loaded(st, d, full) = WithSpace(st, full)
<1>1. CASE Cached(st, d)
  <2>1. Loaded(st, d, full) = Refreshed(st, d)
    BY <1>1 DEF Loaded
  <2> QED
    BY <1>1, <2>1, RefreshedKeeps, Found
<1>2. CASE ~ Cached(st, d)
  <2> DEFINE st1 == WithSpace(st, full)
  <2>1. /\ Keeps(st, st1, L, c, full) /\ ~ Cached(st1, d)
        /\ Has(st1.files, d) <=> Has(st.files, d)
    BY <1>2, WithSpaceKeeps
  <2>2. Loaded(st, d, full) = IF Has(st1.files, d) THEN Inserted(st1, d, st1.files[d]) ELSE st1
    BY <1>2 DEF Loaded
  <2> HIDE DEF st1
  <2>3. CASE ~ Has(st1.files, d)
    BY <1>2, <2>1, <2>2, <2>3, Found DEF st1
  <2>4. CASE Has(st1.files, d)
    <3>1. Sound(st1, L) /\ Backed(st1, c)
      BY <2>1 DEF Keeps
    <3>2. d \in DOMAIN L /\ st1.files[d] = L[d]
      BY <2>4, <3>1, CacheFacts DEF Has
    <3> DEFINE st2 == Inserted(st1, d, L[d])
    <3>3. Loaded(st, d, full) = st2
      BY <2>2, <2>4, <3>2
    <3>4. /\ Sound(st2, L) /\ Backed(st2, c) /\ Kept(st2) = Kept(st1) \cup {d}
          /\ st2.files = st1.files /\ Cached(st2, d)
      BY <2>1, <2>4, <3>1, <3>2, InsertedSound
    <3>5. d \in Kept(st1)
      BY <2>4, <3>1, Found
    <3> HIDE DEF st2
    <3>6. Keeps(st1, st2, L, c, full)
      BY <3>4, <3>5 DEF Keeps
    <3>7. d \in Kept(st)
      BY <2>1, <3>5 DEF Keeps
    <3> QED
      BY <2>1, <3>3, <3>4, <3>6, <3>7, KeepsTransitive
  <2> QED
    BY <2>3, <2>4
<1> QED
  BY <1>1, <1>2

LEMMA RefreshedBehind ==
    ASSUME NEW L, NEW st, Sound(st, L), NEW c \in Chunks, NEW k \in 1 .. 8,
           Behind(st, c, k - 1), Cached(st, Beside(c, DIRS[k]))
    PROVE  Behind(Refreshed(st, Beside(c, DIRS[k])), c, k)
<1> DEFINE d == Beside(c, DIRS[k])
           q == st.cache
           i == Index(st, d)
           r == Refreshed(st, d).cache
           n == Len(q)
<1>1. /\ Len(r) = n /\ n \in Nat /\ i \in 1 .. n /\ q[i].pos = d
      /\ \A j \in 1 .. n : r[j] = IF j < i THEN q[j] ELSE IF j < n THEN q[j + 1] ELSE q[i]
  BY RefreshedOrder, IndexFacts
<1>2. PICK w \in 1 .. n :
         /\ q[w].pos = c
         /\ \A j \in w + 1 .. n : \E m \in 1 .. k - 1 : q[j].pos = Beside(c, DIRS[m])
  BY DEF Behind
<1>3. d # c
  BY DirFacts
<1> DEFINE to == IF w < i THEN w ELSE w - 1
<1> HIDE DEF q, i, r, n
<1>4. w # i
  BY <1>1, <1>2, <1>3
<1>5. to \in 1 .. n /\ r[to].pos = c
  <2>1. CASE w < i
    BY <1>1, <1>2, <2>1
  <2>2. CASE ~ (w < i)
    <3>1. w - 1 \in 1 .. n /\ ~ (w - 1 < i) /\ w - 1 < n /\ (w - 1) + 1 = w
      BY <1>1, <1>4, <2>2
    <3> QED
      BY <1>1, <1>2, <2>2, <3>1
  <2> QED
    BY <2>1, <2>2
<1>6. ASSUME NEW j \in to + 1 .. n PROVE \E m \in 1 .. k : r[j].pos = Beside(c, DIRS[m])
  <2>0. j \in 1 .. n
    BY <1>1, <1>5
  <2>1. CASE j < i
    <3>1. j \in w + 1 .. n /\ r[j] = q[j]
      BY <1>1, <1>4, <2>0, <2>1
    <3> QED
      BY <1>2, <3>1
  <2>2. CASE ~ (j < i) /\ j < n
    <3>1. j + 1 \in w + 1 .. n /\ r[j] = q[j + 1]
      BY <1>1, <1>4, <2>0, <2>2
    <3>2. PICK m \in 1 .. k - 1 : q[j + 1].pos = Beside(c, DIRS[m])
      BY <1>2, <3>1
    <3>3. m \in 1 .. k
      OBVIOUS
    <3> QED
      BY <3>1, <3>2, <3>3
  <2>3. CASE ~ (j < i) /\ ~ (j < n)
    <3>1. r[j] = q[i] /\ k \in 1 .. k
      BY <1>1, <2>0, <2>3
    <3> QED
      BY <1>1, <3>1 DEF d
  <2> QED
    BY <2>1, <2>2, <2>3
<1>7. \E v \in 1 .. Len(r) :
         r[v].pos = c /\ \A j \in v + 1 .. Len(r) : \E m \in 1 .. k : r[j].pos = Beside(c, DIRS[m])
  BY <1>1, <1>5, <1>6
<1> QED
  BY <1>7 DEF Behind, r, d

LEMMA RefreshedLast ==
    ASSUME NEW L, NEW st, Sound(st, L), NEW c, Cached(st, c)
    PROVE  Behind(Refreshed(st, c), c, 0)
<1> DEFINE q == st.cache
           i == Index(st, c)
           r == Refreshed(st, c).cache
           n == Len(q)
<1>1. /\ Len(r) = n /\ n \in Nat /\ i \in 1 .. n /\ q[i].pos = c
      /\ \A j \in 1 .. n : r[j] = IF j < i THEN q[j] ELSE IF j < n THEN q[j + 1] ELSE q[i]
  BY RefreshedOrder, IndexFacts
<1> HIDE DEF q, i, r, n
<1>2. n \in 1 .. n /\ r[n].pos = c /\ n + 1 .. n = {}
  BY <1>1
<1> QED
  BY <1>1, <1>2 DEF Behind, r

(* What is inserted comes last. *)
LEMMA InsertedLast ==
    ASSUME NEW L, DOMAIN L \subseteq Chunks, NEW st, NEW c,
           Sound(st, L), Backed(st, c), c \in DOMAIN L, ~ Cached(st, c)
    PROVE  Behind(Inserted(st, c, L[c]), c, 0)
<1> DEFINE n == Len(st.cache)
           r == Inserted(st, c, L[c]).cache
<1>1. n \in Nat /\ Len(r) = n + 1 /\ r[n + 1].pos = c
  BY InsertedSound
<1> HIDE DEF n, r
<1>2. n + 1 \in 1 .. n + 1 /\ (n + 1) + 1 .. n + 1 = {}
  BY <1>1
<1> QED
  BY <1>1, <1>2 DEF Behind, r

LEMMA InsertedBehind ==
    ASSUME NEW L, DOMAIN L \subseteq Chunks, NEW st, NEW c \in Chunks, NEW k \in 1 .. 8,
           Sound(st, L), Backed(st, c), NEW d, d = Beside(c, DIRS[k]), d \in DOMAIN L,
           ~ Cached(st, d), Has(st.files, d), Behind(st, c, k - 1)
    PROVE  Behind(Inserted(st, d, L[d]), c, k)
<1> DEFINE q == st.cache
           n == Len(q)
           r == Inserted(st, d, L[d]).cache
<1>1. /\ n \in Nat /\ Len(r) = n + 1 /\ r[n + 1].pos = d
      /\ \A j \in 1 .. n : r[j] = q[j]
  BY InsertedSound
<1>2. PICK w \in 1 .. n :
         /\ q[w].pos = c
         /\ \A j \in w + 1 .. n : \E m \in 1 .. k - 1 : q[j].pos = Beside(c, DIRS[m])
  BY DEF Behind
<1> HIDE DEF q, n, r
<1>3. w \in 1 .. n + 1 /\ r[w].pos = c
  BY <1>1, <1>2
<1>4. ASSUME NEW j \in w + 1 .. n + 1 PROVE \E m \in 1 .. k : r[j].pos = Beside(c, DIRS[m])
  <2>1. CASE j = n + 1
    <3>1. k \in 1 .. k
      OBVIOUS
    <3> QED
      BY <1>1, <2>1, <3>1
  <2>2. CASE j # n + 1
    <3>1. j \in w + 1 .. n /\ j \in 1 .. n
      BY <1>1, <2>2
    <3>2. PICK m \in 1 .. k - 1 : q[j].pos = Beside(c, DIRS[m])
      BY <1>2, <3>1
    <3>3. m \in 1 .. k
      OBVIOUS
    <3> QED
      BY <1>1, <3>1, <3>2, <3>3
  <2> QED
    BY <2>1, <2>2
<1> QED
  BY <1>1, <1>3, <1>4 DEF Behind, r

LEMMA MoreBehind ==
    ASSUME NEW st, NEW c, NEW k \in 1 .. 8, Behind(st, c, k - 1)
    PROVE  Behind(st, c, k)
<1>1. \A m \in 1 .. k - 1 : m \in 1 .. k
  OBVIOUS
<1> QED
  BY <1>1 DEF Behind

LEMMA LoadedBehind ==
    ASSUME NEW L, DOMAIN L \subseteq Chunks, NEW st, NEW c \in Chunks, NEW k \in 1 .. 8,
           NEW full \in BOOLEAN, Sound(st, L), Backed(st, c), Behind(st, c, k - 1)
    PROVE  Behind(Loaded(st, Beside(c, DIRS[k]), full), c, k)
<1> DEFINE d == Beside(c, DIRS[k])
<1>0. k - 1 \in 0 .. 7 /\ k - 1 \in Nat
  OBVIOUS
<1>1. CASE Cached(st, d)
  <2>1. Loaded(st, d, full) = Refreshed(st, d)
    BY <1>1 DEF Loaded
  <2> QED
    BY <1>1, <2>1, RefreshedBehind
<1>2. CASE ~ Cached(st, d)
  <2> DEFINE st1 == WithSpace(st, full)
  <2>0. Len(st.cache) + 1 > CACHE_LIMIT => Len(st.cache) > 0 /\ Head(st.cache).pos # c
    BY <1>0, NotTheHead
  <2>1. /\ Keeps(st, st1, L, c, full) /\ ~ Cached(st1, d) /\ Behind(st1, c, k - 1)
    <3> HIDE DEF d
    <3>1. Keeps(st, WithSpace(st, full), L, c, full)
      BY <2>0, WithSpaceKeeps
    <3>2. \A x : ~ Cached(st, x) => ~ Cached(WithSpace(st, full), x)
      BY <2>0, WithSpaceKeeps
    <3>3. \A m \in Nat : Behind(st, c, m) => Behind(WithSpace(st, full), c, m)
      BY <2>0, WithSpaceKeeps
    <3> QED
      BY <1>0, <1>2, <3>1, <3>2, <3>3
  <2>2. Loaded(st, d, full) = IF Has(st1.files, d) THEN Inserted(st1, d, st1.files[d]) ELSE st1
    BY <1>2 DEF Loaded
  <2> HIDE DEF st1, d
  <2>3. CASE ~ Has(st1.files, d)
    BY <2>1, <2>2, <2>3, MoreBehind DEF d
  <2>4. CASE Has(st1.files, d)
    <3>1. Sound(st1, L) /\ Backed(st1, c)
      BY <2>1 DEF Keeps
    <3>2. d \in DOMAIN L /\ st1.files[d] = L[d]
      BY <2>4, <3>1, CacheFacts DEF Has
    <3>3. d = Beside(c, DIRS[k])
      BY DEF d
    <3>4. Behind(Inserted(st1, d, L[d]), c, k)
      BY <2>1, <2>4, <3>1, <3>2, <3>3, InsertedBehind
    <3> QED
      BY <2>2, <2>4, <3>2, <3>3, <3>4
  <2> QED
    BY <2>3, <2>4 DEF d
<1> QED
  BY <1>1, <1>2

(* The chunk itself comes first.                                           *)
LEMMA Started ==
    ASSUME NEW L, DOMAIN L \subseteq Chunks, NEW st, NEW c \in Chunks, NEW full \in BOOLEAN,
           c \in DOMAIN L, Sound(st, L), Backed(st, c), Cached(st, c) \/ L[c] = Alloc(c)
    PROVE  LET st1 == LoadedOrCreated(st, c, full)
           IN  /\ Sound(st1, L) /\ Backed(st1, c) /\ Behind(st1, c, 0)
               /\ Kept(st1) \subseteq Kept(st) \cup {c}
               /\ ~full => Kept(st1) = Kept(st) \cup {c}
               /\ Has(st1.files, c) <=> Has(st.files, c)
<1> DEFINE st1 == Loaded(st, c, full)
           st2 == WithSpace(st1, full)
           st3 == Inserted(st2, c, Alloc(c))
<1>1. ASSUME NEW s, Sound(s, L), ~ Cached(s, c), Len(s.cache) + 1 > CACHE_LIMIT
      PROVE  Len(s.cache) > 0 /\ Head(s.cache).pos # c
  <2>1. Len(s.cache) \in Nat /\ DOMAIN s.cache = 1 .. Len(s.cache) /\ s.cache \in Seq(Entries(L))
    BY <1>1, CacheFacts
  <2>2. Len(s.cache) > 0
    BY <1>1, <2>1, LimitFacts
  <2>3. 1 \in DOMAIN s.cache /\ Head(s.cache) = s.cache[1]
    BY <2>1, <2>2
  <2> QED
    BY <1>1, <2>2, <2>3 DEF Cached
<1>2. ~ Cached(st, c) /\ Len(st.cache) + 1 > CACHE_LIMIT =>
                Len(st.cache) > 0 /\ Head(st.cache).pos # c
  BY <1>1
<1>3. /\ Keeps(st, st1, L, c, full)
      /\ Cached(st1, c) <=> c \in Kept(st)
      /\ ~ Cached(st1, c) => st1 = WithSpace(st, full)
  BY <1>2, LoadedKeeps
<1>4. CASE Cached(st1, c)
  <2>1. LoadedOrCreated(st, c, full) = st1
    BY <1>4 DEF LoadedOrCreated
  <2>2. Behind(st1, c, 0)
    <3>1. CASE Cached(st, c)
      BY <3>1, RefreshedLast DEF Loaded
    <3>2. CASE ~ Cached(st, c)
      <4> DEFINE s == WithSpace(st, full)
      <4>1. Keeps(st, s, L, c, full) /\ ~ Cached(s, c)
        BY <1>2, <3>2, WithSpaceKeeps
      <4>2. st1 = IF Has(s.files, c) THEN Inserted(s, c, s.files[c]) ELSE s
        BY <3>2 DEF Loaded
      <4> HIDE DEF st1, s
      <4>3. Has(s.files, c)
        BY <1>4, <4>1, <4>2
      <4>4. Sound(s, L) /\ Backed(s, c)
        BY <4>1 DEF Keeps
      <4>5. s.files[c] = L[c]
        BY <4>3, <4>4, CacheFacts DEF Has
      <4>6. Behind(Inserted(s, c, L[c]), c, 0)
        BY <4>1, <4>4, InsertedLast
      <4> QED
        BY <4>2, <4>3, <4>5, <4>6
    <3> QED
      BY <3>1, <3>2
  <2>3. Sound(st1, L) /\ Backed(st1, c) /\ Kept(st1) \subseteq Kept(st)
        /\ (~full => Kept(st1) = Kept(st)) /\ (Has(st1.files, c) <=> Has(st.files, c))
    BY <1>3 DEF Keeps
  <2>4. c \in Kept(st)
    BY <1>3, <1>4
  <2> HIDE DEF st1
  <2> QED
    BY <2>1, <2>2, <2>3, <2>4
<1>5. CASE ~ Cached(st1, c)
  <2>1. LoadedOrCreated(st, c, full) = st3
    BY <1>5 DEF LoadedOrCreated
  <2>2. c \notin Kept(st)
    BY <1>3, <1>5
  <2>3. L[c] = Alloc(c)
    BY <2>2, Found
  <2> HIDE DEF st1
  <2>4. Sound(st1, L) /\ Backed(st1, c)
    BY <1>3 DEF Keeps
  <2>5. Keeps(st1, st2, L, c, full) /\ ~ Cached(st2, c)
    <3>1. Len(st1.cache) + 1 > CACHE_LIMIT => Len(st1.cache) > 0 /\ Head(st1.cache).pos # c
      BY <1>1, <1>5, <2>4
    <3>2. Keeps(st1, WithSpace(st1, full), L, c, full)
      BY <2>4, <3>1, WithSpaceKeeps
    <3>3. \A x : ~ Cached(st1, x) => ~ Cached(WithSpace(st1, full), x)
      BY <2>4, <3>1, WithSpaceKeeps
    <3> QED
      BY <1>5, <3>2, <3>3
  <2>6. Keeps(st, st2, L, c, full)
    BY <1>3, <2>5, KeepsTransitive
  <2> HIDE DEF st2
  <2>7. Sound(st2, L) /\ Backed(st2, c) /\ Kept(st2) \subseteq Kept(st)
        /\ (~full => Kept(st2) = Kept(st)) /\ (Has(st2.files, c) <=> Has(st.files, c))
    BY <2>6 DEF Keeps
  <2>8. /\ Sound(Inserted(st2, c, L[c]), L) /\ Backed(Inserted(st2, c, L[c]), c)
        /\ Kept(Inserted(st2, c, L[c])) = Kept(st2) \cup {c}
        /\ Inserted(st2, c, L[c]).files = st2.files
    BY <2>5, <2>7, InsertedSound
  <2>9. Behind(Inserted(st2, c, L[c]), c, 0)
    BY <2>5, <2>7, InsertedLast
  <2>10. st3 = Inserted(st2, c, L[c])
    BY <2>3
  <2> HIDE DEF st3
  <2> QED
    BY <2>1, <2>7, <2>8, <2>9, <2>10
<1> QED
  BY <1>4, <1>5

-----------------------------------------------------------------------------
(* The summaries around chunk c, the first k directions looked at.         *)
Gathering(st, g, L, c, k, full) ==
    /\ Sound(g.st, L) /\ Backed(g.st, c) /\ Behind(g.st, c, k)
    /\ Kept(g.st) \subseteq Kept(st) \cup {c}
    /\ ~full => Kept(g.st) = Kept(st) \cup {c}
    /\ Has(g.st.files, c) <=> Has(st.files, c)
    /\ g.seen \in Seq({L[d] : d \in DOMAIN L \ {c}})
    /\ \A m \in 1 .. k : Beside(c, DIRS[m]) \in Kept(g.st) =>
            \E i \in 1 .. Len(g.seen) : g.seen[i] = L[Beside(c, DIRS[m])]

LEMMA LookedFacts ==
    ASSUME NEW L, DOMAIN L \subseteq Chunks, NEW st, NEW c \in Chunks, NEW full \in BOOLEAN,
           NEW k \in 1 .. 8, NEW g, Gathering(st, g, L, c, k - 1, full)
    PROVE  Gathering(st, Looked(g, Beside(c, DIRS[k]), full), L, c, k, full)
<1> DEFINE d == Beside(c, DIRS[k])
           st1 == Loaded(g.st, d, full)
           S == {L[x] : x \in DOMAIN L \ {c}}
           seen == IF Cached(st1, d) THEN Append(g.seen, Summ(st1, d)) ELSE g.seen
<1>1. Looked(g, d, full) = [st |-> st1, seen |-> seen]
  BY DEF Looked
<1>2. d # c
  BY DirFacts
<1>3. /\ Sound(g.st, L) /\ Backed(g.st, c) /\ Behind(g.st, c, k - 1)
      /\ Kept(g.st) \subseteq Kept(st) \cup {c}
      /\ ~full => Kept(g.st) = Kept(st) \cup {c}
      /\ Has(g.st.files, c) <=> Has(st.files, c)
      /\ g.seen \in Seq(S)
      /\ \A m \in 1 .. k - 1 : Beside(c, DIRS[m]) \in Kept(g.st) =>
            \E i \in 1 .. Len(g.seen) : g.seen[i] = L[Beside(c, DIRS[m])]
  BY DEF Gathering
<1>4. Behind(st1, c, k)
  BY <1>3, LoadedBehind
<1> HIDE DEF S
<1>5. /\ Keeps(g.st, st1, L, c, full)
      /\ Cached(st1, d) <=> d \in Kept(g.st)
  <2>0. k - 1 \in 0 .. 7
    OBVIOUS
  <2>1. ~ Cached(g.st, d) /\ Len(g.st.cache) + 1 > CACHE_LIMIT =>
                Len(g.st.cache) > 0 /\ Head(g.st.cache).pos # c
    BY <1>3, <2>0, NotTheHead
  <2> HIDE DEF d
  <2>2. Keeps(g.st, Loaded(g.st, d, full), L, c, full)
    BY <1>3, <2>1, LoadedKeeps
  <2>3. Cached(Loaded(g.st, d, full), d) <=> d \in Kept(g.st)
    BY <1>3, <2>1, LoadedKeeps
  <2> QED
    BY <2>2, <2>3
<1> HIDE DEF st1
<1>6. /\ Sound(st1, L) /\ Backed(st1, c) /\ Kept(st1) \subseteq Kept(g.st)
      /\ ~full => Kept(st1) = Kept(g.st)
      /\ Has(st1.files, c) <=> Has(g.st.files, c)
  BY <1>5 DEF Keeps
<1> HIDE DEF d
<1>7. Cached(st1, d) => d \in DOMAIN L /\ Summ(st1, d) = L[d] /\ L[d] \in S
  BY <1>2, <1>6, IndexFacts DEF S
<1>8. /\ seen \in Seq(S)
      /\ \A i \in 1 .. Len(g.seen) : i \in 1 .. Len(seen) /\ seen[i] = g.seen[i]
      /\ Cached(st1, d) => Len(seen) \in 1 .. Len(seen) /\ seen[Len(seen)] = L[d]
  <2>1. CASE Cached(st1, d)
    BY <1>3, <1>7, <2>1
  <2>2. CASE ~ Cached(st1, d)
    BY <1>3, <2>2
  <2> QED
    BY <2>1, <2>2
<1> HIDE DEF seen
<1>9. ASSUME NEW m \in 1 .. k, Beside(c, DIRS[m]) \in Kept(st1)
      PROVE  \E i \in 1 .. Len(seen) : seen[i] = L[Beside(c, DIRS[m])]
  <2>1. CASE m = k
    BY <1>5, <1>6, <1>8, <1>9, <2>1 DEF d
  <2>2. CASE m # k
    <3>1. m \in 1 .. k - 1
      BY <2>2
    <3>2. PICK i \in 1 .. Len(g.seen) : g.seen[i] = L[Beside(c, DIRS[m])]
      BY <1>3, <1>6, <1>9, <3>1
    <3> QED
      BY <1>8, <3>2
  <2> QED
    BY <2>1, <2>2
<1> DEFINE g1 == [st |-> st1, seen |-> seen]
<1>10. g1.st = st1 /\ g1.seen = seen
  OBVIOUS
<1> HIDE DEF g1
<1>11. Kept(st1) \subseteq Kept(st) \cup {c}
  BY <1>3, <1>6
<1>12. ~full => Kept(st1) = Kept(st) \cup {c}
  BY <1>3, <1>6
<1>13. Has(st1.files, c) <=> Has(st.files, c)
  BY <1>3, <1>6
<1>14. Gathering(st, g1, L, c, k, full)
  BY <1>4, <1>6, <1>8, <1>9, <1>10, <1>11, <1>12, <1>13 DEF Gathering, S
<1> QED
  BY <1>1, <1>14 DEF g1, d

(* The eight chunks around, one after another.                             *)
LEMMA GatheredSteps ==
    ASSUME NEW st, NEW c, NEW full
    PROVE  \E g : /\ g[0] = [st |-> LoadedOrCreated(st, c, full), seen |-> << >>]
                  /\ \A k \in 1 .. 8 : g[k] = Looked(g[k - 1], Beside(c, DIRS[k]), full)
                  /\ Gathered(st, c, full) = g[8]
<1> DEFINE e(f, k) == IF k = 0 THEN [st |-> LoadedOrCreated(st, c, full), seen |-> << >>]
                      ELSE Looked(f[k - 1], Beside(c, DIRS[k]), full)
           Of(f) == f = [k \in 0 .. Len(DIRS) |-> e(f, k)]
           g == CHOOSE f : Of(f)
<1>1. Gathered(st, c, full) = g[Len(DIRS)]
  BY DEF Gathered
<1> DEFINE a0 == [st |-> LoadedOrCreated(st, c, full), seen |-> << >>]
           next(a, k) == Looked(a, Beside(c, DIRS[k]), full)
           a1 == next(a0, 1)
           a2 == next(a1, 2)
           a3 == next(a2, 3)
           a4 == next(a3, 4)
           a5 == next(a4, 5)
           a6 == next(a5, 6)
           a7 == next(a6, 7)
           a8 == next(a7, 8)
           h == [k \in 0 .. 8 |-> CASE k = 0 -> a0 [] k = 1 -> a1 [] k = 2 -> a2 [] k = 3 -> a3
                                    [] k = 4 -> a4 [] k = 5 -> a5 [] k = 6 -> a6 [] k = 7 -> a7
                                    [] k = 8 -> a8]
<1>2. /\ a1 = next(a0, 1) /\ a2 = next(a1, 2) /\ a3 = next(a2, 3) /\ a4 = next(a3, 4)
      /\ a5 = next(a4, 5) /\ a6 = next(a5, 6) /\ a7 = next(a6, 7) /\ a8 = next(a7, 8)
  OBVIOUS
<1>3. \A f, k : e(f, k) = IF k = 0 THEN a0 ELSE next(f[k - 1], k)
  OBVIOUS
<1> HIDE DEF a0, a1, a2, a3, a4, a5, a6, a7, a8, next, e
<1>4. /\ DOMAIN h = 0 .. 8
      /\ h[0] = a0 /\ h[1] = a1 /\ h[2] = a2 /\ h[3] = a3 /\ h[4] = a4
      /\ h[5] = a5 /\ h[6] = a6 /\ h[7] = a7 /\ h[8] = a8
      /\ h = [k \in 0 .. 8 |-> h[k]]
  OBVIOUS
<1> HIDE DEF h
<1>5. ASSUME NEW k \in 0 .. 8 PROVE h[k] = e(h, k)
  <2>1. k = 0 \/ k = 1 \/ k = 2 \/ k = 3 \/ k = 4 \/ k = 5 \/ k = 6 \/ k = 7 \/ k = 8
    OBVIOUS
  <2>2. e(h, k) = IF k = 0 THEN a0 ELSE next(h[k - 1], k)
    BY <1>3
  <2> QED
    BY <1>2, <1>4, <2>1, <2>2
<1>6. Of(h)
  <2>1. h = [k \in 0 .. 8 |-> e(h, k)]
    BY <1>4, <1>5
  <2> QED
    BY <2>1, DirFacts
<1>7. Of(g)
  <2> HIDE DEF Of
  <2> QED
    BY <1>6
<1> HIDE DEF g
<1>8. \A k \in 0 .. 8 : g[k] = e(g, k)
  BY <1>7, DirFacts
<1>9. g[0] = a0
  BY <1>3, <1>8
<1>10. ASSUME NEW k \in 1 .. 8 PROVE g[k] = next(g[k - 1], k)
  <2>1. k \in 0 .. 8 /\ k # 0
    OBVIOUS
  <2>2. g[k] = e(g, k)
    BY <1>8, <2>1
  <2> QED
    BY <1>3, <2>1, <2>2
<1>11. Gathered(st, c, full) = g[8]
  BY <1>1, DirFacts
<1> QED
  BY <1>9, <1>10, <1>11 DEF a0, next

LEMMA GatheredFacts ==
    ASSUME NEW L, DOMAIN L \subseteq Chunks, NEW st, NEW c \in Chunks, NEW full \in BOOLEAN,
           c \in DOMAIN L, Sound(st, L), Backed(st, c), Cached(st, c) \/ L[c] = Alloc(c)
    PROVE  Gathering(st, Gathered(st, c, full), L, c, 8, full)
<1>1. PICK g : /\ g[0] = [st |-> LoadedOrCreated(st, c, full), seen |-> << >>]
               /\ \A k \in 1 .. 8 : g[k] = Looked(g[k - 1], Beside(c, DIRS[k]), full)
               /\ Gathered(st, c, full) = g[8]
  BY GatheredSteps
<1> DEFINE st1 == LoadedOrCreated(st, c, full)
           G(k) == Gathering(st, g[k], L, c, k, full)
<1>2. G(0)
  <2>1. /\ Sound(st1, L) /\ Backed(st1, c) /\ Behind(st1, c, 0)
        /\ Kept(st1) \subseteq Kept(st) \cup {c}
        /\ ~full => Kept(st1) = Kept(st) \cup {c}
        /\ Has(st1.files, c) <=> Has(st.files, c)
    BY Started
  <2> HIDE DEF st1
  <2>2. g[0].st = st1 /\ g[0].seen = << >>
    BY <1>1 DEF st1
  <2>3. << >> \in Seq({L[d] : d \in DOMAIN L \ {c}}) /\ 1 .. 0 = {}
    OBVIOUS
  <2> QED
    BY <2>1, <2>2, <2>3 DEF Gathering
<1>3. ASSUME NEW k \in 1 .. 8, G(k - 1) PROVE G(k)
  <2>1. Gathering(st, g[k - 1], L, c, k - 1, full)
    BY <1>3
  <2>2. Gathering(st, Looked(g[k - 1], Beside(c, DIRS[k]), full), L, c, k, full)
    BY <2>1, LookedFacts
  <2> QED
    BY <1>1, <2>2
<1> HIDE DEF G
<1>4. \A k \in 1 .. 8 : G(k - 1) => G(k)
  BY <1>3
<1>5. G(1)
  BY <1>2, <1>4
<1>6. G(2)
  BY <1>4, <1>5
<1>7. G(3)
  BY <1>4, <1>6
<1>8. G(4)
  BY <1>4, <1>7
<1>9. G(5)
  BY <1>4, <1>8
<1>10. G(6)
  BY <1>4, <1>9
<1>11. G(7)
  BY <1>4, <1>10
<1>12. G(8)
  BY <1>4, <1>11
<1> QED
  BY <1>1, <1>12 DEF G

-----------------------------------------------------------------------------
Written(st) == \A i \in DOMAIN st.cache : st.cache[i].dirty \/ Has(st.files, st.cache[i].pos)

LEMMA EntryMade ==
    ASSUME NEW L, NEW c \in DOMAIN L
    PROVE  [pos |-> c, summ |-> L[c], dirty |-> TRUE] \in Entries(L)
<1> DEFINE e == [pos |-> c, summ |-> L[c], dirty |-> TRUE]
<1>1. \E b \in BOOLEAN : e = [pos |-> c, summ |-> L[c], dirty |-> b]
  OBVIOUS
<1> HIDE DEF e
<1>2. e \in Entries(L)
  BY <1>1 DEF Entries
<1> QED
  BY <1>2 DEF e

LEMMA BehindCached ==
    ASSUME NEW L, NEW st, Sound(st, L), NEW c, NEW k, Behind(st, c, k)
    PROVE  Cached(st, c)
<1>1. DOMAIN st.cache = 1 .. Len(st.cache)
  BY CacheFacts
<1> QED
  BY <1>1 DEF Behind, Cached

(* Only what is there counts. *)
LEMMA SoundAlso ==
    ASSUME NEW L, DOMAIN L \subseteq Chunks, NEW st, Sound(st, L), NEW M,
           Kept(st) \subseteq DOMAIN M, \A d \in Kept(st) : M[d] = L[d]
    PROVE  Sound(st, M)
<1> DEFINE q == st.cache
           f == st.files
<1>1. /\ q \in Seq(Entries(L)) /\ Len(q) \in Nat /\ st = [cache |-> q, files |-> f]
      /\ \A i \in 1 .. Len(q) : q[i] \in Entries(L) /\ q[i].pos \in DOMAIN L
      /\ \A i, j \in 1 .. Len(q) : q[i].pos = q[j].pos => i = j
      /\ DOMAIN q = 1 .. Len(q) /\ f \in Shelves(L)
  BY CacheFacts
<1>2. \A d : d \in Kept(st) <=> Cached(st, d) \/ Has(f, d)
  BY Found
<1>3. ASSUME NEW i \in 1 .. Len(q) PROVE q[i] \in Entries(M)
  <2>1. PICK d \in DOMAIN L, b \in BOOLEAN : q[i] = [pos |-> d, summ |-> L[d], dirty |-> b]
    <3>1. q[i] \in Entries(L)
      BY <1>1
    <3> HIDE DEF q
    <3> QED
      BY <3>1 DEF Entries
  <2>2. Cached(st, d)
    BY <1>1, <2>1 DEF Cached
  <2>3. d \in DOMAIN M /\ M[d] = L[d]
    BY <1>2, <2>2
  <2> HIDE DEF q
  <2> QED
    BY <2>1, <2>3 DEF Entries
<1>4. q \in Seq(Entries(M))
  <2> HIDE DEF q
  <2> QED
    BY <1>1, <1>3
<1>5. f \in Shelves(M)
  <2>1. DOMAIN f \subseteq Kept(st)
    BY <1>2 DEF Has
  <2>2. \A d \in DOMAIN f : f[d] = L[d]
    BY <1>1, ShelfFacts
  <2>3. f = [d \in DOMAIN f |-> f[d]]
    BY <1>1, ShelfFacts
  <2> HIDE DEF f
  <2> QED
    BY <2>1, <2>2, <2>3, ShelfFacts
<1> HIDE DEF q, f
<1>6. Sound([cache |-> q, files |-> f], M)
  BY <1>1, <1>4, <1>5, SoundMade
<1> QED
  BY <1>1, <1>6

(* The summary of c is written in the cache. *)
LEMMA UpdatedFacts ==
    ASSUME NEW L, DOMAIN L \subseteq Chunks, NEW st, NEW c \in Chunks, Sound(st, L), Backed(st, c),
           Cached(st, c), NEW x, Has(st.files, c) => x = L[c]
    PROVE  LET st1 == Updated(st, c, x)
           IN  /\ Sound(st1, With(L, c, x)) /\ Written(st1) /\ Cached(st1, c)
               /\ Kept(st1) = Kept(st) /\ st1.files = st.files
<1> DEFINE q == st.cache
           n == Len(q)
           w == Index(st, c)
           e == [pos |-> c, summ |-> x, dirty |-> TRUE]
           r == [q EXCEPT ![w] = e]
           M == With(L, c, x)
<1>1. /\ q \in Seq(Entries(L)) /\ n \in Nat /\ st.files \in Shelves(L)
      /\ \A i \in 1 .. n : q[i] \in Entries(L)
      /\ \A i, j \in 1 .. n : q[i].pos = q[j].pos => i = j
      /\ DOMAIN q = 1 .. n
  BY CacheFacts
<1>2. w \in 1 .. n /\ q[w].pos = c
  BY IndexFacts
<1>3. Updated(st, c, x) = [cache |-> r, files |-> st.files]
  BY DEF Updated
<1>4. /\ c \in DOMAIN M /\ M[c] = x /\ DOMAIN L \subseteq DOMAIN M
      /\ \A d \in DOMAIN L : d # c => M[d] = L[d]
  BY DEF With
<1>5. e \in Entries(M) /\ e.pos = c /\ e.dirty
  <2>1. e.pos = c /\ e.dirty
    OBVIOUS
  <2> HIDE DEF M
  <2>2. [pos |-> c, summ |-> M[c], dirty |-> TRUE] \in Entries(M)
    BY <1>4, EntryMade
  <2> QED
    BY <1>4, <2>1, <2>2
<1> HIDE DEF q, n, w, e, M
<1>6. ASSUME NEW i \in 1 .. n, i # w PROVE q[i] \in Entries(M) /\ q[i].pos # c
  <2>1. PICK d \in DOMAIN L, b \in BOOLEAN : q[i] = [pos |-> d, summ |-> L[d], dirty |-> b]
    <3>1. q[i] \in Entries(L)
      BY <1>1
    <3> QED
      BY <3>1 DEF Entries
  <2>2. q[i].pos # c
    BY <1>1, <1>2, <1>6
  <2>3. d # c /\ d \in DOMAIN M /\ M[d] = L[d]
    BY <1>4, <2>1, <2>2
  <2> QED
    BY <2>1, <2>2, <2>3 DEF Entries
<1>7. /\ r \in Seq(Entries(M)) /\ Len(r) = n /\ DOMAIN r = 1 .. n
      /\ \A i \in 1 .. n : r[i] = IF i = w THEN e ELSE q[i]
  <2>1. DOMAIN r = 1 .. n /\ \A i \in 1 .. n : r[i] = IF i = w THEN e ELSE q[i]
    BY <1>1
  <2>2. \A i \in 1 .. n : r[i] \in Entries(M)
    BY <1>5, <1>6, <2>1
  <2>3. r = [i \in 1 .. n |-> r[i]]
    BY <1>1
  <2> HIDE DEF r
  <2>4. r \in Seq(Entries(M))
    BY <1>1, <2>2, <2>3
  <2> QED
    BY <1>1, <2>1, <2>4
<1> HIDE DEF r
<1>8. \A i \in 1 .. n : r[i].pos = q[i].pos
  BY <1>2, <1>5, <1>7
<1>9. st.files \in Shelves(M)
  <2>1. DOMAIN st.files \subseteq DOMAIN L /\ st.files = [d \in DOMAIN st.files |-> st.files[d]]
        /\ \A d \in DOMAIN st.files : st.files[d] = L[d]
    BY <1>1, ShelfFacts
  <2>2. \A d \in DOMAIN st.files : st.files[d] = M[d]
    BY <1>4, <2>1 DEF Has
  <2> QED
    BY <1>4, <2>1, <2>2, ShelfFacts
<1>10. Sound([cache |-> r, files |-> st.files], M)
  <2>1. \A i, j \in 1 .. Len(r) : r[i].pos = r[j].pos => i = j
    BY <1>1, <1>7, <1>8
  <2> QED
    BY <1>7, <1>9, <2>1, SoundMade
<1>11. Written([cache |-> r, files |-> st.files])
  <2>1. \A i \in 1 .. n : i # w => q[i].dirty \/ Has(st.files, q[i].pos)
    BY <1>1, <1>6 DEF Backed, q
  <2> QED
    BY <1>5, <1>7, <2>1 DEF Written
<1>12. \A d : Cached([cache |-> r, files |-> st.files], d) <=> Cached(st, d)
  BY <1>1, <1>7, <1>8 DEF Cached, q
<1>13. Kept([cache |-> r, files |-> st.files]) = Kept(st)
  BY <1>12 DEF Kept
<1> QED
  BY <1>3, <1>10, <1>11, <1>12, <1>13 DEF M

(* What generate_summary sees of the chunks around, and what it leaves.    *)
Around(g, L, c, st) ==
    /\ g.seen \in Seq({L[d] : d \in DOMAIN L \ {c}})
    /\ \A m \in 1 .. 8 : Beside(c, DIRS[m]) \in Kept(st) =>
            \E i \in 1 .. Len(g.seen) : g.seen[i] = L[Beside(c, DIRS[m])]
Left(st, L) == [d \in DOMAIN L \cap Kept(st) |-> L[d]]

(* The chunk is found in the cache each time, whatever is written of it.   *)
GoesWell(L, st, c, full) ==
    LET g1 == Gathered(st, c, full)
    IN  /\ Cached(g1.st, c) /\ Summ(g1.st, c) = Alloc(c)
        /\ \A x : (Has(L, c) => x = Alloc(c)) =>
             LET g2 == Gathered(Updated(g1.st, c, x), c, full)
             IN  /\ Cached(g2.st, c) /\ Summ(g2.st, c) = x
                 /\ \A y : (Has(L, c) => y = Alloc(c)) =>
                      LET st3 == Updated(g2.st, c, y)
                          M == With(L, c, y)
                      IN  /\ Sound(st3, Left(st3, M)) /\ Written(st3)
                          /\ DOMAIN Left(st3, M) = Kept(st3)
                          /\ ~full => Left(st3, M) = M
                          /\ Around(g1, L, c, st3) /\ Around(g2, L, c, st3)

LEMMA GeneratedFacts ==
    ASSUME NEW L, DOMAIN L \subseteq Chunks, NEW st, Sound(st, L), Written(st), DOMAIN L = Kept(st),
           NEW c \in Chunks, NEW full \in BOOLEAN, Has(L, c) => L[c] = Alloc(c)
    PROVE  GoesWell(L, st, c, full)
<1> DEFINE g1 == Gathered(st, c, full)
           L1 == With(L, c, Alloc(c))
<1>1. /\ DOMAIN L1 = DOMAIN L \cup {c} /\ DOMAIN L1 \subseteq Chunks
      /\ L1[c] = Alloc(c) /\ \A d \in DOMAIN L : L1[d] = L[d]
  BY DEF With, Has
<1> HIDE DEF L1
<1>2. Sound(st, L1)
  BY <1>1, SoundAlso
<1>3. Backed(st, c)
  BY DEF Written, Backed
<1>4. Gathering(st, g1, L1, c, 8, full)
  BY <1>1, <1>2, <1>3, GatheredFacts
<1> HIDE DEF g1
<1>5. /\ Sound(g1.st, L1) /\ Backed(g1.st, c) /\ Behind(g1.st, c, 8)
      /\ Kept(g1.st) \subseteq Kept(st) \cup {c}
      /\ ~full => Kept(g1.st) = Kept(st) \cup {c}
      /\ Has(g1.st.files, c) <=> Has(st.files, c)
      /\ Around(g1, L1, c, g1.st)
  BY <1>4 DEF Gathering, Around
<1>6. Cached(g1.st, c) /\ Summ(g1.st, c) = Alloc(c)
  <2>1. Cached(g1.st, c)
    BY <1>5, BehindCached
  <2> QED
    BY <1>1, <1>5, <2>1, IndexFacts
<1>7. Has(st.files, c) => Has(L, c)
  BY Found DEF Has
<1>8. ASSUME NEW x, Has(L, c) => x = Alloc(c)
      PROVE  LET g2 == Gathered(Updated(g1.st, c, x), c, full)
             IN  /\ Cached(g2.st, c) /\ Summ(g2.st, c) = x
                 /\ \A y : (Has(L, c) => y = Alloc(c)) =>
                      LET st3 == Updated(g2.st, c, y)
                          M == With(L, c, y)
                      IN  /\ Sound(st3, Left(st3, M)) /\ Written(st3)
                          /\ DOMAIN Left(st3, M) = Kept(st3)
                          /\ ~full => Left(st3, M) = M
                          /\ Around(g1, L, c, st3) /\ Around(g2, L, c, st3)
  <2> DEFINE st2 == Updated(g1.st, c, x)
             L2 == With(L1, c, x)
             g2 == Gathered(st2, c, full)
  <2>1. Has(g1.st.files, c) => x = L1[c]
    BY <1>1, <1>5, <1>7, <1>8
  <2>2. /\ Sound(st2, L2) /\ Written(st2) /\ Cached(st2, c)
        /\ Kept(st2) = Kept(g1.st) /\ st2.files = g1.st.files
    BY <1>1, <1>5, <1>6, <2>1, UpdatedFacts
  <2>3. /\ DOMAIN L2 = DOMAIN L \cup {c} /\ DOMAIN L2 \subseteq Chunks /\ L2[c] = x
        /\ \A d \in DOMAIN L : d # c => L2[d] = L[d]
    BY <1>1 DEF With
  <2> HIDE DEF st2, L2
  <2>4. Backed(st2, c)
    BY <2>2 DEF Written, Backed
  <2>5. Gathering(st2, g2, L2, c, 8, full)
    BY <2>2, <2>3, <2>4, GatheredFacts
  <2> HIDE DEF g2
  <2>6. /\ Sound(g2.st, L2) /\ Backed(g2.st, c) /\ Behind(g2.st, c, 8)
        /\ Kept(g2.st) \subseteq Kept(st2) \cup {c}
        /\ ~full => Kept(g2.st) = Kept(st2) \cup {c}
        /\ Has(g2.st.files, c) <=> Has(st2.files, c)
        /\ Around(g2, L2, c, g2.st)
    BY <2>5 DEF Gathering, Around
  <2>7. Cached(g2.st, c) /\ Summ(g2.st, c) = x
    <3>1. Cached(g2.st, c)
      BY <2>6, BehindCached
    <3> QED
      BY <2>3, <2>6, <3>1, IndexFacts
  <2>8. ASSUME NEW y, Has(L, c) => y = Alloc(c)
        PROVE  LET st3 == Updated(g2.st, c, y)
                   M == With(L, c, y)
               IN  /\ Sound(st3, Left(st3, M)) /\ Written(st3)
                   /\ DOMAIN Left(st3, M) = Kept(st3)
                   /\ ~full => Left(st3, M) = M
                   /\ Around(g1, L, c, st3) /\ Around(g2, L, c, st3)
    <3> DEFINE st3 == Updated(g2.st, c, y)
               M == With(L, c, y)
               L3 == With(L2, c, y)
    <3>1. Has(g2.st.files, c) => y = L2[c]
      BY <1>5, <1>7, <1>8, <2>2, <2>3, <2>6, <2>8
    <3>2. /\ Sound(st3, L3) /\ Written(st3) /\ Kept(st3) = Kept(g2.st)
      BY <2>3, <2>6, <2>7, <3>1, UpdatedFacts
    <3>3. /\ DOMAIN L3 = DOMAIN L \cup {c} /\ DOMAIN M = DOMAIN L \cup {c} /\ DOMAIN L3 \subseteq Chunks
          /\ \A d \in DOMAIN M : L3[d] = M[d]
      BY <1>1, <2>3 DEF With
    <3>4. M = [d \in DOMAIN M |-> M[d]]
      BY DEF With
    <3> HIDE DEF st3, L3, M
    <3>5. Kept(st3) \subseteq DOMAIN M
      BY <1>5, <2>2, <2>6, <3>2, <3>3
    <3>6. DOMAIN Left(st3, M) = Kept(st3) /\ \A d \in Kept(st3) : Left(st3, M)[d] = L3[d]
      BY <3>3, <3>5 DEF Left
    <3>7. Sound(st3, Left(st3, M))
      BY <3>2, <3>3, <3>6, SoundAlso
    <3>8. ~full => Left(st3, M) = M
      <4>1. ~full => Kept(st3) = DOMAIN M
        BY <1>5, <2>2, <2>6, <3>2, <3>3
      <4> QED
        BY <3>4, <4>1 DEF Left
    <3>9. \A m \in 1 .. 8 : Beside(c, DIRS[m]) # c
      BY DirFacts
    <3>10. {L1[d] : d \in DOMAIN L1 \ {c}} = {L[d] : d \in DOMAIN L \ {c}}
           /\ {L2[d] : d \in DOMAIN L2 \ {c}} = {L[d] : d \in DOMAIN L \ {c}}
      <4>1. DOMAIN L1 \ {c} = DOMAIN L \ {c} /\ DOMAIN L2 \ {c} = DOMAIN L \ {c}
        BY <1>1, <2>3
      <4> QED
        BY <1>1, <2>3, <4>1
    <3>11. Kept(st3) \subseteq Kept(g1.st) \cup {c} /\ Kept(st3) = Kept(g2.st)
      BY <2>2, <2>6, <3>2
    <3>12. Around(g1, L, c, st3)
      <4>1. g1.seen \in Seq({L[d] : d \in DOMAIN L \ {c}})
        BY <1>5, <3>10 DEF Around
      <4>2. ASSUME NEW m \in 1 .. 8, Beside(c, DIRS[m]) \in Kept(st3)
            PROVE  \E i \in 1 .. Len(g1.seen) : g1.seen[i] = L[Beside(c, DIRS[m])]
        <5>1. Beside(c, DIRS[m]) \in Kept(g1.st) /\ Beside(c, DIRS[m]) \in DOMAIN L
          BY <3>3, <3>5, <3>9, <3>11, <4>2
        <5>2. L1[Beside(c, DIRS[m])] = L[Beside(c, DIRS[m])]
          BY <1>1, <5>1
        <5> QED
          BY <1>5, <5>1, <5>2 DEF Around
      <4> QED
        BY <4>1, <4>2 DEF Around
    <3>13. Around(g2, L, c, st3)
      <4>1. g2.seen \in Seq({L[d] : d \in DOMAIN L \ {c}})
        BY <2>6, <3>10 DEF Around
      <4>2. ASSUME NEW m \in 1 .. 8, Beside(c, DIRS[m]) \in Kept(st3)
            PROVE  \E i \in 1 .. Len(g2.seen) : g2.seen[i] = L[Beside(c, DIRS[m])]
        <5>1. Beside(c, DIRS[m]) \in Kept(g2.st) /\ Beside(c, DIRS[m]) \in DOMAIN L
          BY <3>3, <3>5, <3>9, <3>11, <4>2
        <5>2. L2[Beside(c, DIRS[m])] = L[Beside(c, DIRS[m])]
          BY <2>3, <3>9, <5>1
        <5> QED
          BY <2>6, <5>1, <5>2 DEF Around
      <4> QED
        BY <4>1, <4>2 DEF Around
    <3> QED
      BY <3>2, <3>6, <3>7, <3>8, <3>12, <3>13 DEF st3, M
  <2> QED
    BY <2>7, <2>8 DEF g2, st2
<1> QED
  BY <1>6, <1>8 DEF g1, GoesWell

-----------------------------------------------------------------------------
(* A set of natural numbers that is not empty has a least one.             *)
LEMMA LeastNat ==
    ASSUME NEW T, T \subseteq Nat, T # {}
    PROVE  \E x \in T : \A y \in T : x <= y
<1> DEFINE below == {0 .. x : x \in T}
           R == StrictSubsetOrdering(Nat)
<1>1. IsWellFoundedOn(R, FiniteSubsetsOf(Nat))
  BY FS_StrictSubsetOrderingWellFounded
<1>2. below \subseteq FiniteSubsetsOf(Nat) /\ below # {}
  <2>1. \A x \in T : 0 .. x \subseteq Nat /\ IsFiniteSet(0 .. x)
    BY FS_Interval
  <2>2. \A x \in T : 0 .. x \in FiniteSubsetsOf(Nat)
    BY <2>1 DEF FiniteSubsetsOf
  <2>3. PICK x \in T : TRUE
    OBVIOUS
  <2>4. 0 .. x \in below
    OBVIOUS
  <2>5. below \subseteq FiniteSubsetsOf(Nat)
    BY <2>2, Zenon
  <2> QED
    BY <2>4, <2>5
<1> HIDE DEF R
<1>3. PICK X \in below : \A Y \in below : ~ (<<Y, X>> \in R)
  BY <1>1, <1>2, WFMin
<1>4. PICK x \in T : X = 0 .. x
  OBVIOUS
<1>5. ASSUME NEW y \in T, y < x PROVE FALSE
  <2>1. 0 .. y \subseteq 0 .. x /\ x \in 0 .. x /\ x \notin 0 .. y
    BY <1>5
  <2>2. 0 .. y \in SUBSET Nat /\ 0 .. x \in SUBSET Nat /\ 0 .. y # 0 .. x
    BY <2>1
  <2>3. <<0 .. y, 0 .. x>> \in R
    BY <2>1, <2>2 DEF R, StrictSubsetOrdering
  <2> QED
    BY <1>3, <1>4, <2>3
<1> QED
  BY <1>5

LEMMA MaxIn ==
    ASSUME NEW n \in Nat, NEW S, S \subseteq 1 .. n, S # {}
    PROVE  Max(S) \in S
<1> DEFINE T == {n - x : x \in S}
<1>1. T \subseteq Nat /\ T # {}
  <2>1. \A x \in S : n - x \in Nat
    OBVIOUS
  <2>2. PICK x \in S : TRUE
    OBVIOUS
  <2>3. n - x \in T
    OBVIOUS
  <2> QED
    BY <2>1, <2>3
<1> HIDE DEF T
<1>2. PICK y \in T : \A z \in T : y <= z
  BY <1>1, LeastNat
<1>3. PICK x \in S : y = n - x
  BY <1>2 DEF T
<1>4. \A z \in S : x >= z
  <2> SUFFICES ASSUME NEW z \in S PROVE x >= z
    OBVIOUS
  <2>1. n - z \in T
    BY DEF T
  <2>2. n - x <= n - z /\ x \in 1 .. n /\ z \in 1 .. n
    BY <1>2, <1>3, <2>1
  <2> QED
    BY <2>2
<1> QED
  BY <1>3, <1>4 DEF Max

-----------------------------------------------------------------------------
(* What a summary says of the ground: a height, or a tree, has this step   *)
(* at vertex v.                                                            *)
Claim(s, v, k) ==
    \/ v \in DOMAIN s.height /\ k = Step(s.height[v])
    \/ \E t \in s.trees : v \in t.foot /\ k = Step(s.height[t.at])

Proper(c, s) ==
    /\ s.height \in [On[c] -> Heights] /\ s.trees \subseteq Trees[c]
    /\ DOMAIN s.tied = UNION {t.foot : t \in {u \in s.trees : Extends(u, c)}}
    /\ \A v \in DOMAIN s.tied :
            \E t \in s.trees : v \in t.foot /\ s.tied[v] = (s.height[t.at] \div 2) * 2
    /\ \A d \in s.doors : \A v \in d.door : Key(s, v) = "cave"

Agree(s, r) ==
    /\ \A v, k, m : Claim(s, v, k) /\ Claim(r, v, m) => k = m
    /\ \A t \in s.trees, u \in r.trees : t # u => Apart(t, u)
    /\ \A v \in DOMAIN s.height \cap DOMAIN r.height : Key(s, v) = Key(r, v)

(* A chunk with nothing in it. *)
Blank(c) == On[c] = {} /\ Trees[c] = {} /\ Doors[c] = {}

LEMMA Assumed ==
    /\ Chunks \subseteq Int \X Int /\ Heights \subseteq Int
    /\ \A c \in Chunks : \A t \in Trees[c] : t.at \in On[c] /\ t.at \in t.foot
    /\ \A c, d \in Chunks : c = d \/ Adjacent(c, d)
                          \/ /\ Covered(c) \cap Covered(d) = {}
                             /\ \A t \in Trees[c], u \in Trees[d] : Apart(t, u)
    /\ \A c, d \in Chunks : \A e \in Doors[c] :
            \/ e.edge
            \/ e.door \subseteq On[c] /\ (c = d \/ e.door \cap On[d] = {})
    /\ \A c \in Again : Blank(c)
  BY SeamsAssumption DEF SeamsAssumption, Blank

LEMMA AgreeBack ==
    ASSUME NEW s, NEW r, Agree(s, r)
    PROVE  Agree(r, s)
  BY DEF Agree, Apart

LEMMA StepFacts ==
    ASSUME NEW h \in Int
    PROVE  /\ Step((h \div 2) * 2) = Step(h) /\ Step((h \div 2) * 2 + 1) = Step(h)
           /\ Step(h) \in Int /\ (h < cutoff <=> Step(h) < 1)
<1>1. PICK q \in Int : q = h \div 2 /\ (h = 2 * q \/ h = 2 * q + 1)
  BY Z3
<1>2. /\ (2 * q - 98) \div 2 = q - 49 /\ (2 * q + 1 - 98) \div 2 = q - 49
  BY Z3
<1>3. Step(2 * q) = q - 49 /\ Step(2 * q + 1) = q - 49
  BY <1>2 DEF Step
<1>4. (h \div 2) * 2 = 2 * q
  BY <1>1
<1> QED
  BY <1>1, <1>3, <1>4 DEF cutoff

(* Whatever load takes from a summary, the summary claims. *)
LEMMA TakenClaims ==
    ASSUME NEW c \in Chunks, NEW s, Proper(c, s), NEW v \in Bears(s), NEW h \in Taken(s, v)
    PROVE  Claim(s, v, Step(h))
<1>1. CASE Has(s.tied, v)
  <2>1. PICK t \in s.trees : v \in t.foot /\ s.tied[v] = (s.height[t.at] \div 2) * 2
    BY <1>1 DEF Proper, Has
  <2>2. s.height[t.at] \in Int
    <3>1. t.at \in On[c]
      BY Assumed DEF Proper
    <3> QED
      BY <3>1, Assumed DEF Proper
  <2>3. h = s.tied[v] \/ h = s.tied[v] + 1
    BY <1>1 DEF Taken
  <2> DEFINE a == s.height[t.at]
  <2> HIDE DEF a
  <2>4. Step(h) = Step(a)
    <3>1. a \in Int
      BY <2>2 DEF a
    <3>2. h = (a \div 2) * 2 \/ h = (a \div 2) * 2 + 1
      BY <2>1, <2>3 DEF a
    <3> QED
      BY <3>1, <3>2, StepFacts
  <2> QED
    BY <2>1, <2>4 DEF Claim, a
<1>2. CASE ~ Has(s.tied, v)
  <2>1. v \in DOMAIN s.height /\ h = s.height[v]
    BY <1>2 DEF Bears, Has, Taken
  <2> QED
    BY <2>1 DEF Claim
<1> QED
  BY <1>1, <1>2

LEMMA ClaimBears ==
    ASSUME NEW c \in Chunks, NEW s, Proper(c, s), NEW v, NEW k, Claim(s, v, k)
    PROVE  v \in Bears(s) /\ v \in Covered(c)
<1>1. DOMAIN s.height = On[c]
  BY DEF Proper
<1>2. CASE v \in On[c]
  BY <1>1, <1>2 DEF Bears, Covered
<1>3. CASE v \notin On[c]
  <2>1. PICK t \in s.trees : v \in t.foot
    BY <1>1, <1>3 DEF Claim
  <2>2. Extends(t, c)
    BY <1>3, <2>1 DEF Extends
  <2>3. v \in DOMAIN s.tied /\ t \in Trees[c]
    BY <2>1, <2>2 DEF Proper
  <2> QED
    BY <2>1, <2>3 DEF Bears, Covered
<1> QED
  BY <1>2, <1>3

-----------------------------------------------------------------------------
(* What generate_summary makes of a chunk.                                 *)
Made(c, grid, ts, ds, open) ==
    WithCaves(WithTrees(WithHeights(Alloc(c), c, grid), c, grid, ts), ds, open)
Ground(c, grid) == [v \in On[c] |-> grid[v]]
Reaching(c, ts) == {t \in ts : Extends(t, c)}

LEMMA MadeFacts ==
    ASSUME NEW c, NEW grid, NEW ts, NEW ds, NEW open
    PROVE  /\ WithHeights(Alloc(c), c, grid) =
                    [height |-> Ground(c, grid), tied |-> << >>, trees |-> {},
                     open |-> On[c], doors |-> {}]
           /\ Made(c, grid, ts, ds, open) =
                    [height |-> Ground(c, grid), tied |-> Tied(<< >>, Reaching(c, ts), grid),
                     trees |-> ts, open |-> open, doors |-> ds]
<1> DEFINE f == Ground(c, grid)
           T == Tied(<< >>, Reaching(c, ts), grid)
           z == [v \in On[c] |-> 0]
           s0 == [height |-> z, tied |-> << >>, trees |-> {}, open |-> On[c], doors |-> {}]
           s1 == [height |-> f, tied |-> << >>, trees |-> {}, open |-> On[c], doors |-> {}]
           s2 == [height |-> f, tied |-> T, trees |-> ts, open |-> On[c], doors |-> {}]
           s3 == [height |-> f, tied |-> T, trees |-> ts, open |-> open, doors |-> ds]
<1>0. /\ WithHeights(s0, c, grid) = [s0 EXCEPT !.height = f]
      /\ WithTrees(s1, c, grid, ts) = [s1 EXCEPT !.trees = ts,
                                                !.tied = Tied(s1.tied, Reaching(c, ts), grid)]
      /\ WithCaves(s2, ds, open) = [s2 EXCEPT !.doors = ds, !.open = open]
      /\ Alloc(c) = s0
  BY DEF WithHeights, WithTrees, WithCaves, Reaching, Ground, Alloc
<1> HIDE DEF f, T, z
<1>1. WithHeights(Alloc(c), c, grid) = s1
  <2> DEFINE r == [s0 EXCEPT !.height = f]
  <2>2. r.height = f /\ r.tied = << >> /\ r.trees = {} /\ r.open = On[c] /\ r.doors = {}
    OBVIOUS
  <2>3. DOMAIN r = {"height", "tied", "trees", "open", "doors"} /\ r = [i \in DOMAIN r |-> r[i]]
    OBVIOUS
  <2> HIDE DEF r
  <2>4. r = [height |-> f, tied |-> << >>, trees |-> {}, open |-> On[c], doors |-> {}]
    BY <2>2, <2>3
  <2> HIDE DEF s0, s1
  <2> QED
    BY <1>0, <2>4 DEF r, s1
<1>2. WithTrees(s1, c, grid, ts) = s2
  <2>1. s1.tied = << >>
    OBVIOUS
  <2> DEFINE r == [s1 EXCEPT !.trees = ts, !.tied = T]
  <2>2. r.height = f /\ r.tied = T /\ r.trees = ts /\ r.open = On[c] /\ r.doors = {}
    OBVIOUS
  <2>3. DOMAIN r = {"height", "tied", "trees", "open", "doors"} /\ r = [i \in DOMAIN r |-> r[i]]
    OBVIOUS
  <2> HIDE DEF r
  <2>4. r = [height |-> f, tied |-> T, trees |-> ts, open |-> On[c], doors |-> {}]
    BY <2>2, <2>3
  <2> HIDE DEF s1, s2
  <2> QED
    BY <1>0, <2>1, <2>4 DEF r, s2, T
<1>3. WithCaves(s2, ds, open) = s3
  <2> DEFINE r == [s2 EXCEPT !.doors = ds, !.open = open]
  <2>2. r.height = f /\ r.tied = T /\ r.trees = ts /\ r.open = open /\ r.doors = ds
    OBVIOUS
  <2>3. DOMAIN r = {"height", "tied", "trees", "open", "doors"} /\ r = [i \in DOMAIN r |-> r[i]]
    OBVIOUS
  <2> HIDE DEF r
  <2>4. r = [height |-> f, tied |-> T, trees |-> ts, open |-> open, doors |-> ds]
    BY <2>2, <2>3
  <2> HIDE DEF s2, s3
  <2> QED
    BY <1>0, <2>4 DEF r, s3
<1>4. Made(c, grid, ts, ds, open) = s3
  <2> HIDE DEF s1, s2, s3
  <2> QED
    BY <1>1, <1>2, <1>3 DEF Made
<1> QED
  BY <1>1, <1>4 DEF f, T

(* The fields of it. *)
LEMMA MadeFields ==
    ASSUME NEW c, NEW grid, NEW ts, NEW ds, NEW open
    PROVE  LET s == Made(c, grid, ts, ds, open)
           IN  /\ DOMAIN s.height = On[c] /\ (\A v \in On[c] : s.height[v] = grid[v])
               /\ s.height = Ground(c, grid)
               /\ s.trees = ts /\ s.open = open /\ s.doors = ds
               /\ DOMAIN s.tied = UNION {t.foot : t \in Reaching(c, ts)}
               /\ \A v \in DOMAIN s.tied : \E t \in Reaching(c, ts) :
                    v \in t.foot /\ s.tied[v] = (grid[t.at] \div 2) * 2
<1> DEFINE T == Tied(<< >>, Reaching(c, ts), grid)
           F == UNION {t.foot : t \in Reaching(c, ts)}
           s == Made(c, grid, ts, ds, open)
<1>1. s = [height |-> Ground(c, grid), tied |-> T, trees |-> ts, open |-> open, doors |-> ds]
  BY MadeFacts
<1>5. DOMAIN << >> = {}
  OBVIOUS
<1>6. T = [v \in F |-> IF \E t \in Reaching(c, ts) : v \in t.foot
                       THEN LET t == CHOOSE t \in Reaching(c, ts) : v \in t.foot
                            IN  (grid[t.at] \div 2) * 2
                       ELSE << >>[v]]
  BY <1>5 DEF Tied
<1>7. DOMAIN T = F
  BY <1>6
<1>8. ASSUME NEW v \in F
      PROVE  \E t \in Reaching(c, ts) : v \in t.foot /\ T[v] = (grid[t.at] \div 2) * 2
  <2>1. \E t \in Reaching(c, ts) : v \in t.foot
    OBVIOUS
  <2> DEFINE t == CHOOSE t \in Reaching(c, ts) : v \in t.foot
  <2>2. t \in Reaching(c, ts) /\ v \in t.foot
    BY <2>1
  <2>3. T[v] = (grid[t.at] \div 2) * 2
    BY <1>6, <2>1
  <2> HIDE DEF T, t
  <2> QED
    BY <2>2, <2>3
<1> HIDE DEF T, F, s
<1>9. s.height = Ground(c, grid) /\ s.trees = ts /\ s.tied = T /\ s.open = open /\ s.doors = ds
  BY <1>1
<1>10. /\ DOMAIN s.height = On[c] /\ (\A v \in On[c] : s.height[v] = grid[v])
       /\ s.height = Ground(c, grid)
  BY <1>9 DEF Ground
<1>11. /\ DOMAIN s.tied = F
       /\ \A v \in DOMAIN s.tied : \E t \in Reaching(c, ts) :
            v \in t.foot /\ s.tied[v] = (grid[t.at] \div 2) * 2
  BY <1>7, <1>8, <1>9
<1> QED
  BY <1>9, <1>10, <1>11 DEF s, F

LEMMA NoFunction ==
    ASSUME NEW f, DOMAIN f = {}, f = [x \in DOMAIN f |-> f[x]]
    PROVE  f = << >>
<1>1. << >> = [x \in {} |-> << >>[x]]
  OBVIOUS
<1> QED
  BY <1>1

(* What may be generated again comes out the same. *)
LEMMA MadeAgain ==
    ASSUME NEW c, Blank(c), NEW grid, NEW ts, ts \subseteq Trees[c], NEW ds, ds \subseteq Doors[c],
           NEW open, open \subseteq On[c]
    PROVE  Made(c, grid, ts, ds, open) = Alloc(c) /\ WithHeights(Alloc(c), c, grid) = Alloc(c)
<1> DEFINE s == Made(c, grid, ts, ds, open)
           f == Ground(c, grid)
           z == [v \in On[c] |-> 0]
           T == Tied(<< >>, Reaching(c, ts), grid)
<1>1. f = z /\ On[c] = {}
  BY DEF Blank, Ground
<1>2. ts = {} /\ ds = {} /\ open = On[c]
  BY DEF Blank
<1>3. Reaching(c, ts) = {}
  BY <1>2 DEF Reaching
<1>4. T = << >>
  <2>1. DOMAIN << >> \cup UNION {t.foot : t \in Reaching(c, ts)} = {}
    BY <1>3
  <2>2. DOMAIN T = {} /\ T = [v \in DOMAIN T |-> T[v]]
    BY <2>1 DEF Tied
  <2> HIDE DEF T
  <2> QED
    BY <2>2, NoFunction
<1>5. s = [height |-> Ground(c, grid), tied |-> Tied(<< >>, Reaching(c, ts), grid),
           trees |-> ts, open |-> open, doors |-> ds]
  BY MadeFacts
<1>8. WithHeights(Alloc(c), c, grid) = [height |-> Ground(c, grid), tied |-> << >>,
                                        trees |-> {}, open |-> On[c], doors |-> {}]
  BY MadeFacts
<1>6. Alloc(c) = [height |-> z, tied |-> << >>, trees |-> {}, open |-> On[c], doors |-> {}]
  BY DEF Alloc
<1>10. /\ s = [height |-> f, tied |-> T, trees |-> ts, open |-> open, doors |-> ds]
       /\ WithHeights(Alloc(c), c, grid) = [height |-> f, tied |-> << >>, trees |-> {},
                                            open |-> On[c], doors |-> {}]
  BY <1>5, <1>8
<1> HIDE DEF T, s, f, z
<1>7. s = Alloc(c)
  BY <1>1, <1>2, <1>4, <1>6, <1>10
<1>9. WithHeights(Alloc(c), c, grid) = Alloc(c)
  BY <1>1, <1>6, <1>10
<1> QED
  BY <1>7, <1>9 DEF s

-----------------------------------------------------------------------------
(* Chunks that fit together, and what was seen of them around c: S is what *)
(* is still there when c is done.                                          *)
Fits(L) ==
    /\ DOMAIN L \subseteq Chunks
    /\ \A d \in DOMAIN L : Proper(d, L[d])
    /\ \A d, e \in DOMAIN L : Agree(L[d], L[e])
Seen(seen, L, c, S) ==
    /\ seen \in Seq({L[d] : d \in DOMAIN L \ {c}})
    /\ S \subseteq DOMAIN L \ {c}
    /\ \A e \in S : Adjacent(c, e) => \E i \in 1 .. Len(seen) : seen[i] = L[e]

LEMMA SeenFacts ==
    ASSUME NEW L, NEW c, NEW S, NEW seen, Seen(seen, L, c, S)
    PROVE  /\ Len(seen) \in Nat /\ DOMAIN seen = 1 .. Len(seen)
           /\ \A i \in 1 .. Len(seen) : \E d \in DOMAIN L \ {c} : seen[i] = L[d]
<1>1. seen \in Seq({L[d] : d \in DOMAIN L \ {c}})
  BY DEF Seen
<1>2. \A i \in 1 .. Len(seen) : seen[i] \in {L[d] : d \in DOMAIN L \ {c}}
  BY <1>1
<1> QED
  BY <1>1, <1>2

(* The last of those that bear upon a vertex is one of the chunks.         *)
LEMMA LastUpon ==
    ASSUME NEW L, NEW c, NEW S, NEW seen, Seen(seen, L, c, S), NEW upon,
           upon \subseteq DOMAIN seen, upon # {}
    PROVE  Max(upon) \in upon /\ \E d \in DOMAIN L \ {c} : seen[Max(upon)] = L[d]
<1>1. /\ Len(seen) \in Nat /\ DOMAIN seen = 1 .. Len(seen)
      /\ \A i \in 1 .. Len(seen) : \E d \in DOMAIN L \ {c} : seen[i] = L[d]
  BY SeenFacts
<1>2. Max(upon) \in upon
  BY <1>1, MaxIn
<1> QED
  BY <1>1, <1>2

(* What the chunks around claim of a vertex, the heights satisfy.          *)
LEMMA GridClaims ==
    ASSUME NEW L, Fits(L), NEW c \in Chunks, NEW S, NEW seen, Seen(seen, L, c, S),
           NEW grid \in Grids(c, Ranges(seen)), NEW v \in Covered(c), NEW e \in S, NEW m,
           Claim(L[e], v, m)
    PROVE  m = Step(grid[v]) /\ Adjacent(c, e)
<1>1. e \in DOMAIN L /\ e \in Chunks /\ e # c /\ Proper(e, L[e])
  BY DEF Seen, Fits
<1>2. v \in Bears(L[e]) /\ v \in Covered(e)
  BY <1>1, ClaimBears
<1>3. Adjacent(c, e)
  BY <1>1, <1>2, Assumed
<1>4. PICK j \in 1 .. Len(seen) : seen[j] = L[e]
  BY <1>3 DEF Seen
<1> DEFINE upon == {i \in DOMAIN seen : v \in Bears(seen[i])}
           ranges == Ranges(seen)
<1>5. upon \subseteq DOMAIN seen /\ upon # {} /\ j \in DOMAIN seen
  BY <1>2, <1>4, SeenFacts
<1>6. Max(upon) \in upon /\ \E d \in DOMAIN L \ {c} : seen[Max(upon)] = L[d]
  <2> HIDE DEF upon
  <2> QED
    BY <1>5, LastUpon
<1>7. PICK d \in DOMAIN L \ {c} : seen[Max(upon)] = L[d]
  BY <1>6
<1>8. v \in Bears(L[d])
  <2>1. v \in Bears(seen[Max(upon)])
    BY <1>6
  <2> QED
    BY <1>7, <2>1
<1>9. v \in DOMAIN ranges /\ ranges[v] = Taken(seen[Max(upon)], v)
  <2>1. v \in UNION {Bears(seen[i]) : i \in DOMAIN seen}
    BY <1>2, <1>4, <1>5
  <2>2. ranges[v] = IF upon = {} THEN Seeded[v] ELSE Taken(seen[Max(upon)], v)
    BY <2>1 DEF Ranges
  <2>3. v \in DOMAIN ranges
    BY <2>1 DEF Ranges
  <2> HIDE DEF ranges, upon
  <2> QED
    BY <1>5, <2>2, <2>3
<1> HIDE DEF upon, ranges
<1>10. grid[v] \in Taken(L[d], v)
  <2>1. grid[v] \in Valid(ranges, v)
    BY DEF Grids, ranges
  <2> QED
    BY <1>7, <1>9, <2>1 DEF Valid, Has
<1>11. Claim(L[d], v, Step(grid[v]))
  <2>1. d \in Chunks /\ Proper(d, L[d])
    BY DEF Fits
  <2> QED
    BY <1>8, <1>10, <2>1, TakenClaims
<1>12. Agree(L[d], L[e])
  BY <1>1 DEF Fits
<1> QED
  BY <1>3, <1>11, <1>12 DEF Agree

(* What the new summary claims, the heights satisfy.                       *)
LEMMA OwnClaims ==
    ASSUME NEW c \in Chunks, NEW grid, NEW seen, NEW ts \in Sampled(c, seen, grid), NEW ds, NEW open,
           NEW v, NEW k, Claim(Made(c, grid, ts, ds, open), v, k)
    PROVE  v \in Covered(c) /\ k = Step(grid[v])
<1> DEFINE s == Made(c, grid, ts, ds, open)
<1>1. DOMAIN s.height = On[c] /\ (\A w \in On[c] : s.height[w] = grid[w]) /\ s.trees = ts
  BY MadeFields
<1> HIDE DEF s
<1>2. CASE v \in DOMAIN s.height /\ k = Step(s.height[v])
  BY <1>1, <1>2 DEF Covered
<1>3. ASSUME NEW t \in s.trees, v \in t.foot, k = Step(s.height[t.at])
      PROVE  v \in Covered(c) /\ k = Step(grid[v])
  <2>1. t \in Trees[c] /\ Stands(t, grid)
    BY <1>1 DEF Sampled
  <2>2. t.at \in On[c]
    BY <2>1, Assumed
  <2>3. v \in Covered(c)
    BY <1>3, <2>1 DEF Covered
  <2> QED
    BY <1>1, <1>3, <2>1, <2>2, <2>3 DEF Stands
<1> QED
  BY <1>2, <1>3 DEF Claim, s

(* An entrance is open.                                                    *)
LEMMA MadeDoors ==
    ASSUME NEW L, Fits(L), NEW c \in Chunks, NEW S, NEW seen, Seen(seen, L, c, S),
           NEW grid \in [Covered(c) -> Heights], NEW ts, NEW ds \in Entrances(c, grid),
           NEW open \in Open(c, Fixed(Forced(c, grid, ds), seen)), NEW d \in ds, NEW v \in d.door
    PROVE  Key(Made(c, grid, ts, ds, open), v) = "cave"
<1> DEFINE s == Made(c, grid, ts, ds, open)
           forced == Forced(c, grid, ds)
           fixed == Fixed(forced, seen)
           upon == {i \in DOMAIN seen : Has(seen[i].height, v)}
<1>1. d \in Doors[c] /\ ~ d.edge /\ grid[v] >= cutoff
  BY DEF Entrances, Placed
<1>2. v \in On[c] /\ \A e \in Chunks : e # c => v \notin On[e]
  BY <1>1, Assumed
<1>3. upon = {}
  <2> SUFFICES ASSUME NEW i \in DOMAIN seen, v \in DOMAIN seen[i].height PROVE FALSE
    BY DEF Has
  <2>1. PICK e \in DOMAIN L \ {c} : seen[i] = L[e]
    BY SeenFacts
  <2>2. e \in Chunks /\ DOMAIN L[e].height = On[e]
    BY DEF Fits, Proper
  <2> QED
    BY <1>2, <2>1, <2>2
<1>4. v \in DOMAIN forced /\ forced[v] = (grid[v] >= cutoff)
  BY <1>2 DEF Forced
<1> HIDE DEF forced
<1>5. v \in DOMAIN fixed /\ fixed[v] = forced[v]
  BY <1>3, <1>4 DEF Fixed
<1> HIDE DEF fixed, upon
<1>6. v \in open <=> fixed[v]
  BY <1>2, <1>5 DEF Open, fixed, forced
<1>7. v \in open
  BY <1>1, <1>4, <1>5, <1>6
<1>8. s.height[v] = grid[v] /\ s.open = open
  BY <1>2, MadeFields
<1> HIDE DEF s
<1>9. ~ (s.height[v] < cutoff)
  <2>1. grid[v] \in Int
    BY <1>2, Assumed DEF Covered
  <2> QED
    BY <1>1, <1>8, <2>1 DEF cutoff
<1> QED
  BY <1>7, <1>8, <1>9 DEF Key, s

LEMMA MadeProper ==
    ASSUME NEW L, Fits(L), NEW c \in Chunks, NEW S, NEW seen, Seen(seen, L, c, S),
           NEW grid \in [Covered(c) -> Heights], NEW ts \in Sampled(c, seen, grid),
           NEW ds \in Entrances(c, grid),
           NEW open \in Open(c, Fixed(Forced(c, grid, ds), seen))
    PROVE  Proper(c, Made(c, grid, ts, ds, open))
<1> DEFINE s == Made(c, grid, ts, ds, open)
<1>1. /\ DOMAIN s.height = On[c] /\ (\A w \in On[c] : s.height[w] = grid[w])
      /\ s.height = Ground(c, grid)
      /\ s.trees = ts /\ s.open = open /\ s.doors = ds
      /\ DOMAIN s.tied = UNION {t.foot : t \in Reaching(c, ts)}
      /\ \A v \in DOMAIN s.tied : \E t \in Reaching(c, ts) :
            v \in t.foot /\ s.tied[v] = (grid[t.at] \div 2) * 2
  BY MadeFields
<1>2. \A d \in ds : \A v \in d.door : Key(s, v) = "cave"
  BY MadeDoors
<1> HIDE DEF s
<1>3. s.height \in [On[c] -> Heights]
  <2>1. On[c] \subseteq Covered(c)
    BY DEF Covered
  <2> QED
    BY <1>1, <2>1 DEF Ground
<1>4. s.trees \subseteq Trees[c]
  BY <1>1 DEF Sampled
<1>5. DOMAIN s.tied = UNION {t.foot : t \in {u \in s.trees : Extends(u, c)}}
  BY <1>1 DEF Reaching
<1>6. ASSUME NEW v \in DOMAIN s.tied
      PROVE  \E t \in s.trees : v \in t.foot /\ s.tied[v] = (s.height[t.at] \div 2) * 2
  <2>1. PICK t \in Reaching(c, ts) : v \in t.foot /\ s.tied[v] = (grid[t.at] \div 2) * 2
    BY <1>1
  <2>2. t \in s.trees
    BY <1>1 DEF Reaching
  <2>3. s.height[t.at] = grid[t.at]
    BY <1>1, <1>4, <2>2, Assumed
  <2> QED
    BY <2>1, <2>2, <2>3
<1> QED
  BY <1>1, <1>2, <1>3, <1>4, <1>5, <1>6 DEF Proper, s

(* What is open at the border is what it is in the chunks around.          *)
LEMMA MadeOpen ==
    ASSUME NEW L, Fits(L), NEW c \in Chunks, NEW S, NEW seen, Seen(seen, L, c, S),
           NEW forced, NEW open \in Open(c, Fixed(forced, seen)),
           NEW e \in S, Adjacent(c, e), NEW v \in On[c] \cap On[e]
    PROVE  \E d \in DOMAIN L : v \in DOMAIN L[d].height /\ (v \in open <=> v \in L[d].open)
<1> DEFINE fixed == Fixed(forced, seen)
           upon == {i \in DOMAIN seen : Has(seen[i].height, v)}
<1>1. DOMAIN L[e].height = On[e]
  BY DEF Seen, Fits, Proper
<1>2. PICK j \in DOMAIN seen : seen[j] = L[e]
  BY SeenFacts DEF Seen
<1>3. upon \subseteq DOMAIN seen /\ upon # {}
  BY <1>1, <1>2 DEF Has
<1>4. Max(upon) \in upon /\ \E d \in DOMAIN L \ {c} : seen[Max(upon)] = L[d]
  <2> HIDE DEF upon
  <2> QED
    BY <1>3, LastUpon
<1>5. PICK d \in DOMAIN L \ {c} : seen[Max(upon)] = L[d]
  BY <1>4
<1>6. v \in DOMAIN L[d].height
  <2>1. Has(seen[Max(upon)].height, v)
    BY <1>4
  <2> QED
    BY <1>5, <2>1 DEF Has
<1>7. v \in DOMAIN fixed /\ fixed[v] = (v \in seen[Max(upon)].open)
  <2>1. v \in UNION {DOMAIN seen[i].height : i \in DOMAIN seen}
    BY <1>1, <1>2
  <2>2. fixed[v] = IF upon = {} THEN forced[v] ELSE v \in seen[Max(upon)].open
    BY <2>1 DEF Fixed
  <2>3. v \in DOMAIN fixed
    BY <2>1 DEF Fixed
  <2> HIDE DEF fixed, upon
  <2> QED
    BY <1>3, <2>2, <2>3
<1> HIDE DEF upon, fixed
<1>8. v \in open <=> fixed[v]
  BY <1>7 DEF Open, fixed
<1> QED
  BY <1>5, <1>6, <1>7, <1>8

(* The new summary and one that is there.                                  *)
LEMMA MadeAgrees ==
    ASSUME NEW L, Fits(L), NEW c \in Chunks, NEW S,
           NEW seen1, Seen(seen1, L, c, S), NEW seen2, Seen(seen2, L, c, S),
           NEW grid \in Grids(c, Ranges(seen1)), NEW ts \in Sampled(c, seen2, grid),
           NEW ds \in Entrances(c, grid),
           NEW open \in Open(c, Fixed(Forced(c, grid, ds), seen2)), NEW e \in S
    PROVE  Agree(Made(c, grid, ts, ds, open), L[e])
<1> DEFINE s == Made(c, grid, ts, ds, open)
<1>1. /\ DOMAIN s.height = On[c] /\ (\A w \in On[c] : s.height[w] = grid[w])
      /\ s.trees = ts /\ s.open = open
  BY MadeFields
<1>2. e \in DOMAIN L /\ e \in Chunks /\ e # c /\ Proper(e, L[e])
  BY DEF Seen, Fits
<1>3. ASSUME NEW v, NEW k, NEW m, Claim(s, v, k), Claim(L[e], v, m) PROVE k = m
  <2>1. v \in Covered(c) /\ k = Step(grid[v])
    BY <1>3, OwnClaims
  <2>2. m = Step(grid[v])
    BY <1>3, <2>1, GridClaims
  <2> QED
    BY <2>1, <2>2
<1> HIDE DEF s
<1>4. ASSUME NEW t \in s.trees, NEW u \in L[e].trees, t # u PROVE Apart(t, u)
  <2>1. t \in ts /\ t \in Trees[c] /\ u \in Trees[e]
    BY <1>1, <1>2 DEF Sampled, Proper
  <2>2. CASE ~ Adjacent(c, e)
    BY <1>2, <2>1, <2>2, Assumed
  <2>3. CASE Adjacent(c, e)
    <3>1. PICK j \in DOMAIN seen2 : seen2[j] = L[e]
      BY <2>3, SeenFacts DEF Seen
    <3>2. u \in UNION {seen2[i].trees : i \in DOMAIN seen2}
      BY <3>1
    <3> QED
      BY <1>4, <2>1, <3>2 DEF Sampled
  <2> QED
    BY <2>2, <2>3
<1>5. ASSUME NEW v \in DOMAIN s.height \cap DOMAIN L[e].height PROVE Key(s, v) = Key(L[e], v)
  <2>1. v \in On[c] /\ v \in On[e] /\ v \in Covered(c) /\ s.height[v] = grid[v]
    BY <1>1, <1>2 DEF Proper, Covered
  <2>2. Claim(L[e], v, Step(L[e].height[v]))
    BY DEF Claim
  <2>3. Step(L[e].height[v]) = Step(grid[v]) /\ Adjacent(c, e)
    BY <2>1, <2>2, GridClaims
  <2>4. PICK d \in DOMAIN L : v \in DOMAIN L[d].height /\ (v \in open <=> v \in L[d].open)
    BY <2>1, <2>3, MadeOpen
  <2>5. grid[v] \in Int /\ L[e].height[v] \in Int /\ L[d].height[v] \in Int
    <3>1. Proper(d, L[d])
      BY DEF Fits
    <3>2. v \in DOMAIN L[e].height
      OBVIOUS
    <3>3. L[d].height \in [On[d] -> Heights] /\ L[e].height \in [On[e] -> Heights]
      BY <1>2, <3>1 DEF Proper
    <3>4. L[d].height[v] \in Heights /\ L[e].height[v] \in Heights
      BY <2>4, <3>2, <3>3
    <3>5. grid[v] \in Heights
      BY <2>1 DEF Grids
    <3> QED
      BY <3>4, <3>5, Assumed
  <2>6. Agree(L[d], L[e])
    BY <1>2 DEF Fits
  <2>7. Key(L[d], v) = Key(L[e], v)
    BY <2>4, <2>6 DEF Agree
  <2>8. grid[v] < cutoff <=> L[e].height[v] < cutoff
    BY <2>3, <2>5, StepFacts
  <2> QED
    BY <1>1, <2>1, <2>4, <2>7, <2>8 DEF Key
<1> QED
  BY <1>3, <1>4, <1>5 DEF Agree, s

LEMMA MadeAgreesItself ==
    ASSUME NEW c \in Chunks, NEW grid, NEW seen, NEW ts \in Sampled(c, seen, grid), NEW ds, NEW open
    PROVE  Agree(Made(c, grid, ts, ds, open), Made(c, grid, ts, ds, open))
<1> DEFINE s == Made(c, grid, ts, ds, open)
<1>1. s.trees = ts
  BY MadeFields
<1>2. ASSUME NEW v, NEW k, NEW m, Claim(s, v, k), Claim(s, v, m) PROVE k = m
  <2>1. k = Step(grid[v])
    BY <1>2, OwnClaims
  <2>2. m = Step(grid[v])
    BY <1>2, OwnClaims
  <2> QED
    BY <2>1, <2>2
<1> HIDE DEF s
<1>3. ASSUME NEW t \in s.trees, NEW u \in s.trees, t # u PROVE Apart(t, u)
  BY <1>1, <1>3 DEF Sampled
<1> QED
  BY <1>2, <1>3 DEF Agree, s

(* What is there, and the new summary, fit together.                       *)
LEMMA MadeFits ==
    ASSUME NEW L, Fits(L), NEW c \in Chunks, NEW S,
           NEW seen1, Seen(seen1, L, c, S), NEW seen2, Seen(seen2, L, c, S),
           NEW grid \in Grids(c, Ranges(seen1)), NEW ts \in Sampled(c, seen2, grid),
           NEW ds \in Entrances(c, grid),
           NEW open \in Open(c, Fixed(Forced(c, grid, ds), seen2)),
           NEW M, DOMAIN M \subseteq S \cup {c},
           \A e \in DOMAIN M : M[e] = IF e = c THEN Made(c, grid, ts, ds, open) ELSE L[e]
    PROVE  Fits(M)
<1> DEFINE s == Made(c, grid, ts, ds, open)
<1>1. S \subseteq DOMAIN L /\ c \notin S
  BY DEF Seen
<1>2. Proper(c, s)
  <2>1. grid \in [Covered(c) -> Heights]
    BY DEF Grids
  <2> QED
    BY <2>1, MadeProper
<1>3. \A e \in S : Agree(s, L[e])
  BY MadeAgrees
<1>4. Agree(s, s)
  BY MadeAgreesItself
<1> HIDE DEF s
<1>5. \A e \in S : Agree(L[e], s)
  BY <1>3, AgreeBack
<1>6. \A e \in DOMAIN M : IF e = c THEN M[e] = s ELSE e \in S /\ M[e] = L[e]
  BY DEF s
<1>7. \A d \in DOMAIN M : Proper(d, M[d])
  BY <1>1, <1>2, <1>6 DEF Fits
<1>8. \A d, e \in DOMAIN M : Agree(M[d], M[e])
  BY <1>1, <1>3, <1>4, <1>5, <1>6 DEF Fits
<1> QED
  BY <1>1, <1>7, <1>8 DEF Fits

-----------------------------------------------------------------------------
(* No chunk is lost unnoticed, every copy of a summary is that of its      *)
(* chunk, and the chunks fit together.                                     *)
SeamsInv ==
    /\ ~ panicked
    /\ Sound(Now, land) /\ Written(Now) /\ DOMAIN land = Kept(Now)
    /\ Fits(land)
    /\ \A d \in DOMAIN land \cap Again : land[d] = Alloc(d)

LEMMA LessFits ==
    ASSUME NEW L, Fits(L), \A d \in DOMAIN L \cap Again : L[d] = Alloc(d), NEW st, NEW M,
           M = Left(st, L)
    PROVE  Fits(M) /\ \A d \in DOMAIN M \cap Again : M[d] = Alloc(d)
<1>1. DOMAIN M \subseteq DOMAIN L /\ \A d \in DOMAIN M : M[d] = L[d]
  BY DEF Left
<1> QED
  BY <1>1 DEF Fits

LEMMA LessSound ==
    ASSUME NEW L, DOMAIN L \subseteq Chunks, NEW st, Sound(st, L), Kept(st) \subseteq DOMAIN L, NEW M,
           M = Left(st, L)
    PROVE  Sound(st, M) /\ DOMAIN M = Kept(st)
<1>1. DOMAIN M = Kept(st) /\ \A d \in Kept(st) : M[d] = L[d]
  BY DEF Left
<1> QED
  BY <1>1, SoundAlso

LEMMA AroundSeen ==
    ASSUME NEW g, NEW L, NEW c, NEW st, Around(g, L, c, st), NEW S, S \subseteq DOMAIN L \ {c},
           S \subseteq Kept(st)
    PROVE  Seen(g.seen, L, c, S)
<1>1. ASSUME NEW e \in S, Adjacent(c, e) PROVE \E i \in 1 .. Len(g.seen) : g.seen[i] = L[e]
  <2>1. PICK m \in 1 .. 8 : e = Beside(c, DIRS[m])
    BY <1>1, DirFacts DEF Adjacent
  <2> QED
    BY <2>1 DEF Around
<1> QED
  BY <1>1 DEF Seen, Around

(* A chunk is generated.                                                   *)
LEMMA GenerateStep ==
    ASSUME SeamsInv, NEW c \in Chunks, NEW full \in BOOLEAN, Generate(c, full)
    PROVE  SeamsInv'
<1> DEFINE L == land
           g1 == Gathered(Now, c, full)
<1>1. /\ DOMAIN L \subseteq Chunks /\ Sound(Now, L) /\ Written(Now) /\ DOMAIN L = Kept(Now)
      /\ Fits(L) /\ \A d \in DOMAIN L \cap Again : L[d] = Alloc(d)
  BY DEF SeamsInv, Fits
<1>2. Has(L, c) => c \in Again /\ Blank(c) /\ L[c] = Alloc(c)
  BY <1>1, Assumed DEF Generate, Has
<1>3. /\ Cached(g1.st, c) /\ Summ(g1.st, c) = Alloc(c)
      /\ \A x : (Has(L, c) => x = Alloc(c)) =>
            LET g2 == Gathered(Updated(g1.st, c, x), c, full)
            IN  /\ Cached(g2.st, c) /\ Summ(g2.st, c) = x
                /\ \A y : (Has(L, c) => y = Alloc(c)) =>
                      LET st3 == Updated(g2.st, c, y)
                          M == With(L, c, y)
                      IN  /\ Sound(st3, Left(st3, M)) /\ Written(st3)
                          /\ DOMAIN Left(st3, M) = Kept(st3)
                          /\ ~full => Left(st3, M) = M
                          /\ Around(g1, L, c, st3) /\ Around(g2, L, c, st3)
  <2>1. GoesWell(L, Now, c, full)
    <3> HIDE DEF L
    <3> QED
      BY <1>1, <1>2, GeneratedFacts
  <2> QED
    BY <2>1 DEF GoesWell
<1>4. PICK grid \in Grids(c, Ranges(g1.seen)) :
        \E g2 \in {Gathered(Updated(g1.st, c, WithHeights(Summ(g1.st, c), c, grid)), c, full)} :
         IF ~Cached(g2.st, c) THEN panicked' = TRUE /\ UNCHANGED <<cache, stored, land>>
         ELSE \E ts \in Sampled(c, g2.seen, grid), ds \in Entrances(c, grid) :
              \E open \in Open(c, Fixed(Forced(c, grid, ds), g2.seen)) :
              \E summ \in {WithCaves(WithTrees(Summ(g2.st, c), c, grid, ts), ds, open)} :
              /\ Become(Updated(g2.st, c, summ), With(land, c, summ), full)
              /\ UNCHANGED panicked
  <2>2. PICK h \in {g1} :
         IF ~Cached(h.st, c) THEN panicked' = TRUE /\ UNCHANGED <<cache, stored, land>>
         ELSE \E grid \in Grids(c, Ranges(h.seen)) :
              \E g2 \in {Gathered(Updated(h.st, c, WithHeights(Summ(h.st, c), c, grid)), c, full)} :
               IF ~Cached(g2.st, c) THEN panicked' = TRUE /\ UNCHANGED <<cache, stored, land>>
               ELSE \E ts \in Sampled(c, g2.seen, grid), ds \in Entrances(c, grid) :
                    \E open \in Open(c, Fixed(Forced(c, grid, ds), g2.seen)) :
                    \E summ \in {WithCaves(WithTrees(Summ(g2.st, c), c, grid, ts), ds, open)} :
                    /\ Become(Updated(g2.st, c, summ), With(land, c, summ), full)
                    /\ UNCHANGED panicked
    BY DEF Generate
  <2> HIDE DEF g1, L
  <2>3. h = g1
    BY <2>2
  <2> QED
    BY <1>3, <2>2, <2>3
<1> DEFINE x == WithHeights(Alloc(c), c, grid)
           g2 == Gathered(Updated(g1.st, c, x), c, full)
<1>5. Has(L, c) => x = Alloc(c)
  <2>1. Has(L, c) => Blank(c) /\ {} \subseteq Trees[c] /\ {} \subseteq Doors[c] /\ {} \subseteq On[c]
    BY <1>2
  <2> QED
    BY <2>1, MadeAgain
<1> HIDE DEF g1
<1>6. /\ Cached(g2.st, c) /\ Summ(g2.st, c) = x
      /\ \A y : (Has(L, c) => y = Alloc(c)) =>
            LET st3 == Updated(g2.st, c, y)
                M == With(L, c, y)
            IN  /\ Sound(st3, Left(st3, M)) /\ Written(st3)
                /\ DOMAIN Left(st3, M) = Kept(st3)
                /\ ~full => Left(st3, M) = M
                /\ Around(g1, L, c, st3) /\ Around(g2, L, c, st3)
  <2> HIDE DEF x
  <2> QED
    BY <1>3, <1>5
<1>7. PICK ts \in Sampled(c, g2.seen, grid), ds \in Entrances(c, grid) :
         \E open \in Open(c, Fixed(Forced(c, grid, ds), g2.seen)) :
         \E summ \in {WithCaves(WithTrees(Summ(g2.st, c), c, grid, ts), ds, open)} :
         /\ Become(Updated(g2.st, c, summ), With(land, c, summ), full)
         /\ UNCHANGED panicked
  BY <1>3, <1>4, <1>6
<1> HIDE DEF g2
<1>8. PICK open \in Open(c, Fixed(Forced(c, grid, ds), g2.seen)) :
         \E summ \in {WithCaves(WithTrees(Summ(g2.st, c), c, grid, ts), ds, open)} :
         /\ Become(Updated(g2.st, c, summ), With(land, c, summ), full)
         /\ UNCHANGED panicked
  BY <1>7
<1> DEFINE y == Made(c, grid, ts, ds, open)
           st3 == Updated(g2.st, c, y)
           M == Left(st3, With(L, c, y))
<1>9. Become(st3, With(L, c, y), full) /\ UNCHANGED panicked
  BY <1>6, <1>8 DEF Made
<1>10. Has(L, c) => y = Alloc(c)
  <2>1. ts \subseteq Trees[c] /\ ds \subseteq Doors[c] /\ open \subseteq On[c]
    <3>1. ts \subseteq Trees[c]
      BY DEF Sampled
    <3>2. ds \subseteq Doors[c]
      BY DEF Entrances
    <3>3. open \subseteq On[c]
      BY DEF Open
    <3> QED
      BY <3>1, <3>2, <3>3
  <2> QED
    BY <1>2, <2>1, MadeAgain
<1> HIDE DEF y
<1>11. /\ Sound(st3, M) /\ Written(st3) /\ DOMAIN M = Kept(st3)
       /\ ~full => M = With(L, c, y)
       /\ Around(g1, L, c, st3) /\ Around(g2, L, c, st3)
  BY <1>6, <1>10
<1>12. cache' = st3.cache /\ stored' = st3.files /\ land' = M
  BY <1>9, <1>11 DEF Become, Left
<1>13. /\ DOMAIN M \subseteq DOMAIN L \cup {c}
       /\ \A e \in DOMAIN M : M[e] = IF e = c THEN y ELSE L[e]
  BY DEF Left, With
<1> HIDE DEF st3, M, L
<1> DEFINE S == DOMAIN M \ {c}
<1>14. S \subseteq DOMAIN L \ {c} /\ S \subseteq Kept(st3) /\ DOMAIN M \subseteq S \cup {c}
  BY <1>11, <1>13
<1> HIDE DEF S
<1>15. Seen(g1.seen, L, c, S) /\ Seen(g2.seen, L, c, S)
  BY <1>11, <1>14, AroundSeen
<1>16. Fits(M)
  <2>1. \A e \in DOMAIN M : M[e] = IF e = c THEN Made(c, grid, ts, ds, open) ELSE L[e]
    BY <1>13 DEF y
  <2> QED
    BY <1>1, <1>14, <1>15, <2>1, MadeFits
<1>17. \A d \in DOMAIN M \cap Again : M[d] = Alloc(d)
  <2>1. c \in Again => y = Alloc(c)
    <3>1. c \in Again => Blank(c)
      BY Assumed
    <3>2. ts \subseteq Trees[c]
      BY DEF Sampled
    <3>3. ds \subseteq Doors[c]
      BY DEF Entrances
    <3>4. open \subseteq On[c]
      BY DEF Open
    <3> QED
      BY <3>1, <3>2, <3>3, <3>4, MadeAgain DEF y
  <2> QED
    BY <1>1, <1>13, <2>1
<1>18. Now' = st3
  <2>1. st3 = [cache |-> st3.cache, files |-> st3.files]
    BY <1>11, CacheFacts
  <2> QED
    BY <1>12, <2>1 DEF Now
<1>19. ~ panicked'
  BY <1>9 DEF SeamsInv
<1>20. Sound(Now', land') /\ Written(Now') /\ DOMAIN land' = Kept(Now')
  BY <1>11, <1>12, <1>18
<1>21. Fits(land') /\ \A d \in DOMAIN land' \cap Again : land'[d] = Alloc(d)
  BY <1>12, <1>16, <1>17
<1> QED
  BY <1>19, <1>20, <1>21 DEF SeamsInv

LEMMA SoundEmpty ==
    ASSUME NEW L, NEW f \in Shelves(L)
    PROVE  Sound([cache |-> << >>, files |-> f], L)
<1> DEFINE q == << >>
<1>1. q \in Seq(Entries(L)) /\ Len(q) = 0
  OBVIOUS
<1> HIDE DEF q
<1>2. 1 .. Len(q) = {}
  BY <1>1
<1>3. Sound([cache |-> q, files |-> f], L)
  BY <1>1, <1>2, SoundMade
<1> QED
  BY <1>3 DEF q

LEMMA InitStep == SeamsInit => SeamsInv
<1> SUFFICES ASSUME SeamsInit PROVE SeamsInv
  OBVIOUS
<1>1. cache = << >> /\ stored = << >> /\ land = << >> /\ ~ panicked
  BY DEF SeamsInit
<1>2. /\ DOMAIN << >> = {} /\ << >> \in Seq(Entries(land)) /\ Len(<< >>) = 0
      /\ << >> = [d \in DOMAIN << >> |-> << >>[d]]
  OBVIOUS
<1>3. << >> \in Shelves(land)
  <2>1. << >> = [d \in {} |-> land[d]]
    BY <1>2
  <2> QED
    BY <2>1 DEF Shelves
<1>4. Sound([cache |-> << >>, files |-> << >>], land)
  BY <1>3, SoundEmpty
<1>5. Now = [cache |-> << >>, files |-> << >>]
  BY <1>1 DEF Now
<1>6. Written(Now) /\ Kept(Now) = {}
  BY <1>2, <1>5 DEF Written, Kept, Cached, Has
<1>7. Fits(land)
  BY <1>1, <1>2 DEF Fits
<1> QED
  BY <1>1, <1>2, <1>4, <1>5, <1>6, <1>7 DEF SeamsInv

(* The cache is empty, and the files are f.                                *)
LEMMA EmptiedStep ==
    ASSUME SeamsInv, NEW f \in Shelves(land), NEW losing \in BOOLEAN,
           Become([cache |-> << >>, files |-> f], land, losing),
           ~losing => DOMAIN f = DOMAIN land, ~ panicked'
    PROVE  SeamsInv'
<1> DEFINE st == [cache |-> << >>, files |-> f]
           M == Left(st, land)
<1>1. /\ DOMAIN land \subseteq Chunks /\ Fits(land)
      /\ \A d \in DOMAIN land \cap Again : land[d] = Alloc(d)
  BY DEF SeamsInv, Fits
<1>2. DOMAIN << >> = {} /\ << >> \in Seq(Entries(land)) /\ Len(<< >>) = 0
  OBVIOUS
<1>3. Sound(st, land)
  BY SoundEmpty
<1>4. DOMAIN f \subseteq DOMAIN land
  BY ShelfFacts
<1>5. Kept(st) = DOMAIN f
  BY <1>1, <1>2, <1>4 DEF Kept, Cached, Has
<1>6. Written(st)
  BY <1>2 DEF Written
<1>7. cache' = st.cache /\ stored' = st.files /\ land' = IF losing THEN M ELSE land
  BY DEF Become, Left
<1>8. Now' = st
  BY <1>7 DEF Now
<1> HIDE DEF st
<1>9. Sound(st, M) /\ DOMAIN M = Kept(st)
  <2> HIDE DEF M
  <2> QED
    BY <1>1, <1>3, <1>4, <1>5, LessSound DEF M
<1>10. Fits(M) /\ \A d \in DOMAIN M \cap Again : M[d] = Alloc(d)
  <2> HIDE DEF M
  <2> QED
    BY <1>1, LessFits DEF M
<1> HIDE DEF M
<1>11. Sound(Now', land') /\ Written(Now') /\ DOMAIN land' = Kept(Now')
  BY <1>3, <1>5, <1>6, <1>7, <1>8, <1>9
<1>12. Fits(land') /\ \A d \in DOMAIN land' \cap Again : land'[d] = Alloc(d)
  BY <1>1, <1>7, <1>10
<1> QED
  BY <1>11, <1>12 DEF SeamsInv

LEMMA RestartStep ==
    ASSUME SeamsInv, NEW full \in BOOLEAN, Restart(full)
    PROVE  SeamsInv'
<1> DEFINE dirty == {c \in Chunks : Cached(Now, c) /\ Now.cache[Index(Now, c)].dirty}
           D == IF full THEN DOMAIN stored \ dirty ELSE DOMAIN stored \cup dirty
           f == [c \in D |-> IF c \in dirty THEN Summ(Now, c) ELSE stored[c]]
<1>1. Sound(Now, land) /\ Written(Now) /\ DOMAIN land = Kept(Now) /\ DOMAIN land \subseteq Chunks
  BY DEF SeamsInv, Fits
<1>2. Now.files = stored
  BY DEF Now
<1>3. Emptied(Now, full) = [cache |-> << >>, files |-> f]
  BY <1>2 DEF Emptied
<1>4. \A c \in dirty : c \in DOMAIN land /\ Summ(Now, c) = land[c]
  BY <1>1, IndexFacts
<1>5. \A c \in DOMAIN stored : c \in DOMAIN land /\ stored[c] = land[c]
  BY <1>1, <1>2, CacheFacts
<1>6. D \subseteq DOMAIN land
  BY <1>4, <1>5
<1>7. ~full => D = DOMAIN land
  <2> SUFFICES ASSUME ~full, NEW c \in DOMAIN land, c \notin DOMAIN stored PROVE c \in dirty
    BY <1>6
  <2>1. Cached(Now, c)
    BY <1>1, <1>2 DEF Kept, Has
  <2>2. Index(Now, c) \in DOMAIN Now.cache /\ Now.cache[Index(Now, c)].pos = c
    BY <2>1 DEF Cached, Index
  <2>3. Now.cache[Index(Now, c)].dirty
    BY <1>1, <1>2, <2>2 DEF Written, Has
  <2> QED
    BY <1>1, <2>1, <2>3
<1> HIDE DEF dirty, D
<1>8. f = [c \in D |-> land[c]]
  BY <1>4, <1>5, <1>6 DEF D
<1>9. f \in Shelves(land) /\ DOMAIN f = D
  BY <1>6, <1>8 DEF Shelves
<1> HIDE DEF f
<1>10. Become([cache |-> << >>, files |-> f], land, full) /\ ~ panicked'
  BY <1>3 DEF Restart
<1> QED
  BY <1>7, <1>9, <1>10, EmptiedStep

LEMMA CrashStep ==
    ASSUME SeamsInv, Crash
    PROVE  SeamsInv'
<1>1. Sound(Now, land) /\ Now.files = stored
  BY DEF SeamsInv, Now
<1>2. stored \in Shelves(land)
  BY <1>1, CacheFacts
<1>3. Become([cache |-> << >>, files |-> stored], land, TRUE) /\ ~ panicked'
  BY DEF Crash
<1> QED
  BY <1>2, <1>3, EmptiedStep

LEMMA StutterStep == SeamsInv /\ UNCHANGED seamsVars => SeamsInv'
<1> SUFFICES ASSUME SeamsInv, UNCHANGED seamsVars PROVE SeamsInv'
  OBVIOUS
<1>1. Now' = Now /\ land' = land /\ panicked' = panicked
  BY DEF seamsVars, Now
<1> QED
  BY <1>1 DEF SeamsInv

(* All copies of a summary are alike, and the chunks fit, at any time. *)
THEOREM SeamsInvHolds == SeamsSpec => []SeamsInv
<1>1. SeamsInit => SeamsInv
  BY InitStep
<1>2. SeamsInv /\ [SeamsNext]_seamsVars => SeamsInv'
  <2> SUFFICES ASSUME SeamsInv, [SeamsNext]_seamsVars PROVE SeamsInv'
    OBVIOUS
  <2>1. ASSUME NEW c \in Chunks, NEW full \in BOOLEAN, Generate(c, full) PROVE SeamsInv'
    BY <2>1, GenerateStep
  <2>2. ASSUME NEW full \in BOOLEAN, Restart(full) PROVE SeamsInv'
    BY <2>2, RestartStep
  <2>3. CASE Crash
    BY <2>3, CrashStep
  <2>4. CASE UNCHANGED seamsVars
    BY <2>4, StutterStep
  <2> QED
    BY <2>1, <2>2, <2>3, <2>4 DEF SeamsNext
<1> QED
  BY <1>1, <1>2, PTL DEF SeamsSpec

LEMMA FitsAgree == Fits(land) => SeamsAgree
<1> SUFFICES ASSUME Fits(land), NEW c \in DOMAIN land, NEW d \in DOMAIN land,
                    NEW v \in On[c] \cap On[d]
             PROVE  Key(land[c], v) = Key(land[d], v)
  BY DEF SeamsAgree
<1>1. v \in DOMAIN land[c].height /\ v \in DOMAIN land[d].height
  BY DEF Fits, Proper
<1> QED
  BY <1>1 DEF Fits, Agree

LEMMA FitsTrees == Fits(land) => TreesFit
<1> SUFFICES ASSUME Fits(land), NEW c \in DOMAIN land, NEW d \in DOMAIN land,
                    NEW t \in land[c].trees
             PROVE  /\ \A v \in t.foot \cap On[d] :
                            Step(land[d].height[v]) = Step(land[c].height[t.at])
                    /\ \A u \in land[d].trees \ {t} : Apart(t, u)
  BY DEF TreesFit
<1>1. Agree(land[c], land[d])
  BY DEF Fits
<1>2. ASSUME NEW v \in t.foot \cap On[d]
      PROVE  Step(land[d].height[v]) = Step(land[c].height[t.at])
  <2>1. v \in DOMAIN land[d].height
    BY DEF Fits, Proper
  <2>2. Claim(land[d], v, Step(land[d].height[v]))
    BY <2>1 DEF Claim
  <2>3. Claim(land[c], v, Step(land[c].height[t.at]))
    BY DEF Claim
  <2> QED
    BY <1>1, <2>2, <2>3 DEF Agree
<1>3. ASSUME NEW u \in land[d].trees \ {t} PROVE Apart(t, u)
  BY <1>1 DEF Agree
<1> QED
  BY <1>2, <1>3

(* However chunks are generated, one after another, two of them show the   *)
(* same at the vertices they share.                                        *)
THEOREM SeamsAgreeHolds == SeamsSpec => []SeamsAgree
<1>1. SeamsInv => SeamsAgree
  BY FitsAgree DEF SeamsInv
<1> QED
  BY <1>1, SeamsInvHolds, PTL

(* A tree stands on level ground in all the chunks it reaches into, and    *)
(* keeps its distance from the others.                                     *)
THEOREM TreesFitHolds == SeamsSpec => []TreesFit
<1>1. SeamsInv => TreesFit
  BY FitsTrees DEF SeamsInv
<1> QED
  BY <1>1, SeamsInvHolds, PTL

(* An entrance leads into a cave. *)
THEOREM EntranceOpensHolds == SeamsSpec => []EntranceOpens
<1>1. SeamsInv => EntranceOpens
  BY DEF SeamsInv, Fits, Proper, EntranceOpens
<1> QED
  BY <1>1, SeamsInvHolds, PTL

(* A summary that was loaded is still in the cache when it is looked for,  *)
(* if the cache has more room than there are chunks around one.            *)
THEOREM StillAroundHolds == SeamsSpec => []StillAround
<1>1. SeamsInv => StillAround
  BY DEF SeamsInv, StillAround
<1> QED
  BY <1>1, SeamsInvHolds, PTL
=============================================================================
