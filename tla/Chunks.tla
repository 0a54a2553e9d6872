------------------------------- MODULE Chunks --------------------------------
(***************************************************************************)
(* The reference counts of chunks.rs, with the provider of logic/chunks.rs *)
(* that loads and unloads chunks and planes for it.                        *)
(*                                                                         *)
(* A user retains a chunk; the chunk in turn retains the chunks near it,   *)
(* whose structures may reach into it, and its plane.  Three tables of     *)
(* counts have to agree, and the provider is called at each first and last *)
(* reference.  A count of 0 is an entry that is vacant.                    *)
(*                                                                         *)
(* The provider may fail.  Its errors are logged and otherwise ignored     *)
(* (warn_on_err), so that the counts go on as if it had succeeded.         *)
(***************************************************************************)
EXTENDS Integers, FiniteSets

CONSTANTS Planes,      \* the plane ids
          CPos,        \* the chunk positions of a plane
          Near,        \* the chunks a chunk retains, itself included
          Home,        \* the chunk at 0,0 of the plane with id 0
          MaxUsers     \* bound: users of one chunk

ASSUME ChunksAssumption ==
    /\ IsFiniteSet(CPos)
    /\ Near \in [CPos -> SUBSET CPos] /\ \A c \in CPos : c \in Near[c]
    /\ Home \in Planes \X CPos
    /\ MaxUsers \in Nat

VARIABLES
    user_ref_count, ref_count,   \* Lifecycle
    plane_ref_count,             \* Chunks
    planes,                      \* World: the planes loaded
    chunks,                      \* World: the chunks loaded, as <<plane, cpos>>
    failed,                      \* history: the provider's calls that have failed
    crashed                      \* the server has panicked

counts == <<user_ref_count, ref_count, plane_ref_count>>
vars   == <<counts, planes, chunks, failed, crashed>>

In(p, S) == {p} \X S

Init ==
    /\ user_ref_count  = [x \in Planes \X CPos |-> 0]
    /\ ref_count       = [x \in Planes \X CPos |-> 0]
    /\ plane_ref_count = [p \in Planes |-> 0]
    /\ planes = {} /\ chunks = {}
    /\ failed = {} /\ crashed = FALSE

(* get_plane_id, when the plane is not loaded.  Without the plane there is *)
(* no id to return.                                                        *)
OpenPlane(p) ==
    /\ ~crashed /\ p \notin planes
    /\ \/ planes' = planes \cup {p} /\ UNCHANGED <<failed, crashed>>
       \/ failed' = failed \cup {"load"} /\ crashed' = TRUE /\ UNCHANGED planes
    /\ UNCHANGED <<counts, chunks>>

-----------------------------------------------------------------------------
(* Adding and removing the references of chunk c of plane p.               *)

MutRetained(p, c) ==   \* only the chunk itself
    [ref_count EXCEPT ![<<p, c>>] = @ + 1]
Retained(p, c) ==
    [x \in Planes \X CPos |->
        IF x \in In(p, Near[c]) THEN ref_count[x] + 1 ELSE ref_count[x]]
Released(p, c) ==
    [x \in Planes \X CPos |->
        IF x \in In(p, Near[c]) THEN ref_count[x] - 1 ELSE ref_count[x]]

AddUser(p, c) ==
    /\ user_ref_count[<<p, c>>] \in 1 .. MaxUsers - 1
    /\ user_ref_count' = [user_ref_count EXCEPT ![<<p, c>>] = @ + 1]
    /\ UNCHANGED <<ref_count, plane_ref_count, planes, chunks, failed, crashed>>

(* The provider loads, from its file or by generating it, each chunk that  *)
(* is retained for the first time.  To clean up after a failure it takes   *)
(* the unfinished chunk out of its plane, or `Home' if it had not got as   *)
(* far as to give it a position (create_unchecked).                        *)
FirstUser(p, c) ==
    /\ user_ref_count[<<p, c>>] = 0 /\ MaxUsers > 0
    /\ user_ref_count' = [user_ref_count EXCEPT ![<<p, c>>] = 1]
    /\ ref_count' = Retained(p, c)
    /\ plane_ref_count' = [plane_ref_count EXCEPT ![p] = @ + 1]
    /\ LET missing == {x \in In(p, Near[c]) : ref_count[x] = 0}
       IN \E loaded \in SUBSET missing :
          \E lost \in SUBSET ((missing \ loaded) \cup {Home}) :
            /\ loaded = missing => lost = {}
            /\ chunks' = (chunks \cup loaded) \ lost
            /\ failed' = IF loaded = missing THEN failed ELSE failed \cup {"load"}
    /\ UNCHANGED <<planes, crashed>>

Load(p, c) == ~crashed /\ p \in planes /\ (AddUser(p, c) \/ FirstUser(p, c))

-----------------------------------------------------------------------------
(* Only who has loaded a chunk unloads it: release panics otherwise.       *)

DropUser(p, c) ==
    /\ user_ref_count[<<p, c>>] > 1
    /\ user_ref_count' = [user_ref_count EXCEPT ![<<p, c>>] = @ - 1]
    /\ UNCHANGED <<ref_count, plane_ref_count, planes, chunks, failed, crashed>>

MutUnneeded(p, c) == {x \in In(p, Near[c]) : ref_count[x] <= 2}
MutUnneededAlone(p, c) == {x \in In(p, {c}) : ref_count[x] = 1}
Unneeded(p, c) == {x \in In(p, Near[c]) : ref_count[x] = 1}

LastOfPlane(p) == plane_ref_count[p] = 1

(* The provider saves each chunk that nobody retains any more and removes  *)
(* it from the world; one that it cannot save stays.  With its last chunk  *)
(* the plane goes, in the same way.                                        *)
LastUser(p, c) ==
    /\ user_ref_count[<<p, c>>] = 1
    /\ Unneeded(p, c) \subseteq chunks
    /\ user_ref_count' = [user_ref_count EXCEPT ![<<p, c>>] = 0]
    /\ ref_count' = Released(p, c)
    /\ plane_ref_count' = [plane_ref_count EXCEPT ![p] = @ - 1]
    /\ \E kept \in SUBSET Unneeded(p, c), planeKept \in BOOLEAN :
        /\ planeKept \/ LastOfPlane(p)
        /\ planes' = IF planeKept THEN planes ELSE planes \ {p}
        /\ chunks' = IF planeKept THEN chunks \ (Unneeded(p, c) \ kept)
                                  ELSE chunks \ In(p, CPos)
        /\ failed' = IF kept = {} /\ (planeKept <=> ~LastOfPlane(p))
                     THEN failed ELSE failed \cup {"save"}
    /\ UNCHANGED crashed

(* save_terrain_chunk expects the chunk to be there. *)
LastUserOfLost(p, c) ==
    /\ user_ref_count[<<p, c>>] = 1
    /\ ~(Unneeded(p, c) \subseteq chunks)
    /\ crashed' = TRUE
    /\ UNCHANGED <<counts, planes, chunks, failed>>

Unload(p, c) ==
    ~crashed /\ (DropUser(p, c) \/ LastUser(p, c) \/ LastUserOfLost(p, c))

Next ==
    \/ \E p \in Planes : OpenPlane(p)
    \/ \E p \in Planes, c \in CPos : Load(p, c) \/ Unload(p, c)

Spec == Init /\ [][Next]_vars

-----------------------------------------------------------------------------

TypeOK ==
    /\ user_ref_count \in [Planes \X CPos -> Nat]
    /\ ref_count \in [Planes \X CPos -> Nat]
    /\ plane_ref_count \in [Planes -> Nat]
    /\ planes \subseteq Planes
    /\ chunks \subseteq Planes \X CPos
    /\ failed \subseteq {"load", "save"}
    /\ crashed \in BOOLEAN

(* The chunks of plane p that have users, and those among them that are    *)
(* near enough to retain chunk k.                                          *)
Used(p) == {c \in CPos : user_ref_count[<<p, c>>] > 0}
Retainers(p, k) == {c \in Used(p) : k \in Near[c]}

(* In whatever order overlapping views come and go, the internal counts    *)
(* are the number of distinct chunks in use that need a chunk, or a plane  *)
(* (Lifecycle::retain and release, Fragment::load and unload).             *)
CountsAgree ==
    \A p \in Planes :
        /\ plane_ref_count[p] = Cardinality(Used(p))
        /\ \A k \in CPos : ref_count[<<p, k>>] = Cardinality(Retainers(p, k))

(* What a user relies on: as long as no load has failed, every chunk near  *)
(* one in use is in the world, and the server does not panic on the way    *)
(* out, even if chunks could not be saved before.                          *)
RetainedIsLoaded ==
    "load" \notin failed =>
        /\ ~crashed
        /\ \A x \in Planes \X CPos : ref_count[x] > 0 => x \in chunks

(* And what the server relies on: a chunk or plane that is not in use does *)
(* not stay in memory unless it could not be saved.                        *)
NoLeak ==
    "save" \notin failed =>
        \A x \in chunks : ref_count[x] > 0

(* A plane that is gone has left nothing behind: its id may soon be        *)
(* another plane's (unload, StableIdMap).                                  *)
PlaneGoneClean ==
    \A p \in Planes \ planes : \A c \in CPos :
        /\ plane_ref_count[p] = 0
        /\ user_ref_count[<<p, c>>] = 0 /\ ref_count[<<p, c>>] = 0
        /\ <<p, c>> \notin chunks
=============================================================================
