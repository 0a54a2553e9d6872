--------------------------- MODULE Session_proofs ----------------------------
(***************************************************************************)
(* Theorems about Session, for any number of connections, names and        *)
(* commands and pipes of any length.                                       *)
(***************************************************************************)
EXTENDS Session, FiniteSetTheorems, SequenceTheorems, WellFoundedInduction, TLAPS

USE CidsAssumption

(* The engine's state, as its handlers pass it from one to the next.       *)

IsServer(s) ==
    s \in [clients : {s.clients}, wire_map : {s.wire_map}, name_map : {s.name_map},
           world : {s.world}, files : {s.files}, from : {s.from},
           unsaved : {s.unsaved}, panicked : {s.panicked}]

States == {"none", "latest", "outdated", "broken"}

Types(s) ==
    /\ IsServer(s)
    /\ DOMAIN s.clients \cup DOMAIN s.world \subseteq Cids
    /\ s.clients \in [DOMAIN s.clients -> [wire : Wires, name : Names]]
    /\ s.world \in [DOMAIN s.world -> [name : Names, latest : BOOLEAN]]
    /\ DOMAIN s.wire_map \subseteq Wires /\ s.wire_map \in [DOMAIN s.wire_map -> Cids]
    /\ DOMAIN s.name_map \subseteq Names /\ s.name_map \in [DOMAIN s.name_map -> Cids]
    /\ s.files \in [Names -> States]
    /\ s.from \in Seq(Wires) /\ s.unsaved \subseteq Names /\ s.panicked \in BOOLEAN

Tables(s) ==
    /\ DOMAIN s.wire_map = {s.clients[c].wire : c \in DOMAIN s.clients}
    /\ DOMAIN s.name_map = {s.clients[c].name : c \in DOMAIN s.clients}
    /\ \A c \in DOMAIN s.clients :
        /\ s.wire_map[s.clients[c].wire] = c /\ s.name_map[s.clients[c].name] = c
        /\ c \in DOMAIN s.world /\ s.world[c].name = s.clients[c].name

Files(s, known) ==
    /\ \A c \in DOMAIN s.clients : s.files[s.clients[c].name] = "outdated"
    /\ \A c \in DOMAIN s.world \ DOMAIN s.clients : s.files[s.world[c].name] = "broken"
    /\ \A n \in Names :
        /\ s.files[n] # "none" => n \in known
        /\ s.files[n] = "outdated" => n \in s.unsaved \/ n \in DOMAIN s.name_map

Progress(s) == \A c \in DOMAIN s.world : s.world[c].latest \/ s.world[c].name \in s.unsaved

(* What holds of it between two handlers. *)
Good(s, known) == Types(s) /\ Tables(s) /\ Files(s, known) /\ Progress(s)

(* What is enough when it ends. *)
Ending(s, known) ==
    /\ Types(s)
    /\ \A n \in Names :
        /\ s.files[n] # "none" => n \in known
        /\ s.files[n] = "outdated" =>
                n \in s.unsaved \/ \E c \in DOMAIN s.world : s.world[c].name = n
    /\ s.panicked => \E n \in Names : s.files[n] = "broken"

-----------------------------------------------------------------------------
(* The inductive invariant.  The engine's tables and files are good as long *)
(* as it runs; afterwards there are only files.                            *)

Within(w, q) == \E k \in DOMAIN q : q[k] = w
Leaving(w, q) == \E k \in DOMAIN q : q[k].wire = w /\ q[k].kind = "remove"
Unshared(R) == \A p, q \in R : p[1] = q[1] \/ p[2] = q[2] => p = q

OtherTypes ==
    /\ DOMAIN conns \subseteq Wires /\ conns \in [DOMAIN conns -> Sides]
    /\ restarting \in BOOLEAN /\ commands \in 0 .. MaxCommands
    /\ pending_msgs \in Seq(Requests) /\ to \in Seq(Requests)
    /\ phase \in {"running", "gone", "exited"}
    /\ restart_file \subseteq Wires \X Names
    /\ accounts \subseteq Names /\ ghosts \subseteq Names /\ lost \subseteq Wires

Phases ==
    /\ restarting = suspended
    /\ phase = "running" => ~panicked /\ restart_file = {}
    /\ phase # "running" => /\ clients = Nobody /\ world = Nobody
                            /\ wire_map = Nobody /\ name_map = Nobody

(* A socket that closed has been reported, or is being answered for.       *)
ClosesReported ==
    \A w \in DOMAIN conns :
        ~conns[w].client => \/ Leaving(w, to) \/ Leaving(w, pending_msgs)
                            \/ Within(w, from) \/ w \in lost

(* A wire is still the connection it was when somebody logged in on it,    *)
(* and nothing on the way says otherwise.                                  *)
Held(w) == w \in DOMAIN conns /\ conns[w].backend /\ ~Within(w, from)
ClientsHeld == \A c \in DOMAIN clients : clients[c].name \notin ghosts => Held(clients[c].wire)

UnreadIsLost ==
    phase = "gone" => \A k \in DOMAIN to : to[k].wire \in Wires => to[k].wire \in lost

(* The restart file, until it is read.                                     *)
ToRestart ==
    /\ Unshared(restart_file)
    /\ phase = "gone" /\ restarting => \A p \in restart_file : p[2] \notin ghosts => Held(p[1])

IInv ==
    /\ OtherTypes /\ Good(Server, accounts) /\ PanicNeedsBrokenFile /\ Phases
    /\ ClosesReported /\ ClientsHeld /\ UnreadIsLost /\ ToRestart

-----------------------------------------------------------------------------
(* What the pieces of the handlers do.                                     *)

(* What has become of s when it is t. *)
Added(s, cid, w, n, t) ==
    /\ IsServer(t)
    /\ t.clients = With(s.clients, cid, [wire |-> w, name |-> n])
    /\ t.wire_map = With(s.wire_map, w, cid)
    /\ t.name_map = With(s.name_map, n, cid)
    /\ t.world = s.world /\ t.files = s.files /\ t.from = s.from
    /\ t.unsaved = s.unsaved /\ t.panicked = s.panicked

Saved(s, n, ok, t) ==
    /\ IsServer(t)
    /\ t.clients = s.clients /\ t.wire_map = s.wire_map /\ t.name_map = s.name_map
    /\ t.world = s.world /\ t.from = s.from /\ t.panicked = s.panicked
    /\ t.files = [s.files EXCEPT ![n] = IF ok THEN "latest" ELSE "broken"]
    /\ t.unsaved = IF ok THEN s.unsaved ELSE s.unsaved \cup {n}

Kicked(s, cid, ok, t) ==
    /\ IsServer(t)
    /\ t.clients = Without(s.clients, cid)
    /\ t.wire_map = Without(s.wire_map, s.clients[cid].wire)
    /\ t.name_map = Without(s.name_map, s.clients[cid].name)
    /\ t.world = IF ok THEN Without(s.world, cid) ELSE s.world
    /\ t.files = [s.files EXCEPT ![s.world[cid].name] = IF ok THEN "latest" ELSE "broken"]
    /\ t.unsaved = IF ok THEN s.unsaved ELSE s.unsaved \cup {s.world[cid].name}
    /\ t.from = Append(s.from, s.clients[cid].wire)
    /\ t.panicked = s.panicked

LEMMA AddClientIs ==
    ASSUME NEW s, IsServer(s), NEW cid, NEW w, NEW n
    PROVE  Added(s, cid, w, n, AddClient(s, cid, w, n))
BY DEF AddClient, Added, IsServer

LEMMA SaveClientIs ==
    ASSUME NEW s, IsServer(s), NEW n, NEW ok
    PROVE  Saved(s, n, ok, SaveClient(s, n, ok))
BY DEF SaveClient, Saved, IsServer

LEMMA KickClientIs ==
    ASSUME NEW s, IsServer(s), NEW cid \in DOMAIN s.clients, NEW ok
    PROVE  Kicked(s, cid, ok, KickClient(s, cid, ok))
<1> DEFINE r == RemoveClient(s, cid)
           v == SaveClient(r, s.world[cid].name, ok)
           l == IF ok THEN [v EXCEPT !.world = Without(@, cid)] ELSE v
           t == [l EXCEPT !.from = Append(@, s.clients[cid].wire)]
<1>1. /\ IsServer(r)
      /\ r.clients = Without(s.clients, cid)
      /\ r.wire_map = Without(s.wire_map, s.clients[cid].wire)
      /\ r.name_map = Without(s.name_map, s.clients[cid].name)
      /\ r.world = s.world /\ r.files = s.files /\ r.from = s.from
      /\ r.unsaved = s.unsaved /\ r.panicked = s.panicked
  BY DEF RemoveClient, IsServer
<1> HIDE DEF r
<1>2. Saved(r, s.world[cid].name, ok, v)
  BY <1>1, SaveClientIs
<1> HIDE DEF v
<1>3. /\ IsServer(l)
      /\ l.clients = v.clients /\ l.wire_map = v.wire_map /\ l.name_map = v.name_map
      /\ l.world = IF ok THEN Without(v.world, cid) ELSE v.world
      /\ l.from = v.from /\ l.panicked = v.panicked
      /\ l.files = v.files /\ l.unsaved = v.unsaved
  BY <1>2 DEF IsServer, Saved
<1>4. Logout(s, cid, ok) = l
  BY DEF Logout, r, v
<1> HIDE DEF l
<1>5. KickClient(s, cid, ok) = t
  BY <1>4 DEF KickClient, WireClosed
<1>6. /\ IsServer(t)
      /\ t.clients = l.clients /\ t.wire_map = l.wire_map /\ t.name_map = l.name_map
      /\ t.world = l.world /\ t.panicked = l.panicked
      /\ t.files = l.files /\ t.unsaved = l.unsaved
      /\ t.from = Append(l.from, s.clients[cid].wire)
  BY <1>3 DEF IsServer
<1> HIDE DEF t
<1>7. Kicked(s, cid, ok, t)
  BY <1>1, <1>2, <1>3, <1>6 DEF Saved, Kicked
<1> QED
  BY <1>5, <1>7

-----------------------------------------------------------------------------
(* The handlers keep what is good.                                         *)

(* Wires and names are not shared.                                         *)
LEMMA NotShared ==
    ASSUME NEW s, Tables(s), NEW c \in DOMAIN s.clients, NEW d \in DOMAIN s.clients, c # d
    PROVE  s.clients[c].wire # s.clients[d].wire /\ s.clients[c].name # s.clients[d].name
BY DEF Tables

LEMMA KickGood ==
    ASSUME NEW s, NEW known, Good(s, known), NEW cid \in DOMAIN s.clients, NEW ok \in BOOLEAN
    PROVE  Good(KickClient(s, cid, ok), known)
<1> DEFINE t == KickClient(s, cid, ok)
           n == s.clients[cid].name
           w == s.clients[cid].wire
<1>1. /\ Types(s) /\ Tables(s) /\ Files(s, known) /\ Progress(s) /\ IsServer(s)
      /\ Kicked(s, cid, ok, t)
  BY KickClientIs DEF Good, Types
<1> HIDE DEF t
<1>2. /\ cid \in DOMAIN s.world /\ s.world[cid].name = n /\ n \in Names /\ w \in Wires
      /\ cid \in Cids
  BY <1>1 DEF Types, Tables
<1> HIDE DEF n, w
<1>3. Types(t)
  <2>1. t.clients = Without(s.clients, cid) /\ DOMAIN t.clients = DOMAIN s.clients \ {cid}
    BY <1>1 DEF Kicked, Without
  <2>2. t.clients \in [DOMAIN t.clients -> [wire : Wires, name : Names]]
    BY <1>1, <2>1 DEF Types, Without
  <2>3. /\ DOMAIN t.world \subseteq DOMAIN s.world
        /\ t.world \in [DOMAIN t.world -> [name : Names, latest : BOOLEAN]]
    BY <1>1 DEF Types, Kicked, Without
  <2>4. DOMAIN t.wire_map \subseteq Wires /\ t.wire_map \in [DOMAIN t.wire_map -> Cids]
    BY <1>1 DEF Types, Kicked, Without
  <2>5. DOMAIN t.name_map \subseteq Names /\ t.name_map \in [DOMAIN t.name_map -> Cids]
    BY <1>1 DEF Types, Kicked, Without
  <2>6. t.files \in [Names -> States] /\ t.unsaved \subseteq Names /\ t.panicked \in BOOLEAN
    BY <1>1, <1>2 DEF Types, Kicked, States
  <2>7. t.from \in Seq(Wires)
    BY <1>1, <1>2 DEF Types, Kicked, w
  <2> QED
    BY <1>1, <2>1, <2>2, <2>3, <2>4, <2>5, <2>6, <2>7 DEF Types, Kicked
<1>4. /\ DOMAIN t.clients = DOMAIN s.clients \ {cid}
      /\ \A c \in DOMAIN t.clients : t.clients[c] = s.clients[c]
      /\ DOMAIN t.wire_map = DOMAIN s.wire_map \ {w}
      /\ \A x \in DOMAIN t.wire_map : t.wire_map[x] = s.wire_map[x]
      /\ DOMAIN t.name_map = DOMAIN s.name_map \ {n}
      /\ \A x \in DOMAIN t.name_map : t.name_map[x] = s.name_map[x]
  BY <1>1 DEF Kicked, Without, n, w
<1>5. /\ DOMAIN t.world = IF ok THEN DOMAIN s.world \ {cid} ELSE DOMAIN s.world
      /\ \A c \in DOMAIN t.world : t.world[c] = s.world[c]
  BY <1>1 DEF Kicked, Without
<1>6. /\ \A x \in Names : t.files[x] = IF x # n THEN s.files[x]
                                       ELSE IF ok THEN "latest" ELSE "broken"
      /\ t.unsaved = IF ok THEN s.unsaved ELSE s.unsaved \cup {n}
  BY <1>1, <1>2 DEF Kicked, Types
<1>7. \A c \in DOMAIN s.clients \ {cid} : /\ s.clients[c].wire # w /\ s.clients[c].name # n
                                          /\ s.clients[c].name \in Names
  BY <1>1, NotShared DEF w, n, Types
<1>8. Tables(t)
  <2>1. DOMAIN t.wire_map = {t.clients[c].wire : c \in DOMAIN t.clients}
    BY <1>1, <1>4, <1>7 DEF Tables, w
  <2>2. DOMAIN t.name_map = {t.clients[c].name : c \in DOMAIN t.clients}
    BY <1>1, <1>4, <1>7 DEF Tables, n
  <2>3. ASSUME NEW c \in DOMAIN t.clients
        PROVE  /\ t.wire_map[t.clients[c].wire] = c /\ t.name_map[t.clients[c].name] = c
               /\ c \in DOMAIN t.world /\ t.world[c].name = t.clients[c].name
    BY <1>1, <1>4, <1>5, <1>7, <2>1, <2>2 DEF Tables
  <2> QED
    BY <2>1, <2>2, <2>3 DEF Tables
<1>9. Files(t, known)
  <2>1. \A c \in DOMAIN t.clients : t.files[t.clients[c].name] = "outdated"
    BY <1>1, <1>4, <1>6, <1>7 DEF Files
  <2>2. \A c \in DOMAIN t.world \ DOMAIN t.clients : t.files[t.world[c].name] = "broken"
    <3>1. SUFFICES ASSUME NEW c \in DOMAIN t.world \ DOMAIN t.clients
                   PROVE  t.files[t.world[c].name] = "broken"
      OBVIOUS
    <3>2. CASE c = cid
      BY <1>2, <1>5, <1>6, <3>2
    <3>3. CASE c # cid
      <4>1. c \in DOMAIN s.world \ DOMAIN s.clients
        BY <1>4, <1>5, <3>3
      <4>2. s.files[s.world[c].name] = "broken" /\ s.world[c].name \in Names
        BY <1>1, <4>1 DEF Files, Types
      <4>3. s.files[n] = "outdated"
        BY <1>1 DEF Files, n
      <4> QED
        BY <1>5, <1>6, <3>1, <4>2, <4>3
    <3> QED
      BY <3>2, <3>3
  <2>3. ASSUME NEW x \in Names, t.files[x] # "none" PROVE x \in known
    <3>1. s.files[n] = "outdated"
      BY <1>1 DEF Files, n
    <3> QED
      BY <1>1, <1>2, <1>6, <2>3, <3>1 DEF Files
  <2>4. ASSUME NEW x \in Names, t.files[x] = "outdated"
        PROVE  x \in t.unsaved \/ x \in DOMAIN t.name_map
    BY <1>1, <1>4, <1>6, <2>4 DEF Files
  <2> QED
    BY <2>1, <2>2, <2>3, <2>4 DEF Files
<1>10. Progress(t)
  BY <1>1, <1>2, <1>5, <1>6 DEF Progress
<1> QED
  BY <1>3, <1>8, <1>9, <1>10 DEF Good, t

(* A wire that nobody is logged in on is answered for.                     *)
LEMMA WireClosedGood ==
    ASSUME NEW s, NEW known, Good(s, known), NEW w \in Wires
    PROVE  /\ Good(WireClosed(s, w), known)
           /\ WireClosed(s, w).clients = s.clients
           /\ WireClosed(s, w).panicked = s.panicked
           /\ WireClosed(s, w).from = Append(s.from, w)
<1> DEFINE t == WireClosed(s, w)
<1>1. /\ IsServer(t)
      /\ t.clients = s.clients /\ t.wire_map = s.wire_map /\ t.name_map = s.name_map
      /\ t.world = s.world /\ t.panicked = s.panicked
      /\ t.files = s.files /\ t.unsaved = s.unsaved /\ t.from = Append(s.from, w)
  BY DEF WireClosed, IsServer, Good, Types
<1> HIDE DEF t
<1>2. t.from \in Seq(Wires)
  BY <1>1 DEF Good, Types
<1>3. Types(t)
  BY <1>1, <1>2 DEF Good, Types
<1>4. Tables(t) /\ Files(t, known) /\ Progress(t)
  BY <1>1 DEF Good, Tables, Files, Progress
<1>5. Good(t, known)
  BY <1>3, <1>4 DEF Good
<1> QED
  BY <1>1, <1>5 DEF t

(* A set of natural numbers that is not empty has a least one.             *)
LEMMA LeastNat ==
    ASSUME NEW T, T \subseteq Nat, T # {}
    PROVE  \E x \in T : \A y \in T : x <= y
<1> DEFINE below == {0 .. x : x \in T}
           R == StrictSubsetOrdering(Nat)
<1>1. IsWellFoundedOn(R, FiniteSubsetsOf(Nat))
  BY FS_StrictSubsetOrderingWellFounded
<1>2. below \subseteq FiniteSubsetsOf(Nat) /\ below # {}
  <2>1. \A x \in T : 0 .. x \subseteq Nat /\ IsFiniteSet(0 .. x)
    BY FS_Interval
  <2>2. \A x \in T : 0 .. x \in FiniteSubsetsOf(Nat)
    BY <2>1 DEF FiniteSubsetsOf
  <2>3. PICK x \in T : TRUE
    OBVIOUS
  <2>4. 0 .. x \in below
    OBVIOUS
  <2>5. below \subseteq FiniteSubsetsOf(Nat)
    BY <2>2, Zenon
  <2> QED
    BY <2>4, <2>5
<1> HIDE DEF R
<1>3. PICK X \in below : \A Y \in below : ~ (<<Y, X>> \in R)
  BY <1>1, <1>2, WFMin
<1>4. PICK x \in T : X = 0 .. x
  OBVIOUS
<1>5. ASSUME NEW y \in T, y < x PROVE FALSE
  <2>1. 0 .. y \subseteq 0 .. x /\ x \in 0 .. x /\ x \notin 0 .. y
    BY <1>5
  <2>2. 0 .. y \in SUBSET Nat /\ 0 .. x \in SUBSET Nat /\ 0 .. y # 0 .. x
    BY <2>1
  <2>3. <<0 .. y, 0 .. x>> \in R
    BY <2>1, <2>2 DEF R, StrictSubsetOrdering
  <2> QED
    BY <1>3, <1>4, <2>3
<1> QED
  BY <1>5

(* IdMap gives out an id that is free.                                     *)
LEMMA FreeIdIsFree ==
    ASSUME NEW s, FreeIds(s) # {}
    PROVE  FreeId(s) \in Cids /\ FreeId(s) \notin DOMAIN s.world
<1>1. FreeIds(s) \subseteq Nat
  BY DEF FreeIds
<1>2. PICK i \in FreeIds(s) : \A j \in FreeIds(s) : i <= j
  BY <1>1, LeastNat
<1>3. FreeId(s) \in FreeIds(s)
  BY <1>2 DEF FreeId
<1> QED
  BY <1>3 DEF FreeIds

LEMMA GoodEnds ==
    ASSUME NEW s, NEW known, Good(s, known), ~s.panicked
    PROVE  Ending(s, known)
<1>1. Types(s) /\ Tables(s) /\ Files(s, known)
  BY DEF Good
<1>2. ASSUME NEW n \in Names, s.files[n] = "outdated"
      PROVE  n \in s.unsaved \/ \E c \in DOMAIN s.world : s.world[c].name = n
  BY <1>1, <1>2 DEF Files, Tables
<1> QED
  BY <1>1, <1>2 DEF Ending, Files

(* The clients of t are those of s and, it may be, a new one.              *)
Joined(s, w, n, t) ==
    \A c \in DOMAIN t.clients :
        \/ t.clients[c] = [wire |-> w, name |-> n]
        \/ c \in DOMAIN s.clients /\ t.clients[c] = s.clients[c]

LEMMA LoadGood ==
    ASSUME NEW s, NEW known, Good(s, known), ~s.panicked, FreeIds(s) # {},
           NEW w \in Wires, w \notin DOMAIN s.wire_map,
           NEW n \in Names, n \notin DOMAIN s.name_map, n \in known,
           NEW torn \in BOOLEAN
    PROVE  LET t == Load(s, w, n, torn) IN
           /\ Ending(t, known) /\ (~t.panicked => Good(t, known))
           /\ Joined(s, w, n, t) /\ t.from = s.from
<1> DEFINE t == Load(s, w, n, torn)
<1>1. Types(s) /\ Tables(s) /\ Files(s, known) /\ Progress(s) /\ IsServer(s)
  BY DEF Good, Types
<1>2. CASE s.files[n] = "none"
  <2>1. t = s
    BY <1>2 DEF Load
  <2> QED
    BY <2>1, GoodEnds DEF Joined
<1>3. CASE s.files[n] = "broken"
  <2>1. t = [s EXCEPT !.panicked = torn]
    BY <1>3 DEF Load
  <2> HIDE DEF t
  <2>2. /\ IsServer(t)
        /\ t.clients = s.clients /\ t.wire_map = s.wire_map /\ t.name_map = s.name_map
        /\ t.world = s.world /\ t.files = s.files /\ t.from = s.from
        /\ t.unsaved = s.unsaved /\ t.panicked = torn
    BY <1>1, <2>1 DEF IsServer
  <2>3. Types(t) /\ Tables(t) /\ Files(t, known) /\ Progress(t)
    BY <1>1, <2>2 DEF Types, Tables, Files, Progress
  <2>4. Ending(t, known)
    <3>1. Ending(s, known)
      BY GoodEnds
    <3> QED
      BY <1>3, <2>2, <2>3, <3>1 DEF Ending
  <2> QED
    BY <2>2, <2>3, <2>4 DEF Good, Joined, t
<1>4. CASE s.files[n] \in {"latest", "outdated"}
  <2> DEFINE cid == FreeId(s)
             a == AddClient(s, cid, w, n)
             l == s.files[n] = "latest"
  <2>1. cid \in Cids /\ cid \notin DOMAIN s.world
    BY FreeIdIsFree
  <2>2. t = [a EXCEPT !.world = With(@, cid, [name |-> n, latest |-> l]), !.files[n] = "outdated"]
    BY <1>4 DEF Load
  <2>3. Added(s, cid, w, n, a)
    BY <1>1, AddClientIs
  <2> HIDE DEF t, cid, a
  <2>4. /\ IsServer(t)
        /\ t.clients = a.clients /\ t.wire_map = a.wire_map /\ t.name_map = a.name_map
        /\ t.world = With(a.world, cid, [name |-> n, latest |-> l])
        /\ t.files = [a.files EXCEPT ![n] = "outdated"] /\ t.from = a.from
        /\ t.unsaved = a.unsaved /\ t.panicked = a.panicked
    BY <2>2, <2>3 DEF IsServer, Added
  <2>5. /\ t.clients = With(s.clients, cid, [wire |-> w, name |-> n])
        /\ t.wire_map = With(s.wire_map, w, cid) /\ t.name_map = With(s.name_map, n, cid)
        /\ t.world = With(s.world, cid, [name |-> n, latest |-> l])
        /\ t.files = [s.files EXCEPT ![n] = "outdated"] /\ t.from = s.from
        /\ t.unsaved = s.unsaved /\ t.panicked = FALSE
    BY <1>1, <2>3, <2>4 DEF Added, Types
  <2> HIDE DEF l
  <2>6. cid \notin DOMAIN s.clients
    BY <1>1, <2>1 DEF Tables
  <2>7. /\ DOMAIN t.clients = DOMAIN s.clients \cup {cid}
        /\ t.clients[cid] = [wire |-> w, name |-> n]
        /\ \A c \in DOMAIN s.clients : t.clients[c] = s.clients[c]
    BY <2>5, <2>6 DEF With
  <2>8. /\ DOMAIN t.wire_map = DOMAIN s.wire_map \cup {w} /\ t.wire_map[w] = cid
        /\ \A x \in DOMAIN s.wire_map : t.wire_map[x] = s.wire_map[x]
        /\ DOMAIN t.name_map = DOMAIN s.name_map \cup {n} /\ t.name_map[n] = cid
        /\ \A x \in DOMAIN s.name_map : t.name_map[x] = s.name_map[x]
    BY <2>5 DEF With
  <2>9. /\ DOMAIN t.world = DOMAIN s.world \cup {cid}
        /\ t.world[cid] = [name |-> n, latest |-> l]
        /\ \A c \in DOMAIN s.world : t.world[c] = s.world[c]
    BY <2>1, <2>5 DEF With
  <2>10. \A x \in Names : t.files[x] = IF x = n THEN "outdated" ELSE s.files[x]
    BY <1>1, <2>5 DEF Types
  <2>11. \A c \in DOMAIN s.clients : /\ s.clients[c].name # n /\ s.clients[c].wire # w
                                     /\ s.clients[c].name \in DOMAIN s.name_map
                                     /\ s.clients[c].wire \in DOMAIN s.wire_map
                                     /\ s.clients[c].name \in Names
    BY <1>1 DEF Tables, Types
  <2>12. Types(t)
    <3>1. t.clients \in [DOMAIN t.clients -> [wire : Wires, name : Names]]
      BY <1>1, <2>5, <2>7 DEF Types, With
    <3>2. t.world \in [DOMAIN t.world -> [name : Names, latest : BOOLEAN]]
      <4>1. [name |-> n, latest |-> l] \in [name : Names, latest : BOOLEAN]
        BY DEF l
      <4> QED
        BY <1>1, <2>5, <2>9, <4>1 DEF Types, With
    <3>3. t.wire_map \in [DOMAIN t.wire_map -> Cids] /\ DOMAIN t.wire_map \subseteq Wires
      BY <1>1, <2>1, <2>5, <2>8 DEF Types, With
    <3>4. t.name_map \in [DOMAIN t.name_map -> Cids] /\ DOMAIN t.name_map \subseteq Names
      BY <1>1, <2>1, <2>5, <2>8 DEF Types, With
    <3>5. t.files \in [Names -> States]
      BY <1>1, <2>5 DEF Types, States
    <3>6. DOMAIN t.clients \cup DOMAIN t.world \subseteq Cids
      BY <1>1, <2>1, <2>7, <2>9 DEF Types
    <3> QED
      BY <1>1, <2>4, <2>5, <3>1, <3>2, <3>3, <3>4, <3>5, <3>6 DEF Types
  <2>13. Tables(t)
    <3>1. DOMAIN t.wire_map = {t.clients[c].wire : c \in DOMAIN t.clients}
      BY <1>1, <2>7, <2>8 DEF Tables
    <3>2. DOMAIN t.name_map = {t.clients[c].name : c \in DOMAIN t.clients}
      BY <1>1, <2>7, <2>8 DEF Tables
    <3>3. ASSUME NEW c \in DOMAIN s.clients
          PROVE  /\ t.wire_map[t.clients[c].wire] = c /\ t.name_map[t.clients[c].name] = c
                 /\ c \in DOMAIN t.world /\ t.world[c].name = t.clients[c].name
      BY <1>1, <2>7, <2>8, <2>9, <2>11 DEF Tables
    <3>4. /\ t.wire_map[t.clients[cid].wire] = cid /\ t.name_map[t.clients[cid].name] = cid
          /\ cid \in DOMAIN t.world /\ t.world[cid].name = t.clients[cid].name
      BY <2>7, <2>8, <2>9
    <3> QED
      BY <2>7, <3>1, <3>2, <3>3, <3>4 DEF Tables
  <2>14. Files(t, known)
    <3>1. \A c \in DOMAIN t.clients : t.files[t.clients[c].name] = "outdated"
      BY <1>1, <2>7, <2>10, <2>11 DEF Files
    <3>2. \A c \in DOMAIN t.world \ DOMAIN t.clients : t.files[t.world[c].name] = "broken"
      <4>1. SUFFICES ASSUME NEW c \in DOMAIN s.world \ DOMAIN s.clients
                     PROVE  t.files[t.world[c].name] = "broken"
        BY <2>7, <2>9
      <4>2. s.files[s.world[c].name] = "broken" /\ s.world[c].name \in Names
        BY <1>1, <4>1 DEF Files, Types
      <4> QED
        BY <1>4, <2>9, <2>10, <4>2
    <3>3. \A x \in Names :
            /\ t.files[x] # "none" => x \in known
            /\ t.files[x] = "outdated" => x \in t.unsaved \/ x \in DOMAIN t.name_map
      BY <1>1, <2>5, <2>8, <2>10 DEF Files
    <3> QED
      BY <3>1, <3>2, <3>3 DEF Files
  <2>15. Progress(t)
    <3>1. l \/ n \in s.unsaved
      BY <1>1, <1>4 DEF Files, l
    <3> QED
      BY <1>1, <2>5, <2>9, <3>1 DEF Progress
  <2>16. Good(t, known) /\ ~t.panicked
    BY <2>5, <2>12, <2>13, <2>14, <2>15 DEF Good
  <2>17. Joined(s, w, n, t)
    BY <2>7 DEF Joined
  <2> QED
    BY <2>5, <2>16, <2>17, GoodEnds DEF t
<1>5. s.files[n] \in States
  BY <1>1 DEF Types
<1> QED
  BY <1>2, <1>3, <1>4, <1>5 DEF States

(* The clients of t were clients of s; x has been answered for, and is     *)
(* nobody's.                                                               *)
Stayed(s, t) == \A c \in DOMAIN t.clients : c \in DOMAIN s.clients /\ t.clients[c] = s.clients[c]
Answered(s, x, t) ==
    t.from = Append(s.from, x) /\ \A c \in DOMAIN t.clients : t.clients[c].wire # x

LEMMA KickStays ==
    ASSUME NEW s, NEW known, Good(s, known), NEW cid \in DOMAIN s.clients, NEW ok \in BOOLEAN
    PROVE  LET t == KickClient(s, cid, ok) IN
           /\ Stayed(s, t) /\ Answered(s, s.clients[cid].wire, t) /\ t.panicked = s.panicked
           /\ DOMAIN t.name_map = DOMAIN s.name_map \ {s.clients[cid].name}
           /\ DOMAIN t.wire_map \subseteq DOMAIN s.wire_map
           /\ DOMAIN t.world \subseteq DOMAIN s.world
<1> DEFINE t == KickClient(s, cid, ok)
<1>1. IsServer(s) /\ Kicked(s, cid, ok, t) /\ Tables(s)
  BY KickClientIs DEF Good, Types
<1> HIDE DEF t
<1>2. /\ DOMAIN t.clients = DOMAIN s.clients \ {cid}
      /\ \A c \in DOMAIN t.clients : t.clients[c] = s.clients[c]
  BY <1>1 DEF Kicked, Without
<1>3. \A c \in DOMAIN t.clients : t.clients[c].wire # s.clients[cid].wire
  BY <1>1, <1>2, NotShared
<1>4. Stayed(s, t) /\ Answered(s, s.clients[cid].wire, t) /\ t.panicked = s.panicked
  BY <1>1, <1>2, <1>3 DEF Stayed, Answered, Kicked
<1>5. /\ DOMAIN t.name_map = DOMAIN s.name_map \ {s.clients[cid].name}
      /\ DOMAIN t.wire_map \subseteq DOMAIN s.wire_map
      /\ DOMAIN t.world \subseteq DOMAIN s.world
  BY <1>1 DEF Kicked, Without
<1> QED
  BY <1>4, <1>5 DEF t

(* Who is looked up by name or by wire is a client.                        *)
LEMMA TablesLookUp ==
    ASSUME NEW s, Tables(s)
    PROVE  /\ \A n \in DOMAIN s.name_map : /\ s.name_map[n] \in DOMAIN s.clients
                                           /\ s.clients[s.name_map[n]].name = n
           /\ \A w \in DOMAIN s.wire_map : /\ s.wire_map[w] \in DOMAIN s.clients
                                           /\ s.clients[s.wire_map[w]].wire = w
BY DEF Tables

LEMMA LoginGood ==
    ASSUME NEW s, NEW known, Good(s, known), ~s.panicked, FreeIds(s) # {},
           NEW w \in Wires, w \notin DOMAIN s.wire_map,
           NEW n \in Names, n \in known, NEW ok \in BOOLEAN, NEW torn \in BOOLEAN
    PROVE  LET t == Login(s, w, n, ok, torn) IN
           /\ Ending(t, known) /\ (~t.panicked => Good(t, known))
           /\ Joined(s, w, n, t)
           /\ t.from = s.from \/ \E x \in Wires : x # w /\ Answered(s, x, t)
           /\ \A c \in DOMAIN t.clients : t.clients[c].name = n => t.clients[c].wire = w
<1>1. CASE n \notin DOMAIN s.name_map
  <2> DEFINE t == Load(s, w, n, torn)
  <2>1. Login(s, w, n, ok, torn) = t
    BY <1>1 DEF Login
  <2>2. /\ Ending(t, known) /\ (~t.panicked => Good(t, known))
        /\ Joined(s, w, n, t) /\ t.from = s.from
    BY <1>1, LoadGood
  <2> HIDE DEF t
  <2>3. \A c \in DOMAIN t.clients : t.clients[c].name = n => t.clients[c].wire = w
    BY <1>1, <2>2 DEF Joined, Good, Tables
  <2> QED
    BY <2>1, <2>2, <2>3
<1>2. CASE n \in DOMAIN s.name_map
  <2> DEFINE cid == s.name_map[n]
             x == s.clients[cid].wire
             k == KickClient(s, cid, ok)
             t == Load(k, w, n, torn)
  <2>1. Login(s, w, n, ok, torn) = t
    BY <1>2 DEF Login
  <2>2. Tables(s) /\ Types(s)
    BY DEF Good
  <2>3. cid \in DOMAIN s.clients /\ s.clients[cid].name = n
    BY <1>2, <2>2, TablesLookUp
  <2>4. x \in Wires /\ x \in DOMAIN s.wire_map
    BY <2>2, <2>3 DEF Types, Tables
  <2>5. Good(k, known)
    BY <2>3, KickGood
  <2>6. /\ Stayed(s, k) /\ Answered(s, x, k) /\ k.panicked = s.panicked
        /\ DOMAIN k.name_map = DOMAIN s.name_map \ {n}
        /\ DOMAIN k.wire_map \subseteq DOMAIN s.wire_map
        /\ DOMAIN k.world \subseteq DOMAIN s.world
    BY <2>3, KickStays
  <2> HIDE DEF k, x, cid
  <2>7. FreeIds(k) # {}
    BY <2>6 DEF FreeIds
  <2>8. /\ Ending(t, known) /\ (~t.panicked => Good(t, known))
        /\ Joined(k, w, n, t) /\ t.from = k.from
    BY <2>5, <2>6, <2>7, LoadGood
  <2> HIDE DEF t
  <2>9. Joined(s, w, n, t)
    BY <2>6, <2>8 DEF Joined, Stayed
  <2>10. \A c \in DOMAIN k.clients : k.clients[c].name # n
    BY <2>5, <2>6 DEF Good, Tables
  <2>11. x # w /\ Answered(s, x, t)
    BY <2>4, <2>6, <2>8 DEF Answered, Joined
  <2>12. \A c \in DOMAIN t.clients : t.clients[c].name = n => t.clients[c].wire = w
    BY <2>8, <2>10 DEF Joined
  <2> QED
    BY <2>1, <2>4, <2>8, <2>9, <2>11, <2>12
<1> QED
  BY <1>1, <1>2

(* Saving the client of a new player.                                      *)
Registered(s, n, ok) ==
    IF ok THEN SaveClient(s, n, ok)
    ELSE [SaveClient(s, n, ok) EXCEPT !.world =
                With(@, FreeId(s), [name |-> n, latest |-> TRUE])]

LEMMA RegisterGood ==
    ASSUME NEW s, NEW known, Good(s, known), FreeIds(s) # {},
           NEW n \in Names, n \notin known, NEW ok \in BOOLEAN
    PROVE  LET t == Registered(s, n, ok) IN
           /\ Good(t, known \cup {n})
           /\ t.clients = s.clients /\ t.from = s.from /\ t.panicked = s.panicked
<1> DEFINE v == SaveClient(s, n, ok)
           t == Registered(s, n, ok)
           cid == FreeId(s)
<1>1. Types(s) /\ Tables(s) /\ Files(s, known) /\ Progress(s) /\ IsServer(s)
  BY DEF Good, Types
<1>2. Saved(s, n, ok, v)
  BY <1>1, SaveClientIs
<1>3. cid \in Cids /\ cid \notin DOMAIN s.world
  BY FreeIdIsFree
<1>4. t = IF ok THEN v ELSE [v EXCEPT !.world = With(@, cid, [name |-> n, latest |-> TRUE])]
  BY DEF Registered
<1> HIDE DEF t, v, cid
<1>5. /\ IsServer(t)
      /\ t.clients = s.clients /\ t.wire_map = s.wire_map /\ t.name_map = s.name_map
      /\ t.world = IF ok THEN s.world ELSE With(s.world, cid, [name |-> n, latest |-> TRUE])
      /\ t.files = [s.files EXCEPT ![n] = IF ok THEN "latest" ELSE "broken"]
      /\ t.from = s.from /\ t.panicked = s.panicked
      /\ t.unsaved = IF ok THEN s.unsaved ELSE s.unsaved \cup {n}
  BY <1>2, <1>4 DEF IsServer, Saved
<1>6. \A x \in Names : t.files[x] = IF x # n THEN s.files[x]
                                   ELSE IF ok THEN "latest" ELSE "broken"
  BY <1>1, <1>5 DEF Types
<1>7. /\ DOMAIN t.world = IF ok THEN DOMAIN s.world ELSE DOMAIN s.world \cup {cid}
      /\ \A c \in DOMAIN s.world : t.world[c] = s.world[c]
      /\ ~ok => t.world[cid] = [name |-> n, latest |-> TRUE]
  BY <1>3, <1>5 DEF With
<1>8. s.files[n] = "none"
  BY <1>1 DEF Files
<1>9. Types(t)
  <2>1. t.world \in [DOMAIN t.world -> [name : Names, latest : BOOLEAN]]
    BY <1>1, <1>5, <1>7 DEF Types, With
  <2>2. t.files \in [Names -> States]
    BY <1>1, <1>5 DEF Types, States
  <2>3. DOMAIN t.clients \cup DOMAIN t.world \subseteq Cids
    BY <1>1, <1>3, <1>5, <1>7 DEF Types
  <2>4. t.unsaved \subseteq Names
    BY <1>1, <1>5 DEF Types
  <2> QED
    BY <1>1, <1>5, <2>1, <2>2, <2>3, <2>4 DEF Types
<1>14. /\ t.clients = s.clients /\ t.wire_map = s.wire_map /\ t.name_map = s.name_map
       /\ s.unsaved \subseteq t.unsaved
  BY <1>5
<1>15. DOMAIN s.world \subseteq DOMAIN t.world /\ DOMAIN t.world \subseteq DOMAIN s.world \cup {cid}
  BY <1>7
<1>16. cid \in DOMAIN t.world => cid \in DOMAIN s.world \/ t.world[cid].latest
  BY <1>7
<1>10. Tables(t)
  BY <1>1, <1>7, <1>14, <1>15 DEF Tables
<1>11. Files(t, known \cup {n})
  <2>1. \A c \in DOMAIN t.clients : t.files[t.clients[c].name] = "outdated"
    BY <1>1, <1>5, <1>6, <1>8 DEF Files, Types
  <2>2. \A c \in DOMAIN t.world \ DOMAIN t.clients : t.files[t.world[c].name] = "broken"
    <3>1. ASSUME NEW c \in DOMAIN s.world \ DOMAIN s.clients
          PROVE  t.files[t.world[c].name] = "broken"
      BY <1>1, <1>6, <1>7, <1>8, <3>1 DEF Files, Types
    <3>2. ~ok => t.files[t.world[cid].name] = "broken"
      BY <1>6, <1>7
    <3> QED
      BY <1>5, <1>7, <3>1, <3>2
  <2>3. \A x \in Names :
          /\ t.files[x] # "none" => x \in known \cup {n}
          /\ t.files[x] = "outdated" => x \in t.unsaved \/ x \in DOMAIN t.name_map
    BY <1>1, <1>5, <1>6 DEF Files
  <2> QED
    BY <2>1, <2>2, <2>3 DEF Files
<1>12. Progress(t)
  <2>1. ASSUME NEW c \in DOMAIN s.world PROVE t.world[c].latest \/ t.world[c].name \in t.unsaved
    BY <1>1, <1>7, <1>14 DEF Progress
  <2> QED
    BY <1>15, <1>16, <2>1 DEF Progress
<1>13. Good(t, known \cup {n})
  BY <1>9, <1>10, <1>11, <1>12 DEF Good
<1> QED
  BY <1>5, <1>13 DEF t

LEMMA ShutDownEnds ==
    ASSUME NEW s, NEW known, Good(s, known), ~s.panicked, NEW oks
    PROVE  Ending(ShutDown(s, oks), known) /\ ShutDown(s, oks).from = s.from
<1> DEFINE fails == {c \in DOMAIN s.world : c \notin DOMAIN s.clients \cap oks}
           saved == {c \in DOMAIN s.world : \A d \in fails : c < d}
           torn  == {c \in fails \cap DOMAIN s.clients : \A d \in fails : c <= d}
           Named(cs) == {s.world[c].name : c \in cs}
           fs == [n \in Names |-> CASE n \in Named(torn) -> "broken"
                                    [] n \in Named(saved) -> "latest"
                                    [] OTHER -> s.files[n]]
           wo == [c \in DOMAIN s.world \ saved |-> s.world[c]]
           t == ShutDown(s, oks)
<1>1. Types(s) /\ Tables(s) /\ Files(s, known) /\ IsServer(s)
  BY DEF Good, Types
<1>2. t = [s EXCEPT !.world = wo, !.files = fs, !.panicked = fails # {}]
  BY DEF ShutDown
<1>3. DOMAIN s.world \subseteq Nat
  BY <1>1 DEF Types
<1>4. fails \subseteq DOMAIN s.world /\ torn \subseteq fails \cap DOMAIN s.clients
  OBVIOUS
<1>5. saved \subseteq DOMAIN s.clients \ fails /\ saved \subseteq DOMAIN s.world
  BY <1>3
<1>6. \A c \in DOMAIN s.world \cap DOMAIN s.clients : s.world[c].name = s.clients[c].name
  BY <1>1 DEF Tables
<1>7. fails # {} => \E c \in fails : \A d \in fails : c <= d
  BY <1>3, <1>4, LeastNat
<1>8. \A c \in fails : (\A d \in fails : c <= d) => c \in torn \/ c \notin DOMAIN s.clients
  OBVIOUS
<1> HIDE DEF fails, saved, torn
<1>9. Named(torn) \cap Named(saved) = {}
  <2>1. ASSUME NEW c \in torn, NEW d \in saved PROVE s.world[c].name # s.world[d].name
    <3>1. c \in DOMAIN s.clients /\ d \in DOMAIN s.clients /\ c # d
      BY <1>4, <1>5
    <3> QED
      BY <1>1, <1>4, <1>5, <1>6, <3>1, NotShared
  <2> QED
    BY <2>1
<1>10. Named(torn) \subseteq Names /\ Named(saved) \subseteq Names
  BY <1>1, <1>4, <1>5 DEF Types
<1> HIDE DEF Named
<1>11. /\ \A n \in Named(torn) : fs[n] = "broken"
       /\ \A n \in Named(saved) : fs[n] = "latest"
       /\ \A n \in Names \ (Named(torn) \cup Named(saved)) : fs[n] = s.files[n]
       /\ fs \in [Names -> States]
  <2>1. \A n \in Names : s.files[n] \in States
    BY <1>1 DEF Types
  <2>2. \A n \in Names :
            (CASE n \in Named(torn) -> "broken" [] n \in Named(saved) -> "latest"
               [] OTHER -> s.files[n]) =
            IF n \in Named(torn) THEN "broken" ELSE IF n \in Named(saved) THEN "latest"
            ELSE s.files[n]
    BY <1>9
  <2> QED
    BY <1>9, <1>10, <2>1, <2>2 DEF States
<1>12. /\ DOMAIN wo = DOMAIN s.world \ saved
       /\ \A c \in DOMAIN wo : wo[c] = s.world[c]
       /\ wo \in [DOMAIN wo -> [name : Names, latest : BOOLEAN]]
  BY <1>1 DEF Types
<1> HIDE DEF fs, wo, t
<1>13. /\ IsServer(t)
       /\ t.clients = s.clients /\ t.wire_map = s.wire_map /\ t.name_map = s.name_map
       /\ t.world = wo /\ t.files = fs /\ t.from = s.from /\ t.unsaved = s.unsaved
       /\ t.panicked = (fails # {})
  BY <1>1, <1>2 DEF IsServer
<1>14. Types(t)
  BY <1>1, <1>11, <1>12, <1>13 DEF Types
<1>15. ASSUME NEW n \in Names, fs[n] # "none" PROVE n \in known
  <2>1. CASE n \in Named(torn) \cup Named(saved)
    <3>1. PICK c \in DOMAIN s.world : c \in DOMAIN s.clients /\ s.world[c].name = n
      BY <1>4, <1>5, <2>1 DEF Named
    <3>2. s.files[n] = "outdated"
      BY <1>1, <1>6, <3>1 DEF Files
    <3> QED
      BY <1>1, <3>2 DEF Files
  <2> QED
    BY <1>1, <1>11, <1>15, <2>1 DEF Files
<1>16. ASSUME NEW n \in Names, fs[n] = "outdated"
       PROVE  n \in s.unsaved \/ \E c \in DOMAIN wo : wo[c].name = n
  <2>1. n \notin Named(torn) /\ n \notin Named(saved) /\ s.files[n] = "outdated"
    BY <1>11, <1>16
  <2>2. SUFFICES ASSUME n \in DOMAIN s.name_map PROVE \E c \in DOMAIN wo : wo[c].name = n
    BY <1>1, <2>1 DEF Files
  <2>3. PICK c \in DOMAIN s.clients : s.clients[c].name = n
    BY <1>1, <2>2 DEF Tables
  <2>4. c \in DOMAIN s.world /\ s.world[c].name = n
    BY <1>1, <2>3 DEF Tables
  <2>5. c \notin saved
    BY <2>1, <2>4 DEF Named
  <2> QED
    BY <1>12, <2>4, <2>5
<1>17. ASSUME fails # {} PROVE \E n \in Names : fs[n] = "broken"
  <2>1. PICK c \in fails : \A d \in fails : c <= d
    BY <1>7, <1>17
  <2>2. s.world[c].name \in Names
    BY <1>1, <1>4 DEF Types
  <2>3. CASE c \in torn
    <3>1. s.world[c].name \in Named(torn)
      BY <2>3 DEF Named
    <3> QED
      BY <1>11, <2>2, <3>1
  <2>4. CASE c \notin DOMAIN s.clients
    <3> DEFINE n == s.world[c].name
    <3>1. s.files[n] = "broken"
      BY <1>1, <1>4, <2>4 DEF Files
    <3>2. n \notin Named(saved)
      <4>1. SUFFICES ASSUME NEW d \in saved, s.world[d].name = n PROVE FALSE
        BY DEF Named
      <4>2. s.files[s.world[d].name] = "outdated"
        BY <1>1, <1>5, <1>6 DEF Files
      <4> QED
        BY <3>1, <4>1, <4>2
    <3> QED
      BY <1>11, <2>2, <3>1, <3>2
  <2> QED
    BY <1>8, <2>1, <2>3, <2>4
<1>18. Ending(t, known)
  BY <1>13, <1>14, <1>15, <1>16, <1>17 DEF Ending
<1> QED
  BY <1>13, <1>18 DEF t

(* Who comes back after a restart.                                         *)
LEMMA BackGood ==
    ASSUME NEW s, NEW known, Ending(s, known), s.world = Nobody,
           Unshared(restart_file), restart_file \subseteq Wires \X Names,
           NEW torn \in BOOLEAN, NEW who \in Returning(s, torn)
    PROVE  LET t == [Back(s, who) EXCEPT !.panicked = Stuck(s, torn)] IN
           /\ Ending(t, known) /\ (~t.panicked => Good(t, known))
           /\ \A c \in DOMAIN t.clients :
                <<t.clients[c].wire, t.clients[c].name>> \in restart_file
           /\ t.from = s.from
<1> DEFINE cl == [c \in DOMAIN who |-> [wire |-> who[c][1], name |-> who[c][2]]]
           wm == [w \in {who[c][1] : c \in DOMAIN who} |->
                                CHOOSE c \in DOMAIN who : who[c][1] = w]
           nm == [n \in {who[c][2] : c \in DOMAIN who} |->
                                CHOOSE c \in DOMAIN who : who[c][2] = n]
           wo == [c \in DOMAIN who |-> [name |-> who[c][2],
                                        latest |-> s.files[who[c][2]] = "latest"]]
           fs == [n \in Names |-> IF \E c \in DOMAIN who : who[c][2] = n
                                  THEN "outdated" ELSE s.files[n]]
           t == [Back(s, who) EXCEPT !.panicked = Stuck(s, torn)]
<1>1. Types(s) /\ IsServer(s) /\ Stuck(s, torn) \in BOOLEAN
  BY DEF Ending, Types, Stuck
<1>2. /\ IsServer(t)
      /\ t.clients = cl /\ t.wire_map = wm /\ t.name_map = nm
      /\ t.world = wo /\ t.files = fs /\ t.from = s.from /\ t.unsaved = s.unsaved
      /\ t.panicked = Stuck(s, torn)
  <2> DEFINE b == Back(s, who)
  <2>1. b = [s EXCEPT !.clients = cl, !.wire_map = wm, !.name_map = nm, !.world = wo, !.files = fs]
    BY DEF Back
  <2> HIDE DEF b, cl, wm, nm, wo, fs
  <2>2. /\ IsServer(b)
        /\ b.clients = cl /\ b.wire_map = wm /\ b.name_map = nm
        /\ b.world = wo /\ b.files = fs /\ b.from = s.from /\ b.unsaved = s.unsaved
    BY <1>1, <2>1 DEF IsServer
  <2> QED
    BY <2>2 DEF IsServer, b
<1> HIDE DEF t
<1>3. /\ DOMAIN who \subseteq Cids
      /\ \A c \in DOMAIN who : who[c] \in Readable(s)
      /\ \A c, d \in DOMAIN who : who[c] = who[d] => c = d
  <2> HIDE DEF cl, wm, nm, wo, fs
  <2>1. PICK ids \in SUBSET Cids : who \in [ids -> Readable(s)]
    BY DEF Returning
  <2>2. \A c, d \in DOMAIN who : who[c] = who[d] => c = d
    BY Zenon DEF Returning
  <2> QED
    BY <2>1, <2>2
<1>4. \A c \in DOMAIN who : /\ who[c] \in restart_file /\ who[c][1] \in Wires /\ who[c][2] \in Names
                            /\ s.files[who[c][2]] \notin {"none", "broken"}
                            /\ <<who[c][1], who[c][2]>> = who[c]
  <2>1. Readable(s) \subseteq restart_file
    BY DEF Readable
  <2> QED
    BY <1>3, <2>1 DEF Readable
<1>5. \A c, d \in DOMAIN who : who[c][1] = who[d][1] \/ who[c][2] = who[d][2] => c = d
  BY <1>3, <1>4 DEF Unshared
<1>6. /\ DOMAIN wm = {who[c][1] : c \in DOMAIN who}
      /\ \A c \in DOMAIN who : wm[who[c][1]] = c
  <2>1. ASSUME NEW c \in DOMAIN who PROVE (CHOOSE d \in DOMAIN who : who[d][1] = who[c][1]) = c
    BY <1>5
  <2> QED
    BY <2>1
<1>7. /\ DOMAIN nm = {who[c][2] : c \in DOMAIN who}
      /\ \A c \in DOMAIN who : nm[who[c][2]] = c
  <2>1. ASSUME NEW c \in DOMAIN who PROVE (CHOOSE d \in DOMAIN who : who[d][2] = who[c][2]) = c
    BY <1>5
  <2> QED
    BY <2>1
<1>8. \A n \in Names : s.files[n] \in States
  BY <1>1 DEF Types
<1>9. Types(t)
  <2>1. cl \in [DOMAIN cl -> [wire : Wires, name : Names]] /\ DOMAIN cl = DOMAIN who
    BY <1>4
  <2>2. wo \in [DOMAIN wo -> [name : Names, latest : BOOLEAN]] /\ DOMAIN wo = DOMAIN who
    BY <1>4
  <2>3. DOMAIN wm \subseteq Wires /\ wm \in [DOMAIN wm -> Cids]
    <3>1. \A w \in DOMAIN wm : wm[w] \in Cids
      BY <1>3, <1>6
    <3>2. wm = [w \in DOMAIN wm |-> wm[w]]
      OBVIOUS
    <3> HIDE DEF wm
    <3>3. wm \in [DOMAIN wm -> Cids]
      BY <3>1, <3>2
    <3> QED
      BY <1>4, <1>6, <3>3
  <2>4. DOMAIN nm \subseteq Names /\ nm \in [DOMAIN nm -> Cids]
    <3>1. \A w \in DOMAIN nm : nm[w] \in Cids
      BY <1>3, <1>7
    <3>2. nm = [w \in DOMAIN nm |-> nm[w]]
      OBVIOUS
    <3> HIDE DEF nm
    <3>3. nm \in [DOMAIN nm -> Cids]
      BY <3>1, <3>2
    <3> QED
      BY <1>4, <1>7, <3>3
  <2>5. fs \in [Names -> States]
    BY <1>8 DEF States
  <2> HIDE DEF cl, wm, nm, wo, fs
  <2> QED
    BY <1>1, <1>2, <1>3, <2>1, <2>2, <2>3, <2>4, <2>5 DEF Types
<1>10. Tables(t)
  BY <1>2, <1>6, <1>7 DEF Tables
<1>11. /\ \A c \in DOMAIN who : fs[who[c][2]] = "outdated"
       /\ \A n \in Names : \/ fs[n] = s.files[n]
                           \/ /\ fs[n] = "outdated" /\ s.files[n] \notin {"none", "broken"}
                              /\ \E c \in DOMAIN who : who[c][2] = n
  BY <1>4
<1>12. \A n \in Names : /\ s.files[n] # "none" => n \in known
                        /\ s.files[n] = "outdated" => n \in s.unsaved
  BY DEF Ending, Nobody
<1>13. Files(t, known)
  <2>1. DOMAIN t.world = DOMAIN t.clients /\ DOMAIN t.clients = DOMAIN who
    BY <1>2
  <2>2. \A c \in DOMAIN who : t.clients[c].name = who[c][2]
    BY <1>2
  <2> HIDE DEF cl, wo, wm, fs, nm
  <2>3. t.files = fs /\ t.unsaved = s.unsaved /\ t.name_map = nm
    BY <1>2
  <2>4. \A n \in Names :
          /\ fs[n] # "none" => n \in known
          /\ fs[n] = "outdated" => n \in s.unsaved \/ n \in DOMAIN nm
    BY <1>7, <1>11, <1>12
  <2> QED
    BY <1>11, <2>1, <2>2, <2>3, <2>4 DEF Files
<1>14. Progress(t)
  <2>1. \A c \in DOMAIN who : \/ s.files[who[c][2]] = "latest" \/ who[c][2] \in s.unsaved
    BY <1>4, <1>8, <1>12 DEF States
  <2>2. /\ DOMAIN t.world = DOMAIN who /\ t.unsaved = s.unsaved
        /\ \A c \in DOMAIN who : /\ t.world[c].name = who[c][2]
                               /\ t.world[c].latest = (s.files[who[c][2]] = "latest")
    BY <1>2
  <2> HIDE DEF cl, wm, nm, wo, fs
  <2> QED
    BY <2>1, <2>2 DEF Progress
<1>15. Good(t, known)
  BY <1>9, <1>10, <1>13, <1>14 DEF Good
<1>16. Ending(t, known)
  <2>1. \A n \in Names :
          /\ t.files[n] # "none" => n \in known
          /\ t.files[n] = "outdated" =>
                n \in t.unsaved \/ \E c \in DOMAIN t.world : t.world[c].name = n
    <3>1. ASSUME NEW n \in Names, t.files[n] = "outdated"
          PROVE  n \in t.unsaved \/ \E c \in DOMAIN t.world : t.world[c].name = n
      <4>1. n \in t.unsaved \/ \E c \in DOMAIN who : who[c][2] = n
        BY <1>2, <1>11, <1>12, <3>1
      <4>2. \A c \in DOMAIN who : c \in DOMAIN t.world /\ t.world[c].name = who[c][2]
        BY <1>2
      <4> QED
        BY <4>1, <4>2
    <3> QED
      BY <1>13, <3>1 DEF Files
  <2>2. ASSUME Stuck(s, torn) PROVE \E n \in Names : t.files[n] = "broken"
    <3>1. PICK p \in restart_file : s.files[p[2]] = "broken"
      BY <2>2 DEF Stuck
    <3>2. p[2] \in Names
      OBVIOUS
    <3>3. fs[p[2]] = "broken"
      BY <1>11, <3>1, <3>2
    <3> QED
      BY <1>2, <3>2, <3>3
  <2> QED
    BY <1>2, <1>9, <2>1, <2>2 DEF Ending
<1>17. \A c \in DOMAIN t.clients : <<t.clients[c].wire, t.clients[c].name>> \in restart_file
  <2>1. /\ DOMAIN t.clients = DOMAIN who
        /\ \A c \in DOMAIN who : t.clients[c].wire = who[c][1] /\ t.clients[c].name = who[c][2]
    BY <1>2
  <2> HIDE DEF cl, wm, nm, wo, fs
  <2> QED
    BY <1>4, <2>1
<1> QED
  BY <1>2, <1>15, <1>16, <1>17 DEF t

-----------------------------------------------------------------------------
(* The steps of the engine.                                                *)

LEMMA SameGood ==
    ASSUME NEW s, NEW known, Good(s, known), NEW t, IsServer(t),
           t.clients = s.clients, t.wire_map = s.wire_map, t.name_map = s.name_map,
           t.world = s.world, t.files = s.files, t.from = s.from,
           t.unsaved = s.unsaved, t.panicked = s.panicked
    PROVE  Good(t, known)
BY DEF Good, Types, Tables, Files, Progress

LEMMA ServerIs ==
    /\ IsServer(Server)
    /\ Server.clients = clients /\ Server.wire_map = wire_map /\ Server.name_map = name_map
    /\ Server.world = world /\ Server.files = files /\ Server.from = from
    /\ Server.unsaved = unsaved /\ Server.panicked = panicked
    /\ IsServer(Server')
    /\ Server'.clients = clients' /\ Server'.wire_map = wire_map'
    /\ Server'.name_map = name_map' /\ Server'.world = world' /\ Server'.files = files'
    /\ Server'.from = from' /\ Server'.unsaved = unsaved' /\ Server'.panicked = panicked'
BY DEF Server, IsServer

LEMMA RemembersIs ==
    ASSUME NEW s, NEW known, Good(s, known), Remembers(s), panicked' = s.panicked
    PROVE  Good(Server', known) /\ clients' = s.clients /\ from' = s.from
<1>1. /\ clients' = s.clients /\ wire_map' = s.wire_map /\ name_map' = s.name_map
      /\ world' = s.world /\ files' = s.files /\ from' = s.from /\ unsaved' = s.unsaved
  BY DEF Remembers
<1>2. Good(Server', known)
  BY <1>1, ServerIs, SameGood
<1> QED
  BY <1>1, <1>2

(* What the engine leaves when it ends.                                    *)
Gone(s, known) ==
    /\ phase' = "gone" /\ Good(Server', known) /\ PanicNeedsBrokenFile'
    /\ clients' = Nobody /\ world' = Nobody /\ wire_map' = Nobody /\ name_map' = Nobody
    /\ lost \subseteq lost' /\ lost' \subseteq Wires
    /\ \A w : Within(w, s.from) => Within(w, from') \/ w \in lost'
    /\ \A w : Within(w, from') => Within(w, s.from)
    /\ \A k \in DOMAIN to' : to'[k].wire \in Wires => to'[k].wire \in lost'

LEMMA ExitIs ==
    ASSUME NEW s, NEW known, Ending(s, known), ExitWith(s), lost \subseteq Wires
    PROVE  Gone(s, known)
<1> DEFINE left == {s.world[c].name : c \in DOMAIN s.world}
<1>1. PICK k \in 0 .. Len(s.from) :
        /\ Remembers([s EXCEPT !.clients = Nobody, !.wire_map = Nobody, !.name_map = Nobody,
                               !.world = Nobody, !.from = SubSeq(@, 1, k),
                               !.unsaved = @ \cup left])
        /\ lost' = lost \cup {s.from[j] : j \in k + 1 .. Len(s.from)}
                        \cup ({to'[j].wire : j \in DOMAIN to'} \cap Wires)
  BY DEF ExitWith
<1>2. phase' = "gone" /\ panicked' = s.panicked
  BY DEF ExitWith
<1>3. Types(s) /\ IsServer(s)
  BY DEF Ending, Types
<1> HIDE DEF left
<1>4. /\ clients' = Nobody /\ wire_map' = Nobody /\ name_map' = Nobody /\ world' = Nobody
      /\ files' = s.files /\ from' = SubSeq(s.from, 1, k) /\ unsaved' = s.unsaved \cup left
  <2> DEFINE v == [s EXCEPT !.clients = Nobody, !.wire_map = Nobody, !.name_map = Nobody,
                            !.world = Nobody, !.from = SubSeq(@, 1, k),
                            !.unsaved = @ \cup left]
  <2>1. /\ v.clients = Nobody /\ v.wire_map = Nobody /\ v.name_map = Nobody /\ v.world = Nobody
        /\ v.files = s.files /\ v.from = SubSeq(s.from, 1, k) /\ v.unsaved = s.unsaved \cup left
    BY <1>3 DEF IsServer
  <2> QED
    BY <1>1, <2>1 DEF Remembers
<1>5. /\ s.from \in Seq(Wires) /\ from' \in Seq(Wires)
      /\ DOMAIN s.from = 1 .. Len(s.from) /\ Len(s.from) \in Nat
      /\ DOMAIN from' = 1 .. k /\ \A j \in 1 .. k : from'[j] = s.from[j]
  <2>1. s.from \in Seq(Wires) /\ Len(s.from) \in Nat /\ DOMAIN s.from = 1 .. Len(s.from)
    BY <1>3 DEF Types
  <2>2. /\ SubSeq(s.from, 1, k) \in Seq(Wires) /\ Len(SubSeq(s.from, 1, k)) = k
        /\ \A j \in 1 .. k : SubSeq(s.from, 1, k)[j] = s.from[j]
    BY <2>1, SubSeqProperties
  <2> QED
    BY <1>4, <2>1, <2>2
<1>6. left \subseteq Names
  BY <1>3 DEF Types, left
<1>7. Types(Server')
  <2>1. /\ DOMAIN Nobody = {} /\ \A S : Nobody \in [DOMAIN Nobody -> S]
    BY DEF Nobody
  <2> QED
    BY <1>2, <1>3, <1>4, <1>5, <1>6, <2>1, ServerIs DEF Types
<1>8. DOMAIN Nobody = {}
  BY DEF Nobody
<1>9. Tables(Server') /\ Progress(Server')
  BY <1>4, <1>8, ServerIs DEF Tables, Progress
<1>10. Files(Server', known)
  <2>1. \A n \in Names :
          /\ s.files[n] # "none" => n \in known
          /\ s.files[n] = "outdated" => n \in s.unsaved \cup left
    BY DEF Ending, left
  <2> QED
    BY <1>4, <1>8, <2>1, ServerIs DEF Files
<1>11. PanicNeedsBrokenFile'
  BY <1>2, <1>4 DEF PanicNeedsBrokenFile, Ending
<1>12. lost' \subseteq Wires
  <2>1. \A j \in k + 1 .. Len(s.from) : s.from[j] \in Wires
    BY <1>5
  <2> QED
    BY <1>1, <2>1
<1>13. ASSUME NEW w, Within(w, s.from) PROVE Within(w, from') \/ w \in lost'
  <2>1. PICK j \in 1 .. Len(s.from) : s.from[j] = w
    BY <1>5, <1>13 DEF Within
  <2>2. CASE j <= k
    BY <1>5, <2>1, <2>2 DEF Within
  <2>3. CASE ~(j <= k)
    <3>1. j \in k + 1 .. Len(s.from)
      BY <1>5, <2>3
    <3> QED
      BY <1>1, <2>1, <3>1
  <2> QED
    BY <2>2, <2>3
<1>14. ASSUME NEW w, Within(w, from') PROVE Within(w, s.from)
  BY <1>5, <1>14 DEF Within
<1>15. Good(Server', known)
  BY <1>7, <1>9, <1>10 DEF Good
<1> QED
  BY <1>1, <1>2, <1>4, <1>11, <1>12, <1>13, <1>14, <1>15 DEF Gone

(* A request that is not read yet is still on the pipe.                    *)
LEMMA TailLeaves ==
    ASSUME to \in Seq(Requests), to # << >>
    PROVE  /\ Tail(to) \in Seq(Requests) /\ Head(to) \in Requests
           /\ \A w : Leaving(w, to) => \/ Leaving(w, Tail(to))
                                       \/ Head(to).wire = w /\ Head(to).kind = "remove"
<1>1. /\ Tail(to) \in Seq(Requests) /\ Head(to) \in Requests /\ Head(to) = to[1]
      /\ Len(Tail(to)) = Len(to) - 1 /\ \A i \in 1 .. Len(Tail(to)) : Tail(to)[i] = to[i + 1]
  BY HeadTailProperties
<1>2. ASSUME NEW w, Leaving(w, to)
      PROVE  Leaving(w, Tail(to)) \/ (Head(to).wire = w /\ Head(to).kind = "remove")
  <2>1. PICK k \in 1 .. Len(to) : to[k].wire = w /\ to[k].kind = "remove"
    BY <1>2 DEF Leaving
  <2>2. CASE k = 1
    BY <1>1, <2>1, <2>2
  <2>3. CASE k # 1
    <3>1. k - 1 \in 1 .. Len(Tail(to)) /\ Tail(to)[k - 1] = to[k]
      BY <1>1, <2>3
    <3>2. DOMAIN Tail(to) = 1 .. Len(Tail(to))
      BY <1>1
    <3> QED
      BY <2>1, <3>1, <3>2 DEF Leaving
  <2> QED
    BY <2>2, <2>3
<1> QED
  BY <1>1, <1>2

(* A handler of the engine, that makes s of its state, keeps the invariant *)
(* if s is good, or ends well: when it answers for a wire that is gone,    *)
(* and knows of nobody it has not heard of that he has left.               *)
StillHeld(w, s) == w \in DOMAIN conns /\ conns[w].backend /\ ~Within(w, s.from)
Heard(s) ==
    /\ \A w : Within(w, from) => Within(w, s.from)
    /\ Head(to).kind = "remove" => Within(Head(to).wire, s.from)
Handled(s) ==
    /\ IInv /\ phase = "running" /\ to # << >> /\ to' = Tail(to) /\ UNCHANGED wrapper
    /\ Ending(s, accounts') /\ accounts' \subseteq Names /\ ghosts' \subseteq Names
    /\ Heard(s)

LEMMA StillReported ==
    ASSUME NEW s, Handled(s), NEW w \in DOMAIN conns, ~conns[w].client
    PROVE  Leaving(w, to') \/ Leaving(w, pending_msgs) \/ Within(w, s.from) \/ w \in lost
<1>1. to \in Seq(Requests) /\ to # << >> /\ to' = Tail(to)
  BY DEF Handled, IInv, OtherTypes
<1>2. Leaving(w, to) \/ Leaving(w, pending_msgs) \/ Within(w, from) \/ w \in lost
  BY DEF Handled, IInv, ClosesReported
<1> QED
  BY <1>1, <1>2, TailLeaves DEF Handled, Heard

LEMMA OtherTypesHandled ==
    ASSUME NEW s, Handled(s), phase' \in {"running", "gone"}, lost' \subseteq Wires,
           restart_file' \subseteq Wires \X Names
    PROVE  OtherTypes'
<1>1. to' \in Seq(Requests)
  BY TailLeaves DEF Handled, IInv, OtherTypes
<1> QED
  BY <1>1 DEF Handled, IInv, OtherTypes, wrapper

LEMMA RunsOn ==
    ASSUME NEW s, Handled(s), ~s.panicked, Good(s, accounts'), Remembers(s),
           UNCHANGED <<phase, panicked, lost, restart_file>>,
           \A c \in DOMAIN s.clients :
                s.clients[c].name \notin ghosts' => StillHeld(s.clients[c].wire, s)
    PROVE  IInv'
<1>1. IInv /\ phase = "running" /\ ~panicked /\ restart_file = {} /\ UNCHANGED wrapper
  BY DEF Handled, IInv, Phases
<1>2. Good(Server', accounts') /\ clients' = s.clients /\ from' = s.from
  <2>1. s.panicked = panicked'
    BY <1>1, ServerIs DEF Good, Types, IInv
  <2> QED
    BY <2>1, RemembersIs
<1>3. OtherTypes'
  BY <1>1, OtherTypesHandled DEF IInv, OtherTypes
<1>4. PanicNeedsBrokenFile'
  BY <1>1 DEF PanicNeedsBrokenFile
<1>5. Phases'
  BY <1>1 DEF IInv, Phases, wrapper
<1>6. ClosesReported'
  <2>1. UNCHANGED <<conns, pending_msgs, lost>>
    BY <1>1 DEF wrapper
  <2> QED
    BY <1>2, <2>1, StillReported DEF ClosesReported
<1>7. ClientsHeld'
  BY <1>1, <1>2 DEF ClientsHeld, Held, StillHeld, wrapper
<1>8. UnreadIsLost' /\ ToRestart'
  BY <1>1 DEF UnreadIsLost, ToRestart, Unshared
<1> QED
  BY <1>2, <1>3, <1>4, <1>5, <1>6, <1>7, <1>8 DEF IInv

LEMMA Ends ==
    ASSUME NEW s, Handled(s), ExitWith(s),
           restart_file' \subseteq Wires \X Names, Unshared(restart_file'),
           \A p \in restart_file' : p[2] \notin ghosts' => StillHeld(p[1], s)
    PROVE  IInv'
<1>1. IInv /\ UNCHANGED wrapper /\ lost \subseteq Wires
  BY DEF Handled, IInv, OtherTypes
<1>2. Gone(s, accounts')
  BY <1>1, ExitIs DEF Handled
<1>3. OtherTypes'
  BY <1>2, OtherTypesHandled DEF Gone
<1>4. Good(Server', accounts') /\ PanicNeedsBrokenFile'
  BY <1>2 DEF Gone
<1>5. Phases'
  BY <1>1, <1>2 DEF IInv, Phases, Gone, wrapper
<1>6. ClosesReported'
  <2>1. UNCHANGED <<conns, pending_msgs>>
    BY <1>1 DEF wrapper
  <2>2. ASSUME NEW w \in DOMAIN conns, ~conns[w].client
        PROVE  Leaving(w, to') \/ Leaving(w, pending_msgs) \/ Within(w, from') \/ w \in lost'
    BY <1>2, <2>2, StillReported DEF Gone
  <2> QED
    BY <2>1, <2>2 DEF ClosesReported
<1>7. ClientsHeld'
  BY <1>2 DEF ClientsHeld, Gone, Nobody
<1>8. UnreadIsLost'
  BY <1>2 DEF UnreadIsLost, Gone
<1>9. ToRestart'
  <2>1. \A w : StillHeld(w, s) => Held(w)'
    BY <1>1, <1>2 DEF StillHeld, Held, Gone, wrapper
  <2> QED
    BY <2>1 DEF ToRestart
<1> QED
  BY <1>3, <1>4, <1>5, <1>6, <1>7, <1>8, <1>9 DEF IInv

(* All that a handler which reads no restart file has to show.             *)
LEMMA HandlerKeeps ==
    ASSUME NEW s, Handled(s), Become(s), ~s.panicked => Good(s, accounts'),
           UNCHANGED restart_file,
           \A c \in DOMAIN s.clients :
                s.clients[c].name \notin ghosts' => StillHeld(s.clients[c].wire, s)
    PROVE  IInv'
<1>1. restart_file = {}
  BY DEF Handled, IInv, Phases
<1>2. CASE s.panicked
  BY <1>1, <1>2, Ends DEF Become, Unshared
<1>3. CASE ~s.panicked
  BY <1>3, RunsOn DEF Become
<1> QED
  BY <1>2, <1>3

LEMMA AppendWithin ==
    ASSUME NEW q \in Seq(Wires), NEW x \in Wires, NEW w
    PROVE  Within(w, Append(q, x)) <=> Within(w, q) \/ w = x
<1>1. /\ Len(Append(q, x)) = Len(q) + 1 /\ Len(q) \in Nat
      /\ \A i \in 1 .. Len(q) : Append(q, x)[i] = q[i]
      /\ Append(q, x)[Len(q) + 1] = x
      /\ DOMAIN q = 1 .. Len(q) /\ DOMAIN Append(q, x) = 1 .. Len(q) + 1
  BY AppendProperties
<1>2. ASSUME Within(w, Append(q, x)) PROVE Within(w, q) \/ w = x
  <2>1. PICK k \in 1 .. Len(q) + 1 : Append(q, x)[k] = w
    BY <1>1, <1>2 DEF Within
  <2>2. CASE k = Len(q) + 1
    BY <1>1, <2>1, <2>2
  <2>3. CASE k # Len(q) + 1
    <3>1. k \in 1 .. Len(q)
      BY <1>1, <2>3
    <3> QED
      BY <1>1, <2>1, <3>1 DEF Within
  <2> QED
    BY <2>2, <2>3
<1>3. ASSUME Within(w, q) PROVE Within(w, Append(q, x))
  <2>1. PICK k \in 1 .. Len(q) : q[k] = w
    BY <1>1, <1>3 DEF Within
  <2>2. k \in 1 .. Len(q) + 1 /\ Append(q, x)[k] = w
    BY <1>1, <2>1
  <2> QED
    BY <1>1, <2>2 DEF Within
<1>4. Within(x, Append(q, x))
  <2>1. Len(q) + 1 \in 1 .. Len(q) + 1
    BY <1>1
  <2> QED
    BY <1>1, <2>1 DEF Within
<1> QED
  BY <1>2, <1>3, <1>4

(* What the engine starts a handler from.                                  *)
LEMMA Starts ==
    ASSUME IInv, NEW kind, Handle(kind)
    PROVE  /\ phase = "running" /\ ~Server.panicked /\ Good(Server, accounts)
           /\ to # << >> /\ to' = Tail(to) /\ UNCHANGED wrapper /\ Head(to).kind = kind
           /\ Head(to) \in Requests /\ from \in Seq(Wires) /\ accounts \subseteq Names
           /\ ghosts \subseteq Names
           /\ kind \in {"login", "register"} => Head(to).wire \in Wires /\ Head(to).name \in Names
           /\ kind \in {"bad", "remove"} => Head(to).wire \in Wires
<1>1. phase = "running" /\ to # << >> /\ to' = Tail(to) /\ Head(to).kind = kind /\ UNCHANGED wrapper
  BY DEF Handle
<1>2. ~Server.panicked
  BY <1>1, ServerIs DEF IInv, Phases
<1>3. Head(to) \in Requests
  BY <1>1, TailLeaves DEF IInv, OtherTypes
<1>4. from \in Seq(Wires)
  BY ServerIs DEF IInv, Good, Types
<1>5. /\ kind \in {"login", "register"} => Head(to).wire \in Wires /\ Head(to).name \in Names
      /\ kind \in {"bad", "remove"} => Head(to).wire \in Wires
  BY <1>1, <1>3 DEF Requests
<1> QED
  BY <1>1, <1>2, <1>3, <1>4, <1>5 DEF IInv, OtherTypes

(* Whoever was there and is not the one that was answered for is held.     *)
LEMMA StayersHeld ==
    ASSUME IInv, NEW s, NEW x \in Wires, Stayed(Server, s), Answered(Server, x, s),
           NEW c \in DOMAIN s.clients, s.clients[c].name \notin ghosts
    PROVE  StillHeld(s.clients[c].wire, s)
<1>1. c \in DOMAIN clients /\ s.clients[c] = clients[c] /\ s.clients[c].wire # x
  BY ServerIs DEF Stayed, Answered
<1>2. Held(clients[c].wire)
  BY <1>1 DEF IInv, ClientsHeld
<1>3. s.from = Append(from, x) /\ from \in Seq(Wires)
  BY ServerIs DEF Answered, IInv, Good, Types
<1> QED
  BY <1>1, <1>2, <1>3, AppendWithin DEF Held, StillHeld

(* A request after which the wire is answered for and nobody's.            *)
LEMMA KickIs ==
    ASSUME IInv, phase = "running", NEW w \in Wires, NEW ok \in BOOLEAN
    PROVE  LET s == Kick(w, ok) IN
           /\ Good(s, accounts) /\ ~s.panicked
           /\ Stayed(Server, s) /\ Answered(Server, w, s)
<1>1. Good(Server, accounts) /\ Tables(Server) /\ ~Server.panicked
  BY ServerIs DEF IInv, Good, Phases
<1>2. CASE LoggedIn(w)
  <2> DEFINE cid == wire_map[w]
  <2>1. cid \in DOMAIN Server.clients /\ Server.clients[cid].wire = w
    BY <1>1, <1>2, TablesLookUp, ServerIs DEF LoggedIn
  <2>2. Kick(w, ok) = KickClient(Server, cid, ok)
    BY <1>2 DEF Kick
  <2> HIDE DEF cid
  <2>3. Good(KickClient(Server, cid, ok), accounts)
    BY <1>1, <2>1, KickGood
  <2>4. LET t == KickClient(Server, cid, ok) IN
        /\ Stayed(Server, t) /\ Answered(Server, Server.clients[cid].wire, t)
        /\ t.panicked = Server.panicked
    BY <1>1, <2>1, KickStays
  <2> QED
    BY <1>1, <2>1, <2>2, <2>3, <2>4
<1>3. CASE ~LoggedIn(w)
  <2> DEFINE t == WireClosed(Server, w)
  <2>1. Kick(w, ok) = t
    BY <1>3 DEF Kick
  <2>2. /\ Good(t, accounts) /\ t.clients = Server.clients
        /\ t.panicked = Server.panicked /\ t.from = Append(Server.from, w)
    BY <1>1, WireClosedGood
  <2> HIDE DEF t
  <2>3. \A c \in DOMAIN Server.clients : Server.clients[c].wire # w
    BY <1>1, <1>3, ServerIs DEF Tables, LoggedIn
  <2>4. Stayed(Server, t) /\ Answered(Server, w, t)
    BY <2>2, <2>3 DEF Stayed, Answered
  <2> QED
    BY <1>1, <2>1, <2>2, <2>4
<1> QED
  BY <1>2, <1>3

LEMMA KickKeeps ==
    ASSUME IInv, NEW kind \in {"login", "register", "bad", "remove"}, Handle(kind),
           NEW ok \in BOOLEAN, Become(Kick(Head(to).wire, ok)), UNCHANGED rest
    PROVE  IInv'
<1> DEFINE w == Head(to).wire
           s == Kick(w, ok)
<1>1. /\ phase = "running" /\ to # << >> /\ to' = Tail(to) /\ UNCHANGED wrapper
      /\ w \in Wires /\ from \in Seq(Wires) /\ accounts \subseteq Names /\ ghosts \subseteq Names
  BY Starts
<1>2. UNCHANGED <<accounts, restart_file, ghosts>>
  BY DEF rest
<1>3. Good(s, accounts) /\ ~s.panicked /\ Stayed(Server, s) /\ Answered(Server, w, s)
  BY <1>1, KickIs
<1>4. Become(s)
  OBVIOUS
<1> HIDE DEF s
<1>5. Ending(s, accounts)
  BY <1>3, GoodEnds
<1>6. Heard(s)
  <2>1. s.from = Append(from, w)
    BY <1>3, ServerIs DEF Answered
  <2> QED
    BY <1>1, <2>1, AppendWithin DEF Heard
<1>7. Handled(s)
  BY <1>1, <1>2, <1>5, <1>6 DEF Handled
<1>8. \A c \in DOMAIN s.clients :
            s.clients[c].name \notin ghosts => StillHeld(s.clients[c].wire, s)
  BY <1>1, <1>3, StayersHeld
<1> QED
  BY <1>2, <1>3, <1>4, <1>7, <1>8, HandlerKeeps

LEMMA LoginKeeps ==
    ASSUME IInv, NEW ok \in BOOLEAN, NEW torn \in BOOLEAN, HandleLogin(ok, torn)
    PROVE  IInv'
<1> DEFINE w == Head(to).wire
           n == Head(to).name
           s == Login(Server, w, n, ok, torn)
<1>1. Handle("login") /\ UNCHANGED <<accounts, restart_file>>
  BY DEF HandleLogin
<1>2. /\ phase = "running" /\ to # << >> /\ to' = Tail(to) /\ UNCHANGED wrapper
      /\ Head(to).kind = "login" /\ w \in Wires /\ n \in Names
      /\ from \in Seq(Wires) /\ accounts \subseteq Names /\ ghosts \subseteq Names
      /\ Good(Server, accounts) /\ ~Server.panicked
  BY <1>1, Starts
<1>3. CASE LoggedIn(w) \/ n \notin accounts
  <2>1. Become(Kick(w, ok)) /\ UNCHANGED ghosts
    BY <1>3 DEF HandleLogin
  <2> QED
    BY <1>1, <2>1, KickKeeps DEF rest
<1>4. CASE ~(LoggedIn(w) \/ n \notin accounts)
  <2>1. /\ FreeIds(Server) # {} /\ Become(s)
        /\ ghosts' = IF Closed(w) THEN ghosts \cup {n} ELSE ghosts \ {n}
    BY <1>4 DEF HandleLogin
  <2>2. w \notin DOMAIN Server.wire_map /\ n \in accounts
    BY <1>4, ServerIs DEF LoggedIn
  <2>3. /\ Ending(s, accounts) /\ (~s.panicked => Good(s, accounts))
        /\ Joined(Server, w, n, s)
        /\ s.from = Server.from \/ \E x \in Wires : x # w /\ Answered(Server, x, s)
        /\ \A c \in DOMAIN s.clients : s.clients[c].name = n => s.clients[c].wire = w
    BY <1>2, <2>1, <2>2, LoginGood
  <2> HIDE DEF s, w, n
  <2>4. s.from = from \/ \E x \in Wires : /\ x # w /\ s.from = Append(from, x)
                                          /\ \A c \in DOMAIN s.clients : s.clients[c].wire # x
    BY <2>3, ServerIs DEF Answered
  <2>9. /\ \A y : Within(y, from) => Within(y, s.from)
        /\ \A c \in DOMAIN s.clients :
                Within(s.clients[c].wire, s.from) => Within(s.clients[c].wire, from)
    <3>1. CASE s.from = from
      BY <3>1
    <3>2. ASSUME NEW x \in Wires, s.from = Append(from, x),
                 \A c \in DOMAIN s.clients : s.clients[c].wire # x
          PROVE  <2>9
      <4>1. \A y : Within(y, s.from) <=> Within(y, from) \/ y = x
        BY <1>2, <3>2, AppendWithin
      <4> QED
        BY <3>2, <4>1
    <3> QED
      BY <2>4, <3>1, <3>2
  <2>10. Head(to).kind # "remove"
    BY <1>2
  <2>5. Heard(s)
    BY <2>9, <2>10 DEF Heard
  <2>6. Handled(s)
    BY <1>1, <1>2, <2>1, <2>3, <2>5 DEF Handled
  <2>8. ASSUME NEW c \in DOMAIN s.clients, s.clients[c].name \notin ghosts'
        PROVE  StillHeld(s.clients[c].wire, s)
    <3>1. CASE s.clients[c].name = n
      <4>1. s.clients[c].wire = w
        BY <2>3, <3>1
      <4>2. ~Closed(w)
        BY <2>1, <2>8, <3>1
      <4>3. w \in DOMAIN conns /\ conns[w].backend /\ ~Within(w, from)
        BY <4>2 DEF Closed, Within
      <4> QED
        BY <2>9, <4>1, <4>3 DEF StillHeld
    <3>2. CASE s.clients[c].name # n
      <4>1. c \in DOMAIN clients /\ s.clients[c] = clients[c]
        BY <2>3, <3>2, ServerIs DEF Joined
      <4>2. Held(clients[c].wire)
        BY <2>1, <2>8, <3>2, <4>1 DEF IInv, ClientsHeld
      <4> QED
        BY <2>9, <4>1, <4>2 DEF Held, StillHeld
    <3> QED
      BY <3>1, <3>2
  <2> QED
    BY <1>1, <2>1, <2>3, <2>6, <2>8, HandlerKeeps
<1> QED
  BY <1>3, <1>4

(* Clients that stay where they are, and no news of any wire.              *)
LEMMA UnchangedHeld ==
    ASSUME IInv, NEW s, s.clients = clients, s.from = from
    PROVE  \A c \in DOMAIN s.clients :
                s.clients[c].name \notin ghosts => StillHeld(s.clients[c].wire, s)
BY DEF IInv, ClientsHeld, Held, StillHeld

LEMMA RegisterKeeps ==
    ASSUME IInv, NEW ok \in BOOLEAN, HandleRegister(ok)
    PROVE  IInv'
<1> DEFINE w == Head(to).wire
           n == Head(to).name
           s == Registered(Server, n, ok)
<1>1. Handle("register") /\ UNCHANGED <<restart_file, ghosts>>
  BY DEF HandleRegister
<1>2. /\ phase = "running" /\ to # << >> /\ to' = Tail(to) /\ UNCHANGED wrapper
      /\ Head(to).kind = "register" /\ w \in Wires /\ n \in Names
      /\ from \in Seq(Wires) /\ accounts \subseteq Names /\ ghosts \subseteq Names
      /\ Good(Server, accounts) /\ ~Server.panicked
  BY <1>1, Starts
<1>3. CASE LoggedIn(w)
  <2>1. Become(Kick(w, ok)) /\ UNCHANGED accounts
    BY <1>3 DEF HandleRegister
  <2> QED
    BY <1>1, <2>1, KickKeeps DEF rest
<1>4. CASE ~LoggedIn(w) /\ n \in accounts
  <2>1. Become(Server) /\ UNCHANGED accounts
    BY <1>4 DEF HandleRegister
  <2>2. Ending(Server, accounts)
    BY <1>2, GoodEnds
  <2>3. Handled(Server)
    BY <1>1, <1>2, <2>1, <2>2, ServerIs DEF Handled, Heard
  <2> QED
    BY <1>1, <1>2, <2>1, <2>3, UnchangedHeld, HandlerKeeps, ServerIs
<1>5. CASE ~LoggedIn(w) /\ n \notin accounts
  <2>1. FreeIds(Server) # {} /\ accounts' = accounts \cup {n} /\ Become(s)
    BY <1>5 DEF HandleRegister, Registered
  <2>2. /\ Good(s, accounts \cup {n})
        /\ s.clients = clients /\ s.from = from /\ ~s.panicked
    BY <1>2, <1>5, <2>1, RegisterGood, ServerIs
  <2> HIDE DEF s
  <2>3. Ending(s, accounts')
    BY <2>1, <2>2, GoodEnds
  <2>4. Handled(s)
    BY <1>1, <1>2, <2>1, <2>2, <2>3 DEF Handled, Heard
  <2> QED
    BY <1>1, <2>1, <2>2, <2>4, UnchangedHeld, HandlerKeeps
<1> QED
  BY <1>3, <1>4, <1>5

LEMMA ShutdownKeeps ==
    ASSUME IInv, NEW oks, HandleShutdown(oks) \/ HandleRestart(oks)
    PROVE  IInv'
<1> DEFINE s == ShutDown(Server, oks)
<1>1. PICK kind \in {"shutdown", "restart"} : Handle(kind)
  BY DEF HandleShutdown, HandleRestart
<1>2. /\ phase = "running" /\ to # << >> /\ to' = Tail(to) /\ UNCHANGED wrapper
      /\ Head(to).kind = kind /\ accounts \subseteq Names /\ ghosts \subseteq Names
      /\ Good(Server, accounts) /\ ~Server.panicked
  BY <1>1, Starts
<1>3. ExitWith(s) /\ UNCHANGED <<accounts, ghosts>>
  BY DEF HandleShutdown, HandleRestart, rest
<1>4. Ending(s, accounts) /\ s.from = from
  BY <1>2, ShutDownEnds, ServerIs
<1> HIDE DEF s
<1>5. Handled(s)
  BY <1>2, <1>3, <1>4 DEF Handled, Heard
<1>6. restart_file' = {} \/ restart_file' = {<<clients[c].wire, world[c].name>> : c \in DOMAIN clients}
  BY <1>2 DEF HandleShutdown, HandleRestart, rest, IInv, Phases
<1>7. \A c \in DOMAIN clients : /\ clients[c].wire \in Wires /\ clients[c].name \in Names
                                /\ world[c].name = clients[c].name
                                /\ wire_map[clients[c].wire] = c /\ name_map[clients[c].name] = c
  BY <1>2, ServerIs DEF Good, Types, Tables
<1>8. /\ restart_file' \subseteq Wires \X Names
      /\ \A p \in restart_file' : \E c \in DOMAIN clients : p = <<clients[c].wire, clients[c].name>>
  BY <1>6, <1>7
<1>9. Unshared(restart_file')
  <2>1. SUFFICES ASSUME NEW p \in restart_file', NEW q \in restart_file',
                        p[1] = q[1] \/ p[2] = q[2]
                 PROVE  p = q
    BY DEF Unshared
  <2>2. PICK c \in DOMAIN clients : p = <<clients[c].wire, clients[c].name>>
    BY <1>8
  <2>3. PICK d \in DOMAIN clients : q = <<clients[d].wire, clients[d].name>>
    BY <1>8
  <2>4. c = d
    BY <1>7, <2>1, <2>2, <2>3
  <2> QED
    BY <2>2, <2>3, <2>4
<1>10. ASSUME NEW p \in restart_file', p[2] \notin ghosts' PROVE StillHeld(p[1], s)
  <2>1. PICK c \in DOMAIN clients : p = <<clients[c].wire, clients[c].name>>
    BY <1>8
  <2>2. Held(clients[c].wire)
    BY <1>3, <1>10, <2>1 DEF IInv, ClientsHeld
  <2> QED
    BY <1>4, <2>1, <2>2 DEF Held, StillHeld
<1> QED
  BY <1>3, <1>5, <1>8, <1>9, <1>10, Ends

-----------------------------------------------------------------------------
(* The steps of the wrapper.                                               *)

LEMMA GoodRests ==
    ASSUME Good(Server, accounts), from' \in Seq(Wires),
           UNCHANGED <<clients, wire_map, name_map, world, files, panicked, unsaved, accounts>>
    PROVE  Good(Server', accounts')
<1>1. Types(Server')
  BY ServerIs DEF Good, Types
<1>2. Tables(Server')
  BY ServerIs DEF Good, Tables
<1>3. Files(Server', accounts')
  BY ServerIs DEF Good, Files
<1>4. Progress(Server')
  BY ServerIs DEF Good, Progress
<1> QED
  BY <1>1, <1>2, <1>3, <1>4 DEF Good

LEMMA AppendLeaves ==
    ASSUME NEW q \in Seq(Requests), NEW msg \in Requests
    PROVE  /\ Append(q, msg) \in Seq(Requests)
           /\ \A w : Leaving(w, q) => Leaving(w, Append(q, msg))
           /\ msg.kind = "remove" => Leaving(msg.wire, Append(q, msg))
<1>1. /\ Append(q, msg) \in Seq(Requests)
      /\ Len(Append(q, msg)) = Len(q) + 1 /\ Len(q) \in Nat
      /\ \A i \in 1 .. Len(q) : Append(q, msg)[i] = q[i]
      /\ Append(q, msg)[Len(q) + 1] = msg
      /\ DOMAIN q = 1 .. Len(q) /\ DOMAIN Append(q, msg) = 1 .. Len(q) + 1
  BY AppendProperties
<1>2. ASSUME NEW w, Leaving(w, q) PROVE Leaving(w, Append(q, msg))
  <2>1. PICK k \in 1 .. Len(q) : q[k].wire = w /\ q[k].kind = "remove"
    BY <1>1, <1>2 DEF Leaving
  <2>2. k \in 1 .. Len(q) + 1 /\ Append(q, msg)[k] = q[k]
    BY <1>1
  <2> QED
    BY <1>1, <2>1, <2>2 DEF Leaving
<1>3. Len(q) + 1 \in 1 .. Len(q) + 1
  BY <1>1
<1>4. msg.kind = "remove" => Leaving(msg.wire, Append(q, msg))
  BY <1>1, <1>3 DEF Leaving
<1> QED
  BY <1>1, <1>2, <1>4

LEMMA WriteIs ==
    ASSUME IInv, NEW msg \in Requests, Write(msg)
    PROVE  /\ to' \in Seq(Requests) /\ pending_msgs' \in Seq(Requests)
           /\ \A w : Leaving(w, to) => Leaving(w, to')
           /\ \A w : Leaving(w, pending_msgs) => Leaving(w, pending_msgs')
           /\ msg.kind = "remove" => Leaving(msg.wire, to') \/ Leaving(msg.wire, pending_msgs')
           /\ phase # "running" => to' = to
<1>1. to \in Seq(Requests) /\ pending_msgs \in Seq(Requests)
  BY DEF IInv, OtherTypes
<1>2. CASE suspended
  <2>1. pending_msgs' = Append(pending_msgs, msg) /\ to' = to
    BY <1>2 DEF Write
  <2> QED
    BY <1>1, <2>1, AppendLeaves
<1>3. CASE ~suspended
  <2>1. to' = Append(to, msg) /\ pending_msgs' = pending_msgs /\ phase = "running"
    BY <1>3 DEF Write
  <2> QED
    BY <1>1, <2>1, AppendLeaves
<1> QED
  BY <1>2, <1>3

(* What a step of the wrapper, that leaves the tables of the engine alone,  *)
(* has to show.                                                            *)
LEMMA WrapperKeeps ==
    ASSUME IInv,
           UNCHANGED <<clients, wire_map, name_map, world, files, panicked, unsaved,
                       accounts, restart_file, ghosts>>,
           from' \in Seq(Wires), OtherTypes', restarting' = suspended',
           ClosesReported', UnreadIsLost', \A w : Held(w) => Held(w)',
           phase' = phase \/ (phase = "gone" /\ phase' = "exited"),
           phase # "running" => restarting' = restarting
    PROVE  IInv'
<1>1. Good(Server', accounts')
  BY GoodRests DEF IInv
<1>2. PanicNeedsBrokenFile'
  BY DEF IInv, PanicNeedsBrokenFile
<1>3. Phases'
  BY DEF IInv, Phases
<1>4. ClientsHeld'
  BY DEF IInv, ClientsHeld
<1>5. ToRestart'
  <2>1. Unshared(restart_file')
    BY DEF IInv, ToRestart
  <2>2. ASSUME phase' = "gone" /\ restarting', NEW p \in restart_file', p[2] \notin ghosts'
        PROVE  Held(p[1])'
    <3>1. Held(p[1])
      BY <2>2 DEF IInv, ToRestart
    <3> QED
      BY <3>1
  <2> QED
    BY <2>1, <2>2 DEF ToRestart
<1> QED
  BY <1>1, <1>2, <1>3, <1>4, <1>5 DEF IInv

(* One that leaves the whole engine alone, and what it wrote.              *)
EngineRests == UNCHANGED <<engine, rest, from>>

LEMMA RestingKeeps ==
    ASSUME IInv, EngineRests, OtherTypes', restarting' = suspended', ClosesReported',
           \A w \in DOMAIN conns : conns[w].backend => w \in DOMAIN conns' /\ conns'[w].backend,
           phase # "running" => to' = to /\ restarting' = restarting
    PROVE  IInv'
<1>1. UNCHANGED <<phase, clients, wire_map, name_map, world, files, panicked, unsaved, lost,
                  accounts, restart_file, ghosts, from>>
  BY DEF EngineRests, engine, rest
<1>2. from' \in Seq(Wires)
  BY <1>1, ServerIs DEF IInv, Good, Types
<1>3. \A w : Held(w) => Held(w)'
  BY <1>1 DEF Held
<1>4. UnreadIsLost'
  BY <1>1 DEF IInv, UnreadIsLost
<1> QED
  BY <1>1, <1>2, <1>3, <1>4, WrapperKeeps

LEMMA SendKeeps ==
    ASSUME IInv, NEW w \in Wires, NEW kind, NEW n, Send(w, kind, n), Request(w, kind, n) \in Requests
    PROVE  IInv'
<1>1. /\ Write(Request(w, kind, n))
      /\ UNCHANGED <<conns, restarting, suspended, commands, from, engine, rest>>
  BY DEF Send
<1>2. /\ to' \in Seq(Requests) /\ pending_msgs' \in Seq(Requests)
      /\ \A x : Leaving(x, to) => Leaving(x, to')
      /\ \A x : Leaving(x, pending_msgs) => Leaving(x, pending_msgs')
      /\ phase # "running" => to' = to
  BY <1>1, WriteIs
<1>3. OtherTypes' /\ EngineRests
  BY <1>1, <1>2 DEF IInv, OtherTypes, EngineRests, engine, rest
<1>4. ClosesReported'
  BY <1>1, <1>2 DEF IInv, ClosesReported, engine
<1> QED
  BY <1>1, <1>2, <1>3, <1>4, RestingKeeps DEF IInv, Phases

LEMMA ControlKeeps ==
    ASSUME IInv, NEW kind \in {"shutdown", "restart"}, Control(kind)
    PROVE  IInv'
<1>1. /\ Write(Command(kind)) /\ commands < MaxCommands /\ commands' = commands + 1
      /\ restarting' = (restarting \/ kind = "restart")
      /\ suspended' = (suspended \/ kind = "restart")
      /\ UNCHANGED <<conns, from, engine, rest>>
  BY DEF Control
<1>2. Command(kind) \in Requests
  BY DEF Command, Request, Requests
<1>3. /\ to' \in Seq(Requests) /\ pending_msgs' \in Seq(Requests)
      /\ \A x : Leaving(x, to) => Leaving(x, to')
      /\ \A x : Leaving(x, pending_msgs) => Leaving(x, pending_msgs')
      /\ phase # "running" => to' = to
  BY <1>1, <1>2, WriteIs
<1>4. OtherTypes' /\ EngineRests
  <2>1. commands' \in 0 .. MaxCommands
    BY <1>1, BoundsAssumption DEF IInv, OtherTypes
  <2> QED
    BY <1>1, <1>3, <2>1 DEF IInv, OtherTypes, EngineRests, engine, rest
<1>5. ClosesReported'
  BY <1>1, <1>3 DEF IInv, ClosesReported, engine
<1>6. phase # "running" => suspended
  BY <1>1 DEF Write
<1>7. restarting' = suspended' /\ (phase # "running" => restarting' = restarting)
  BY <1>1, <1>6 DEF IInv, Phases, OtherTypes
<1> QED
  BY <1>1, <1>3, <1>4, <1>5, <1>7, RestingKeeps

LEMMA CloseKeeps ==
    ASSUME IInv, NEW w \in Wires, Close(w)
    PROVE  IInv'
<1>1. /\ w \in DOMAIN conns /\ conns[w].client
      /\ UNCHANGED <<restarting, suspended, commands, from, engine, rest>>
  BY DEF Close
<1>2. conns \in [DOMAIN conns -> Sides] /\ DOMAIN conns \subseteq Wires
  BY DEF IInv, OtherTypes
<1>3. CASE conns[w].backend
  <2>1. /\ conns' = [conns EXCEPT ![w].client = FALSE]
        /\ Write(Request(w, "remove", NoName))
    BY <1>3 DEF Close
  <2>2. Request(w, "remove", NoName) \in Requests
    BY DEF Request, Requests
  <2>3. /\ to' \in Seq(Requests) /\ pending_msgs' \in Seq(Requests)
        /\ \A x : Leaving(x, to) => Leaving(x, to')
        /\ \A x : Leaving(x, pending_msgs) => Leaving(x, pending_msgs')
        /\ Leaving(w, to') \/ Leaving(w, pending_msgs')
        /\ phase # "running" => to' = to
    BY <2>1, <2>2, WriteIs DEF Request
  <2>4. /\ DOMAIN conns' = DOMAIN conns /\ conns' \in [DOMAIN conns' -> Sides]
        /\ \A x \in DOMAIN conns : x # w => conns'[x] = conns[x]
        /\ conns'[w].backend
    BY <1>1, <1>2, <1>3, <2>1 DEF Sides
  <2>5. OtherTypes' /\ EngineRests
    BY <1>1, <2>3, <2>4 DEF IInv, OtherTypes, EngineRests, engine, rest
  <2>6. ClosesReported'
    BY <1>1, <2>3, <2>4 DEF IInv, ClosesReported, engine
  <2> QED
    BY <1>1, <2>3, <2>4, <2>5, <2>6, RestingKeeps DEF IInv, Phases
<1>4. CASE ~conns[w].backend
  <2>1. conns' = Without(conns, w) /\ UNCHANGED <<to, pending_msgs>>
    BY <1>4 DEF Close
  <2>2. /\ DOMAIN conns' = DOMAIN conns \ {w} /\ conns' \in [DOMAIN conns' -> Sides]
        /\ \A x \in DOMAIN conns' : conns'[x] = conns[x]
    BY <1>2, <2>1 DEF Without
  <2>3. OtherTypes' /\ EngineRests
    BY <1>1, <2>1, <2>2 DEF IInv, OtherTypes, EngineRests, engine, rest
  <2>4. ClosesReported'
    BY <1>1, <2>1, <2>2 DEF IInv, ClosesReported, engine
  <2> QED
    BY <1>1, <1>4, <2>1, <2>2, <2>3, <2>4, RestingKeeps DEF IInv, Phases
<1> QED
  BY <1>3, <1>4

(* A new connection has nothing to do with the last one of its id.         *)
LEMMA OpenKeeps ==
    ASSUME IInv, NEW w \in Wires, Open(w)
    PROVE  IInv'
<1>1. /\ w \notin DOMAIN conns /\ ~Mentioned(w)
      /\ conns' = With(conns, w, [client |-> TRUE, backend |-> TRUE]) /\ lost' = lost \ {w}
      /\ UNCHANGED <<restarting, suspended, pending_msgs, commands, to, from, phase, clients,
                     wire_map, name_map, world, files, panicked, unsaved>>
      /\ UNCHANGED <<accounts, restart_file, ghosts>>
  BY DEF Open, rest
<1>2. /\ DOMAIN conns' = DOMAIN conns \cup {w} /\ conns'[w].client
      /\ \A x \in DOMAIN conns : conns'[x] = conns[x] /\ x # w
  BY <1>1 DEF With
<1>3. conns' \in [DOMAIN conns' -> Sides]
  <2>1. [client |-> TRUE, backend |-> TRUE] \in Sides
    BY DEF Sides
  <2> QED
    BY <1>1, <2>1 DEF IInv, OtherTypes, With
<1>4. OtherTypes'
  BY <1>1, <1>2, <1>3 DEF IInv, OtherTypes
<1>5. ClosesReported'
  BY <1>1, <1>2 DEF IInv, ClosesReported
<1>6. UnreadIsLost'
  BY <1>1 DEF IInv, UnreadIsLost, Mentioned
<1>7. \A x : Held(x) => Held(x)'
  BY <1>1, <1>2 DEF Held
<1>8. from' \in Seq(Wires) /\ restarting' = suspended'
  BY <1>1, ServerIs DEF IInv, Good, Types, Phases
<1> QED
  BY <1>1, <1>4, <1>5, <1>6, <1>7, <1>8, WrapperKeeps

LEMMA TailWithin ==
    ASSUME NEW q \in Seq(Wires), q # << >>
    PROVE  /\ Head(q) \in Wires /\ Tail(q) \in Seq(Wires) /\ Within(Head(q), q)
           /\ \A w : Within(w, Tail(q)) => Within(w, q)
           /\ \A w : Within(w, q) => Within(w, Tail(q)) \/ w = Head(q)
<1>1. /\ Tail(q) \in Seq(Wires) /\ Head(q) \in Wires /\ Head(q) = q[1] /\ Len(q) \in Nat
      /\ Len(Tail(q)) = Len(q) - 1 /\ \A i \in 1 .. Len(Tail(q)) : Tail(q)[i] = q[i + 1]
      /\ DOMAIN q = 1 .. Len(q) /\ DOMAIN Tail(q) = 1 .. Len(q) - 1 /\ 1 \in 1 .. Len(q)
  BY HeadTailProperties
<1>2. ASSUME NEW w, Within(w, Tail(q)) PROVE Within(w, q)
  <2>1. PICK k \in 1 .. Len(q) - 1 : Tail(q)[k] = w
    BY <1>1, <1>2 DEF Within
  <2>2. k + 1 \in 1 .. Len(q) /\ q[k + 1] = w
    BY <1>1, <2>1
  <2> QED
    BY <1>1, <2>2 DEF Within
<1>3. ASSUME NEW w, Within(w, q), w # Head(q) PROVE Within(w, Tail(q))
  <2>1. PICK k \in 1 .. Len(q) : q[k] = w
    BY <1>1, <1>3 DEF Within
  <2>2. k - 1 \in 1 .. Len(q) - 1 /\ Tail(q)[k - 1] = w
    BY <1>1, <1>3, <2>1
  <2> QED
    BY <1>1, <2>2 DEF Within
<1>4. Within(Head(q), q)
  BY <1>1 DEF Within
<1> QED
  BY <1>1, <1>2, <1>3, <1>4

(* Once the wrapper knows, a wire that closed is gone and another is only  *)
(* half open: neither was anybody's.                                       *)
LEMMA RemovedKeeps ==
    ASSUME IInv, Removed
    PROVE  IInv'
<1> DEFINE w == Head(from)
<1>1. /\ from # << >> /\ from' = Tail(from)
      /\ conns' = IF w \notin DOMAIN conns THEN conns
                  ELSE IF ~conns[w].client THEN Without(conns, w)
                  ELSE [conns EXCEPT ![w].backend = FALSE]
      /\ UNCHANGED <<restarting, suspended, pending_msgs, commands, to, phase, clients,
                     wire_map, name_map, world, files, panicked, unsaved, lost>>
      /\ UNCHANGED <<accounts, restart_file, ghosts>>
  BY DEF Removed, engine, rest
<1>2. from \in Seq(Wires)
  BY ServerIs DEF IInv, Good, Types
<1>3. /\ w \in Wires /\ from' \in Seq(Wires) /\ Within(w, from)
      /\ \A x : Within(x, from') => Within(x, from)
      /\ \A x : Within(x, from) => Within(x, from') \/ x = w
  BY <1>1, <1>2, TailWithin
<1> HIDE DEF w
<1>4. conns \in [DOMAIN conns -> Sides]
  BY DEF IInv, OtherTypes
<1>5. /\ DOMAIN conns' \subseteq DOMAIN conns
      /\ conns' \in [DOMAIN conns' -> Sides]
      /\ \A x \in DOMAIN conns : x # w => x \in DOMAIN conns' /\ conns'[x] = conns[x]
      /\ w \in DOMAIN conns' => conns'[w].client
  <2>1. CASE w \notin DOMAIN conns
    BY <1>1, <1>4, <2>1
  <2>2. CASE w \in DOMAIN conns /\ ~conns[w].client
    <3>1. conns' = Without(conns, w)
      BY <1>1, <2>2
    <3> QED
      BY <1>4, <3>1 DEF Without
  <2>3. CASE w \in DOMAIN conns /\ conns[w].client
    <3>1. conns' = [conns EXCEPT ![w].backend = FALSE]
      BY <1>1, <2>3
    <3>2. [conns[w] EXCEPT !.backend = FALSE] \in Sides /\ [conns[w] EXCEPT !.backend = FALSE].client
      BY <1>4, <2>3 DEF Sides
    <3> QED
      BY <1>4, <3>1, <3>2
  <2> QED
    BY <2>1, <2>2, <2>3
<1>6. OtherTypes'
  BY <1>1, <1>5 DEF IInv, OtherTypes
<1>7. ClosesReported'
  BY <1>1, <1>3, <1>5 DEF IInv, ClosesReported
<1>8. UnreadIsLost'
  BY <1>1 DEF IInv, UnreadIsLost
<1>9. \A x : Held(x) => Held(x)'
  BY <1>3, <1>5 DEF Held
<1>10. restarting' = suspended'
  BY <1>1 DEF IInv, Phases
<1> QED
  BY <1>1, <1>3, <1>6, <1>7, <1>8, <1>9, <1>10, WrapperKeeps

(* The wrapper exits, because of an assertion or after a shutdown.         *)
LEMMA ExitedKeeps ==
    ASSUME IInv, phase = "gone", phase' = "exited",
           UNCHANGED <<wrapper, to, from, clients, wire_map, name_map, world, files,
                       panicked, unsaved, lost, rest>>
    PROVE  IInv'
<1>1. UNCHANGED <<conns, restarting, suspended, pending_msgs, commands,
                  accounts, restart_file, ghosts>>
  BY DEF wrapper, rest
<1>2. from' \in Seq(Wires) /\ restarting' = suspended'
  BY <1>1, ServerIs DEF IInv, Good, Types, Phases
<1>3. OtherTypes' /\ ClosesReported' /\ UnreadIsLost'
  BY <1>1 DEF IInv, OtherTypes, ClosesReported, UnreadIsLost
<1>4. \A x : Held(x) => Held(x)'
  BY <1>1 DEF Held
<1> QED
  BY <1>1, <1>2, <1>3, <1>4, WrapperKeeps

(* The next backend starts with the messages that were held back, and what *)
(* the last one had not read is lost.                                      *)
LEMMA RestartKeeps ==
    ASSUME IInv, NEW torn \in BOOLEAN, BackendGone(torn), restarting
    PROVE  IInv'
<1>1. /\ phase = "gone" /\ from = << >>
      /\ restarting' = FALSE /\ suspended' = FALSE
      /\ to' = pending_msgs /\ pending_msgs' = << >>
      /\ UNCHANGED <<conns, commands, accounts, ghosts>>
  BY DEF BackendGone
<1>2. PICK who \in Returning(Server, torn) :
        LET s == [Back(Server, who) EXCEPT !.panicked = Stuck(Server, torn)]
        IN IF s.panicked THEN ExitWith(s) /\ UNCHANGED restart_file
           ELSE /\ Remembers(s)
                /\ phase' = "running" /\ panicked' = FALSE /\ restart_file' = {}
                /\ UNCHANGED lost
  BY DEF BackendGone
<1> DEFINE s == [Back(Server, who) EXCEPT !.panicked = Stuck(Server, torn)]
<1>3. Ending(Server, accounts) /\ Server.world = Nobody
  <2>1. Good(Server, accounts) /\ world = Nobody /\ clients = Nobody /\ PanicNeedsBrokenFile
    BY <1>1 DEF IInv, Phases
  <2>2. DOMAIN Server.name_map = {}
    BY <2>1, ServerIs DEF Good, Tables, Nobody
  <2> QED
    BY <2>1, <2>2, ServerIs DEF Ending, Good, Files, PanicNeedsBrokenFile
<1>4. /\ Ending(s, accounts) /\ (~s.panicked => Good(s, accounts))
      /\ \A c \in DOMAIN s.clients : <<s.clients[c].wire, s.clients[c].name>> \in restart_file
      /\ s.from = from
  BY <1>3, BackGood, ServerIs DEF IInv, OtherTypes, ToRestart
<1>5. \/ s.panicked /\ ExitWith(s) /\ UNCHANGED restart_file
      \/ /\ ~s.panicked /\ Remembers(s)
         /\ phase' = "running" /\ panicked' = FALSE /\ restart_file' = {} /\ lost' = lost
  BY <1>2
<1> HIDE DEF s
<1>6. \A w \in DOMAIN conns : ~conns[w].client => Leaving(w, to') \/ w \in lost
  <2>1. SUFFICES ASSUME NEW w \in DOMAIN conns, ~conns[w].client, ~Leaving(w, to')
                 PROVE  w \in lost
    OBVIOUS
  <2>2. w \in Wires /\ ~Within(w, from)
    BY <1>1 DEF IInv, OtherTypes, Within
  <2>3. Leaving(w, to) \/ w \in lost
    BY <1>1, <2>1, <2>2 DEF IInv, ClosesReported
  <2> QED
    BY <1>1, <2>2, <2>3 DEF IInv, UnreadIsLost, Leaving
<1>7. to' \in Seq(Requests) /\ pending_msgs' \in Seq(Requests)
  BY <1>1 DEF IInv, OtherTypes
<1>8. lost \subseteq Wires /\ restart_file \subseteq Wires \X Names
  BY DEF IInv, OtherTypes
<1>9. CASE s.panicked
  <2>1. Gone(s, accounts) /\ restart_file' = restart_file
    BY <1>4, <1>5, <1>8, <1>9, ExitIs
  <2>2. OtherTypes'
    BY <1>1, <1>7, <2>1 DEF IInv, OtherTypes, Gone
  <2>3. Good(Server', accounts') /\ PanicNeedsBrokenFile' /\ UnreadIsLost'
    BY <1>1, <2>1 DEF Gone, UnreadIsLost
  <2>4. Phases' /\ ClientsHeld'
    <3>1. Phases'
      BY <1>1, <2>1 DEF Gone, Phases
    <3>2. DOMAIN clients' = {}
      BY <2>1 DEF Gone, Nobody
    <3> QED
      BY <3>1, <3>2 DEF ClientsHeld
  <2>5. ClosesReported'
    BY <1>1, <1>6, <2>1 DEF ClosesReported, Gone
  <2>6. ToRestart'
    BY <1>1, <2>1 DEF IInv, ToRestart
  <2> QED
    BY <2>2, <2>3, <2>4, <2>5, <2>6 DEF IInv
<1>10. CASE ~s.panicked
  <2>1. /\ Remembers(s) /\ phase' = "running" /\ panicked' = FALSE
        /\ restart_file' = {} /\ lost' = lost /\ Good(s, accounts)
    BY <1>4, <1>5, <1>10
  <2>2. Good(Server', accounts') /\ clients' = s.clients /\ from' = from
    <3>1. s.panicked = panicked'
      BY <1>10, <2>1 DEF Good, Types
    <3> QED
      BY <1>1, <1>4, <2>1, <3>1, RemembersIs
  <2>3. OtherTypes'
    BY <1>1, <1>7, <2>1 DEF IInv, OtherTypes
  <2>4. PanicNeedsBrokenFile' /\ UnreadIsLost' /\ Phases' /\ ToRestart'
    BY <1>1, <2>1 DEF PanicNeedsBrokenFile, UnreadIsLost, Phases, ToRestart, Unshared
  <2>5. ClosesReported'
    BY <1>1, <1>6, <2>1 DEF ClosesReported
  <2>6. ClientsHeld'
    <3>1. SUFFICES ASSUME NEW c \in DOMAIN clients', clients'[c].name \notin ghosts'
                   PROVE  Held(clients[c].wire)'
      BY DEF ClientsHeld
    <3>2. \A p \in restart_file : p[2] \notin ghosts => Held(p[1])
      BY <1>1 DEF IInv, ToRestart
    <3>3. \A p \in restart_file : p[2] \notin ghosts => Held(p[1])'
      BY <1>1, <2>2, <3>2 DEF Held
    <3> QED
      BY <1>1, <1>4, <2>2, <3>1, <3>3
  <2> QED
    BY <2>2, <2>3, <2>4, <2>5, <2>6 DEF IInv
<1> QED
  BY <1>9, <1>10

LEMMA BackendGoneKeeps ==
    ASSUME IInv, NEW torn \in BOOLEAN, BackendGone(torn)
    PROVE  IInv'
<1>1. CASE restarting
  BY <1>1, RestartKeeps
<1>2. CASE ~restarting
  <2>1. /\ phase = "gone" /\ phase' = "exited"
        /\ UNCHANGED <<wrapper, to, from, clients, wire_map, name_map, world, files,
                       panicked, unsaved, lost, rest>>
    BY <1>2 DEF BackendGone, wrapper, rest
  <2> QED
    BY <2>1, ExitedKeeps
<1> QED
  BY <1>1, <1>2

-----------------------------------------------------------------------------
(* The theorems.                                                           *)

LEMMA InitKeeps == Init => IInv
<1> SUFFICES ASSUME Init PROVE IInv
  OBVIOUS
<1> USE DEF Init
<1>1. DOMAIN Nobody = {} /\ \A S : Nobody \in [DOMAIN Nobody -> S]
  BY DEF Nobody
<1>2. from \in Seq(Wires) /\ to \in Seq(Requests) /\ pending_msgs \in Seq(Requests)
  OBVIOUS
<1>3. OtherTypes
  <2>1. DOMAIN conns \subseteq Wires /\ conns \in [DOMAIN conns -> Sides]
    BY <1>1
  <2>2. commands \in 0 .. MaxCommands
    BY BoundsAssumption
  <2> QED
    BY <1>2, <2>1, <2>2 DEF OtherTypes
<1>4. Types(Server)
  BY <1>1, <1>2, ServerIs DEF Types, States
<1>5. Tables(Server) /\ Files(Server, accounts) /\ Progress(Server)
  BY <1>1, ServerIs DEF Tables, Files, Progress
<1>6. PanicNeedsBrokenFile /\ Phases /\ UnreadIsLost /\ ToRestart
  BY DEF PanicNeedsBrokenFile, Phases, UnreadIsLost, ToRestart, Unshared
<1>7. ClosesReported /\ ClientsHeld
  BY <1>1 DEF ClosesReported, ClientsHeld
<1> QED
  BY <1>3, <1>4, <1>5, <1>6, <1>7 DEF IInv, Good

LEMMA PlayersKeep == ASSUME IInv, Players PROVE IInv'
<1>1. PICK w \in Wires :
        \/ Open(w) \/ Close(w) \/ Send(w, "bad", NoName)
        \/ \E n \in Names : Send(w, "login", n) \/ Send(w, "register", n)
  BY DEF Players
<1>2. CASE Open(w)
  BY <1>2, OpenKeeps
<1>3. CASE Close(w)
  BY <1>3, CloseKeeps
<1>4. CASE Send(w, "bad", NoName)
  <2>1. Request(w, "bad", NoName) \in Requests
    BY DEF Request, Requests
  <2> QED
    BY <1>4, <2>1, SendKeeps
<1>5. ASSUME NEW n \in Names, Send(w, "login", n) \/ Send(w, "register", n)
      PROVE  IInv'
  <2>1. Request(w, "login", n) \in Requests /\ Request(w, "register", n) \in Requests
    BY DEF Request, Requests
  <2> QED
    BY <1>5, <2>1, SendKeeps
<1> QED
  BY <1>1, <1>2, <1>3, <1>4, <1>5

LEMMA EngineKeeps == ASSUME IInv, Engine PROVE IInv'
<1>1. ASSUME NEW ok \in BOOLEAN, NEW torn \in BOOLEAN, HandleLogin(ok, torn) PROVE IInv'
  BY <1>1, LoginKeeps
<1>2. ASSUME NEW ok \in BOOLEAN, HandleRegister(ok) PROVE IInv'
  BY <1>2, RegisterKeeps
<1>3. ASSUME NEW ok \in BOOLEAN, HandleBadRequest(ok) PROVE IInv'
  BY <1>3, KickKeeps DEF HandleBadRequest
<1>4. ASSUME NEW ok \in BOOLEAN, CloseWire(ok) PROVE IInv'
  BY <1>4, KickKeeps DEF CloseWire
<1>5. ASSUME NEW oks, HandleShutdown(oks) \/ HandleRestart(oks) PROVE IInv'
  BY <1>5, ShutdownKeeps
<1> QED
  BY <1>1, <1>2, <1>3, <1>4, <1>5 DEF Engine

LEMMA NextKeeps == IInv /\ [Next]_vars => IInv'
<1> SUFFICES ASSUME IInv, [Next]_vars PROVE IInv'
  OBVIOUS
<1>1. CASE Players
  BY <1>1, PlayersKeep
<1>2. CASE Operator
  BY <1>2, ControlKeeps DEF Operator
<1>3. CASE Engine
  BY <1>3, EngineKeeps
<1>4. CASE Removed
  BY <1>4, RemovedKeeps
<1>5. CASE BackendEnds
  BY <1>5, BackendGoneKeeps DEF BackendEnds
<1>6. CASE BrokenPipe
  BY <1>6, ExitedKeeps DEF BrokenPipe
<1>7. CASE UNCHANGED vars
  <2>1. UNCHANGED <<conns, restarting, suspended, pending_msgs, commands, to, from, phase,
                    clients, wire_map, name_map, world, files, panicked, unsaved, lost,
                    accounts, restart_file, ghosts>>
    BY <1>7 DEF vars, wrapper, engine, rest
  <2>2. from' \in Seq(Wires) /\ restarting' = suspended'
    BY <2>1, ServerIs DEF IInv, Good, Types, Phases
  <2>3. OtherTypes' /\ ClosesReported' /\ UnreadIsLost'
    BY <2>1 DEF IInv, OtherTypes, ClosesReported, UnreadIsLost
  <2>4. \A x : Held(x) => Held(x)'
    BY <2>1 DEF Held
  <2> QED
    BY <2>1, <2>2, <2>3, <2>4, WrapperKeeps
<1> QED
  BY <1>1, <1>2, <1>3, <1>4, <1>5, <1>6, <1>7 DEF Next

(* The engine's state is good between two handlers, and the wrapper's and  *)
(* the pipes' is what that takes: the closes of sockets are reported, the  *)
(* restart file names nobody twice.                                        *)
THEOREM IInvHolds == Spec => []IInv
  BY InitKeeps, NextKeeps, PTL DEF Spec

(* Every variable of the wrapper and of the engine has its type, however   *)
(* many players come and go and restarts there are.                        *)
THEOREM TypeCorrect == Spec => []TypeOK
<1>1. IInv => TypeOK
  <2> SUFFICES ASSUME IInv PROVE TypeOK
    OBVIOUS
  <2>1. OtherTypes /\ Types(Server) /\ suspended = restarting
    BY DEF IInv, Good, Phases
  <2> QED
    BY <2>1, ServerIs DEF OtherTypes, Types, States, TypeOK
<1> QED
  BY <1>1, IInvHolds, PTL

(* Whoever is logged in is entered once, and is connected: a second login, *)
(* a connection that closed or a restart leaves nobody behind in Messages. *)
THEOREM SessionsAgreeHolds == Spec => []SessionsAgree
<1>1. IInv => TablesAgree
  BY ServerIs DEF IInv, Good, Tables, TablesAgree
<1>2. IInv => SessionsConnected
  <2>1. SUFFICES ASSUME IInv, NEW c \in DOMAIN clients, clients[c].name \notin ghosts
                 PROVE  LET w == clients[c].wire IN
                        /\ w \in DOMAIN conns /\ conns[w].backend
                        /\ \/ conns[w].client \/ w \in lost
                           \/ Leaving(w, to) \/ Leaving(w, pending_msgs)
    BY DEF SessionsConnected, Leaving
  <2>2. Held(clients[c].wire)
    BY <2>1 DEF IInv, ClientsHeld
  <2> QED
    BY <2>1, <2>2 DEF IInv, ClosesReported, Held
<1> QED
  BY <1>1, <1>2, IInvHolds, PTL DEF SessionsAgree

(* A player finds what he left, unless saving it failed.                   *)
THEOREM OwnProgressHolds == Spec => []OwnProgress
<1>1. IInv => OwnProgress
  BY ServerIs DEF IInv, Good, Progress, OwnProgress
<1> QED
  BY <1>1, IInvHolds, PTL

(* Nothing but a client that could not be saved makes the engine panic.    *)
THEOREM PanicNeedsBrokenFileHolds == Spec => []PanicNeedsBrokenFile
<1>1. IInv => PanicNeedsBrokenFile
  BY DEF IInv
<1> QED
  BY <1>1, IInvHolds, PTL
=============================================================================
