------------------------------- MODULE Session -------------------------------
(***************************************************************************)
(* Connections, log-ins and restarts: the wrapper process, which keeps the *)
(* sockets over a restart (websocket.cpp, server.cpp, backend.cpp), and    *)
(* the engine, which logs players in and out (engine/mod.rs, messages/,    *)
(* logic/client.rs, logic/lifecycle.rs).  The pipes between them keep the  *)
(* order.  A wire id is given out again only after 65535 others: here,     *)
(* when no message names it.  Saving a player may fail at any time.        *)
(***************************************************************************)
EXTENDS Integers, Sequences

CONSTANTS Wires, Names, Cids,
          NoName,         \* of the requests that carry none
          MaxQueue,       \* bound: requests on the way to the engine
          MaxOut,         \* bound: answers on the way to the wrapper
          MaxCommands     \* bound: restarts and shutdowns asked for

ASSUME CidsAssumption == Cids \subseteq Nat
ASSUME BoundsAssumption == {MaxQueue, MaxOut, MaxCommands} \subseteq Nat

VARIABLES
    conns,          \* wrapper: wire -> whether its two sides are connected
    restarting, suspended, pending_msgs,
    commands,       \* how many commands were given
    to, from,       \* the pipes: requests; the wires of CLIENT_REMOVED
    phase,          \* "running", "gone" (the backend has exited), "exited"
    clients, wire_map, name_map,      \* Messages.clients
    world,          \* client id -> name, and whether it had the latest data
    accounts,       \* the names in the auth database
    files,          \* name -> the state of the client file
    restart_file,   \* the <<wire, name>> to log in again
    panicked,       \* a panic has ended a backend
    unsaved,        \* the names whose data was not saved
    ghosts,         \* the names logged in on a wire that was closed already
    lost            \* the wires whose messages went with a backend, since opened

wrapper == <<conns, restarting, suspended, pending_msgs, commands>>
engine  == <<phase, clients, wire_map, name_map, world, files, panicked, unsaved, lost>>
rest    == <<accounts, restart_file, ghosts>>
vars    == <<wrapper, to, from, engine, rest>>

Nobody == << >>          \* an empty map
Without(f, x) == [y \in DOMAIN f \ {x} |-> f[y]]
With(f, x, v) == [y \in DOMAIN f \cup {x} |-> IF y = x THEN v ELSE f[y]]

Init ==
    /\ conns = Nobody /\ restarting = FALSE /\ suspended = FALSE
    /\ pending_msgs = << >> /\ commands = 0
    /\ to = << >> /\ from = << >> /\ phase = "running"
    /\ clients = Nobody /\ wire_map = Nobody /\ name_map = Nobody /\ world = Nobody
    /\ accounts = {} /\ files = [n \in Names |-> "none"] /\ restart_file = {}
    /\ panicked = FALSE /\ unsaved = {} /\ ghosts = {} /\ lost = {}

Request(w, kind, n) == [wire |-> w, kind |-> kind, name |-> n]
Command(kind) == Request(0, kind, NoName)

-----------------------------------------------------------------------------
(* What the handlers of the engine are made of: functions of its state.    *)

Server == [clients |-> clients, wire_map |-> wire_map, name_map |-> name_map,
           world |-> world, files |-> files, from |-> from,
           unsaved |-> unsaved, panicked |-> panicked]

Remembers(s) ==
    /\ clients' = s.clients /\ wire_map' = s.wire_map /\ name_map' = s.name_map
    /\ world' = s.world /\ files' = s.files /\ from' = s.from
    /\ unsaved' = s.unsaved /\ Len(s.from) <= MaxOut

(* The engine ends: nothing is left of its memory or of what it had not    *)
(* read, and the thread that writes the answers goes with it, however far  *)
(* it is.                                                                  *)
ExitWith(s) ==
    /\ phase' = "gone" /\ panicked' = s.panicked
    /\ \E k \in 0 .. Len(s.from) :
        /\ Remembers([s EXCEPT !.clients = Nobody, !.wire_map = Nobody, !.name_map = Nobody,
                               !.world = Nobody, !.from = SubSeq(@, 1, k),
                               !.unsaved = @ \cup {s.world[c].name : c \in DOMAIN s.world}])
        /\ lost' = lost \cup {s.from[j] : j \in k + 1 .. Len(s.from)}
                        \cup ({to'[j].wire : j \in DOMAIN to'} \cap Wires)

(* The state after a handler, which may have panicked. *)
Become(s) ==
    IF s.panicked THEN ExitWith(s)
    ELSE Remembers(s) /\ UNCHANGED <<phase, panicked, lost>>

AddClient(s, cid, w, n) ==
    [s EXCEPT !.clients = With(@, cid, [wire |-> w, name |-> n]),
              !.wire_map = With(@, w, cid), !.name_map = With(@, n, cid)]

RemoveClient(s, cid) ==
    [s EXCEPT !.clients = Without(@, cid),
              !.wire_map = Without(@, s.clients[cid].wire),
              !.name_map = Without(@, s.clients[cid].name)]

(* A file is created, and so emptied, before it is known that saving works. *)
SaveClient(s, n, ok) ==
    [s EXCEPT !.files[n] = IF ok THEN "latest" ELSE "broken",
              !.unsaved = IF ok THEN @ ELSE @ \cup {n}]

MutLogout(s, cid, ok) ==      \* the client is left in the world
    IF cid \notin DOMAIN s.clients THEN [s EXCEPT !.panicked = TRUE]
    ELSE SaveClient(RemoveClient(s, cid), s.world[cid].name, ok)

(* Removed from Messages first, which must know it; destroyed only when it *)
(* could be saved.                                                         *)
Logout(s, cid, ok) ==
    IF cid \notin DOMAIN s.clients THEN [s EXCEPT !.panicked = TRUE]
    ELSE LET t == SaveClient(RemoveClient(s, cid), s.world[cid].name, ok) IN
         IF ok THEN [t EXCEPT !.world = Without(@, cid)] ELSE t

WireClosed(s, w) == [s EXCEPT !.from = Append(@, w)]

KickClient(s, cid, ok) == WireClosed(Logout(s, cid, ok), s.clients[cid].wire)

(* IdMap gives out the least free id. *)
FreeIds(s) == Cids \ DOMAIN s.world
FreeId(s)  == CHOOSE i \in FreeIds(s) : \A j \in FreeIds(s) : i <= j

(* The world plays on, so the file is outdated as soon as it is loaded.    *)
(* Reading on at the end of a torn file is a panic, other faults in it are *)
(* an error, after which nothing is left of the load.                      *)
Load(s, w, n, torn) ==
    CASE s.panicked \/ s.files[n] = "none" -> s
      [] s.files[n] = "broken" -> [s EXCEPT !.panicked = torn]
      [] OTHER ->
            LET cid == FreeId(s)
                t == AddClient(s, cid, w, n)
            IN  [t EXCEPT !.world = With(@, cid, [name |-> n,
                                                  latest |-> s.files[n] = "latest"]),
                          !.files[n] = "outdated"]

MutLogin(s, w, n, ok, torn) ==      \* the new client is loaded before the old is kicked
    LET t == Load(s, w, n, torn) IN
    IF n \in DOMAIN s.name_map THEN KickClient(t, s.name_map[n], ok) ELSE t

Login(s, w, n, ok, torn) ==
    Load(IF n \in DOMAIN s.name_map THEN KickClient(s, s.name_map[n], ok) ELSE s, w, n, torn)

(* Until there is no client, the first one is logged out: the one that     *)
(* could not be saved is still there, and logged out twice, which is a     *)
(* panic, as it is of one that Messages does not know.                     *)
ShutDown(s, oks) ==
    LET fails == {c \in DOMAIN s.world : c \notin DOMAIN s.clients \cap oks}
        saved == {c \in DOMAIN s.world : \A d \in fails : c < d}
        torn  == {c \in fails \cap DOMAIN s.clients : \A d \in fails : c <= d}
        Named(cs) == {s.world[c].name : c \in cs}
    IN  [s EXCEPT !.world = [c \in DOMAIN @ \ saved |-> @[c]],
                  !.files = [n \in Names |-> CASE n \in Named(torn) -> "broken"
                                               [] n \in Named(saved) -> "latest"
                                               [] OTHER -> @[n]],
                  !.panicked = fails # {}]

(* post_restart: everybody whom the restart file names is loaded, in some  *)
(* order, unless a torn file is a panic on the way.  Nobody is in it twice *)
(* (TablesAgree), so that nobody is kicked.                                *)
Back(s, who) ==
    [s EXCEPT !.clients = [c \in DOMAIN who |-> [wire |-> who[c][1], name |-> who[c][2]]],
              !.wire_map = [w \in {who[c][1] : c \in DOMAIN who} |->
                                CHOOSE c \in DOMAIN who : who[c][1] = w],
              !.name_map = [n \in {who[c][2] : c \in DOMAIN who} |->
                                CHOOSE c \in DOMAIN who : who[c][2] = n],
              !.world = [c \in DOMAIN who |-> [name |-> who[c][2],
                                               latest |-> s.files[who[c][2]] = "latest"]],
              !.files = [n \in Names |-> IF \E c \in DOMAIN who : who[c][2] = n
                                          THEN "outdated" ELSE @[n]]]

Stuck(s, torn) == torn /\ \E p \in restart_file : s.files[p[2]] = "broken"
Readable(s) == {p \in restart_file : s.files[p[2]] \notin {"none", "broken"}}

(* By the ids they are given, the least that are free.                     *)
Returning(s, torn) ==
    {who \in UNION {[ids -> Readable(s)] : ids \in SUBSET Cids} :
        /\ \A c, d \in DOMAIN who : who[c] = who[d] => c = d
        /\ \A c \in DOMAIN who, d \in Cids \ DOMAIN who : c < d
        /\ Stuck(s, torn) \/ {who[c] : c \in DOMAIN who} = Readable(s)}

-----------------------------------------------------------------------------
(* The wrapper.                                                            *)

MutWrite(msg) ==         \* what comes during a restart is dropped
    /\ phase = "running" \/ suspended
    /\ Len(to) < MaxQueue
    /\ to' = IF suspended THEN to ELSE Append(to, msg)
    /\ UNCHANGED pending_msgs

Write(msg) ==
    /\ phase = "running" \/ suspended
    /\ Len(to) + Len(pending_msgs) < MaxQueue
    /\ IF suspended THEN pending_msgs' = Append(pending_msgs, msg) /\ UNCHANGED to
       ELSE to' = Append(to, msg) /\ UNCHANGED pending_msgs

(* Writing to a backend that is gone fails an assertion. *)
BrokenPipe ==
    /\ phase = "gone" /\ ~suspended
    /\ phase' = "exited"
    /\ UNCHANGED <<wrapper, to, from, clients, wire_map, name_map, world, files,
                   panicked, unsaved, lost, rest>>

Mentioned(w) ==
    \/ \E k \in DOMAIN to : to[k].wire = w
    \/ \E k \in DOMAIN pending_msgs : pending_msgs[k].wire = w
    \/ \E k \in DOMAIN from : from[k] = w

(* ADD_CLIENT, which is written then, has no effect on the engine. *)
Open(w) ==
    /\ phase # "exited" /\ w \notin DOMAIN conns /\ ~Mentioned(w)
    /\ conns' = With(conns, w, [client |-> TRUE, backend |-> TRUE])
    /\ lost' = lost \ {w}
    /\ UNCHANGED <<restarting, suspended, pending_msgs, commands, to, from, phase, clients,
                   wire_map, name_map, world, files, panicked, unsaved, rest>>

(* handle_message: not for a connection the backend has dropped. *)
Send(w, kind, n) ==
    /\ phase # "exited" /\ w \in DOMAIN conns /\ conns[w].client /\ conns[w].backend
    /\ Write(Request(w, kind, n))
    /\ UNCHANGED <<conns, restarting, suspended, commands, from, engine, rest>>

(* handle_close, by the player or at the wrapper's own request. *)
Close(w) ==
    /\ phase # "exited" /\ w \in DOMAIN conns /\ conns[w].client
    /\ IF conns[w].backend
       THEN /\ conns' = [conns EXCEPT ![w].client = FALSE]
            /\ Write(Request(w, "remove", NoName))
       ELSE conns' = Without(conns, w) /\ UNCHANGED <<to, pending_msgs>>
    /\ UNCHANGED <<restarting, suspended, commands, from, engine, rest>>

MutRemoved ==            \* the id is kept until the socket closes
    /\ phase # "exited" /\ from # << >>
    /\ from' = Tail(from)
    /\ LET w == Head(from) IN
       conns' = IF w \notin DOMAIN conns THEN conns
                ELSE [conns EXCEPT ![w].backend = FALSE]
    /\ UNCHANGED <<restarting, suspended, pending_msgs, commands, to, engine, rest>>

(* handle_client_removed *)
Removed ==
    /\ phase # "exited" /\ from # << >>
    /\ from' = Tail(from)
    /\ LET w == Head(from) IN
       conns' = IF w \notin DOMAIN conns THEN conns
                ELSE IF ~conns[w].client THEN Without(conns, w)
                ELSE [conns EXCEPT ![w].backend = FALSE]
    /\ UNCHANGED <<restarting, suspended, pending_msgs, commands, to, engine, rest>>

(* handle_control_command; the command itself is written first. *)
Control(kind) ==
    /\ phase # "exited" /\ commands < MaxCommands
    /\ commands' = commands + 1
    /\ Write(Command(kind))
    /\ restarting' = (restarting \/ kind = "restart")
    /\ suspended' = (suspended \/ kind = "restart")
    /\ UNCHANGED <<conns, from, engine, rest>>

(* The end of the backend's output.  A restart starts it again, which logs *)
(* in whom the restart file names, and then gets what was held back;       *)
(* otherwise the wrapper exits too.                                        *)
BackendGone(torn) ==
    /\ phase = "gone" /\ from = << >>
    /\ IF restarting
       THEN /\ restarting' = FALSE /\ suspended' = FALSE
            /\ to' = pending_msgs /\ pending_msgs' = << >>
            /\ \E who \in Returning(Server, torn) :
                LET s == [Back(Server, who) EXCEPT !.panicked = Stuck(Server, torn)]
                IN IF s.panicked THEN ExitWith(s) /\ UNCHANGED restart_file
                   ELSE /\ Remembers(s)
                        /\ phase' = "running" /\ panicked' = FALSE /\ restart_file' = {}
                        /\ UNCHANGED lost
       ELSE /\ phase' = "exited"
            /\ UNCHANGED <<restarting, suspended, pending_msgs, to, from, clients, wire_map,
                           name_map, world, files, panicked, unsaved, lost, restart_file>>
    /\ UNCHANGED <<conns, commands, accounts, ghosts>>

-----------------------------------------------------------------------------
(* The engine's handlers, each for the first request on the pipe.          *)

Handle(kind) ==
    /\ phase = "running" /\ to # << >> /\ Head(to).kind = kind
    /\ to' = Tail(to)
    /\ UNCHANGED wrapper

LoggedIn(w) == w \in DOMAIN wire_map

(* The client with its wire, or the wire alone. *)
Kick(w, ok) ==
    IF LoggedIn(w) THEN KickClient(Server, wire_map[w], ok) ELSE WireClosed(Server, w)

(* The engine has had the wire closed. *)
Closed(w) == w \notin DOMAIN conns \/ ~conns[w].backend \/ \E k \in DOMAIN from : from[k] = w

(* Who is logged in already may not log in: that is a bad request. *)
HandleLogin(ok, torn) ==
    /\ Handle("login")
    /\ LET w == Head(to).wire
           n == Head(to).name
       IN  IF LoggedIn(w) \/ n \notin accounts
           THEN Become(Kick(w, ok)) /\ UNCHANGED ghosts
           ELSE /\ FreeIds(Server) # {}
                /\ Become(Login(Server, w, n, ok, torn))
                /\ ghosts' = IF Closed(w) THEN ghosts \cup {n} ELSE ghosts \ {n}
    /\ UNCHANGED <<accounts, restart_file>>

(* A name that is in use is refused.  The new player's client is made in   *)
(* the world only to be saved; it is left there when it cannot be.         *)
HandleRegister(ok) ==
    /\ Handle("register")
    /\ LET w == Head(to).wire
           n == Head(to).name
           saved == SaveClient(Server, n, ok)
       IN  IF LoggedIn(w) THEN Become(Kick(w, ok)) /\ UNCHANGED accounts
           ELSE IF n \in accounts THEN Become(Server) /\ UNCHANGED accounts
           ELSE /\ FreeIds(Server) # {}
                /\ accounts' = accounts \cup {n}
                /\ Become(IF ok THEN saved
                          ELSE [saved EXCEPT !.world =
                                    With(@, FreeId(Server), [name |-> n, latest |-> TRUE])])
    /\ UNCHANGED <<restart_file, ghosts>>

HandleBadRequest(ok) ==
    /\ Handle("bad")
    /\ Become(Kick(Head(to).wire, ok))
    /\ UNCHANGED rest

(* CloseWire: the client is logged out, and the wire answered for anyhow. *)
CloseWire(ok) ==
    /\ Handle("remove")
    /\ Become(Kick(Head(to).wire, ok))
    /\ UNCHANGED rest

HandleShutdown(oks) ==
    /\ Handle("shutdown")
    /\ ExitWith(ShutDown(Server, oks))
    /\ UNCHANGED rest

(* pre_restart notes who is logged in, and shut_down follows. *)
HandleRestart(oks) ==
    /\ Handle("restart")
    /\ restart_file' = {<<clients[c].wire, world[c].name>> : c \in DOMAIN clients}
    /\ ExitWith(ShutDown(Server, oks))
    /\ UNCHANGED <<accounts, ghosts>>

-----------------------------------------------------------------------------

Players ==
    \E w \in Wires :
        \/ Open(w) \/ Close(w) \/ Send(w, "bad", NoName)
        \/ \E n \in Names : Send(w, "login", n) \/ Send(w, "register", n)

Operator == Control("shutdown") \/ Control("restart")

Engine ==
    \/ \E ok, torn \in BOOLEAN : HandleLogin(ok, torn)
    \/ \E ok \in BOOLEAN :
            HandleRegister(ok) \/ HandleBadRequest(ok) \/ CloseWire(ok)
    \/ \E oks \in SUBSET DOMAIN world : HandleShutdown(oks) \/ HandleRestart(oks)

BackendEnds == \E torn \in BOOLEAN : BackendGone(torn)

Next == Players \/ Operator \/ Engine \/ Removed \/ BackendEnds \/ BrokenPipe

(* The processes read their pipes, and websocketpp closes the socket it    *)
(* was told to close.                                                      *)
Fairness ==
    /\ WF_vars(Engine) /\ WF_vars(Removed) /\ WF_vars(BackendEnds)
    /\ \A w \in Wires : WF_vars(w \in DOMAIN conns /\ ~conns[w].backend /\ Close(w))

Spec == Init /\ [][Next]_vars /\ Fairness

-----------------------------------------------------------------------------

Requests ==
    [wire : Wires, kind : {"login", "register"}, name : Names]
        \cup [wire : Wires, kind : {"bad", "remove"}, name : {NoName}]
        \cup [wire : {0}, kind : {"shutdown", "restart"}, name : {NoName}]
Sides == [client : BOOLEAN, backend : BOOLEAN] \ {[client |-> FALSE, backend |-> FALSE]}

TypeOK ==
    /\ DOMAIN conns \subseteq Wires /\ conns \in [DOMAIN conns -> Sides]
    /\ restarting \in BOOLEAN /\ suspended \in BOOLEAN /\ commands \in 0 .. MaxCommands
    /\ pending_msgs \in Seq(Requests) /\ to \in Seq(Requests) /\ from \in Seq(Wires)
    /\ phase \in {"running", "gone", "exited"}
    /\ DOMAIN clients \cup DOMAIN world \subseteq Cids
    /\ clients \in [DOMAIN clients -> [wire : Wires, name : Names]]
    /\ world \in [DOMAIN world -> [name : Names, latest : BOOLEAN]]
    /\ DOMAIN wire_map \subseteq Wires /\ wire_map \in [DOMAIN wire_map -> Cids]
    /\ DOMAIN name_map \subseteq Names /\ name_map \in [DOMAIN name_map -> Cids]
    /\ files \in [Names -> {"none", "latest", "outdated", "broken"}]
    /\ restart_file \subseteq Wires \X Names
    /\ accounts \cup unsaved \cup ghosts \subseteq Names /\ lost \subseteq Wires
    /\ panicked \in BOOLEAN

(* Messages' three tables are about the same clients, one for each wire    *)
(* and each name, and each is in the world under its name: neither a       *)
(* second login nor a restart leaves one entered twice.                    *)
TablesAgree ==
    /\ DOMAIN wire_map = {clients[c].wire : c \in DOMAIN clients}
    /\ DOMAIN name_map = {clients[c].name : c \in DOMAIN clients}
    /\ \A c \in DOMAIN clients :
        /\ wire_map[clients[c].wire] = c /\ name_map[clients[c].name] = c
        /\ c \in DOMAIN world /\ world[c].name = clients[c].name

(* Whoever is logged in has a socket, or the news that it closed is on its *)
(* way or held back for the next backend, or went with a backend that had  *)
(* more than one restart to read.  Not so for a wire that logs in after it *)
(* was kicked, before the wrapper knows: nobody logs it out.               *)
SessionsConnected ==
    \A c \in DOMAIN clients : clients[c].name \notin ghosts =>
        LET w == clients[c].wire
            Left(q) == \E k \in DOMAIN q : q[k].wire = w /\ q[k].kind = "remove"
        IN  /\ w \in DOMAIN conns /\ conns[w].backend
            /\ conns[w].client \/ Left(to) \/ Left(pending_msgs) \/ w \in lost

(* Who is logged in is entered once, and connected.                        *)
SessionsAgree == TablesAgree /\ SessionsConnected

(* A player comes back to what he left: the client that is kicked is saved *)
(* before the next one is loaded, over restarts as well.  Only a save that *)
(* failed, or the panic it leads to, loses anything.                       *)
OwnProgress == \A c \in DOMAIN world : world[c].latest \/ world[c].name \in unsaved

(* Only a client that could not be saved makes the engine panic: it stays  *)
(* in the world, unknown to Messages, where the shutdown trips over it, or *)
(* logs in again from the file it left.                                    *)
PanicNeedsBrokenFile == panicked => \E n \in Names : files[n] = "broken"

(* A connection one side has closed is closed on the other side and its id *)
(* freed, over restarts as well, unless the message was lost with a        *)
(* backend that exited before writing it.                                  *)
ClosedIsFreed ==
    \A w \in Wires :
        (w \in DOMAIN conns /\ ~(conns[w].client /\ conns[w].backend))
            ~> (w \notin DOMAIN conns \/ w \in lost \/ phase = "exited")
=============================================================================
