----------------------------- MODULE Inventories -----------------------------
(***************************************************************************)
(* Inventories: what the requests and scripts of a server do to their      *)
(* contents (logic/items.rs), who is told (vision.rs), and what the        *)
(* browser shows of them (inventory.js, main.js).  The connection keeps    *)
(* the order of messages; a dialog opened by the server and one closed by  *)
(* the player may pass each other on it.  Client and inventory ids are     *)
(* used again.  An entry with count zero and a missing one are the same    *)
(* here: every reader treats them alike.                                   *)
(***************************************************************************)
EXTENDS Integers, SequencesExt

CONSTANTS Clients, Ids,       \* the ids of clients and of inventories
          Items, Recipes,
          Inputs, Outputs,    \* recipe -> item -> how many, zero for none
          U8Max,              \* u8::MAX
          Requests,           \* the u16 counts clients ask for
          Adjusts,            \* what scripts add to a count
          MaxOpen,            \* bound: the references of a client
          MaxQueue            \* bound: the messages on the way to a client

ASSUME CountsAssumption ==
    /\ IsFiniteSet(Items)
    /\ U8Max \in Nat \ {0} /\ Requests \subseteq Nat /\ Adjusts \subseteq Int
    /\ Inputs \in [Recipes -> [Items -> 0 .. U8Max]]
    /\ Outputs \in [Recipes -> [Items -> 0 .. U8Max]]
ASSUME BoundsAssumption == MaxOpen \in Nat /\ MaxQueue \in Nat

VARIABLES
    contents,            \* inventory -> item -> count, for those that exist
    online,              \* the clients in Vision.viewers
    visible_inventories, \* client -> inventory -> the viewer's references
    inventory_viewers,   \* inventory -> the clients entered under it
    down,                \* client -> the messages on the way to its browser
    up,                  \* client -> inventory -> UnsubscribeInventory on the way
    tracked,             \* client -> inventory -> what its browser keeps
    dialog,              \* client -> the inventories of the dialog it shows
    blank,               \* the pairs whose browser was not sent the contents
    orphan,              \* the pairs that had open what was destroyed
    crashed              \* the server has panicked

server == <<contents, visible_inventories, inventory_viewers>>
vars == <<contents, online, visible_inventories, inventory_viewers,
          down, up, tracked, dialog, blank, orphan, crashed>>

Counts   == [Items -> 0 .. U8Max]
Nothing  == [it \in Items |-> 0]
Exists   == DOMAIN contents
None     == [i \in Ids |-> 0]
Shown(c) == DOMAIN tracked[c]     \* what the browser of c has subscribed to
NoData   == << >>                 \* the browser has no inventory

Init ==
    /\ contents = << >> /\ online = {} /\ crashed = FALSE
    /\ visible_inventories = [c \in Clients |-> None]
    /\ inventory_viewers = [i \in Ids |-> {}]
    /\ down = [c \in Clients |-> << >>] /\ up = [c \in Clients |-> None]
    /\ tracked = [c \in Clients |-> NoData]
    /\ dialog = [c \in Clients |-> {}] /\ blank = {} /\ orphan = {}

-----------------------------------------------------------------------------
(* Counts.                                                                 *)

Least(S) == CHOOSE x \in S : \A y \in S : x <= y

(* Saturating in both directions. *)
UpdateItemCount(old, adjust) ==
    IF old + adjust < 0 THEN 0
    ELSE IF old + adjust > U8Max THEN U8Max ELSE old + adjust

MutMoveCount(from, to, it, count) == Least({contents[from][it], count})

(* As many as there are, as there is room for, and as are asked for. *)
MoveCount(from, to, it, count) ==
    Least({contents[from][it], U8Max - contents[to][it], count})

(* The request is cut to a u8 first. *)
CraftCount(i, r, count) ==
    Least({count % (U8Max + 1)}
        \cup {contents[i][it] \div Inputs[r][it] : it \in {x \in Items : Inputs[r][x] > 0}}
        \cup {(U8Max - contents[i][it]) \div Outputs[r][it] :
                                        it \in {x \in Items : Outputs[r][x] > 0}})

-----------------------------------------------------------------------------
(* Messages to the browsers.                                               *)

ContentsMsg(i, cs)   == [kind |-> "contents", inv |-> i, counts |-> cs]
UpdateMsg(i, it, n)  == [kind |-> "update", inv |-> i, item |-> it, new |-> n]
(* fresh: the inventories whose contents the server sends after it. *)
OpenMsg(s, fresh)    == [kind |-> "open", invs |-> s, fresh |-> fresh]
InventoryMsg(i, fresh) == [kind |-> "peek", inv |-> i, fresh |-> fresh]

Reports(i, items, cs) ==
    [k \in DOMAIN items |-> UpdateMsg(i, items[k], cs[items[k]])]

MutTold(i, msgs) ==      \* only a count that is there already is reported
    [c \in Clients |-> IF c \in inventory_viewers[i] \cap online
                       THEN SelectSeq(msgs, LAMBDA m : contents[i][m.item] > 0) ELSE << >>]

(* Everybody entered under the inventory is told.  Messages drops what is  *)
(* for a client that is not there.                                         *)
Told(i, msgs) ==
    [c \in Clients |-> IF c \in inventory_viewers[i] \cap online THEN msgs ELSE << >>]

Both(told, then) == [c \in Clients |-> told[c] \o then[c]]

(* update, for one entry: its hook tells of it at once. *)
Updated(cs, i, it, adjust) == [cs EXCEPT ![i][it] = UpdateItemCount(@, adjust)]

Becomes(cs, told) ==
    /\ contents' = cs
    /\ down' = Both(down, told)
    /\ \A c \in Clients : Len(down'[c]) <= MaxQueue
    /\ UNCHANGED <<online, visible_inventories, inventory_viewers,
                   up, tracked, dialog, blank, orphan, crashed>>

-----------------------------------------------------------------------------
(* Changes of contents.                                                    *)

CreateInventory(i) ==
    /\ i \notin Exists
    /\ contents' = [j \in Exists \cup {i} |-> IF j = i THEN Nothing ELSE contents[j]]
    /\ UNCHANGED <<online, visible_inventories, inventory_viewers,
                   down, up, tracked, dialog, blank, orphan, crashed>>

(* With the object it is attached to, or by a script.  Vision is not told: *)
(* whoever has it open goes on showing what was in it.                     *)
DestroyInventory(i) ==
    /\ i \in Exists
    /\ contents' = [j \in Exists \ {i} |-> contents[j]]
    /\ orphan' = orphan \cup {p \in online \X {i} : visible_inventories[p[1]][i] > 0}
    /\ UNCHANGED <<online, visible_inventories, inventory_viewers,
                   down, up, tracked, dialog, blank, crashed>>

(* A script adds to a count or takes from it. *)
Update(i, it, n) ==
    /\ i \in Exists
    /\ LET cs == Updated(contents, i, it, n) IN
        Becomes(cs, Told(i, Reports(i, <<it>>, cs[i])))

MoveItems(from, to, it, count) ==
    /\ {from, to} \subseteq Exists
    /\ LET n    == MoveCount(from, to, it, count)
           left == Updated(contents, from, it, -n)
           cs   == Updated(left, to, it, n)
       IN  /\ n > 0
           /\ Becomes(cs, Both(Told(from, Reports(from, <<it>>, left[from])),
                               Told(to, Reports(to, <<it>>, cs[to]))))

(* Inputs first, then outputs, each in the order of a hash table. *)
CraftRecipe(i, r, count) ==
    /\ i \in Exists
    /\ LET n     == CraftCount(i, r, count)
           taken == [it \in Items |-> UpdateItemCount(contents[i][it], -(n * Inputs[r][it]))]
           given == [it \in Items |-> UpdateItemCount(taken[it], n * Outputs[r][it])]
       IN  /\ n > 0
           /\ \E ins \in SetToSeqs({it \in Items : Inputs[r][it] > 0}),
                 outs \in SetToSeqs({it \in Items : Outputs[r][it] > 0}) :
                Becomes([contents EXCEPT ![i] = given],
                        Told(i, Reports(i, ins, taken) \o Reports(i, outs, given)))

-----------------------------------------------------------------------------
(* Subscriptions.                                                          *)

Unseen(c, S) == {i \in S : visible_inventories[c][i] = 0}

(* The first reference enters the client and sends the contents. *)
Fresh(c, i) == IF visible_inventories[c][i] = 0 THEN <<ContentsMsg(i, contents[i])>> ELSE << >>

Subscribed(c, S, msgs) ==
    /\ FoldFunction(+, 0, visible_inventories[c]) + Cardinality(S) <= MaxOpen
    /\ visible_inventories' = [visible_inventories EXCEPT
            ![c] = [i \in Ids |-> IF i \in S THEN @[i] + 1 ELSE @[i]]]
    /\ inventory_viewers' = [i \in Ids |->
            IF i \in Unseen(c, S) THEN inventory_viewers[i] \cup {c}
            ELSE inventory_viewers[i]]
    /\ down' = [down EXCEPT ![c] = @ \o msgs]
    /\ Len(down'[c]) <= MaxQueue

AddClient(c) ==
    /\ c \notin online
    /\ online' = online \cup {c}
    /\ UNCHANGED <<contents, visible_inventories, inventory_viewers,
                   down, up, tracked, dialog, blank, orphan, crashed>>

(* The viewer and its references are dropped; inventory_viewers is not     *)
(* looked at.  The connection and the browser's page go with the client.   *)
RemoveClient(c) ==
    /\ c \in online
    /\ online' = online \ {c}
    /\ visible_inventories' = [visible_inventories EXCEPT ![c] = None]
    /\ down' = [down EXCEPT ![c] = << >>]
    /\ up' = [up EXCEPT ![c] = None]
    /\ tracked' = [tracked EXCEPT ![c] = NoData]
    /\ dialog' = [dialog EXCEPT ![c] = {}]
    /\ blank' = {p \in blank : p[1] # c}
    /\ orphan' = {p \in orphan : p[1] # c}
    /\ UNCHANGED <<contents, inventory_viewers, crashed>>

(* The browser answers this dialog by closing it at once. *)
OpenInventory(c, i) ==
    /\ c \in online /\ i \in Exists
    /\ Subscribed(c, {i}, <<InventoryMsg(i, Unseen(c, {i}))>> \o Fresh(c, i))
    /\ UNCHANGED <<contents, online, up, tracked, dialog, blank, orphan, crashed>>

OpenCrafting(c, i) ==
    /\ c \in online /\ i \in Exists
    /\ Subscribed(c, {i}, <<OpenMsg({i}, Unseen(c, {i}))>> \o Fresh(c, i))
    /\ UNCHANGED <<contents, online, up, tracked, dialog, blank, orphan, crashed>>

(* The second inventory is not looked up: sending the contents of one that *)
(* is gone is a panic.                                                     *)
OpenContainer(c, i, j) ==
    /\ c \in online /\ i \in Exists /\ i # j
    /\ IF j \in Exists \/ visible_inventories[c][j] > 0
       THEN /\ Subscribed(c, {i, j}, <<OpenMsg({i, j}, Unseen(c, {i, j}))>>
                                        \o Fresh(c, i) \o Fresh(c, j))
            /\ UNCHANGED <<contents, online, up, tracked, dialog, blank, orphan, crashed>>
       ELSE /\ crashed' = TRUE
            /\ UNCHANGED <<server, online, down, up, tracked, dialog, blank, orphan>>

MutUnsubscribe(c, i) ==      \* closing one of two dialogs ends the subscription
    /\ up[c][i] > 0
    /\ visible_inventories[c][i] > 0
    /\ up' = [up EXCEPT ![c][i] = @ - 1]
    /\ visible_inventories' = [visible_inventories EXCEPT ![c][i] = @ - 1]
    /\ inventory_viewers' = [inventory_viewers EXCEPT ![i] = @ \ {c}]
    /\ UNCHANGED <<contents, online, down, tracked, dialog, blank, orphan, crashed>>

(* UnsubscribeInventory.  Releasing what is not retained is a panic,       *)
(* although the caller relies on its doing nothing (logic/input.rs 40).    *)
Unsubscribe(c, i) ==
    /\ up[c][i] > 0
    /\ up' = [up EXCEPT ![c][i] = @ - 1]
    /\ IF visible_inventories[c][i] = 0
       THEN /\ crashed' = TRUE
            /\ UNCHANGED <<visible_inventories, inventory_viewers, orphan>>
       ELSE /\ visible_inventories' = [visible_inventories EXCEPT ![c][i] = @ - 1]
            /\ inventory_viewers' =
                    IF visible_inventories[c][i] = 1
                    THEN [inventory_viewers EXCEPT ![i] = @ \ {c}] ELSE inventory_viewers
            /\ orphan' = IF visible_inventories[c][i] = 1 THEN orphan \ {<<c, i>>} ELSE orphan
            /\ UNCHANGED crashed
    /\ UNCHANGED <<contents, online, down, tracked, dialog, blank>>

-----------------------------------------------------------------------------
(* The browser.                                                            *)

(* InventoryTracker.subscribe: a new record starts empty. *)
Opened(t, S) ==
    [j \in DOMAIN t \cup S |->
        IF j \notin S THEN t[j]
        ELSE IF j \in DOMAIN t THEN [t[j] EXCEPT !.refs = @ + 1]
        ELSE [refs |-> 1, counts |-> Nothing]]

(* InventoryTracker._unsubscribe, without its message. *)
Closed(t, S) ==
    [j \in {j \in DOMAIN t : j \notin S \/ t[j].refs > 1} |->
        IF j \in S THEN [t[j] EXCEPT !.refs = @ - 1] ELSE t[j]]

(* A browser that drops a record and opens it again is sent the contents   *)
(* only if the server had dropped the subscription in between.             *)
Blanks(c, t, fresh) ==
    {p \in blank : p[1] # c \/ (p[2] \in DOMAIN t /\ ~(p[2] \in fresh))}
        \cup {p \in {c} \X (DOMAIN t \ Shown(c)) : ~(p[2] \in fresh)}

Received(c, msg) ==
    /\ down[c] # << >> /\ Head(down[c]) = msg
    /\ down' = [down EXCEPT ![c] = Tail(@)]

ReceiveContents(c, msg) ==
    /\ msg.kind = "contents" /\ Received(c, msg)
    /\ tracked' = IF msg.inv \in Shown(c)
                  THEN [tracked EXCEPT ![c][msg.inv].counts =
                            [it \in Items |-> IF msg.counts[it] > 0 THEN msg.counts[it]
                                              ELSE @[it]]]
                  ELSE tracked
    /\ UNCHANGED <<server, online, up, dialog, blank, orphan, crashed>>

ReceiveUpdate(c, msg) ==
    /\ msg.kind = "update" /\ Received(c, msg)
    /\ tracked' = IF msg.inv \in Shown(c)
                  THEN [tracked EXCEPT ![c][msg.inv].counts[msg.item] = msg.new]
                  ELSE tracked
    /\ UNCHANGED <<server, online, up, dialog, blank, orphan, crashed>>

(* Subscribe and unsubscribe: a record the browser has is kept. *)
ReceivePeek(c, msg) ==
    /\ msg.kind = "peek" /\ Received(c, msg)
    /\ up' = [up EXCEPT ![c][msg.inv] = @ + 1]
    /\ UNCHANGED <<server, online, tracked, dialog, blank, orphan, crashed>>

(* A dialog that is shown already is hidden and not cancelled: its         *)
(* references are kept for good.                                           *)
ReceiveOpen(c, msg) ==
    /\ msg.kind = "open" /\ Received(c, msg)
    /\ LET t == Opened(tracked[c], msg.invs) IN
        /\ tracked' = [tracked EXCEPT ![c] = t]
        /\ blank' = Blanks(c, t, msg.fresh)
    /\ dialog' = [dialog EXCEPT ![c] = msg.invs]
    /\ UNCHANGED <<server, online, up, orphan, crashed>>

MutCancel(c) ==          \* only an inventory that is closed for good is released
    /\ dialog[c] # {}
    /\ LET t == Closed(tracked[c], dialog[c]) IN
        /\ tracked' = [tracked EXCEPT ![c] = t]
        /\ blank' = Blanks(c, t, {})
        /\ up' = [up EXCEPT ![c] = [i \in Ids |->
                    IF i \in dialog[c] \ DOMAIN t THEN @[i] + 1 ELSE @[i]]]
    /\ dialog' = [dialog EXCEPT ![c] = {}]
    /\ UNCHANGED <<server, online, down, orphan, crashed>>

(* The player closes the dialog. *)
Cancel(c) ==
    /\ dialog[c] # {}
    /\ LET t == Closed(tracked[c], dialog[c]) IN
        /\ tracked' = [tracked EXCEPT ![c] = t]
        /\ blank' = Blanks(c, t, {})
    /\ up' = [up EXCEPT ![c] = [i \in Ids |-> IF i \in dialog[c] THEN @[i] + 1 ELSE @[i]]]
    /\ dialog' = [dialog EXCEPT ![c] = {}]
    /\ UNCHANGED <<server, online, down, orphan, crashed>>

-----------------------------------------------------------------------------

Changes ==
    \/ \E i \in Ids : CreateInventory(i) \/ DestroyInventory(i)
    \/ \E i \in Ids, it \in Items, n \in Adjusts : Update(i, it, n)
    \/ \E i, j \in Ids, it \in Items, n \in Requests : MoveItems(i, j, it, n)
    \/ \E i \in Ids, r \in Recipes, n \in Requests : CraftRecipe(i, r, n)

Requested ==
    \/ \E c \in Clients : AddClient(c) \/ RemoveClient(c)
    \/ \E c \in Clients, i \in Ids :
            OpenInventory(c, i) \/ OpenCrafting(c, i) \/ Unsubscribe(c, i)
    \/ \E c \in Clients, i, j \in Ids : OpenContainer(c, i, j)

Browsing ==
    \E c \in Clients :
        \/ Cancel(c)
        \/ down[c] # << >> /\ LET msg == Head(down[c]) IN
                ReceiveContents(c, msg) \/ ReceiveUpdate(c, msg)
                    \/ ReceivePeek(c, msg) \/ ReceiveOpen(c, msg)

Next == ~crashed /\ (Changes \/ Requested \/ Browsing)

Spec == Init /\ [][Next]_vars

-----------------------------------------------------------------------------

Messages ==
    [kind : {"contents"}, inv : Ids, counts : Counts]
        \cup [kind : {"update"}, inv : Ids, item : Items, new : 0 .. U8Max]
        \cup [kind : {"peek"}, inv : Ids, fresh : SUBSET Ids]
        \cup [kind : {"open"}, invs : SUBSET Ids, fresh : SUBSET Ids]

TypeOK ==
    /\ Exists \subseteq Ids /\ \A i \in Exists : contents[i] \in Counts
    /\ online \subseteq Clients
    /\ visible_inventories \in [Clients -> [Ids -> Nat]]
    /\ inventory_viewers \in [Ids -> SUBSET Clients]
    /\ \A c \in Clients :
        /\ \A k \in DOMAIN down[c] : down[c][k] \in Messages
        /\ up[c] \in [Ids -> Nat] /\ dialog[c] \subseteq Shown(c)
        /\ \A i \in Shown(c) : tracked[c][i] \in [refs : Nat \ {0}, counts : Counts]
    /\ blank \cup orphan \subseteq Clients \X Ids /\ crashed \in BOOLEAN

Refers(msg, i) ==
    \/ msg.kind = "peek" /\ msg.inv = i
    \/ msg.kind = "open" /\ i \in msg.invs

OnTheWay(q, i) == Cardinality({k \in DOMAIN q : Refers(q[k], i)})
Held(t, i)     == IF i \in DOMAIN t THEN t[i].refs ELSE 0

(* Every reference the server counts for a client is held by its browser,  *)
(* or is on the way to it, or its release is on the way back: so closing   *)
(* dialogs never releases what is not retained, however dialogs and their  *)
(* closing pass each other.                                                *)
ReferencesBalance ==
    \A c \in Clients, i \in Ids :
        visible_inventories[c][i] = up[c][i] + Held(tracked[c], i) + OnTheWay(down[c], i)

(* Whoever has an inventory open is entered under it, however often it was *)
(* opened and closed and whatever the client id's last owner left behind.  *)
SubscribersTold ==
    \A c \in Clients, i \in Ids :
        visible_inventories[c][i] > 0 => c \in online /\ c \in inventory_viewers[i]

(* What a message says of an item. *)
Says(msg, i, it) ==
    \/ msg.kind = "contents" /\ msg.inv = i /\ msg.counts[it] > 0
    \/ msg.kind = "update" /\ msg.inv = i /\ msg.item = it
Said(msg, it) == IF msg.kind = "contents" THEN msg.counts[it] ELSE msg.new

(* A browser that has old comes to show n: the last of the messages q that *)
(* says anything of the item says so.                                      *)
ComesToShow(q, i, it, old, n) ==
    LET Saying == {k \in DOMAIN q : Says(q[k], i, it)} IN
    IF Saying = {} THEN old = n
    ELSE \E k \in Saying : Said(q[k], it) = n /\ \A l \in Saying : l <= k

(* What a browser shows of an inventory, with the messages that are on the *)
(* way, is what is in it: every change is reported to it, in order and     *)
(* once.  Not so for an inventory that was destroyed while it was open, or *)
(* opened again while its closing was on the way: then the server, whose   *)
(* subscription never ended, does not send the contents again.             *)
BrowserAgrees ==
    \A c \in online : \A i \in Shown(c) \cap Exists :
        <<c, i>> \notin blank \cup orphan =>
            \A it \in Items :
                ComesToShow(down[c], i, it, tracked[c][i].counts[it], contents[i][it])

(* Moving takes as many from one inventory as it puts into the other,      *)
(* although both counts saturate and are updated one after the other, also *)
(* where both are one, and changes no other count.                         *)
MoveConserves ==
    [][\A from, to \in Ids, it \in Items, n \in Requests :
            MoveItems(from, to, it, n) =>
                \E k \in 1 .. n : \A i \in Exists, x \in Items :
                    contents'[i][x] = contents[i][x]
                        + (IF x = it /\ i = to THEN k ELSE 0)
                        - (IF x = it /\ i = from THEN k ELSE 0)]_contents

(* Crafting takes the inputs and gives the outputs of a whole number of    *)
(* recipes, no more than were asked for: nothing saturates on the way, in  *)
(* particular not when the request was cut to a u8.                        *)
CraftExact ==
    [][\A i \in Ids, r \in Recipes, n \in Requests :
            CraftRecipe(i, r, n) =>
                \E k \in 1 .. n : \A x \in Items :
                    contents'[i][x] = contents[i][x] + k * (Outputs[r][x] - Inputs[r][x])]_contents

(* No item comes from nothing or is lost, but to a script.                 *)
ItemsConserved == MoveConserves /\ CraftExact
=============================================================================
