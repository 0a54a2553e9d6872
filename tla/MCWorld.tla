------------------------------- MODULE MCWorld -------------------------------
EXTENDS World

CONSTANTS small, large
Extents == [t \in Templates |-> [q \in Pos |->
                IF t = large THEN {r \in Pos : r >= q} ELSE {q}]]
Bounds == [k \in Kinds |->
            CASE k = "client" -> 1 [] k = "entity" -> 2 [] k = "inventory" -> 1
              [] k = "plane" -> 3 [] k = "chunk" -> 2 [] k = "structure" -> 1]
StableBounds == [k \in Kinds |-> CASE k = "plane" -> 3 [] k = "chunk" -> 2 [] OTHER -> 1]
(* Players are apart from chunks, and few of the other things go together. *)
Has(kind) == Those(world, kind) # {}
Small ==
    /\ Cardinality(Objects(world)) <= 5
    /\ Has("entity") /\ Has("chunk") => ~Has("inventory") /\ ~Has("structure")
    /\ Has("entity") \/ Has("inventory") => Cardinality(Those(world, "chunk")) <= 1
    /\ Has("structure") => Cardinality({k \in DOMAIN files : k[1] = "chunk"}) <= 1
    /\ (Has("client") \/ \E n \in Names : ClientKey(n) \in DOMAIN files) =>
            ~Has("chunk") /\ world.next["plane"] = 3 /\ world.next["chunk"] = 1
    /\ world.next["chunk"] > 1 /\ world.next["plane"] > 3 =>
            ~Has("entity") /\ ~Has("inventory") /\ Cardinality(Those(world, "chunk")) <= 1
=============================================================================
