----------------------------- MODULE MCContent -----------------------------
(* A small instance of Content: one numbered and one flattened item, one   *)
(* that the item tree lost; a vendor of each kind.                         *)
EXTENDS Content

MCPrefixed == [robe |-> "items.pal.robe"]
MCStock == [smith |-> {"axe"}, hubvendor |-> {"items.pal.robe"}, admin |-> {"relic"}]
MCLegacy == [items |-> {"axe", "relic", "items.pal.robe"}, shops |-> {"smith", "admin"},
             creatures |-> {"orc"}, armed |-> {"orc"}, client |-> {}, players |-> {},
             sound |-> TRUE]
MCSnapshot == [MCLegacy EXCEPT !.items = {"axe", "relic"}]
=============================================================================
