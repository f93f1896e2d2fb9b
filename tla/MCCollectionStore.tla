------------------------- MODULE MCCollectionStore -------------------------
(* CollectionStore for TLC: two ids and two values, so that a change of one   *)
(* row and the survival of the other can be told apart.                      *)
EXTENDS CollectionStore, TLC

CONSTANTS i1, i2, v1, v2, l1, l2

MCIds    == {i1, i2}
MCValues == {v1, v2}
MCListers == {l1, l2}
MCImports == {(i1 :> v2 @@ i2 :> NoRow)}

(* A generic collection, whose journal a dirty cache always covers; the        *)
(* versions, which are pruned; chats between atomic updates; and their atomic  *)
(* updates while nobody lists them.                                          *)
Generic  == [record_local |-> FALSE, atomic |-> TRUE, pruned |-> FALSE,
             listers |-> MCListers, imports |-> MCImports]
Versions == [Generic EXCEPT !.atomic = FALSE, !.pruned = TRUE]
Chats    == [Generic EXCEPT !.record_local = TRUE, !.atomic = FALSE, !.imports = {}]
Updated  == [Chats EXCEPT !.atomic = TRUE, !.listers = {}]

MCKinds       == {Generic, Versions, Chats, Updated}
ListedUpdates == {[Updated EXCEPT !.listers = {l1}]}
ImportedChats == {[Chats EXCEPT !.listers = {}, !.imports = MCImports]}
=============================================================================
