---------------------------- MODULE MCAnomalyRegistry ----------------------------
(* Two entities, the id of one a prefix of the other's, as in svc:order and
   svc:order-db, and events about one of them or both. *)
EXTENDS AnomalyRegistry

CONSTANTS order, orderDb, slow, restored

MCEntity == {order, orderDb}
MCPrefix == {<<order, order>>, <<orderDb, orderDb>>, <<order, orderDb>>}
MCKind == {slow, restored}
MCResolving == {restored}
MCRefs == {<<order>>, <<orderDb>>, <<orderDb, order>>}
MCReported == {"critical", "medium"}
================================================================================
