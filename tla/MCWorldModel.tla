------------------------------ MODULE MCWorldModel ------------------------------
(* One entity, events about it that are critical or medium, and those that
   resolve.  Three of them are the least after which its health is taken back
   without a resolution. *)
EXTENDS WorldModel

CONSTANTS order, slow, restored

MCEntity == {order}
MCPrefix == {<<order, order>>}
MCKind == {slow, restored}
MCResolving == {restored}
MCRefs == {<<order>>}
MCReported == {"critical", "medium"}
================================================================================
