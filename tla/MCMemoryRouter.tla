----------------------------- MODULE MCMemoryRouter -----------------------------
(* A critical event that names entities, and one of medium severity that names
   none: between them they take every layer.  Beside them the topic has messages
   without an id and messages that are no JSON object. *)
EXTENDS MemoryRouter

CONSTANTS alarm, report

MCEvent == {alarm, report}
MCUrgent == {alarm}
MCLinked == {alarm}
MCNotable == {report}
================================================================================
