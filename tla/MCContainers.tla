---------------------------- MODULE MCContainers ----------------------------
(* A schedule short enough for the bound on starts to reach its end.       *)
EXTENDS Containers

MCBackoff == <<0, 10, 30>>
=============================================================================
