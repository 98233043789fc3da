----------------------------- MODULE MCRuntime -----------------------------
(* A directory with every plugin, the first one configurable, and one with *)
(* the first plugin alone and another schema.                              *)
EXTENDS RuntimeLifecycle

MCCatalogs == {[p \in Plugins |-> IF p = 1 THEN 1 ELSE 0], [p \in {1} |-> 2]}
=============================================================================
