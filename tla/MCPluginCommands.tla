-------------------------- MODULE MCPluginCommands --------------------------
(* PluginCommands on a small instance. *)
EXTENDS PluginCommands

\* Routes may change places, as may reports and tasks: no property names one of them.
Interchangeable == Permutations(Routes) \cup Permutations(Reports) \cup Permutations(Tasks)
=============================================================================
