----------------------------- MODULE MCPushCaps -----------------------------
(* PushCaps for TLC: tasks are interchangeable, and so are repositories.   *)
EXTENDS PushCaps, TLC

TasksAndRepos == Permutations(Tasks) \cup Permutations(Repos)
=============================================================================
