------------------------------ MODULE MCGitOps ------------------------------
(* GitOps for TLC: names of one project, spelt exactly and with a slash    *)
(* behind, of two, of none, and names that lead out.                       *)
EXTENDS GitOps, TLC

MCNames ==
  {[comps |-> <<r>>, exact |-> e] : r \in Repos, e \in BOOLEAN}
    \cup {[comps |-> c, exact |-> FALSE] : c \in {<<>>, <<"parent">>} \cup {<<r, "parent">> : r \in Repos}}

Operations == Permutations(Tasks)
=============================================================================
