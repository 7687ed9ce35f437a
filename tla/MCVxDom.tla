------------------------------ MODULE MCVxDom ------------------------------
(* Values of the constants of VxDom. *)
EXTENDS VxDom, TLC

CONSTANTS k1, k2, k3, div, span

Children == [key : Key, tag : {div}, listens : {TRUE}]
            \cup [key : Key, tag : {span}, listens : {FALSE}]
            \cup {[key |-> NoKey, tag |-> div, listens |-> FALSE]}
Symmetry == Permutations(Key)
=============================================================================
