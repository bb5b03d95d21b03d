------------------------------- MODULE MCRcu -------------------------------
(* Model checking instances of Rcu: harts and values are interchangeable. *)
EXTENDS Rcu, TLC

Perms == Permutations(Harts) \cup Permutations(Objs)
=============================================================================
