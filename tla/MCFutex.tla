------------------------------ MODULE MCFutex -------------------------------
(* Instances of Futex. *)
EXTENDS Futex, TLC

CONSTANTS a, b

OneAndOne == {<<1, 1>>}
OneWay == {<<a, b>>}
BothWays == {<<a, b>>, <<b, a>>}
Everyone == {Waiters}

Perms == Permutations(Waiters) \cup Permutations(Callers)
=============================================================================
