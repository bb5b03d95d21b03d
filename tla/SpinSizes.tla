----------------------------- MODULE SpinSizes ------------------------------
(***************************************************************************)
(* The harts and the ranges of the counting spin locks: IMax stands for     *)
(* isize::MAX in RwSpinMutex, Width for 2^32 in TickLock.  Both counters    *)
(* must be able to tell all harts apart (MAX_CPU is 32).       *)
(***************************************************************************)
EXTENDS Naturals, FiniteSets

CONSTANTS Harts, IMax, Width

ASSUME HartsFinite == IsFiniteSet(Harts)
ASSUME IMaxAssumption == IMax \in Nat /\ Cardinality(Harts) < IMax
ASSUME WidthAssumption == Width \in Nat /\ Cardinality(Harts) < Width
=============================================================================
