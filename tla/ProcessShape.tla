---------------------------- MODULE ProcessShape ----------------------------
(* The processes of ProcessTree and their threads. *)

CONSTANTS
  Procs, initproc,
  Tids,          \* the threads, of all processes, that may ever exist
  process           \* the process each thread belongs to

ASSUME ShapeOK ==
  /\ initproc \in Procs
  /\ process \in [Tids -> Procs]
  /\ \A p \in Procs : \E t \in Tids : process[t] = p
=============================================================================
