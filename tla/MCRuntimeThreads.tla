--------------------------- MODULE MCRuntimeThreads ---------------------------
(* Instances of RuntimeThreads for TLC. *)
EXTENDS RuntimeThreads

CONSTANTS h1, h2, c1, c2, c3, s1

(* Calls are interchangeable, and so are threads. *)
CallThreadSymmetry == Permutations(Calls) \cup Permutations(Threads)
=============================================================================
