--------------------------- MODULE MCModelManager ---------------------------
(* Small instances of ModelManager for TLC. *)
EXTENDS ModelManager, TLC

\* Threads, listeners, contexts and handles are interchangeable.
Symmetry == Permutations(User) \cup Permutations(Listener)
              \cup Permutations(Context) \cup Permutations(Handle)
=============================================================================
