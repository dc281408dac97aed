------------------------ MODULE MCAiModelMngerClient ------------------------
(* Small instances of AiModelMngerClient for TLC. *)
EXTENDS AiModelMngerClient, TLC

\* Threads, names, managers, listeners and runs are interchangeable.
Symmetry == Permutations(User) \cup Permutations(Name) \cup Permutations(Manager)
              \cup Permutations(Listener) \cup Permutations(Run)
=============================================================================
