------------------------ MODULE MCDirectModelManager ------------------------
(* Small instances of DirectModelManager for TLC. *)
EXTENDS DirectModelManager, TLC

\* Objects, readers, models and legacy managers are interchangeable.
Symmetry == Permutations(Manager) \cup Permutations(Reader)
              \cup Permutations(BuiltModel) \cup Permutations(Legacy)
=============================================================================
