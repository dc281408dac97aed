-------------------------- MODULE MCModelRuntimeRepo --------------------------
(* Small instances of ModelRuntimeRepo for TLC. *)
EXTENDS ModelRuntimeRepo, TLC

CONSTANTS f1, f2, tab1, tab2

\* One table of hiai_model_builder_types.c, that of hiai_model_manager_types.c.
MCFileOf == tab1 :> f1 @@ tab2 :> f2
OneFile == tab1 :> f1

AllTypes == Type

\* The libraries of a device: which are there, the direct runtime linked or
\* not, and whether the HCL libraries are old (no build, no options) or new.
New == {"restore", "build", "options"}
Old == {"restore"}

Symbols(hcl) == [i \in Type |-> IF i \in Hcl THEN hcl ELSE {"restore", "build"}]

Devices(kinds, hcls, later) ==
  [kind : {k \in [Type -> kinds] : k[DIRECT] \in {"absent", "usable"}},
   symbols : {Symbols(h) : h \in hcls},
   upgradable : {later}]

Fixed ==
  {d \in Devices({"absent", "usable"}, {New, Old}, FALSE) : d.kind[DIRECT] = d.kind[BINARY]}

\* The plugin is installed later; its helper may be there without it.
Phones ==
  {d \in Devices({"absent", "refused", "usable"}, {New}, TRUE) :
     /\ \A i \in Type \ {PLUGIN} : d.kind[i] # "refused"
     /\ d.kind[PLUGIN] # "usable"
     /\ d.kind[DIRECT] = "usable" /\ d.kind[BINARY] = "absent"}

MCDevice == Fixed \cup Phones

\* The local library is malformed.
Broken ==
  {[kind |-> [i \in Type |-> CASE i = LOCALHCL -> "malformed"
                                [] i \in {ROMHCL, BINARY} -> "usable"
                                [] OTHER -> "absent"],
    symbols |-> Symbols(New), upgradable |-> FALSE]}

\* Threads, memory and models are interchangeable.
Symmetry == Permutations(Thread) \cup Permutations(Object) \cup Permutations(Model)
===============================================================================
