------------------------------ MODULE MCSppVf ------------------------------
(* SppVf on small instances: symmetry of the opaque values.                 *)
EXTENDS SppVf, TLC

(* Names, ring ports and classes are interchangeable, and so are the        *)
(* workers: commands may start a component on any of them.                  *)
Symmetry ==
    Permutations(Name) \cup Permutations(Port \ PhyPort)
    \cup Permutations(Class) \cup Permutations(Worker)
=============================================================================
