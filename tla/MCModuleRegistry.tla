-------------------------- MODULE MCModuleRegistry --------------------------
(* Every dependency graph over a few modules, selected in every order.     *)
EXTENDS ModuleRegistry, FiniteSets, FiniteSetsExt, TLC

\* The sequences without repetition over the subsets of S.
Lists(S) == UNION {SetToSeqs(T) : T \in SUBSET S}

MCDependencies == {f \in [Module -> Lists(Module)] : \A m \in Module : m \notin ToSet(f[m])}

MCSelection == Lists(Module)

Symmetry == Permutations(Module)
=============================================================================
