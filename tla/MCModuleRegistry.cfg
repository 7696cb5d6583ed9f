CONSTANTS
  Module = {a, b, c}
  Dependencies <- MCDependencies
  Selection <- MCSelection
  a = a
  b = b
  c = c
SPECIFICATION RegistrySpec
SYMMETRY Symmetry
INVARIANTS DependenciesUp FailureUnwinds
