\* Three files, one of which may be bad, and one of which has two specifiers.
SPECIFICATION FairSpec
CONSTANTS
  Files = {"main.js", "a.js", "b.js"}
  Names = {"/main", "./a", "./b", "b"}
  Main = "/main"
  FileOf <- MCFileOf
  MaxImports = 2
  MaxDepth = 4
INVARIANTS
  EvaluationFindsModules
  CompiledOnce
  FailsForAReason
PROPERTIES
  LoadEnds
CHECK_DEADLOCK FALSE
