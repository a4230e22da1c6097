SPECIFICATION CompileSpec
CONSTANTS
  Absent = Absent
  a = a  b = b  d = d  x = x  v1 = v1  v2 = v2  c1 = c1  c2 = c2
  Files = {a, b, d}
  SourceFiles = {a}
  Contents = {v1, v2}
  Names = {x}
  Configs = {c1, c2}
  MaxEvents = 3
  Bug9573 = {c2}
  Settings <- MCSettings
  Overridden <- MCOverridden
  Projects <- MCProjects
  ImportsOf <- MCImportsOf
  ContractsOf <- MCContractsOf
INVARIANTS ArtifactsCurrent DebugFilesResolve NothingToCompile
