\* Two names, namespaces and labels: a list has something to leave out, and a
\* namespace is wrong in two ways (another one, and none).
SPECIFICATION Spec
CONSTANTS
  Names = {"a", "b"}
  Namespaces = {"ns1", "ns2"}
  Labels = {"x", "y"}
INVARIANTS TypeOK SameObjects DiffersOnlyAsKnown
CHECK_DEADLOCK FALSE
