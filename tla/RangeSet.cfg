CONSTANT MaxByte = 8
SPECIFICATION Spec
INVARIANTS Normalized QueriesExact
PROPERTY ImplementsByteSet
