CONSTANTS
  Namespaces <- DualNamespaces
  GcThresLinesHigh = 2
SPECIFICATION Spec
CHECK_DEADLOCK FALSE
INVARIANTS LineCensus CountersMatchPages MappingsAgree OnePlaneErased ListsMatchCounters
PROPERTIES AlwaysRoom ImplementsStore
