CONSTANTS
  Namespaces <- ShippedNamespaces
  GcThresLinesHigh = 2
SPECIFICATION Spec
CHECK_DEADLOCK FALSE
INVARIANTS FreeLinesErased
