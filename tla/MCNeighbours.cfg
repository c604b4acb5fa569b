\* Three resources in two namespaces.
SPECIFICATION FairSpec
CONSTANTS
  x1 = x1
  x2 = x2
  x3 = x3
  shared = shared
  own = own
  Resources <- MCResources
  Namespaces <- MCNamespaces
  NamespaceOf <- MCNamespaceOf
  MaxReplicas = 2
  MaxEdits = 4
INVARIANTS TypeOK AloneMeansUndisturbed
PROPERTY EventuallyWhole
CHECK_DEADLOCK FALSE
