\* Seven documents, tidy and not, two clicks, every fault and restart.
CONSTANTS
  Documents <- AllDocuments
  MaxClicks = 2
  Faults = {"read", "open", "stack", "disk", "kill"}
SPECIFICATION Spec
INVARIANTS
  TypeOK
  LinksResolve
  StoredInOrder
  WholeScriptIsStored
  TidyDocumentsBuild
PROPERTY ImplementsTreeStore
\* The user need not click again.
CHECK_DEADLOCK FALSE
