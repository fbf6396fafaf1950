SPECIFICATION Spec
CONSTANTS
  Order <- ByName
  Imports = {"import"}
  Creating = "creating"
  NewNames <- NamesInOrder
  CopyNames <- NamesInOrder
  Outside <- Portable
  Reviewed = {"created"}
  CatalogLimit = 3
  MaxWindows = 1
  None = None
  Attempts = 2
  Bounds <- Days
INVARIANTS PublishedIsWhole
PROPERTIES OpenedAsListed ReplacedReportIsHeld
CHECK_DEADLOCK FALSE
