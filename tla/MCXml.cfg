SPECIFICATION Spec
CONSTANTS
  MaxNodes = 4  Names = {"n1"}
  Words = {"a", "k", "x", "sync", "item", "no", "op"}
  TextValues <- Texts2  AttrValues <- Attrs2  LeafNodes <- Leaves
  MaxBuilt = 3  MaxItems = 2  MaxHarmed = 36
INVARIANTS LinksSound WrittenIsRead CutReported 
PROPERTY TreeKept
CHECK_DEADLOCK FALSE
