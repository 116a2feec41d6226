SPECIFICATION Spec
CONSTANTS
  a = a
  b = b
  c = c
  first = first
  second = second
  f = f
  Contents = {a, b, c}
  Books = {"book"}
  Parts = {"part"}
  Slots = {first, second}
  Folders = {f}
  Importers = {1}
  FolderOf <- MCFolderOf
  SlotOf <- MCSlotOf
  BookOf <- MCBookOf
  PartOf <- MCPartOf
  QualityOf <- MCQualityOf
  CopyOnly = FALSE
  UseBin = TRUE
  MaxActs = 1
  Nothing = Nothing
  Partial = Partial
  Unmapped = Unmapped
PROPERTY   FilesBecomeKnown StaleRowsGo
CHECK_DEADLOCK FALSE
