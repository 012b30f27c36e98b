SPECIFICATION Spec
CONSTANTS
  heap_size = 60
  memory_size = 100
  MaxSymbols = 3
  Sessions <- MC_Sessions
  FewCells = {0, 1, 2, 3, 4, 5, 6, 7, 8, 9, 10, 11, 12, 13, 14}
  FewWords = {0, 3, 4, 5, 7, 8, 10, 13, 20}
CHECK_DEADLOCK FALSE
INVARIANTS ReadsWhatIsWritten CompressedReadsSame BackquoteFills StorageOwned OneSymbolPerName ExtensionsFound
