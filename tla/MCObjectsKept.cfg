SPECIFICATION Spec
CONSTANTS
  Services = {"aws", "directory", "compatible", "flat", "hierarchical"}
  Stores <- MCStores
  Operations <- MCCopies
  OptionsOf <- OptionsOfEach
  ItemsOf <- MCItemsOf
  TakenOptions <- MCTakenOptions
  TakenItems <- MCTakenItems
  HeadRoom = 3
  MaxCalls = 1
  MaxWrites = 4
  MaxDeleteKeys = 2
  MaxBatchKeys = 2
  Unsure = Unsure
PROPERTY CopyKeepsMetadata
