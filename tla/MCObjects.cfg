SPECIFICATION Spec
CONSTANTS
  Services <- MCServices
  Stores <- MCStores
  Operations <- MCOperations
  OptionsOf <- MCOptionsOf
  ItemsOf <- MCItemsOf
  TakenOptions <- MCTakenOptions
  TakenItems <- MCTakenItems
  HeadRoom = 3
  MaxCalls = 1
  MaxWrites = 4
  MaxDeleteKeys = 2
  MaxBatchKeys = 2
  Unsure = Unsure
PROPERTY DoneAsAsked
