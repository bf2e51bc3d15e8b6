SPECIFICATION Spec
CONSTANTS
  Peers = {"p1", "p2"}
  Syncing = {"p2"}
  BlockItems = {"b1", "b2"}
  TrxItems = {"t1"}
  Rejected = {"t1", "b2"}
  Unlinkable = {"b2"}
  Own = {"b1"}
  FetchLifetime = 0
  InventoryLifetime = 1
  FailedLifetime = 1
  MaxInventoryTrx = 0
  MaxInventory = 1
  CacheDuration = 1
  MaxIds = 2
  MaxInventories = 2
  MaxDisturbances = 1
INVARIANTS InventoriesSound
PROPERTIES NewsSpreads GivenUpAskedElsewhere
CHECK_DEADLOCK FALSE
