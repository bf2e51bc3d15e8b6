SPECIFICATION Spec
CONSTANTS
  p1 = p1
  p2 = p2
  Peers = {p1, p2}
  Blocks <- AllBlocks
  Genesis = 0
  Parent <- TheParent
  Path <- ThePath
  Bad = {3}
  RemoteHeads <- Moving
  Depth = 2
  MaxDisturbances = 1
  Limit = 2
  maximum_blocks_per_peer_during_syncing = 2
  maximum_number_of_sync_blocks_to_prefetch = 1
  maximum_number_of_blocks_to_handle_at_one_time = 2
  RecentCapacity = 3
  None = None
INVARIANTS RequestsSound ListsSound
PROPERTIES InSyncKnowsHead ArrivedBlocksTaken
CHECK_DEADLOCK FALSE
