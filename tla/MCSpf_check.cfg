SPECIFICATION SpfSpec
CONSTANTS
  d1 = d1  d2 = d2
  Empty = Empty
  NoName = NoName
  Names = {d1, d2}
  Clients <- Peers
  Zones <- SmallZones
  ByteBits = 2
  Bytes4 = 2
  MaxDepth = 3
  MaxLookups = 3
INVARIANTS Conforms GrantsOnlyWhatRfcGrants
PROPERTY Terminates
CHECK_DEADLOCK FALSE
