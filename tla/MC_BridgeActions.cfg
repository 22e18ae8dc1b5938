\* Bridge actions: TypeOK and the pending list by height.
CONSTANTS
  NONE = NONE
  Ids <- MCIds
  Heights <- MCHeights
  Epochs <- MCEpochs
  Types <- MCTypes

SPECIFICATION Spec

INVARIANT TypeOK
PROPERTY PendingListExact
