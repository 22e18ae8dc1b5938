\* Violation run: ByEpochListsAll.
CONSTANTS
  NONE = NONE
  Ids <- MCIds
  Heights <- MCHeights
  Epochs <- MCEpochs
  Types <- MCTypes

SPECIFICATION Spec

PROPERTY ByEpochListsAll
