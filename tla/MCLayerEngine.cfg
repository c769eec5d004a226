SPECIFICATION FairSpec
CONSTANTS
  a = a
  b = b
  Usages <- MCUsages
  LayerBits = 3
  NLAYERS = 2
  Threshold = 2
  Configs <- MCConfigs
INVARIANTS StickyLayersAreActive
PROPERTIES MomentaryLayerHolds LayersTurnOnByTrigger TapNeverFollowsHold
           NoLayerIsLeftOn
