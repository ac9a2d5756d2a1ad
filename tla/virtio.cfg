SPECIFICATION FairSpec
CONSTANTS
  QUEUE_SIZE = 2
  INDICES = 4
  MaxChain = 2
  VERSION_1 = version1
  Optional = {ring}
INVARIANTS
  DescriptorsPartitioned
  DeviceSeesTheRequest
  DeviceAgrees
  LeftAsFound
PROPERTIES
  EachFinishesOnce
  RequestsComeBack
