SPECIFICATION MCSpec
CONSTANTS
 Objs = {1,2}
 Atoms = {1,2}
 Protos = {0,1}
 AtomNull = 0
 Flags = {0,1}
 HashWidth = 4
 HashMul = 5
 InitBits = 1
 InitSize = 1
 InitHash = 2
 CompactMin = 2
 MaxShapes = 4
 MaxProps = 3
 MaxAllocs = 3
 MaxOps = 5
 ObjIds = {1,2,3}
 StartHeaps <- MCHeaps
 Names <- MCNames
 NewValues = {2, 5}
 Descs <- MCDescs
 MaxTagged = 3
 MaxIndex = 4
 CompactLimit = 2
 MaxCalls = 1
 ProxyTargets <- MCTargets
 ProxyNames <- MCProxyNames
 ProxyDescs <- MCProxyDescs
 MaxProxyCalls = 3
INVARIANTS
  ShapesExact
  ObjectsFollowRules
PROPERTIES
  ImplementsStore
\* The number of calls is bounded.
CHECK_DEADLOCK FALSE
