SPECIFICATION MCSpec
CONSTANTS
  Compile <- lre_compile
  UINT32_MAX = 13
  INT32_MAX = 99
  MAX16 = 8
  MAX_STEPS = 400
  WORD <- MCWord
  LEB_MAX = 4
  JS_ATOM_END = 3
  JS_ATOM_TAG_INT = 1000
  LIMB_BYTES = 2
  BCD_DIGITS = 3
  OpInfo <- MCOpInfo
  STACK_MAX = 6
  HASH_FACTOR = 3163
  b1 = b1
  b2 = b2
  b3 = b3
  v1 = v1
  v2 = v2
  v3 = v3
  dv = dv
  Buffers = {b1, b2, b3}
  Views = {v1, v2, v3, dv}
  Classes <- MCClasses
  SizeOf <- MCSizeOf
  Signed <- MCSigned
  Floats = {"float32"}
  Byte = {0, 1, 2, 3}
  DataView = DataView
  None = None
  Indexes <- MCIndexes
  Lengths = {0, 3, 4}
  INSERTION_MAX = 2
  DEPTH_MAX = 2
  o1 = o1
  o2 = o2
  i1 = i1
  PlainValue = PlainValue
  Map = Map
  Weak = Weak
  JSUndefined = JSUndefined
  NumberKeys <- MCNumbers
  KeyObjects <- OneObject
  Iterators <- OneIterator
  Storable <- OneIterator
  HashOf <- MCHash
  ScriptKeys <- MCScriptKeys
  Slacks <- MCSlacks
  FirstKeys <- MCFirstKeys
  FirstThreshold = 3
  MaxRecords = 4
  MaxFrames = 1
INVARIANTS
  MapsExact
  RegExpsExact
  BuffersExact
PROPERTIES
  MapWalksInOrder
  WrittenObjectsRead
  ViewOperationsExact
\* An execution of a regular expression ends, and a script may drop every object.
CHECK_DEADLOCK FALSE
