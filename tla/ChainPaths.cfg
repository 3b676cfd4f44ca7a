SPECIFICATION Spec
CONSTANTS
  InHeaderLen = 1
  ArgsLen = 1
  OutHeaderLen = 2
  MaxChain = 5
  SegLens = {0, 1, 2}
  MaxSegs = 3
  MaxSize = 2
  MaxFile = 2
INVARIANTS ReplyExact EndsOnLongChains
PROPERTIES WriteLands ZeroCopyIsGeneric
CHECK_DEADLOCK FALSE
