CONSTANTS
  MaxLen = 5
  IntWidth = 8
  Int64Width = 16
  LebPayload = 2
  LebBits = 5
  F32Bits = 5
  F64Bits = 11
  LongDoubleBits = 16
  ScaleBits = 4
SPECIFICATION PureSpec
INVARIANT AnalyzerAgrees
INVARIANT OpsAgree
INVARIANT LebAgrees
INVARIANT BlockTypeAgrees
INVARIANT SectionsDecode
INVARIANT FdWriteAgrees
INVARIANT I64OpsAgree
INVARIANT ScanAgrees
INVARIANT TruncAgrees
