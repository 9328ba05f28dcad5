SPECIFICATION Spec
CONSTANTS
  SIZE = 128
  OPSIZ = 4
  OP_T_THRES = 8
  MEMSET_THRES = 4
  ULONG_MAX = 127
  INTEGER_BUFFER_SIZE = 10
  PTR_WIDTH = 6
  UCHAR_MAX = 7
  USHRT_MAX = 15
  UINT_MAX = 63
  NULL = NULL
  BUFFER = 16
  CopyDests <- MCCopyDests
  CopySrcs <- MCCopySrcs
  CopyLengths <- MCCopyLengths
  FillDests <- MCFillDests
  FillLengths <- MCFillLengths
  LeftOperands <- MCLeftOperands
  RightOperands <- MCRightOperands
  CompareLengths <- MCCompareLengths
  TextDests <- MCTextDests
  TextSrcs <- MCTextSrcs
  Texts <- MCTexts
  Counts <- MCCounts
  Numerals <- MCNumerals
  Bases <- MCBases
  Specifications <- MCSpecifications
  IntegerArgs <- MCIntegerArgs
  StringArgs <- MCStringArgs
  Cuts <- MCCuts
INVARIANTS
  CopiesAgree
  ComparesAgree
  NumbersAgree
  PrintsAgree
