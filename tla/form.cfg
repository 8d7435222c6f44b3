SPECIFICATION Spec
CONSTANTS
  COPYNAME = COPYNAME
  COPYCONTENTS = COPYCONTENTS
  NAMELENGTH = NAMELENGTH
  CONTENTHEADER = CONTENTHEADER
  END = END
  PTRNAME = PTRNAME
  text = text
  StringOptions <- TwoStrings
  CellOptions <- OneCell
  CURLFORM_CONTENTHEADER = CONTENTHEADER
  CURLFORM_END = END
  Others <- TwoOthers
  Unset = Unset
  Wrapper = Wrapper
  Codes <- ThreeCodes
  Calls <- ShortCalls
  MaxArguments = 5
INVARIANTS
  TypeOK
  HandsOverPairs
  EndStopsReading
CHECK_DEADLOCK FALSE
