SPECIFICATION Spec
CONSTANTS
  c1 = c1
  c2 = c2
  c3 = c3
  t1 = t1
  t2 = t2
  off = off
  l1 = l1
  URL = URL
  HTTPHEADER = HTTPHEADER
  WRITEDATA = WRITEDATA
  READDATA = READDATA
  CURLOPT_POSTFIELDS = CURLOPT_POSTFIELDS
  CURLOPT_COPYPOSTFIELDS = CURLOPT_COPYPOSTFIELDS
  CURLOPT_NOSIGNAL = CURLOPT_NOSIGNAL
  On = On
  Default = Default
  Buffer = Buffer
  Curls <- ThreeCurls
  Texts <- TwoTexts
  Numbers <- OnOff
  Lists <- OneList
  StringOptions <- TwoStrings
  CellOptions <- OneCell
  ListOptions <- OneHeader
  ContextOptions <- Contexts
SYMMETRY OptionSymmetry
INVARIANTS
  TypeOK
  OptionsKeepValues
  DefaultsHold
