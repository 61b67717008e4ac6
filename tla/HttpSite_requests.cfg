SPECIFICATION Spec
CONSTANTS
  SendBuffer = 8
  HeadCells = 1
  Methods <- MCMethods
  Numbers <- MCNumbers
  Escapes <- MCEscapes
  BadEscapes = {"%!"}
  Hosts = {"*", "h"}
  Paths <- MCPaths
  Sent <- MCSent
  Texts <- MCTexts
  Outcomes = {"answers", "throws", "breaks"}
  MaxSites = 2
  MaxPages = 1
  FileSizes = {1, 2}
INVARIANT ReadAsWritten
INVARIANT LongestPathAnswers
INVARIANT AnsweredOrLeft
INVARIANT OneAnswer
CHECK_DEADLOCK FALSE
