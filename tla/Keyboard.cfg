SPECIFICATION FairRingSpec
CONSTANTS
  BUFFER_SIZE = 3
  Keys = {"a"}
  OtherKeys = {"F1"}
  NoChar = nochar
  NoCode = nocode
  ReaderIntr = TRUE
PROPERTIES IsFifo WaitingReaderReturns
