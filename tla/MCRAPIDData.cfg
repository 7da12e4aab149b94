SPECIFICATION Spec
CONSTANTS
  Shape <- MCShape
  Values <- MCValues
  Digits = 3
PROPERTIES
  TakenWholeOrNotAtAll
