\* Texts of digits, dots and a minus, that may be read as IP addresses.
SPECIFICATION Spec
CONSTANTS
  ArrayName = {a}
  Element = {v}
  Node = {n1}
  NULL = NULL
  Number <- Numbers
  Text <- Texts
  Length <- Lengths
  NetworkName = {net1}
  Word = {0}
  HeaderLength = {5}
  Data = {}
  Character = {0, 16, 18}
  MaxText = 7
  Byte = {0}
INVARIANT DigitsAndDots
CHECK_DEADLOCK FALSE
