\* Two arrays of up to four elements, two networks and what they are set from,
\* checksums of the shortest, a middle and the longest header, all texts of
\* eight characters and all MAC addresses of four bytes.
SPECIFICATION Spec
CONSTANTS
  ArrayName = {a, b}
  Element = {v, w}
  Node = {n1, n2, n3, n4}
  NULL = NULL
  Number <- Numbers
  Text <- Texts
  Length <- Lengths
  NetworkName = {net1, net2}
  Word = {0, 4660, 65535}
  HeaderLength = {5, 10, 15}
  Data <- Payloads
  Character = {0, 3, 16, 18}
  MaxText = 8
  Byte = {0, 10, 171, 255}
INVARIANTS NodesOwned MasksFit TextsReadBack SumRight Verifies AcceptsAddresses MacTextsRead
PROPERTIES ImplementsLists
CHECK_DEADLOCK FALSE
