SPECIFICATION Spec
CONSTANTS
  c1 = c1
  c2 = c2
  p1 = p1
  p2 = p2
  Channels = {c1, c2}
  MaxSequence = 3
  MaxDepth = 2
  Payloads = {p1, p2}
  Receipts = {r1, r2}
  NoEntry = NoEntry
  NoReceipt = NoReceipt
SYMMETRY Symmetry
INVARIANTS ChannelFrontier AtMostOnce
PROPERTIES DeliversInOrder
CHECK_DEADLOCK FALSE
