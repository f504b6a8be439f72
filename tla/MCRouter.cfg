SPECIFICATION Spec
CONSTANTS
  cva6 = cva6
  cve2 = cve2
  inline = inline
  Sources = {cva6, cve2, inline}
  SourceOrder <- MCSourceOrder
  Slots <- MCSlots
  Deferred = {cva6, cve2}
  Devices = {gpio, uart}
  Confirming = {uart}
  Ordinary = {uart}
  MaxConfirmations = 2
  MaxSequence = 2
  MaxEpoch = 1
  MaxBeats = 4
  InlineCost = 2
  NoCall = NoCall
  NoKey = NoKey
  NoEntry = NoEntry
  NoReceipt = NoReceipt
INVARIANTS QueueIsSound AnswersAreTrue
PROPERTIES NothingWaits
CHECK_DEADLOCK FALSE
