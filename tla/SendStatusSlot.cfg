\* The spec's reading of "takes the slot" against the code: one send and
\* one close suffice.
CONSTANTS
  Senders = {s1}
  Closers = {c1}
  WordBits = 5
  ClosingBit = 2
SPECIFICATION Spec
CHECK_DEADLOCK FALSE
PROPERTIES
  NoSendAfterSlotTaken
