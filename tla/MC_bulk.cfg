\* three writes of lengths 1 and 2 with wMaxPacketSize 2, the data
\* submission may fail; three read loops (usb.c NUM_RX_LOOPS) and four
\* chunks, reads and their first submissions may fail, resubmissions
\* succeed; write completions, and reads with data, are weakly fair
CONSTANTS
  Lengths = {1, 2}
  wMaxPacketSize = 2
  MaxSends = 3
  MainMayFail = TRUE
  ZlpMayFail = FALSE
  NUM_RX_LOOPS = 3
  MaxChunks = 4
  LibusbMayFail = TRUE
  ResubmitMayFail = FALSE
SPECIFICATION FairSpec
INVARIANT SingleOwner
PROPERTY ReadsKeepFlowing
