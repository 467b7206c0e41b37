\* a resubmission in rx_callback may fail: the read loops can all end while
\* the device stays live with data to send
CONSTANTS
  NUM_RX_LOOPS = 2
  MaxChunks = 3
  LibusbMayFail = FALSE
  ResubmitMayFail = TRUE
SPECIFICATION FairSpec
PROPERTY ReadsKeepFlowing
