------------------------------- MODULE UsbRead -------------------------------
(***************************************************************************)
(* The read side of one device (usb.c 241-306 and 349-374): the            *)
(* NUM_RX_LOOPS read transfers get_serial_callback starts, and rx_callback, *)
(* which hands a completed transfer's buffer to device_data_input and      *)
(* resubmits the same transfer, or frees it and dooms the device.          *)
(*                                                                         *)
(* The transfers submitted on ep_in wait in the endpoint's queue, pipe,    *)
(* and the host controller completes them in submission order; libusb     *)
(* runs their callbacks in that order inside the event pump.  The device   *)
(* has MaxChunks chunks of data to send; next is the next one.  A failed   *)
(* transfer (error, stall, overflow, timeout, no device) may or may not    *)
(* have consumed a chunk.  What usb_disconnect does with the transfers     *)
(* still in flight is UsbDeviceManager's.                                  *)
(***************************************************************************)
EXTENDS Naturals, Sequences

CONSTANTS
  NUM_RX_LOOPS,   \* read transfers started per device
  MaxChunks,      \* bound on the chunks the device sends
  LibusbMayFail,  \* the first submissions and the transfers may fail
  ResubmitMayFail \* the resubmission in rx_callback may fail

Xfers == 1..NUM_RX_LOOPS

VARIABLES
  stage,      \* "serial" (get_serial_callback to come), "run", "gone"
  pipe,       \* the transfers queued on ep_in, oldest first
  rxSet,      \* dev->rx_xfers
  next,       \* the next chunk the device sends
  alive       \* dev->alive

vars == <<stage, pipe, rxSet, next, alive>>

ResubmitResults == IF ResubmitMayFail THEN BOOLEAN ELSE {TRUE}
Statuses == IF LibusbMayFail THEN {"completed", "error"} ELSE {"completed"}

\* chunks a failed transfer may have swallowed
Lost == IF next <= MaxChunks THEN {next, next + 1} ELSE {next}

-----------------------------------------------------------------------------
(* The code                                                                *)

\* the end of get_serial_callback: for (rx_loops = NUM_RX_LOOPS; ...)
\* start_rx_loop until one fails; a transfer is added to rx_xfers only
\* once submitted.  When none started the device is removed and
\* disconnected at once.
StartRxLoops ==
  /\ stage = "serial"
  /\ \E n \in IF LibusbMayFail THEN 0..NUM_RX_LOOPS ELSE {NUM_RX_LOOPS} :
       /\ pipe' = [i \in 1..n |-> i]
       /\ rxSet' = 1..n
       /\ stage' = IF n = 0 THEN "gone" ELSE "run"
  /\ UNCHANGED <<next, alive>>

\* a mutant: the transfer is not resubmitted
rx_callback_no_resubmit(x, st) ==
  IF st = "completed"
  THEN /\ pipe' = Tail(pipe)
       /\ UNCHANGED <<rxSet, alive>>
  ELSE /\ pipe' = Tail(pipe)
       /\ rxSet' = rxSet \ {x}
       /\ alive' = FALSE

\* rx_callback for transfer x, the head of the queue, with status st: on
\* success the buffer goes to device_data_input and x is resubmitted, the
\* result of libusb_submit_transfer unchecked; otherwise x is removed from
\* rx_xfers and freed, and the device doomed.
rx_callback(x, st) ==
  IF st = "completed"
  THEN /\ \E ok \in ResubmitResults :
            pipe' = IF ok THEN Append(Tail(pipe), x) ELSE Tail(pipe)
       /\ UNCHANGED <<rxSet, alive>>
  ELSE /\ pipe' = Tail(pipe)
       /\ rxSet' = rxSet \ {x}
       /\ alive' = FALSE

\* the controller completes the oldest queued transfer, libusb calls back
Complete ==
  /\ stage = "run" /\ pipe # <<>>
  /\ \E st \in Statuses :
       /\ IF st = "completed" THEN next <= MaxChunks /\ next' = next + 1
                              ELSE next' \in Lost
       /\ rx_callback(Head(pipe), st)
  /\ UNCHANGED stage

\* another path dooms the device: a failed write, a departure, a sweep
DoomedElsewhere ==
  /\ stage = "run" /\ alive
  /\ alive' = FALSE
  /\ UNCHANGED <<stage, pipe, rxSet, next>>

\* reap_dead_devices: device_remove, then usb_disconnect
Reap ==
  /\ stage = "run" /\ ~alive
  /\ stage' = "gone"
  /\ UNCHANGED <<pipe, rxSet, next, alive>>

Removed == stage = "gone" /\ UNCHANGED vars

Init ==
  /\ stage = "serial"
  /\ pipe = <<>>
  /\ rxSet = {}
  /\ next = 1
  /\ alive = TRUE

Next == StartRxLoops \/ Complete \/ DoomedElsewhere \/ Reap \/ Removed

Spec == Init /\ [][Next]_vars

\* while the device has data for a queued read, the controller completes
\* it and libusb calls back from the event pump the host keeps running
FairSpec == Spec /\ WF_vars(Complete /\ next <= MaxChunks)

-----------------------------------------------------------------------------
(* Properties                                                              *)

\* A live device's read loops keep reading: each rx_callback resubmits its
\* transfer, so while the device is live and has data to send, reading
\* goes on until all of it has been read.
ReadsKeepFlowing ==
  (stage = "run" /\ alive) ~> (~alive \/ next > MaxChunks)
=============================================================================
