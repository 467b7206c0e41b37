------------------------------- MODULE UsbBulk -------------------------------
(***************************************************************************)
(* The bulk I/O engine of one device (spec.md 4.7): the write side of      *)
(* UsbSend and the read side of UsbRead, running in the same event pump.   *)
(* They share dev->alive: a failed write dooms the device its read loops   *)
(* keep serving, and a failed read dooms the device writes still go to.    *)
(* The collaborator calls usb_send only for a device it holds, from        *)
(* device_add at the end of get_serial_callback until device_remove in the *)
(* reaper; the callbacks of writes already submitted run whatever the      *)
(* record's stage.                                                         *)
(***************************************************************************)
EXTENDS Naturals, Sequences, FiniteSets

CONSTANTS
  Lengths, wMaxPacketSize, MaxSends, MainMayFail, ZlpMayFail,  \* UsbSend's
  NUM_RX_LOOPS, MaxChunks, LibusbMayFail, ResubmitMayFail      \* UsbRead's

VARIABLES
  sends, result, zlpBufs, wire, flying, txXfers, freed,  \* the write side
  stage, pipe, rxSet, next,                              \* the read side
  alive                                                  \* dev->alive

txVars == <<sends, result, zlpBufs, wire, flying, txXfers, freed>>
rxVars == <<stage, pipe, rxSet, next>>
vars == <<txVars, rxVars, alive>>

W == INSTANCE UsbSend
R == INSTANCE UsbRead

\* usb_send from the collaborator, for a device it holds
Write == stage = "run" /\ W!Send /\ UNCHANGED rxVars

\* tx_callback, on a completion libusb delivers
TxDone == W!Complete /\ UNCHANGED rxVars

\* rx_callback, on a completion libusb delivers
RxDone == R!Complete /\ UNCHANGED txVars

\* the rest of the read side: loops started, doom from a departure or a
\* sweep, reap
ReadSide ==
  /\ \/ R!StartRxLoops \/ R!DoomedElsewhere \/ R!Reap
  /\ UNCHANGED txVars

\* the record is gone and its writes have completed
Finished == R!Removed /\ flying = {} /\ UNCHANGED txVars

Init == W!Init /\ R!Init

Next == Write \/ TxDone \/ RxDone \/ ReadSide \/ Finished

Spec == Init /\ [][Next]_vars

\* a queued read completes while the device has data for it, and libusb
\* calls back from the event pump the host keeps running
FairSpec == Spec /\ WF_vars(RxDone /\ next <= MaxChunks)

-----------------------------------------------------------------------------
(* Properties: those of the two sides, with the other side running        *)

\* see UsbSend: every buffer usb_send takes or allocates has one owner,
\* also while failed reads doom the device under the writes and after the
\* record is reaped with writes in flight
SingleOwner == W!SingleOwner

\* see UsbRead: a live device's read loops keep reading while it has data,
\* also while writes complete and fail in between
ReadsKeepFlowing == R!ReadsKeepFlowing
=============================================================================
