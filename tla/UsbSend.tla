------------------------------- MODULE UsbSend -------------------------------
(***************************************************************************)
(* The write side of one device (usb.c 173-240): usb_send submits a bulk   *)
(* transfer over the caller's buffer and, when the length is a multiple of *)
(* wMaxPacketSize, a zero-length packet (ZLP) over a malloc(1) buffer;     *)
(* tx_callback frees the buffer of each transfer it completes.             *)
(*                                                                         *)
(* The k-th usb_send call passes buffer <<k, "data">>; its ZLP, if any,    *)
(* has buffer <<k, "zlp">>.  wire is the sequence of transfers libusb      *)
(* accepted on the OUT endpoint, in submission order.  Who owns a buffer  *)
(* is derived from the code's state: the caller when usb_send returned an  *)
(* error for it, libusb while a transfer over it is in flight, nobody once *)
(* tx_callback freed it.                                                   *)
(***************************************************************************)
EXTENDS Naturals, Sequences, FiniteSets

CONSTANTS
  Lengths,         \* lengths the caller passes to usb_send
  wMaxPacketSize,  \* of the OUT endpoint
  MaxSends,        \* bound on usb_send calls
  MainMayFail,     \* libusb_submit_transfer of the data transfer may fail
  ZlpMayFail       \* libusb_submit_transfer of the ZLP may fail

ASSUME
  /\ Lengths \subseteq Nat /\ wMaxPacketSize \in Nat \ {0}
  /\ MaxSends \in Nat /\ {MainMayFail, ZlpMayFail} \subseteq BOOLEAN

Sends == 1..MaxSends
BufIds == Sends \X {"data", "zlp"}

VARIABLES
  sends,     \* usb_send calls so far
  result,    \* [Sends -> {"none", "ok", "err"}]: what usb_send returned
  zlpBufs,   \* sends whose ZLP buffer was malloc'd
  wire,      \* transfers accepted, in order: [send, zlp, len]
  flying,    \* indices of wire libusb has in flight
  txXfers,   \* indices of wire in dev->tx_xfers
  freed,     \* [BufIds -> Nat]: times tx_callback freed the buffer
  alive      \* dev->alive

vars == <<sends, result, zlpBufs, wire, flying, txXfers, freed, alive>>

SubmitResults(mayFail) == IF mayFail THEN BOOLEAN ELSE {TRUE}

-----------------------------------------------------------------------------
(* usb_send (usb.c 215-240)                                                *)

Transfer(k, z, l) == [send |-> k, zlp |-> z, len |-> l]

\* the data transfer is submitted; if that fails the transfer is freed and
\* the error returned.  Otherwise, for a length multiple of wMaxPacketSize,
\* a ZLP over a fresh malloc(1) buffer follows; if its submission fails,
\* only its transfer is freed and the error returned.
usb_send(l) ==
  LET k == sends + 1 IN
  \E ok \in SubmitResults(MainMayFail), zok \in SubmitResults(ZlpMayFail) :
    \/ /\ ~ok
       /\ result' = [result EXCEPT ![k] = "err"]
       /\ UNCHANGED <<zlpBufs, wire, flying, txXfers>>
    \/ /\ ok /\ l % wMaxPacketSize # 0
       /\ wire' = Append(wire, Transfer(k, FALSE, l))
       /\ flying' = flying \cup {Len(wire) + 1}
       /\ txXfers' = txXfers \cup {Len(wire) + 1}
       /\ result' = [result EXCEPT ![k] = "ok"]
       /\ UNCHANGED zlpBufs
    \/ /\ ok /\ l % wMaxPacketSize = 0
       /\ zlpBufs' = zlpBufs \cup {k}
       /\ IF zok
          THEN /\ wire' = wire \o <<Transfer(k, FALSE, l), Transfer(k, TRUE, 0)>>
               /\ flying' = flying \cup {Len(wire) + 1, Len(wire) + 2}
               /\ txXfers' = txXfers \cup {Len(wire) + 1, Len(wire) + 2}
               /\ result' = [result EXCEPT ![k] = "ok"]
          ELSE /\ wire' = Append(wire, Transfer(k, FALSE, l))
               /\ flying' = flying \cup {Len(wire) + 1}
               /\ txXfers' = txXfers \cup {Len(wire) + 1}
               /\ result' = [result EXCEPT ![k] = "err"]

Send ==
  /\ sends < MaxSends
  /\ \E l \in Lengths : usb_send(l)
  /\ sends' = sends + 1
  /\ UNCHANGED <<freed, alive>>

-----------------------------------------------------------------------------
(* tx_callback (usb.c 173-213)                                             *)

BufOf(i) == <<wire[i].send, IF wire[i].zlp THEN "zlp" ELSE "data">>

\* a mutant: the buffer is not freed
tx_callback_keeps_buffer(i) ==
  /\ i \in flying
  /\ \E completed \in BOOLEAN : alive' = (alive /\ completed)
  /\ flying' = flying \ {i}
  /\ txXfers' = txXfers \ {i}
  /\ UNCHANGED freed

\* libusb completes transfer i: a status other than COMPLETED dooms the
\* device; the buffer is freed, the transfer leaves tx_xfers and is freed
tx_callback(i) ==
  /\ i \in flying
  /\ \E completed \in BOOLEAN : alive' = (alive /\ completed)
  /\ flying' = flying \ {i}
  /\ txXfers' = txXfers \ {i}
  /\ freed' = [freed EXCEPT ![BufOf(i)] = @ + 1]

Complete ==
  /\ \E i \in flying : tx_callback(i)
  /\ UNCHANGED <<sends, result, zlpBufs, wire>>

-----------------------------------------------------------------------------

Init ==
  /\ sends = 0
  /\ result = [k \in Sends |-> "none"]
  /\ zlpBufs = {}
  /\ wire = <<>>
  /\ flying = {}
  /\ txXfers = {}
  /\ freed = [b \in BufIds |-> 0]
  /\ alive = TRUE

\* every send made and every transfer completed
Quiescent == sends = MaxSends /\ flying = {} /\ UNCHANGED vars

Next == Send \/ Complete \/ Quiescent

Spec == Init /\ [][Next]_vars

-----------------------------------------------------------------------------
(* Properties                                                              *)

\* buffers malloc'd or handed to usb_send so far
Allocated == {<<k, "data">> : k \in 1..sends} \cup {<<k, "zlp">> : k \in zlpBufs}

Owners(b) ==
  (IF b[2] = "data" /\ result[b[1]] = "err" THEN {"caller"} ELSE {})
  \cup (IF \E i \in flying : BufOf(i) = b THEN {"libusb"} ELSE {})
  \cup (IF freed[b] > 0 THEN {"freed"} ELSE {})

\* Every buffer usb_send takes or allocates has exactly one owner at a
\* time, and tx_callback frees it at most once: after an error return the
\* caller keeps its buffer and no transfer refers to it; after success a
\* transfer owns it until tx_callback frees it; the ZLP buffer is freed by
\* its transfer's callback.
SingleOwner ==
  \A b \in Allocated : Cardinality(Owners(b)) = 1 /\ freed[b] <= 1

\* A ZLP follows a data write on the wire exactly when the write's length
\* is positive and a multiple of wMaxPacketSize (spec.md 4.7 and 8.5):
\* usb_send must frame every such write, and only those.
NeedsZlp(l) == l > 0 /\ l % wMaxPacketSize = 0

FramingOnWire ==
  \A i \in 1..Len(wire) :
    /\ ~wire[i].zlp =>
         (NeedsZlp(wire[i].len) <=> (i < Len(wire) /\ wire[i + 1].zlp))
    /\ wire[i].zlp => i > 1 /\ ~wire[i - 1].zlp
                            /\ wire[i - 1].send = wire[i].send

=============================================================================
