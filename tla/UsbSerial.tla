------------------------------ MODULE UsbSerial ------------------------------
(***************************************************************************)
(* The serial-number decoding of get_serial_callback (usb.c 322-338): the  *)
(* string descriptor in the control transfer's buffer is "de-unicoded"     *)
(* into usbdev->serial, and a serial of UDID_LEN characters gets a hyphen  *)
(* after its HYPHEN_POS-th character.                                      *)
(*                                                                         *)
(* The buffer is the one device_complete_initialization allocates and     *)
(* zeroes (lines 634-640), filled first by the language-ID answer and then *)
(* by the serial answer; libusb writes only the actual_length bytes the    *)
(* device returned, so past them the buffer still holds the language-ID    *)
(* answer, and zeros past that.  Bytes and characters are their numeric    *)
(* values.                                                                 *)
(*                                                                         *)
(* The sizes are constants so that TLC can reach the hyphenation with     *)
(* short descriptors: usb.c has SERIAL_SIZE = 256, UDID_LEN = 24,          *)
(* HYPHEN_POS = 8.  A descriptor of at most 255 bytes holds at most 126   *)
(* units, so the loop's bound di < sizeof(serial) - 1 never stops it; the  *)
(* scaled SERIAL_SIZE keeps that so (the last conjunct of the ASSUME).     *)
(***************************************************************************)
EXTENDS Naturals, Sequences, SequencesExt

CONSTANTS
  Pair,         \* the <<low, high>> byte pairs at data[2j], data[2j + 1]
  MaxLen,       \* largest bLength (data[0]) considered
  Actuals,      \* the actual_length values the transfer may complete with
  LangidLens,   \* the actual_length values of the language-ID answer
  SERIAL_SIZE,  \* sizeof(usbdev->serial)
  UDID_LEN,     \* length of a serial that gets the hyphen (24)
  HYPHEN_POS    \* the hyphen goes after this many characters (8)

ASSUME
  /\ Pair \subseteq (0..255) \X (0..255) /\ MaxLen \in 2..255
  /\ Actuals \subseteq 2..(MaxLen + 1) /\ LangidLens \subseteq 0..(MaxLen + 1)
  /\ HYPHEN_POS < UDID_LEN /\ UDID_LEN + 1 < SERIAL_SIZE
  /\ (MaxLen - 1) \div 2 < SERIAL_SIZE - 1

QMARK  == 63   \* '?'
HYPHEN == 45   \* '-'
DT_STRING == 3

\* bytes of the data stage in the buffer: data[0 .. MaxLen].  The loop reads
\* data[si + 1] with si < data[0], so it never reads past data[MaxLen].
BufIdx == 0..MaxLen

VARIABLES
  data,    \* the data stage of the control transfer buffer
  actual,  \* transfer->actual_length
  serial,  \* usbdev->serial as a sequence of characters, up to its NUL
  stage    \* "requested": the GET_DESCRIPTOR is in flight; "decoded"

vars == <<data, actual, serial, stage>>

-----------------------------------------------------------------------------
(* The code                                                                *)

\* (data[si] & 0x80) || data[si + 1]: not a 7-bit character in the low byte
\* with a zero high byte
NonAscii(lo, hi) == lo >= 128 \/ hi # 0

\* a mutant: the NUL test before the non-ASCII test
RECURSIVE DeUnicode_nul_first(_, _, _)
DeUnicode_nul_first(d, si, s) ==
  IF si < d[0] /\ Len(s) < SERIAL_SIZE - 1
  THEN IF d[si] = 0 THEN s
       ELSE IF NonAscii(d[si], d[si + 1]) THEN DeUnicode_nul_first(d, si + 2, Append(s, QMARK))
       ELSE DeUnicode_nul_first(d, si + 2, Append(s, d[si]))
  ELSE s

\* for (di = 0, si = 2; si < data[0] && di < sizeof(serial)-1; si += 2):
\* the loop from index si with the characters s written so far (di = Len(s))
RECURSIVE DeUnicode(_, _, _)
DeUnicode(d, si, s) ==
  IF si < d[0] /\ Len(s) < SERIAL_SIZE - 1
  THEN IF NonAscii(d[si], d[si + 1]) THEN DeUnicode(d, si + 2, Append(s, QMARK))
       ELSE IF d[si] = 0 THEN s
       ELSE DeUnicode(d, si + 2, Append(s, d[si]))
  ELSE s

\* if (di == 24) { memmove(&serial[9], &serial[8], 16); serial[8] = '-'; ... }
Hyphenate(s) ==
  IF Len(s) = UDID_LEN
  THEN [i \in 1..(Len(s) + 1) |-> IF i <= HYPHEN_POS THEN s[i]
                                  ELSE IF i = HYPHEN_POS + 1 THEN HYPHEN
                                  ELSE s[i - 1]]
  ELSE s

\* the device answers the serial request; the decoding part of
\* get_serial_callback on a COMPLETED transfer
get_serial_callback ==
  /\ stage = "requested"
  /\ serial' = Hyphenate(DeUnicode(data, 2, <<>>))
  /\ stage' = "decoded"
  /\ UNCHANGED <<data, actual>>

Init ==
  /\ actual \in Actuals
  /\ \E langid \in LangidLens, bLength \in 0..MaxLen, u \in [1..((MaxLen - 1) \div 2 + 1) -> Pair] :
       data = [i \in BufIdx |-> IF i = 0 THEN bLength
                                ELSE IF i = 1 THEN DT_STRING
                                ELSE IF i >= actual /\ i >= langid THEN 0
                                ELSE u[(i - 2) \div 2 + 1][((i - 2) % 2) + 1]]
  /\ serial = <<>>
  /\ stage = "requested"

\* the decoded serial is kept; the callback goes on with device_add
Decoded == stage = "decoded" /\ UNCHANGED vars

Next == get_serial_callback \/ Decoded

Spec == Init /\ [][Next]_vars

-----------------------------------------------------------------------------
(* The decoding the specification (spec.md 4.6) describes                 *)

\* the descriptor as it arrived: its first bLength bytes, as far as the
\* device sent them
Received == [i \in 1..Min({data[0], actual}) |-> data[i - 1]]

\* the 2-byte units after the 2-byte header; a trailing odd byte is no unit
Units(desc) == [j \in 1..((Len(desc) - 2) \div 2) |-> <<desc[2 * j + 1], desc[2 * j + 2]>>]

\* an ASCII unit stands for its low byte, any other for '?'
UnitChar(u) == IF NonAscii(u[1], u[2]) THEN QMARK ELSE u[1]

\* characters up to the first NUL unit, at most SERIAL_SIZE - 1 of them,
\* with the hyphen inserted into a serial of UDID_LEN characters
SpecSerial(desc) ==
  LET us    == IF Len(desc) >= 2 THEN Units(desc) ELSE <<>>
      nul   == SelectInSeq(us, LAMBDA u : u = <<0, 0>>)
      n     == IF nul = 0 THEN Len(us) ELSE nul - 1
      chars == [j \in 1..Min({n, SERIAL_SIZE - 1}) |-> UnitChar(us[j])]
  IN IF Len(chars) = UDID_LEN THEN InsertAt(chars, HYPHEN_POS + 1, HYPHEN)
     ELSE chars

\* a well-formed answer: an even bLength, all of it received
WellFormed == data[0] % 2 = 0 /\ data[0] <= actual

-----------------------------------------------------------------------------
(* Properties                                                              *)

\* For a well-formed string descriptor, the serial get_serial_callback
\* stores is the specified decoding: '?' for each non-ASCII unit, stop at
\* the NUL unit, truncate to the serial[] buffer, hyphen in a UDID_LEN
\* serial (the hyphenated serial without its hyphen is the plain decoding).
SerialMatchesSpec ==
  stage = "decoded" /\ WellFormed => serial = SpecSerial(Received)

\* Whatever the device answers, the serial is decoded from the descriptor
\* bytes the device sent; get_serial_callback trusts bLength and reads
\* data[si + 1] up to index bLength, past an odd descriptor and past
\* actual_length.
SerialFromReceivedBytes ==
  stage = "decoded" => serial = SpecSerial(Received)
=============================================================================
