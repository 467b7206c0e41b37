------------------------------ MODULE UsbConfig ------------------------------
(***************************************************************************)
(* set_valid_configuration (usb.c 508-600), called by                      *)
(* device_complete_initialization: find the usbmux interface in the        *)
(* highest configuration that has one, take its endpoints by direction,    *)
(* and make that configuration active.                                     *)
(*                                                                         *)
(* An interface is abstracted to whether its class, subclass or protocol   *)
(* matches the usbmux constants (the code's disjunctive test) and the      *)
(* directions of its endpoints.  The libusb calls the function makes are   *)
(* inputs: whether libusb_get_configuration, each                          *)
(* libusb_get_config_descriptor_by_value and each libusb_set_configuration *)
(* succeeds.  Kernel-driver detaching only logs on failure and is left     *)
(* out.                                                                    *)
(***************************************************************************)
EXTENDS Integers, Sequences

CONSTANTS
  MaxConfigs,   \* largest bNumConfigurations considered
  Kinds,        \* the interfaces a configuration may contain
  MaxIfaces,    \* most interfaces per configuration
  SetMayFail    \* libusb_set_configuration may fail

ASSUME MaxConfigs \in Nat /\ MaxIfaces \in Nat /\ SetMayFail \in BOOLEAN

\* bEndpointAddress & 0x80: LIBUSB_ENDPOINT_OUT, LIBUSB_ENDPOINT_IN
EP_OUT == 0
EP_IN  == 128
NoSel == [cfg |-> 0, iface |-> 0, ep_out |-> 0, ep_in |-> 0]

VARIABLES
  configs,   \* [1..bNumConfigurations -> Seq(Kinds)]: the descriptors
  current,   \* current_config, as libusb_get_configuration reports it
  getOk,     \* libusb_get_configuration succeeds
  fetchOk,   \* [configs -> BOOLEAN]: the descriptor of j can be read
  setOk,     \* [configs -> BOOLEAN]: libusb_set_configuration(j) succeeds
  returned,  \* set_valid_configuration has returned
  res,       \* its return value
  sel,       \* usbdev->interface, ep_out, ep_in (endpoint indices), and
             \* the configuration the interface was found in
  active     \* the device's active configuration

vars == <<configs, current, getOk, fetchOk, setOk, returned, res, sel, active>>

NumConfigs == DOMAIN configs

-----------------------------------------------------------------------------
(* The inner loop over config->interface[k].altsetting[0], from k with the *)
(* function's found flag: [found, sel] after it.                           *)

\* a mutant: only the OUT, IN endpoint order is accepted
RECURSIVE ScanInterfaces_no_swap(_, _, _, _, _)
ScanInterfaces_no_swap(j, ifs, k, found, s) ==
  IF k > Len(ifs) THEN [found |-> found, sel |-> s]
  ELSE LET i == ifs[k] IN
       IF ~i.match \/ Len(i.eps) # 2
       THEN ScanInterfaces_no_swap(j, ifs, k + 1, found, s)
       ELSE IF i.eps = <<EP_OUT, EP_IN>>
       THEN [found |-> TRUE, sel |-> [cfg |-> j, iface |-> k, ep_out |-> 1, ep_in |-> 2]]
       ELSE ScanInterfaces_no_swap(j, ifs, k + 1, found, s)

RECURSIVE ScanInterfaces(_, _, _, _, _)
ScanInterfaces(j, ifs, k, found, s) ==
  IF k > Len(ifs) THEN [found |-> found, sel |-> s]
  ELSE LET i == ifs[k] IN
       IF ~i.match \/ Len(i.eps) # 2
       THEN ScanInterfaces(j, ifs, k + 1, found, s)
       ELSE IF i.eps = <<EP_OUT, EP_IN>>
       THEN [found |-> TRUE, sel |-> [cfg |-> j, iface |-> k, ep_out |-> 1, ep_in |-> 2]]
       ELSE IF i.eps = <<EP_IN, EP_OUT>>
       THEN [found |-> TRUE, sel |-> [cfg |-> j, iface |-> k, ep_out |-> 2, ep_in |-> 1]]
       ELSE ScanInterfaces(j, ifs, k + 1, found, s)

\* for (j = bNumConfigurations; j > 0; j--): [found, sel, active] after the
\* loop.  A configuration whose interface scan leaves found set is made
\* active unless it already is; a failed set continues with the next one.
RECURSIVE ConfigLoop(_, _, _)
ConfigLoop(j, found, s) ==
  IF j = 0 THEN [found |-> found, sel |-> s, active |-> active]
  ELSE IF ~fetchOk[j] THEN ConfigLoop(j - 1, found, s)
  ELSE LET r == ScanInterfaces(j, configs[j], 1, found, s) IN
       IF ~r.found THEN ConfigLoop(j - 1, r.found, r.sel)
       ELSE IF (current = 0 \/ j # current) /\ ~setOk[j]
       THEN ConfigLoop(j - 1, r.found, r.sel)
       ELSE [found |-> TRUE, sel |-> r.sel,
             active |-> IF current = 0 \/ j # current THEN j ELSE active]

set_valid_configuration ==
  /\ ~returned
  /\ returned' = TRUE
  /\ IF ~getOk
     THEN /\ res' = -1
          /\ UNCHANGED <<sel, active>>
     ELSE LET r == ConfigLoop(Len(configs), FALSE, NoSel) IN
          /\ res' = IF r.found THEN 0 ELSE -1
          /\ sel' = r.sel
          /\ active' = r.active
  /\ UNCHANGED <<configs, current, getOk, fetchOk, setOk>>

Init ==
  /\ \E n \in 0..MaxConfigs :
       /\ configs \in [1..n -> UNION {[1..m -> Kinds] : m \in 0..MaxIfaces}]
       /\ current \in 0..n
  /\ getOk \in BOOLEAN
  /\ fetchOk \in [NumConfigs -> BOOLEAN]
  /\ setOk \in [NumConfigs -> IF SetMayFail THEN BOOLEAN ELSE {TRUE}]
  /\ returned = FALSE
  /\ res = 0
  /\ sel = NoSel
  /\ active = current

\* device_complete_initialization goes on to claim sel.iface, or dooms
Returned == returned /\ UNCHANGED vars

Next == set_valid_configuration \/ Returned

Spec == Init /\ [][Next]_vars

-----------------------------------------------------------------------------
(* The selection spec.md 4.5 describes                                    *)

Usable(i) == i.match /\ (i.eps = <<EP_OUT, EP_IN>> \/ i.eps = <<EP_IN, EP_OUT>>)

\* configurations whose descriptor is readable and that have a usable
\* usbmux interface
Candidates == {j \in NumConfigs : fetchOk[j] /\ \E k \in DOMAIN configs[j] : Usable(configs[j][k])}

Best == CHOOSE j \in Candidates : \A c \in Candidates : c <= j
FirstUsable(j) == CHOOSE k \in DOMAIN configs[j] :
                    Usable(configs[j][k]) /\ \A m \in 1..(k - 1) : ~Usable(configs[j][m])

-----------------------------------------------------------------------------
(* Properties                                                              *)

\* When libusb answers, set_valid_configuration succeeds exactly when some
\* readable configuration has a usable usbmux interface; it then picks the
\* first such interface of the highest such configuration, takes ep_out and
\* ep_in by direction in either order, and that configuration is active.
SelectionMatchesSpec ==
  returned /\ getOk =>
    IF Candidates = {} THEN res = -1
    ELSE /\ res = 0
         /\ sel.cfg = Best /\ sel.iface = FirstUsable(Best)
         /\ configs[Best][sel.iface].eps[sel.ep_out] = EP_OUT
         /\ configs[Best][sel.iface].eps[sel.ep_in] = EP_IN
         /\ active = Best

\* When set_valid_configuration returns 0, the interface it chose belongs
\* to the device's active configuration; any failure dooms the device
\* (spec.md 4.5).
ChosenInActiveConfig == returned /\ res = 0 => sel.cfg = active
=============================================================================
