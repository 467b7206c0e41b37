---------------------------- MODULE UsbModeSelect ----------------------------
(***************************************************************************)
(* The mode decision of get_mode_cb (usb.c 723-774) with guess_mode        *)
(* (usb.c 437-505): after the GET_MODE answer, the device's mode is        *)
(* guessed from bNumConfigurations and the interfaces of configuration 5,  *)
(* and compared with the mode asked for in the environment variable        *)
(* (ENV_DEVICE_MODE, default 1).  The device is asked to switch, or        *)
(* initialization completes in the current mode.                           *)
(*                                                                         *)
(* An interface is its <<class, subclass, protocol>> triple.               *)
(***************************************************************************)
EXTENDS Naturals, FiniteSets

CONSTANTS
  NumConfigs,  \* bNumConfigurations values of the device descriptor
  Interfaces,  \* interface triples configuration 5 may contain
  Desired,     \* atoi(getenv(ENV_DEVICE_MODE)), 1 when it is unset
  NoDesc       \* model value: configuration 5's descriptor could not be read

\* the Apple usbmux interface, and the other interfaces guess_mode looks for
USBMUX  == <<255, 254, 2>>
VALERIA == <<255, 42, 255>>
INTERFACE_CLASS == 255

\* the modes guess_mode returns
UNDETERMINED == 0
INITIAL == 1
VALERIA_MODE == 2
CDC_NCM == 3
USBETH_CDC_NCM == 4
CDC_NCM_DIRECT == 5

VARIABLES
  numConfigs,  \* devdesc.bNumConfigurations
  config5,     \* the interfaces of configuration 5, or NoDesc
  desired,     \* desired_mode
  guessed,     \* guessed_mode
  outcome      \* "pending", "switch" (SET_MODE submitted), "complete"

vars == <<numConfigs, config5, desired, guessed, outcome>>

-----------------------------------------------------------------------------
(* guess_mode                                                              *)

IsValeria(i) == i[1] = INTERFACE_CLASS /\ i[2] = 42 /\ i[3] = 255
IsCdcNcm(i)  == i[1] = 2 /\ i[2] = 13
IsUsbmux(i)  == i = USBMUX

\* the flags the loop over configuration 5's interfaces sets
has_valeria(cfg) == \E i \in cfg : IsValeria(i)
has_cdc_ncm(cfg) == \E i \in cfg : IsCdcNcm(i)
has_usbmux(cfg)  == \E i \in cfg : IsUsbmux(i)

\* a mutant: CDC-NCM is tested before Valeria
guess_mode_cdc_first(n, cfg) ==
  CASE n = 1 -> CDC_NCM_DIRECT
    [] n <= 4 -> INITIAL
    [] n = 6 -> USBETH_CDC_NCM
    [] n # 5 \/ cfg = NoDesc -> UNDETERMINED
    [] has_cdc_ncm(cfg) /\ has_usbmux(cfg) -> CDC_NCM
    [] has_valeria(cfg) /\ has_usbmux(cfg) -> VALERIA_MODE
    [] OTHER -> UNDETERMINED

guess_mode(n, cfg) ==
  CASE n = 1 -> CDC_NCM_DIRECT
    [] n <= 4 -> INITIAL
    [] n = 6 -> USBETH_CDC_NCM
    [] n # 5 \/ cfg = NoDesc -> UNDETERMINED
    [] has_valeria(cfg) /\ has_usbmux(cfg) -> VALERIA_MODE
    [] has_cdc_ncm(cfg) /\ has_usbmux(cfg) -> CDC_NCM
    [] OTHER -> UNDETERMINED

-----------------------------------------------------------------------------
(* get_mode_cb on a completed GET_MODE transfer                            *)

get_mode_cb ==
  /\ outcome = "pending"
  /\ guessed' = guess_mode(numConfigs, config5)
  /\ outcome' = IF desired \in 1..5 /\ guessed' > 0 /\ guessed' # desired
                THEN "switch" ELSE "complete"
  /\ UNCHANGED <<numConfigs, config5, desired>>

Init ==
  /\ numConfigs \in NumConfigs
  /\ config5 \in (SUBSET Interfaces) \cup {NoDesc}
  /\ desired \in Desired
  /\ guessed = UNDETERMINED
  /\ outcome = "pending"

\* the chain goes on in switch_mode_cb or device_complete_initialization
Decided == outcome # "pending" /\ UNCHANGED vars

Next == get_mode_cb \/ Decided

Spec == Init /\ [][Next]_vars

-----------------------------------------------------------------------------
(* The classification of spec.md 4.4                                     *)

SpecMode ==
  CASE numConfigs = 1 -> CDC_NCM_DIRECT
    [] numConfigs \in 2..4 -> INITIAL
    [] numConfigs = 6 -> USBETH_CDC_NCM
    [] numConfigs = 5 /\ config5 # NoDesc ->
         IF has_usbmux(config5) /\ has_valeria(config5) THEN VALERIA_MODE
         ELSE IF has_usbmux(config5) /\ has_cdc_ncm(config5) THEN CDC_NCM
         ELSE UNDETERMINED
    [] OTHER -> UNDETERMINED

-----------------------------------------------------------------------------
(* Properties                                                              *)

\* guess_mode classifies every device as spec.md 4.4 does, Valeria taking
\* precedence over CDC-NCM when configuration 5 has both.
GuessMatchesSpec == outcome # "pending" => guessed = SpecMode

\* A device with a single configuration is classified as CDC-NCM direct
\* and is not asked to switch modes (spec.md 8, boundary behaviours).
SingleConfigNotSwitched ==
  outcome # "pending" /\ numConfigs = 1 => outcome = "complete"
=============================================================================
