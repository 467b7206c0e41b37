------------------------ MODULE MC_UsbDeviceManager ------------------------
(* Model-checking instance of UsbDeviceManager: location model values and *)
(* the state constraint that keeps counters small.                        *)
EXTENDS UsbDeviceManager, TLC

CONSTANTS l1, l2

MC_Loc1 == {l1}
MC_Loc == {l1, l2}

==========================================================================
