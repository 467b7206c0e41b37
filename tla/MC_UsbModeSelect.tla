--------------------------- MODULE MC_UsbModeSelect ---------------------------
EXTENDS UsbModeSelect

\* usbmux, Valeria, CDC-NCM, a usbmux-like interface of another protocol,
\* a HID interface
MC_Interfaces == {USBMUX, VALERIA, <<2, 13, 0>>, <<255, 254, 3>>, <<3, 0, 0>>}
=============================================================================
