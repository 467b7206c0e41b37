----------------------------- MODULE MC_UsbConfig -----------------------------
EXTENDS UsbConfig

\* a usbmux interface with OUT/IN endpoints, one with swapped endpoints, one
\* with two OUT endpoints, one with a single endpoint, and an interface
\* that matches none of the usbmux constants
MC_Kinds == {[match |-> TRUE,  eps |-> <<EP_OUT, EP_IN>>],
             [match |-> TRUE,  eps |-> <<EP_IN, EP_OUT>>],
             [match |-> TRUE,  eps |-> <<EP_OUT, EP_OUT>>],
             [match |-> TRUE,  eps |-> <<EP_IN>>],
             [match |-> FALSE, eps |-> <<EP_OUT, EP_IN>>]}
=============================================================================
