---------------------------- MODULE MC_UsbSerial ----------------------------
EXTENDS UsbSerial

\* units of a well-formed serial: 'A', 'B', a high-bit low byte, a
\* non-zero high byte, a zero low byte with a non-zero high byte, NUL
MC_Units == {<<65, 0>>, <<66, 0>>, <<193, 0>>, <<65, 1>>, <<0, 1>>, <<0, 0>>}

\* any pair of three byte values, for descriptors cut short or odd
MC_AnyPair == {0, 65, 193} \X {0, 65, 193}
=============================================================================
