--------------------------- MODULE MCHoldLifecycle ---------------------------
(* Small instances of HoldLifecycle.  A frequency of 9 with a display bandwidth  *)
(* of 1 fits both windows, but the 250 kHz decoder's passband (4) only the upper *)
(* one; 4 fits the lower window alone.                                           *)
EXTENDS HoldLifecycle

MCFreqs      == {4, 9}
MCBandwidths == {1}
LowWindow    == [center |-> 5, rate |-> 10]
HighWindow   == [center |-> 12, rate |-> 10]
MCSpectra    == {LowWindow, HighWindow}

=============================================================================
