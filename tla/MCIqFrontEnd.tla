----------------------------- MODULE MCIqFrontEnd -----------------------------
(* One or two VFOs: one may be added, removed, read or reconfigured while  *)
(* the splitter serves the FFT branch and the other; chains of none, two   *)
(* and all three preprocessors.                                            *)
EXTENDS IqFrontEnd

CONSTANTS v1, v2

OneVfo    == {v1}
TwoVfos   == {v1, v2}
NoChain   == <<>>
TwoLinks  == <<"dcBlock", "conjugate">>
FullChain == <<"decim", "dcBlock", "conjugate">>

=============================================================================
