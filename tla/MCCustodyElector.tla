--------------------------- MODULE MCCustodyElector ---------------------------
(* Small instances of CustodyElector.  With a load weight of 2 a node that serves *)
(* one track scores one less than an idle one, and two tracks two less: merits 1  *)
(* and 3 outweigh it, equal merits do not.                                        *)
EXTENDS CustodyElector

CONSTANTS t1, t2

TwoNodes    == 1 .. 2
MCTracks    == {t1, t2}
OneTrack    == {t1}
MCMerits    == {1, 3}
OneMerit    == {1}
NoneMissing == {}
MCIncapable == {<<2, t1>>}
AllReports  == {"fix", "timing", "merit"}
NoReports   == {}

=============================================================================
