---------------------------- MODULE MCTrackTable ----------------------------
(* A small instance of TrackTable for TLC. *)
EXTENDS TrackTable

CONSTANTS local, p1

\* Three buckets in a row.  The one in the middle is near enough to both
\* others to merge and to associate with; those are out of each other's reach.
MCFreqs == {2, 4, 6}
MCPeers == {p1}
=============================================================================
