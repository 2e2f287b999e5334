---------------------------- MODULE StreamCustody ----------------------------
(***************************************************************************)
(* What the hold subsystem promises the signal path, without any of its    *)
(* mechanism: a held channel's sample stream is opened and closed, readers *)
(* attach to it and detach from it, and no stream is closed under a        *)
(* reader.  HoldLifecycle implements this specification.                   *)
(***************************************************************************)
EXTENDS FiniteSets

CONSTANT Ids        \* held channels

VARIABLES live,     \* channels whose stream exists
          reading   \* channels with a reader attached to their stream

custodyVars == <<live, reading>>

TypeOK == live \subseteq Ids /\ reading \subseteq Ids

Init == live = {} /\ reading = {}

\* One pass of the owner: some streams are opened, others closed, never a
\* stream somebody reads.
Reshape(opened, closed) ==
    /\ closed \cap reading = {}
    /\ live' = (live \ closed) \cup opened
    /\ UNCHANGED reading

\* Readers attach to streams that exist.
Attach(S) ==
    /\ S \subseteq live
    /\ reading' = reading \cup S
    /\ UNCHANGED live

\* Readers let go.
Detach(S) ==
    /\ reading' = reading \ S
    /\ UNCHANGED live

\* The process ends: readers and streams go together.
Stop ==
    /\ live' = {}
    /\ reading' = {}

Next ==
    \/ \E opened, closed \in SUBSET Ids : Reshape(opened, closed)
    \/ \E S \in SUBSET Ids : Attach(S)
    \/ \E S \in SUBSET Ids : Detach(S)
    \/ Stop

Spec == Init /\ [][Next]_custodyVars

=============================================================================
