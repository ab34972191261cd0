--------------------------- MODULE MCSyncSession ----------------------------
(***************************************************************************)
(* Small instances of SyncSession for TLC.                                 *)
(***************************************************************************)
EXTENDS SyncSession

\* The peers differ in nothing.
PeerSymmetry == Permutations(Peers)
=============================================================================
