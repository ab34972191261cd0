--------------------------- MODULE MCConnections ----------------------------
(***************************************************************************)
(* Small instances of Connections for TLC.                                 *)
(***************************************************************************)
EXTENDS Connections, TLC

Lan == [prefix |-> "lan", relayed |-> FALSE]
Relay == [prefix |-> "relay", relayed |-> TRUE]
Circuit == [prefix |-> NoPrefix, relayed |-> TRUE]

Direct == {[dialer |-> Lan, listener |-> Lan]}

\* A circuit shows the relay's address to the dialer and no IP to the listener.
DirectOrRelayed == Direct \cup {[dialer |-> Circuit, listener |-> Relay]}

\* The connection identifiers are interchangeable.
ConnSymmetry == Permutations(Conns)
=============================================================================
