----------------------------- MODULE MCNodeParts -----------------------------
(* Constants for checking NodeParts: two peers behind one address. *)
EXTENDS NodeParts

CONSTANTS p1, p2

OneHost == [p \in {p1, p2} |-> [ip |-> "ip", prefix |-> "prefix"]]

\* The second bucket of allow_gossip refuses before the first, and every
\* invalid message is one too many.
SmallCapacity ==
    [k \in PeerKinds \cup SourceKinds |->
        CASE k \in {"gossip_records", "sync_requests", "sync_response_bytes"} -> 2
          [] k = "invalid" -> 0
          [] OTHER -> 1]

SmallWindows == [k \in WindowKinds |-> 2]
=============================================================================
