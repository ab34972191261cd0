---------------------------- MODULE VouchLedger -----------------------------
(***************************************************************************)
(* What a node promises its neighbours about the records it relays, with   *)
(* nothing of how: it vouches for a record only once the record is on      *)
(* disk, never takes a voucher back, and closes every gossip message it    *)
(* has opened, once.                                                       *)
(***************************************************************************)
EXTENDS Naturals

CONSTANTS Records, Messages

VARIABLES
    durable,    \* records that were committed to disk
    vouched,    \* records accepted from gossip or published
    standing    \* of each gossip message: unheard, open, closed

ledgerVars == <<durable, vouched, standing>>

TypeOK ==
    /\ durable \subseteq Records
    /\ vouched \subseteq Records
    /\ standing \in [Messages -> {"unheard", "open", "closed"}]

Init ==
    /\ durable = {}
    /\ vouched = {}
    /\ standing = [m \in Messages |-> "unheard"]

\* A batch reaches the disk.
Commit ==
    /\ durable \subseteq durable' /\ durable' \subseteq Records
    /\ UNCHANGED <<vouched, standing>>

\* A voucher for a durable record, which may answer one open message.
Vouch ==
    /\ \E r \in durable : vouched' = vouched \cup {r}
    /\ \/ UNCHANGED standing
       \/ \E m \in Messages : /\ standing[m] = "open"
                              /\ standing' = [standing EXCEPT ![m] = "closed"]
    /\ UNCHANGED durable

\* A message is heard, and closed at once or left open.
Hear ==
    /\ \E m \in Messages, s \in {"open", "closed"} :
          /\ standing[m] = "unheard"
          /\ standing' = [standing EXCEPT ![m] = s]
    /\ UNCHANGED <<durable, vouched>>

\* Messages are closed without a voucher: ignored, or dropped with the swarm.
Close ==
    /\ \E S \in SUBSET {m \in Messages : standing[m] = "open"} :
          standing' = [m \in Messages |-> IF m \in S THEN "closed" ELSE standing[m]]
    /\ UNCHANGED <<durable, vouched>>

Next == Commit \/ Vouch \/ Hear \/ Close

Spec == Init /\ [][Next]_ledgerVars
=============================================================================
