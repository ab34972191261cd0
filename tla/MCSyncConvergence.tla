------------------------- MODULE MCSyncConvergence --------------------------
(***************************************************************************)
(* Small instances of SyncConvergence for TLC.                             *)
(***************************************************************************)
EXTENDS SyncConvergence

\* A day of two pages, the first longer than one request may name; more days
\* than may be listed together, and one more than an inventory offers.
Days == (1 :> {1, 2, 3, 4}) @@ (2 :> {5}) @@ (3 :> {6, 7}) @@ (4 :> {8})

\* Records of two origins; of the first, some are listed long after later
\* ones and leave the sequence window when those are accepted first.
DayRecords ==
    LET of(o, n) == [origin |-> o, seq |-> n, body |-> "file"]
    IN  <<of("p", 1), of("p", 0), of("q", 0), of("q", 1),
          of("p", 3), of("q", 2), of("p", 2), of("q", 3)>>

\* A day larger than what one request may ask for, but no larger than a page.
BusyDay == (1 :> {1, 2, 3}) @@ (2 :> {4})
BusyRecords ==
    [i \in 1..4 |-> [origin |-> "p", seq |-> i, body |-> "file"]]
=============================================================================
