-------------------------- MODULE MCStorageLimits ---------------------------
(***************************************************************************)
(* Small instances of StorageLimits for TLC.                               *)
(***************************************************************************)
EXTENDS StorageLimits, TLC

CONSTANTS a, b, c

\* Two days: one record expires at midnight, two as the clock stops; these
\* are of a time to come when the clock starts.
DaysCreated == (a :> 1) @@ (b :> 2) @@ (c :> 2)
DaysExpires == (a :> 2) @@ (b :> 3) @@ (c :> 3)

\* Times of four bits, from -8 to 7: a record of an ordinary life, and two
\* that claim to be as old as such a time can be.
OldestCreated == (a :> 0) @@ (b :> -8) @@ (c :> -8)
LatestExpires == (a :> 2) @@ (b :> 7) @@ (c :> -7)
=============================================================================
