-------------------------- MODULE MCRecordPipeline --------------------------
(***************************************************************************)
(* Small instances of RecordPipeline for TLC.                              *)
(***************************************************************************)
EXTENDS RecordPipeline

CONSTANTS self1, self2, alice, x, y, f1, f2

MCOrigins == {self1, self2, alice}

\* Records of another origin: one, or three of which two have the same key.
OneRemote == {[origin |-> alice, seq |-> 1, body |-> x]}
ThreeRemote == {[origin |-> alice, seq |-> 1, body |-> x],
                [origin |-> alice, seq |-> 2, body |-> x],
                [origin |-> alice, seq |-> 2, body |-> y]}

AllReads == {{"highest", "ids", "seeds"}}

\* A start-up that fails to read the sequences and the seeds of the windows,
\* but has the stored ids.
IdsAreRead == {{"ids"}} \cup AllReads

\* A start-up that may lose any one kind of read, or all of them.
ReadsFail == AllReads \cup {{"ids", "seeds"}, {"highest", "seeds"}, {"highest", "ids"}, {}}
=============================================================================
