----------------------------- MODULE MCSession -----------------------------
\* Session, on a file, on small instances; Deltas reaches past both ends of the file.
EXTENDS FileSession

MCDeltas == {-2, 0, 1}
=============================================================================
