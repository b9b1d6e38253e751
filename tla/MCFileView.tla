----------------------------- MODULE MCFileView -----------------------------
\* FileView on small files, with blocks of eight bytes, and of four.
EXTENDS FileView

MCFiles ==
    {[size |-> 0, rows |-> {}]}
        \cup {[size |-> 5, rows |-> r] : r \in SUBSET {0, 2, 3}}
        \cup {[size |-> 19, rows |-> r] : r \in SUBSET {2, 7, 8, 15, 18}}
        \cup {[size |-> 35, rows |-> r] : r \in SUBSET {6, 16, 24, 25, 33}}

MCSmallFiles ==
    {[size |-> 11, rows |-> r] : r \in SUBSET {1, 3, 4, 8}}
        \cup {[size |-> 19, rows |-> r] : r \in SUBSET {0, 6, 7, 12, 18}}
=============================================================================
