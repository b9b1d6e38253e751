------------------------------ MODULE MCViewer ------------------------------
\* Viewer on an empty file, one of three blocks, and two whose scroll steps differ.
EXTENDS Viewer

MCFiles == {[size |-> 0, rows |-> {}], [size |-> 9, rows |-> {2, 6}]}
MCSteps == {[size |-> 3, rows |-> {1}], [size |-> 4, rows |-> {}]}
MCOneFile == {[size |-> 3, rows |-> {1}]}
MCJumps == {10}
NoJumps == {}

\* The first connection is to one of the files and the second to the other.
TwoFilesInit == Init /\ remote[1] # remote[2]
TwoFilesSpec == TwoFilesInit /\ [][Next]_vars
=============================================================================
