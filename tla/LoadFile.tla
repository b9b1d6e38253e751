------------------------------- MODULE LoadFile -------------------------------
(***************************************************************************)
(* T_load_file (load_file.cpp), byte by byte: the file on the server's     *)
(* disk, the stream that reads it and the one buffer its blocks go through.*)
(*                                                                         *)
(* A byte of the file is named by its position in it.  The file has no     *)
(* zero byte.  Its size is taken when it is opened; afterwards it may grow *)
(* and shrink, which only matters for how much of it each read finds.  A   *)
(* read that finds less than it wants leaves the stream failed, and seekg  *)
(* and read do nothing on a failed stream.                                 *)
(***************************************************************************)
EXTENDS Paging

CONSTANT Lengths    \* the lengths the file may have when it is read

VARIABLES
    file_size,   \* the size when the file was opened
    infile,      \* the stream: "good" or "failed"
    bytes,       \* temp_buffer: what is in each of its cells 0..BlockSize
    disk         \* the length of the file when it was last opened or read

Zero == -1    \* the byte that ends a C string
Junk == -2    \* a cell that was never written: any byte
Cells == 0..BlockSize

\* The buffer of the constructor: an empty string.
Fresh == [k \in Cells |-> IF k = 0 THEN Zero ELSE Junk]

\* What the constructor leaves, the file having been opened.
Opened ==
    /\ infile' = "good"
    /\ bytes' = Fresh
    /\ disk' = file_size'

-----------------------------------------------------------------------------
(***************************************************************************)
(* load(i)                                                                 *)
(***************************************************************************)

Block(i)    == Clamp(i, MaxBlock(file_size))
ReadFrom(i) == (Block(i) * BlockSize) % SizeMod

\* Mutant of ReadTo: the end of the file is not looked at.
BlockEnd(i) == ((Block(i) + 1) * BlockSize) % SizeMod

ReadTo(i) ==
    LET to == ((Block(i) + 1) * BlockSize) % SizeMod
    IN  IF to > file_size THEN file_size ELSE to

ReadSize(i) == (ReadTo(i) - ReadFrom(i)) % SizeMod

\* How many of n bytes from position p the stream gives.
Got(p, n) ==
    IF infile = "failed" \/ disk' <= p THEN 0
    ELSE IF disk' - p < n THEN disk' - p ELSE n

\* Mutant of Filled: the text is not ended, and the last one shows behind it.
FilledOpen(p, n) == [k \in Cells |-> IF k < Got(p, n) THEN p + k ELSE bytes[k]]

\* The buffer after a read of n bytes from p: the bytes that were found, then what
\* it held, and the end of the text where it was expected.
Filled(p, n) ==
    [k \in Cells |-> IF k = n THEN Zero ELSE IF k < Got(p, n) THEN p + k ELSE bytes[k]]

Load(i) ==
    /\ \/ /\ ReadFrom(i) >= file_size
          /\ UNCHANGED <<infile, bytes, disk>>
       \/ /\ ReadFrom(i) < file_size
          /\ disk' \in Lengths
          /\ bytes' = Filled(ReadFrom(i), ReadSize(i))
          /\ infile' = IF Got(ReadFrom(i), ReadSize(i)) < ReadSize(i) THEN "failed" ELSE infile
    /\ UNCHANGED file_size

-----------------------------------------------------------------------------
(***************************************************************************)
(* The string that arrives: handle_read_from_client sends the BlockSize    *)
(* first cells whatever was read, and T_client::load ends its text at the  *)
(* first zero.                                                             *)
(***************************************************************************)

\* Mutant of TextLength: the client takes all it receives for text.
WholeBlock == BlockSize

TextLength ==
    CHOOSE n \in Cells :
        /\ n = BlockSize \/ bytes[n] = Zero
        /\ \A k \in 0..(n - 1) : bytes[k] # Zero

ReceivedText == [k \in 0..(TextLength - 1) |-> bytes[k]]

\* The bytes of block b, of a file of the size that was told to the client.
PageLength(b) ==
    IF file_size - b * BlockSize < BlockSize THEN file_size - b * BlockSize ELSE BlockSize
PageText(b) == [k \in 0..(PageLength(b) - 1) |-> b * BlockSize + k]
=============================================================================
