------------------------------- MODULE Paging -------------------------------
(***************************************************************************)
(* The arithmetic of pages (blocks) shared by both ends of the viewer:     *)
(* T_get_data (get_data.hpp), T_load_file (load_file.cpp) and T_client     *)
(* (client.cpp).  A file is its size; the text of a block is named by the  *)
(* block's number, and NoText names the empty string.                      *)
(***************************************************************************)
EXTENDS Integers

CONSTANTS
    BlockSize,   \* T_get_data::c_block_size (65536 in the code)
    SizeMod      \* 2^width of size_t: 2^64 in the x64 build, 2^32 in Win32

ASSUME BlockSizeAssumption == BlockSize \in Nat \ {0}
ASSUME SizeModAssumption   == SizeMod \in Nat \ {0}

NoText == -1

\* max_block_position: the last index load() accepts.
MaxBlock(size) == size \div BlockSize

\* Mutant of Clamp: the index is taken as it is.
Unclamped(i, max) == i

\* The page an index stands for: the last one when it is out of range.
Clamp(i, max) == IF i <= max THEN i ELSE max

\* read_from < file_size: is there any byte of the file in block b?
HasText(b, size) == b * BlockSize < size

\* What a page request for block b ought to be answered with.
PageOf(b, size) == IF HasText(b, size) THEN b ELSE NoText

\* Mutant of Loaded: only a whole block is read.
LoadedWhole(buf, i, size) ==
    LET b == Clamp(i, MaxBlock(size))
    IN  IF (b + 1) * BlockSize <= size THEN b ELSE buf

\* The text in T_load_file's temp_buffer after load(i): past the end of the
\* file nothing is read and the buffer keeps what it held.
Loaded(buf, i, size) ==
    LET b == Clamp(i, MaxBlock(size))
    IN  IF HasText(b, size) THEN b ELSE buf

\* The block T_client::reposition_and_load goes to.  The sum is a size_t: a move
\* before block 0 wraps to a huge index, which the range test then catches.  (The
\* source's last branch, delta = 0 out of range, needs a position out of range.)
Reposition(pos, delta, max) ==
    LET sum == (pos + delta) % SizeMod
    IN  IF sum <= max THEN sum
        ELSE IF delta < 0 THEN 0 ELSE max
=============================================================================
