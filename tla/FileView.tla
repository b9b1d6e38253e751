------------------------------ MODULE FileView ------------------------------
(***************************************************************************)
(* T_file_view (file_view.cpp): rows of a remote file around a position,   *)
(* cut out of a buffer of at most two blocks.                              *)
(*                                                                         *)
(* A file is its size and the set of positions of its newlines; the text   *)
(* in the buffer is the interval of the file it was loaded from.  The file *)
(* has no zero byte (C strings end there) and does not end exactly at the  *)
(* end of a block (see Session).                                           *)
(***************************************************************************)
EXTENDS Paging, FiniteSetsExt

CONSTANTS
    Rows,          \* rows_in_memo (17 in the code)
    ScrollRange,   \* 32700: the steps of the scroll bar
    Files,         \* the files of the servers the user connects to
    LoadsMayFail   \* may load() throw?

ASSUME RowsAssumption  == Rows \in Nat \ {0} /\ ScrollRange \in Nat \ {0}
ASSUME FilesAssumption ==
    \A f \in Files : f.size \in Nat /\ (f.size = 0 \/ f.size % BlockSize # 0)
                     /\ f.rows \subseteq 0..(f.size - 1)
ASSUME FailAssumption  == LoadsMayFail \in BOOLEAN

VARIABLES
    file,                \* the file client_ptr reads
    lost,                \* a load() of client_ptr has thrown: they all will (Session)
    buffer,              \* [from, len]: the bytes of the file in the buffer
    buffer_pos,
    prev_row_size, next_row_size,
    symbols_per_scroll,
    at,                  \* the position last asked for
    shown                \* what get_strings_for_pos ended with, see below

vars == <<file, lost, buffer, buffer_pos, prev_row_size, next_row_size,
          symbols_per_scroll, at, shown>>

Empty == [from |-> 0, len |-> 0]

\* An interval of the file as a result; a load that threw; an access to the
\* buffer beyond its end.
Text(lo, hi) == [kind |-> "text", lo |-> lo, hi |-> hi]
Nothing      == [kind |-> "none", lo |-> 0, hi |-> 0]
Thrown       == [kind |-> "thrown", lo |-> 0, hi |-> 0]
Outside      == [kind |-> "outside", lo |-> 0, hi |-> 0]

\* create_new_connection: scroll bar resolution.
Resolution(size) == IF size < ScrollRange THEN 1 ELSE size \div ScrollRange

\* Mutant of ResetPosition: the text of the last client stays in the buffer.
ResetKeepsText(s) ==
    /\ symbols_per_scroll' = s
    /\ buffer_pos' = 0
    /\ prev_row_size' = 0 /\ next_row_size' = 0
    /\ UNCHANGED buffer

\* reset_position(s)
ResetPosition(s) ==
    /\ symbols_per_scroll' = s
    /\ buffer_pos' = 0
    /\ prev_row_size' = 0 /\ next_row_size' = 0
    /\ buffer' = Empty

-----------------------------------------------------------------------------
(***************************************************************************)
(* load_buff.                                                              *)
(***************************************************************************)

\* Mutant of NeedsLoad: the position is compared with a whole buffer beyond.
NeedsLoadLate(pos) ==
    \/ pos = 0 /\ buffer.len = 0
    \/ pos < buffer_pos
    \/ pos > buffer_pos + 2 * BlockSize + 4 * Rows * symbols_per_scroll

\* One of the three tests of get_strings_for_pos asks for a load.  (The buffer one
\* of them loads satisfies the others.)
NeedsLoad(pos) ==
    \/ pos = 0 /\ buffer.len = 0
    \/ pos < buffer_pos
    \/ pos > buffer_pos + BlockSize + 4 * Rows * symbols_per_scroll

Low(pos) == pos \div BlockSize
HasNext(pos) == MaxBlock(file.size) >= Low(pos) + 1

\* Mutant of Blocks: they begin one block before.
BlocksBefore(pos, n) == [from |-> (Low(pos) - 1) * BlockSize, len |-> n * BlockSize]

\* The bytes of n blocks from the low one, as far as the file goes.
Blocks(pos, n) ==
    LET from == Low(pos) * BlockSize
        room == file.size - from
    IN  [from |-> from, len |-> IF room < n * BlockSize THEN room ELSE n * BlockSize]

\* Mutant of Loads: the second block is never loaded.
OneLoad(pos) == 1

\* How many loads it makes.
Loads(pos) == IF HasNext(pos) THEN 2 ELSE 1

-----------------------------------------------------------------------------
(***************************************************************************)
(* The rows, in positions of a buffer b read as beginning at base.         *)
(***************************************************************************)

\* The newlines from lo to hi.
Newlines(b, lo, hi) == {i \in lo..hi : i < b.len /\ b.from + i \in file.rows}

\* Where the row that holds rel ends (calc_next_row_size).
RowEnd(b, rel) == IF rel < b.len THEN Min(Newlines(b, rel, b.len) \cup {b.len}) ELSE rel

\* Where the row that holds rel begins (calc_prev_row_size).
RowStart(b, rel) == Max(Newlines(b, 1, rel) \cup {0})

\* How many rows end from lo to hi.
RowsIn(b, lo, hi) == Cardinality(Newlines(b, lo, hi))

\* Where Rows rows after start end, or the buffer does (get_next_rows).
NextEnd(b, start) ==
    Min({i \in Newlines(b, start + 1, b.len) : RowsIn(b, start + 1, i) >= Rows} \cup {b.len})

\* Mutant of PreviousStart: at the end of the buffer it shows no row before.
NoPrevious(b, start) == start

\* Where the rows before start begin that are missing to Rows (get_previous_rows).
PreviousStart(b, start) ==
    LET missing == Rows - RowsIn(b, start + 1, b.len)
    IN  IF missing <= 0 THEN start
        ELSE Max({i \in Newlines(b, 0, start - 1) : RowsIn(b, i, start - 1) >= missing} \cup {0})

-----------------------------------------------------------------------------

\* The rest of get_strings_for_pos, with the buffer b that begins at base.  Beyond
\* the end of the buffer, calc_prev_row_size reads memory that is not the
\* buffer's and substr() throws.
CutRows(pos, b, base) ==
    LET rel   == pos - base
        start == IF pos = 0 THEN 0 ELSE RowEnd(b, rel)
    IN  /\ next_row_size' = RowEnd(b, rel) - rel + 1
        /\ IF rel <= b.len
           THEN /\ prev_row_size' = rel - RowStart(b, rel) + 1
                /\ shown' = Text(b.from + PreviousStart(b, start), b.from + NextEnd(b, start))
           ELSE /\ prev_row_size' \in 1..(rel + 1)
                /\ shown' = Outside

\* get_strings_for_pos(p)
GetStringsForPos(p) ==
    LET pos == IF p > file.size THEN file.size ELSE p
    IN  /\ at' = pos
        /\ \/ /\ ~NeedsLoad(pos)
              /\ CutRows(pos, buffer, buffer_pos)
              /\ UNCHANGED <<buffer, buffer_pos, lost>>
           \/ /\ NeedsLoad(pos) /\ ~lost
              /\ buffer' = Blocks(pos, Loads(pos))
              /\ buffer_pos' = Low(pos) * BlockSize
              /\ CutRows(pos, buffer', buffer_pos')
              /\ UNCHANGED lost
           \* the first or the second load throws
           \/ /\ NeedsLoad(pos) /\ LoadsMayFail
              /\ \/ UNCHANGED buffer
                 \/ ~lost /\ Loads(pos) = 2 /\ buffer' = Blocks(pos, 1)
              /\ lost' = TRUE
              /\ shown' = Thrown
              /\ UNCHANGED <<buffer_pos, prev_row_size, next_row_size>>
    /\ UNCHANGED <<file, symbols_per_scroll>>

-----------------------------------------------------------------------------

\* The viewer gives the view another client and resets it.
Connect ==
    /\ file' \in Files
    /\ lost' = FALSE
    /\ ResetPosition(Resolution(file'.size))
    /\ at' = 0 /\ shown' = Nothing

Init ==
    /\ file \in Files
    /\ lost = FALSE
    /\ buffer = Empty
    /\ buffer_pos = 0
    /\ prev_row_size = 0 /\ next_row_size = 0
    /\ symbols_per_scroll = Resolution(file.size)
    /\ at = 0
    /\ shown = Nothing

\* Any position may be asked for, also of a new client: the notification that asks for
\* position 0 may come after the user's messages (see Viewer).
Next == Connect \/ \E p \in 0..(file.size + 1) : GetStringsForPos(p)

Spec == Init /\ [][Next]_vars

-----------------------------------------------------------------------------
(***************************************************************************)
(* Properties.                                                             *)
(***************************************************************************)

TypeOK ==
    /\ file \in Files
    /\ lost \in BOOLEAN
    /\ buffer \in [from : Nat, len : Nat]
    /\ buffer_pos \in Nat
    /\ prev_row_size \in Nat /\ next_row_size \in Nat
    /\ symbols_per_scroll \in Nat \ {0}
    /\ at \in Nat
    /\ shown \in [kind : {"none", "text", "thrown", "outside"}, lo : Nat, hi : Nat]

\* The rows are cut out of the buffer and not out of the memory behind it ("Preload
\* data if it need").
ReadsStayInBuffer == shown.kind # "outside"

\* Once anything of a client was loaded, or if position 0 is the first that it is asked
\* for, that is so whatever jumps and row moves the user makes ("works with very large
\* file").
ReadsStayInLoaded == ReadsStayInBuffer \/ (buffer.len = 0 /\ at > 0)

\* The text shown is the file's text at the position asked for: it lies in the file,
\* reaches that position, and starts no later than the row after it.  The buffer's offset in
\* the file is right whenever it is used.
ShowsPosition ==
    shown.kind = "text" =>
        /\ shown.lo <= shown.hi /\ at <= shown.hi /\ shown.hi <= file.size
        /\ shown.lo <= at \/ (at..(shown.lo - 1)) \cap file.rows = {}

\* There are as many rows as the window has, or as the buffer has.
ShowsEnoughRows ==
    shown.kind = "text" =>
        \/ Cardinality((shown.lo..shown.hi) \cap file.rows) >= Rows
        \/ shown.lo = buffer.from /\ shown.hi = buffer.from + buffer.len
=============================================================================
