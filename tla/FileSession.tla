----------------------------- MODULE FileSession -----------------------------
(***************************************************************************)
(* A Session whose server reads a real file: the T_load_file inside the    *)
(* T_connection opens its file when the connection is built and loads a    *)
(* block for every request (LoadFile).  Session knows a text only by its   *)
(* block's number; here are the bytes.                                     *)
(***************************************************************************)
EXTENDS Session

CONSTANT Lengths    \* see LoadFile

ASSUME LengthsAssumption == Lengths \subseteq Nat

VARIABLES infile, bytes, disk

fileVars == <<infile, bytes, disk>>
allVars  == <<vars, fileVars>>

File == INSTANCE LoadFile

FileInit ==
    /\ Init
    /\ infile = "good"
    /\ bytes = File!Fresh
    /\ disk = 0

\* A connection is built with its T_load_file; load() is called by the handler of a
\* request.  Nothing else touches the file or its buffer.
FileNext ==
    \/ ConnectOk /\ File!Opened
    \/ HandleReadFromClient /\ File!Load(Head(c2s))
    \/ /\ \/ Client \/ Run \/ HandleWriteToClient \/ Shutdown
          \/ Elapse \/ WriteOk \/ ReadOk \/ OpFails \/ Cut
       /\ UNCHANGED fileVars

FileSpec     == FileInit /\ [][FileNext]_allVars
FileFairSpec == FileSpec /\ Fairness

-----------------------------------------------------------------------------
(***************************************************************************)
(* Properties.                                                             *)
(***************************************************************************)

Answered == call = "idle" /\ outcome = "returned"

\* The rows the viewer is given are the bytes of the page it asked for, although the
\* server sends its whole buffer whatever it has read into it: as long as the
\* stream has found all it was asked for.
BytesArePage ==
    Answered /\ infile = "good" => File!ReceivedText = File!PageText(block_position)

\* Even when it has not, because the file has become shorter, no answer is longer
\* than the page: what an earlier page left in the buffer never shows behind it.
TextFitsPage == Answered => File!TextLength <= File!PageLength(block_position)

\* A file that is never shorter than it was when it was opened can be read for ever:
\* the stream is never asked for more than there was.
OnlyShortFilesFail ==
    [][infile = "good" /\ infile' = "failed" => disk' < file_size]_allVars
=============================================================================
