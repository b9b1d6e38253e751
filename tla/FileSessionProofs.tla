-------------------------- MODULE FileSessionProofs --------------------------
(***************************************************************************)
(* Proofs about FileSession: the bytes of the rows, for every block size,  *)
(* set of sizes and behaviour of the file while it is served.  What        *)
(* SessionProofs says of a Session holds of one on a file.                 *)
(***************************************************************************)
EXTENDS FileSession, SessionProofs, WellFoundedInduction, NaturalsInduction

\* A size_t holds the end of every block.
FilesFit == \A s \in FileSizes : s + BlockSize <= SizeMod

\* The file is only another view of what the server does.
LEMMA FileNextIsNext == [FileNext]_allVars => [Next]_vars
  BY DEF FileNext, allVars, Next, Client, Server, Network

\* A session whose server reads a file implements Session: the conversation never
\* depends on the bytes.  So all that SessionProofs proves holds of it, for every
\* behaviour of the file.
THEOREM FileIsSession == FileSpec => Spec
<1>1. FileInit => Init
  BY DEF FileInit
<1> QED BY <1>1, FileNextIsNext, PTL DEF FileSpec, Spec

THEOREM FileInvariance == FileSpec => []IInv
BY FileIsSession, Invariance, PTL

\* In particular it is the block service of BlockService (IsBlockService).
THEOREM FileIsBlockService ==
    ASSUME PartialLastBlock PROVE FileSpec => IsBlockService
BY FileIsSession, Implementation, PartialLastBlock, PTL

\* And its answers are the pages that were asked for (AnswerIsPage).
THEOREM FileAnswers ==
    ASSUME PartialLastBlock PROVE FileSpec => []AnswerIsPage
BY FileIsSession, RightPage, PartialLastBlock, PTL

-----------------------------------------------------------------------------
(***************************************************************************)
(* One load.                                                               *)
(***************************************************************************)

InSizeT == file_size \in Nat /\ (file_size = 0 \/ file_size + BlockSize <= SizeMod)

LEMMA SizeFits == ASSUME FilesFit, IInv PROVE InSizeT
  BY FileSizesAssumption DEF FilesFit, IInv, ServerInv, InSizeT

\* The block a request is for lies in the file, or begins at its end.
LEMMA BlockInFile ==
    ASSUME InSizeT, NEW i \in Nat
    PROVE  /\ File!Block(i) \in 0..MaxBlock(file_size)
           /\ File!Block(i) * BlockSize \in 0..file_size
           /\ (File!Block(i) + 1) * BlockSize = File!Block(i) * BlockSize + BlockSize
<1>0. BlockSize \in Nat \ {0} /\ file_size \in Nat
  BY BlockSizeAssumption DEF InSizeT
<1> DEFINE m == MaxBlock(file_size)
           b == File!Block(i)
<1>1. m \in Nat /\ m * BlockSize \in Nat /\ m * BlockSize <= file_size
  BY <1>0 DEF MaxBlock
<1>2. b \in 0..m
  BY <1>1 DEF File!Block, File!Clamp, File!MaxBlock, MaxBlock
<1> HIDE DEF m, b
<1>3. b \in Nat /\ b <= m
  BY <1>1, <1>2
<1>4. b * BlockSize \in Nat /\ b * BlockSize <= m * BlockSize
  BY <1>0, <1>1, <1>3
<1>5. b * BlockSize <= file_size
  BY <1>0, <1>1, <1>4
<1>6. (b + 1) * BlockSize = b * BlockSize + BlockSize
  BY <1>0, <1>3
<1> QED BY <1>0, <1>2, <1>4, <1>5, <1>6 DEF m, b

\* What load() asks the stream for: the bytes of the block as far as the file went
\* when it was opened.
LEMMA ReadIs ==
    ASSUME InSizeT, NEW i \in Nat
    PROVE  /\ File!ReadFrom(i) = File!Block(i) * BlockSize
           /\ File!ReadFrom(i) \in Nat
           /\ File!ReadFrom(i) < file_size =>
                /\ File!ReadSize(i) = File!PageLength(File!Block(i))
                /\ File!ReadSize(i) \in 1..BlockSize
                /\ File!ReadFrom(i) + File!ReadSize(i) <= file_size
<1>0. BlockSize \in Nat \ {0} /\ SizeMod \in Nat \ {0} /\ file_size \in Nat
  BY BlockSizeAssumption, SizeModAssumption DEF InSizeT
<1> DEFINE from == File!Block(i) * BlockSize
           to   == IF from + BlockSize > file_size THEN file_size ELSE from + BlockSize
<1>1. from \in Nat /\ from <= file_size
  BY <1>0, BlockInFile
<1>2. File!ReadFrom(i) = from % SizeMod
  BY DEF File!ReadFrom
<1>3. (File!Block(i) + 1) * BlockSize = from + BlockSize
  BY BlockInFile
<1>4. File!PageLength(File!Block(i)) =
        IF file_size - from < BlockSize THEN file_size - from ELSE BlockSize
  BY DEF File!PageLength
<1>5. File!ReadTo(i) =
        LET t == (from + BlockSize) % SizeMod IN IF t > file_size THEN file_size ELSE t
  BY <1>3 DEF File!ReadTo
<1>6. File!ReadSize(i) = (File!ReadTo(i) - File!ReadFrom(i)) % SizeMod
  BY DEF File!ReadSize
<1> HIDE DEF from
<1>7. from % SizeMod = from
  BY <1>0, <1>1 DEF InSizeT
<1>8. ASSUME from < file_size
      PROVE  /\ File!ReadSize(i) = File!PageLength(File!Block(i))
             /\ File!ReadSize(i) \in 1..BlockSize
             /\ from + File!ReadSize(i) <= file_size
  <2>1. from + BlockSize < SizeMod /\ file_size < SizeMod
    BY <1>0, <1>1, <1>8 DEF InSizeT
  <2>2. (from + BlockSize) % SizeMod = from + BlockSize
    BY <1>0, <1>1, <2>1
  <2>3. File!ReadTo(i) = to
    BY <1>5, <2>2
  <2>4. to - from \in 1..BlockSize /\ to - from < SizeMod /\ to <= file_size
    BY <1>0, <1>1, <1>8, <2>1
  <2>5. (to - from) % SizeMod = to - from
    BY <1>0, <2>4
  <2>6. File!ReadSize(i) = to - from
    BY <1>2, <1>6, <1>7, <2>3, <2>5
  <2>7. to - from = File!PageLength(File!Block(i))
    BY <1>0, <1>1, <1>4
  <2> QED BY <1>0, <1>1, <2>4, <2>6, <2>7
<1> QED BY <1>1, <1>2, <1>7, <1>8 DEF from


\* After it the buffer holds the block: a zero behind its last byte, and its bytes
\* as long as the stream is good.
Holds(b) ==
    /\ bytes[File!PageLength(b)] = File!Zero
    /\ infile = "good" => \A k \in 0..(File!PageLength(b) - 1) : bytes[k] = b * BlockSize + k

LEMMA PageLengthIs ==
    ASSUME InSizeT, NEW i \in Nat
    PROVE  /\ File!PageLength(File!Block(i)) \in 0..BlockSize
           /\ File!PageLength(File!Block(i)) = 0 <=> File!Block(i) * BlockSize = file_size
<1>0. BlockSize \in Nat \ {0} /\ file_size \in Nat
  BY BlockSizeAssumption DEF InSizeT
<1>1. File!Block(i) * BlockSize \in 0..file_size
  BY BlockInFile
<1> QED
  BY <1>0, <1>1 DEF File!PageLength

\* The pages whose answer is what the server has read for them: those with text, and
\* the one of an empty file.  (For the page at the end of a file of whole blocks it
\* reads nothing and sends what the buffer held.)
Exact(b) == HasText(b, file_size) \/ file_size = 0

LEMMA LoadHolds ==
    ASSUME FilesFit, IInv,
           NEW i \in Nat, File!Load(i),
           bytes \in [File!Cells -> Int], infile \in {"good", "failed"},
           file_size = 0 => bytes[0] = File!Zero
    PROVE  /\ Exact(File!Block(i)) => Holds(File!Block(i))'
           /\ bytes' \in [File!Cells -> Int] /\ infile' \in {"good", "failed"}
           /\ file_size = 0 => bytes'[0] = File!Zero
<1> DEFINE b == File!Block(i)
           l == File!PageLength(b)
           p == File!ReadFrom(i)
           n == File!ReadSize(i)
<1>0. InSizeT /\ file_size' = file_size /\ BlockSize \in Nat \ {0}
  BY SizeFits, BlockSizeAssumption DEF File!Load
<1>1. b \in Nat /\ b' = b /\ l' = l /\ b \in 0..MaxBlock(file_size)
  BY <1>0, BlockInFile DEF File!Block, File!MaxBlock, File!PageLength
<1>2. p = b * BlockSize /\ p \in Nat /\ p <= file_size /\ file_size \in Nat
  BY <1>0, ReadIs, BlockInFile DEF InSizeT
<1>3. l \in 0..BlockSize /\ (p = file_size => l = 0)
  BY <1>0, <1>2, PageLengthIs
<1>4. \/ p >= file_size /\ UNCHANGED <<infile, bytes>>
      \/ /\ p < file_size
         /\ disk' \in Lengths
         /\ bytes' = File!Filled(p, n)
         /\ infile' = IF File!Got(p, n) < n THEN "failed" ELSE infile
  BY Zenon DEF File!Load
<1>5. p < file_size => n = l /\ n \in 1..BlockSize
  BY <1>0, ReadIs
<1> HIDE DEF b, l, p, n
<1>6. /\ Exact(b) =>
            /\ bytes'[l] = File!Zero
            /\ infile' = "good" => \A k \in 0..(l - 1) : bytes'[k] = b * BlockSize + k
      /\ bytes' \in [File!Cells -> Int] /\ infile' \in {"good", "failed"}
      /\ file_size = 0 => bytes'[0] = File!Zero
  <2>1. CASE ~(p < file_size)
    <3>1. UNCHANGED <<infile, bytes>>
      BY <1>2, <1>4, <2>1
    <3>2. p = file_size
      BY <1>2, <2>1
    <3>3. Exact(b) => file_size = 0
      BY <1>2, <3>2 DEF Exact, HasText
    <3>4. l = 0
      BY <1>3, <3>2
    <3> QED
      BY <3>1, <3>3, <3>4
  <2>2. CASE p < file_size
    <3>0. /\ disk' \in Lengths
          /\ bytes' = File!Filled(p, n)
          /\ infile' = IF File!Got(p, n) < n THEN "failed" ELSE infile
      <4>1. ~(p >= file_size)
        BY <1>2, <2>2
      <4> QED
        BY <1>4, <4>1, Zenon
    <3>1. n = l /\ n \in 1..BlockSize /\ disk' \in Nat
      BY <1>5, <2>2, <3>0, LengthsAssumption
    <3>2. bytes' = [k \in File!Cells |->
                      IF k = n THEN File!Zero ELSE IF k < File!Got(p, n) THEN p + k ELSE bytes[k]]
      BY <3>0 DEF File!Filled
    <3>3. File!Got(p, n) \in Int /\ (File!Got(p, n) < n => infile' = "failed")
      BY <1>2, <3>0, <3>1 DEF File!Got
    <3>4. n \in File!Cells /\ (\A k \in 0..(n - 1) : k \in File!Cells) /\ File!Zero \in Int
          /\ File!Cells \subseteq Nat
      BY <1>0, <3>1 DEF File!Cells, File!Zero
    <3> DEFINE got == File!Got(p, n)
    <3> HIDE DEF got
    <3>5. bytes' = [k \in File!Cells |-> IF k = n THEN File!Zero ELSE IF k < got THEN p + k ELSE bytes[k]]
          /\ got \in Int /\ (got < n => infile' = "failed")
      BY <3>2, <3>3 DEF got
    <3>6. bytes' \in [File!Cells -> Int] /\ bytes'[n] = File!Zero
      BY <1>2, <3>4, <3>5
    <3>7. ASSUME infile' = "good", NEW k \in 0..(n - 1) PROVE bytes'[k] = p + k
      BY <3>1, <3>4, <3>5, <3>7
    <3>8. infile' \in {"good", "failed"}
      BY <3>0
    <3> QED
      BY <1>2, <2>2, <3>1, <3>6, <3>7, <3>8
  <2> QED
    BY <2>1, <2>2
<1> QED
  BY <1>1, <1>6 DEF Holds, b, l


-----------------------------------------------------------------------------
(***************************************************************************)
(* The answer.                                                             *)
(***************************************************************************)

\* The answer to the client's last request has left the server's buffer and no
\* other request is on its way.
Answering ==
    \/ call \in {"write", "read"} /\ s2c # <<>>
    \/ call = "read" /\ op = "done" /\ ok
    \/ Answered

\* Until the client asks again the buffer stays what it was for that answer.
ByteInv ==
    /\ bytes \in [File!Cells -> Int]
    /\ infile \in {"good", "failed"}
    /\ file_size = 0 => bytes[0] = File!Zero
    /\ Answering => c2s = <<>> /\ (Exact(block_position) => Holds(block_position))

\* A request for a page the client knows is for that block.
LEMMA AskedBlock ==
    ASSUME IInv, call \in {"idle", "write", "read"}
    PROVE  block_position \in Nat /\ File!Block(block_position) = block_position
<1>1. block_position \in 0..max_block_position /\ max_block_position = MaxBlock(file_size)
      /\ max_block_position \in Nat
  BY DEF IInv, TypeOK, ClientInv
<1> QED
  BY <1>1 DEF File!Block, File!Clamp, File!MaxBlock, MaxBlock

LEMMA FileReadStep ==
    ASSUME FilesFit, IInv, ByteInv,
           HandleReadFromClient, File!Load(Head(c2s))
    PROVE  ByteInv'
<1>1. /\ conn = "recv" /\ c2s # <<>> /\ c2s' = Tail(c2s)
      /\ s2c' = Send(s2c, load_buffer')
      /\ UNCHANGED <<call, op, ok, block_position, outcome, file_size, link>>
  BY DEF HandleReadFromClient, clientVars
<1>2. c2s' = <<>> /\ Head(c2s) \in Nat /\ c2s = <<Head(c2s)>>
  BY <1>1, ShortQueue DEF IInv, TypeOK, ClientInv
<1> PICK i \in Nat : i = Head(c2s)
  BY <1>2
<1>3. /\ Exact(File!Block(i)) => Holds(File!Block(i))'
      /\ bytes' \in [File!Cells -> Int] /\ infile' \in {"good", "failed"}
      /\ file_size = 0 => bytes'[0] = File!Zero
  BY <1>2, LoadHolds DEF ByteInv
<1>4. ~Answering
  BY <1>1 DEF ByteInv
<1>5. ASSUME Answering', Exact(block_position)' PROVE Holds(block_position)'
  <2>1. link = "up"
    BY <1>1, <1>4, <1>5 DEF Send, Answering, Answered
  <2>2. call \in {"write", "read"}
    BY <1>1, <1>4, <1>5 DEF Answering, Answered
  <2>3. c2s = <<block_position>>
    BY <1>1, <2>1, <2>2 DEF IInv, UpInv, PageUnderWay, AnswerWaits, Quiet
  <2>4. i = block_position /\ block_position' = block_position
    BY <1>1, <2>3
  <2>5. block_position \in Nat /\ File!Block(block_position) = block_position
    BY <2>2, AskedBlock
  <2>6. File!Block(i)' = block_position'
    BY <1>1, <2>4, <2>5 DEF File!Block, File!Clamp, File!MaxBlock
  <2>7. Exact(File!Block(i))
    BY <1>1, <1>5, <2>4, <2>5 DEF Exact, HasText
  <2> QED
    BY <1>3, <2>6, <2>7 DEF Holds
<1> QED
  BY <1>1, <1>2, <1>3, <1>5 DEF ByteInv

\* The other steps leave the buffer, and none turns a state without an answer into
\* one with an answer.
LEMMA OtherSteps ==
    ASSUME IInv,
           \/ Client \/ Run \/ HandleWriteToClient \/ Shutdown
           \/ Elapse \/ WriteOk \/ ReadOk \/ OpFails \/ Cut
           \/ UNCHANGED vars
    PROVE  /\ file_size' = file_size
           /\ Answering' => Answering /\ UNCHANGED <<c2s, block_position>>
<1>1. CASE UNCHANGED vars
  BY <1>1 DEF vars, clientVars, serverVars, netVars, Answering, Answered
<1>2. ASSUME NEW i, Load(i) PROVE file_size' = file_size /\ ~Answering'
  <2>1. call = "idle" /\ call' = "write" /\ op' = "pending" /\ s2c' = s2c /\ file_size' = file_size
    BY <1>2 DEF Load, Begin, serverVars
  <2>2. s2c = <<>>
    BY <2>1 DEF IInv, TypeOK, UpInv, CutInv, ClosedInv, Quiet
  <2> QED
    BY <2>1, <2>2 DEF Answering, Answered
<1>3. CASE ResolveFails \/ Resolve \/ Connected \/ SizeRead \/ Destroy \/ Recreate
  BY <1>3 DEF ResolveFails, Resolve, Connected, SizeRead, Destroy, Recreate, Begin, Leave, CloseSocket,
     serverVars, netVars, Answering, Answered, IInv, ClientInv
<1>4. CASE PageSent \/ PageRead
  BY <1>4 DEF PageSent, PageRead, Begin, Leave, serverVars, netVars, Answering, Answered
<1>5. CASE CheckDeadline
  <2>1. /\ call \in Busy
        /\ UNCHANGED <<call, block_position, outcome, file_size, c2s>>
        /\ s2c' = s2c \/ s2c' = <<>>
        /\ UNCHANGED <<op, ok>> \/ ok' = (ok /\ op = "done")
    BY <1>5 DEF CheckDeadline, CloseSocket, serverVars, netVars
  <2>2. op' = "done" /\ ok' => op = "done" /\ ok
    BY <1>5, <2>1 DEF CheckDeadline, IInv, TypeOK
  <2> QED
    BY <2>1, <2>2 DEF Answering, Answered, Busy
<1>6. CASE Run
  <2>1. conn = "accept" /\ s2c' = Send(s2c, file_size)
        /\ UNCHANGED <<call, op, ok, outcome, block_position, c2s, file_size>>
    BY <1>6 DEF Run, clientVars
  <2>2. link = "up" => call \in {"connect", "size"}
    BY <2>1 DEF IInv, UpInv, PageUnderWay, AnswerWaits
  <2> QED
    BY <2>1, <2>2 DEF Send, Answering, Answered
<1>7. CASE HandleWriteToClient \/ Shutdown
  BY <1>7 DEF HandleWriteToClient, Shutdown, clientVars, netVars, Answering, Answered
<1>8. CASE Elapse \/ WriteOk \/ Cut
  BY <1>8 DEF Elapse, WriteOk, Cut, clientVars, serverVars, netVars, Answering, Answered
<1>9. CASE ReadOk \/ OpFails
  BY <1>9 DEF ReadOk, OpFails, serverVars, Answering, Answered, Busy
<1> QED
  BY <1>1, <1>2, <1>3, <1>4, <1>5, <1>6, <1>7, <1>8, <1>9 DEF Client, RepositionAndLoad

LEMMA FileNextByteInv ==
    ASSUME FilesFit, IInv, ByteInv, [FileNext]_allVars
    PROVE  ByteInv'
<1>1. CASE ConnectOk /\ File!Opened
  <2>1. call' = "connect" /\ infile' = "good" /\ bytes' = File!Fresh
    BY <1>1 DEF ConnectOk, File!Opened
  <2>2. File!Fresh \in [File!Cells -> Int] /\ File!Fresh[0] = File!Zero
    BY BlockSizeAssumption DEF File!Fresh, File!Cells, File!Zero, File!Junk
  <2> QED
    BY <2>1, <2>2 DEF ByteInv, Answering, Answered
<1>2. CASE HandleReadFromClient /\ File!Load(Head(c2s))
  BY <1>2, FileReadStep
<1>3. CASE /\ \/ Client \/ Run \/ HandleWriteToClient \/ Shutdown
              \/ Elapse \/ WriteOk \/ ReadOk \/ OpFails \/ Cut
              \/ UNCHANGED vars
           /\ UNCHANGED fileVars
  <2>1. /\ file_size' = file_size /\ UNCHANGED <<bytes, infile>>
        /\ Answering' => Answering /\ UNCHANGED <<c2s, block_position>>
    BY <1>3, OtherSteps DEF fileVars
  <2> QED
    BY <2>1 DEF ByteInv, Holds, File!PageLength, Exact, HasText
<1> QED
  BY <1>1, <1>2, <1>3 DEF FileNext, allVars


\* What the answer rests on is invariant.
THEOREM FileByteInvariance ==
    ASSUME FilesFit PROVE FileSpec => [](IInv /\ ByteInv)
<1>1. FileInit => IInv /\ ByteInv
  <2>1. ASSUME FileInit PROVE ByteInv
    <3>1. File!Fresh \in [File!Cells -> Int] /\ File!Fresh[0] = File!Zero
      BY BlockSizeAssumption DEF File!Fresh, File!Cells, File!Zero, File!Junk
    <3>2. bytes = File!Fresh /\ infile = "good" /\ call = "new"
      BY <2>1 DEF FileInit, Init
    <3> QED
      BY <3>1, <3>2 DEF ByteInv, Answering, Answered
  <2> QED
    BY <2>1, InitIInv DEF FileInit
<1>2. IInv /\ ByteInv /\ [FileNext]_allVars => (IInv /\ ByteInv)'
  BY FileNextIsNext, NextIInv, FileNextByteInv, FilesFit
<1> QED
  BY <1>1, <1>2, PTL DEF FileSpec

-----------------------------------------------------------------------------
(***************************************************************************)
(* The text the client takes from it.                                      *)
(***************************************************************************)

EndsText(n) == n = BlockSize \/ bytes[n] = File!Zero

\* There is a first cell that ends the text.
LEMMA FirstEnd ==
    \E n \in File!Cells : EndsText(n) /\ \A k \in 0..(n - 1) : bytes[k] # File!Zero
<1> DEFINE Ends == {n \in File!Cells : EndsText(n)}
<1>0. BlockSize \in Nat \ {0}
  BY BlockSizeAssumption
<1>1. BlockSize \in Ends /\ Ends \subseteq Nat
  BY <1>0 DEF EndsText, File!Cells
<1>2. PICK n \in Ends : \A m \in Ends : ~(<<m, n>> \in OpToRel(<, Nat))
  BY <1>1, NatLessThanWellFounded, WFMin
<1> HIDE DEF Ends
<1>3. \A m \in Ends : n <= m
  <2>1. \A m \in Ends : ~(m < n)
    BY <1>1, <1>2 DEF OpToRel
  <2> QED
    BY <1>1, <2>1
<1>4. \A k \in 0..(n - 1) : bytes[k] # File!Zero
  <2> SUFFICES ASSUME NEW k \in 0..(n - 1), bytes[k] = File!Zero PROVE FALSE
    OBVIOUS
  <2>1. n \in Nat /\ n <= BlockSize /\ k \in Nat /\ k < n
    BY <1>0, <1>1 DEF File!Cells, Ends
  <2>2. k \in Ends
    BY <1>0, <2>1 DEF File!Cells, EndsText, Ends
  <2> QED
    BY <1>3, <2>1, <2>2
<1> QED
  BY <1>4 DEF Ends

LEMMA TextLengthIs ==
    /\ File!TextLength \in 0..BlockSize /\ EndsText(File!TextLength)
    /\ \A k \in 0..(File!TextLength - 1) : bytes[k] # File!Zero
<1> DEFINE First(n) == /\ n = BlockSize \/ bytes[n] = File!Zero
                       /\ \A k \in 0..(n - 1) : bytes[k] # File!Zero
<1>1. \E n \in File!Cells : First(n)
  BY FirstEnd DEF EndsText
<1>2. File!TextLength = CHOOSE n \in File!Cells : First(n)
  BY DEF File!TextLength
<1> HIDE DEF First
<1>3. File!TextLength \in File!Cells /\ First(File!TextLength)
  BY <1>1, <1>2
<1> QED
  BY <1>3 DEF First, EndsText, File!Cells

\* Where the buffer holds a block of a file, the text ends with the block at the
\* latest, and exactly there while the stream is good.
LEMMA TextOfBlock ==
    ASSUME InSizeT, NEW b \in Nat, File!Block(b) = b, Holds(b)
    PROVE  /\ File!TextLength <= File!PageLength(b)
           /\ infile = "good" => File!ReceivedText = File!PageText(b)
<1> DEFINE l == File!PageLength(b)
           t == File!TextLength
<1>0. BlockSize \in Nat \ {0} /\ b * BlockSize \in Nat
  BY BlockSizeAssumption
<1>1. l \in 0..BlockSize
  BY PageLengthIs
<1>2. t \in 0..BlockSize /\ (t = BlockSize \/ bytes[t] = File!Zero)
      /\ \A k \in 0..(t - 1) : bytes[k] # File!Zero
  BY TextLengthIs DEF EndsText
<1>3. bytes[l] = File!Zero /\ (infile = "good" => \A k \in 0..(l - 1) : bytes[k] = b * BlockSize + k)
  BY DEF Holds
<1>4. File!ReceivedText = [k \in 0..(t - 1) |-> bytes[k]]
      /\ File!PageText(b) = [k \in 0..(l - 1) |-> b * BlockSize + k]
  BY DEF File!ReceivedText, File!PageText
<1> HIDE DEF l, t
<1>5. t <= l
  <2> SUFFICES ASSUME ~(t <= l) PROVE FALSE
    OBVIOUS
  <2>1. l \in 0..(t - 1)
    BY <1>1, <1>2
  <2> QED
    BY <1>2, <1>3, <2>1
<1>6. ASSUME infile = "good" PROVE File!ReceivedText = File!PageText(b)
  <2>1. t = l
    <3> SUFFICES ASSUME t # l PROVE FALSE
      OBVIOUS
    <3>1. t \in 0..(l - 1) /\ t # BlockSize
      BY <1>1, <1>2, <1>5
    <3>2. bytes[t] = b * BlockSize + t
      BY <1>3, <1>6, <3>1
    <3> QED
      BY <1>0, <1>2, <3>1, <3>2 DEF File!Zero
  <2> QED
    BY <1>3, <1>4, <1>6, <2>1
<1> QED
  BY <1>5, <1>6 DEF l, t

LEMMA AnswerOfBlock ==
    ASSUME FilesFit, IInv, ByteInv, Answered, Exact(block_position)
    PROVE  /\ File!TextLength <= File!PageLength(block_position)
           /\ infile = "good" => File!ReceivedText = File!PageText(block_position)
<1>1. InSizeT /\ block_position \in Nat /\ File!Block(block_position) = block_position
      /\ Holds(block_position)
  BY SizeFits, AskedBlock DEF Answered, ByteInv, Answering
<1> QED
  BY <1>1, TextOfBlock

\* Of any file, whole blocks or not, each page that has text arrives as it is in the
\* file, while no read has failed, and is never longer than the page.
THEOREM PagesWithTextAreRight ==
    ASSUME FilesFit
    PROVE  FileSpec => [](Answered /\ HasText(block_position, file_size) =>
                            /\ File!TextLength <= File!PageLength(block_position)
                            /\ infile = "good" =>
                                  File!ReceivedText = File!PageText(block_position))
<1>1. IInv /\ ByteInv =>
        (Answered /\ HasText(block_position, file_size) =>
            /\ File!TextLength <= File!PageLength(block_position)
            /\ infile = "good" => File!ReceivedText = File!PageText(block_position))
  BY AnswerOfBlock, FilesFit DEF Exact
<1> QED
  BY <1>1, FileByteInvariance, FilesFit, PTL

\* A file that does not end at the end of a block has no other pages.
LEMMA AllPagesExact ==
    ASSUME PartialLastBlock, IInv, Answered PROVE Exact(block_position)
<1>1. file_size \in Nat /\ block_position \in 0..MaxBlock(file_size)
  BY DEF IInv, TypeOK, ClientInv, Answered
<1>2. file_size = 0 \/ file_size % BlockSize # 0
  BY DEF PartialLastBlock, IInv, ServerInv
<1> QED
  BY <1>1, <1>2, TextUpToMax DEF Exact

\* The rows the viewer is given are the bytes of its page, while no read has failed.
THEOREM BytesAreRight ==
    ASSUME PartialLastBlock, FilesFit PROVE FileSpec => []BytesArePage
<1>1. IInv /\ ByteInv => BytesArePage
  BY AnswerOfBlock, AllPagesExact, PartialLastBlock, FilesFit DEF BytesArePage
<1> QED
  BY <1>1, FileByteInvariance, PTL, FilesFit

\* They are never more than its page, even when one has.
THEOREM TextFits ==
    ASSUME PartialLastBlock, FilesFit PROVE FileSpec => []TextFitsPage
<1>1. IInv /\ ByteInv => TextFitsPage
  BY AnswerOfBlock, AllPagesExact, PartialLastBlock, FilesFit DEF TextFitsPage
<1> QED
  BY <1>1, FileByteInvariance, PTL, FilesFit

\* Only a file that has become shorter makes a read fail.
THEOREM ShortFilesFail ==
    ASSUME FilesFit PROVE FileSpec => OnlyShortFilesFail
<1>1. ASSUME IInv, [FileNext]_allVars, infile = "good", infile' = "failed"
      PROVE  disk' < file_size
  <2>1. HandleReadFromClient /\ File!Load(Head(c2s))
    BY <1>1 DEF FileNext, File!Opened, fileVars, allVars
  <2>2. Head(c2s) \in Nat /\ InSizeT
    BY <1>1, <2>1, FilesFit, SizeFits, ShortQueue DEF HandleReadFromClient, IInv, TypeOK, ClientInv
  <2> PICK i \in Nat : i = Head(c2s)
    BY <2>2
  <2> DEFINE p == File!ReadFrom(i)
             n == File!ReadSize(i)
  <2>3. \/ p >= file_size /\ UNCHANGED infile
        \/ /\ ~(p >= file_size)
           /\ disk' \in Lengths
           /\ infile' = IF File!Got(p, n) < n THEN "failed" ELSE infile
    <3>1. File!Load(i)
      BY <2>1
    <3>2. p < file_size => ~(p >= file_size)
      BY <2>2, ReadIs DEF InSizeT
    <3> QED
      BY <3>1, <3>2, Zenon DEF File!Load
  <2>4. p \in Nat /\ file_size \in Nat
        /\ (p < file_size => n \in 1..BlockSize /\ p + n <= file_size)
    BY <2>2, ReadIs DEF InSizeT
  <2> HIDE DEF p, n
  <2>5. /\ ~(p >= file_size) /\ disk' \in Nat
        /\ File!Got(p, n) < n
    BY <1>1, <2>3, LengthsAssumption
  <2>6. BlockSize \in Nat
    BY BlockSizeAssumption
  <2>7. n \in Nat \ {0} /\ disk' \in Nat /\ p + n <= file_size
    BY <2>4, <2>5, <2>6
  <2>8. disk' < p + n
    <3> SUFFICES ASSUME ~(disk' < p + n) PROVE FALSE
      OBVIOUS
    <3>1. ~(disk' <= p) /\ ~(disk' - p < n) /\ infile # "failed"
      <4>1. infile # "failed"
        BY <1>1
      <4>2. ~(disk' <= p) /\ ~(disk' - p < n)
        <5>1. \A d, m \in Nat, q \in Nat \ {0} : ~(d < m + q) => ~(d <= m) /\ ~(d - m < q)
          OBVIOUS
        <5>2. disk' \in Nat /\ p \in Nat /\ n \in Nat \ {0}
          BY <2>4, <2>7
        <5> QED
          BY <5>1, <5>2
      <4> QED
        BY <4>1, <4>2
    <3>2. File!Got(p, n) = n
      BY <3>1 DEF File!Got
    <3> QED
      BY <2>5, <2>7, <3>2
  <2> QED
    BY <2>4, <2>5, <2>7, <2>8
<1>2. IInv /\ [FileNext]_allVars => [infile = "good" /\ infile' = "failed" => disk' < file_size]_allVars
  BY <1>1
<1> QED
  BY <1>2, FileInvariance, PTL DEF FileSpec, OnlyShortFilesFail
=============================================================================
