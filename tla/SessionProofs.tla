---------------------------- MODULE SessionProofs ----------------------------
(***************************************************************************)
(* Proofs about Session, for every block size, width of size_t, file size, *)
(* number of endpoints and argument of reposition_and_load.                *)
(*                                                                         *)
(* Everything follows from one inductive invariant, IInv.  TypeOK is not   *)
(* inductive: that what the client reads as a file size is one, and that   *)
(* it fits the page the client holds, depends on where the conversation    *)
(* is.  IInv says where the one message of the conversation can be.        *)
(***************************************************************************)
EXTENDS Session, SequenceTheorems, TLAPS

\* What a page request may be answered with: the page when it has text, nothing
\* when the file is empty.  In between (a page that starts at the end of the
\* file) the answer is whatever the server's buffer held.
Right(text) ==
    /\ text \in Texts
    /\ HasText(block_position, file_size) => text = block_position
    /\ file_size = 0 => text = NoText

Quiet == c2s = <<>> /\ s2c = <<>>

AnswerWaits ==
    /\ c2s = <<>>
    /\ s2c # <<>> /\ s2c = <<Head(s2c)>> /\ Right(Head(s2c))

\* The ways a message may be in flight while the client waits for the file size,
\* and for the page it asked for.
SizeUnderWay ==
    /\ c2s = <<>>
    /\ \/ s2c = <<>> /\ conn = "accept"
       \/ s2c = <<file_size>> /\ conn \in {"sendsize", "recv"}

PageUnderWay ==
    \/ c2s = <<block_position>> /\ s2c = <<>> /\ conn \in {"sendsize", "recv", "sendpage"}
    \/ AnswerWaits /\ conn \in {"recv", "sendpage"}

\* The conversation on a connection that is up.
UpInv ==
    link = "up" =>
        \/ /\ call = "connect" /\ op = "done" /\ ok
           /\ SizeUnderWay
        \/ /\ call = "size" /\ op = "pending"
           /\ SizeUnderWay
        \/ /\ call = "size" /\ op = "done" /\ ok
           /\ Quiet /\ conn \in {"sendsize", "recv"}
        \/ /\ call = "idle"
           /\ Quiet /\ conn \in {"sendsize", "recv", "sendpage"}
        \/ /\ call = "write" /\ (op = "done" => ok)
           /\ PageUnderWay
        \/ /\ call = "read" /\ op = "pending"
           /\ PageUnderWay
        \/ /\ call = "read" /\ op = "done" /\ ok
           /\ Quiet /\ conn \in {"recv", "sendpage"}

\* What is left of it on one that is cut.
CutInv ==
    link = "cut" =>
        \/ call = "connect" /\ op = "done" /\ ok /\ c2s = <<>> /\ s2c \in {<<>>, <<file_size>>}
        \/ call = "size" /\ op = "pending" /\ c2s = <<>> /\ s2c \in {<<>>, <<file_size>>}
        \/ call = "size" /\ s2c = <<>>
        \/ call = "idle" /\ s2c = <<>>
        \/ call = "write" /\ (op = "done" => ok) /\ AnswerWaits
        \/ call = "write" /\ s2c = <<>>
        \/ call = "read" /\ op = "pending" /\ AnswerWaits
        \/ call = "read" /\ s2c = <<>>

ClosedInv ==
    /\ link = "none" => s2c = <<>>
    /\ call \in {"new", "dead"} => link = "none"
    /\ call = "connect" /\ (op = "pending" \/ ~ok) => link = "none"

\* The client's own state: between calls nothing is pending; the file's size is
\* known once it was read; a read that succeeded left the page in temp_buffer.
ClientInv ==
    /\ op = "none" <=> call \notin Busy
    /\ call \in {"new", "connect", "size"} => block_position = 0 /\ outcome = "none"
    /\ (call \in {"idle", "write", "read"}) \/ (call = "size" /\ op = "done" /\ ok)
            => max_block_position = MaxBlock(file_size)
    /\ call = "read" /\ op = "done" /\ ok => Right(temp_buffer)
    /\ call = "idle" /\ outcome = "returned" => Right(temp_buffer)
    /\ Len(c2s) <= 1
    /\ call = "new" => endpoint = 1

\* A connection on which a load has thrown brings nothing more.
LostInv ==
    outcome = "thrown" =>
        /\ link # "up" /\ s2c = <<>>
        /\ call = "read" /\ op = "done" => ~ok

\* Once the constructor has called check_deadline() its wait is always renewed, and
\* a pending operation has a deadline.
TimerInv ==
    /\ call # "new" => timer.wait # "none"
    /\ op = "pending" => timer.expiry \in {"future", "past"}

ServerInv ==
    /\ file_size = 0 => load_buffer = NoText
    /\ file_size \in FileSizes \cup {0}

IInv ==
    /\ TypeOK /\ ClientInv /\ UpInv /\ CutInv /\ ClosedInv /\ LostInv
    /\ TimerInv /\ ServerInv

-----------------------------------------------------------------------------

LEMMA TimerType ==
    ASSUME NEW t \in Timers
    PROVE  /\ t.expiry \in Expiries /\ t.wait \in Waits
           /\ NewTimer \in Timers
           /\ ExpiresFromNow(t) \in Timers /\ ExpiresFromNow(t).expiry = "future"
           /\ ExpiresNever(t) \in Timers /\ ExpiresNever(t).expiry = "never"
           /\ AsyncWait(t) \in Timers /\ AsyncWait(t).wait # "none"
           /\ AsyncWait(t).expiry = t.expiry
           /\ Taken(t) \in Timers /\ Taken(t).expiry = t.expiry
           /\ Elapsed(t) \in Timers /\ Elapsed(t).expiry = "past"
           /\ t.wait # "none" => /\ ExpiresFromNow(t).wait # "none"
                                 /\ ExpiresNever(t).wait # "none"
                                 /\ Elapsed(t).wait # "none"
BY DEF Timers, Expiries, Waits, NewTimer, ExpiresFromNow, ExpiresNever, AsyncWait, Taken, Elapsed, Completed

LEMMA DivMod ==
    ASSUME NEW n \in Nat
    PROVE  /\ MaxBlock(n) \in Nat
           /\ n % BlockSize \in 0..(BlockSize - 1)
           /\ n = (BlockSize * MaxBlock(n)) + (n % BlockSize)
BY BlockSizeAssumption DEF MaxBlock

LEMMA TextUpToMax ==
    ASSUME NEW n \in Nat, NEW b \in 0..MaxBlock(n), n % BlockSize # 0
    PROVE  HasText(b, n)
<1> DEFINE d == MaxBlock(n) - b
<1>1. /\ BlockSize \in Nat \ {0} /\ MaxBlock(n) \in Nat
      /\ n % BlockSize \in 1..(BlockSize - 1)
      /\ n = (BlockSize * MaxBlock(n)) + (n % BlockSize)
  BY BlockSizeAssumption, DivMod
<1>2. b \in Nat /\ d \in Nat /\ MaxBlock(n) = b + d
  BY <1>1
<1> HIDE DEF d
<1>3. BlockSize * (b + d) = b * BlockSize + d * BlockSize
  BY <1>1, <1>2
<1>4. d * BlockSize \in Nat /\ b * BlockSize \in Nat
  BY <1>1, <1>2
<1> QED
  BY <1>1, <1>2, <1>3, <1>4 DEF HasText

LEMMA EmptyFile ==
    ASSUME NEW b \in Nat
    PROVE  MaxBlock(0) = 0 /\ ~HasText(b, 0)
BY BlockSizeAssumption DEF HasText, MaxBlock

LEMMA RightAnswer ==
    ASSUME IInv, c2s = <<block_position>>, call \in {"write", "read"}
    PROVE  Right(Loaded(load_buffer, block_position, file_size))
<1>1. file_size \in Nat /\ block_position \in 0..MaxBlock(file_size) /\ load_buffer \in Texts
  BY DEF IInv, TypeOK, ClientInv
<1>2. Clamp(block_position, MaxBlock(file_size)) = block_position
  BY <1>1, DivMod DEF Clamp
<1>3. file_size = 0 => load_buffer = NoText /\ ~HasText(block_position, file_size)
  BY <1>1, EmptyFile DEF IInv, ServerInv
<1>4. Loaded(load_buffer, block_position, file_size) =
        IF HasText(block_position, file_size) THEN block_position ELSE load_buffer
  BY <1>2 DEF Loaded
<1> QED
  BY <1>1, <1>3, <1>4 DEF Right, Texts

LEMMA SingletonQueue ==
    ASSUME NEW S, NEW m \in S
    PROVE  /\ <<>> \in Seq(S) /\ <<m>> \in Seq(S)
           /\ Append(<<>>, m) = <<m>> /\ Len(<<>>) = 0 /\ Len(<<m>>) = 1
           /\ Head(<<m>>) = m /\ Tail(<<m>>) = <<>> /\ <<m>> # <<>>
OBVIOUS

LEMMA ShortQueue ==
    ASSUME NEW S, NEW q \in Seq(S), Len(q) <= 1, q # <<>>
    PROVE  q = <<Head(q)>> /\ Head(q) \in S /\ Tail(q) = <<>>
<1>1. Len(q) = 1 /\ q[1] \in S /\ Head(q) = q[1]
  BY EmptySeq
<1>2. <<Head(q)>> \in Seq(S) /\ Len(<<Head(q)>>) = 1 /\ <<Head(q)>>[1] = Head(q)
  BY <1>1
<1>3. q = <<Head(q)>>
  BY <1>1, <1>2, SeqEqual
<1>4. Tail(<<Head(q)>>) = <<>>
  OBVIOUS
<1> QED
  BY <1>1, <1>3, <1>4

LEMMA EmptyQueue ==
    /\ <<>> \in Seq(Nat) /\ <<>> \in Seq(Texts) /\ Len(<<>>) = 0
OBVIOUS

-----------------------------------------------------------------------------

LEMMA SizeReadStep ==
    ASSUME IInv, SizeRead PROVE IInv'
<1>1. timer' \in Timers /\ timer'.wait # "none"
  BY TimerType DEF IInv, TypeOK, TimerInv, SizeRead, Leave, OffDeadline
<1>2. TypeOK'
  BY <1>1, EmptyQueue
  DEF IInv, TypeOK, SizeRead, Leave, CloseSocket, Calls, serverVars, netVars
<1>3. (ClientInv /\ UpInv /\ CutInv /\ ClosedInv /\ LostInv)'
  BY EmptyQueue DEF IInv, TypeOK, ClientInv, UpInv, CutInv, ClosedInv, LostInv, SizeRead, Leave, CloseSocket,
     Quiet, Busy, serverVars, netVars
<1>4. (TimerInv /\ ServerInv)'
  BY <1>1 DEF IInv, TimerInv, ServerInv, SizeRead, Leave, serverVars
<1> QED
  BY <1>2, <1>3, <1>4 DEF IInv

LEMMA CheckDeadlineStep ==
    ASSUME IInv, CheckDeadline PROVE IInv'
<1> DEFINE t == Taken(timer)
<1>1. t \in Timers /\ t.expiry = timer.expiry
  BY TimerType DEF IInv, TypeOK
<1>2. CASE /\ t.expiry = "past" /\ CloseSocket
           /\ op' = "done" /\ ok' = (ok /\ op = "done")
           /\ timer' = AsyncWait(ExpiresNever(t)) /\ UNCHANGED c2s
  <2>1. timer' \in Timers /\ timer'.wait # "none"
    BY <1>1, <1>2, TimerType
  <2>2. TypeOK'
    BY <1>2, <2>1, EmptyQueue DEF IInv, TypeOK, CheckDeadline, CloseSocket, serverVars
  <2>3. (ClientInv /\ UpInv /\ CutInv /\ ClosedInv /\ LostInv)'
    BY <1>2, EmptyQueue DEF IInv, TypeOK, ClientInv, UpInv, CutInv, ClosedInv, LostInv, CheckDeadline,
       CloseSocket, Right, Busy, serverVars
  <2>4. (TimerInv /\ ServerInv)'
    BY <1>2, <2>1 DEF IInv, TimerInv, ServerInv, CheckDeadline, serverVars
  <2> QED
    BY <2>2, <2>3, <2>4 DEF IInv
<1>3. CASE t.expiry # "past" /\ timer' = AsyncWait(t) /\ UNCHANGED <<op, ok, netVars>>
  <2>1. timer' \in Timers /\ timer'.wait # "none" /\ timer'.expiry = timer.expiry
    BY <1>1, <1>3, TimerType
  <2>2. UNCHANGED <<call, endpoint, op, ok, block_position, max_block_position, temp_buffer, outcome,
                    serverVars, netVars>>
    BY <1>3 DEF CheckDeadline
  <2> QED
    BY <2>1, <2>2 DEF IInv, TypeOK, ClientInv, UpInv, CutInv, ClosedInv, LostInv, TimerInv, ServerInv,
       SizeUnderWay, PageUnderWay, AnswerWaits, Quiet, Right, serverVars, netVars
<1> QED
  BY <1>2, <1>3 DEF CheckDeadline

LEMMA RunStep ==
    ASSUME IInv, Run PROVE IInv'
<1>1. UNCHANGED <<clientVars, file_size, load_buffer, link, c2s>> /\ conn = "accept" /\ conn' = "sendsize"
  BY DEF Run
<1>2. CASE link = "up"
  <2>1. (call = "connect" /\ op = "done" /\ ok) \/ (call = "size" /\ op = "pending")
    BY <1>1, <1>2 DEF IInv, UpInv, SizeUnderWay, PageUnderWay, AnswerWaits
  <2>2. c2s = <<>> /\ s2c = <<>>
    BY <1>1, <1>2, <2>1 DEF IInv, UpInv, SizeUnderWay
  <2>3. file_size \in Texts /\ s2c' = <<file_size>>
    BY <1>2, <2>2, SingletonQueue DEF IInv, TypeOK, Texts, Run, Send
  <2>4. TypeOK'
    BY <1>1, <2>3, SingletonQueue DEF IInv, TypeOK, clientVars, Conns
  <2>5. (UpInv /\ CutInv /\ ClosedInv)'
    BY <1>1, <1>2, <2>1, <2>2, <2>3 DEF UpInv, CutInv, ClosedInv, SizeUnderWay, clientVars
  <2>6. (ClientInv /\ LostInv /\ TimerInv /\ ServerInv)'
    BY <1>1, <1>2, <2>1 DEF IInv, ClientInv, LostInv, TimerInv, ServerInv, Right, clientVars
  <2> QED
    BY <2>4, <2>5, <2>6 DEF IInv
<1>3. CASE link # "up"
  BY <1>1, <1>3 DEF Run, Send, IInv, TypeOK, ClientInv, UpInv, CutInv, ClosedInv, LostInv, TimerInv, ServerInv,
     AnswerWaits, Right, clientVars, Conns
<1> QED
  BY <1>2, <1>3

LEMMA ReadOkStep ==
    ASSUME IInv, ReadOk PROVE IInv'
<1> DEFINE m == Head(s2c)
<1>1. /\ op = "pending" /\ op' = "done" /\ ok' /\ s2c # <<>> /\ s2c' = Tail(s2c)
      /\ UNCHANGED <<call, endpoint, timer, block_position, outcome, conn, file_size, load_buffer, link, c2s>>
  BY DEF ReadOk, serverVars
<1>2. link \in {"up", "cut"} /\ c2s = <<>> /\ s2c = <<m>> /\ s2c' = <<>>
  <2>1. link \in {"up", "cut"}
    BY <1>1 DEF IInv, ClosedInv, TypeOK
  <2>2. c2s = <<>> /\ s2c = <<m>>
    BY <1>1, <2>1 DEF ReadOk, IInv, UpInv, CutInv, SizeUnderWay, PageUnderWay, AnswerWaits
  <2>3. Tail(<<m>>) = <<>>
    OBVIOUS
  <2> QED
    BY <1>1, <2>1, <2>2, <2>3
<1>3. outcome # "thrown"
  BY <1>1 DEF IInv, LostInv
<1>4. CASE call = "size"
  <2>1. m = file_size /\ (link = "up" => conn \in {"sendsize", "recv"})
    BY <1>1, <1>2, <1>4 DEF IInv, UpInv, CutInv, SizeUnderWay
  <2>2. max_block_position' = MaxBlock(file_size) /\ max_block_position' \in Nat /\ UNCHANGED temp_buffer
    BY <1>4, <2>1, DivMod DEF ReadOk, IInv, TypeOK
  <2>3. block_position = 0
    BY <1>4 DEF IInv, ClientInv
  <2>4. TypeOK'
    BY <1>1, <1>2, <2>2, <2>3, EmptyQueue DEF IInv, TypeOK
  <2>5. (ClientInv /\ LostInv)'
    BY <1>1, <1>2, <1>3, <1>4, <2>2, <2>3, EmptyQueue DEF IInv, ClientInv, LostInv, Busy
  <2>6. (UpInv /\ CutInv /\ ClosedInv /\ TimerInv /\ ServerInv)'
    BY <1>1, <1>2, <1>4, <2>1 DEF IInv, UpInv, CutInv, ClosedInv, TimerInv, ServerInv, Quiet
  <2> QED
    BY <2>4, <2>5, <2>6 DEF IInv
<1>5. CASE call = "read"
  <2>1. Right(m) /\ (link = "up" => conn \in {"recv", "sendpage"})
    BY <1>1, <1>2, <1>5 DEF IInv, UpInv, CutInv, PageUnderWay, AnswerWaits
  <2>2. temp_buffer' = m /\ UNCHANGED max_block_position
    BY <1>5 DEF ReadOk
  <2>3. TypeOK'
    BY <1>1, <1>2, <2>1, <2>2, EmptyQueue DEF IInv, TypeOK, Right
  <2>4. (ClientInv /\ LostInv)'
    BY <1>1, <1>2, <1>3, <1>5, <2>1, <2>2, EmptyQueue DEF IInv, ClientInv, LostInv, Right, Busy
  <2>5. (UpInv /\ CutInv /\ ClosedInv /\ TimerInv /\ ServerInv)'
    BY <1>1, <1>2, <1>5, <2>1 DEF IInv, UpInv, CutInv, ClosedInv, TimerInv, ServerInv, Quiet
  <2> QED
    BY <2>3, <2>4, <2>5 DEF IInv
<1> QED
  BY <1>4, <1>5 DEF ReadOk

LEMMA OpFailsStep ==
    ASSUME IInv, OpFails PROVE IInv'
<1>1. /\ call \in Busy /\ op = "pending" /\ op' = "done" /\ ~ok' /\ ok' = FALSE /\ s2c' = <<>>
      /\ link # "up"
      /\ UNCHANGED <<call, endpoint, timer, block_position, max_block_position, temp_buffer, outcome,
                     conn, file_size, load_buffer, link, c2s>>
  BY DEF OpFails, IInv, ClosedInv, serverVars
<1>2. TypeOK'
  BY <1>1, EmptyQueue DEF IInv, TypeOK
<1>3. (ClientInv /\ LostInv)'
  BY <1>1 DEF IInv, ClientInv, LostInv, Right
<1>4. (UpInv /\ CutInv /\ ClosedInv)'
  BY <1>1 DEF IInv, TypeOK, UpInv, CutInv, ClosedInv, Busy
<1>5. (TimerInv /\ ServerInv)'
  BY <1>1 DEF IInv, TimerInv, ServerInv
<1> QED
  BY <1>2, <1>3, <1>4, <1>5 DEF IInv

LEMMA HandleReadFromClientStep ==
    ASSUME IInv, HandleReadFromClient PROVE IInv'
<1> DEFINE text == Loaded(load_buffer, Head(c2s), file_size)
<1>1. /\ conn = "recv" /\ conn' = "sendpage" /\ c2s # <<>> /\ c2s' = Tail(c2s)
      /\ load_buffer' = text /\ s2c' = Send(s2c, text)
      /\ UNCHANGED <<clientVars, file_size, link>>
  BY DEF HandleReadFromClient
<1>2. c2s' = <<>> /\ Head(c2s) \in Nat /\ c2s = <<Head(c2s)>>
  BY <1>1, ShortQueue DEF IInv, TypeOK, ClientInv
<1>3. text \in Texts /\ (file_size = 0 => text = NoText)
  BY <1>2, DivMod, EmptyFile DEF IInv, TypeOK, ServerInv, Loaded, Clamp, Texts
<1> HIDE DEF text
<1>4. CASE link = "up"
  <2>1. (call = "write" /\ (op = "done" => ok)) \/ (call = "read" /\ op = "pending")
    BY <1>1, <1>4 DEF IInv, UpInv, SizeUnderWay, Quiet
  <2>2. c2s = <<block_position>> /\ s2c = <<>>
    BY <1>1, <1>4, <2>1 DEF IInv, UpInv, PageUnderWay, AnswerWaits
  <2>3. s2c' = <<text>> /\ Right(text)
    BY <1>1, <1>4, <2>1, <2>2, RightAnswer DEF Send, text
  <2>4. TypeOK'
    BY <1>1, <1>2, <1>3, <2>3, SingletonQueue, EmptyQueue DEF IInv, TypeOK, clientVars, Conns
  <2>5. (UpInv /\ CutInv /\ ClosedInv)'
    BY <1>1, <1>2, <1>4, <2>1, <2>3 DEF UpInv, CutInv, ClosedInv, PageUnderWay, AnswerWaits, Right, clientVars
  <2>6. (ClientInv /\ LostInv /\ TimerInv /\ ServerInv)'
    BY <1>1, <1>2, <1>3, <1>4, <2>1, EmptyQueue DEF IInv, ClientInv, LostInv, TimerInv, ServerInv, Right, clientVars
  <2> QED
    BY <2>4, <2>5, <2>6 DEF IInv
<1>5. CASE link # "up"
  <2>1. s2c' = s2c
    BY <1>1, <1>5 DEF Send
  <2>2. TypeOK'
    BY <1>1, <1>2, <1>3, <2>1, EmptyQueue DEF IInv, TypeOK, clientVars, Conns
  <2>3. (UpInv /\ CutInv /\ ClosedInv)'
    BY <1>1, <1>2, <1>5, <2>1 DEF IInv, UpInv, CutInv, ClosedInv, AnswerWaits, Right, clientVars
  <2>4. (ClientInv /\ LostInv /\ TimerInv /\ ServerInv)'
    BY <1>1, <1>2, <1>3, <2>1, EmptyQueue DEF IInv, ClientInv, LostInv, TimerInv, ServerInv, Right, clientVars
  <2> QED
    BY <2>2, <2>3, <2>4 DEF IInv
<1> QED
  BY <1>4, <1>5

LEMMA LoadStep ==
    ASSUME IInv, NEW i \in Nat, Load(i) PROVE IInv'
<1>1. /\ call = "idle" /\ call' = "write" /\ op' = "pending"
      /\ block_position' = Clamp(i, max_block_position)
      /\ timer' = ExpiresFromNow(timer)
      /\ c2s' = Send(c2s, block_position')
      /\ UNCHANGED <<endpoint, ok, max_block_position, temp_buffer, outcome, conn, file_size, load_buffer,
                     link, s2c>>
  BY DEF Load, Begin, serverVars
<1>2. block_position' \in 0..max_block_position
  BY <1>1 DEF IInv, TypeOK, Clamp
<1>3. timer' \in Timers /\ timer'.wait # "none" /\ timer'.expiry = "future"
  BY <1>1, TimerType DEF IInv, TypeOK, TimerInv
<1>4. s2c = <<>>
  BY <1>1 DEF IInv, TypeOK, UpInv, CutInv, ClosedInv, Quiet
<1>5. IF link = "up"
      THEN c2s' = <<block_position'>> /\ conn \in {"sendsize", "recv", "sendpage"}
      ELSE c2s' = c2s
  BY <1>1, <1>2, SingletonQueue DEF Send, IInv, TypeOK, UpInv, Quiet
<1>6. c2s' \in Seq(Nat) /\ Len(c2s') <= 1
  <2>1. block_position' \in Nat
    BY <1>2 DEF IInv, TypeOK
  <2>2. <<block_position'>> \in Seq(Nat) /\ Len(<<block_position'>>) = 1
    BY <2>1, SingletonQueue
  <2>3. c2s' = <<block_position'>> \/ c2s' = c2s
    BY <1>5
  <2>4. c2s \in Seq(Nat) /\ Len(c2s) <= 1
    BY DEF IInv, TypeOK, ClientInv
  <2>5. CASE c2s' = <<block_position'>>
    BY <2>2, <2>5
  <2>6. CASE c2s' = c2s
    BY <2>4, <2>6
  <2> QED
    BY <2>3, <2>5, <2>6
<1>7. TypeOK'
  BY <1>1, <1>2, <1>3, <1>6 DEF IInv, TypeOK, Calls
<1>8. ClientInv'
  BY <1>1, <1>6 DEF IInv, ClientInv, Busy
<1>9. (UpInv /\ CutInv /\ ClosedInv)'
  BY <1>1, <1>4, <1>5 DEF IInv, TypeOK, UpInv, CutInv, ClosedInv, PageUnderWay
<1>10. (LostInv /\ TimerInv /\ ServerInv)'
  BY <1>1, <1>3 DEF IInv, LostInv, TimerInv, ServerInv
<1> QED
  BY <1>7, <1>8, <1>9, <1>10 DEF IInv

LEMMA RepositionStays ==
    ASSUME NEW pos \in Nat, NEW delta \in Int, NEW max \in Nat
    PROVE  Reposition(pos, delta, max) \in 0..max
<1> DEFINE sum == (pos + delta) % SizeMod
<1>1. sum \in Nat
  BY SizeModAssumption
<1> QED
  BY <1>1 DEF Reposition

-----------------------------------------------------------------------------
(***************************************************************************)
(* IInv is an invariant.                                                   *)
(***************************************************************************)

\* The steps that move no message, or only drop some.
LEMMA SimpleSteps ==
    ASSUME IInv,
           \/ ResolveFails \/ Resolve \/ Connected \/ PageSent \/ PageRead \/ Destroy \/ Recreate
           \/ HandleWriteToClient \/ Shutdown \/ Elapse \/ ConnectOk \/ WriteOk \/ Cut
    PROVE  IInv'
<1> USE TimerType, EndpointsAssumption, EmptyQueue
    DEF IInv, TypeOK, ClientInv, UpInv, CutInv, ClosedInv, LostInv, TimerInv, ServerInv, SizeUnderWay,
        PageUnderWay, AnswerWaits, Quiet, Right, Calls, Busy, Conns, Texts, clientVars, serverVars, netVars
<1>1. CASE ResolveFails
  BY <1>1 DEF ResolveFails, StartedTimer
<1>2. CASE Resolve
  BY <1>2 DEF Resolve, Begin, StartedTimer
<1>3. CASE Connected
  BY <1>3 DEF Connected, Begin, Leave, OffDeadline, CloseSocket
<1>4. CASE PageSent
  BY <1>4 DEF PageSent, Begin, Leave, OffDeadline
<1>5. CASE PageRead
  BY <1>5 DEF PageRead, Leave, OffDeadline
<1>6. CASE Destroy
  BY <1>6 DEF Destroy, CloseSocket
<1>7. CASE Recreate
  BY <1>7 DEF Recreate
<1>8. CASE HandleWriteToClient
  BY <1>8 DEF HandleWriteToClient
<1>9. CASE Shutdown
  BY <1>9 DEF Shutdown
<1>10. CASE Elapse
  BY <1>10 DEF Elapse
<1>11. CASE ConnectOk
  BY <1>11, FileSizesAssumption DEF ConnectOk
<1>12. CASE WriteOk
  BY <1>12 DEF WriteOk
<1>13. CASE Cut
  BY <1>13 DEF Cut
<1> QED
  BY <1>1, <1>2, <1>3, <1>4, <1>5, <1>6, <1>7, <1>8, <1>9, <1>10, <1>11, <1>12, <1>13

LEMMA InitIInv == Init => IInv
BY EndpointsAssumption, EmptyQueue
DEF Init, IInv, TypeOK, ClientInv, UpInv, CutInv, ClosedInv, LostInv, TimerInv, ServerInv,
    NewTimer, Timers, Expiries, Waits, Calls, Busy, Conns, Texts

\* No operation breaks IInv.
LEMMA NextIInv == IInv /\ [Next]_vars => IInv'
<1> SUFFICES ASSUME IInv, [Next]_vars PROVE IInv'
  OBVIOUS
<1>1. CASE Client
  <2>1. max_block_position \in Nat /\ block_position \in Nat
    BY DEF IInv, TypeOK
  <2>2. ASSUME NEW i \in PageArgs, Load(i) PROVE IInv'
    BY <2>1, <2>2, LoadStep DEF PageArgs
  <2>3. ASSUME NEW d \in Deltas, RepositionAndLoad(d) PROVE IInv'
    <3>1. Reposition(block_position, d, max_block_position) \in Nat
      BY <2>1, RepositionStays, DeltasAssumption
    <3> QED
      BY <2>3, <3>1, LoadStep DEF RepositionAndLoad
  <2> QED
    BY <1>1, <2>2, <2>3, SimpleSteps, SizeReadStep, CheckDeadlineStep DEF Client
<1>2. CASE Server
  BY <1>2, SimpleSteps, RunStep, HandleReadFromClientStep DEF Server
<1>3. CASE Network
  BY <1>3, SimpleSteps, ReadOkStep, OpFailsStep DEF Network
<1>4. CASE UNCHANGED vars
  BY <1>4 DEF vars, clientVars, serverVars, netVars, IInv, TypeOK, ClientInv, UpInv, CutInv, ClosedInv,
     LostInv, TimerInv, ServerInv, SizeUnderWay, PageUnderWay, AnswerWaits, Quiet, Right
<1> QED
  BY <1>1, <1>2, <1>3, <1>4 DEF Next

THEOREM Invariance == Spec => []IInv
BY InitIInv, NextIInv, PTL DEF Spec

-----------------------------------------------------------------------------
(***************************************************************************)
(* The properties.                                                         *)
(***************************************************************************)

\* The client's variables keep their types; in particular the page index it holds
\* never leaves the file, whatever indexes and moves it is given.
THEOREM TypeCorrect == Spec => []TypeOK
BY Invariance, PTL DEF IInv

\* Requests and answers alternate on the wire.
THEOREM Alternation == Spec => []OneMessageInFlight
<1>1. IInv => OneMessageInFlight
  <2> SUFFICES ASSUME IInv PROVE OneMessageInFlight
    OBVIOUS
  <2>1. c2s \in Seq(Nat) /\ Len(c2s) <= 1 /\ s2c \in Seq(Texts)
    BY DEF IInv, TypeOK, ClientInv
  <2>2. (s2c = <<>>) \/ (c2s = <<>> /\ s2c = <<Head(s2c)>>)
    BY DEF IInv, TypeOK, UpInv, CutInv, ClosedInv, SizeUnderWay, PageUnderWay, AnswerWaits, Quiet
  <2>3. CASE s2c = <<>>
    BY <2>1, <2>3, EmptyQueue DEF OneMessageInFlight
  <2>4. CASE c2s = <<>> /\ s2c = <<Head(s2c)>>
    <3>1. Len(<<Head(s2c)>>) = 1
      OBVIOUS
    <3>2. Len(s2c) = 1
      BY <2>4, <3>1
    <3> QED
      BY <2>4, <3>2, EmptyQueue DEF OneMessageInFlight
  <2> QED
    BY <2>2, <2>3, <2>4
<1> QED
  BY <1>1, Invariance, PTL

\* The loops of the client always have something to wait for, and a deadline.
THEOREM Timed == Spec => []OperationsAreTimed
<1>1. IInv => OperationsAreTimed
  BY DEF IInv, ClientInv, TimerInv, OperationsAreTimed, Busy
<1> QED
  BY <1>1, Invariance, PTL

\* No file the server opens ends exactly at the end of a block.
PartialLastBlock == \A n \in FileSizes : n = 0 \/ n % BlockSize # 0

\* The answer of a load that returned is the one BlockService gives.
LEMMA AnswerIsPageOf ==
    ASSUME PartialLastBlock, IInv, Right(temp_buffer), call \in {"idle", "read"}
    PROVE  temp_buffer = PageOf(block_position, file_size)
<1>1. file_size \in Nat /\ block_position \in 0..MaxBlock(file_size)
  BY DEF IInv, TypeOK, ClientInv
<1>2. CASE file_size = 0
  BY <1>1, <1>2, EmptyFile DEF Right, PageOf
<1>3. CASE file_size # 0
  <2>1. file_size % BlockSize # 0
    BY <1>3, PartialLastBlock DEF IInv, ServerInv, PartialLastBlock
  <2>2. HasText(block_position, file_size)
    BY <1>1, <2>1, TextUpToMax
  <2> QED
    BY <2>2 DEF Right, PageOf
<1> QED
  BY <1>2, <1>3

\* On such files every answer is the page that was asked for.
THEOREM RightPage ==
    ASSUME PartialLastBlock PROVE Spec => []AnswerIsPage
<1>1. IInv => AnswerIsPage
  BY PartialLastBlock, AnswerIsPageOf DEF AnswerIsPage, IInv, ClientInv
<1> QED
  BY <1>1, Invariance, PTL

\* A load that has thrown is the last that could return.
THEOREM NoResumption == Spec => LostIsForever
<1>1. IInv /\ [Next]_vars => [outcome = "thrown" => outcome' # "returned"]_vars
  <2> SUFFICES ASSUME IInv, Next, outcome = "thrown" PROVE outcome' # "returned"
    OBVIOUS
  <2>1. CASE PageRead
    BY <2>1 DEF PageRead, IInv, LostInv
  <2>2. CASE ~PageRead
    BY <2>2 DEF Next, Client, Server, Network, ResolveFails, Resolve, Connected, SizeRead, Load,
       RepositionAndLoad, PageSent, Destroy, Recreate, CheckDeadline, Run, HandleWriteToClient,
       HandleReadFromClient, Shutdown, Elapse, ConnectOk, WriteOk, ReadOk, OpFails, Cut, clientVars
  <2> QED
    BY <2>1, <2>2
<1> QED
  BY <1>1, Invariance, PTL DEF Spec, LostIsForever

-----------------------------------------------------------------------------
(***************************************************************************)
(* Session implements BlockService.                                        *)
(***************************************************************************)

\* What BlockService sees of a state of the session.
Phase  == CASE call \in {"new", "connect", "size"} -> "opening"
            [] call = "idle"                       -> "ready"
            [] call \in {"write", "read"}          -> "asked"
            [] call = "dead"                       -> "closed"
Size   == IF call \in {"idle", "write", "read"} THEN file_size ELSE 0
Answer == IF call = "idle" /\ outcome = "returned" THEN temp_buffer ELSE -2

LEMMA Phases ==
    /\ call \in {"new", "connect", "size"} => Phase = "opening"
    /\ call = "idle" => Phase = "ready"
    /\ call \in {"write", "read"} => Phase = "asked"
    /\ call = "dead" => Phase = "closed"
BY DEF Phase

LEMMA Stutter ==
    ASSUME Phase' = Phase, (outcome' = "thrown") <=> (outcome = "thrown"), Size' = Size,
           block_position' = block_position, Answer' = Answer
    PROVE  UNCHANGED Source!vars
BY DEF Source!vars, Phase, Size, Answer

\* Opening, loading, failing and closing are steps of BlockService; the rest of
\* the session it does not see.
LEMMA OpeningSteps ==
    ASSUME IInv, ResolveFails \/ Resolve \/ Connected \/ SizeRead \/ Recreate
    PROVE  Source!Next \/ UNCHANGED Source!vars
<1>1. block_position = 0 \/ call = "dead"
  BY DEF IInv, ClientInv, ResolveFails, Resolve, Connected, SizeRead, Recreate
<1>2. file_size \in Nat /\ (call # "dead" => outcome = "none")
  BY DEF IInv, TypeOK, ClientInv, ResolveFails, Resolve, Connected, SizeRead, Recreate
<1>3. CASE call \in {"new", "connect", "size"} /\ call' = "dead"
           /\ UNCHANGED <<block_position, outcome>>
  <2>1. Source!OpenFailed
    BY <1>2, <1>3 DEF Source!OpenFailed
  <2> QED
    BY <2>1 DEF Source!Next
<1>4. CASE call \in {"new", "connect"} /\ call' \in {"connect", "size"}
           /\ UNCHANGED <<block_position, outcome>>
  BY <1>4, Stutter DEF Phase, Size, Answer
<1>5. CASE call = "size" /\ call' = "idle" /\ UNCHANGED <<block_position, outcome, file_size>>
  <2>1. Source!Opened
    BY <1>2, <1>5 DEF Source!Opened
  <2> QED
    BY <2>1 DEF Source!Next
<1>6. CASE Recreate
  <2>1. Source!Reopen
    BY <1>6 DEF Source!Reopen, Recreate
  <2> QED
    BY <2>1 DEF Source!Next
<1> QED
  BY <1>3, <1>4, <1>5, <1>6 DEF ResolveFails, Resolve, Connected, SizeRead, Begin, Leave, serverVars

LEMMA LoadingSteps ==
    ASSUME PartialLastBlock, IInv, IInv',
           \/ \E i \in Nat : Load(i)
           \/ PageSent \/ PageRead \/ Destroy
    PROVE  Source!Next \/ UNCHANGED Source!vars
<1>1. file_size \in Nat /\ max_block_position = MaxBlock(file_size)
  BY DEF IInv, TypeOK, ClientInv, Load, PageSent, PageRead, Destroy
<1>2. CASE \E i \in Nat : Load(i)
  <2>1. /\ call = "idle" /\ call' = "write"
        /\ UNCHANGED <<outcome, file_size, max_block_position>>
    BY <1>2 DEF Load, Begin, serverVars
  <2>2. block_position' \in 0..MaxBlock(file_size)
    BY <1>1, <2>1 DEF IInv, TypeOK
  <2>3. Source!Ask
    BY <1>1, <2>1, <2>2 DEF Source!Ask, Source!NoAnswer, Source!MaxBlock, MaxBlock
  <2> QED
    BY <2>3 DEF Source!Next
<1>3. CASE call = "write" /\ call' = "read"
           /\ UNCHANGED <<block_position, outcome, file_size>>
  BY <1>3, Stutter DEF Phase, Size, Answer
<1>4. CASE call \in {"write", "read"} /\ call' = "idle" /\ outcome' = "thrown"
           /\ UNCHANGED <<block_position, file_size>>
  <2>1. Source!Fail
    BY <1>4 DEF Source!Fail
  <2> QED
    BY <2>1 DEF Source!Next
<1>5. CASE PageRead /\ ok
  <2>1. /\ call = "read" /\ call' = "idle" /\ outcome' = "returned"
        /\ UNCHANGED <<block_position, file_size, temp_buffer>>
    BY <1>5 DEF PageRead, Leave, serverVars
  <2>2. outcome # "thrown" /\ temp_buffer = PageOf(block_position, file_size)
    BY <1>5, <2>1, AnswerIsPageOf DEF PageRead, IInv, LostInv, ClientInv
  <2>3. Source!Answer
    BY <2>1, <2>2 DEF Source!Answer, Source!PageOf, Source!HasText, Source!NoText,
       PageOf, HasText, NoText
  <2> QED
    BY <2>3 DEF Source!Next
<1>6. CASE Destroy
  <2>1. Source!Close
    BY <1>6 DEF Source!Close, Source!NoAnswer, Destroy
  <2> QED
    BY <2>1 DEF Source!Next
<1> QED
  BY <1>2, <1>3, <1>4, <1>5, <1>6 DEF PageSent, PageRead, Begin, Leave, serverVars

LEMMA HiddenSteps ==
    ASSUME IInv, Server \/ Network \/ CheckDeadline \/ UNCHANGED vars
    PROVE  UNCHANGED Source!vars
<1>1. UNCHANGED <<call, block_position, outcome>>
  BY DEF Server, Network, CheckDeadline, Run, HandleWriteToClient, HandleReadFromClient, Shutdown, Elapse,
     ConnectOk, WriteOk, ReadOk, OpFails, Cut, clientVars, vars
<1>2. call # "connect" => UNCHANGED file_size
  BY DEF Server, Network, CheckDeadline, Run, HandleWriteToClient, HandleReadFromClient, Shutdown, Elapse,
     ConnectOk, WriteOk, ReadOk, OpFails, Cut, serverVars, vars
<1>3. call = "idle" => UNCHANGED temp_buffer
  BY DEF Server, Network, CheckDeadline, Run, HandleWriteToClient, HandleReadFromClient, Shutdown, Elapse,
     ConnectOk, WriteOk, ReadOk, OpFails, Cut, Busy, clientVars, vars
<1> QED
  BY <1>1, <1>2, <1>3, Stutter DEF Phase, Size, Answer

\* A session on files that end inside a block is a block service.
THEOREM Implementation ==
    ASSUME PartialLastBlock PROVE Spec => IsBlockService
<1>1. Init => Source!Init
  BY DEF Init, Source!Init, Source!NoAnswer
<1>2. IInv /\ IInv' /\ [Next]_vars => [Source!Next]_(Source!vars)
  <2> SUFFICES ASSUME IInv, IInv', [Next]_vars PROVE Source!Next \/ UNCHANGED Source!vars
    OBVIOUS
  <2>1. max_block_position \in Nat /\ block_position \in Nat
    BY DEF IInv, TypeOK
  <2>2. CASE \E i \in PageArgs : Load(i)
    BY <2>1, <2>2, LoadingSteps, PartialLastBlock DEF PageArgs
  <2>3. CASE \E d \in Deltas : RepositionAndLoad(d)
    <3>1. \A d \in Deltas : Reposition(block_position, d, max_block_position) \in Nat
      BY <2>1, RepositionStays, DeltasAssumption
    <3> QED
      BY <2>3, <3>1, LoadingSteps, PartialLastBlock DEF RepositionAndLoad
  <2>4. CASE PageSent \/ PageRead \/ Destroy
    BY <2>4, LoadingSteps, PartialLastBlock
  <2>5. CASE ResolveFails \/ Resolve \/ Connected \/ SizeRead \/ Recreate
    BY <2>5, OpeningSteps
  <2>6. CASE Server \/ Network \/ CheckDeadline \/ UNCHANGED vars
    BY <2>6, HiddenSteps
  <2> QED
    BY <2>2, <2>3, <2>4, <2>5, <2>6 DEF Next, Client
<1> QED
  BY <1>1, <1>2, Invariance, PTL DEF Spec, IsBlockService, Source!Spec
=============================================================================
