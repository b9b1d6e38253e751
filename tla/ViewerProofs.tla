----------------------------- MODULE ViewerProofs -----------------------------
(***************************************************************************)
(* Proofs about Viewer, for every number of connecting threads, every set  *)
(* of files and every block size, scroll range and page step.              *)
(***************************************************************************)
EXTENDS Viewer, TLAPS, SequenceTheorems, FiniteSetTheorems

ViewFacts == INSTANCE FileViewProofs

LEMMA Positive == ScrollRange \in Nat \ {0} /\ \A f \in Files : f.size \in Nat
  BY ViewAssumption DEF View!RowsAssumption, View!FilesAssumption

\* The messages that wait at the lock, and the handlers.
Codes  == {"thumb", "pagedown", "pageup", "linedown", "lineup", "other", "jump", "bad"}
Frames == [pc : {"want"}, msg : [code : Codes, n : Nat]]
          \cup [pc : {"load", "box", "refuse", "sorry"}, msg : {NoMsg}]

\* The handlers of a stack.
Of(s) == {s[i] : i \in DOMAIN s}

\* Some handler of the window's thread is at pc.
At(pc) == \E f \in Of(stack) : f.pc = pc

-----------------------------------------------------------------------------
(***************************************************************************)
(* The stack of handlers.                                                  *)
(***************************************************************************)

\* Push adds a handler to those of the stack.
LEMMA PushAdds ==
    ASSUME NEW s \in Seq(Frames), NEW f \in Frames
    PROVE  <<f>> \o s \in Seq(Frames) /\ Of(<<f>> \o s) = {f} \cup Of(s)
<1> DEFINE t == <<f>> \o s
<1>1. <<f>> \in Seq(Frames) /\ Len(<<f>>) = 1 /\ <<f>>[1] = f
  OBVIOUS
<1>2. /\ t \in Seq(Frames)
      /\ Len(t) = 1 + Len(s)
      /\ \A i \in 1 .. 1 + Len(s) : t[i] = IF i <= 1 THEN <<f>>[i] ELSE s[i - 1]
  BY <1>1, ConcatProperties
<1>3. Len(s) \in Nat /\ DOMAIN s = 1 .. Len(s) /\ DOMAIN t = 1 .. 1 + Len(s)
  BY <1>2, LenProperties
<1> HIDE DEF t
<1>4. t[1] = f /\ \A i \in 1 .. Len(s) : t[i + 1] = s[i]
  BY <1>1, <1>2, <1>3
<1>5. ASSUME NEW x \in Of(t) PROVE x = f \/ x \in Of(s)
  <2>1. PICK i \in 1 .. 1 + Len(s) : x = t[i]
    BY <1>3, <1>5 DEF Of
  <2>2. i = 1 \/ (i - 1 \in 1 .. Len(s) /\ t[i] = s[i - 1])
    BY <1>2, <1>3, <2>1
  <2> QED BY <1>3, <1>4, <2>1, <2>2 DEF Of
<1>6. ASSUME NEW x \in Of(s) PROVE x \in Of(t)
  <2>1. PICK i \in 1 .. Len(s) : x = s[i]
    BY <1>3, <1>6 DEF Of
  <2>2. i + 1 \in 1 .. 1 + Len(s) /\ x = t[i + 1]
    BY <1>3, <1>4, <2>1
  <2> QED BY <1>3, <2>2 DEF Of
<1>7. f \in Of(t)
  BY <1>3, <1>4 DEF Of
<1> QED BY <1>2, <1>5, <1>6, <1>7 DEF t

\* The handlers of the stack are its top and those of the rest.
LEMMA TopAndRest ==
    ASSUME NEW s \in Seq(Frames), s # <<>>
    PROVE  /\ Tail(s) \in Seq(Frames) /\ Head(s) \in Frames
           /\ Of(s) = {Head(s)} \cup Of(Tail(s))
<1> DEFINE t == Tail(s)
<1>1. /\ Head(s) \in Frames /\ t \in Seq(Frames)
      /\ Len(t) = Len(s) - 1
      /\ \A i \in 1 .. Len(t) : t[i] = s[i + 1]
  BY HeadTailProperties
<1>2. /\ Len(s) \in Nat \ {0} /\ DOMAIN s = 1 .. Len(s) /\ DOMAIN t = 1 .. Len(t)
      /\ Head(s) = s[1]
  BY <1>1, LenProperties, EmptySeq
<1> HIDE DEF t
<1>3. ASSUME NEW x \in Of(s) PROVE x = Head(s) \/ x \in Of(t)
  <2>1. PICK i \in 1 .. Len(s) : x = s[i]
    BY <1>2, <1>3 DEF Of
  <2>2. i = 1 \/ (i - 1 \in 1 .. Len(t) /\ t[i - 1] = s[i])
    BY <1>1, <1>2, <2>1
  <2> QED BY <1>2, <2>1, <2>2 DEF Of
<1>4. ASSUME NEW x \in Of(t) PROVE x \in Of(s)
  <2>1. PICK i \in 1 .. Len(t) : x = t[i]
    BY <1>2, <1>4 DEF Of
  <2>2. i + 1 \in 1 .. Len(s) /\ x = s[i + 1]
    BY <1>1, <1>2, <2>1
  <2> QED BY <1>2, <2>2 DEF Of
<1>5. Head(s) \in Of(s)
  BY <1>2 DEF Of
<1> QED BY <1>1, <1>3, <1>4, <1>5 DEF t

LEMMA NoHandlers == <<>> \in Seq(Frames) /\ Of(<<>>) = {}
  BY EmptySeq DEF Of

-----------------------------------------------------------------------------
(***************************************************************************)
(* The invariant of the mutex, the connections and the dialog's copies.    *)
(***************************************************************************)

Types ==
    /\ connecting_in_progress \in BOOLEAN
    /\ client_ptr \in {0} \cup Ids
    /\ stack \in Seq(Frames)
    /\ notified \in Nat
    /\ thread \in [Ids -> Steps]
    /\ alive \subseteq Ids
    /\ remote \in [Ids -> Files]
    /\ dropped \in [Ids -> {0} \cup Ids]

\* The places of a connecting thread inside the mutex.
Held == {"swap", "reset"}

\* Nobody else is inside the mutex when a connecting thread is.
Mutex ==
    /\ \A j, k \in Ids : thread[j] \in Held /\ thread[k] \in Held => j = k
    /\ ThreadHolds => ~At("load") /\ ~At("box")

\* The threads that have given their connection to the view.
Given == {"reset", "drop", "clear", "done"}

\* Nobody destroys a connection that is in use or will be: a thread destroys only
\* what another thread gave to the view, and after it has taken it from there.
Lives ==
    /\ \A k \in Ids : thread[k] \in {"want", "swap"} => k \in alive
    /\ client_ptr # 0 => client_ptr \in alive /\ thread[client_ptr] \in Given
    /\ \A k \in Ids : thread[k] \in {"reset", "drop"} /\ dropped[k] # 0 =>
          dropped[k] # client_ptr /\ thread[dropped[k]] \in Given

LoadsHaveClient == At("load") => client_ptr # 0

\* A thread has swapped the client and not yet reset what belongs to the old one.
Resetting == \E k \in Ids : thread[k] = "reset"

\* But for that while, what the dialog has of a file is of the file its client reads.
CopiesAgree ==
    /\ client_ptr # 0 => file = remote[client_ptr]
    /\ client_ptr # 0 /\ ~Resetting =>
          file_size = file.size /\ symbols_per_scroll = View!Resolution(file.size)
    /\ Resetting => client_ptr # 0

IInv == Types /\ Mutex /\ Lives /\ LoadsHaveClient /\ CopiesAgree

LEMMA InitIInv == Init => IInv
<1> SUFFICES ASSUME Init PROVE IInv
  OBVIOUS
<1>1. Types
  BY NoHandlers, AttemptsAssumption DEF Init, Types, Steps, Ids
<1>2. ~ThreadHolds /\ \A k \in Ids : thread[k] = "idle"
  BY DEF Init, ThreadHolds
<1>3. ~At("load") /\ ~At("box")
  BY NoHandlers DEF Init, At
<1>4. client_ptr = 0 /\ \A k \in Ids : thread[k] \notin {"want", "swap", "reset", "drop"}
  BY <1>2 DEF Init
<1>5. Mutex
  BY <1>2, <1>3 DEF Mutex, Held
<1>6. Lives
  BY <1>4 DEF Lives
<1> QED BY <1>1, <1>3, <1>4, <1>5, <1>6 DEF IInv, LoadsHaveClient, CopiesAgree, Resetting

-----------------------------------------------------------------------------
(***************************************************************************)
(* What the handlers of the window's thread do to the stack: one of them   *)
(* ends, or goes on, or a new one begins.                                  *)
(***************************************************************************)

\* Every handler of the new stack is one of the old stack's, or f.
Gains(f) == stack' \in Seq(Frames) /\ Of(stack') \subseteq {f} \cup Of(stack)
Loses    == stack' \in Seq(Frames) /\ Of(stack') \subseteq Of(stack)

LEMMA PushGains ==
    ASSUME Types, NEW f \in Frames, Push(f)
    PROVE  Gains(f) /\ f \in Of(stack') /\ Of(stack) \subseteq Of(stack')
  BY PushAdds DEF Types, Push, Gains

LEMMA BecomeGains ==
    ASSUME Types, NEW f \in Frames, stack # <<>>, Become(f)
    PROVE  Gains(f) /\ f \in Of(stack') /\ Of(stack) \subseteq {Top} \cup Of(stack')
<1>1. /\ Tail(stack) \in Seq(Frames)
      /\ Of(stack) = {Top} \cup Of(Tail(stack))
  BY TopAndRest DEF Types, Top
<1>2. stack' \in Seq(Frames) /\ Of(stack') = {f} \cup Of(Tail(stack))
  BY <1>1, PushAdds DEF Become
<1> QED BY <1>1, <1>2 DEF Gains

LEMMA PopLoses ==
    ASSUME Types, stack # <<>>, Pop
    PROVE  Loses /\ Of(stack) \subseteq {Top} \cup Of(stack')
  BY TopAndRest DEF Types, Pop, Loses, Top

\* The kinds of handlers the actions begin with.
LEMMA FramesAre ==
    /\ \A pc \in {"load", "box", "refuse", "sorry"} : Frame(pc, NoMsg) \in Frames
    /\ Frame("want", Msg("thumb", 0)) \in Frames
    /\ \A m \in UserMessages : Frame("want", m) \in Frames
<1>1. ASSUME NEW n \in ThumbRange PROVE n \in Nat
  BY <1>1 DEF ThumbRange
<1>2. ThumbMod \in Nat \ {0}
  BY Positive, ThumbAssumption
<1>3. ASSUME NEW n \in ThumbRange PROVE n % ThumbMod \in Nat
  BY <1>1, <1>2
<1>4. \A n \in Jumps : n \in Nat
  BY ViewerAssumption
<1>5. ASSUME NEW m \in UserMessages PROVE m \in [code : Codes, n : Nat]
  BY <1>3, <1>4, <1>5 DEF UserMessages, Msg, Codes
<1> QED BY <1>5 DEF Frame, Frames, NoMsg, Msg, Codes

-----------------------------------------------------------------------------
(***************************************************************************)
(* The invariant is inductive: the window's thread.                        *)
(***************************************************************************)

\* What a step of the window's thread leaves alone.
dialogCopies == <<client_ptr, thread, alive, remote, dropped, file, file_size,
                  symbols_per_scroll>>

\* A step of the window's thread may enter the mutex when no other thread is in it,
\* and load when there is a client.
LEMMA WindowStep ==
    ASSUME IInv, UNCHANGED dialogCopies,
           connecting_in_progress' \in BOOLEAN, notified' \in Nat,
           stack' \in Seq(Frames),
           \A f \in Of(stack') : f.pc \in {"load", "box"} =>
               \/ f \in Of(stack)
               \/ ~ThreadHolds /\ (f.pc = "load" => client_ptr # 0)
    PROVE  IInv'
<1>1. Types'
  BY DEF IInv, Types, dialogCopies
<1>2. ThreadHolds' = ThreadHolds
  BY DEF ThreadHolds, dialogCopies
<1>3. (At("load") => client_ptr # 0)'
  BY DEF IInv, LoadsHaveClient, At, dialogCopies
<1>4. ThreadHolds => ~At("load")' /\ ~At("box")'
  BY DEF IInv, Mutex, At
<1>5. Mutex'
  BY <1>2, <1>4 DEF IInv, Mutex, dialogCopies
<1>6. Lives'
  BY DEF IInv, Lives, dialogCopies
<1>7. CopiesAgree'
  BY DEF IInv, CopiesAgree, Resetting, dialogCopies, View!Resolution
<1> QED BY <1>1, <1>3, <1>5, <1>6, <1>7 DEF IInv, LoadsHaveClient

LEMMA ConnectKeeps ==
    ASSUME IInv, Connect
    PROVE  IInv'
<1>1. Types
  BY DEF IInv
<1>2. CASE UNCHANGED thread
  <2>1. PICK pc \in {"sorry", "refuse"} : Push(Frame(pc, NoMsg))
    BY <1>1, <1>2 DEF Connect, Types, Steps
  <2> QED BY <1>1, <1>2, <2>1, PushGains, FramesAre, WindowStep
          DEF Connect, Types, Gains, Frame, dialogCopies, threadVars, viewVars
<1>3. ASSUME NEW k \in Ids, thread[k] = "idle", thread' = [thread EXCEPT ![k] = "open"],
             UNCHANGED stack
      PROVE  IInv'
  <2>1. Types' /\ UNCHANGED <<client_ptr, stack, alive, remote, dropped, file, file_size,
                              symbols_per_scroll>>
    BY <1>1, <1>3 DEF Connect, Types, Steps, viewVars
  <2>2. \A j \in Ids : thread'[j] # thread[j] => thread[j] = "idle" /\ thread'[j] = "open"
    BY <1>1, <1>3 DEF Types
  <2>3. Mutex'
    BY <2>1, <2>2 DEF IInv, Mutex, Held, ThreadHolds, At, Of
  <2>4. Lives'
    BY <1>1, <2>1, <2>2 DEF IInv, Types, Lives, Given
  <2>5. LoadsHaveClient' /\ CopiesAgree'
    BY <2>1, <2>2 DEF IInv, LoadsHaveClient, At, Of, CopiesAgree, Resetting, View!Resolution
  <2> QED BY <2>1, <2>3, <2>4, <2>5 DEF IInv
<1> QED BY <1>2, <1>3 DEF Connect

LEMMA UserActsKeeps ==
    ASSUME IInv, NEW m \in UserMessages, UserActs(m)
    PROVE  IInv'
  BY PushGains, FramesAre, WindowStep
  DEF IInv, Types, UserActs, Gains, Frame, dialogCopies, threadVars, viewVars

LEMMA DispatchKeeps ==
    ASSUME IInv, Dispatch
    PROVE  IInv'
<1>1. notified' \in Nat
  BY DEF IInv, Types, Dispatch
<1> QED BY <1>1, PushGains, FramesAre, WindowStep
        DEF IInv, Types, Dispatch, Gains, Frame, dialogCopies, threadVars, viewVars

LEMMA CloseBoxKeeps ==
    ASSUME IInv, CloseBox
    PROVE  IInv'
<1>1. connecting_in_progress' \in BOOLEAN
  BY DEF CloseBox
<1>2. Loses
  BY PopLoses DEF IInv, CloseBox, InBox
<1> QED BY <1>1, <1>2, WindowStep
        DEF IInv, Types, CloseBox, Loses, dialogCopies, threadVars, viewVars

LEMMA HandleScrollKeeps ==
    ASSUME IInv, HandleScroll
    PROVE  IInv'
<1>1. CASE Pop
  BY <1>1, PopLoses, WindowStep
  DEF IInv, Types, HandleScroll, Idle, Loses, dialogCopies, threadVars, viewVars
<1>2. CASE ToShowData
  <2>1. PICK f \in Frames : Become(f) /\ (f.pc = "load" => client_ptr # 0)
    BY <1>2, FramesAre DEF ToShowData, Frame
  <2>2. Gains(f)
    BY <2>1, BecomeGains DEF IInv, HandleScroll, Idle
  <2> QED BY <2>1, <2>2, WindowStep
          DEF IInv, Types, HandleScroll, Free, Gains, dialogCopies, threadVars, viewVars
<1> QED BY <1>1, <1>2 DEF HandleScroll

LEMMA GoToOffsetKeeps ==
    ASSUME IInv, GoToOffset
    PROVE  IInv'
<1>1. PICK f \in Frames : Become(f) /\ (f.pc = "load" => client_ptr # 0)
  BY FramesAre DEF GoToOffset, ToShowData, Frame
<1>2. Gains(f)
  BY <1>1, BecomeGains DEF IInv, GoToOffset, Idle
<1> QED BY <1>1, <1>2, WindowStep
        DEF IInv, Types, GoToOffset, Free, Gains, dialogCopies, threadVars, viewVars

LEMMA ShowDataKeeps ==
    ASSUME IInv, ShowData
    PROVE  IInv'
<1>1. UNCHANGED <<file, symbols_per_scroll>>
  BY DEF ShowData, View!GetStringsForPos
<1>2. stack # <<>> /\ At("load")
  BY TopAndRest DEF IInv, Types, ShowData, Idle, At, Top
<1>3. ~ThreadHolds
  BY <1>2 DEF IInv, Mutex
<1>4. CASE Pop
  BY <1>1, <1>2, <1>4, PopLoses, WindowStep
  DEF IInv, Types, ShowData, Loses, dialogCopies, threadVars
<1>5. CASE Become(Frame("box", NoMsg))
  BY <1>1, <1>2, <1>3, <1>5, BecomeGains, FramesAre, WindowStep
  DEF IInv, Types, ShowData, Gains, Frame, dialogCopies, threadVars
<1> QED BY <1>4, <1>5 DEF ShowData

-----------------------------------------------------------------------------
(***************************************************************************)
(* The invariant is inductive: the connecting threads.                     *)
(***************************************************************************)

\* A step of a connecting thread outside the mutex leaves the dialog and the view.
viewCopies == <<client_ptr, stack, notified, remote, file, file_size, symbols_per_scroll>>

LEMMA CopiesKept ==
    ASSUME IInv, UNCHANGED viewCopies,
           \A j \in Ids : thread'[j] = "reset" <=> thread[j] = "reset"
    PROVE  LoadsHaveClient' /\ CopiesAgree' /\ At("load")' = At("load") /\ At("box")' = At("box")
  BY DEF IInv, LoadsHaveClient, CopiesAgree, Resetting, At, Of, viewCopies, View!Resolution

LEMMA OpenKeeps ==
    ASSUME IInv, NEW k \in Ids, Open(k)
    PROVE  IInv'
<1>1. UNCHANGED <<viewCopies, connecting_in_progress, dropped>>
  BY DEF Open, viewCopies, dialogVars, viewVars
<1>2. PICK s \in {"want", "box"} :
        /\ thread' = [thread EXCEPT ![k] = s]
        /\ thread[k] = "open"
        /\ alive \subseteq alive' /\ alive' \subseteq alive \cup {k}
        /\ s = "want" => k \in alive'
  BY DEF Open
<1>3. Types'
  BY <1>1, <1>2 DEF IInv, Types, viewCopies, Steps
<1>4. thread'[k] = s /\ \A j \in Ids \ {k} : thread'[j] = thread[j]
  BY <1>2 DEF IInv, Types
<1>5. Mutex'
  BY <1>1, <1>2, <1>4, CopiesKept DEF IInv, Mutex, Held, ThreadHolds
<1>6. Lives'
  BY <1>1, <1>2, <1>4 DEF IInv, Types, Lives, Given, viewCopies
<1> QED BY <1>1, <1>2, <1>3, <1>4, <1>5, <1>6, CopiesKept DEF IInv

LEMMA LockKeeps ==
    ASSUME IInv, NEW k \in Ids, Lock(k)
    PROVE  IInv'
<1>1. UNCHANGED <<viewCopies, connecting_in_progress, dropped, alive>>
  BY DEF Lock, viewCopies, dialogVars, viewVars
<1>2. thread' = [thread EXCEPT ![k] = "swap"] /\ thread[k] = "want" /\ ~ThreadHolds
  BY DEF Lock
<1>3. Types'
  BY <1>1, <1>2 DEF IInv, Types, viewCopies, Steps
<1>4. thread'[k] = "swap" /\ \A j \in Ids \ {k} : thread'[j] = thread[j]
  BY <1>2 DEF IInv, Types
<1>5. ~At("load") /\ ~At("box")
  BY DEF IInv, Types, Lock, UiHolds, At, Of
<1>6. Mutex'
  BY <1>1, <1>2, <1>4, <1>5, CopiesKept DEF Mutex, Held, ThreadHolds
<1>7. Lives'
  BY <1>1, <1>2, <1>4 DEF IInv, Types, Lives, Given, viewCopies
<1> QED BY <1>1, <1>2, <1>3, <1>4, <1>6, <1>7, CopiesKept DEF IInv

LEMMA SwapKeeps ==
    ASSUME IInv, NEW k \in Ids, Swap(k)
    PROVE  IInv'
<1>1. /\ thread' = [thread EXCEPT ![k] = "reset"] /\ thread[k] = "swap"
      /\ dropped' = [dropped EXCEPT ![k] = client_ptr]
      /\ client_ptr' = k /\ file' = remote[k]
      /\ UNCHANGED <<connecting_in_progress, stack, notified, alive, remote>>
  BY DEF Swap
<1>2. Types'
  BY <1>1 DEF IInv, Types, Steps
<1>3. /\ thread'[k] = "reset" /\ \A j \in Ids \ {k} : thread'[j] = thread[j]
      /\ dropped'[k] = client_ptr /\ \A j \in Ids \ {k} : dropped'[j] = dropped[j]
  BY <1>1 DEF IInv, Types
<1>4. \A j \in Ids \ {k} : thread[j] \notin Held
  BY <1>1 DEF IInv, Mutex, Held
<1>5. ~At("load")' /\ ~At("box")'
  BY <1>1 DEF IInv, Mutex, ThreadHolds, At, Of
<1>6. Mutex'
  BY <1>3, <1>4, <1>5 DEF Mutex, Held
<1>7. \A j \in Ids : thread[j] \in Given => thread'[j] \in Given /\ j # k
  BY <1>1, <1>3 DEF Given
<1>8. Lives'
  <2>1. \A j \in Ids : thread'[j] \in {"want", "swap"} => j \in alive'
    BY <1>1, <1>3 DEF IInv, Lives
  <2>2. k \in alive /\ thread'[k] \in Given
    BY <1>1, <1>3 DEF IInv, Lives, Given
  <2>3. client_ptr # 0 => client_ptr # k /\ thread'[client_ptr] \in Given
    BY <1>7 DEF IInv, Types, Lives
  <2>4. ASSUME NEW j \in Ids \ {k}, thread'[j] \in {"reset", "drop"}, dropped'[j] # 0
        PROVE  dropped'[j] # k /\ thread'[dropped'[j]] \in Given
    BY <1>3, <1>7, <2>4 DEF IInv, Types, Lives
  <2> QED BY <1>1, <1>3, <2>1, <2>2, <2>3, <2>4 DEF Lives
<1>9. CopiesAgree'
  BY <1>1, <1>3 DEF CopiesAgree, Resetting, Ids
<1> QED BY <1>2, <1>5, <1>6, <1>8, <1>9 DEF IInv, LoadsHaveClient

LEMMA ResetKeeps ==
    ASSUME IInv, NEW k \in Ids, Reset(k)
    PROVE  IInv'
<1>1. /\ thread' = [thread EXCEPT ![k] = "drop"] /\ thread[k] = "reset"
      /\ file_size' = file.size /\ symbols_per_scroll' = View!Resolution(file.size)
      /\ notified' = notified + 1
      /\ UNCHANGED <<connecting_in_progress, client_ptr, stack, alive, remote, dropped, file>>
  BY DEF Reset, View!ResetPosition
<1>2. Types'
  BY <1>1 DEF IInv, Types, Steps
<1>3. thread'[k] = "drop" /\ \A j \in Ids \ {k} : thread'[j] = thread[j]
  BY <1>1 DEF IInv, Types
<1>4. \A j \in Ids : thread'[j] \notin Held
  BY <1>1, <1>3 DEF IInv, Mutex, Held
<1>5. At("load")' = At("load")
  BY <1>1 DEF At, Of
<1>6. Mutex'
  BY <1>4 DEF Mutex, Held, ThreadHolds
<1>7. Lives'
  BY <1>1, <1>3 DEF IInv, Types, Lives, Given
<1>8. CopiesAgree'
  BY <1>1, <1>4 DEF IInv, CopiesAgree, Resetting, Held, View!Resolution
<1> QED BY <1>1, <1>2, <1>5, <1>6, <1>7, <1>8 DEF IInv, LoadsHaveClient

LEMMA DropKeeps ==
    ASSUME IInv, NEW k \in Ids, Drop(k)
    PROVE  IInv'
<1>1. UNCHANGED <<viewCopies, connecting_in_progress, dropped>>
  BY DEF Drop, viewCopies, dialogVars, viewVars
<1>2. thread' = [thread EXCEPT ![k] = "clear"] /\ thread[k] = "drop"
  BY DEF Drop
<1>3. \A j \in Ids : j \in alive /\ j # dropped[k] => j \in alive'
  BY DEF Drop
<1>4. Types'
  BY <1>1, <1>2 DEF IInv, Types, viewCopies, Steps, Drop
<1>5. thread'[k] = "clear" /\ \A j \in Ids \ {k} : thread'[j] = thread[j]
  BY <1>2 DEF IInv, Types
<1>6. Mutex'
  BY <1>1, <1>2, <1>5, CopiesKept DEF IInv, Mutex, Held, ThreadHolds
<1>7. \A j \in Ids : thread[j] \in Given => thread'[j] \in Given
  BY <1>5 DEF Given
<1>8. Lives'
  <2>1. ASSUME NEW j \in Ids, thread'[j] \in {"want", "swap"} PROVE j \in alive'
    <3>1. j \in alive /\ thread[j] \in {"want", "swap"}
      BY <1>5, <2>1 DEF IInv, Lives
    <3>2. j # dropped[k]
      BY <1>2, <3>1 DEF IInv, Types, Lives, Given, Ids
    <3> QED BY <1>3, <3>1, <3>2
  <2>2. ASSUME client_ptr # 0 PROVE client_ptr \in alive' /\ thread'[client_ptr] \in Given
    BY <1>2, <1>3, <1>7, <2>2 DEF IInv, Types, Lives
  <2>3. ASSUME NEW j \in Ids, thread'[j] \in {"reset", "drop"}, dropped[j] # 0
        PROVE  dropped[j] # client_ptr /\ thread'[dropped[j]] \in Given
    BY <1>5, <1>7, <2>3 DEF IInv, Types, Lives
  <2> QED BY <1>1, <2>1, <2>2, <2>3 DEF Lives, viewCopies
<1> QED BY <1>1, <1>2, <1>4, <1>5, <1>6, <1>8, CopiesKept DEF IInv

LEMMA EndKeeps ==
    ASSUME IInv, NEW k \in Ids, CloseThreadBox(k) \/ ClearText(k)
    PROVE  IInv'
<1>1. UNCHANGED <<viewCopies, dropped, alive>> /\ connecting_in_progress' \in BOOLEAN
  BY DEF CloseThreadBox, ClearText, viewCopies, dialogVars, viewVars, IInv, Types
<1>2. PICK s \in {"clear", "done"} :
        thread' = [thread EXCEPT ![k] = s] /\ thread[k] \in {"box", "clear"}
  BY DEF CloseThreadBox, ClearText
<1>3. Types'
  BY <1>1, <1>2 DEF IInv, Types, viewCopies, Steps
<1>4. thread'[k] = s /\ \A j \in Ids \ {k} : thread'[j] = thread[j]
  BY <1>2 DEF IInv, Types
<1>5. Mutex'
  BY <1>1, <1>2, <1>4, CopiesKept DEF IInv, Mutex, Held, ThreadHolds
<1>6. Lives'
  BY <1>1, <1>2, <1>4 DEF IInv, Types, Lives, Given, viewCopies
<1> QED BY <1>1, <1>2, <1>3, <1>4, <1>5, <1>6, CopiesKept DEF IInv

LEMMA NextIInv == IInv /\ [Next]_vars => IInv'
<1> SUFFICES ASSUME IInv, [Next]_vars PROVE IInv'
  OBVIOUS
<1>1. CASE Connect
  BY <1>1, ConnectKeeps
<1>2. CASE Window
  BY <1>2, CloseBoxKeeps, DispatchKeeps, HandleScrollKeeps, GoToOffsetKeeps, ShowDataKeeps
  DEF Window
<1>3. ASSUME NEW m \in UserMessages, UserActs(m) PROVE IInv'
  BY <1>3, UserActsKeeps
<1>4. ASSUME NEW k \in Ids, Thread(k) PROVE IInv'
  BY <1>4, OpenKeeps, LockKeeps, SwapKeeps, ResetKeeps, DropKeeps, EndKeeps DEF Thread
<1>5. CASE UNCHANGED vars
  <2>1. UNCHANGED <<viewCopies, dialogCopies, connecting_in_progress>>
    BY <1>5 DEF vars, viewVars, threadVars, viewCopies, dialogCopies
  <2> QED BY <2>1, WindowStep DEF IInv, Types, viewCopies
<1> QED BY <1>1, <1>2, <1>3, <1>4, <1>5 DEF Next

\* What the theorems on the mutex and on the connections rest on.
THEOREM Invariance == Spec => []IInv
  BY InitIInv, NextIInv, PTL DEF Spec

\* The steps of a connecting thread outside the mutex.
Elsewhere(k) == Open(k) \/ Lock(k) \/ Drop(k) \/ CloseThreadBox(k) \/ ClearText(k)

LEMMA ThreadsDo == \A k \in Ids : Thread(k) => Swap(k) \/ Reset(k) \/ Elsewhere(k)
  BY DEF Thread, Elsewhere

\* Only Swap and Reset begin and end what they do in two steps.
LEMMA SameResetting ==
    ASSUME IInv, UNCHANGED thread \/ Connect \/ \E k \in Ids : Elsewhere(k)
    PROVE  Resetting' = Resetting
<1>1. CASE UNCHANGED thread
  BY <1>1 DEF Resetting
<1>2. ASSUME NEW k \in Ids, NEW s \in Steps \ {"reset"}, thread[k] # "reset",
             thread' = [thread EXCEPT ![k] = s]
      PROVE  Resetting' = Resetting
  <2>1. thread'[k] = s /\ \A j \in Ids \ {k} : thread'[j] = thread[j]
    BY <1>2 DEF IInv, Types
  <2> QED BY <1>2, <2>1 DEF Resetting
<1>3. CASE Connect
  BY <1>1, <1>2, <1>3 DEF Connect, Steps
<1>4. ASSUME NEW k \in Ids, Elsewhere(k) PROVE Resetting' = Resetting
  BY <1>2, <1>4 DEF Elsewhere, Open, Lock, Drop, CloseThreadBox, ClearText, Steps
<1> QED BY <1>1, <1>3, <1>4


\* LoadsUseLiveClient: get_strings_for_pos only ever loads from a connection that
\* exists and that no connecting thread is swapping out or destroying.
THEOREM LoadsAreSafe == Spec => []LoadsUseLiveClient
<1>1. IInv => LoadsUseLiveClient
  <2> SUFFICES ASSUME IInv, \E i \in DOMAIN stack : stack[i].pc = "load"
               PROVE  /\ client_ptr \in alive
                      /\ ~ThreadHolds
                      /\ \A k \in Ids : thread[k] = "drop" => dropped[k] # client_ptr
    BY DEF LoadsUseLiveClient
  <2>1. At("load")
    BY DEF At, Of
  <2> QED BY <2>1 DEF IInv, Mutex, Lives, LoadsHaveClient
<1> QED BY <1>1, Invariance, PTL

\* HandlersSeeOneConnection: the swap of create_new_connection and what it resets after
\* it are one step for the handlers of the window's thread, which compute with the size
\* and the scroll step of the file that their client reads.
THEOREM HandlersAgree == Spec => HandlersSeeOneConnection
<1>1. IInv /\ (HandleScroll \/ GoToOffset) => ~Resetting
  BY DEF HandleScroll, GoToOffset, Free, ThreadHolds, Resetting
<1>2. IInv /\ ShowData => ~Resetting
  <2> SUFFICES ASSUME IInv, ShowData PROVE ~Resetting
    OBVIOUS
  <2>1. At("load")
    BY TopAndRest DEF IInv, Types, ShowData, Idle, At, Top
  <2> QED BY <2>1 DEF IInv, Mutex, ThreadHolds, Resetting
<1>3. IInv => ((HandleScroll \/ GoToOffset \/ ShowData) /\ client_ptr # 0 =>
                /\ file = remote[client_ptr]
                /\ file_size = file.size
                /\ symbols_per_scroll = View!Resolution(file.size))
  BY <1>1, <1>2 DEF IInv, CopiesAgree
<1> QED BY <1>3, Invariance, PTL DEF Spec, HandlersSeeOneConnection

-----------------------------------------------------------------------------
(***************************************************************************)
(* One connection at a time, while the user types numbers.                 *)
(***************************************************************************)

Active(k) == thread[k] \notin {"idle", "done"}

\* The flag is set while a thread is active, and only the thread itself resets it.
OneInv ==
    /\ ~At("sorry")
    /\ \A k \in Ids : Active(k) => connecting_in_progress
    /\ OneConnectAtATime

LEMMA OneThreadStep ==
    ASSUME IInv, OneInv, NEW k \in Ids, Thread(k)
    PROVE  OneInv'
<1>1. stack' = stack /\ Active(k)
  BY DEF Thread, Open, Lock, Swap, Reset, Drop, CloseThreadBox, ClearText, Active, dialogVars
<1>2. \A j \in Ids \ {k} : thread'[j] = thread[j]
  BY DEF IInv, Types, Thread, Open, Lock, Swap, Reset, Drop, CloseThreadBox, ClearText
<1>3. \A j \in Ids \ {k} : ~Active(j)
  BY <1>1 DEF OneInv, OneConnectAtATime, Active
<1>4. thread'[k] = "done" \/ connecting_in_progress'
  <2>1. connecting_in_progress
    BY <1>1 DEF OneInv
  <2> QED BY <2>1 DEF IInv, Types, Thread, Open, Lock, Swap, Reset, Drop, CloseThreadBox, ClearText
<1> QED BY <1>1, <1>2, <1>3, <1>4 DEF OneInv, OneConnectAtATime, Active, At

LEMMA OneConnectStep ==
    ASSUME ~BadInput, IInv, OneInv, Connect
    PROVE  OneInv'
<1>1. CASE Push(Frame("refuse", NoMsg)) /\ UNCHANGED <<connecting_in_progress, thread>>
  <2>1. Gains(Frame("refuse", NoMsg)) /\ Frame("refuse", NoMsg).pc = "refuse"
    BY <1>1, PushGains, FramesAre DEF IInv, Frame
  <2> QED BY <1>1, <2>1 DEF OneInv, OneConnectAtATime, Active, At, Gains
<1>2. ASSUME ~connecting_in_progress, connecting_in_progress', UNCHANGED stack,
             NEW k \in Ids, thread' = [thread EXCEPT ![k] = "open"]
      PROVE  OneInv'
  <2>1. \A j \in Ids \ {k} : thread'[j] = thread[j]
    BY <1>2 DEF IInv, Types
  <2> QED BY <1>2, <2>1 DEF OneInv, OneConnectAtATime, Active, At
<1> QED BY <1>1, <1>2 DEF Connect

\* A handler that comes to be where there were others does not stand before the box
\* of an exception of OnBnClickedButton1.
LEMMA OneWindowStep ==
    ASSUME OneInv, UNCHANGED <<connecting_in_progress, thread>>,
           \A f \in Of(stack') : f.pc = "sorry" => f \in Of(stack)
    PROVE  OneInv'
  BY DEF OneInv, OneConnectAtATime, Active, At

LEMMA OneNext == ~BadInput /\ IInv /\ OneInv /\ [Next]_vars => OneInv'
<1> SUFFICES ASSUME ~BadInput, IInv, OneInv, [Next]_vars PROVE OneInv'
  OBVIOUS
<1> USE DEF IInv, threadVars
<1>1. CASE CloseBox
  <2>1. Top \in Of(stack)
    BY <1>1, TopAndRest DEF Types, CloseBox, InBox, Top
  <2>2. Loses /\ UNCHANGED <<connecting_in_progress, thread>>
    BY <1>1, <2>1, PopLoses DEF Types, CloseBox, InBox, OneInv, At
  <2> QED BY <2>2, OneWindowStep DEF Loses
<1>2. CASE Dispatch
  BY <1>2, PushGains, FramesAre, OneWindowStep DEF Dispatch, Gains, Frame
<1>3. ASSUME NEW m \in UserMessages, UserActs(m) PROVE OneInv'
  BY <1>3, PushGains, FramesAre, OneWindowStep DEF UserActs, Gains, Frame
<1>4. CASE HandleScroll \/ GoToOffset
  <2>1. stack # <<>> /\ UNCHANGED <<connecting_in_progress, thread>>
    BY <1>4 DEF HandleScroll, GoToOffset, Idle
  <2>2. CASE Pop
    BY <2>1, <2>2, PopLoses, OneWindowStep DEF Loses
  <2>3. CASE Become(Frame("box", NoMsg)) \/ Become(Frame("load", NoMsg))
    BY <2>1, <2>3, BecomeGains, FramesAre, OneWindowStep DEF Gains, Frame
  <2> QED BY <1>4, <2>2, <2>3 DEF HandleScroll, GoToOffset, ToShowData
<1>5. CASE ShowData
  <2>1. stack # <<>> /\ UNCHANGED <<connecting_in_progress, thread>>
    BY <1>5 DEF ShowData, Idle
  <2>2. CASE Pop
    BY <2>1, <2>2, PopLoses, OneWindowStep DEF Loses
  <2>3. CASE Become(Frame("box", NoMsg))
    BY <2>1, <2>3, BecomeGains, FramesAre, OneWindowStep DEF Gains, Frame
  <2> QED BY <1>5, <2>2, <2>3 DEF ShowData
<1>6. CASE Connect
  BY <1>6, OneConnectStep
<1>7. ASSUME NEW k \in Ids, Thread(k) PROVE OneInv'
  BY <1>7, OneThreadStep
<1>8. CASE UNCHANGED vars
  BY <1>8, OneWindowStep DEF vars
<1> QED BY <1>1, <1>2, <1>3, <1>4, <1>5, <1>6, <1>7, <1>8 DEF Next, Window

\* OneConnectAtATime: connecting_in_progress, a plain volatile bool that three
\* places write, keeps a second connecting thread from being started, provided the
\* user types a port and a timeout that are numbers (the run viewer_bad_input shows
\* why that is needed).
THEOREM OneAtATime ==
    ASSUME ~BadInput PROVE Spec => []OneConnectAtATime
<1>1. Init => OneInv
  BY NoHandlers DEF Init, OneInv, OneConnectAtATime, Active, At
<1>2. OneInv => OneConnectAtATime
  BY DEF OneInv
<1>3. IInv /\ OneInv /\ [Next]_vars => OneInv'
  BY OneNext, ~BadInput
<1> QED BY <1>1, <1>2, <1>3, Invariance, PTL DEF Spec


-----------------------------------------------------------------------------
(***************************************************************************)
(* The window becomes that of its connection, while the user only scrolls. *)
(***************************************************************************)

OnlyScrolls == ~BadInput /\ Jumps = {}

\* Some handler waits at the lock.
Waiting == \E f \in Of(stack) : f.pc = "want"

\* Once a client was swapped and reset, while the window is not that of it, the view of the client is unused and
\* there is a scroll message that is going to find it so.
ShownInv ==
    /\ \A f \in Of(stack) : f.pc = "want" => f.msg.code \notin {"jump", "bad"}
    /\ window # client_ptr /\ ~Resetting =>
          /\ client_ptr # 0 /\ global_pos = 0 /\ buffer.len = 0
          /\ ~At("load")
          /\ notified > 0 \/ Waiting

unused == <<window, client_ptr, global_pos, buffer>>

\* A handler that waits at the lock goes on only by initialising the window.
LEMMA ShownStep ==
    ASSUME ShownInv, UNCHANGED unused,
           \A f \in Of(stack') : f \in Of(stack) \/ (f.pc = "want" /\ f.msg.code \notin {"jump", "bad"})
                                 \/ f.pc \in {"box", "refuse", "sorry"},
           notified > 0 \/ Waiting => notified' > 0 \/ Waiting',
           Resetting' = Resetting
    PROVE  ShownInv'
  BY DEF ShownInv, unused, At

LEMMA ShownNext == OnlyScrolls /\ IInv /\ ShownInv /\ [Next]_vars => ShownInv'
<1> SUFFICES ASSUME OnlyScrolls, IInv, ShownInv, [Next]_vars PROVE ShownInv'
  OBVIOUS
<1>0. Types
  BY DEF IInv
<1>1. CASE CloseBox
  <2>1. Loses /\ Of(stack) \subseteq {Top} \cup Of(stack') /\ Top.pc # "want"
    BY <1>0, <1>1, PopLoses DEF CloseBox, InBox
  <2> QED BY <1>1, <2>1, SameResetting, ShownStep
          DEF CloseBox, Loses, Waiting, unused, threadVars, viewVars
<1>2. CASE Dispatch
  <2>1. Gains(Frame("want", Msg("thumb", 0))) /\ Frame("want", Msg("thumb", 0)) \in Of(stack')
    BY <1>0, <1>2, PushGains, FramesAre DEF Dispatch
  <2> QED BY <1>2, <2>1, SameResetting, ShownStep
          DEF Dispatch, Gains, Waiting, unused, threadVars, viewVars, Frame, Msg
<1>3. ASSUME NEW m \in UserMessages, UserActs(m) PROVE ShownInv'
  <2>1. m.code \notin {"jump", "bad"}
    BY DEF OnlyScrolls, UserMessages, Msg
  <2>2. Gains(Frame("want", m)) /\ Of(stack) \subseteq Of(stack')
    BY <1>0, <1>3, PushGains, FramesAre DEF UserActs
  <2> QED BY <1>3, <2>1, <2>2, SameResetting, ShownStep
          DEF UserActs, Gains, Waiting, unused, threadVars, viewVars, Frame
<1>4. CASE HandleScroll
  <2>1. window' = client_ptr' /\ client_ptr' = client_ptr
    BY <1>4 DEF HandleScroll, MustInit, ShownInv, Free, ThreadHolds, Resetting
  <2>2. \A f \in Of(stack') : f.pc = "want" => f \in Of(stack)
    <3>1. CASE Pop
      BY <1>0, <1>4, <3>1, PopLoses DEF HandleScroll, Idle, Loses
    <3>2. CASE Become(Frame("box", NoMsg)) \/ Become(Frame("load", NoMsg))
      BY <1>0, <1>4, <3>2, BecomeGains, FramesAre DEF HandleScroll, Idle, Gains, Frame
    <3> QED BY <1>4, <3>1, <3>2 DEF HandleScroll, ToShowData
  <2> QED BY <2>1, <2>2 DEF ShownInv
<1>5. CASE GoToOffset
  <2>1. Top \in Of(stack) /\ Top.pc = "want" /\ Top.msg.code \in {"jump", "bad"}
    BY <1>0, <1>5, TopAndRest DEF Types, GoToOffset, Idle, Top
  <2> QED BY <2>1 DEF ShownInv
<1>6. CASE ShowData
  <2>1. stack # <<>> /\ UNCHANGED <<window, client_ptr, global_pos>>
    BY <1>6 DEF ShowData, Idle
  <2>2. window = client_ptr
    <3>1. At("load") /\ ~Resetting
      BY <1>0, <1>6, <2>1, TopAndRest
      DEF Types, ShowData, Top, At, IInv, Mutex, ThreadHolds, Resetting
    <3> QED BY <3>1 DEF ShownInv
  <2>3. \A f \in Of(stack') : f.pc = "want" => f \in Of(stack)
    <3>1. CASE Pop
      BY <1>0, <2>1, <3>1, PopLoses DEF Loses
    <3>2. CASE Become(Frame("box", NoMsg))
      BY <1>0, <2>1, <3>2, BecomeGains, FramesAre DEF Gains, Frame
    <3> QED BY <1>6, <3>1, <3>2 DEF ShowData
  <2> QED BY <2>1, <2>2, <2>3 DEF ShownInv
<1>7. CASE Connect
  <2>1. CASE UNCHANGED thread
    <3>1. PICK pc \in {"sorry", "refuse"} : Push(Frame(pc, NoMsg))
      BY <1>0, <1>7, <2>1 DEF Connect, Types, Steps
    <3>2. Gains(Frame(pc, NoMsg)) /\ Of(stack) \subseteq Of(stack')
      BY <1>0, <3>1, PushGains, FramesAre
    <3> QED BY <1>7, <2>1, <3>2, SameResetting, ShownStep
            DEF Connect, Gains, Waiting, unused, viewVars, Frame
  <2>2. CASE UNCHANGED stack
    BY <1>7, <2>2, SameResetting, ShownStep DEF Connect, Waiting, unused, viewVars
  <2> QED BY <1>7, <2>1, <2>2 DEF Connect
<1>8. ASSUME NEW k \in Ids, Thread(k) PROVE ShownInv'
  <2>1. CASE Swap(k)
    <3>1. stack' = stack /\ thread' = [thread EXCEPT ![k] = "reset"]
      BY <2>1 DEF Swap
    <3>2. Resetting'
      BY <1>0, <3>1 DEF Types, Resetting
    <3> QED BY <3>1, <3>2 DEF ShownInv, Of
  <2>2. CASE Reset(k)
    <3>1. UNCHANGED <<stack, window, client_ptr>> /\ global_pos' = 0
          /\ buffer' = View!Empty /\ notified' = notified + 1 /\ thread[k] = "reset"
      BY <2>2 DEF Reset, View!ResetPosition
    <3>2. notified' > 0 /\ client_ptr # 0 /\ buffer'.len = 0
      BY <1>0, <3>1 DEF Types, IInv, CopiesAgree, Resetting, View!Empty
    <3>3. ~At("load")'
      BY <3>1 DEF IInv, Mutex, ThreadHolds, At, Of
    <3> QED BY <3>1, <3>2, <3>3 DEF ShownInv, Of
  <2>3. CASE Elsewhere(k)
    BY <2>3, SameResetting, ShownStep
    DEF Elsewhere, Open, Lock, Drop, CloseThreadBox, ClearText, dialogVars, Waiting, unused, viewVars
  <2> QED BY <1>8, <2>1, <2>2, <2>3, ThreadsDo
<1>9. CASE UNCHANGED vars
  BY <1>9, SameResetting, ShownStep DEF vars, Waiting, unused, threadVars, viewVars
<1> QED BY <1>1, <1>2, <1>3, <1>4, <1>5, <1>6, <1>7, <1>8, <1>9 DEF Next, Window

\* WindowIsInitialized: whatever messages the user sends while connections are made
\* and replaced, the notification of the last one, or a scroll before it, calls
\* init_window; provided the user goes to no offset, which leaves a global_pos that
\* OnVScroll takes for that of a window in use.
THEOREM WindowShown ==
    ASSUME OnlyScrolls PROVE Spec => []WindowIsInitialized
<1>1. Init => ShownInv
  BY NoHandlers DEF Init, ShownInv
<1>2. ShownInv => WindowIsInitialized
  BY NoHandlers DEF ShownInv, WindowIsInitialized, Quiet, Idle, Waiting, Resetting
<1>3. IInv /\ ShownInv /\ [Next]_vars => ShownInv'
  BY ShownNext, OnlyScrolls
<1> QED BY <1>1, <1>2, <1>3, Invariance, PTL DEF Spec


-----------------------------------------------------------------------------
(***************************************************************************)
(* The scroll bar reaches the whole file.                                  *)
(***************************************************************************)

\* The files are shorter than a size_t counts.
FilesFit == \A f \in Files : f.size < SizeMod

LEMMA Quotient ==
    ASSUME NEW a \in Nat, NEW d \in Nat \ {0}
    PROVE  /\ a \div d \in Nat /\ (a \div d) * d \in Nat
           /\ (a \div d) * d <= a /\ a < (a \div d) * d + d
  OBVIOUS

LEMMA Product ==
    ASSUME NEW a \in Nat, NEW b \in Nat, NEW c \in Nat, a <= b
    PROVE  a * c \in Nat /\ b * c \in Nat /\ a * c <= b * c
  OBVIOUS

\* There are fewer than twice as many steps as the scroll bar is meant to have: a
\* size of nearly two ranges still has steps of one byte.
LEMMA StepsAreFew ==
    ASSUME NEW size \in Nat
    PROVE  LET r == View!Resolution(size)
           IN  /\ r \in Nat \ {0}
               /\ size \div r < 2 * ScrollRange
<1>0. ScrollRange \in Nat \ {0}
  BY Positive
<1>1. CASE size < ScrollRange
  <2>1. View!Resolution(size) = 1
    BY <1>1 DEF View!Resolution
  <2> QED BY <1>0, <1>1, <2>1
<1>2. CASE size >= ScrollRange
  <2> DEFINE r == size \div ScrollRange
             n == size \div r
  <2>1. View!Resolution(size) = r
    BY <1>0, <1>2 DEF View!Resolution
  <2>2. r \in Nat /\ r * ScrollRange \in Nat /\ size < r * ScrollRange + ScrollRange
    BY <1>0, Quotient
  <2> HIDE DEF r
  <2>3. r >= 1
    BY <1>0, <1>2, <2>2
  <2>4. n \in Nat /\ n * r \in Nat /\ n * r <= size
    BY <2>2, <2>3, Quotient
  <2> HIDE DEF n
  <2>5. ScrollRange <= r * ScrollRange
    BY <1>0, <2>2, <2>3, Product
  <2>6. size < 2 * (r * ScrollRange)
    BY <1>0, <2>2, <2>5
  <2>7. n < 2 * ScrollRange
    <3> SUFFICES ASSUME 2 * ScrollRange <= n PROVE FALSE
      BY <1>0, <2>4
    <3>1. (2 * ScrollRange) * r <= n * r /\ (2 * ScrollRange) * r \in Nat
      BY <1>0, <2>2, <2>4, Product
    <3>2. (2 * ScrollRange) * r = 2 * (r * ScrollRange)
      BY <1>0, <2>2
    <3>3. 2 * (r * ScrollRange) <= size
      BY <2>2, <2>4, <3>1, <3>2
    <3> QED BY <2>2, <2>6, <3>3
  <2> QED BY <1>0, <2>1, <2>2, <2>3, <2>7 DEF n
<1> QED BY <1>0, <1>1, <1>2

\* ThumbReachesFile: no part of the file is out of reach of the 16 bits that a scroll
\* message has for the thumb's position, though the resolution that
\* create_new_connection computes may give the bar twice the steps it is meant to have.
THEOREM ThumbReaches ==
    ASSUME FilesFit PROVE Spec => []ThumbReachesFile
<1> DEFINE Reach(pos, n) ==
             LET to == NewPos(Msg("thumb", n % ThumbMod), global_pos)
             IN  to <= pos /\ pos < to + symbols_per_scroll
<1>1. ASSUME IInv, ~Resetting, client_ptr # 0, window = client_ptr, NEW pos \in 0..file_size
      PROVE  \E n \in ThumbRange : Reach(pos, n)
  <2> DEFINE size == remote[client_ptr].size
             r    == symbols_per_scroll
             n    == pos \div r
  <2>1. size \in Nat /\ size < SizeMod
    BY <1>1, FilesFit, Positive DEF IInv, Types, FilesFit
  <2>2. file_size = size /\ r = View!Resolution(size)
    BY <1>1 DEF IInv, CopiesAgree, size, r
  <2>3. ThumbRange = 0..(size \div r)
    BY <1>1, <2>2 DEF ThumbRange
  <2> HIDE DEF size, r
  <2>4. r \in Nat \ {0} /\ size \div r < 2 * ScrollRange
    BY <2>1, <2>2, StepsAreFew
  <2>5. pos \in Nat /\ pos <= size
    BY <2>1, <2>2
  <2>6. n \in Nat /\ n * r \in Nat /\ n * r <= pos /\ pos < n * r + r
    BY <2>4, <2>5, Quotient
  <2>7. size \div r \in Nat /\ size < (size \div r) * r + r /\ (size \div r) * r \in Nat
    BY <2>1, <2>4, Quotient
  <2> HIDE DEF n
  <2>8. n <= size \div r
    <3> DEFINE m == size \div r
    <3> HIDE DEF m
    <3>1. m \in Nat /\ size < m * r + r /\ m * r \in Nat
      BY <2>7 DEF m
    <3> SUFFICES ASSUME m + 1 <= n PROVE FALSE
      BY <2>6, <3>1 DEF m
    <3>2. (m + 1) * r <= n * r
      BY <2>4, <2>6, <3>1, Product
    <3>3. (m + 1) * r = m * r + r
      BY <2>4, <3>1
    <3> QED BY <2>1, <2>4, <2>5, <2>6, <3>1, <3>2, <3>3
  <2>9. n < ThumbMod /\ ThumbMod \in Nat
    BY <2>4, <2>6, <2>7, <2>8, Positive, ThumbAssumption
  <2>10. n % ThumbMod = n
    BY <2>6, <2>9
  <2>11. n * r < SizeMod /\ SizeMod \in Nat
    BY <2>1, <2>5, <2>6, SizeModAssumption
  <2>12. (n * r) % SizeMod = n * r
    BY <2>6, <2>11
  <2>13. NewPos(Msg("thumb", n), global_pos) = n * r
    BY <2>12 DEF NewPos, Msg, r
  <2>14. Reach(pos, n)
    BY <2>6, <2>10, <2>13 DEF r
  <2>15. n \in ThumbRange
    BY <2>3, <2>6, <2>7, <2>8
  <2> QED BY <2>14, <2>15
<1>2. IInv => ThumbReachesFile
  BY <1>1 DEF ThumbReachesFile, Quiet, Resetting
<1> QED BY <1>2, Invariance, PTL


-----------------------------------------------------------------------------
(***************************************************************************)
(* Types.  Those of the view are FileView's: what FileViewProofs says of   *)
(* get_strings_for_pos holds of the dialog's view, which has a client      *)
(* whenever it is called.                                                  *)
(***************************************************************************)

LEMMA SameView ==
    ASSUME NEW p
    PROVE  View!GetStringsForPos(p) <=> ViewFacts!GetStringsForPos(p)
  BY DEF View!GetStringsForPos, ViewFacts!GetStringsForPos, View!NeedsLoad, ViewFacts!NeedsLoad,
         View!CutRows, ViewFacts!CutRows, View!Blocks, ViewFacts!Blocks, View!Loads, ViewFacts!Loads,
         View!Low, ViewFacts!Low, View!HasNext, ViewFacts!HasNext, View!MaxBlock, ViewFacts!MaxBlock,
         View!Newlines, ViewFacts!Newlines, View!RowsIn, ViewFacts!RowsIn,
         View!RowEnd, ViewFacts!RowEnd, View!RowStart, ViewFacts!RowStart,
         View!NextEnd, ViewFacts!NextEnd, View!PreviousStart, ViewFacts!PreviousStart,
         View!Text, ViewFacts!Text, View!Outside, ViewFacts!Outside,
         View!Thrown, ViewFacts!Thrown, View!Min, ViewFacts!Min, View!Max, ViewFacts!Max,
         View!Cardinality, ViewFacts!Cardinality

LEMMA GetStringsType ==
    ASSUME View!TypeOK, NEW p \in Nat, View!GetStringsForPos(p)
    PROVE  View!TypeOK'
<1>1. ViewFacts!TypeOK /\ ViewFacts!GetStringsForPos(p)
  BY SameView DEF View!TypeOK, ViewFacts!TypeOK
<1>2. ViewFacts!BlockSizeAssumption /\ ViewFacts!SizeModAssumption
  BY BlockSizeAssumption, SizeModAssumption
  DEF ViewFacts!BlockSizeAssumption, ViewFacts!SizeModAssumption
<1>3. ViewFacts!RowsAssumption /\ ViewFacts!FilesAssumption /\ ViewFacts!FailAssumption
  BY ViewAssumption
  DEF View!RowsAssumption, View!FilesAssumption, View!FailAssumption,
      ViewFacts!RowsAssumption, ViewFacts!FilesAssumption, ViewFacts!FailAssumption
<1>4. ViewFacts!TypeOK'
  BY <1>1, <1>2, <1>3, ViewFacts!GetStringsType
<1> QED BY <1>4 DEF View!TypeOK, ViewFacts!TypeOK

\* The threads that have notified the window.
Notifiers == {k \in Ids : thread[k] \in {"drop", "clear", "done"}}

ViewTypes ==
    /\ lost \in BOOLEAN
    /\ buffer \in [from : Nat, len : Nat]
    /\ buffer_pos \in Nat /\ at \in Nat
    /\ prev_row_size \in Nat /\ next_row_size \in Nat
    /\ symbols_per_scroll \in Nat \ {0}
    /\ shown \in [kind : {"none", "text", "thrown", "outside"}, lo : Nat, hi : Nat]

\* Until there is a client the file is none of Files.
TypeInv ==
    /\ global_pos \in Nat /\ file_size \in Nat
    /\ window \in {0} \cup Ids
    /\ client_ptr # 0 => file \in Files
    /\ ViewTypes
    /\ notified <= Cardinality(Notifiers)

LEMMA TypeInit == Init => TypeInv
<1> SUFFICES ASSUME Init PROVE TypeInv
  OBVIOUS
<1>1. \A n \in Unwritten : n \in Nat
  BY SizeModAssumption DEF Unwritten
<1>2. Notifiers = {}
  BY DEF Init, Notifiers
<1>3. prev_row_size \in Nat /\ next_row_size \in Nat
  BY <1>1 DEF Init
<1>4. ViewTypes
  <2>1. buffer \in [from : Nat, len : Nat]
    BY DEF Init, View!Empty
  <2>2. shown \in [kind : {"none", "text", "thrown", "outside"}, lo : Nat, hi : Nat]
    BY DEF Init, View!Nothing
  <2>3. lost \in BOOLEAN
    BY DEF Init
  <2>4. buffer_pos \in Nat /\ at \in Nat /\ symbols_per_scroll \in Nat \ {0}
    BY DEF Init
  <2> QED BY <1>3, <2>1, <2>2, <2>3, <2>4 DEF ViewTypes
<1> QED BY <1>2, <1>4, FS_EmptySet DEF Init, TypeInv

LEMMA ViewTyped == TypeInv /\ client_ptr # 0 => View!TypeOK
  BY DEF TypeInv, ViewTypes, View!TypeOK

\* Everything that is sent is a position or leads to one.
LEMMA NewPosIsPosition ==
    ASSUME TypeInv, NEW m \in [code : Codes, n : Nat], m.code \notin {"other", "jump", "bad"}
    PROVE  NewPos(m, global_pos) \in Nat
<1>0. SizeMod \in Nat \ {0} /\ PageStep \in Nat
  BY SizeModAssumption, ViewerAssumption
<1>1. \A pos \in Nat : Below(pos) \in Nat
  BY DEF TypeInv, ViewTypes, Below
<1>2. \A pos, n \in Nat : (pos + n) % SizeMod \in Nat
  BY <1>0
<1>3. \A pos, n \in Nat : Back(pos, n) \in Nat
  BY DEF Back
<1>4. \A pos \in Nat : LineDown(pos) \in Nat
  BY <1>1, <1>2 DEF TypeInv, ViewTypes, LineDown
<1>5. m.n * symbols_per_scroll \in Nat
  BY DEF TypeInv, ViewTypes
<1>6. (m.n * symbols_per_scroll) % SizeMod \in Nat
  BY <1>0, <1>5
<1>7. m.code \in {"thumb", "pagedown", "pageup", "linedown", "lineup"}
  BY DEF Codes
<1> QED BY <1>0, <1>1, <1>2, <1>3, <1>4, <1>6, <1>7 DEF TypeInv, ViewTypes, NewPos

LEMMA NotifiersFinite == IsFiniteSet(Notifiers) /\ Cardinality(Notifiers) \in 0..Attempts
<1>1. IsFiniteSet(Ids) /\ Cardinality(Ids) = Attempts
  BY FS_Interval, AttemptsAssumption DEF Ids
<1>2. Notifiers \subseteq Ids
  BY DEF Notifiers
<1> QED BY <1>1, <1>2, FS_Subset, FS_CardinalityType, AttemptsAssumption


\* A step of a connecting thread adds to the notifiers, and takes none away.
LEMMA NotifiersGrow ==
    ASSUME IInv, NEW k \in Ids, Thread(k)
    PROVE  /\ Cardinality(Notifiers) <= Cardinality(Notifiers')
           /\ Reset(k) => Cardinality(Notifiers') = Cardinality(Notifiers) + 1
<1>1. \A j \in Ids \ {k} : thread'[j] = thread[j]
  BY DEF IInv, Types, Thread, Open, Lock, Swap, Reset, Drop, CloseThreadBox, ClearText
<1>2. k \in Notifiers => k \in Notifiers'
  BY DEF IInv, Types, Thread, Open, Lock, Swap, Reset, Drop, CloseThreadBox, ClearText, Notifiers
<1>3. Notifiers \subseteq Notifiers' /\ Notifiers' \subseteq Notifiers \cup {k}
  BY <1>1, <1>2 DEF Notifiers
<1>4. IsFiniteSet(Notifiers) /\ Cardinality(Notifiers) \in Nat
  BY NotifiersFinite, AttemptsAssumption
<1>5. Notifiers' = Notifiers \/ (k \notin Notifiers /\ Notifiers' = Notifiers \cup {k})
  BY <1>3
<1>6. Reset(k) => k \notin Notifiers /\ k \in Notifiers'
  BY DEF Reset, Notifiers, IInv, Types
<1>7. k \notin Notifiers => Cardinality(Notifiers \cup {k}) = Cardinality(Notifiers) + 1
  BY <1>4, FS_AddElement
<1>8. CASE Notifiers' = Notifiers
  <2>1. ~Reset(k) /\ Cardinality(Notifiers') = Cardinality(Notifiers)
    BY <1>6, <1>8
  <2> QED BY <1>4, <2>1
<1>9. CASE k \notin Notifiers /\ Notifiers' = Notifiers \cup {k}
  <2>1. Cardinality(Notifiers') = Cardinality(Notifiers) + 1
    BY <1>7, <1>9
  <2> QED BY <1>4, <2>1
<1> QED BY <1>5, <1>8, <1>9

LEMMA TypeNext == IInv /\ TypeInv /\ [Next]_vars => TypeInv'
<1> SUFFICES ASSUME IInv, TypeInv, [Next]_vars PROVE TypeInv'
  OBVIOUS
<1>0. Types /\ Cardinality(Notifiers) \in Nat
  BY NotifiersFinite, AttemptsAssumption DEF IInv
<1>1. CASE HandleScroll
  <2>1. Top \in Frames /\ Top.pc = "want"
    BY <1>0, <1>1, TopAndRest DEF Types, HandleScroll, Idle, Top
  <2>2. Top.msg \in [code : Codes, n : Nat]
    BY <2>1 DEF Frames
  <2>3. global_pos' \in Nat
    BY <1>1, <2>2, NewPosIsPosition DEF HandleScroll, TypeInv
  <2> QED BY <1>0, <1>1, <2>3 DEF HandleScroll, TypeInv, Types, threadVars, viewVars, ViewTypes, Notifiers
<1>2. CASE GoToOffset
  <2>1. Top \in Frames /\ Top.pc = "want"
    BY <1>0, <1>2, TopAndRest DEF Types, GoToOffset, Idle, Top
  <2>2. global_pos' \in Nat
    BY <1>2, <2>1 DEF Frames, GoToOffset, TypeInv
  <2> QED BY <1>2, <2>2 DEF GoToOffset, TypeInv, threadVars, viewVars, ViewTypes, Notifiers
<1>3. CASE ShowData
  <2>1. client_ptr # 0
    BY <1>0, <1>3, TopAndRest DEF IInv, LoadsHaveClient, At, Types, ShowData, Idle, Top
  <2>2. View!TypeOK'
    BY <1>3, <2>1, ViewTyped, GetStringsType DEF ShowData, TypeInv
  <2>3. UNCHANGED <<file, symbols_per_scroll>>
    BY <1>3 DEF ShowData, View!GetStringsForPos
  <2> QED BY <1>3, <2>2, <2>3 DEF ShowData, TypeInv, ViewTypes, View!TypeOK, threadVars, Notifiers
<1>4. CASE Dispatch
  <2>1. notified' <= Cardinality(Notifiers) /\ UNCHANGED thread
    BY <1>0, <1>4 DEF Dispatch, Types, TypeInv, threadVars
  <2> QED BY <1>4, <2>1 DEF Dispatch, TypeInv, viewVars, ViewTypes, Notifiers
<1>5. CASE CloseBox \/ \E m \in UserMessages : UserActs(m)
  BY <1>5 DEF CloseBox, UserActs, TypeInv, threadVars, viewVars, ViewTypes, Notifiers
<1>6. CASE Connect
  <2>1. Notifiers' = Notifiers
    BY <1>0, <1>6 DEF Connect, Types, Notifiers
  <2> QED BY <1>6, <2>1 DEF Connect, TypeInv, viewVars, ViewTypes
<1>7. ASSUME NEW k \in Ids, Swap(k) PROVE TypeInv'
  <2>1. /\ file' = remote[k] /\ lost' = FALSE /\ at' = 0 /\ shown' = View!Nothing
        /\ UNCHANGED <<global_pos, file_size, notified, window, buffer, buffer_pos,
                       prev_row_size, next_row_size, symbols_per_scroll>>
    BY <1>7 DEF Swap
  <2>2. file' \in Files
    BY <1>0, <2>1 DEF Types
  <2>3. ViewTypes'
    BY <2>1 DEF TypeInv, ViewTypes, View!Nothing
  <2>4. notified' <= Cardinality(Notifiers')
    <3>1. \A j \in Ids : thread[j] \in {"drop", "clear", "done"} <=>
                          thread'[j] \in {"drop", "clear", "done"}
      BY <1>0, <1>7 DEF Types, Swap
    <3>2. Notifiers' = Notifiers
      BY <3>1 DEF Notifiers
    <3> QED BY <2>1, <3>2 DEF TypeInv
  <2> QED BY <2>1, <2>2, <2>3, <2>4 DEF TypeInv
<1>8. ASSUME NEW k \in Ids, Reset(k) PROVE TypeInv'
  <2>1. file \in Files /\ file.size \in Nat
    BY <1>8, Positive DEF Reset, IInv, CopiesAgree, Resetting, TypeInv
  <2>2. View!Resolution(file.size) \in Nat \ {0}
    BY <2>1, StepsAreFew
  <2>3. /\ file_size' = file.size /\ symbols_per_scroll' = View!Resolution(file.size)
        /\ buffer_pos' = 0 /\ prev_row_size' = 0 /\ next_row_size' = 0
        /\ buffer' = View!Empty
        /\ global_pos' = 0 /\ notified' = notified + 1
        /\ UNCHANGED <<window, file, lost, at, shown>>
    BY <1>8 DEF Reset, View!ResetPosition
  <2>4. ViewTypes'
    BY <2>2, <2>3 DEF TypeInv, ViewTypes, View!Empty
  <2>5. notified' <= Cardinality(Notifiers')
    BY <1>0, <1>8, <2>3, NotifiersGrow DEF Thread, TypeInv, Types
  <2> QED BY <2>1, <2>3, <2>4, <2>5 DEF TypeInv
<1>9. ASSUME NEW k \in Ids, Elsewhere(k) PROVE TypeInv'
  <2>1. UNCHANGED <<dialogVars, viewVars>>
    BY <1>9 DEF Elsewhere, Open, Lock, Drop, CloseThreadBox, ClearText
  <2>2. Cardinality(Notifiers') \in Nat /\ Cardinality(Notifiers) <= Cardinality(Notifiers')
    <3>1. IsFiniteSet(Ids) /\ Notifiers' \subseteq Ids
      BY FS_Interval, AttemptsAssumption DEF Ids, Notifiers
    <3>2. Cardinality(Notifiers') \in Nat
      BY <3>1, FS_Subset, FS_CardinalityType
    <3>3. Thread(k)
      BY <1>9 DEF Elsewhere, Thread
    <3> QED BY <3>2, <3>3, NotifiersGrow
  <2>3. notified' <= Cardinality(Notifiers')
    BY <1>0, <2>1, <2>2 DEF dialogVars, TypeInv, Types
  <2> QED BY <2>1, <2>3 DEF dialogVars, viewVars, TypeInv, ViewTypes
<1>10. CASE UNCHANGED vars
  BY <1>10 DEF vars, TypeInv, threadVars, viewVars, ViewTypes, Notifiers
<1> QED BY <1>1, <1>2, <1>3, <1>4, <1>5, <1>6, <1>7, <1>8, <1>9, <1>10, ThreadsDo
        DEF Next, Window

\* Type correctness of Viewer, whatever the user types and however loads fail: no
\* position and no size of a row goes below zero, and no more notifications are
\* under way than connections were made.
THEOREM TypeCorrect == Spec => []TypeOK
<1>1. IInv /\ TypeInv => TypeOK
  <2> SUFFICES ASSUME IInv, TypeInv PROVE TypeOK
    OBVIOUS
  <2>1. notified \in 0..Attempts
    BY NotifiersFinite, AttemptsAssumption DEF IInv, Types, TypeInv
  <2>2. ASSUME NEW i \in DOMAIN stack
        PROVE  stack[i].pc \in {"want", "load", "box", "refuse", "sorry"}
    <3>1. stack[i] \in Frames
      BY LenProperties, ElementOfSeq DEF IInv, Types
    <3> QED BY <3>1 DEF Frames
  <2> QED BY <2>1, <2>2 DEF IInv, Types, TypeInv, ViewTypes, TypeOK
<1> QED BY <1>1, TypeInit, TypeNext, Invariance, PTL DEF Spec


-----------------------------------------------------------------------------
(***************************************************************************)
(* The position comes back into the file.                                  *)
(***************************************************************************)

Notification == Frame("want", Msg("thumb", 0))

\* A message never waits under another handler.
TopWaits == stack # <<>> => \A f \in Of(Tail(stack)) : f.pc # "want"

\* A position outside the file, and a thumb that would lead to one, are of a client
\* that is gone: the notification that leads back to 0 is still to be sent or handled.
ScrollInv ==
    /\ TopWaits
    /\ global_pos <= file_size \/ notified > 0 \/ Notification \in Of(stack)
    /\ \A f \in Of(stack) : f.pc = "want" /\ f.msg.code = "thumb" =>
          f.msg.n * symbols_per_scroll <= file_size \/ notified > 0 \/ Resetting

LEMMA TailOfPush ==
    ASSUME NEW s \in Seq(Frames), NEW f \in Frames
    PROVE  Tail(<<f>> \o s) = s
  OBVIOUS

\* A handler that waits is the top.
LEMMA WaitingIsTop ==
    ASSUME Types, TopWaits, NEW f \in Of(stack), f.pc = "want"
    PROVE  stack # <<>> /\ f = Top
  BY NoHandlers, TopAndRest DEF Types, TopWaits, Top

\* The stack after a step that pushes, or changes its top when nothing waits behind.
LEMMA PushWaits ==
    ASSUME Types, TopWaits, Pumps, NEW f \in Frames, Push(f)
    PROVE  TopWaits' /\ \A g \in Of(stack') : g.pc = "want" => g = f
<1>1. \A g \in Of(stack) : g.pc # "want"
  BY NoHandlers, WaitingIsTop DEF Pumps, Idle, InBox
<1>2. Tail(stack') = stack /\ Of(stack') = {f} \cup Of(stack)
  BY PushAdds, TailOfPush DEF Types, Push
<1> QED BY <1>1, <1>2 DEF TopWaits

LEMMA BecomeWaits ==
    ASSUME Types, TopWaits, stack # <<>>, NEW f \in Frames, f.pc # "want", Become(f)
    PROVE  TopWaits' /\ \A g \in Of(stack') : g.pc # "want"
<1>1. Tail(stack) \in Seq(Frames) /\ \A g \in Of(Tail(stack)) : g.pc # "want"
  BY TopAndRest DEF Types, TopWaits
<1>2. Tail(stack') = Tail(stack) /\ Of(stack') = {f} \cup Of(Tail(stack))
  BY <1>1, PushAdds, TailOfPush DEF Become
<1> QED BY <1>1, <1>2 DEF TopWaits

LEMMA PopWaits ==
    ASSUME Types, TopWaits, stack # <<>>, Pop
    PROVE  TopWaits' /\ \A g \in Of(stack') : g.pc # "want"
<1>1. stack' \in Seq(Frames) /\ \A g \in Of(stack') : g.pc # "want"
  BY TopAndRest DEF Types, TopWaits, Pop
<1>2. stack' # <<>> => Of(Tail(stack')) \subseteq Of(stack')
  BY <1>1, TopAndRest
<1> QED BY <1>1, <1>2 DEF TopWaits


\* From a position of the file every message leads to one, unless its thumb is stale.
LEMMA NewPosInFile ==
    ASSUME TypeInv, NEW m \in [code : Codes, n : Nat], m.code \notin {"other", "jump", "bad"},
           IF m.code = "thumb" THEN m.n * symbols_per_scroll <= file_size
           ELSE global_pos <= file_size
    PROVE  NewPos(m, global_pos) <= file_size
<1>0. SizeMod \in Nat \ {0} /\ PageStep \in Nat
  BY SizeModAssumption, ViewerAssumption
<1>1. \A pos \in Nat : Below(pos) <= file_size
  BY DEF TypeInv, ViewTypes, Below
<1>2. \A pos, n \in Nat : (pos + n) % SizeMod \in Nat
  BY <1>0
<1>3. \A pos, n \in Nat : Back(pos, n) \in Nat /\ Back(pos, n) <= pos
  BY DEF Back
<1>4. \A pos \in Nat : LineDown(pos) <= file_size
  BY <1>1, <1>2 DEF TypeInv, ViewTypes, LineDown
<1>5. ASSUME m.code = "thumb" PROVE (m.n * symbols_per_scroll) % SizeMod <= file_size
  <2> DEFINE x == m.n * symbols_per_scroll
  <2>1. x \in Nat /\ x <= file_size
    BY <1>5 DEF TypeInv, ViewTypes
  <2> HIDE DEF x
  <2>2. x % SizeMod <= x /\ x % SizeMod \in Nat
    BY <1>0, <2>1
  <2>3. x % SizeMod <= file_size
    BY <2>1, <2>2 DEF TypeInv, ViewTypes
  <2> QED BY <2>3 DEF x
<1>6. m.code \in {"thumb", "pagedown", "pageup", "linedown", "lineup"}
  BY DEF Codes
<1>7. CASE m.code = "thumb"
  BY <1>5, <1>7 DEF NewPos
<1>8. CASE m.code = "lineup"
  <2>1. Back(global_pos, prev_row_size) \in Nat /\ Back(global_pos, prev_row_size) <= global_pos
    BY <1>3 DEF TypeInv, ViewTypes
  <2>2. Back(global_pos, prev_row_size) <= file_size
    BY <1>8, <2>1 DEF TypeInv, ViewTypes
  <2> QED BY <1>8, <2>2 DEF NewPos
<1>9. CASE m.code \in {"pagedown", "pageup", "linedown"}
  BY <1>0, <1>1, <1>2, <1>3, <1>4, <1>9 DEF TypeInv, ViewTypes, NewPos
<1> QED BY <1>6, <1>7, <1>8, <1>9

LEMMA NothingWaits ==
    ASSUME TopWaits', \A g \in Of(stack') : g.pc # "want",
           global_pos' <= file_size' \/ notified' > 0
    PROVE  ScrollInv'
  BY DEF ScrollInv

LEMMA ScrollKeepsPlace ==
    ASSUME OnlyScrolls, IInv, TypeInv, ScrollInv, HandleScroll
    PROVE  ScrollInv'
<1>0. Types /\ TopWaits /\ stack # <<>> /\ UNCHANGED <<file_size, notified>>
  BY DEF IInv, ScrollInv, HandleScroll, Idle
<1>1. /\ Top \in Of(stack) /\ Top.pc = "want"
      /\ Top.msg \in [code : Codes, n : Nat] /\ Top.msg.code \notin {"jump", "bad"}
  BY <1>0, TopAndRest DEF Types, HandleScroll, Top, Frames
<1>2. Notification \in Of(stack) => Top.msg.code = "thumb"
  BY <1>0, WaitingIsTop DEF Notification, Frame, Msg
<1>3. CASE Top.msg.code = "other"
  <2>1. Pop /\ UNCHANGED global_pos
    BY <1>3 DEF HandleScroll
  <2>2. global_pos' <= file_size' \/ notified' > 0
    BY <1>0, <1>2, <1>3, <2>1 DEF ScrollInv
  <2> QED BY <1>0, <2>1, <2>2, PopWaits, NothingWaits
<1>4. CASE Top.msg.code # "other"
  <2>1. PICK f \in Frames : f.pc # "want" /\ Become(f)
    BY <1>4, FramesAre DEF HandleScroll, ToShowData, Frame
  <2>2. global_pos' = NewPos(Top.msg, global_pos)
    BY <1>4 DEF HandleScroll
  <2> ~Resetting
    BY DEF HandleScroll, Free, ThreadHolds, Resetting
  <2>3. notified > 0
        \/ IF Top.msg.code = "thumb" THEN Top.msg.n * symbols_per_scroll <= file_size
           ELSE global_pos <= file_size
    BY <1>1, <1>2 DEF ScrollInv
  <2>4. global_pos' <= file_size' \/ notified' > 0
    BY <1>0, <1>1, <1>4, <2>2, <2>3, NewPosInFile
  <2> QED BY <1>0, <2>1, <2>4, BecomeWaits, NothingWaits
<1> QED BY <1>3, <1>4

\* A position of the thumb leads into the file of the window it is of.
LEMMA ThumbInRange ==
    ASSUME IInv, TypeInv, ~Resetting, window = client_ptr, NEW m \in UserMessages, m.code = "thumb"
    PROVE  m.n \in Nat /\ m.n * symbols_per_scroll <= file_size
<1>1. PICK n \in ThumbRange : m = Msg("thumb", n % ThumbMod)
  BY ViewerAssumption DEF UserMessages, Msg
<1>2. ThumbMod \in Nat \ {0}
  BY Positive, ThumbAssumption
<1>3. n \in Nat
  BY <1>1 DEF ThumbRange
<1>4. m.n \in Nat /\ m.n <= n
  BY <1>1, <1>2, <1>3 DEF Msg
<1>5. CASE window = 0
  <2>1. m.n = 0
    BY <1>3, <1>4, <1>5 DEF ThumbRange
  <2> QED BY <2>1 DEF TypeInv, ViewTypes
<1>6. CASE window # 0
  <2> DEFINE size == remote[client_ptr].size
             r    == symbols_per_scroll
             s    == size \div r
  <2>1. size \in Nat
    BY <1>6, Positive DEF IInv, Types
  <2>2. file_size = size /\ r = View!Resolution(size)
    BY <1>6 DEF IInv, CopiesAgree, size, r
  <2>3. n \in 0..s
    BY <1>1, <1>6, <2>2 DEF ThumbRange
  <2> HIDE DEF size, r
  <2>4. r \in Nat \ {0}
    BY DEF TypeInv, ViewTypes, r
  <2>5. s \in Nat /\ s * r \in Nat /\ s * r <= size
    BY <2>1, <2>4, Quotient
  <2> HIDE DEF s
  <2>6. m.n * r <= s * r /\ m.n * r \in Nat
    BY <1>4, <2>3, <2>4, <2>5, Product
  <2>7. m.n * r <= size
    BY <2>1, <2>5, <2>6
  <2> QED BY <1>4, <2>2, <2>7 DEF r
<1> QED BY <1>5, <1>6


LEMMA ScrollNext ==
    OnlyScrolls /\ IInv /\ TypeInv /\ ShownInv /\ ScrollInv /\ [Next]_vars => ScrollInv'
<1> SUFFICES ASSUME OnlyScrolls, IInv, TypeInv, ShownInv, ScrollInv, [Next]_vars
             PROVE  ScrollInv'
  OBVIOUS
<1>0. Types /\ TopWaits
  BY DEF IInv, ScrollInv
<1>1. CASE HandleScroll
  BY <1>1, ScrollKeepsPlace
<1>2. CASE GoToOffset
  BY <1>0, <1>2, TopAndRest DEF Types, GoToOffset, Idle, Top, ShownInv
<1>3. CASE CloseBox \/ ShowData
  <2>1. stack # <<>> /\ Top.pc # "want" /\ UNCHANGED <<global_pos, file_size, notified>>
    BY <1>3 DEF CloseBox, InBox, ShowData, Idle
  <2>2. Notification \notin Of(stack)
    BY <1>0, <2>1, WaitingIsTop DEF Notification, Frame
  <2>3. global_pos' <= file_size' \/ notified' > 0
    BY <2>1, <2>2 DEF ScrollInv
  <2>4. CASE Pop
    BY <1>0, <2>1, <2>3, <2>4, PopWaits, NothingWaits
  <2>5. CASE Become(Frame("box", NoMsg))
    <3>1. Frame("box", NoMsg) \in Frames /\ Frame("box", NoMsg).pc # "want"
      BY FramesAre DEF Frame
    <3> QED BY <1>0, <2>1, <2>3, <2>5, <3>1, BecomeWaits, NothingWaits
  <2> QED BY <1>3, <2>4, <2>5 DEF CloseBox, ShowData
<1>4. CASE Dispatch
  <2>1. Pumps /\ Push(Notification) /\ Notification \in Frames
    BY <1>4, FramesAre DEF Dispatch, Notification
  <2>2. TopWaits' /\ \A g \in Of(stack') : g.pc = "want" => g = Notification
    BY <1>0, <2>1, PushWaits
  <2>3. Notification \in Of(stack')
    BY <1>0, <2>1, PushGains
  <2>4. file_size' \in Nat /\ symbols_per_scroll' \in Nat
    BY <1>4 DEF Dispatch, TypeInv, ViewTypes, viewVars
  <2>5. Notification.msg.n * symbols_per_scroll' <= file_size'
    BY <2>4 DEF Notification, Frame, Msg
  <2> QED BY <2>2, <2>3, <2>5 DEF ScrollInv
<1>5. ASSUME NEW m \in UserMessages, UserActs(m) PROVE ScrollInv'
  <2>1. Pumps /\ Push(Frame("want", m)) /\ Frame("want", m) \in Frames
        /\ UNCHANGED <<global_pos, file_size, notified, symbols_per_scroll>>
    BY <1>5, FramesAre DEF UserActs, Pumps, viewVars
  <2>2. TopWaits' /\ \A g \in Of(stack') : g.pc = "want" => g = Frame("want", m)
    BY <1>0, <2>1, PushWaits
  <2>3. Of(stack) \subseteq Of(stack')
    BY <1>0, <2>1, PushGains
  <2>4. m.code = "thumb" =>
            m.n * symbols_per_scroll <= file_size \/ notified > 0 \/ Resetting
    <3>1. ~Waiting
      BY <1>5, NoHandlers DEF UserActs, Idle, Waiting
    <3>2. window = client_ptr \/ notified > 0 \/ Resetting
      BY <3>1 DEF ShownInv
    <3> QED BY <3>2, ThumbInRange
  <2>5. Resetting' = Resetting
    BY <1>5, SameResetting DEF UserActs, threadVars
  <2> QED BY <2>1, <2>2, <2>3, <2>4, <2>5 DEF ScrollInv, Frame
<1>6. CASE Connect
  <2>1. UNCHANGED <<global_pos, file_size, notified, symbols_per_scroll>>
    BY <1>6 DEF Connect, viewVars
  <2>2. CASE UNCHANGED stack
    BY <1>6, <2>1, <2>2, SameResetting DEF ScrollInv, TopWaits
  <2>3. CASE UNCHANGED thread
    <3>1. PICK pc \in {"sorry", "refuse"} : Push(Frame(pc, NoMsg))
      BY <1>0, <1>6, <2>3 DEF Connect, Types, Steps
    <3>2. Frame(pc, NoMsg) \in Frames /\ Frame(pc, NoMsg).pc # "want" /\ Pumps
      BY <1>6, FramesAre DEF Connect, Frame, Pumps
    <3>3. TopWaits' /\ \A g \in Of(stack') : g.pc # "want"
      BY <1>0, <3>1, <3>2, PushWaits
    <3>4. Notification \notin Of(stack)
      BY <1>6, NoHandlers DEF Connect, Idle
    <3>5. global_pos' <= file_size' \/ notified' > 0
      BY <2>1, <3>4 DEF ScrollInv
    <3> QED BY <3>3, <3>5, NothingWaits
  <2> QED BY <1>6, <2>2, <2>3 DEF Connect
<1>7. ASSUME NEW k \in Ids, Swap(k) PROVE ScrollInv'
  <2>1. UNCHANGED <<stack, global_pos, file_size, notified>>
        /\ thread' = [thread EXCEPT ![k] = "reset"]
    BY <1>7 DEF Swap
  <2>2. Resetting'
    BY <1>0, <2>1 DEF Types, Resetting
  <2> QED BY <2>1, <2>2 DEF ScrollInv, TopWaits, Of
<1>8. ASSUME NEW k \in Ids, Reset(k) PROVE ScrollInv'
  <2>1. UNCHANGED stack /\ notified' = notified + 1
    BY <1>8 DEF Reset
  <2>2. notified' > 0
    BY <1>0, <2>1 DEF Types
  <2> QED BY <1>0, <2>1, <2>2 DEF ScrollInv, TopWaits
<1>9. ASSUME NEW k \in Ids, Elsewhere(k) PROVE ScrollInv'
  <2>1. UNCHANGED <<dialogVars, symbols_per_scroll>>
    BY <1>9 DEF Elsewhere, Open, Lock, Drop, CloseThreadBox, ClearText, viewVars
  <2>2. Resetting' = Resetting
    BY <1>9, SameResetting
  <2> QED BY <2>1, <2>2 DEF dialogVars, ScrollInv, TopWaits
<1>10. CASE UNCHANGED vars
  BY <1>10, SameResetting DEF vars, threadVars, viewVars, ScrollInv, TopWaits
<1> QED BY <1>1, <1>2, <1>3, <1>4, <1>5, <1>6, <1>7, <1>8, <1>9, <1>10, ThreadsDo
        DEF Next, Window

\* ScrollStaysInFile: a move of the thumb meant for one file, handled when the next
\* has been connected, may lead outside the file, but not for long; provided the user
\* goes to no offset, which is not limited to the file.
THEOREM ScrollStays ==
    ASSUME OnlyScrolls PROVE Spec => []ScrollStaysInFile
<1>1. Init => ShownInv /\ ScrollInv
  BY NoHandlers DEF Init, ShownInv, ScrollInv, TopWaits
<1>2. ScrollInv => ScrollStaysInFile
  BY NoHandlers DEF ScrollInv, ScrollStaysInFile, Quiet, Idle
<1>3. IInv /\ TypeInv /\ ShownInv /\ ScrollInv /\ [Next]_vars => ShownInv' /\ ScrollInv'
  BY ShownNext, ScrollNext, OnlyScrolls
<1> QED BY <1>1, <1>2, <1>3, TypeInit, TypeNext, Invariance, PTL DEF Spec



-----------------------------------------------------------------------------
(***************************************************************************)
(* What the window shows, end to end: FileViewProofs says that a view of   *)
(* one file is right after any sequence of positions; here the positions   *)
(* come from the user and from notifications, and the file changes under   *)
(* the view whenever a connecting thread swaps its client.                 *)
(***************************************************************************)

\* The view of a client is in step with its buffer, whatever was asked of it, and no
\* handler but one that is about to load leaves the dialog's position unshown.
TextInv ==
    /\ client_ptr = 0 => shown = View!Nothing
    /\ client_ptr # 0 /\ ~Resetting => ViewFacts!Inv
    /\ Resetting => shown = View!Nothing
    /\ shown.kind # "none" /\ ~At("load") => at = Below(global_pos)

LEMMA TextInit == Init => TextInv
  BY DEF Init, TextInv, Resetting, View!Nothing

\* What FileViewProofs assumes of its constants holds of those of the dialog.
LEMMA FactsApply ==
    /\ ViewFacts!BlockSizeAssumption /\ ViewFacts!SizeModAssumption
    /\ ViewFacts!RowsAssumption /\ ViewFacts!FilesAssumption /\ ViewFacts!FailAssumption
<1>1. ViewFacts!BlockSizeAssumption /\ ViewFacts!SizeModAssumption
  BY BlockSizeAssumption, SizeModAssumption
  DEF ViewFacts!BlockSizeAssumption, ViewFacts!SizeModAssumption
<1>2. ViewFacts!RowsAssumption /\ ViewFacts!FilesAssumption /\ ViewFacts!FailAssumption
  BY ViewAssumption
  DEF View!RowsAssumption, View!FilesAssumption, View!FailAssumption,
      ViewFacts!RowsAssumption, ViewFacts!FilesAssumption, ViewFacts!FailAssumption
<1> QED BY <1>1, <1>2

\* A handler's load keeps the view in step.
LEMMA LoadKeepsView ==
    ASSUME ViewFacts!SmallSteps, ViewFacts!Inv, NEW p \in Nat, View!GetStringsForPos(p)
    PROVE  ViewFacts!Inv'
<1>1. ViewFacts!GetStringsForPos(p)
  BY SameView
<1> QED BY <1>1, FactsApply, ViewFacts!GetStringsInv

\* A step that leaves the view and the position, and no load undone.
LEMMA TextKept ==
    ASSUME TextInv, UNCHANGED <<viewVars, global_pos, file_size, client_ptr>>,
           Resetting' = Resetting,
           At("load") => At("load")'
    PROVE  TextInv'
<1>1. ViewFacts!Inv => ViewFacts!Inv'
  <2>1. UNCHANGED ViewFacts!vars
    BY DEF viewVars, ViewFacts!vars
  <2> QED BY <2>1, FactsApply, ViewFacts!SameInv
<1>2. UNCHANGED <<shown, at, global_pos, file_size, client_ptr>>
  BY DEF viewVars
<1>3. Below(global_pos)' = Below(global_pos)
  BY <1>2 DEF Below
<1> QED BY <1>1, <1>2, <1>3 DEF TextInv

\* The handler that ends or goes on was not at its load.
LEMMA LoadStays ==
    ASSUME Types, stack # <<>>, Top.pc # "load",
           \/ Pop
           \/ \E f \in Frames : Become(f)
    PROVE  At("load") => At("load")'
<1>1. Of(stack) \subseteq {Top} \cup Of(stack')
  BY PopLoses, BecomeGains
<1> QED BY <1>1 DEF At

\* The handler goes on to show_data: it finds no client, or loads.
LEMMA ToShowDataLoads ==
    ASSUME IInv, stack # <<>>, ToShowData
    PROVE  client_ptr = 0 \/ At("load")'
<1>1. CASE client_ptr # 0
  <2>1. Become(Frame("load", NoMsg))
    BY <1>1 DEF ToShowData
  <2>2. Frame("load", NoMsg) \in Of(stack')
    <3>1. Tail(stack) \in Seq(Frames) /\ Frame("load", NoMsg) \in Frames
      BY FramesAre, TopAndRest DEF IInv, Types
    <3>2. Of(<<Frame("load", NoMsg)>> \o Tail(stack)) =
              {Frame("load", NoMsg)} \cup Of(Tail(stack))
      BY <3>1, PushAdds
    <3> QED BY <2>1, <3>2 DEF Become
  <2> QED BY <2>2 DEF At, Frame
<1> QED BY <1>1

LEMMA TextNext ==
    ASSUME ViewFacts!SmallSteps, IInv, TypeInv, TextInv, [Next]_vars
    PROVE  TextInv'
<1>0. Types
  BY DEF IInv
<1> USE SameResetting DEF threadVars
<1>1. CASE HandleScroll
  <2>1. UNCHANGED <<viewVars, file_size, client_ptr, thread>> /\ Top.pc = "want" /\ stack # <<>>
    BY <1>1 DEF HandleScroll, Idle
  <2>2. CASE Pop /\ UNCHANGED global_pos
    BY <1>0, <2>1, <2>2, LoadStays, TextKept
  <2>3. CASE ToShowData
    <3>1. client_ptr = 0 \/ At("load")'
      BY <2>1, <2>3, ToShowDataLoads
    <3>2. ViewFacts!Inv => ViewFacts!Inv'
      BY <2>1, FactsApply, ViewFacts!SameInv DEF viewVars, ViewFacts!vars
    <3> QED BY <2>1, <3>1, <3>2 DEF TextInv, viewVars, View!Nothing
  <2> QED BY <1>1, <2>2, <2>3 DEF HandleScroll
<1>2. CASE GoToOffset
  <2>1. UNCHANGED <<viewVars, file_size, client_ptr, thread>> /\ Top.pc = "want" /\ stack # <<>>
    BY <1>2 DEF GoToOffset, Idle
  <2>2. CASE Become(Frame("box", NoMsg)) /\ UNCHANGED global_pos
    BY <1>0, <2>1, <2>2, FramesAre, LoadStays, TextKept
  <2>3. CASE ToShowData
    <3>1. client_ptr = 0 \/ At("load")'
      BY <2>1, <2>3, ToShowDataLoads
    <3>2. ViewFacts!Inv => ViewFacts!Inv'
      BY <2>1, FactsApply, ViewFacts!SameInv DEF viewVars, ViewFacts!vars
    <3> QED BY <2>1, <3>1, <3>2 DEF TextInv, viewVars, View!Nothing
  <2> QED BY <1>2, <2>2, <2>3 DEF GoToOffset
<1>3. CASE ShowData
  <2>1. client_ptr # 0
    BY <1>0, <1>3, TopAndRest DEF IInv, LoadsHaveClient, At, Types, ShowData, Idle, Top
  <2> ~Resetting /\ UNCHANGED <<thread, client_ptr>>
    <3>1. At("load")
      BY <1>0, <1>3, TopAndRest DEF At, Types, ShowData, Idle, Top
    <3> QED BY <1>3, <3>1 DEF IInv, Mutex, ThreadHolds, Resetting, ShowData
  <2>2. ViewFacts!Inv'
    BY <1>3, <2>1, LoadKeepsView DEF ShowData, TypeInv, TextInv
  <2>3. at' = Below(global_pos)'
    <3>1. file_size = file.size
      BY <2>1 DEF IInv, CopiesAgree
    <3>2. /\ at' = IF global_pos > file.size THEN file.size ELSE global_pos
          /\ UNCHANGED <<global_pos, file_size>>
      BY <1>3 DEF ShowData, View!GetStringsForPos
    <3> QED BY <3>1, <3>2 DEF Below
  <2> QED BY <1>3, <2>1, <2>2, <2>3 DEF ShowData, TextInv
<1>4. CASE CloseBox
  <2>1. UNCHANGED <<viewVars, global_pos, file_size, client_ptr, thread>>
        /\ Pop /\ Top.pc # "load" /\ stack # <<>>
    BY <1>4 DEF CloseBox, InBox
  <2> QED BY <1>0, <2>1, LoadStays, TextKept
<1>5. CASE Connect \/ Dispatch \/ \E m \in UserMessages : UserActs(m)
  <2>1. UNCHANGED <<viewVars, global_pos, file_size, client_ptr>>
    BY <1>5 DEF Connect, Dispatch, UserActs
  <2>2. UNCHANGED stack \/ \E f \in Frames : Push(f)
    <3>1. CASE Connect
      BY <3>1, FramesAre DEF Connect
    <3>2. CASE Dispatch
      BY <3>2, FramesAre DEF Dispatch
    <3>3. CASE \E m \in UserMessages : UserActs(m)
      BY <3>3, FramesAre DEF UserActs
    <3> QED BY <1>5, <3>1, <3>2, <3>3
  <2>3. Of(stack) \subseteq Of(stack')
    BY <1>0, <2>2, PushGains
  <2>4. Resetting' = Resetting
    BY <1>5 DEF Dispatch, UserActs
  <2> QED BY <2>1, <2>3, <2>4, TextKept DEF At
<1>6. ASSUME NEW k \in Ids, Swap(k) PROVE TextInv'
  <2>1. client_ptr' = k /\ k # 0 /\ shown' = View!Nothing
        /\ thread' = [thread EXCEPT ![k] = "reset"]
    BY <1>6 DEF Swap, Ids
  <2>2. Resetting'
    BY <1>0, <2>1 DEF Types, Resetting
  <2> QED BY <2>1, <2>2 DEF TextInv, View!Nothing
<1>7. ASSUME NEW k \in Ids, Reset(k) PROVE TextInv'
  <2>1. /\ symbols_per_scroll' = View!Resolution(file.size)
        /\ buffer' = View!Empty /\ buffer_pos' = 0
        /\ UNCHANGED <<client_ptr, file, lost, at, shown>>
    BY <1>7 DEF Reset, View!ResetPosition
  <2>2. Resetting
    BY <1>7 DEF Reset, Resetting
  <2>3. client_ptr # 0 /\ shown = View!Nothing
    BY <2>2 DEF IInv, CopiesAgree, TextInv
  <2>4. View!TypeOK'
    <3>1. TypeInv'
      BY TypeNext
    <3> QED BY <2>1, <2>3, <3>1 DEF TypeInv, ViewTypes, View!TypeOK
  <2>5. ViewFacts!Inv'
    BY <2>1, <2>3, <2>4
    DEF View!TypeOK, ViewFacts!TypeOK, ViewFacts!Inv, ViewFacts!Sound, View!Nothing,
        ViewFacts!ReadsStayInLoaded, ViewFacts!ReadsStayInBuffer,
        ViewFacts!ShowsPosition, ViewFacts!ShowsEnoughRows, View!Resolution,
        ViewFacts!Resolution, View!Empty, ViewFacts!Empty
  <2> QED BY <2>1, <2>3, <2>5 DEF TextInv, View!Nothing
<1>8. ASSUME NEW k \in Ids, Elsewhere(k) PROVE TextInv'
  <2>1. UNCHANGED <<dialogVars, viewVars>>
    BY <1>8 DEF Elsewhere, Open, Lock, Drop, CloseThreadBox, ClearText
  <2> QED BY <1>8, <2>1, TextKept DEF dialogVars, At, Of
<1>9. CASE UNCHANGED vars
  BY <1>9, TextKept DEF vars, At, Of
<1> QED
  BY <1>1, <1>2, <1>3, <1>4, <1>5, <1>6, <1>7, <1>8, <1>9, ThreadsDo DEF Next, Window

LEMMA TextAlways == ASSUME ViewFacts!SmallSteps PROVE Spec => [](IInv /\ TextInv)
<1>1. IInv /\ TypeInv /\ TextInv /\ [Next]_vars => TextInv'
  BY TextNext, ViewFacts!SmallSteps
<1> QED BY <1>1, TextInit, TypeInit, TypeNext, Invariance, PTL DEF Spec

\* WindowShowsFile for every user, every number of connections, every file and block
\* size, if the moves of the scroll bar are small beside a block: whatever order
\* scrolls, offsets, notifications and swaps come in, the rows shown are those of the
\* connection's file at the dialog's position.
THEOREM WindowIsRight ==
    ASSUME ViewFacts!SmallSteps PROVE Spec => []WindowShowsFile
<1>1. IInv /\ TextInv => WindowShowsFile
  <2>1. SUFFICES ASSUME IInv, TextInv, ~lost, shown.kind = "text",
                        \A i \in DOMAIN stack : stack[i].pc # "load"
                 PROVE  /\ at = Below(global_pos)
                        /\ file = remote[client_ptr]
                        /\ View!ShowsPosition /\ View!ShowsEnoughRows
    BY DEF WindowShowsFile
  <2>2. client_ptr # 0 /\ ~Resetting
    BY <2>1 DEF TextInv, View!Nothing
  <2>3. ~At("load")
    BY <2>1 DEF At, Of
  <2>4. ViewFacts!ShowsPosition /\ ViewFacts!ShowsEnoughRows
    BY <2>1, <2>2 DEF TextInv, ViewFacts!Inv, ViewFacts!Sound
  <2>5. View!ShowsPosition /\ View!ShowsEnoughRows
    BY <2>4 DEF View!ShowsPosition, ViewFacts!ShowsPosition, View!ShowsEnoughRows,
                ViewFacts!ShowsEnoughRows, View!Cardinality, ViewFacts!Cardinality
  <2> QED BY <2>1, <2>2, <2>3, <2>5 DEF TextInv, IInv, CopiesAgree
<1> QED BY <1>1, TextAlways, ViewFacts!SmallSteps, PTL

\* ReadsStayInLoaded: until a load of the connection throws, get_strings_for_pos reads
\* outside the buffer only if nothing of the connection has been loaded yet.
THEOREM ReadsAreLoaded ==
    ASSUME ViewFacts!SmallSteps PROVE Spec => []ReadsStayInLoaded
<1>1. TextInv => ReadsStayInLoaded
  BY DEF TextInv, ReadsStayInLoaded, View!ReadsStayInLoaded, View!ReadsStayInBuffer,
         ViewFacts!ReadsStayInLoaded, ViewFacts!ReadsStayInBuffer, View!Nothing,
         ViewFacts!Inv, ViewFacts!Sound
<1> QED BY <1>1, TextAlways, ViewFacts!SmallSteps, PTL
=============================================================================
