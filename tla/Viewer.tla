------------------------------- MODULE Viewer -------------------------------
(***************************************************************************)
(* The dialog CMFC_UIDlg (MFC_UIDlg.cpp): the thread of the window, the    *)
(* threads that open connections, and the recursive mutex between them.    *)
(* The text is the business of FileView, which is instantiated here on the *)
(* dialog's file_view; connections are those of Session, seen from above:  *)
(* opening and loading end, well or by an exception.                       *)
(*                                                                         *)
(* The window's thread runs one handler at a time, except that a message   *)
(* box inside a handler dispatches messages sent by other threads.  (It    *)
(* disables the dialog, so the user can do nothing else meanwhile.)        *)
(***************************************************************************)
EXTENDS Paging, Sequences, FiniteSets

CONSTANTS
    Rows, ScrollRange, Files, LoadsMayFail,  \* as in FileView
    Attempts,   \* bound: how often the user may start to connect
    PageStep,   \* 10000: the bytes of a page up or down
    ThumbMod,   \* 2^16: the range of the position in a scroll message
    Jumps,      \* the offsets the user may type
    BadInput    \* may the user type a port, a timeout or an offset that is no number?

ASSUME AttemptsAssumption == Attempts \in Nat
ASSUME ViewerAssumption   == PageStep \in Nat /\ Jumps \subseteq Nat /\ BadInput \in BOOLEAN
ASSUME ThumbAssumption    == ThumbMod \in Nat /\ 2 * ScrollRange <= ThumbMod

VARIABLES
    \* the dialog
    connecting_in_progress,
    global_pos, file_size,
    client_ptr,         \* the connection in file_view.client_ptr, 0 for none
    stack,              \* the handlers the window's thread is in, innermost first
    notified,           \* WM_VSCROLL notifications sent and not yet dispatched
    window,             \* the connection the scroll range and the titles are of
    \* the connecting threads
    thread,             \* of each attempt, see Steps
    alive,              \* the connections that exist
    remote,             \* the file of each connection
    dropped,            \* the connection each thread has swapped out
    \* file_view; symbols_per_scroll is also the dialog's copy of it
    file, lost, buffer, buffer_pos, prev_row_size, next_row_size,
    symbols_per_scroll, at, shown

viewVars   == <<buffer, buffer_pos, prev_row_size, next_row_size, symbols_per_scroll,
                file, lost, at, shown>>
threadVars == <<thread, alive, remote, dropped>>
vars == <<connecting_in_progress, global_pos, file_size, client_ptr, stack, notified,
          window, threadVars, viewVars>>

View == INSTANCE FileView

\* What FileView assumes of its constants holds of those it is given here.
ASSUME ViewAssumption == View!RowsAssumption /\ View!FilesAssumption /\ View!FailAssumption

Ids == 1..Attempts

\* "open": in T_client's constructor; "want": at the lock; "swap": it has the mutex;
\* "reset": it has swapped the client; "drop": unlocked; "box": in a message box;
\* "clear": about to clear the message of the window; "done": ended.
Steps == {"idle", "open", "want", "swap", "reset", "drop", "box", "clear", "done"}

\* A handler of the window's thread.  "want": at the lock with its message; "load":
\* in get_strings_for_pos; "box": in a message box, holding the mutex; "refuse" and
\* "sorry": in the boxes of OnBnClickedButton1, for a connection in progress and
\* for an exception.
Frame(pc, msg) == [pc |-> pc, msg |-> msg]
NoMsg == [code |-> "none", n |-> 0]
Msg(code, n) == [code |-> code, n |-> n]

\* What a size_t may hold that was never written (bound: the least and the greatest).
Unwritten == {0, SizeMod - 1}

\* T_file_view's constructor leaves the sizes of the rows unwritten.
Init ==
    /\ connecting_in_progress = FALSE
    /\ global_pos = 0 /\ file_size = 0
    /\ client_ptr = 0
    /\ stack = <<>>
    /\ notified = 0
    /\ window = 0
    /\ thread = [k \in Ids |-> "idle"]
    /\ alive = {}
    /\ remote \in [Ids -> Files]
    /\ dropped = [k \in Ids |-> 0]
    /\ file = [size |-> 0, rows |-> {}]
    /\ lost = FALSE
    /\ buffer = View!Empty
    /\ buffer_pos = 0
    /\ prev_row_size \in Unwritten /\ next_row_size \in Unwritten
    /\ symbols_per_scroll = 50
    /\ at = 0
    /\ shown = View!Nothing

-----------------------------------------------------------------------------

\* The mutex is recursive: whoever holds it may take it again.
UiHolds   == \E i \in DOMAIN stack : stack[i].pc \in {"load", "box"}
ThreadHolds == \E k \in Ids : thread[k] \in {"swap", "reset"}

Idle == stack = <<>>
Top  == Head(stack)
InBox == stack # <<>> /\ Top.pc \in {"box", "refuse", "sorry"}

\* The window's thread dispatches what other threads send: between two handlers,
\* and inside a message box.
Pumps == Idle \/ InBox

Push(frame)  == stack' = <<frame>> \o stack
Become(frame) == stack' = <<frame>> \o Tail(stack)
Pop          == stack' = Tail(stack)

-----------------------------------------------------------------------------
(***************************************************************************)
(* The window's thread.                                                    *)
(***************************************************************************)

\* OnBnClickedButton1.  The port and the timeout are converted first.
Connect ==
    /\ Idle
    /\ \/ /\ BadInput
          /\ Push(Frame("sorry", NoMsg))
          /\ UNCHANGED <<connecting_in_progress, thread>>
       \/ /\ connecting_in_progress
          /\ Push(Frame("refuse", NoMsg))
          /\ UNCHANGED <<connecting_in_progress, thread>>
       \/ /\ ~connecting_in_progress
          /\ \E k \in Ids :
              /\ thread[k] = "idle" /\ \A j \in 1..(k - 1) : thread[j] # "idle"
              /\ thread' = [thread EXCEPT ![k] = "open"]
          /\ connecting_in_progress' = TRUE
          /\ UNCHANGED stack
    /\ UNCHANGED <<global_pos, file_size, client_ptr, notified, window, alive, remote,
                   dropped, viewVars>>

\* The catch clauses of OnBnClickedButton1 reset the flag after their box.
CloseBox ==
    /\ InBox
    /\ Pop
    /\ connecting_in_progress' = (connecting_in_progress /\ Top.pc # "sorry")
    /\ UNCHANGED <<global_pos, file_size, client_ptr, notified, window, threadVars, viewVars>>

\* Mutant of ThumbRange: the range is the scroll bar's, whatever the file.
ThumbFixed == 0..ScrollRange

\* The range init_window gives the scroll bar: that of the connection it was for.
ThumbRange ==
    IF window = 0 THEN {0} ELSE 0..(remote[window].size \div View!Resolution(remote[window].size))

\* The user scrolls (OnVScroll; "other" is the end of a scroll), or goes to an offset
\* (OnBnClickedButton2).  A scroll message has 16 bits for the thumb's position.
UserMessages ==
    {Msg("thumb", n % ThumbMod) : n \in ThumbRange}
        \cup {Msg(c, 0) : c \in {"pagedown", "pageup", "linedown", "lineup", "other"}}
        \cup {Msg("jump", n) : n \in Jumps}
        \cup (IF BadInput THEN {Msg("bad", 0)} ELSE {})

UserActs(m) ==
    /\ Idle
    /\ Push(Frame("want", m))
    /\ UNCHANGED <<connecting_in_progress, global_pos, file_size, client_ptr, notified,
                   window, threadVars, viewVars>>

\* The notification of a new connection is dispatched: a thumb track to 0.
Dispatch ==
    /\ Pumps /\ notified > 0
    /\ Push(Frame("want", Msg("thumb", 0)))
    /\ notified' = notified - 1
    /\ UNCHANGED <<connecting_in_progress, global_pos, file_size, client_ptr, window,
                   threadVars, viewVars>>

\* Mutant of Below: the position is not limited.
Unlimited(pos) == pos

\* A position of the file at most its size.
Below(pos) == IF pos > file_size THEN file_size ELSE pos

LineDown(pos) == Below((pos + next_row_size) % SizeMod)

\* Mutant of Back: below the beginning the position wraps round.
BackBlindly(pos, n) == pos - n

Back(pos, n) == IF pos >= n THEN pos - n ELSE 0

\* Where a scroll message goes.  (A page up falls through to a line down.)
NewPos(m, pos) ==
    CASE m.code = "thumb"    -> (m.n * symbols_per_scroll) % SizeMod
      [] m.code = "pagedown" -> Below((pos + PageStep) % SizeMod)
      [] m.code = "pageup"   -> LineDown(Back(pos, PageStep))
      [] m.code = "linedown" -> LineDown(pos)
      [] m.code = "lineup"   -> Back(pos, prev_row_size)

\* Mutant of MustInit: the window is initialised for the first client only.
MustInitOnce == client_ptr # 0 /\ window = 0

\* OnVScroll initialises the window when it finds the view of a client unused.
MustInit == client_ptr # 0 /\ global_pos = 0 /\ buffer.len = 0

\* Mutant of Free: the window's thread does not look at the mutex.
Always == TRUE

\* No connecting thread is between lock and unlock.
Free == ~ThreadHolds

\* A handler that has taken the mutex goes on to show_data, which looks for a client.
ToShowData == Become(Frame(IF client_ptr = 0 THEN "box" ELSE "load", NoMsg))

\* OnVScroll gets the mutex.
HandleScroll ==
    /\ ~Idle /\ Top.pc = "want" /\ Top.msg.code \notin {"jump", "bad"}
    /\ Free
    /\ window' = IF MustInit THEN client_ptr ELSE window
    /\ IF Top.msg.code = "other" THEN Pop /\ UNCHANGED global_pos
       ELSE ToShowData /\ global_pos' = NewPos(Top.msg, global_pos)
    /\ UNCHANGED <<connecting_in_progress, file_size, client_ptr, notified, threadVars,
                   viewVars>>

\* OnBnClickedButton2 gets the mutex and converts the offset.
GoToOffset ==
    /\ ~Idle /\ Top.pc = "want"
    /\ Free
    /\ \/ /\ Top.msg.code = "jump"
          /\ global_pos' = Top.msg.n
          /\ ToShowData
       \/ /\ Top.msg.code = "bad"
          /\ Become(Frame("box", NoMsg))
          /\ UNCHANGED global_pos
    /\ UNCHANGED <<connecting_in_progress, file_size, client_ptr, notified, window,
                   threadVars, viewVars>>

\* Mutant of ShowData: a load that fails is tried again, and again.
ShowDataRetries ==
    /\ ~Idle /\ Top.pc = "load"
    /\ View!GetStringsForPos(global_pos)
    /\ IF shown'.kind = "text" THEN Pop ELSE UNCHANGED stack
    /\ UNCHANGED <<connecting_in_progress, global_pos, file_size, client_ptr, notified,
                   window, threadVars>>

\* get_strings_for_pos returns, or an exception is shown.
ShowData ==
    /\ ~Idle /\ Top.pc = "load"
    /\ View!GetStringsForPos(global_pos)
    /\ IF shown'.kind = "text" THEN Pop ELSE Become(Frame("box", NoMsg))
    /\ UNCHANGED <<connecting_in_progress, global_pos, file_size, client_ptr, notified,
                   window, threadVars>>

-----------------------------------------------------------------------------
(***************************************************************************)
(* A connecting thread: create_new_connection.                             *)
(***************************************************************************)

dialogVars == <<global_pos, file_size, client_ptr, stack, notified, window>>

\* Mutant of Open: an exception resets the flag before its message box is shown.
OpenResets(k) ==
    /\ thread[k] = "open"
    /\ \/ /\ thread' = [thread EXCEPT ![k] = "want"] /\ alive' = alive \cup {k}
          /\ UNCHANGED connecting_in_progress
       \/ /\ thread' = [thread EXCEPT ![k] = "box"] /\ UNCHANGED alive
          /\ connecting_in_progress' = FALSE
    /\ UNCHANGED <<dialogVars, remote, dropped, viewVars>>

\* T_client's constructor returns or throws.
Open(k) ==
    /\ thread[k] = "open"
    /\ \/ thread' = [thread EXCEPT ![k] = "want"] /\ alive' = alive \cup {k}
       \/ thread' = [thread EXCEPT ![k] = "box"] /\ UNCHANGED alive
    /\ UNCHANGED <<connecting_in_progress, dialogVars, remote, dropped, viewVars>>

Lock(k) ==
    /\ thread[k] = "want"
    /\ ~ThreadHolds /\ ~UiHolds
    /\ thread' = [thread EXCEPT ![k] = "swap"]
    /\ UNCHANGED <<connecting_in_progress, dialogVars, alive, remote, dropped, viewVars>>

\* Under the mutex: first the client (and its io_service) is swapped, under the view.
Swap(k) ==
    /\ thread[k] = "swap"
    /\ thread' = [thread EXCEPT ![k] = "reset"]
    /\ dropped' = [dropped EXCEPT ![k] = client_ptr]
    /\ client_ptr' = k
    /\ file' = remote[k] /\ lost' = FALSE
    /\ at' = 0 /\ shown' = View!Nothing
    /\ UNCHANGED <<connecting_in_progress, global_pos, file_size, stack, notified, window,
                   alive, remote, buffer, buffer_pos, prev_row_size, next_row_size,
                   symbols_per_scroll>>

\* Then the dialog takes the file's size, resets the view and the position, and
\* notifies the window.
Reset(k) ==
    /\ thread[k] = "reset"
    /\ thread' = [thread EXCEPT ![k] = "drop"]
    /\ file_size' = file.size
    /\ View!ResetPosition(View!Resolution(file.size))
    /\ global_pos' = 0
    /\ notified' = notified + 1
    /\ UNCHANGED <<connecting_in_progress, client_ptr, stack, window, alive, remote, dropped,
                   file, lost, at, shown>>

\* Leaving the scope destroys the client that was swapped out, then its io_service.
Drop(k) ==
    /\ thread[k] = "drop"
    /\ alive' = alive \ {dropped[k]}
    /\ thread' = [thread EXCEPT ![k] = "clear"]
    /\ UNCHANGED <<connecting_in_progress, dialogVars, remote, dropped, viewVars>>

CloseThreadBox(k) ==
    /\ thread[k] = "box"
    /\ thread' = [thread EXCEPT ![k] = "clear"]
    /\ UNCHANGED <<connecting_in_progress, dialogVars, alive, remote, dropped, viewVars>>

\* Mutant of ClearText: the flag is left.
ClearTextOnly(k) ==
    /\ thread[k] = "clear" /\ Pumps
    /\ thread' = [thread EXCEPT ![k] = "done"]
    /\ UNCHANGED <<connecting_in_progress, dialogVars, alive, remote, dropped, viewVars>>

\* SetWindowText from another thread waits until the window's thread dispatches it.
ClearText(k) ==
    /\ thread[k] = "clear" /\ Pumps
    /\ connecting_in_progress' = FALSE
    /\ thread' = [thread EXCEPT ![k] = "done"]
    /\ UNCHANGED <<dialogVars, alive, remote, dropped, viewVars>>

-----------------------------------------------------------------------------

Window == CloseBox \/ Dispatch \/ HandleScroll \/ GoToOffset \/ ShowData
Thread(k) ==
    \/ Open(k) \/ Lock(k) \/ Swap(k) \/ Reset(k) \/ Drop(k)
    \/ CloseThreadBox(k) \/ ClearText(k)

Next ==
    \/ Connect \/ Window
    \/ \E m \in UserMessages : UserActs(m)
    \/ \E k \in Ids : Thread(k)

\* The threads run; the user closes message boxes; opening and loading end (Session).
\* A thread that waits for the mutex, or for the window's thread to dispatch its
\* message, gets it if it is free again and again: Windows dispatches sent
\* messages before the user's input.
Fairness ==
    /\ WF_vars(Window)
    /\ \A k \in Ids : SF_vars(Thread(k))

Spec     == Init /\ [][Next]_vars
FairSpec == Spec /\ Fairness

-----------------------------------------------------------------------------
(***************************************************************************)
(* Properties.                                                             *)
(***************************************************************************)

TypeOK ==
    /\ connecting_in_progress \in BOOLEAN
    /\ global_pos \in Nat /\ file_size \in Nat
    /\ client_ptr \in {0} \cup Ids
    /\ \A i \in DOMAIN stack : stack[i].pc \in {"want", "load", "box", "refuse", "sorry"}
    /\ notified \in 0..Attempts
    /\ window \in {0} \cup Ids
    /\ thread \in [Ids -> Steps]
    /\ alive \subseteq Ids
    /\ remote \in [Ids -> Files]
    /\ dropped \in [Ids -> {0} \cup Ids]
    /\ symbols_per_scroll \in Nat \ {0}

\* The window's thread only ever loads from a connection that exists and that no
\* thread is swapping or destroying under it.
LoadsUseLiveClient ==
    (\E i \in DOMAIN stack : stack[i].pc = "load") =>
        /\ client_ptr \in alive
        /\ ~ThreadHolds
        /\ \A k \in Ids : thread[k] = "drop" => dropped[k] # client_ptr

\* A handler computes with the sizes and loads from the client of one connection: it never
\* runs while a thread has swapped the client and not yet taken its file's size, chosen
\* the step of the scroll bar and reset the view.
HandlersSeeOneConnection ==
    [][(HandleScroll \/ GoToOffset \/ ShowData) /\ client_ptr # 0 =>
            /\ file = remote[client_ptr]
            /\ file_size = file.size
            /\ symbols_per_scroll = View!Resolution(file.size)]_vars

\* "volatile flag - for thread-safe detecting, that connecting in progress": one
\* connection is opened at a time.
OneConnectAtATime ==
    \A j, k \in Ids : thread[j] \notin {"idle", "done"} /\ thread[k] \notin {"idle", "done"} => j = k

\* No handler runs, no notification is on its way and no thread is connecting.
Quiet == Idle /\ notified = 0 /\ \A k \in Ids : thread[k] \in {"idle", "done"}

\* Once all is quiet the window shows the range, the source and the size of the
\* connection it has ("where will be called function: init_window()").
WindowIsInitialized == Quiet => window = client_ptr

\* Once all is quiet the position is one of the file, although a move of the thumb
\* meant for one file may be handled when the next has been connected.
ScrollStaysInFile == Quiet => global_pos <= file_size

\* Once the window is that of its connection no part of the file is out of the
\* thumb's reach ("navigating over remote file by using only a single ScrollBar"):
\* each position is less than a step of the scroll bar behind the one that some
\* position of the thumb leads to, in the range of the window and the 16 bits of the
\* message.
ThumbReachesFile ==
    Quiet /\ client_ptr # 0 /\ window = client_ptr =>
        \A pos \in 0..file_size : \E n \in ThumbRange :
            LET to == NewPos(Msg("thumb", n % ThumbMod), global_pos)
            IN  to <= pos /\ pos < to + symbols_per_scroll

\* What the window shows is the file of its connection at the dialog's position, as
\* many rows of it as there are: whatever scrolls, offsets and notifications came
\* before, and whichever connection was swapped under the view, no handler leaves
\* the text of another position or of another file.  (Until a load of the connection
\* throws.  Where the text could not be had the window keeps its old one, and this says
\* nothing.)
WindowShowsFile ==
    ~lost /\ shown.kind = "text" /\ (\A i \in DOMAIN stack : stack[i].pc # "load") =>
        /\ at = Below(global_pos)
        /\ file = remote[client_ptr]
        /\ View!ShowsPosition /\ View!ShowsEnoughRows

\* The rows are cut out of the buffer, whoever asks for a position first ("Preload
\* data if it need").
ReadsStayInBuffer == View!ReadsStayInBuffer

\* Once a block of the connection was loaded, or if position 0 is asked for first, that is
\* so whatever scrolls and offsets come between the swap and the notification.
ReadsStayInLoaded == ~lost => View!ReadsStayInLoaded

\* Every connection attempt ends, and the user may start another: no thread waits
\* for ever for the mutex or for the window's thread, which may be waiting for it.
AttemptsEnd == connecting_in_progress ~> ~connecting_in_progress

\* The window comes back from every handler.
WindowComesBack == ~Idle ~> Idle
=============================================================================
