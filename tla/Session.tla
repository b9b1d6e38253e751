------------------------------- MODULE Session -------------------------------
(***************************************************************************)
(* One T_client (client.cpp) talking to the T_connection (connection.cpp)  *)
(* that serves it, over TCP.                                               *)
(*                                                                         *)
(* The client is blocking in appearance: every network step starts an      *)
(* asynchronous operation, arms a deadline and runs handlers of its own    *)
(* io_service, one at a time, until the operation's handler has run.  The  *)
(* deadline's handler runs in the same loop and closes the socket when the *)
(* deadline has passed.  The server is a chain of handlers on another      *)
(* machine: write the file size, then for ever read a page number and      *)
(* write that page.                                                        *)
(*                                                                         *)
(* TCP is a FIFO in each direction; a message is a whole size, page number *)
(* or page.  The connection may be cut at any time (a crash of the server, *)
(* a reset, the server closing its end) and the peer may be arbitrarily    *)
(* slow, so an answer can meet a timeout in any order.                     *)
(***************************************************************************)
EXTENDS Paging, Sequences, DeadlineTimer

CONSTANTS
    FileSizes,   \* the sizes the viewed file may have when a connection opens it
    Endpoints,   \* how many endpoints the server's name resolves to
    Deltas       \* arguments of reposition_and_load

ASSUME FileSizesAssumption == FileSizes \subseteq Nat
ASSUME EndpointsAssumption == Endpoints \in Nat
ASSUME DeltasAssumption    == Deltas \subseteq Int

VARIABLES
    \* T_client and the thread that calls it
    call,                \* where the calling thread is, see Calls
    endpoint,            \* it: the endpoint being connected to
    op,                  \* the asynchronous operation: "none", "pending", "done"
    ok,                  \* !err of the operation that is done
    timer,               \* deadline_
    block_position,
    max_block_position,
    temp_buffer,         \* the block whose text the client's buffer holds
    outcome,             \* how this T_client's last load ended, "none" before
    \* T_connection and its T_load_file
    conn,                \* the operation in progress, see Conns
    file_size,
    load_buffer,         \* the block whose text load_file's buffer holds
    \* TCP
    link,                \* "none" (client's socket closed), "up" or "cut"
    c2s, s2c             \* what is in flight in each direction

clientVars == <<call, endpoint, op, ok, timer, block_position,
                max_block_position, temp_buffer, outcome>>
serverVars == <<conn, file_size, load_buffer>>
netVars    == <<link, c2s, s2c>>
vars       == <<clientVars, serverVars, netVars>>

\* "new": before the constructor; "connect", "size": in the constructor; "idle":
\* constructed, no call; "write", "read": in load(); "dead": the constructor
\* threw or the object was destroyed.
Calls == {"new", "connect", "size", "idle", "write", "read", "dead"}
Busy  == {"connect", "size", "write", "read"}

\* "accept": waiting in an async_accept; "sendsize", "sendpage": in async_write;
\* "recv": in async_read; "stopped": after shutdown().
Conns == {"accept", "sendsize", "recv", "sendpage", "stopped"}

-----------------------------------------------------------------------------

\* No T_connection yet, and a T_client whose constructor has not run.
Init ==
    /\ call = "new"
    /\ endpoint = 1
    /\ op = "none"
    /\ ok = TRUE
    /\ timer = NewTimer
    /\ block_position = 0
    /\ max_block_position = 0
    /\ temp_buffer = NoText
    /\ outcome = "none"
    /\ conn = "stopped"
    /\ file_size = 0
    /\ load_buffer = NoText
    /\ link = "none"
    /\ c2s = <<>>
    /\ s2c = <<>>

-----------------------------------------------------------------------------
(***************************************************************************)
(* Asynchronous operations of the client.                                  *)
(***************************************************************************)

\* Mutant of Begin: the deadline is left as it was.
BeginUntimed(c, t) ==
    /\ call' = c
    /\ op' = "pending"
    /\ timer' = t

\* Arm the deadline, start the operation and enter the run_one() loop at c; t is
\* the timer as the previous segment of the code left it.
Begin(c, t) ==
    /\ call' = c
    /\ op' = "pending"
    /\ timer' = ExpiresFromNow(t)

\* The loop of an operation ended: its handler has run and the deadline is off.
OffDeadline == ExpiresNever(timer)

\* The thread leaves the loop for c without starting anything else.
Leave(c) ==
    /\ call' = c
    /\ op' = "none"
    /\ timer' = OffDeadline

\* Mutant of CloseSocket: cancel the operation and keep the connection.
CancelOnly == UNCHANGED <<link, s2c>>

\* client_socket_.close(): what was received and not read is gone.
CloseSocket ==
    /\ link' = "none"
    /\ s2c' = <<>>

\* What is sent on a socket that is not connected is lost.
Send(queue, msg) == IF link = "up" THEN Append(queue, msg) ELSE queue

-----------------------------------------------------------------------------
(***************************************************************************)
(* T_client: the constructor.                                              *)
(***************************************************************************)

\* Mutant of StartedTimer: the constructor does not start check_deadline().
TimerUnwatched == ExpiresNever(timer)

\* check_deadline() is called while no expiry is set, which it takes for a
\* deadline that has passed: it closes the (unopened) socket, sets the expiry to
\* never and waits.  Then the name is resolved.
StartedTimer == AsyncWait(ExpiresNever(timer))

ResolveFails ==
    /\ call = "new"
    /\ call' = "dead"
    /\ timer' = StartedTimer
    /\ UNCHANGED <<endpoint, op, ok, block_position, max_block_position,
                   temp_buffer, outcome, serverVars, netVars>>

Resolve ==
    /\ call = "new"
    /\ Endpoints > 0
    /\ Begin("connect", StartedTimer)
    /\ UNCHANGED <<endpoint, ok, block_position, max_block_position,
                   temp_buffer, outcome, serverVars, netVars>>

\* The handler of async_connect ran: read the file size, try the next endpoint
\* or throw when there is none.
Connected ==
    /\ call = "connect" /\ op = "done"
    /\ \/ /\ ok
          /\ Begin("size", OffDeadline)
          /\ UNCHANGED <<endpoint, netVars>>
       \/ /\ ~ok /\ endpoint < Endpoints
          /\ endpoint' = endpoint + 1
          /\ Begin("connect", OffDeadline)
          /\ UNCHANGED netVars
       \/ /\ ~ok /\ endpoint = Endpoints
          /\ Leave("dead")
          /\ CloseSocket
          /\ UNCHANGED <<endpoint, c2s>>
    /\ UNCHANGED <<ok, block_position, max_block_position, temp_buffer, outcome,
                   serverVars>>

\* The handler of the file-size read ran.  When the constructor throws, the
\* socket is closed with the object.
SizeRead ==
    /\ call = "size" /\ op = "done"
    /\ \/ /\ ok
          /\ Leave("idle")
          /\ UNCHANGED netVars
       \/ /\ ~ok
          /\ Leave("dead")
          /\ CloseSocket
          /\ UNCHANGED c2s
    /\ UNCHANGED <<endpoint, ok, block_position, max_block_position, temp_buffer,
                   outcome, serverVars>>

-----------------------------------------------------------------------------
(***************************************************************************)
(* T_client: load, reposition_and_load and the destructor.                 *)
(***************************************************************************)

\* load(i): remember the page and start sending its number.
Load(i) ==
    /\ call = "idle"
    /\ block_position' = Clamp(i, max_block_position)
    /\ Begin("write", timer)
    /\ c2s' = Send(c2s, block_position')
    /\ UNCHANGED <<endpoint, ok, max_block_position, temp_buffer, outcome,
                   serverVars, link, s2c>>

RepositionAndLoad(delta) ==
    Load(Reposition(block_position, delta, max_block_position))

\* The handler of the page-number write ran.
PageSent ==
    /\ call = "write" /\ op = "done"
    /\ \/ /\ ok
          /\ Begin("read", OffDeadline)
          /\ UNCHANGED outcome
       \/ /\ ~ok
          /\ Leave("idle")
          /\ outcome' = "thrown"
    /\ UNCHANGED <<endpoint, ok, block_position, max_block_position, temp_buffer,
                   serverVars, netVars>>

\* Mutant of PageRead: the error is not looked at.
PageReadUnchecked ==
    /\ call = "read" /\ op = "done"
    /\ Leave("idle")
    /\ outcome' = "returned"
    /\ UNCHANGED <<endpoint, ok, block_position, max_block_position, temp_buffer,
                   serverVars, netVars>>

\* The handler of the page read ran: load() returns or throws.
PageRead ==
    /\ call = "read" /\ op = "done"
    /\ Leave("idle")
    /\ outcome' = IF ok THEN "returned" ELSE "thrown"
    /\ UNCHANGED <<endpoint, ok, block_position, max_block_position, temp_buffer,
                   serverVars, netVars>>

\* The viewer drops the client (it has another, or it ends).
Destroy ==
    /\ call = "idle"
    /\ call' = "dead"
    /\ CloseSocket
    /\ UNCHANGED <<endpoint, op, ok, timer, block_position, max_block_position,
                   temp_buffer, outcome, serverVars, c2s>>

\* The user connects again: another T_client, with another io_service.
Recreate ==
    /\ call = "dead"
    /\ call' = "new"
    /\ endpoint' = 1
    /\ op' = "none"
    /\ ok' = TRUE
    /\ timer' = NewTimer
    /\ block_position' = 0
    /\ max_block_position' = 0
    /\ temp_buffer' = NoText
    /\ outcome' = "none"
    /\ UNCHANGED <<serverVars, netVars>>

-----------------------------------------------------------------------------
(***************************************************************************)
(* T_client: the deadline.                                                 *)
(***************************************************************************)

\* The clock reaches the deadline.
Elapse ==
    /\ timer.expiry = "future"
    /\ timer' = Elapsed(timer)
    /\ UNCHANGED <<call, endpoint, op, ok, block_position, max_block_position,
                   temp_buffer, outcome, serverVars, netVars>>

\* check_deadline() run by run_one().  A deadline that has passed closes the
\* socket, which aborts the pending operation; the wait is always renewed.
CheckDeadline ==
    /\ call \in Busy /\ timer.wait = "ready"
    /\ LET t == Taken(timer)
       IN  \/ /\ t.expiry = "past"
              /\ CloseSocket
              /\ op' = "done"
              /\ ok' = (ok /\ op = "done")
              /\ timer' = AsyncWait(ExpiresNever(t))
              /\ UNCHANGED c2s
           \/ /\ t.expiry # "past"
              /\ timer' = AsyncWait(t)
              /\ UNCHANGED <<op, ok, netVars>>
    /\ UNCHANGED <<call, endpoint, block_position, max_block_position,
                   temp_buffer, outcome, serverVars>>

-----------------------------------------------------------------------------
(***************************************************************************)
(* The network, as the client's socket sees it (external).                 *)
(***************************************************************************)

\* async_connect succeeds: a T_connection is at the other end.  The server built
\* it, and its T_load_file took the size of the file, before accepting.
ConnectOk ==
    /\ call = "connect" /\ op = "pending"
    /\ op' = "done" /\ ok' = TRUE
    /\ link' = "up" /\ c2s' = <<>> /\ s2c' = <<>>
    /\ conn' = "accept"
    /\ file_size' \in FileSizes
    /\ load_buffer' = NoText
    /\ UNCHANGED <<call, endpoint, timer, block_position, max_block_position,
                   temp_buffer, outcome>>

\* A write is complete once the kernel has the bytes, even if the peer is gone.
WriteOk ==
    /\ call = "write" /\ op = "pending" /\ link # "none"
    /\ op' = "done" /\ ok' = TRUE
    /\ UNCHANGED <<call, endpoint, timer, block_position, max_block_position,
                   temp_buffer, outcome, serverVars, netVars>>

\* A read completes with the oldest message.
ReadOk ==
    /\ call \in {"size", "read"} /\ op = "pending" /\ s2c # <<>>
    /\ op' = "done" /\ ok' = TRUE
    /\ s2c' = Tail(s2c)
    /\ IF call = "size"
       THEN /\ max_block_position' = MaxBlock(Head(s2c))
            /\ UNCHANGED temp_buffer
       ELSE /\ temp_buffer' = Head(s2c)
            /\ UNCHANGED max_block_position
    /\ UNCHANGED <<call, endpoint, timer, block_position, outcome, serverVars,
                   link, c2s>>

\* A connect is refused; a write or a read fails on a lost or closed connection.
\* TCP reports the loss of a connection last: nothing can be read after it.
OpFails ==
    /\ call \in Busy /\ op = "pending"
    /\ call = "connect" \/ link # "up"
    /\ op' = "done" /\ ok' = FALSE
    /\ s2c' = <<>>
    /\ UNCHANGED <<call, endpoint, timer, block_position, max_block_position,
                   temp_buffer, outcome, serverVars, link, c2s>>

\* The connection is lost; what the server had sent may still be delivered.
Cut ==
    /\ link = "up"
    /\ link' = "cut"
    /\ s2c' \in {s2c, <<>>}
    /\ UNCHANGED <<clientVars, serverVars, c2s>>

-----------------------------------------------------------------------------
(***************************************************************************)
(* T_connection.                                                           *)
(***************************************************************************)

\* handle_accept calls run(): send the file size.
Run ==
    /\ conn = "accept"
    /\ conn' = "sendsize"
    /\ s2c' = Send(s2c, file_size)
    /\ UNCHANGED <<clientVars, file_size, load_buffer, link, c2s>>

\* handle_write_to_client: read the next page number.
HandleWriteToClient ==
    /\ conn \in {"sendsize", "sendpage"}
    /\ conn' = "recv"
    /\ UNCHANGED <<clientVars, file_size, load_buffer, netVars>>

\* handle_read_from_client: load the page and send the whole buffer.
HandleReadFromClient ==
    /\ conn = "recv" /\ c2s # <<>>
    /\ conn' = "sendpage"
    /\ load_buffer' = Loaded(load_buffer, Head(c2s), file_size)
    /\ c2s' = Tail(c2s)
    /\ s2c' = Send(s2c, load_buffer')
    /\ UNCHANGED <<clientVars, file_size, link>>

\* Either handler is given an error: shutdown().
Shutdown ==
    /\ conn \in {"sendsize", "recv", "sendpage"} /\ link # "up"
    /\ conn' = "stopped"
    /\ UNCHANGED <<clientVars, file_size, load_buffer, netVars>>

-----------------------------------------------------------------------------

\* The page arguments worth trying: each valid page and one beyond the last.
PageArgs == 0..(max_block_position + 1)

Client ==
    \/ ResolveFails \/ Resolve \/ Connected \/ SizeRead
    \/ \E i \in PageArgs : Load(i)
    \/ \E d \in Deltas : RepositionAndLoad(d)
    \/ PageSent \/ PageRead \/ Destroy \/ Recreate \/ CheckDeadline

Server == Run \/ HandleWriteToClient \/ HandleReadFromClient \/ Shutdown

Network == Elapse \/ ConnectOk \/ WriteOk \/ ReadOk \/ OpFails \/ Cut

Next == Client \/ Server \/ Network

\* The thread inside a call keeps running its io_service's handlers, and time
\* passes.  Nothing is assumed of the
\* server, of the network or of the user.
Fairness ==
    /\ WF_vars(Resolve \/ ResolveFails)
    /\ WF_vars(Connected) /\ WF_vars(SizeRead) /\ WF_vars(PageSent) /\ WF_vars(PageRead)
    /\ WF_vars(CheckDeadline)
    /\ WF_vars(Elapse)

Spec     == Init /\ [][Next]_vars
FairSpec == Spec /\ Fairness

-----------------------------------------------------------------------------
(***************************************************************************)
(* Properties.                                                             *)
(***************************************************************************)

Texts == Nat \cup {NoText}

\* Types of the variables; in particular the client never holds a page index
\* beyond the last page of the file it is connected to (T_client::load clamps it,
\* reposition_and_load wraps around zero).
TypeOK ==
    /\ call \in Calls
    /\ endpoint \in 1..(Endpoints + 1)
    /\ op \in {"none", "pending", "done"}
    /\ ok \in BOOLEAN
    /\ timer \in Timers
    /\ max_block_position \in Nat
    /\ block_position \in 0..max_block_position
    /\ temp_buffer \in Texts
    /\ outcome \in {"none", "returned", "thrown"}
    /\ conn \in Conns
    /\ file_size \in Nat
    /\ load_buffer \in Texts
    /\ link \in {"none", "up", "cut"}
    /\ c2s \in Seq(Nat)
    /\ s2c \in Seq(Texts)

\* The answer to a page request is the page asked for ("Get page data by index of
\* page", get_data.hpp): never an answer to an earlier request that timed out,
\* never what another page left in the server's buffer.
AnswerIsPage ==
    (call = "idle" /\ outcome = "returned") =>
        temp_buffer = PageOf(block_position, file_size)

\* Requests and answers alternate: whatever was timed out, retried or cut, at
\* most one message is in flight, so no answer can be taken for a later one.
OneMessageInFlight == Len(c2s) + Len(s2c) <= 1

\* The run_one() loops always have an operation to wait for and a deadline that
\* will end it: the wait is never lost between one operation and the next.
OperationsAreTimed ==
    call \in Busy =>
        /\ op # "none"
        /\ timer.wait # "none"
        /\ op = "pending" => timer.expiry \in {"future", "past"}

\* A load that throws (a timeout closes the socket) is never followed by one that
\* returns on the same T_client: the connection cannot resume out of step.
LostIsForever ==
    [][outcome = "thrown" => outcome' # "returned"]_vars

\* However slow or dead the server is, the constructor and load() come back.
EveryCallReturns == (call \in Busy) ~> (call \in {"idle", "dead"})

\* The session is a block service: opening, one page per request, lost at the
\* first throw.
Source == INSTANCE BlockService WITH
    phase  <- CASE call \in {"new", "connect", "size"} -> "opening"
                [] call = "idle"                       -> "ready"
                [] call \in {"write", "read"}          -> "asked"
                [] call = "dead"                       -> "closed",
    lost   <- outcome = "thrown",
    size   <- IF call \in {"idle", "write", "read"} THEN file_size ELSE 0,
    want   <- block_position,
    answer <- IF call = "idle" /\ outcome = "returned" THEN temp_buffer
              ELSE -2

IsBlockService == Source!Spec
=============================================================================
