# A TLA+ model of Client-Server-Viewer

Client-Server-Viewer shows a large remote file in a Windows dialog. A server
(Boost.Asio) sends one block of the file per request; the client keeps one
connection, cuts rows of text out of at most two blocks, and turns the moves of
one scroll bar into positions of the file. This directory holds the models of
the program, the TLC configurations that check them and the TLAPS proofs about
them.

* [The program](#the-program)
* [The modules](#the-modules)
* [The runs](#the-runs)
* [The proofs](#the-proofs)
* [What the code does otherwise than it says](#what-the-code-does-otherwise-than-it-says)
* [What is not modelled](#what-is-not-modelled)
* [Plan](#plan)

Check everything from this directory with `tlc -config X.cfg M` for the pairs
listed under *The runs*, and `tlapm` on `SessionProofs.tla`, `FileSessionProofs.tla`,
`ServerProofs.tla`, `FileViewProofs.tla` and `ViewerProofs.tla`.

## The program

| Component | State | Operations | Talks to |
|---|---|---|---|
| `T_client` (`client.cpp`) | socket, deadline timer, `block_position`, `max_block_position`, the block in `temp_buffer` | constructor (resolve, connect, read the size), `load`, `reposition_and_load`, `check_deadline`, destructor | a `T_connection` over TCP; called by `T_file_view` and by a connecting thread |
| `T_connection` (`connection.cpp`) | socket, timer, `stopped_`, reference to its pool, its `T_load_file` | constructor, `run`, `handle_write_to_client`, `handle_read_from_client`, `shutdown`, `check_deadline` | its client; run by the executors' threads |
| `T_load_file` (`load_file.cpp`) | open stream and its failbit, size when opened, buffer | constructor, `load` | file system; called by its `T_connection` |
| `T_server` (`server.cpp`) | one chain of accepts per acceptor thread, pools of five connections counted by reference | constructor, `handle_accept`, deleter of a pool, `stop_services` | builds and runs `T_connection`s |
| `T_handler_allocator` | one block, one flag | `allocate`, `deallocate` | memory of a connection's pending handler |
| `T_file_view` (`file_view.cpp`) | two blocks of text and their offset, sizes of the rows around the position | `reset_position`, `get_strings_for_pos` | its `T_get_data` (a `T_client`) |
| `CMFC_UIDlg` (`MFC_UIDlg.cpp`) | position, size, scroll step, `connecting_in_progress`, a recursive mutex | `OnBnClickedButton1` (connect), `OnBnClickedButton2` (go to an offset), `OnVScroll`, `create_new_connection` on a thread of its own | `T_file_view`, the user |

What is hard here, and which property of which component stands for it:

* **Timeouts in a blocking client.** A call of `T_client` runs the handlers of its
  `io_service` one by one until its operation is done, and a second handler, the
  deadline's, runs in the same loop. It must always be there (`OperationsAreTimed`,
  `EveryCallReturns`), and what it interrupts must never be resumed out of step
  (`OneMessageInFlight`, `AnswerIsPage`, `LostIsForever`).
* **Memory of asynchronous connections.** Handlers are bound to a raw `this` in a
  shared pool that a chain of accepts fills slot by slot (`HandlersHaveObjects`,
  `OneChainPerSlot`, `SlotsAreFresh`, `ChainsFillPools`, `OnlyConnectionsAreDestroyed`,
  `StoppedIsReleased`, all of it `IsAcceptService`); the handler itself lies in a block
  guarded by a plain flag (`HandlersUseBlock`); an error ends a chain silently
  (`ClientsAreAccepted`).
* **A file that changes under its reader.** The size is taken once, the buffer is used
  for every page and sent whole, and a stream that has failed stays failed
  (`BytesArePage`, `TextFitsPage`, `OnlyShortFilesFail`).
* **Positions and blocks.** Which block a position needs, whether the buffer
  already has it, how rows at the end are filled up (`ReadsStayInBuffer`,
  `ReadsStayInLoaded`, `ShowsPosition`, `ShowsEnoughRows`), and the last block (`AnswerIsPage`).
* **A window and its connecting threads.** They share the view under a recursive
  mutex, wait for each other through window messages, and a message box inside a
  handler lets other messages in (`LoadsUseLiveClient`, `HandlersSeeOneConnection`, `WindowShowsFile`,
  `OneConnectAtATime`, `WindowIsInitialized`, `ScrollStaysInFile`, `AttemptsEnd`,
  `WindowComesBack`); the thumb has 16 bits for a file of any size (`ThumbReachesFile`).

The full list, with lines, is in `PROJECT.json` under `hazards`.

## The modules

```
Paging            the arithmetic of blocks
DeadlineTimer     boost::asio::deadline_timer                     (external)
BlockService      what a T_get_data promises                      (abstract specification)
Session           T_client <-> T_connection over TCP              implements BlockService
LoadFile          T_load_file, byte by byte
FileSession       Session composed with LoadFile
AcceptService     what T_server promises                          (abstract specification)
HandlerAllocator  T_handler_allocator
Server            T_server, its pools, the life of T_connections  implements AcceptService
FileView          T_file_view
Viewer            CMFC_UIDlg and its threads, on top of FileView
SessionProofs, FileSessionProofs, ServerProofs,
FileViewProofs, ViewerProofs                                      theorems
MCSession, MCServer, MCFileView, MCViewer                         instances for TLC
```

A definition named in a comment as a *mutant* of another stands next to it, with the
same parameters. It is what a plausible mistake in that code would be, is used
nowhere, and shows that a property can fail: with the mutant in its place TLC
reports the property named for it in `PROJECT.json`.

**Paging.** A file is its size, the text of a block is the block's number, and the
empty text is `NoText`. `Loaded` is `T_load_file::load` with its buffer, `PageOf` is
what a request ought to be answered with; that they agree is a property, not a
definition. Arithmetic that may wrap (`reposition_and_load`, the scroll sums) is taken
modulo `SizeMod`, the range of `size_t`.

**DeadlineTimer.** A timer is an expiry relative to now and at most one outstanding
wait. Setting the expiry or cancelling completes the wait, whose handler then runs late.
The expiry of a new timer is unset (`not_a_date_time`): the client's test
`expires_at() <= now()` is true of it, the server's `expires_at() > now()` is false, and
much follows from that.

**Session.** `call` is the place of the thread inside `T_client`; one segment of code
between two `run_one` loops is one action (`Resolve`, `Connected`, `SizeRead`, `Load`,
`PageSent`, `PageRead`). A handler that has completed in the kernel (`op = "done"`) may
still find `check_deadline` before it in the queue. The server side is the chain of handlers
of one `T_connection`. TCP is a FIFO per direction; a connection may be cut at any time, with
or without what was in flight; the peer may be arbitrarily slow. A new `T_client` may be
made after one has died, and meets a new connection and perhaps another size.

**BlockService.** A source is open or not, answers each request with the page asked for
or throws, and never answers again after it has thrown. `Session!IsBlockService` states that
`Session` implements it under the refinement mapping written there.

**LoadFile, FileSession.** `Session` knows a text by its block's number. `LoadFile` has the
bytes: each byte of the file is named by its position, `bytes` is `temp_buffer` with its
terminating zero and the cells that were never written, `infile` the state of the stream, and
`disk` how long the file was found when it was last read. `Load` is `T_load_file::load`, with
offsets modulo `SizeMod`, and does to a failed stream what `seekg` and `read` do: nothing.
`ReceivedText` is the string the client makes of the whole buffer. `FileSession` runs
`Opened` with the construction of a connection and `Load` with the handler of a request, so the
client's numbers and the server's bytes are checked against each other.

**AcceptService.** A place is unused, offered, served, ended, over, in this order; a client that
is accepted gets a place that was offered, and a place is only taken back when it is not
served. `Server!IsAcceptService` maps the backlog and the phase of each connection to it.

**HandlerAllocator.** `Allocated` and `Deallocated` are the two functions of the allocator on the
fields `in_use` and `memory` of a connection of `Server`, in the order in which Asio calls them: it
gives the memory of a handler back before it calls the handler, which starts the next operation.
Which handlers fit into the block is the constant `Fitting`.

**Server.** `chain[a]` is the slot where acceptor `a` has its pending accept. A pool is
referred to by the chain that is filling it and by connections whose
`memorypool_shared_this_` is set. `handle_accept` is two actions, since the connection it has just
run may be served, fail and end on an executor's thread before the next one is constructed. `Settle` deletes each pool nobody refers to any more, in
the same step, as a `shared_ptr` does. Failures are an accept that ends with an error, a
connection that cannot be built or whose accept cannot be started, and an operation that `run` cannot start.
A connection that is destroyed with a handler still to come is `dangling`. No wait on a deadline is ever
started (`Checked`, `Built`: see `server_release` below), so what a deadline does to a connection
(`ByDeadline`) is in the model as it is in the code, and never happens in either; a pool is
deleted only when the chain leaves it and none of its connections ever ran (one that ran keeps its reference for good).

**FileView.** A file is its size and the positions of its newlines; the buffer is the
interval of the file it was loaded from. `RowStart`, `RowEnd`, `NextEnd` and `PreviousStart` are the least
and greatest of the newlines the code's loops stop at.
An access beyond the buffer has the result `Outside`. Any position may be the first that a new file is asked for.

**Viewer.** A connecting thread replaces the client under the view (`Swap`) and then, still under the
mutex, what the dialog and the view have of its file (`Reset`). `stack` holds the handlers the window's thread is in. Only between handlers,
or in a message box, does it dispatch what other threads send: the notification of a new
connection, and the `SetWindowText` with which a connecting thread ends and for which that
thread waits. Every operation on the text is `FileView`'s, by `INSTANCE`. The sizes of the rows start with
the least or the greatest `size_t`, since `T_file_view`'s constructor leaves them unwritten, and a thumb's
position is the low bits of the position (`ThumbMod`). Opening a
connection either succeeds or throws (that it ends is `EveryCallReturns` of `Session`), and
after a load has thrown every load of that connection throws (`LostIsForever`).

## The runs

| Run | Bounds | Shows |
|---|---|---|
| `session` | blocks of 2, sizes 0, 1, 3, 5 when opened (none ends at the end of a block), lengths 0, 2, 5 when read, 2 endpoints, moves of -2, 0, 1, a `size_t` of 8 | all safety of `Session`, that it implements `BlockService`, that every call comes back, and that the bytes the client gets are the page's |
| `session_whole` | size 4 | *violated:* the last index of a file of whole blocks answers with an old page |
| `server` | 2 chains, pools of 2, 4 clients, 4 pools, failures, handlers of reads too large for the block | handlers have their objects and their block, slots are raw when they are used and filled when their pool is left, clients are accepted as long as a chain is left, `AcceptService` is implemented |
| `server_destroy` | 1 chain, pools of 2, 2 clients, failures | *violated:* see below |
| `server_release` | 1 chain, pools of 2, 2 clients, no failures | *violated:* see below |
| `file_view` | blocks of 8, 2 rows, sizes 0, 5, 19, 35, every choice of a few newlines, scroll step 1, any first position, changes of file | rows come out of the buffer once a block was loaded, at the position, and fill the window |
| `file_view_large` | blocks of 4, 1 row, scroll step 2, so that 4 * rows * step exceeds a block | *violated:* see below |
| `file_view_lost` | blocks of 4, 1 row, loads that may throw | *violated:* see below |
| `viewer` | 2 connections, one to an empty file and one to a file of 9 bytes, in either order; blocks of 4, 9 steps of the scroll bar where it is meant to have 5 and 10 positions of the thumb, an offset behind the file, bad input, loads that throw | the view's connection is alive and no handler sees half of a swap; the rows shown are those of the connection's file at the dialog's position; no deadlock; the thumb reaches every position |
| `viewer_connect` | 3 connections, files of 3 and 4 bytes with scroll steps of 1 and 2, the user types numbers only and no offsets | one attempt at a time, the window follows; attempts end, handlers return |
| `viewer_bad_input` | 2 connections | *violated:* see below |
| `viewer_early` | 1 connection to a file of 3 bytes | *violated:* see below |

*Why these bounds are enough.* One request is in flight at a time, so three blocks give every
relation between a page, the page before it and the last page, and a fourth nothing new; the number
of requests, timeouts, cuts and reconnections is not bounded. `SizeMod` of `session` is tight: with
the next smaller multiple of a block the end of the last block wraps and `OnlyShortFilesFail` fails, so
what is shown of `load` holds for files that end at least a block below the range of a `size_t`
(2^32 in the Win32 build). The lengths when read are
shorter than, equal to and longer than the size, at the end of a block and inside one. Two endpoints give
the first, a retried and a last attempt. A pool of two has a first and a last slot, and
four clients fill two pools; the five of the code only adds middle slots. Files of
three and five blocks have positions before, in, just behind and far behind a buffer of two, at
both ends of the file. The dialog's file of three blocks (`viewer`) does not fit the buffer, has the two loads between which
a throw does harm, and a size in the band where the scroll bar has nearly twice the steps it is meant to have;
its two connections are to two files (`TwoFilesSpec`), so that what is left of the one
is not taken for the other by luck; in `viewer_connect` they may also be to the same one. In `viewer_connect` a move of the thumb that was meant for the file with steps of 1 may be
handled when the file with steps of 2 has been connected, and the other way round. Three attempts to connect give a thread, one that replaces
its connection and one that overlaps the clean-up of the first. `Attempts`, `Clients` and `MaxPools` bound
the number of things that happen and are named in the guards; when clients run out the
server waits, which is why its runs do not check for deadlock. All other runs do.

*Fairness.* `Session`: the thread inside a call runs the handlers that are ready, and time
passes (`do { run_one(); } while`); nothing is assumed of the server or the network. `Server`:
the threads of the pools run handlers that are ready, and a client that waits is accepted; nothing
is assumed of clients. `Viewer`: handlers that may go on do, and the user closes message boxes; a
connecting thread gets the mutex and the window's attention if both are free again and again (strong
fairness), because Windows dispatches sent messages before input and a user pauses between inputs.

## The proofs

`SessionProofs` is about every `BlockSize`, `SizeMod`, `FileSizes`, `Endpoints` and `Deltas` that
satisfy the assumptions of `Paging` and `Session`.

* `Invariance`: `Spec => []IInv`. None of the properties is inductive. `OneMessageInFlight` holds because
  requests and answers alternate, which depends on where both parties are: `IInv` says for each place
  of the client what may be in flight in each direction and where the connection then is, that a
  closed or cut socket is never sent on again, and, while a request is under way on a live link, that the
  page in flight is the page asked for.
* `TypeCorrect`, `Alternation`, `Timed` follow from it for all constants; `RightPage` needs
  `PartialLastBlock`: no file ends at the end of a block. Without it the property is false
  (`session_whole`).
* `NoResumption` is the action property `LostIsForever`.
* `Implementation` maps every step of `Session` to a step of `BlockService` or to a stutter,
  under `PartialLastBlock`.

`FileSessionProofs` puts the bytes under `SessionProofs`: a step of `FileSession` is one of `Session`
(`FileNextIsNext`), so its invariant holds of a session on a file. Both of its assumptions are about the sizes
of files: `PartialLastBlock`, and `FilesFit`, that a `size_t` holds the end of a file's last block.

* `FileIsSession`: `FileSpec => Spec`. What `SessionProofs` proves holds of a server that reads a file while others
  write it; `FileIsBlockService` and `FileAnswers` are its refinement and its main property, which need `PartialLastBlock`.
* `FileByteInvariance` needs `FilesFit` only: from the moment the answer to the client's last request leaves the server until the client
  asks again, the server's buffer holds the block that was asked for (`Holds`), if it has text or the file is empty: a zero
  behind its last byte and, while the stream is good, its bytes. It needs from `IInv` that no older request is still on its way then.
* `PagesWithTextAreRight`: so of files of whole blocks, too, the only page that may be wrong is the one behind
  the last block (`session_whole`).
* With `PartialLastBlock` every page that can be asked for has text, or is of an empty file (`AllPagesExact`);
  `BytesAreRight` and `TextFits` follow, `TextLength` being the first cell that ends the text (`TextOfBlock`).
* `ShortFilesFail` needs `FilesFit` only: what `load` asks the stream for never passes the size that was taken.

`ServerProofs` is about any number of chains, slots, pools and clients, any `Fitting`, with and without
failures, and has no further assumption.

* `Invariance`: almost every action ends in `Settle`, which deletes the pools nobody refers to, and in between
  the state is not one of the program. So the invariant `Good` is stated of any chains, pools and
  connections: an action makes new ones that satisfy it, and `Settle` keeps it. It says that behind a
  chain's place its pool is raw, that no other chain is in the pool, that a pool with anything alive in it
  is live, that a connection holds its pool as long as an operation is pending, that no wait on its deadline is
  outstanding, and that its allocator's flag says where the handler lies.
* `ChainsApart`, `HandlersSafe`, `BlockIsUsed` follow.
* `TypeCorrect` is proved apart, of chains, pools and connections by themselves.
* `PoolsAreFilled` is the action property `ChainsFillPools`: in the pool of a chain no slot up to the chain's is raw, so
  none is when the chain goes from the last slot to another pool. It holds with failures, too; what does not is that a pool
  is only deleted after its chain has left it so (`server_destroy`).
* `Implementation` is the refinement of `AcceptService`. Deleting a pool maps to giving back a set of places
  that are not served (`SettleReturns`), which is where the invariant is needed.
* `SlotsFresh` is read off the abstract step.

`FileViewProofs` is about every file, block size and number of rows.

* `TypeCorrect` has no assumption.
* `Invariance`: until a load of the client throws, a buffer that was loaded begins at `buffer_pos` and has two blocks or
  reaches the end of the file, and the rows shown are rows of it (`Sound`). A throw between the two loads of
  `load_buff` ends this, and the next change of file restores it. It needs `SmallSteps`, `4 * Rows * step <= BlockSize` for
  every file: the exact condition under which the tests of `get_strings_for_pos` are right for a buffer that was loaded.
* `WhileLoadsSucceed`: `ReadsStayInLoaded`, `ShowsPosition` and `ShowsEnoughRows` hold until a load throws; where none may,
  they hold (`InsideLoaded`, `PositionShown`, `RowsShown`). `ReadsStayInLoaded` is less than that no read leaves the buffer, which is
  false: the three tests do not load for a first position that is neither 0 nor far from it (`viewer_early`). The last
  two need what the least and the greatest of a
  set of newlines are (proved from the well-foundedness of the naturals) and how many newlines two adjacent intervals
  have together.
* `BelowLimit` puts the condition in bytes. Quotients are rounded down twice, and still the files with small steps
  are exactly those below `ScrollRange * (BlockSize / (4 * Rows) + 1)` (`StepsAreSmallBelow`): 31,522,800 bytes with
  32700 steps, blocks of 65536 and 17 rows.

`ViewerProofs` is about any number of connecting threads and any files, block size and page step.

* `Invariance`: nobody is inside the mutex when a connecting thread is; a thread destroys only what another
  thread has given to the view and what the view no longer has; but for the time between `Swap` and `Reset`, the size and
  the scroll step are of the file the client reads. The
  stack of handlers enters as the set of its handlers, which a step of the window's thread changes by at
  most one (`PushGains`, `BecomeGains`, `PopLoses`).
* `LoadsAreSafe` and `HandlersAgree` follow without assumption. The second is the action property `HandlersSeeOneConnection`: a handler
  computes only when no thread is inside the mutex, and so not between `Swap` and `Reset`.
* `OneAtATime` needs `~BadInput` (`viewer_bad_input` shows that it fails otherwise), and `WindowShown` needs a user who only
  scrolls (see below). While the window is not that of its client, the client's view is
  unused and a scroll message is on its way that will find it so.
* `TypeCorrect` has no assumption. The sizes of rows are those of `FileViewProofs`, which is taken in by `INSTANCE`;
  that the number of notifications on their way stays in its range is a count of the threads that have sent one.
* `ScrollStays` needs a user who only scrolls, as an offset is not checked against the file (`MFC_UIDlg.cpp:389`). A position
  may lie beyond the file of a client that was swapped in, but then its notification is still to be handled and sets it
  to 0; a scroll message never waits under another handler, so it moves a position and copies that are of one file.
* `WindowIsRight` joins the two: the dialog uses the view from handlers and swaps its file from other threads, and still
  the rows in the window are the connection's file at the dialog's position, for every user. `TextInv` says that the
  view of a client, once it was reset, satisfies the invariant of `FileViewProofs` (each action on the text is one of its operations), and
  that only the handler that is about to load may have moved the position without showing it. It needs `SmallSteps`,
  and the conclusion is about connections of which no load has thrown.
* `ReadsAreLoaded`: the view of a dialog does read outside its buffer (`viewer_early`), but until a load throws only while that is empty. The
  first block is asked for at position 0 alone (`file_view.cpp:74`), and a line or an offset of the user may come before the
  notification that asks for position 0.
* `ThumbReaches`, for files shorter than a `size_t` counts: the scroll bar has fewer than twice the steps it is meant
  to have, and twice `ScrollRange` is within 16 bits.

Model-checked only: liveness (`EveryCallReturns`, `ClientsAreAccepted`, `AttemptsEnd`, `WindowComesBack`), which
is out of the prover's reach. Every other property of a passing run is a theorem.

## What the code does otherwise than it says

Each item of this list is a run with a counterexample and an entry of `findings`.

* `session_whole`: for a file whose size is a positive multiple of 65536, `max_block_position` is one
  past the last block; its request is answered with what the server's buffer held
  (`load_file.cpp:18`).
* `server_destroy`: the deleter of a pool calls the destructor of all five slots, also of those in which nothing was
  constructed (`server.hpp:55`): when the file cannot be opened, and when an accept fails, before the pool is full.
* `server_release`: a connection's deadline is never started, because `check_deadline` is first called with an
  unset expiry (`connection.cpp:37`). No timeout takes effect on the server, and a connection
  that was shut down keeps its socket and its pool of five for ever. To start the wait would not be enough as
  a repair: a deadline that passes while an operation is pending releases the pool (`connection.cpp:165`) while that
  operation's handler is still to run.
* `file_view_large`: above about 31.5 MB the view takes positions for loaded that are beyond the buffer
  (`file_view.cpp:76`), although "Tested and works with very large file - 100GB" (`README.md:37`).
* `file_view_lost`: after a throw between its two loads the buffer is not where `buffer_pos` says
  (`file_view.cpp:20`).
* `viewer_bad_input`: a port that is not a number resets the flag of the connection in progress
  (`MFC_UIDlg.cpp:284`).
* `viewer_early`: a scroll that is handled after a connection was swapped in and before the notification of it reads
  outside the empty buffer (`file_view.cpp:74`).

Two more have no run of their own.

* `BytesArePage` says of a stream that has failed nothing: without `infile = "good"` it is violated, since a file that became shorter is answered
  with what earlier pages left in the buffer, for as long as the connection lasts (`load_file.cpp:24`).
* `WindowIsInitialized` is violated if `Jumps` is not empty in `MCViewerConnect.cfg`. `OnVScroll` calls `init_window` only when
  `global_pos` is 0 and the buffer is empty (`MFC_UIDlg.cpp:328`). An offset that is entered between the reset of the view and
  its notification makes `global_pos` another than 0, so the notification, which was sent for `init_window`, does not call it. It then
  asks for position 0: if the file is not empty, that fills the buffer, and the range of the scroll bar, the source and the
  size that the window shows stay those of the connection before.

## What is not modelled

* The bytes of a file: zero bytes in the text (which shorten the client's buffer), character sets, the
  wording of messages.
* The content of a file that is rewritten in place: only its length changes. `~T_load_file`, and
  `T_load_file::reposition_and_load`, which nothing calls. Files that end less than a block below the range
  of a `size_t`.
* The thread-safety of Boost.Asio objects shared by threads (`acceptor_`); the listening socket; the joins of
  `stop_services` at the end of the process.
* The closing of the dialog while a detached thread runs; message boxes of connecting threads do
  not disable the dialog; `SendNotifyMessage` succeeds.
* The text that the edit control keeps when there is none to show: `shown` says what the last `get_strings_for_pos` of
  the connection came to, and after an exception, or after a swap until the first load, the window still has the text from before.
* That clients are accepted when every chain is dead: `ClientsAreAccepted` exempts it, since nothing starts a chain again (`server.cpp:125`).
  What happens is that clients wait.
* `main_boost_asio.cpp` (arguments, and the order in which the two services are destroyed at the end), `MFC_UI.cpp`, `seh_exception.*`, precompiled headers, resources and project
  files: no state of their own.

## Plan

1. Done: `Paging`, `DeadlineTimer`, `BlockService`, `Session`, `LoadFile`, `FileSession`, `HandlerAllocator`,
   `AcceptService`, `Server`, `FileView`, `Viewer`, and the proofs of all their safety properties.
2. An abstract viewer (a file, a position, a text) is not planned any more: what it would promise is
   `WindowShowsFile`, which is proved of the dialog as it is.
3. The allocator's own promises (`HandlerAllocator`) for any sequence of handlers, not only those of a connection.
4. The end of the dialog, with a connecting thread still running.
