------------------------------- MODULE Server -------------------------------
(***************************************************************************)
(* T_server (server.cpp): the chains of accepts, the memory pools its      *)
(* T_connections live in, and the life of each connection (connection.cpp) *)
(* from construction to destruction.  What a connection says to its client *)
(* is the business of Session.                                             *)
(*                                                                         *)
(* A pool is a block of raw memory for PoolSize connections, shared by     *)
(* reference counting between the chain that is filling it and the         *)
(* connections that run in it.  When the last reference goes, the pool's   *)
(* deleter destroys all its slots.                                         *)
(***************************************************************************)
EXTENDS Naturals, FiniteSets, DeadlineTimer, HandlerAllocator

CONSTANTS
    Acceptors,       \* one chain of accepts each (thread_num_acceptors)
    PoolSize,        \* connections_in_memory_pool (5 in the code)
    Clients,         \* bound: how many clients come
    MaxPools,        \* bound: how many pools are ever allocated
    Failures,        \* may an accept, a construction or an async_write fail?
    Fitting          \* the operations whose handlers fit into the allocator's block

ASSUME PoolSizeAssumption == PoolSize \in Nat \ {0}
ASSUME BoundsAssumption   == Clients \in Nat /\ MaxPools \in Nat
ASSUME FlagsAssumption    == Failures \in BOOLEAN

VARIABLES
    service,  \* "starting" (T_server's constructor), "running" or "stopped"
    chain,    \* for each acceptor, what it does and with which connection
    pools,    \* the state of each pool
    conn,     \* the connection in each slot of each pool
    waiting   \* clients in the listening socket's backlog

vars == <<service, chain, pools, conn, waiting>>

Pools == 1..MaxPools
Slots == 0..(PoolSize - 1)
Places == Pools \X Slots

NoPlace == <<0, 0>>

\* "none": not started; "accepting": its async_accept is pending on the connection
\* at; "accepted": in handle_accept, which has run that connection; "dead".
Chain(pc, at) == [pc |-> pc, at |-> at]
NotStarted == Chain("none", NoPlace)
Dead       == Chain("dead", NoPlace)
Started == {"accepting", "accepted"}

\* "raw": memory in which nothing was constructed; "accept": constructed for an
\* async_accept, which is pending, or has failed; "write", "read": that operation is pending;
\* "stopped": after shutdown(); "gone": its destructor was called; "dangling": it
\* was called while a handler bound to the connection had still to run.
Phases == {"raw", "accept", "write", "read", "stopped", "gone", "dangling"}

\* held: memorypool_shared_this_ is set.  in_use, memory: see HandlerAllocator.
Connections == [phase : Phases, open : BOOLEAN, held : BOOLEAN, timer : Timers,
                in_use : BOOLEAN, memory : Memories]
Raw == [phase |-> "raw", open |-> FALSE, held |-> FALSE, timer |-> NewTimer,
        in_use |-> FALSE, memory |-> "none"]
Destroyed(c) ==
    [Raw EXCEPT !.phase = IF c.phase \in {"write", "read"} THEN "dangling" ELSE "gone"]

Init ==
    /\ service = "starting"
    /\ chain = [a \in Acceptors |-> NotStarted]
    /\ pools = [p \in Pools |-> "unallocated"]
    /\ conn = [x \in Places |-> Raw]
    /\ waiting = Clients

-----------------------------------------------------------------------------
(***************************************************************************)
(* What happens to one connection.                                         *)
(***************************************************************************)

\* expiry > now().  (An unset expiry is not_a_date_time, which is not.)
AfterNow(expiry) == expiry \in {"future", "never"}

\* check_deadline().
Checked(c) ==
    IF c.phase # "stopped" /\ AfterNow(c.timer.expiry)
    THEN [c EXCEPT !.timer = AsyncWait(@)]
    ELSE [c EXCEPT !.open = FALSE, !.held = FALSE]

\* An operation is started, by the handler of the one before if there was one.
Begun(c, phase) == [Allocated(Deallocated(c), phase \in Fitting) EXCEPT !.phase = phase]

\* The constructor ends in check_deadline(), with no expiry set.
Built == Checked([Raw EXCEPT !.phase = "accept"])

\* Then the socket is given to an async_accept.
Constructed == Begun(Built, "accept")

\* Start an operation of the connection, with a new deadline.
Timed(c, phase) == [Begun(c, phase) EXCEPT !.timer = ExpiresFromNow(@)]

\* Mutant of Ran: the reference to the pool is not kept.
RanUnheld(c) == Timed([c EXCEPT !.open = TRUE], "write")

\* run(): hold the pool, send the file size.
Ran(c) == Timed([c EXCEPT !.open = TRUE, !.held = TRUE], "write")

\* shutdown(): the socket stays open, and the timer is cancelled.
ShutDown(c) == [Deallocated(c) EXCEPT !.phase = "stopped", !.timer.wait = Completed(@)]

-----------------------------------------------------------------------------
(***************************************************************************)
(* Pools.                                                                  *)
(***************************************************************************)

\* Mutant of Referred: the connections of a pool do not count.
ReferredByChain(p, ch, cn) == \E a \in Acceptors : ch[a].at[1] = p

\* A pool is referred to by the chain that fills it and by its connections.
Referred(p, ch, cn) ==
    \/ \E a \in Acceptors : ch[a].at[1] = p
    \/ \E s \in Slots : cn[<<p, s>>].held

\* The step leaves the chains in ch, the connections in cn and has allocated the
\* pools new: every pool nobody refers to any more is deleted, all its slots.
Settle(new, ch, cn) ==
    LET live == new \cup {p \in Pools : pools[p] = "live"}
        dead == {p \in live : ~Referred(p, ch, cn)}
    IN  /\ chain' = ch
        /\ pools' = [p \in Pools |-> IF p \in dead THEN "freed"
                                     ELSE IF p \in live THEN "live" ELSE pools[p]]
        /\ conn'  = [x \in Places |-> IF x[1] \in dead THEN Destroyed(cn[x]) ELSE cn[x]]

\* Mutant of IsFresh: the chains share their pools.
IsFirst(p) == p = 1

\* The pool that the next allocation returns.
IsFresh(p) ==
    /\ pools[p] = "unallocated"
    /\ \A q \in Pools : pools[q] = "unallocated" => p <= q

-----------------------------------------------------------------------------
(***************************************************************************)
(* T_server.                                                               *)
(***************************************************************************)

\* One turn of the constructor's loop.  If the connection cannot be constructed
\* (the file cannot be opened), or its accept not started, the pool is deleted, and
\* the constructor stops the services and throws.
StartAcceptor(a) ==
    /\ service = "starting"
    /\ chain[a] = NotStarted
    /\ \E p \in Pools :
        /\ IsFresh(p)
        /\ \/ /\ Settle({p}, [chain EXCEPT ![a] = Chain("accepting", <<p, 0>>)],
                        [conn EXCEPT ![<<p, 0>>] = Constructed])
              /\ UNCHANGED service
           \/ /\ Failures
              /\ \E c \in {conn[<<p, 0>>], Built} : Settle({p}, chain, [conn EXCEPT ![<<p, 0>>] = c])
              /\ service' = "stopped"
    /\ UNCHANGED waiting

\* The constructor returns when every chain was started.
Constructor ==
    /\ service = "starting"
    /\ \A a \in Acceptors : chain[a] # NotStarted
    /\ service' = "running"
    /\ UNCHANGED <<chain, pools, conn, waiting>>

Accepting(a) == service # "stopped" /\ chain[a].pc = "accepting"

\* Mutants of NextPlace: the chain starts again in the pool it has filled; goes one
\* slot too far; leaves the last slot of a pool; stops when the pool is full.
SamePool(p, s) == {<<p, (s + 1) % PoolSize>>}
NextPlaceLate(p, s) == {<<p, s + 1>>}
NextPlaceEarly(p, s) ==
    IF s + 2 < PoolSize THEN {<<p, s + 1>>}
    ELSE {<<q, 0>> : q \in {q \in Pools : IsFresh(q)}}
NextPlaceNone(p, s) == {<<p, t>> : t \in {t \in Slots : t = s + 1}}

\* Where a chain puts the connection after <<p, s>>: a new pool after the last slot.
NextPlace(p, s) ==
    IF s + 1 < PoolSize THEN {<<p, s + 1>>}
    ELSE {<<q, 0>> : q \in {q \in Pools : IsFresh(q)}}

\* What run() leaves: it catches what its async_write throws and shuts down.
Runs(c) == {Ran(c)} \cup IF Failures THEN {ShutDown(Ran(c))} ELSE {}

\* handle_accept() without error runs the connection, which from then on belongs to
\* the executors' threads.
HandleAccept(a) ==
    /\ Accepting(a) /\ waiting > 0
    /\ waiting' = waiting - 1
    /\ \E c \in Runs(conn[chain[a].at]) :
        Settle({}, [chain EXCEPT ![a].pc = "accepted"], [conn EXCEPT ![chain[a].at] = c])
    /\ UNCHANGED service

\* Then it constructs the next connection and accepts again.  If either throws, the
\* handler ends and the chain with it.  (stop_services waits for it to end.)
AcceptNext(a) ==
    /\ chain[a].pc = "accepted"
    /\ LET at == chain[a].at
       IN  \E x \in NextPlace(at[1], at[2]) :
            \/ Settle({x[1]} \ {at[1]}, [chain EXCEPT ![a] = Chain("accepting", x)],
                      [conn EXCEPT ![x] = Constructed])
            \/ /\ Failures
               /\ \E c \in {conn[x], Built} :
                   Settle({x[1]} \ {at[1]}, [chain EXCEPT ![a] = Dead], [conn EXCEPT ![x] = c])
    /\ UNCHANGED <<service, waiting>>

\* handle_accept() with an error does nothing: the chain ends.
HandleAcceptError(a) ==
    /\ Accepting(a) /\ Failures
    /\ Settle({}, [chain EXCEPT ![a] = Dead],
              [conn EXCEPT ![chain[a].at] = Deallocated(@)])
    /\ UNCHANGED <<service, waiting>>

-----------------------------------------------------------------------------
(***************************************************************************)
(* T_connection, run by the executors.                                     *)
(***************************************************************************)

Becomes(x, c) ==
    /\ service # "stopped"
    /\ Settle({}, chain, [conn EXCEPT ![x] = c])
    /\ UNCHANGED <<service, waiting>>

\* handle_write_to_client and handle_read_from_client without error.
HandleWriteToClient(x) ==
    conn[x].phase = "write" /\ conn[x].open /\ Becomes(x, Timed(conn[x], "read"))
HandleReadFromClient(x) ==
    conn[x].phase = "read" /\ conn[x].open /\ Becomes(x, Timed(conn[x], "write"))

\* What an outstanding wait on the deadline does to a connection: its time comes,
\* or its handler check_deadline() runs.
ByDeadline(c) ==
    CASE c.timer.wait = "pending" /\ c.timer.expiry = "future" ->
            {[c EXCEPT !.timer = Elapsed(@)]}
      [] c.timer.wait = "ready" -> {Checked([c EXCEPT !.timer = Taken(@)])}
      [] OTHER -> {}
Deadline(x) == \E c \in ByDeadline(conn[x]) : Becomes(x, c)

\* An operation ends with an error (the client left, or the socket was closed), or
\* the deadline comes in.
Interrupt(x) ==
    \E c \in (IF conn[x].phase \in {"write", "read"} THEN {ShutDown(conn[x])} ELSE {})
             \cup ByDeadline(conn[x]) : Becomes(x, c)

-----------------------------------------------------------------------------

Next ==
    \/ Constructor
    \/ \E a \in Acceptors : \/ StartAcceptor(a) \/ HandleAccept(a) \/ AcceptNext(a)
                           \/ HandleAcceptError(a)
    \/ \E x \in Places : \/ HandleWriteToClient(x) \/ HandleReadFromClient(x)
                         \/ Interrupt(x)

\* The threads of the pools run the handlers that are ready.
Fairness ==
    /\ WF_vars(Constructor)
    /\ \A a \in Acceptors : /\ WF_vars(StartAcceptor(a))
                           /\ WF_vars(HandleAccept(a)) /\ WF_vars(AcceptNext(a))
    /\ \A x \in Places : WF_vars(Deadline(x))

Spec     == Init /\ [][Next]_vars
FairSpec == Spec /\ Fairness

-----------------------------------------------------------------------------
(***************************************************************************)
(* Properties.                                                             *)
(***************************************************************************)

TypeOK ==
    /\ service \in {"starting", "running", "stopped"}
    /\ chain \in [Acceptors -> {Chain(pc, x) : pc \in Started, x \in Places}
                                \cup {NotStarted, Dead}]
    /\ pools \in [Pools -> {"unallocated", "live", "freed"}]
    /\ conn \in [Places -> Connections]
    /\ waiting \in 0..Clients

\* A chain never constructs a connection over one that was accepted, and no two
\* chains wait in the same slot: the placement new of T_connection::create only
\* ever meets raw memory.
SlotsAreFresh ==
    [][\A x \in Places :
        conn[x].phase \notin {"raw", "accept"} => conn'[x].phase # "accept"]_vars
OneChainPerSlot ==
    \A a, b \in Acceptors :
        a # b /\ chain[a].pc \in Started => chain[a].at # chain[b].at

\* Every handler that is still to run (accept, read, write) finds its connection
\* alive in a pool that is allocated, however the pool's other users come and go.
HandlersHaveObjects ==
    /\ \A a \in Acceptors :
        /\ chain[a].pc = "accepting" => conn[chain[a].at].phase = "accept"
        /\ chain[a].pc \in Started => pools[chain[a].at[1]] = "live"
    /\ \A x \in Places :
        /\ conn[x].phase # "dangling"
        /\ conn[x].phase \in {"accept", "write", "read"} => pools[x[1]] = "live"

\* A connection's handler lies in the connection's block whenever it fits, and the
\* block is free whenever it does not: the flag, which no lock protects, is in step
\* with the one handler that the connection has on any thread.
HandlersUseBlock ==
    \A x \in Places :
        /\ conn[x].memory # "none" <=>
            \/ conn[x].phase \in {"write", "read"}
            \/ \E a \in Acceptors : chain[a] = Chain("accepting", x)
        /\ conn[x].memory = "heap" => conn[x].phase \notin Fitting
        /\ conn[x].in_use <=> conn[x].memory = "block"

\* A chain leaves a pool for another one only when every slot of the pool has been
\* given a connection: whoever deletes the pool, later and on another thread, then
\* destroys no raw slot of it.
ChainsFillPools ==
    [][\A a \in Acceptors :
        chain[a].pc = "accepted" /\ chain'[a].pc \in Started /\ chain'[a].at[1] # chain[a].at[1] =>
            \A s \in Slots : conn[<<chain[a].at[1], s>>].phase # "raw"]_vars

\* A pool's deleter calls the destructors of connections: every slot it destroys
\* was constructed ("call to destructors of each of connections in memory pool").
OnlyConnectionsAreDestroyed ==
    [][\A p \in Pools :
        pools'[p] = "freed" /\ pools[p] # "freed" =>
            \A s \in Slots : conn[<<p, s>>].phase # "raw"]_vars

\* A connection that was shut down lets go of its pool ("stoped event loop and the
\* deadline-timer can destruct object").
StoppedIsReleased ==
    \A x \in Places : (conn[x].phase = "stopped") ~> ~conn[x].held

\* As long as one chain is left, every client is accepted.
ClientsAreAccepted ==
    waiting > 0 ~> (waiting = 0 \/ service = "stopped" \/ \A a \in Acceptors : chain[a] = Dead)

\* What AcceptService sees of a connection.
LifeOf(c) ==
    CASE c.phase = "raw"                  -> "unused"
      [] c.phase = "accept"               -> "offered"
      [] c.phase \in {"write", "read"}    -> "served"
      [] c.phase = "stopped"              -> "ended"
      [] c.phase \in {"gone", "dangling"} -> "over"

\* Whatever the threads do, the server is a service that gives each client a
\* connection of its own and takes the connection's memory back only after it.
Service == INSTANCE AcceptService WITH
    backlog <- waiting,
    life    <- [x \in Places |-> LifeOf(conn[x])]

IsAcceptService == Service!Spec
=============================================================================
