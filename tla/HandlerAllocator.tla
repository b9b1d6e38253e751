-------------------------- MODULE HandlerAllocator --------------------------
(***************************************************************************)
(* T_handler_allocator (handler_allocator.hpp): one block of memory inside *)
(* the connection for the handler of its pending operation.  A record with *)
(* the fields below holds the flag and says where the handler lies:        *)
(*   in_use  the flag in_use_                                              *)
(*   memory  "none" (no handler), "block" or "heap"                        *)
(* Asio allocates when an operation is started, and gives the memory back  *)
(* before it calls the handler.                                            *)
(***************************************************************************)

Memories == {"none", "block", "heap"}

\* allocate(): the block if it is free and large enough.
Allocated(r, fits) ==
    IF ~r.in_use /\ fits THEN [r EXCEPT !.in_use = TRUE, !.memory = "block"]
    ELSE [r EXCEPT !.memory = "heap"]

\* Mutant of Deallocated: the flag stays.
DeallocatedInUse(r) == [r EXCEPT !.memory = "none"]

\* deallocate(): the flag is reset if the memory is the block.
Deallocated(r) ==
    [r EXCEPT !.in_use = @ /\ r.memory # "block", !.memory = "none"]
=============================================================================
