---------------------------- MODULE DeadlineTimer ----------------------------
(***************************************************************************)
(* boost::asio::deadline_timer, as client.cpp and connection.cpp use it.   *)
(* A timer has an expiry time, seen only relative to now, and at most one  *)
(* asynchronous wait:                                                      *)
(*   expiry  "unset"  no expiry was ever set (the constructed timer)       *)
(*           "never"  pos_infin                                            *)
(*           "future" set by expires_from_now(timeout_), not reached yet   *)
(*           "past"   reached                                              *)
(*   wait    "none"    no async_wait outstanding                           *)
(*           "pending" async_wait outstanding                              *)
(*           "ready"   its handler is queued in the io_service, because    *)
(*                     the time came or because the wait was cancelled     *)
(* The error code the handler is given does not matter here: T_client      *)
(* ignores it and T_connection treats success and operation_aborted alike. *)
(***************************************************************************)

Expiries == {"unset", "never", "future", "past"}
Waits    == {"none", "pending", "ready"}
Timers   == [expiry : Expiries, wait : Waits]

NewTimer == [expiry |-> "unset", wait |-> "none"]

\* A pending wait completes; any other is left as it is.
Completed(wait) == IF wait = "pending" THEN "ready" ELSE wait

\* Setting the expiry time, like cancel(), completes the pending wait.
ExpiresFromNow(t) == [expiry |-> "future", wait |-> Completed(t.wait)]
ExpiresNever(t)   == [expiry |-> "never", wait |-> Completed(t.wait)]

\* The handler of the wait is taken from the queue.
Taken(t) == [t EXCEPT !.wait = "none"]

\* async_wait with the handler check_deadline.
AsyncWait(t) ==
    [t EXCEPT !.wait = IF t.expiry = "past" THEN "ready" ELSE "pending"]

\* The clock reaches the expiry time.
Elapsed(t) == [expiry |-> "past", wait |-> Completed(t.wait)]
=============================================================================
