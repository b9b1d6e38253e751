---------------------------- MODULE AcceptService ----------------------------
(***************************************************************************)
(* What T_server promises: every client that is accepted gets a connection *)
(* object of its own, constructed for it in memory that no other client    *)
(* ever uses, and the object lives until the conversation has ended.       *)
(***************************************************************************)
EXTENDS Naturals

CONSTANTS
    Places,    \* the places where connections can be constructed
    Clients    \* how many clients come

VARIABLES
    backlog,   \* the clients not yet accepted
    life       \* of each place, in this order: "unused", "offered" (constructed, in an
               \* accept), "served", "ended" and "over" (the memory is given back)

vars == <<backlog, life>>

Init ==
    /\ backlog = Clients
    /\ life = [x \in Places |-> "unused"]

\* The places whose memory is not that of a conversation.
Free == {x \in Places : life[x] # "served"}

\* The memory of the places in S is given back.
Returned(S, f) == [x \in Places |-> IF x \in S THEN "over" ELSE f[x]]

Return(S) ==
    /\ life' = Returned(S, life)
    /\ UNCHANGED backlog

Offer(x, S) ==
    /\ life[x] = "unused"
    /\ x \notin S
    /\ life' = Returned(S, [life EXCEPT ![x] = "offered"])
    /\ UNCHANGED backlog

\* (The conversation may end as soon as it begins.)
Accept(x) ==
    /\ life[x] = "offered"
    /\ backlog > 0
    /\ backlog' = backlog - 1
    /\ \E l \in {"served", "ended"} : life' = [life EXCEPT ![x] = l]

End(x) ==
    /\ life[x] = "served"
    /\ life' = [life EXCEPT ![x] = "ended"]
    /\ UNCHANGED backlog

Next ==
    \/ \E S \in SUBSET Free : Return(S) \/ \E x \in Places : Offer(x, S)
    \/ \E x \in Places : Accept(x) \/ End(x)

Spec == Init /\ [][Next]_vars
=============================================================================
