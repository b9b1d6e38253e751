---------------------------- MODULE BlockService ----------------------------
(***************************************************************************)
(* What a T_get_data source promises the viewer (get_data.hpp): once it is *)
(* open, load(i) either gives the text of the page asked for or throws,    *)
(* and a source that has thrown never answers again: the viewer must open  *)
(* another one.                                                            *)
(***************************************************************************)
EXTENDS Paging

VARIABLES
    phase,    \* "opening", "ready", "asked" or "closed"
    lost,     \* a load of this source has thrown
    size,     \* the size of the file, 0 until the source is open
    want,     \* the page of the last load
    answer    \* the text the last load returned, or NoAnswer

vars == <<phase, lost, size, want, answer>>

NoAnswer == -2

Init ==
    /\ phase = "opening"
    /\ lost = FALSE
    /\ size = 0
    /\ want = 0
    /\ answer = NoAnswer

Opened ==
    /\ phase = "opening"
    /\ phase' = "ready"
    /\ size' \in Nat
    /\ UNCHANGED <<lost, want, answer>>

OpenFailed ==
    /\ phase = "opening"
    /\ phase' = "closed"
    /\ UNCHANGED <<lost, size, want, answer>>

Ask ==
    /\ phase = "ready"
    /\ phase' = "asked"
    /\ want' \in 0..MaxBlock(size)
    /\ answer' = NoAnswer
    /\ UNCHANGED <<lost, size>>

Answer ==
    /\ phase = "asked"
    /\ ~lost
    /\ phase' = "ready"
    /\ answer' = PageOf(want, size)
    /\ UNCHANGED <<lost, size, want>>

Fail ==
    /\ phase = "asked"
    /\ phase' = "ready"
    /\ lost' = TRUE
    /\ UNCHANGED <<size, want, answer>>

Close ==
    /\ phase = "ready"
    /\ phase' = "closed"
    /\ size' = 0
    /\ answer' = NoAnswer
    /\ UNCHANGED <<lost, want>>

Reopen ==
    /\ phase = "closed"
    /\ phase' = "opening"
    /\ lost' = FALSE
    /\ want' = 0
    /\ UNCHANGED <<size, answer>>

Next == Opened \/ OpenFailed \/ Ask \/ Answer \/ Fail \/ Close \/ Reopen

\* The safety part of the contract: every behaviour of a source is one of these.
Spec == Init /\ [][Next]_vars

\* The liveness part: every load ends.
EveryLoadEnds == (phase = "asked") ~> (phase # "asked")
=============================================================================
