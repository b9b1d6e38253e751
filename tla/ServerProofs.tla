----------------------------- MODULE ServerProofs -----------------------------
(***************************************************************************)
(* Proofs about Server, for every number of chains, clients and pools,     *)
(* every pool size and every choice of handlers that fit the allocator's   *)
(* block, with or without failures.                                        *)
(*                                                                         *)
(* Almost every action ends in Settle, which deletes pools.  So the        *)
(* invariant is stated of any chains, pools and connections: an action     *)
(* keeps it before pools are deleted, and Settle keeps it.                 *)
(***************************************************************************)
EXTENDS Server, TLAPS

\* A connection by itself: its timer waits for nothing, it holds its pool from run()
\* on, and the allocator's flag says where its handler lies.
Tidy(c) ==
    /\ c \in Connections
    /\ c.timer.wait = "none"
    /\ c.phase \in {"write", "read", "stopped"} => c.held
    /\ c.in_use <=> c.memory = "block"
    /\ c.memory = "heap" => c.phase \notin Fitting

Gone == [Raw EXCEPT !.phase = "gone"]

\* A chain: its connection is where the chain is, the slots before it were given
\* connections and those after it are raw, and no other chain is in that pool.
ChainInv(a, ch, pl, cn) ==
    ch[a].pc \in Started =>
        /\ pl[ch[a].at[1]] = "live"
        /\ ch[a].pc = "accepting" => cn[ch[a].at].phase = "accept"
        /\ ch[a].pc = "accepted" => cn[ch[a].at].phase \in {"write", "read", "stopped"}
        /\ \A s \in Slots : s < ch[a].at[2] => cn[<<ch[a].at[1], s>>].phase # "raw"
        /\ \A s \in Slots : s > ch[a].at[2] => cn[<<ch[a].at[1], s>>] = Raw
        /\ \A b \in Acceptors \ {a} : ch[b].pc \in Started => ch[b].at[1] # ch[a].at[1]

\* A place: what lies there goes with the state of its pool, and it has a handler
\* when an operation is pending there.
PlaceInv(x, ch, pl, cn) ==
    /\ Tidy(cn[x])
    /\ pl[x[1]] = "unallocated" => cn[x] = Raw
    /\ pl[x[1]] = "live" => cn[x].phase \notin {"gone", "dangling"}
    /\ pl[x[1]] = "freed" => cn[x] = Gone
    /\ cn[x].memory # "none" <=>
        \/ cn[x].phase \in {"write", "read"}
        \/ \E a \in Acceptors : ch[a] = Chain("accepting", x)

ChainTypes == {Chain(pc, x) : pc \in Started, x \in Places} \cup {NotStarted, Dead}
PoolTypes  == {"unallocated", "live", "freed"}

Good(ch, pl, cn) ==
    /\ ch \in [Acceptors -> ChainTypes]
    /\ pl \in [Pools -> PoolTypes]
    /\ cn \in [Places -> Connections]
    /\ \A a \in Acceptors : ChainInv(a, ch, pl, cn)
    /\ \A x \in Places : PlaceInv(x, ch, pl, cn)

\* The inductive invariant.
IInv ==
    /\ service \in {"starting", "running", "stopped"}
    /\ waiting \in 0..Clients
    /\ Good(chain, pools, conn)
    /\ \A p \in Pools : pools[p] = "live" => Referred(p, chain, conn)

\* The pools once those in new are allocated.
WithLive(new) == [p \in Pools |-> IF p \in new THEN "live" ELSE pools[p]]

-----------------------------------------------------------------------------
(***************************************************************************)
(* One connection.                                                         *)
(***************************************************************************)

LEMMA RawIsTidy == Tidy(Raw) /\ Tidy(Gone)
  BY DEF Tidy, Raw, Gone, Connections, Phases, Timers, Expiries, Waits, NewTimer, Memories

LEMMA BegunIsTidy ==
    ASSUME NEW c, Tidy(c), NEW ph \in Phases,
           ph \in {"write", "read", "stopped"} => c.held
    PROVE  LET d == Begun(c, ph)
           IN  Tidy(d) /\ d.phase = ph /\ d.memory # "none" /\ d.held = c.held
                /\ d.timer = c.timer
<1> DEFINE e == Deallocated(c)
<1>1. /\ e \in Connections /\ ~e.in_use /\ e.memory = "none"
      /\ e.held = c.held /\ e.timer = c.timer
  BY DEF Tidy, Deallocated, Connections, Memories
<1> HIDE DEF e
<1>2. CASE ph \in Fitting
  <2>1. Begun(c, ph) = [e EXCEPT !.in_use = TRUE, !.memory = "block", !.phase = ph]
    BY <1>1, <1>2 DEF Begun, Allocated, e, Connections
  <2> QED
    BY <1>1, <1>2, <2>1 DEF Tidy, Connections, Memories
<1>3. CASE ph \notin Fitting
  <2>1. Begun(c, ph) = [e EXCEPT !.memory = "heap", !.phase = ph]
    BY <1>1, <1>3 DEF Begun, Allocated, e, Connections
  <2> QED
    BY <1>1, <1>3, <2>1 DEF Tidy, Connections, Memories
<1> QED
  BY <1>2, <1>3

\* The constructor's check_deadline() starts no wait.
LEMMA BuiltIsTidy ==
    Tidy(Built) /\ Built.phase = "accept" /\ Built.memory = "none"
<1> DEFINE c == [Raw EXCEPT !.phase = "accept"]
<1>1. /\ c \in Connections /\ c.phase = "accept" /\ c.timer = NewTimer
      /\ ~c.open /\ ~c.held /\ ~c.in_use /\ c.memory = "none"
  BY DEF Raw, Connections, Phases, Timers, Expiries, Waits, NewTimer, Memories
<1>2. Tidy(c)
  BY <1>1 DEF Tidy, NewTimer
<1> HIDE DEF c
<1>3. ~AfterNow(c.timer.expiry)
  BY <1>1 DEF AfterNow, NewTimer
<1>4. Checked(c) = [c EXCEPT !.open = FALSE, !.held = FALSE]
  BY <1>3 DEF Checked
<1>5. Built = c
  BY <1>1, <1>4 DEF Built, Connections, c
<1> QED
  BY <1>1, <1>2, <1>5

LEMMA ConstructedIsTidy ==
    Tidy(Constructed) /\ Constructed.phase = "accept" /\ Constructed.memory # "none"
  BY BuiltIsTidy, BegunIsTidy DEF Constructed, Phases

LEMMA TimedIsTidy ==
    ASSUME NEW c, Tidy(c), c.held, NEW ph \in {"write", "read"}
    PROVE  LET d == Timed(c, ph)
           IN  Tidy(d) /\ d.phase = ph /\ d.memory # "none" /\ d.held
<1> DEFINE e == Begun(c, ph)
<1>1. Tidy(e) /\ e.phase = ph /\ e.memory # "none" /\ e.held
  BY BegunIsTidy DEF Phases
<1> HIDE DEF e
<1>2. Timed(c, ph) = [e EXCEPT !.timer = ExpiresFromNow(e.timer)]
  BY DEF Timed, e
<1>3. ExpiresFromNow(e.timer) \in Timers /\ ExpiresFromNow(e.timer).wait = "none"
  BY <1>1 DEF Tidy, ExpiresFromNow, Completed, Timers, Expiries, Waits
<1> QED
  BY <1>1, <1>2, <1>3 DEF Tidy, Connections

LEMMA ShutDownIsTidy ==
    ASSUME NEW c, Tidy(c), c.held
    PROVE  LET d == ShutDown(c)
           IN  Tidy(d) /\ d.phase = "stopped" /\ d.memory = "none" /\ d.held
<1> DEFINE e == Deallocated(c)
<1>1. /\ e \in Connections /\ ~e.in_use /\ e.memory = "none"
      /\ e.held = c.held /\ e.timer = c.timer
  BY DEF Tidy, Deallocated, Connections, Memories
<1> HIDE DEF e
<1>2. ShutDown(c) = [e EXCEPT !.phase = "stopped", !.timer.wait = Completed(e.timer.wait)]
  BY DEF ShutDown, e
<1>3. e.timer \in Timers /\ Completed(e.timer.wait) = "none" /\ e.timer.wait = "none"
  BY <1>1 DEF Tidy, Completed, Connections
<1>4. [e.timer EXCEPT !.wait = "none"] = e.timer
  BY <1>3 DEF Timers
<1>5. ShutDown(c) = [e EXCEPT !.phase = "stopped", !.timer = e.timer]
  BY <1>2, <1>3, <1>4
<1> QED
  BY <1>1, <1>3, <1>5 DEF Tidy, Connections, Phases

-----------------------------------------------------------------------------
(***************************************************************************)
(* Deleting pools.                                                         *)
(***************************************************************************)

LEMMA PlaceIs ==
    /\ \A x \in Places : x[1] \in Pools /\ x[2] \in Slots /\ x = <<x[1], x[2]>>
    /\ \A p \in Pools, s \in Slots : <<p, s>> \in Places /\ <<p, s>>[1] = p /\ <<p, s>>[2] = s
  BY DEF Places

\* What the pools that are deleted leave, and that they were not needed.
LEMMA SettleIs ==
    ASSUME NEW new \in SUBSET Pools, NEW ch, NEW cn, Good(ch, WithLive(new), cn),
           Settle(new, ch, cn)
    PROVE  \E dead \in SUBSET Pools :
               /\ \A p \in Pools : p \in dead <=> /\ WithLive(new)[p] = "live"
                                              /\ ~Referred(p, ch, cn)
               /\ chain' = ch
               /\ pools' = [p \in Pools |-> IF p \in dead THEN "freed" ELSE WithLive(new)[p]]
               /\ conn'  = [x \in Places |-> IF x[1] \in dead THEN Gone ELSE cn[x]]
<1> DEFINE live == new \cup {p \in Pools : pools[p] = "live"}
           dead == {p \in live : ~Referred(p, ch, cn)}
<1>1. /\ chain' = ch
      /\ pools' = [p \in Pools |-> IF p \in dead THEN "freed"
                                   ELSE IF p \in live THEN "live" ELSE pools[p]]
      /\ conn'  = [x \in Places |-> IF x[1] \in dead THEN Destroyed(cn[x]) ELSE cn[x]]
  BY DEF Settle
<1>2. \A p \in Pools : p \in live <=> WithLive(new)[p] = "live"
  BY DEF WithLive
<1>3. \A p \in Pools : p \notin live => WithLive(new)[p] = pools[p]
  BY DEF WithLive
<1>4. ASSUME NEW x \in Places, x[1] \in dead PROVE Destroyed(cn[x]) = Gone
  <2>1. ~cn[x].held
    BY <1>4, PlaceIs DEF Referred
  <2>2. cn[x].phase \notin {"write", "read"}
    BY <2>1 DEF Good, PlaceInv, Tidy
  <2> QED
    BY <2>2 DEF Destroyed, Gone
<1>5. dead \in SUBSET Pools /\ \A p \in Pools : p \in dead <=> p \in live /\ ~Referred(p, ch, cn)
  OBVIOUS
<1> HIDE DEF live, dead
<1>6. pools' = [p \in Pools |-> IF p \in dead THEN "freed" ELSE WithLive(new)[p]]
  BY <1>1, <1>2, <1>3
<1>7. conn' = [x \in Places |-> IF x[1] \in dead THEN Gone ELSE cn[x]]
  BY <1>1, <1>4
<1> QED
  BY <1>1, <1>2, <1>5, <1>6, <1>7

LEMMA SettleGood ==
    ASSUME NEW new \in SUBSET Pools, NEW ch, NEW cn, Good(ch, WithLive(new), cn),
           Settle(new, ch, cn)
    PROVE  /\ Good(chain, pools, conn)'
           /\ \A p \in Pools : pools'[p] = "live" => Referred(p, chain', conn')
<1> DEFINE pl == WithLive(new)
<1>1. PICK dead \in SUBSET Pools :
        /\ \A p \in Pools : p \in dead <=> pl[p] = "live" /\ ~Referred(p, ch, cn)
        /\ chain' = ch
        /\ pools' = [p \in Pools |-> IF p \in dead THEN "freed" ELSE pl[p]]
        /\ conn'  = [x \in Places |-> IF x[1] \in dead THEN Gone ELSE cn[x]]
  BY SettleIs
<1> HIDE DEF pl
<1>2. Good(ch, pl, cn)
  BY DEF pl
<1>3. \A a \in Acceptors : ch[a].pc \in Started => ch[a].at \in Places /\ ch[a].at[1] \notin dead
  <2>1. SUFFICES ASSUME NEW a \in Acceptors, ch[a].pc \in Started
                 PROVE  ch[a].at \in Places /\ ch[a].at[1] \notin dead
    OBVIOUS
  <2>2. ch[a].at \in Places
    BY <1>2, <2>1 DEF Good, ChainTypes, Chain, Started, NotStarted, Dead
  <2> QED
    BY <1>1, <2>2, PlaceIs DEF Referred
<1>4. /\ chain' \in [Acceptors -> ChainTypes]
      /\ pools' \in [Pools -> PoolTypes]
      /\ conn' \in [Places -> Connections]
  BY <1>1, <1>2, RawIsTidy, PlaceIs DEF Good, PoolTypes, Tidy
<1>5. ASSUME NEW a \in Acceptors PROVE ChainInv(a, chain', pools', conn')
  BY <1>1, <1>2, <1>3, PlaceIs DEF Good, ChainInv
<1>6. ASSUME NEW x \in Places PROVE PlaceInv(x, chain', pools', conn')
  <2>1. PlaceInv(x, ch, pl, cn)
    BY <1>2 DEF Good
  <2>2. CASE x[1] \notin dead
    BY <1>1, <2>1, <2>2, PlaceIs DEF PlaceInv
  <2>3. CASE x[1] \in dead
    <3>1. conn'[x] = Gone /\ pools'[x[1]] = "freed"
      BY <1>1, <2>3, PlaceIs
    <3>2. \A a \in Acceptors : chain'[a] # Chain("accepting", x)
      BY <1>1, <1>3, <2>3 DEF Chain, Started
    <3> QED
      BY <3>1, <3>2, RawIsTidy DEF PlaceInv, Gone, Raw
  <2> QED
    BY <2>2, <2>3
<1>7. ASSUME NEW p \in Pools, pools'[p] = "live" PROVE Referred(p, chain', conn')
  <2>1. p \notin dead /\ pl[p] = "live" /\ Referred(p, ch, cn)
    BY <1>1, <1>7
  <2> QED
    BY <1>1, <2>1, PlaceIs DEF Referred
<1> QED
  BY <1>4, <1>5, <1>6, <1>7 DEF Good

-----------------------------------------------------------------------------
(***************************************************************************)
(* What the actions do before pools are deleted.                           *)
(***************************************************************************)

LEMMA NoneNew ==
    ASSUME Good(chain, pools, conn) PROVE WithLive({}) = pools
  BY DEF Good, WithLive

LEMMA RawIs == Raw.phase = "raw" /\ Raw.memory = "none"
  BY DEF Raw

LEMMA ChainIs ==
    /\ \A pc, x : Chain(pc, x).pc = pc /\ Chain(pc, x).at = x
    /\ \A pc \in Started, x \in Places : Chain(pc, x) \in ChainTypes
    /\ NotStarted \in ChainTypes /\ NotStarted.pc = "none"
    /\ Dead \in ChainTypes /\ Dead.pc = "dead"
    /\ \A c \in ChainTypes : c.pc \in Started => c = Chain(c.pc, c.at) /\ c.at \in Places
<1>1. \A pc, x : Chain(pc, x).pc = pc /\ Chain(pc, x).at = x
  BY DEF Chain
<1>2. NotStarted.pc = "none" /\ Dead.pc = "dead"
  BY <1>1 DEF NotStarted, Dead
<1>3. \A pc \in Started, x \in Places : Chain(pc, x) \in ChainTypes
  BY DEF ChainTypes
<1>4. \A c \in ChainTypes : c.pc \in Started => \E pc \in Started, x \in Places : c = Chain(pc, x)
  BY <1>2 DEF ChainTypes, Started
<1> QED
  BY <1>1, <1>2, <1>3, <1>4 DEF ChainTypes

\* A pool is allocated.
LEMMA AllocGood ==
    ASSUME Good(chain, pools, conn), NEW p \in Pools, IsFresh(p)
    PROVE  /\ Good(chain, WithLive({p}), conn)
           /\ \A s \in Slots : conn[<<p, s>>] = Raw
           /\ \A b \in Acceptors : chain[b].pc \in Started => chain[b].at[1] # p
<1>1. \A q \in Pools : WithLive({p})[q] = IF q = p THEN "live" ELSE pools[q]
  BY DEF WithLive
<1>2. pools[p] = "unallocated"
  BY DEF IsFresh
<1>3. WithLive({p}) \in [Pools -> PoolTypes]
  BY DEF Good, WithLive, PoolTypes
<1>4. \A s \in Slots : conn[<<p, s>>] = Raw
  BY <1>2, PlaceIs DEF Good, PlaceInv
<1>5. \A b \in Acceptors : chain[b].pc \in Started => chain[b].at[1] # p /\ chain[b].at \in Places
  BY <1>2, ChainIs DEF Good, ChainInv
<1>6. ASSUME NEW a \in Acceptors PROVE ChainInv(a, chain, WithLive({p}), conn)
  BY <1>1, <1>5, PlaceIs DEF Good, ChainInv
<1>7. ASSUME NEW x \in Places PROVE PlaceInv(x, chain, WithLive({p}), conn)
  <2>1. PlaceInv(x, chain, pools, conn)
    BY DEF Good
  <2>2. CASE x[1] = p
    <3>1. conn[x] = Raw
      BY <1>4, <2>2, PlaceIs
    <3> QED
      BY <1>1, <2>1, <2>2, <3>1, RawIs DEF PlaceInv
  <2>3. CASE x[1] # p
    BY <1>1, <2>1, <2>3, PlaceIs DEF PlaceInv
  <2> QED
    BY <2>2, <2>3
<1> QED
  BY <1>3, <1>4, <1>5, <1>6, <1>7 DEF Good

\* A chain constructs its next connection and accepts.
LEMMA PlacedGood ==
    ASSUME NEW pl, Good(chain, pl, conn),
           NEW a \in Acceptors, chain[a].pc # "accepting",
           NEW x \in Places, pl[x[1]] = "live",
           \A s \in Slots : s < x[2] => conn[<<x[1], s>>].phase # "raw",
           \A s \in Slots : s >= x[2] => conn[<<x[1], s>>] = Raw,
           \A b \in Acceptors \ {a} : chain[b].pc \in Started => chain[b].at[1] # x[1]
    PROVE  Good([chain EXCEPT ![a] = Chain("accepting", x)], pl, [conn EXCEPT ![x] = Constructed])
<1> DEFINE ch == [chain EXCEPT ![a] = Chain("accepting", x)]
           cn == [conn EXCEPT ![x] = Constructed]
<1>1. ch \in [Acceptors -> ChainTypes] /\ cn \in [Places -> Connections]
  BY ChainIs, ConstructedIsTidy DEF Good, Tidy, Started
<1>2. \A b \in Acceptors : ch[b] = IF b = a THEN Chain("accepting", x) ELSE chain[b]
  BY DEF Good
<1>3. \A y \in Places : cn[y] = IF y = x THEN Constructed ELSE conn[y]
  BY DEF Good
<1> HIDE DEF ch, cn
<1>4. \A s \in Slots : s \in Nat
  BY PoolSizeAssumption DEF Slots
<1>5. ASSUME NEW b \in Acceptors PROVE ChainInv(b, ch, pl, cn)
  <2>1. CASE b = a
    <3>1. ch[a].pc = "accepting" /\ ch[a].at = x
      BY <1>2, ChainIs
    <3>2. x[1] \in Pools /\ x[2] \in Nat /\ x = <<x[1], x[2]>>
      BY <1>4, PlaceIs
    <3>3. \A d \in Acceptors \ {a} : ch[d].pc \in Started => ch[d].at[1] # ch[a].at[1]
      BY <1>2, <3>1
    <3>4. cn[ch[a].at].phase = "accept" /\ pl[ch[a].at[1]] = "live"
      BY <1>3, <3>1, ConstructedIsTidy
    <3>5. \A s \in Slots : s < ch[a].at[2] => cn[<<ch[a].at[1], s>>].phase # "raw"
      <4>1. SUFFICES ASSUME NEW s \in Slots, s < x[2] PROVE cn[<<x[1], s>>].phase # "raw"
        BY <3>1, Zenon
      <4>2. <<x[1], s>> \in Places /\ <<x[1], s>> # x
        BY <1>4, <3>2, <4>1, PlaceIs
      <4> QED
        BY <1>3, <4>1, <4>2
    <3>6. \A s \in Slots : s > ch[a].at[2] => cn[<<ch[a].at[1], s>>] = Raw
      <4>1. SUFFICES ASSUME NEW s \in Slots, s > x[2] PROVE cn[<<x[1], s>>] = Raw
        BY <3>1, Zenon
      <4>2. <<x[1], s>> \in Places /\ <<x[1], s>> # x /\ s >= x[2]
        BY <1>4, <3>2, <4>1, PlaceIs
      <4> QED
        BY <1>3, <4>2
    <3>7. ChainInv(a, ch, pl, cn)
      BY <3>1, <3>3, <3>4, <3>5, <3>6 DEF ChainInv
    <3> QED
      BY <2>1, <3>7
  <2>2. CASE b # a /\ chain[b].pc \in Started
    <3>1. ch[b] = chain[b] /\ chain[b].at \in Places /\ chain[b].at[1] # x[1]
      BY <1>2, <2>2, ChainIs DEF Good
    <3>2. cn[chain[b].at] = conn[chain[b].at]
          /\ \A s \in Slots : cn[<<chain[b].at[1], s>>] = conn[<<chain[b].at[1], s>>]
      BY <1>3, <3>1, PlaceIs
    <3>3. \A c \in Acceptors \ {b} : ch[c].pc \in Started => ch[c].at[1] # chain[b].at[1]
      BY <1>2, <2>2, <3>1, ChainIs DEF Good, ChainInv
    <3> QED
      BY <2>2, <3>1, <3>2, <3>3 DEF Good, ChainInv
  <2>3. CASE b # a /\ chain[b].pc \notin Started
    BY <1>2, <2>3 DEF ChainInv
  <2> QED
    BY <2>1, <2>2, <2>3
<1>6. ASSUME NEW y \in Places PROVE PlaceInv(y, ch, pl, cn)
  <2>1. CASE y = x
    <3>1. cn[y] = Constructed /\ ch[a] = Chain("accepting", y)
      BY <1>2, <1>3, <2>1
    <3> QED
      BY <2>1, <3>1, ConstructedIsTidy DEF PlaceInv
  <2>2. CASE y # x
    <3>1. \A b \in Acceptors : ch[b] = Chain("accepting", y) <=> chain[b] = Chain("accepting", y)
      BY <1>2, <2>2, ChainIs
    <3> QED
      BY <1>3, <2>2, <3>1 DEF Good, PlaceInv
  <2> QED
    BY <2>1, <2>2
<1> QED
  BY <1>1, <1>5, <1>6 DEF Good, ch, cn

\* The next connection of a chain cannot be constructed, or its accept not started: no
\* chain fills its pool.
LEMMA FailedGood ==
    ASSUME NEW pl, Good(chain, pl, conn),
           NEW a \in Acceptors, chain[a].pc # "accepting",
           NEW ch, \/ ch = [chain EXCEPT ![a] = Dead]
                   \/ ch = chain /\ chain[a].pc \notin Started,
           NEW x \in Places, pl[x[1]] = "live", conn[x] = Raw,
           \A b \in Acceptors \ {a} : chain[b].pc \in Started => chain[b].at[1] # x[1],
           NEW c \in {conn[x], Built}
    PROVE  Good(ch, pl, [conn EXCEPT ![x] = c])
<1> DEFINE cn == [conn EXCEPT ![x] = c]
<1>1. Tidy(c) /\ c.phase \in {"raw", "accept"} /\ c.memory = "none"
  BY RawIsTidy, RawIs, BuiltIsTidy
<1>2. /\ ch \in [Acceptors -> ChainTypes]
      /\ ch[a].pc \notin Started
      /\ \A b \in Acceptors \ {a} : ch[b] = chain[b]
  BY ChainIs DEF Good, Started
<1>3. /\ cn \in [Places -> Connections]
      /\ \A y \in Places : cn[y] = IF y = x THEN c ELSE conn[y]
  BY <1>1 DEF Good, Tidy
<1> HIDE DEF cn
<1>4. ASSUME NEW b \in Acceptors PROVE ChainInv(b, ch, pl, cn)
  <2>1. SUFFICES ASSUME b # a, chain[b].pc \in Started PROVE ChainInv(b, ch, pl, cn)
    BY <1>2 DEF ChainInv
  <2>2. chain[b].at \in Places /\ chain[b].at[1] # x[1] /\ ch[b] = chain[b]
    BY <1>2, <2>1, ChainIs DEF Good
  <2>3. /\ cn[chain[b].at] = conn[chain[b].at]
        /\ \A s \in Slots : cn[<<chain[b].at[1], s>>] = conn[<<chain[b].at[1], s>>]
    BY <1>3, <2>2, PlaceIs
  <2>4. \A d \in Acceptors \ {b} : ch[d].pc \in Started => ch[d].at[1] # chain[b].at[1]
    BY <1>2, <2>1 DEF Good, ChainInv
  <2> QED
    BY <2>1, <2>2, <2>3, <2>4 DEF Good, ChainInv
<1>5. ASSUME NEW y \in Places PROVE PlaceInv(y, ch, pl, cn)
  <2>1. \A b \in Acceptors : ch[b] = Chain("accepting", y) => chain[b] = Chain("accepting", y)
    BY <1>2, ChainIs DEF Started
  <2>2. \A b \in Acceptors : chain[b] = Chain("accepting", y) => ch[b] = Chain("accepting", y)
    BY <1>2, ChainIs
  <2>3. CASE y = x
    <3>1. \A b \in Acceptors : ch[b] # Chain("accepting", x)
      BY <1>2, ChainIs DEF Started
    <3> QED
      BY <1>1, <1>3, <2>3, <3>1 DEF PlaceInv
  <2>4. CASE y # x
    BY <1>3, <2>1, <2>2, <2>4 DEF Good, PlaceInv
  <2> QED
    BY <2>3, <2>4
<1> QED
  BY <1>2, <1>3, <1>4, <1>5 DEF Good, cn

\* What run() and the handlers of a connection may make of it.
Running(c) ==
    /\ Tidy(c)
    /\ c.phase \in {"write", "read", "stopped"}
    /\ c.memory # "none" <=> c.phase \in {"write", "read"}

LEMMA ServedGood ==
    ASSUME Good(chain, pools, conn),
           NEW x \in Places, conn[x].phase \in {"write", "read"}, NEW c, Running(c)
    PROVE  Good(chain, pools, [conn EXCEPT ![x] = c])
<1> DEFINE cn == [conn EXCEPT ![x] = c]
<1>1. cn \in [Places -> Connections]
  BY DEF Good, Running, Tidy
<1>2. \A y \in Places : cn[y] = IF y = x THEN c ELSE conn[y]
  BY DEF Good
<1> HIDE DEF cn
<1>3. PlaceInv(x, chain, pools, conn)
  BY DEF Good
<1>4. pools[x[1]] \in PoolTypes
  BY PlaceIs DEF Good
<1>5. pools[x[1]] = "live"
  BY <1>3, <1>4, RawIs DEF PlaceInv, PoolTypes, Gone, Raw
<1>6. ASSUME NEW b \in Acceptors PROVE ChainInv(b, chain, pools, cn)
  <2>1. SUFFICES ASSUME chain[b].pc \in Started PROVE ChainInv(b, chain, pools, cn)
    BY DEF ChainInv
  <2>2. ChainInv(b, chain, pools, conn) /\ chain[b].at \in Places
    BY <2>1, ChainIs DEF Good
  <2>3. \A s \in Slots :
             /\ conn[<<chain[b].at[1], s>>] = Raw => cn[<<chain[b].at[1], s>>] = Raw
             /\ conn[<<chain[b].at[1], s>>].phase # "raw" => cn[<<chain[b].at[1], s>>].phase # "raw"
    BY <1>2, <2>2, PlaceIs, RawIs DEF Running
  <2>4. chain[b].pc = "accepting" => chain[b].at # x
    BY <2>1, <2>2 DEF ChainInv
  <2> QED
    BY <1>2, <2>1, <2>2, <2>3, <2>4 DEF ChainInv, Running
<1>7. ASSUME NEW y \in Places PROVE PlaceInv(y, chain, pools, cn)
  <2>1. CASE y = x
    <3>1. \A b \in Acceptors : chain[b] # Chain("accepting", x)
      BY ChainIs DEF Good, ChainInv, Started
    <3> QED
      BY <1>2, <1>5, <2>1, <3>1 DEF PlaceInv, Running
  <2>2. CASE y # x
    BY <1>2, <2>2 DEF Good, PlaceInv
  <2> QED
    BY <2>1, <2>2
<1> QED
  BY <1>1, <1>6, <1>7 DEF Good, cn

LEMMA AcceptedGood ==
    ASSUME Good(chain, pools, conn),
           NEW a \in Acceptors, chain[a].pc = "accepting", NEW c, Running(c)
    PROVE  Good([chain EXCEPT ![a].pc = "accepted"], pools, [conn EXCEPT ![chain[a].at] = c])
<1> DEFINE x  == chain[a].at
           ch == [chain EXCEPT ![a].pc = "accepted"]
           cn == [conn EXCEPT ![x] = c]
<1>1. chain[a] = Chain("accepting", x) /\ x \in Places /\ ChainInv(a, chain, pools, conn)
  BY ChainIs DEF Good, Started
<1>2. [chain[a] EXCEPT !.pc = "accepted"] = Chain("accepted", x)
  BY <1>1 DEF Chain
<1>3. ch = [chain EXCEPT ![a] = Chain("accepted", x)]
  BY <1>2
<1>4. /\ ch \in [Acceptors -> ChainTypes]
      /\ \A b \in Acceptors : ch[b] = IF b = a THEN Chain("accepted", x) ELSE chain[b]
  BY <1>1, <1>3, ChainIs DEF Good, Started
<1>5. /\ cn \in [Places -> Connections]
      /\ \A y \in Places : cn[y] = IF y = x THEN c ELSE conn[y]
  BY DEF Good, Running, Tidy
<1> HIDE DEF x, ch, cn
<1>6. pools[x[1]] = "live" /\ conn[x].phase = "accept"
  BY <1>1, ChainIs DEF ChainInv, Started
<1>7. ASSUME NEW b \in Acceptors PROVE ChainInv(b, ch, pools, cn)
  <2>1. SUFFICES ASSUME chain[b].pc \in Started PROVE ChainInv(b, ch, pools, cn)
    BY <1>1, <1>4, ChainIs DEF ChainInv, Started
  <2>2. ChainInv(b, chain, pools, conn) /\ chain[b].at \in Places
    BY <2>1, ChainIs DEF Good
  <2>3. /\ ch[b].at = chain[b].at
        /\ ch[b].pc = IF b = a THEN "accepted" ELSE chain[b].pc
    BY <1>1, <1>4, ChainIs
  <2>4. \A s \in Slots :
             /\ conn[<<chain[b].at[1], s>>] = Raw => cn[<<chain[b].at[1], s>>] = Raw
             /\ conn[<<chain[b].at[1], s>>].phase # "raw" => cn[<<chain[b].at[1], s>>].phase # "raw"
    BY <1>5, <1>6, <2>2, PlaceIs, RawIs DEF Running
  <2>5. b # a => chain[b].at # x
    BY <1>1, <2>1, <2>2, ChainIs DEF ChainInv, Started
  <2>6. \A d \in Acceptors \ {b} : ch[d].pc \in Started => ch[d].at[1] # ch[b].at[1]
    BY <1>1, <1>4, <2>1, <2>2, <2>3, ChainIs DEF ChainInv, Started
  <2>7. CASE b = a
    <3>1. ch[b].pc = "accepted" /\ ch[b].at = x /\ chain[b].at = x
      BY <1>1, <2>3, <2>7, ChainIs
    <3>2. cn[x].phase \in {"write", "read", "stopped"}
      BY <1>1, <1>5 DEF Running
    <3>4. cn[ch[b].at].phase \in {"write", "read", "stopped"} /\ pools[ch[b].at[1]] = "live"
      BY <1>6, <3>1, <3>2
    <3>5. \A s \in Slots : s < ch[b].at[2] => cn[<<ch[b].at[1], s>>].phase # "raw"
      BY <2>1, <2>2, <2>3, <2>4 DEF ChainInv
    <3>6. \A s \in Slots : s > ch[b].at[2] => cn[<<ch[b].at[1], s>>] = Raw
      BY <2>1, <2>2, <2>3, <2>4 DEF ChainInv
    <3> QED
      BY <2>6, <3>1, <3>4, <3>5, <3>6 DEF ChainInv
  <2>8. CASE b # a
    <3>1. ch[b] = chain[b] /\ cn[chain[b].at] = conn[chain[b].at]
      BY <1>4, <1>5, <2>2, <2>5, <2>8
    <3> QED
      BY <2>1, <2>2, <2>4, <2>6, <3>1 DEF ChainInv
  <2> QED
    BY <2>7, <2>8
<1>8. ASSUME NEW y \in Places PROVE PlaceInv(y, ch, pools, cn)
  <2>1. CASE y = x
    <3>1. \A b \in Acceptors : ch[b] # Chain("accepting", x)
      BY <1>1, <1>4, ChainIs DEF ChainInv, Started
    <3> QED
      BY <1>5, <1>6, <2>1, <3>1 DEF PlaceInv, Running
  <2>2. CASE y # x
    <3>1. \A b \in Acceptors : ch[b] = Chain("accepting", y) <=> chain[b] = Chain("accepting", y)
      BY <1>1, <1>4, <2>2, ChainIs
    <3> QED
      BY <1>5, <2>2, <3>1 DEF Good, PlaceInv
  <2> QED
    BY <2>1, <2>2
<1> QED
  BY <1>4, <1>5, <1>7, <1>8 DEF Good, ch, cn, x

LEMMA ErrorGood ==
    ASSUME Good(chain, pools, conn), NEW a \in Acceptors, chain[a].pc = "accepting"
    PROVE  Good([chain EXCEPT ![a] = Dead], pools,
                [conn EXCEPT ![chain[a].at] = Deallocated(@)])
<1> DEFINE x  == chain[a].at
           c  == Deallocated(conn[x])
           ch == [chain EXCEPT ![a] = Dead]
           cn == [conn EXCEPT ![x] = c]
<1>1. chain[a] = Chain("accepting", x) /\ x \in Places /\ ChainInv(a, chain, pools, conn)
  BY ChainIs DEF Good, Started
<1>2. pools[x[1]] = "live" /\ conn[x].phase = "accept" /\ PlaceInv(x, chain, pools, conn)
  BY <1>1, ChainIs DEF Good, ChainInv, Started
<1>3. Tidy(c) /\ c.memory = "none" /\ c.phase = "accept"
  BY <1>2 DEF PlaceInv, Tidy, Deallocated, Connections, Memories
<1>4. /\ ch \in [Acceptors -> ChainTypes]
      /\ \A b \in Acceptors : ch[b] = IF b = a THEN Dead ELSE chain[b]
  BY ChainIs DEF Good
<1>5. /\ cn \in [Places -> Connections]
      /\ \A y \in Places : cn[y] = IF y = x THEN c ELSE conn[y]
  BY <1>3 DEF Good, Tidy
<1> HIDE DEF x, c, ch, cn
<1>6. ASSUME NEW b \in Acceptors PROVE ChainInv(b, ch, pools, cn)
  <2>1. SUFFICES ASSUME b # a, chain[b].pc \in Started PROVE ChainInv(b, ch, pools, cn)
    BY <1>4, ChainIs DEF ChainInv, Started
  <2>2. ChainInv(b, chain, pools, conn) /\ chain[b].at \in Places
    BY <2>1, ChainIs DEF Good
  <2>3. chain[b].at # x
    BY <1>1, <2>1, <2>2, ChainIs DEF ChainInv, Started
  <2>4. ch[b] = chain[b] /\ cn[chain[b].at] = conn[chain[b].at]
    BY <1>4, <1>5, <2>1, <2>2, <2>3
  <2>5. \A s \in Slots :
             /\ conn[<<chain[b].at[1], s>>] = Raw => cn[<<chain[b].at[1], s>>] = Raw
             /\ conn[<<chain[b].at[1], s>>].phase # "raw" => cn[<<chain[b].at[1], s>>].phase # "raw"
    BY <1>2, <1>3, <1>5, <2>2, PlaceIs, RawIs
  <2>6. \A d \in Acceptors \ {b} : ch[d].pc \in Started => ch[d].at[1] # ch[b].at[1]
    BY <1>4, <2>1, <2>2, <2>4, ChainIs DEF ChainInv, Started
  <2> QED
    BY <2>1, <2>2, <2>4, <2>5, <2>6 DEF ChainInv
<1>7. ASSUME NEW y \in Places PROVE PlaceInv(y, ch, pools, cn)
  <2>1. CASE y = x
    <3>1. \A b \in Acceptors : ch[b] # Chain("accepting", x)
      BY <1>1, <1>4, ChainIs DEF ChainInv, Started
    <3> QED
      BY <1>2, <1>3, <1>5, <2>1, <3>1 DEF PlaceInv
  <2>2. CASE y # x
    <3>1. \A b \in Acceptors : ch[b] = Chain("accepting", y) <=> chain[b] = Chain("accepting", y)
      BY <1>1, <1>4, <2>2, ChainIs
    <3> QED
      BY <1>5, <2>2, <3>1 DEF Good, PlaceInv
  <2> QED
    BY <2>1, <2>2
<1> QED
  BY <1>4, <1>5, <1>6, <1>7 DEF Good, ch, cn, x, c

-----------------------------------------------------------------------------
(***************************************************************************)
(* The actions.                                                            *)
(***************************************************************************)

LEMMA RunsAreRunning ==
    ASSUME NEW c, Tidy(c), NEW d \in Runs(c)
    PROVE  Running(d)
<1> DEFINE e == [c EXCEPT !.open = TRUE, !.held = TRUE]
<1>1. Tidy(e) /\ e.held
  BY DEF Tidy, Connections
<1> HIDE DEF e
<1>2. Ran(c) = Timed(e, "write")
  BY DEF Ran, e
<1>3. Running(Ran(c)) /\ Tidy(Ran(c)) /\ Ran(c).held
  BY <1>1, <1>2, TimedIsTidy DEF Running
<1>4. Running(ShutDown(Ran(c)))
  BY <1>3, ShutDownIsTidy DEF Running
<1> QED
  BY <1>3, <1>4 DEF Runs

\* A pool and a place for the next connection of a chain.
LEMMA NextPlaceGood ==
    ASSUME IInv, NEW a \in Acceptors, chain[a].pc = "accepted",
           NEW x \in NextPlace(chain[a].at[1], chain[a].at[2])
    PROVE  LET new == {x[1]} \ {chain[a].at[1]}
           IN  /\ new \in SUBSET Pools /\ x \in Places
               /\ Good(chain, WithLive(new), conn)
               /\ WithLive(new)[x[1]] = "live"
               /\ \A s \in Slots : s < x[2] => conn[<<x[1], s>>].phase # "raw"
               /\ \A s \in Slots : s >= x[2] => conn[<<x[1], s>>] = Raw
               /\ \A b \in Acceptors \ {a} : chain[b].pc \in Started => chain[b].at[1] # x[1]
<1> DEFINE p == chain[a].at[1]
           s == chain[a].at[2]
<1>1. /\ chain[a].at \in Places /\ p \in Pools /\ s \in Slots
      /\ Good(chain, pools, conn) /\ ChainInv(a, chain, pools, conn)
  BY ChainIs, PlaceIs DEF IInv, Good, Started
<1>2. s \in Nat /\ \A t \in Slots : t \in Nat
  BY <1>1, PoolSizeAssumption DEF Slots
<1>3. CASE s + 1 < PoolSize
  <2>1. x = <<p, s + 1>> /\ s + 1 \in Slots
    BY <1>1, <1>3, PoolSizeAssumption DEF NextPlace, Slots
  <2>2. x \in Places /\ x[1] = p /\ x[2] = s + 1 /\ {x[1]} \ {p} = {}
    BY <1>1, <2>1, PlaceIs
  <2>3. \A t \in Slots : (t >= s + 1 => t > s) /\ (t < s + 1 => t < s \/ t = s)
    BY <1>2
  <2>4. conn[<<p, s>>].phase # "raw"
    BY <1>1, PlaceIs DEF ChainInv, Started
  <2> QED
    BY <1>1, <2>2, <2>3, <2>4, NoneNew DEF ChainInv, Started
<1>4. CASE ~(s + 1 < PoolSize)
  <2>1. PICK q \in Pools : x = <<q, 0>> /\ IsFresh(q)
    BY <1>4 DEF NextPlace
  <2>2. 0 \in Slots
    BY PoolSizeAssumption DEF Slots
  <2>3. x \in Places /\ x[1] = q
    BY <2>1, <2>2, PlaceIs
  <2>4. q # p
    BY <1>1, <2>1 DEF ChainInv, IsFresh, Started
  <2>5. {x[1]} \ {p} = {q}
    BY <2>3, <2>4
  <2>6. WithLive({q})[q] = "live"
    BY DEF WithLive
  <2>7. x[2] = 0 /\ \A t \in Slots : ~(t < 0)
    BY <1>2, <2>1
  <2> QED
    BY <1>1, <2>1, <2>3, <2>5, <2>6, <2>7, AllocGood
<1> QED
  BY <1>3, <1>4

\* What StartAcceptor and AcceptNext do: the chains and connections before pools are
\* deleted.
LEMMA StartPlaces ==
    ASSUME IInv, NEW a \in Acceptors, StartAcceptor(a)
    PROVE  \E p \in Pools : \E ch, c :
               /\ Settle({p}, ch, [conn EXCEPT ![<<p, 0>>] = c])
               /\ Good(ch, WithLive({p}), [conn EXCEPT ![<<p, 0>>] = c])
               /\ <<p, 0>> \in Places /\ conn[<<p, 0>>] = Raw
               /\ c.phase \in {"raw", "accept"}
               /\ \/ ch = [chain EXCEPT ![a] = Chain("accepting", <<p, 0>>)]
                  \/ ch = chain
<1>1. PICK p \in Pools :
        /\ IsFresh(p)
        /\ \/ Settle({p}, [chain EXCEPT ![a] = Chain("accepting", <<p, 0>>)],
                     [conn EXCEPT ![<<p, 0>>] = Constructed])
           \/ \E c \in {conn[<<p, 0>>], Built} : Settle({p}, chain, [conn EXCEPT ![<<p, 0>>] = c])
  BY DEF StartAcceptor
<1> DEFINE x == <<p, 0>>
<1>2. /\ chain[a].pc # "accepting" /\ chain[a].pc \notin Started
      /\ x \in Places /\ x[1] = p /\ x[2] = 0
      /\ \A s \in Slots : ~(s < 0)
  BY ChainIs, PlaceIs, PoolSizeAssumption DEF StartAcceptor, Slots, Started
<1>3. /\ Good(chain, WithLive({p}), conn)
      /\ \A s \in Slots : conn[<<p, s>>] = Raw
      /\ \A b \in Acceptors : chain[b].pc \in Started => chain[b].at[1] # p
      /\ WithLive({p})[p] = "live"
  BY <1>1, AllocGood DEF IInv, WithLive
<1>4. conn[x] = Raw
  BY <1>2, <1>3, PlaceIs
<1> HIDE DEF x
<1>5. Good([chain EXCEPT ![a] = Chain("accepting", x)], WithLive({p}),
           [conn EXCEPT ![x] = Constructed])
  BY <1>2, <1>3, PlacedGood
<1>6. \A c \in {conn[x], Built} : /\ Good(chain, WithLive({p}), [conn EXCEPT ![x] = c])
                                /\ c.phase \in {"raw", "accept"}
  BY <1>2, <1>3, <1>4, FailedGood, RawIs, BuiltIsTidy
<1> QED
  BY <1>1, <1>2, <1>4, <1>5, <1>6, ConstructedIsTidy DEF x

LEMMA NextPlaces ==
    ASSUME IInv, NEW a \in Acceptors, AcceptNext(a)
    PROVE  \E x \in NextPlace(chain[a].at[1], chain[a].at[2]) : \E ch, c :
               LET new == {x[1]} \ {chain[a].at[1]}
               IN  /\ new \in SUBSET Pools /\ x \in Places /\ conn[x] = Raw
                   /\ Settle(new, ch, [conn EXCEPT ![x] = c])
                   /\ Good(ch, WithLive(new), [conn EXCEPT ![x] = c])
                   /\ c.phase \in {"raw", "accept"}
                   /\ \/ ch = [chain EXCEPT ![a] = Chain("accepting", x)]
                      \/ ch = [chain EXCEPT ![a] = Dead]
<1>1. chain[a].pc = "accepted" /\ chain[a].pc # "accepting"
  BY DEF AcceptNext
<1> DEFINE new(x) == {x[1]} \ {chain[a].at[1]}
<1>2. PICK x \in NextPlace(chain[a].at[1], chain[a].at[2]) :
        \/ Settle(new(x), [chain EXCEPT ![a] = Chain("accepting", x)], [conn EXCEPT ![x] = Constructed])
        \/ \E c \in {conn[x], Built} :
               Settle(new(x), [chain EXCEPT ![a] = Dead], [conn EXCEPT ![x] = c])
  BY DEF AcceptNext
<1>3. /\ new(x) \in SUBSET Pools /\ x \in Places
      /\ Good(chain, WithLive(new(x)), conn)
      /\ WithLive(new(x))[x[1]] = "live"
      /\ \A s \in Slots : s < x[2] => conn[<<x[1], s>>].phase # "raw"
      /\ \A s \in Slots : s >= x[2] => conn[<<x[1], s>>] = Raw
      /\ \A b \in Acceptors \ {a} : chain[b].pc \in Started => chain[b].at[1] # x[1]
  BY <1>1, NextPlaceGood
<1>4. conn[x] = Raw
  <2>1. x[2] \in Slots /\ x[2] >= x[2] /\ x = <<x[1], x[2]>>
    BY <1>3, PlaceIs, PoolSizeAssumption DEF Slots
  <2> QED
    BY <1>3, <2>1
<1> HIDE DEF new
<1>5. Good([chain EXCEPT ![a] = Chain("accepting", x)], WithLive(new(x)), [conn EXCEPT ![x] = Constructed])
  BY <1>1, <1>3, PlacedGood
<1>6. \A c \in {conn[x], Built} :
        /\ Good([chain EXCEPT ![a] = Dead], WithLive(new(x)), [conn EXCEPT ![x] = c])
        /\ c.phase \in {"raw", "accept"}
  BY <1>1, <1>3, <1>4, FailedGood, RawIs, BuiltIsTidy
<1> QED
  BY <1>2, <1>3, <1>4, <1>5, <1>6, ConstructedIsTidy DEF new

LEMMA PlacesInv ==
    ASSUME IInv, NEW a \in Acceptors, StartAcceptor(a) \/ AcceptNext(a)
    PROVE  IInv'
<1>1. waiting' = waiting /\ service' \in {"starting", "running", "stopped"}
  BY DEF StartAcceptor, AcceptNext, IInv
<1>2. PICK new \in SUBSET Pools :
        \E ch, cn : Settle(new, ch, cn) /\ Good(ch, WithLive(new), cn)
  BY StartPlaces, NextPlaces
<1>3. PICK ch, cn : Settle(new, ch, cn) /\ Good(ch, WithLive(new), cn)
  BY <1>2
<1> QED
  BY <1>1, <1>3, SettleGood DEF IInv

LEMMA HandleAcceptInv ==
    ASSUME IInv, NEW a \in Acceptors, HandleAccept(a) \/ HandleAcceptError(a)
    PROVE  IInv'
<1>1. /\ chain[a].pc = "accepting" /\ UNCHANGED service /\ waiting' \in 0..Clients
      /\ Good(chain, pools, conn) /\ WithLive({}) = pools
      /\ Tidy(conn[chain[a].at])
  BY ChainIs, NoneNew, BoundsAssumption
  DEF IInv, Good, PlaceInv, HandleAccept, HandleAcceptError, Accepting, Started
<1>2. CASE HandleAccept(a)
  BY <1>1, <1>2, RunsAreRunning, AcceptedGood, SettleGood DEF HandleAccept, IInv
<1>3. CASE HandleAcceptError(a)
  BY <1>1, <1>3, ErrorGood, SettleGood DEF HandleAcceptError, IInv
<1> QED
  BY <1>2, <1>3

\* No wait on a deadline is ever started, so it is one of the connection's operations
\* that has a handler to run.
LEMMA ConnectionRuns ==
    ASSUME IInv, NEW x \in Places,
           HandleWriteToClient(x) \/ HandleReadFromClient(x) \/ Interrupt(x)
    PROVE  \E c : conn[x].phase \in {"write", "read"} /\ Running(c) /\ Becomes(x, c)
<1>1. Tidy(conn[x])
  BY DEF IInv, Good, PlaceInv
<1>2. ByDeadline(conn[x]) = {}
  BY <1>1 DEF ByDeadline, Tidy
<1>3. CASE HandleWriteToClient(x) \/ HandleReadFromClient(x)
  BY <1>1, <1>3, TimedIsTidy DEF HandleWriteToClient, HandleReadFromClient, Running, Tidy
<1>4. CASE Interrupt(x)
  <2>1. conn[x].phase \in {"write", "read"} /\ Becomes(x, ShutDown(conn[x]))
    BY <1>2, <1>4 DEF Interrupt
  <2> QED
    BY <1>1, <2>1, ShutDownIsTidy DEF Running, Tidy
<1> QED
  BY <1>3, <1>4

LEMMA ConnectionInv ==
    ASSUME IInv, NEW x \in Places,
           HandleWriteToClient(x) \/ HandleReadFromClient(x) \/ Interrupt(x)
    PROVE  IInv'
<1>1. Good(chain, pools, conn) /\ WithLive({}) = pools
  BY NoneNew DEF IInv
<1>2. PICK c : conn[x].phase \in {"write", "read"} /\ Running(c) /\ Becomes(x, c)
  BY ConnectionRuns
<1>3. Good(chain, pools, [conn EXCEPT ![x] = c])
  BY <1>1, <1>2, ServedGood
<1> QED
  BY <1>1, <1>2, <1>3, SettleGood DEF IInv, Becomes

LEMMA InitInv ==
    ASSUME Init PROVE IInv
<1>1. chain \in [Acceptors -> ChainTypes] /\ \A a \in Acceptors : chain[a] = NotStarted
  BY ChainIs DEF Init
<1>2. pools \in [Pools -> PoolTypes] /\ \A p \in Pools : pools[p] = "unallocated"
  BY DEF Init, PoolTypes
<1>3. conn \in [Places -> Connections] /\ \A x \in Places : conn[x] = Raw
  BY RawIsTidy DEF Init, Tidy
<1>4. \A a \in Acceptors : ChainInv(a, chain, pools, conn)
  BY <1>1, ChainIs DEF ChainInv, Started
<1>5. ASSUME NEW x \in Places PROVE PlaceInv(x, chain, pools, conn)
  <2>1. \A a \in Acceptors : chain[a] # Chain("accepting", x)
    BY <1>1, ChainIs
  <2> QED
    BY <1>2, <1>3, <2>1, PlaceIs, RawIs, RawIsTidy DEF PlaceInv
<1> QED
  BY <1>1, <1>2, <1>3, <1>4, <1>5, BoundsAssumption DEF Init, IInv, Good

LEMMA NextInv ==
    ASSUME IInv, [Next]_vars
    PROVE  IInv'
<1>1. CASE UNCHANGED vars \/ Constructor
  BY <1>1 DEF vars, Constructor, IInv
<1>2. CASE \E a \in Acceptors : StartAcceptor(a) \/ HandleAccept(a) \/ AcceptNext(a)
                               \/ HandleAcceptError(a)
  BY <1>2, PlacesInv, HandleAcceptInv
<1>3. CASE \E x \in Places : \/ HandleWriteToClient(x) \/ HandleReadFromClient(x)
                            \/ Interrupt(x)
  BY <1>3, ConnectionInv
<1> QED
  BY <1>1, <1>2, <1>3 DEF Next

\* What every reachable state of the server satisfies.
THEOREM Invariance ==
    Spec => []IInv
<1>1. IInv /\ [Next]_vars => IInv'
  BY NextInv
<1> QED
  BY <1>1, InitInv, PTL DEF Spec

-----------------------------------------------------------------------------
(***************************************************************************)
(* What follows.                                                           *)
(***************************************************************************)

\* Every state and counter has its type, and no chain is at a place beyond its pool.
THEOREM TypeCorrect ==
    Spec => []TypeOK
<1>1. IInv => TypeOK
  BY DEF IInv, Good, ChainTypes, PoolTypes, TypeOK
<1> QED
  BY <1>1, Invariance, PTL

\* No two chains fill the same slot.
THEOREM ChainsApart ==
    Spec => []OneChainPerSlot
<1>1. IInv => OneChainPerSlot
  <2>1. SUFFICES ASSUME IInv, NEW a \in Acceptors, NEW b \in Acceptors,
                        a # b, chain[a].pc \in Started, chain[a].at = chain[b].at
                 PROVE  FALSE
    BY DEF OneChainPerSlot
  <2>2. chain[a].at \in Places /\ ChainInv(a, chain, pools, conn)
    BY <2>1, ChainIs DEF IInv, Good
  <2>3. chain[b].at # NoPlace
    <3>1. chain[a].at[1] \in 1..MaxPools
      BY <2>2, PlaceIs DEF Pools
    <3>2. NoPlace[1] = 0
      BY DEF NoPlace
    <3> QED
      BY <2>1, <3>1, <3>2, BoundsAssumption
  <2>4. chain[b].pc \in Started
    <3>1. chain[b] \in ChainTypes /\ NotStarted.at = NoPlace /\ Dead.at = NoPlace
      BY <2>1, ChainIs DEF IInv, Good, NotStarted, Dead
    <3> QED
      BY <2>3, <3>1, ChainIs DEF ChainTypes
  <2> QED
    BY <2>1, <2>2, <2>4 DEF ChainInv
<1> QED
  BY <1>1, Invariance, PTL

\* Where a pool is that still has something to run.
LEMMA PoolsOf ==
    ASSUME IInv, NEW x \in Places
    PROVE  /\ conn[x].phase # "dangling"
           /\ conn[x].phase \notin {"raw", "gone"} => pools[x[1]] = "live"
<1>1. PlaceInv(x, chain, pools, conn) /\ pools[x[1]] \in PoolTypes
  BY PlaceIs DEF IInv, Good
<1> QED
  BY <1>1, RawIs DEF PlaceInv, PoolTypes, Gone, Raw

\* No handler outlives its connection or the connection's pool.
THEOREM HandlersSafe ==
    Spec => []HandlersHaveObjects
<1>1. IInv => HandlersHaveObjects
  BY PoolsOf DEF HandlersHaveObjects, IInv, Good, ChainInv, Started
<1> QED
  BY <1>1, Invariance, PTL

\* The allocator's flag is in step with the connection's one handler.
THEOREM BlockIsUsed ==
    Spec => []HandlersUseBlock
<1>1. IInv => HandlersUseBlock
  BY DEF HandlersUseBlock, IInv, Good, PlaceInv, Tidy
<1> QED
  BY <1>1, Invariance, PTL

-----------------------------------------------------------------------------
(***************************************************************************)
(* Server implements AcceptService.                                        *)
(***************************************************************************)

Life == [x \in Places |-> LifeOf(conn[x])]

LEMMA LifeIs ==
    ASSUME NEW c
    PROVE  /\ c.phase = "raw" => LifeOf(c) = "unused"
           /\ c.phase = "accept" => LifeOf(c) = "offered"
           /\ c.phase \in {"write", "read"} => LifeOf(c) = "served"
           /\ c.phase = "stopped" => LifeOf(c) = "ended"
           /\ c.phase = "gone" => LifeOf(c) = "over"
           /\ c.phase \in Phases /\ c.phase \notin {"write", "read"} => LifeOf(c) # "served"
  BY DEF LifeOf, Phases

\* The places whose pool is deleted are over; nobody was served there.
LEMMA SettleReturns ==
    ASSUME NEW new \in SUBSET Pools, NEW ch, NEW cn, Good(ch, WithLive(new), cn),
           Settle(new, ch, cn)
    PROVE  \E S \in SUBSET Places :
               /\ \A x \in S : cn[x].phase \notin {"write", "read"}
               /\ \A a \in Acceptors : ch[a].at \notin S
               /\ Life' = [x \in Places |-> IF x \in S THEN "over" ELSE LifeOf(cn[x])]
<1>1. PICK dead \in SUBSET Pools :
        /\ \A p \in Pools : p \in dead <=> WithLive(new)[p] = "live" /\ ~Referred(p, ch, cn)
        /\ conn' = [x \in Places |-> IF x[1] \in dead THEN Gone ELSE cn[x]]
  BY SettleIs
<1> DEFINE S == {x \in Places : x[1] \in dead}
<1>2. ASSUME NEW x \in S PROVE cn[x].phase \notin {"write", "read"}
  <2>1. ~cn[<<x[1], x[2]>>].held
    BY <1>1, PlaceIs DEF Referred
  <2> QED
    BY <2>1, PlaceIs DEF Good, PlaceInv, Tidy
<1>3. \A a \in Acceptors : ch[a].at \notin S
  BY <1>1 DEF Referred
<1>4. LifeOf(Gone) = "over"
  BY LifeIs DEF Gone, Raw
<1>5. Life' = [x \in Places |-> IF x \in S THEN "over" ELSE LifeOf(cn[x])]
  BY <1>1, <1>4 DEF Life
<1> QED
  BY <1>2, <1>3, <1>5

\* While every pool is still referred to, nothing is over.
LEMMA SettleKeeps ==
    ASSUME NEW ch, NEW cn, Good(chain, pools, conn), Good(ch, pools, cn), Settle({}, ch, cn),
           \A p \in Pools : pools[p] = "live" => Referred(p, ch, cn)
    PROVE  Life' = [x \in Places |-> LifeOf(cn[x])]
<1>1. WithLive({}) = pools
  BY NoneNew
<1>2. PICK dead \in SUBSET Pools :
        /\ \A p \in Pools : p \in dead <=> WithLive({})[p] = "live" /\ ~Referred(p, ch, cn)
        /\ conn' = [x \in Places |-> IF x[1] \in dead THEN Gone ELSE cn[x]]
  BY <1>1, SettleIs
<1>3. dead = {}
  BY <1>1, <1>2
<1> QED
  BY <1>2, <1>3 DEF Life

\* In the terms of AcceptService.
LEMMA ReturnStep ==
    ASSUME Good(chain, pools, conn), UNCHANGED waiting, NEW S \in SUBSET Places,
           \A x \in S : conn[x].phase \notin {"write", "read"},
           Life' = [x \in Places |-> IF x \in S THEN "over" ELSE Life[x]]
    PROVE  Service!Next
<1>1. S \in SUBSET Service!Free
  <2>1. \A x \in S : conn[x].phase \in Phases
    BY DEF Good, Connections
  <2> QED
    BY <2>1, LifeIs DEF Service!Free
<1>2. Service!Return(S)
  BY DEF Service!Return, Service!Returned, Life
<1> QED
  BY <1>1, <1>2 DEF Service!Next

LEMMA OfferStep ==
    ASSUME Good(chain, pools, conn), UNCHANGED waiting, NEW S \in SUBSET Places,
           NEW x \in Places, conn[x] = Raw, x \notin S,
           \A y \in S : conn[y].phase \notin {"write", "read"},
           Life' = [y \in Places |-> IF y \in S THEN "over" ELSE [Life EXCEPT ![x] = "offered"][y]]
    PROVE  Service!Next
<1>1. S \in SUBSET Service!Free
  <2>1. \A y \in S : conn[y].phase \in Phases
    BY DEF Good, Connections
  <2> QED
    BY <2>1, LifeIs DEF Service!Free
<1>2. LifeOf(conn[x]) = "unused"
  BY LifeIs, RawIs
<1>3. Service!Offer(x, S)
  BY <1>2 DEF Service!Offer, Service!Returned, Life
<1> QED
  BY <1>1, <1>3 DEF Service!Next

\* A chain has put a connection in x, or could not: connections may go with a pool.
LEMMA PlacedStep ==
    ASSUME Good(chain, pools, conn), UNCHANGED waiting,
           NEW new \in SUBSET Pools, NEW ch, NEW x \in Places, conn[x] = Raw,
           NEW c, c.phase \in {"raw", "accept"},
           Good(ch, WithLive(new), [conn EXCEPT ![x] = c]), Settle(new, ch, [conn EXCEPT ![x] = c])
    PROVE  Service!Next
<1> DEFINE cn == [conn EXCEPT ![x] = c]
<1>0. Good(ch, WithLive(new), cn) /\ Settle(new, ch, cn)
  OBVIOUS
<1>2. \A y \in Places : cn[y] = IF y = x THEN c ELSE conn[y]
  BY DEF Good
<1> HIDE DEF cn
<1>1. PICK S \in SUBSET Places :
        /\ \A y \in S : cn[y].phase \notin {"write", "read"}
        /\ Life' = [y \in Places |-> IF y \in S THEN "over" ELSE LifeOf(cn[y])]
  BY <1>0, SettleReturns
<1>3. \A y \in S : conn[y].phase \notin {"write", "read"}
  BY <1>1, <1>2, RawIs
<1>4. \A y \in Places \ {x} : LifeOf(cn[y]) = Life[y]
  BY <1>2 DEF Life
<1>5. CASE x \in S \/ c.phase = "raw"
  <2>1. c.phase = "raw" => LifeOf(cn[x]) = Life[x]
    BY <1>2, LifeIs, RawIs DEF Life
  <2>2. Life' = [y \in Places |-> IF y \in S THEN "over" ELSE Life[y]]
    BY <1>1, <1>4, <1>5, <2>1
  <2> QED
    BY <1>3, <2>2, ReturnStep
<1>6. CASE x \notin S /\ c.phase = "accept"
  <2>1. LifeOf(cn[x]) = "offered"
    BY <1>2, <1>6, LifeIs
  <2>2. \A y \in Places : LifeOf(cn[y]) = [Life EXCEPT ![x] = "offered"][y]
    BY <1>4, <2>1 DEF Life
  <2>3. Life' = [y \in Places |-> IF y \in S THEN "over" ELSE [Life EXCEPT ![x] = "offered"][y]]
    BY <1>1, <2>2
  <2> QED
    BY <1>3, <1>6, <2>3, OfferStep
<1> QED
  BY <1>5, <1>6

LEMMA PlacesStep ==
    ASSUME IInv, NEW a \in Acceptors, StartAcceptor(a) \/ AcceptNext(a)
    PROVE  Service!Next
<1>1. Good(chain, pools, conn) /\ UNCHANGED waiting
  BY DEF StartAcceptor, AcceptNext, IInv
<1>2. CASE StartAcceptor(a)
  <2>1. PICK p \in Pools :
          \E ch, c : /\ Settle({p}, ch, [conn EXCEPT ![<<p, 0>>] = c])
                     /\ Good(ch, WithLive({p}), [conn EXCEPT ![<<p, 0>>] = c])
                     /\ <<p, 0>> \in Places /\ conn[<<p, 0>>] = Raw
                     /\ c.phase \in {"raw", "accept"}
    BY <1>2, StartPlaces
  <2> QED
    BY <1>1, <2>1, PlacedStep
<1>3. CASE AcceptNext(a)
  <2>1. PICK x \in Places, new \in SUBSET Pools :
          \E ch, c : /\ Settle(new, ch, [conn EXCEPT ![x] = c])
                     /\ Good(ch, WithLive(new), [conn EXCEPT ![x] = c])
                     /\ conn[x] = Raw /\ c.phase \in {"raw", "accept"}
    BY <1>3, NextPlaces
  <2> QED
    BY <1>1, <2>1, PlacedStep
<1> QED
  BY <1>2, <1>3

\* handle_accept() with an error: the connection's handler is freed, its life is not
\* changed.
LEMMA AcceptErrorStep ==
    ASSUME IInv, NEW a \in Acceptors, HandleAcceptError(a)
    PROVE  Service!Next
<1> DEFINE x  == chain[a].at
           ch == [chain EXCEPT ![a] = Dead]
           cn == [conn EXCEPT ![x] = Deallocated(@)]
<1>1. /\ chain[a].pc = "accepting" /\ UNCHANGED waiting /\ Good(chain, pools, conn)
      /\ Settle({}, ch, cn)
  BY DEF HandleAcceptError, Accepting, IInv
<1>2. Good(ch, WithLive({}), cn)
  BY <1>1, ErrorGood, NoneNew
<1>3. \A y \in Places : cn[y].phase = conn[y].phase
  <2>1. \A c \in Connections : Deallocated(c).phase = c.phase
    BY DEF Deallocated, Connections
  <2> QED
    BY <1>1, <2>1 DEF Good
<1>4. \A y \in Places : LifeOf(cn[y]) = LifeOf(conn[y])
  BY <1>3 DEF LifeOf
<1> HIDE DEF ch, cn
<1>5. PICK S \in SUBSET Places :
        /\ \A y \in S : cn[y].phase \notin {"write", "read"}
        /\ Life' = [y \in Places |-> IF y \in S THEN "over" ELSE LifeOf(cn[y])]
  BY <1>1, <1>2, SettleReturns
<1>6. Life' = [y \in Places |-> IF y \in S THEN "over" ELSE Life[y]]
  BY <1>4, <1>5 DEF Life
<1>7. \A y \in S : conn[y].phase \notin {"write", "read"}
  BY <1>3, <1>5
<1> QED
  BY <1>1, <1>6, <1>7, ReturnStep

\* A step in which one connection changes but holds its pool, and no chain moves.
LEMMA RunningKeeps ==
    ASSUME IInv, NEW ch, NEW x \in Places, NEW c, Running(c),
           \A a \in Acceptors : ch[a].at = chain[a].at,
           Good(ch, pools, [conn EXCEPT ![x] = c]), Settle({}, ch, [conn EXCEPT ![x] = c])
    PROVE  Life' = [Life EXCEPT ![x] = LifeOf(c)]
<1> DEFINE cn == [conn EXCEPT ![x] = c]
<1>1. /\ Good(chain, pools, conn) /\ c.held
      /\ \A y \in Places : cn[y] = IF y = x THEN c ELSE conn[y]
  BY DEF IInv, Good, Running, Tidy
<1>2. Good(ch, pools, cn) /\ Settle({}, ch, cn)
  OBVIOUS
<1> HIDE DEF cn
<1>3. ASSUME NEW p \in Pools, pools[p] = "live" PROVE Referred(p, ch, cn)
  <2>1. Referred(p, chain, conn)
    BY <1>3 DEF IInv
  <2> QED
    BY <1>1, <2>1, PlaceIs DEF Referred
<1>4. Life' = [y \in Places |-> LifeOf(cn[y])]
  BY <1>1, <1>2, <1>3, SettleKeeps
<1> QED
  BY <1>1, <1>4 DEF Life

\* handle_accept() gives a client the connection that was constructed for it.
LEMMA AcceptStep ==
    ASSUME IInv, NEW a \in Acceptors, HandleAccept(a)
    PROVE  Service!Next
<1> DEFINE x  == chain[a].at
           ch == [chain EXCEPT ![a].pc = "accepted"]
<1>1. /\ chain[a].pc = "accepting" /\ waiting > 0 /\ waiting' = waiting - 1
      /\ Good(chain, pools, conn)
  BY DEF HandleAccept, Accepting, IInv
<1>2. PICK c \in Runs(conn[x]) : Settle({}, ch, [conn EXCEPT ![x] = c])
  BY DEF HandleAccept
<1>3. x \in Places /\ conn[x].phase = "accept" /\ Tidy(conn[x])
  BY <1>1, ChainIs DEF Good, ChainInv, PlaceInv, Started
<1>4. Running(c)
  BY <1>3, RunsAreRunning
<1>5. Good(ch, pools, [conn EXCEPT ![x] = c])
  BY <1>1, <1>4, AcceptedGood
<1>6. \A b \in Acceptors : ch[b].at = chain[b].at
  BY <1>1, ChainIs DEF Good, Chain, Started
<1> HIDE DEF x, ch
<1>7. Life' = [Life EXCEPT ![x] = LifeOf(c)]
  BY <1>2, <1>3, <1>4, <1>5, <1>6, RunningKeeps
<1>8. c.phase \in {"write", "stopped"}
  <2>1. Ran(conn[x]).phase = "write"
    <3>1. /\ Tidy([conn[x] EXCEPT !.open = TRUE, !.held = TRUE])
          /\ [conn[x] EXCEPT !.open = TRUE, !.held = TRUE].held
      BY <1>3 DEF Tidy, Connections
    <3> QED
      BY <3>1, TimedIsTidy DEF Ran
  <2>2. c # Ran(conn[x]) => c.phase = "stopped"
    <3>1. /\ Tidy([conn[x] EXCEPT !.open = TRUE, !.held = TRUE])
          /\ [conn[x] EXCEPT !.open = TRUE, !.held = TRUE].held
      BY <1>3 DEF Tidy, Connections
    <3>2. Tidy(Ran(conn[x])) /\ Ran(conn[x]).held
      BY <3>1, TimedIsTidy DEF Ran
    <3> QED
      BY <1>2, <3>2, ShutDownIsTidy DEF Runs
  <2> QED
    BY <2>1, <2>2
<1>9. LifeOf(c) \in {"served", "ended"} /\ LifeOf(conn[x]) = "offered"
  BY <1>3, <1>8, LifeIs
<1>10. Service!Accept(x)
  BY <1>1, <1>3, <1>7, <1>9 DEF Service!Accept, Life
<1> QED
  BY <1>3, <1>10 DEF Service!Next

\* A conversation goes on, or ends.
LEMMA ConnectionStep ==
    ASSUME IInv, NEW x \in Places,
           HandleWriteToClient(x) \/ HandleReadFromClient(x) \/ Interrupt(x)
    PROVE  [Service!Next]_(Service!vars)
<1>3. PICK c : conn[x].phase \in {"write", "read"} /\ Running(c) /\ Becomes(x, c)
  BY ConnectionRuns
<1>1. Good(chain, pools, conn) /\ UNCHANGED waiting
  BY <1>3 DEF IInv, Becomes
<1>4. Good(chain, pools, [conn EXCEPT ![x] = c])
  BY <1>1, <1>3, ServedGood
<1>5. Life' = [Life EXCEPT ![x] = LifeOf(c)]
  BY <1>3, <1>4, RunningKeeps DEF Becomes
<1>6. LifeOf(conn[x]) = "served"
  BY <1>3, LifeIs
<1>7. CASE c.phase \in {"write", "read"}
  <2>1. LifeOf(c) = Life[x]
    BY <1>6, <1>7, LifeIs DEF Life
  <2>2. Life' = Life
    BY <1>5, <2>1 DEF Life
  <2> QED
    BY <1>1, <2>2 DEF Service!vars, Life
<1>8. CASE c.phase = "stopped"
  <2>1. LifeOf(c) = "ended"
    BY <1>8, LifeIs
  <2>2. Service!End(x)
    BY <1>1, <1>5, <1>6, <2>1 DEF Service!End, Life
  <2> QED
    BY <2>2 DEF Service!Next
<1> QED
  BY <1>3, <1>7, <1>8 DEF Running

LEMMA ServiceStep ==
    ASSUME IInv, [Next]_vars
    PROVE  [Service!Next]_(Service!vars)
<1>1. CASE UNCHANGED vars \/ Constructor
  BY <1>1 DEF vars, Constructor, Service!vars
<1>2. CASE \E a \in Acceptors : StartAcceptor(a) \/ HandleAccept(a) \/ AcceptNext(a)
                               \/ HandleAcceptError(a)
  BY <1>2, PlacesStep, AcceptStep, AcceptErrorStep
<1>3. CASE \E x \in Places : \/ HandleWriteToClient(x) \/ HandleReadFromClient(x)
                            \/ Interrupt(x)
  BY <1>3, ConnectionStep
<1> QED
  BY <1>1, <1>2, <1>3 DEF Next

\* The server, whatever its threads do, is the service that AcceptService describes:
\* a connection object for each client, in memory nobody else has used, as long as
\* the conversation lasts.
THEOREM Implementation ==
    Spec => IsAcceptService
<1>1. Init => Service!Init
  BY LifeIs, RawIs DEF Init, Service!Init
<1>2. IInv /\ [Next]_vars => [Service!Next]_(Service!vars)
  BY ServiceStep
<1> QED
  BY <1>1, <1>2, Invariance, PTL DEF Spec, IsAcceptService, Service!Spec

\* No connection is ever constructed over one that was accepted: this is the
\* service's promise, read back.
THEOREM SlotsFresh ==
    Spec => SlotsAreFresh
<1> DEFINE Fresh == \A x \in Places :
                conn[x].phase \notin {"raw", "accept"} => conn'[x].phase # "accept"
<1>1. ASSUME IInv, IInv', [Next]_vars PROVE Fresh
  <2>1. SUFFICES ASSUME NEW x \in Places, conn[x].phase \notin {"raw", "accept"},
                        conn'[x].phase = "accept"
                 PROVE  FALSE
    OBVIOUS
  <2>2. conn[x].phase \in Phases
    BY <1>1 DEF IInv, Good, Connections
  <2>3. Life[x] \notin {"unused", "offered"}
    BY <2>1, <2>2 DEF Life, LifeOf, Phases
  <2>4. Life'[x] = "offered"
    BY <2>1 DEF Life, LifeOf
  <2>5. [Service!Next]_(Service!vars)
    BY <1>1, ServiceStep
  <2>6. Service!Next
    BY <2>3, <2>4, <2>5 DEF Service!vars, Life
  <2>7. ASSUME NEW S \in SUBSET Service!Free, Service!Return(S) PROVE FALSE
    BY <2>3, <2>4, <2>7 DEF Service!Return, Service!Returned, Life
  <2>8. ASSUME NEW S \in SUBSET Service!Free, NEW y \in Places, Service!Offer(y, S) PROVE FALSE
    BY <2>3, <2>4, <2>8 DEF Service!Offer, Service!Returned, Life
  <2>9. ASSUME NEW y \in Places, Service!Accept(y) \/ Service!End(y) PROVE FALSE
    BY <2>3, <2>4, <2>9 DEF Service!Accept, Service!End, Life
  <2> QED
    BY <2>6, <2>7, <2>8, <2>9 DEF Service!Next
<1>2. IInv /\ IInv' /\ [Next]_vars => [Fresh]_vars
  BY <1>1
<1> QED
  BY <1>2, Invariance, PTL DEF Spec, SlotsAreFresh


-----------------------------------------------------------------------------
(***************************************************************************)
(* The pools that chains leave behind.                                     *)
(***************************************************************************)

\* Only the chain itself moves on from a connection that it has handed over.
LEMMA ChainMoves ==
    ASSUME IInv, Next, NEW a \in Acceptors, chain[a].pc = "accepted", chain'[a] # chain[a]
    PROVE  AcceptNext(a)
<1>1. chain \in [Acceptors -> ChainTypes]
  BY DEF IInv, Good
<1>2. CASE Constructor
  BY <1>2 DEF Constructor
<1>3. ASSUME NEW b \in Acceptors, StartAcceptor(b) PROVE FALSE
  <2>1. b # a
    BY <1>3, ChainIs DEF StartAcceptor
  <2> QED
    BY <1>1, <1>3, <2>1 DEF StartAcceptor, Settle
<1>4. ASSUME NEW b \in Acceptors, HandleAccept(b) \/ HandleAcceptError(b) PROVE FALSE
  <2>1. b # a
    BY <1>4 DEF HandleAccept, HandleAcceptError, Accepting
  <2> QED
    BY <1>1, <1>4, <2>1 DEF HandleAccept, HandleAcceptError, Settle
<1>5. ASSUME NEW b \in Acceptors, AcceptNext(b), b # a PROVE FALSE
  BY <1>1, <1>5 DEF AcceptNext, Settle
<1>6. ASSUME NEW x \in Places,
             HandleWriteToClient(x) \/ HandleReadFromClient(x) \/ Interrupt(x)
      PROVE  FALSE
  BY <1>6 DEF HandleWriteToClient, HandleReadFromClient, Interrupt, Becomes, Settle
<1> QED
  BY <1>2, <1>3, <1>4, <1>5, <1>6 DEF Next

\* The new pool comes after the last slot.
LEMMA LastSlot ==
    ASSUME NEW p \in Pools, NEW s \in Slots, NEW x \in NextPlace(p, s), x[1] # p
    PROVE  \A t \in Slots : t < s \/ t = s
<1>1. s \in Nat /\ \A t \in Slots : t \in Nat /\ t <= PoolSize - 1
  BY PoolSizeAssumption DEF Slots
<1>2. ~(s + 1 < PoolSize)
  BY DEF NextPlace
<1> QED
  BY <1>1, <1>2, PoolSizeAssumption

\* No pool is left with a raw slot, however many chains, clients and failures there are:
\* what a pool's deleter destroys later was constructed, unless the pool's chain ended in it.
THEOREM PoolsAreFilled ==
    Spec => ChainsFillPools
<1> DEFINE Fills ==
        \A a \in Acceptors :
            chain[a].pc = "accepted" /\ chain'[a].pc \in Started
                /\ chain'[a].at[1] # chain[a].at[1] =>
                    \A s \in Slots : conn[<<chain[a].at[1], s>>].phase # "raw"
<1>1. ASSUME IInv, Next PROVE Fills
  <2>1. SUFFICES ASSUME NEW a \in Acceptors, chain[a].pc = "accepted",
                        chain'[a].pc \in Started, chain'[a].at[1] # chain[a].at[1],
                        NEW t \in Slots
                 PROVE  conn[<<chain[a].at[1], t>>].phase # "raw"
    OBVIOUS
  <2>2. AcceptNext(a)
    BY <1>1, <2>1, ChainMoves
  <2>3. PICK x \in NextPlace(chain[a].at[1], chain[a].at[2]) :
          \/ chain' = [chain EXCEPT ![a] = Chain("accepting", x)]
          \/ chain' = [chain EXCEPT ![a] = Dead]
    BY <2>2 DEF AcceptNext, Settle
  <2>4. /\ chain \in [Acceptors -> ChainTypes] /\ ChainInv(a, chain, pools, conn)
        /\ chain[a].at \in Places /\ chain[a].at[1] \in Pools /\ chain[a].at[2] \in Slots
        /\ chain[a].at = <<chain[a].at[1], chain[a].at[2]>>
    BY <1>1, <2>1, ChainIs, PlaceIs DEF IInv, Good, Started
  <2>5. chain'[a].at = x
    BY <2>1, <2>3, <2>4, ChainIs DEF Started
  <2>6. t < chain[a].at[2] \/ t = chain[a].at[2]
    BY <2>1, <2>3, <2>4, <2>5, LastSlot
  <2>7. conn[chain[a].at].phase # "raw"
    BY <2>1, <2>4 DEF ChainInv, Started
  <2>8. t = chain[a].at[2] => <<chain[a].at[1], t>> = chain[a].at
    BY <2>4, Zenon
  <2> QED
    BY <2>1, <2>4, <2>6, <2>7, <2>8 DEF ChainInv, Started
<1>2. IInv /\ [Next]_vars => [Fills]_vars
  BY <1>1
<1> QED
  BY <1>2, Invariance, PTL DEF Spec, ChainsFillPools
=============================================================================
