------------------------- MODULE CommandLanes_proofs -------------------------
(***************************************************************************)
(* Proofs about CommandLanes, for any commands, sessions, limits and       *)
(* numbers of restarts and reloads.                                        *)
(***************************************************************************)
EXTENDS CommandLanes, Functions, FiniteSetTheorems, TLAPS

-----------------------------------------------------------------------------
(* Routes *)

LEMMA CronRoute ==
  ASSUME NEW c \in Commands, LaneOf[c] = "cron"
  PROVE  /\ Innermost(c) = 3
         /\ Lane(c, 1) = "cron" /\ Lane(c, 2) = SessionOf[c] /\ Lane(c, 3) = "nested"
BY RoutesType DEF Innermost, Lane, Route, ResolveGlobalLane

LEMMA AgentRoute ==
  ASSUME NEW c \in Commands, LaneOf[c] # "cron"
  PROVE  /\ Innermost(c) = 2
         /\ Lane(c, 1) = SessionOf[c] /\ Lane(c, 2) = LaneOf[c]
BY RoutesType DEF Innermost, Lane, Route, ResolveGlobalLane

\* What the proofs use of a route: it ends in the session's lane and a global
\* lane, and no two lanes in a row are the same.
LEMMA RouteFacts ==
  ASSUME NEW c \in Commands
  PROVE  /\ Innermost(c) \in {2, 3}
         /\ \A k \in 1..Innermost(c) : Lane(c, k) \in Lanes
         /\ \A k \in 1..Innermost(c) :
              k + 1 \in 1..Innermost(c) => Lane(c, k) # Lane(c, k + 1)
         /\ SessionOf[c] \in Sessions
         /\ Lane(c, Innermost(c)) \in GlobalLanes
         /\ Lane(c, Innermost(c) - 1) = SessionOf[c]
         /\ \A k \in 1..Innermost(c) : Lane(c, k) \in Sessions => k = Innermost(c) - 1
         /\ \A k \in 1..Innermost(c) :
              (Lane(c, k) = "cron" /\ k # Innermost(c)) => k = Innermost(c) - 2
<1>1. SessionOf[c] \in Sessions /\ LaneOf[c] \in GlobalLanes
  BY RoutesType
<1>2. CASE LaneOf[c] = "cron"
  <2>1. /\ Innermost(c) = 3
        /\ Lane(c, 1) = "cron" /\ Lane(c, 2) = SessionOf[c] /\ Lane(c, 3) = "nested"
    BY <1>2, CronRoute
  <2>2. 1..Innermost(c) = {1, 2, 3}
    BY <2>1
  <2> QED BY <1>1, <2>1, <2>2, SessionsAreOwnLanes DEF Lanes, GlobalLanes
<1>3. CASE LaneOf[c] # "cron"
  <2>1. /\ Innermost(c) = 2
        /\ Lane(c, 1) = SessionOf[c] /\ Lane(c, 2) = LaneOf[c]
    BY <1>3, AgentRoute
  <2>2. 1..Innermost(c) = {1, 2}
    BY <2>1
  <2> QED BY <1>1, <2>1, <2>2, SessionsAreOwnLanes DEF Lanes, GlobalLanes
<1> QED BY <1>2, <1>3

LEMMA RouteLane ==
  ASSUME NEW c \in Commands, NEW k \in Nat, 1 <= k, k <= Innermost(c)
  PROVE  Lane(c, k) \in Lanes
<1>1. Innermost(c) \in {2, 3}
  BY RouteFacts
<1>2. k \in 1..Innermost(c)
  BY <1>1
<1> QED BY <1>2, RouteFacts

LEMMA RouteLength ==
  ASSUME NEW c \in Commands
  PROVE  Innermost(c) \in {2, 3}
BY RouteFacts

-----------------------------------------------------------------------------
(* Queues as sequences without repetition *)

LEMMA AppendEntry ==
  ASSUME NEW q \in Seq(Commands), IsInjective(q), NEW c \in Commands, c \notin Range(q)
  PROVE  IsInjective(Append(q, c)) /\ Range(Append(q, c)) = Range(q) \cup {c}
<1> DEFINE a == Append(q, c)
<1>1. /\ DOMAIN q = 1..Len(q) /\ Len(q) \in Nat /\ DOMAIN a = 1..(Len(q) + 1)
      /\ a[Len(q) + 1] = c /\ \A i \in 1..Len(q) : a[i] = q[i]
  OBVIOUS
<1> HIDE DEF a
<1>2. IsInjective(a)
  BY <1>1 DEF IsInjective, Range
<1>3. Range(a) = Range(q) \cup {c}
  <2>1. \A i \in DOMAIN a : a[i] \in Range(q) \cup {c}
    BY <1>1 DEF Range
  <2>2. \A i \in DOMAIN q : q[i] \in Range(a)
    BY <1>1 DEF Range
  <2>3. c \in Range(a)
    BY <1>1 DEF Range
  <2> QED BY <2>1, <2>2, <2>3 DEF Range
<1> QED BY <1>2, <1>3 DEF a

LEMMA TailEntries ==
  ASSUME NEW q \in Seq(Commands), q # <<>>, IsInjective(q)
  PROVE  /\ IsInjective(Tail(q)) /\ Range(Tail(q)) \subseteq Range(q)
         /\ Head(q) \notin Range(Tail(q))
<1> DEFINE t == Tail(q)
<1>1. /\ DOMAIN q = 1..Len(q) /\ Len(q) \in Nat /\ Len(q) >= 1 /\ DOMAIN t = 1..(Len(q) - 1)
      /\ \A i \in 1..(Len(q) - 1) : t[i] = q[i + 1]
      /\ Head(q) = q[1]
  OBVIOUS
<1> HIDE DEF t
<1>2. \A i \in DOMAIN t : i + 1 \in DOMAIN q /\ 1 \in DOMAIN q /\ i + 1 # 1 /\ t[i] = q[i + 1]
  BY <1>1
<1>3. IsInjective(t)
  BY <1>1, <1>2 DEF IsInjective
<1>4. Range(t) \subseteq Range(q) /\ Head(q) \notin Range(t)
  BY <1>1, <1>2 DEF IsInjective, Range
<1> QED BY <1>3, <1>4 DEF t

LEMMA NoEntries == IsInjective(<<>>) /\ Range(<<>>) = {}
BY DEF IsInjective, Range

-----------------------------------------------------------------------------
(* The inductive invariant *)

\* How far along its route a command in each phase can be.
Place(c, k, p) ==
  /\ k \in 0..Innermost(c)
  /\ p \in {"queued", "preparing", "running", "returning"} <=> k >= 1
  /\ k = Innermost(c) => p \in {"queued", "running"}
  /\ p = "running" => k = Innermost(c)
  /\ p = "preparing" => k = Innermost(c) - 2

Places == \A c \in Commands : Place(c, at[c], phase[c])

\* An entry waits in the one lane its command is to enter, once.
GoodQueues(q, a, p) ==
  \A l \in Lanes :
    /\ IsInjective(q[l])
    /\ \A c \in Range(q[l]) : p[c] = "queued" /\ Lane(c, a[c]) = l

Queued == GoodQueues(queue, at, phase)

\* A session lane has one slot, and at most one command holds it.
SessionSlots ==
  \A s \in Sessions :
    /\ limit[s] = 1
    /\ \A c, d \in active[s] : c = d

\* Who is in a global lane holds its session's slot, and who runs is counted, as
\* long as no drain has been cut short.
Holding ==
  ~cutShort =>
    \A c \in Commands :
      /\ at[c] = Innermost(c) => c \in active[SessionOf[c]]
      /\ phase[c] = "running" => c \in active[Lane(c, Innermost(c))]

\* A drain waits for every command that is in a global lane, so that a restart
\* whose drain was not cut short resets lanes in which nothing runs.
Drained ==
  ~cutShort =>
    \A c \in Commands : at[c] = Innermost(c) =>
      /\ restart # "closing"
      /\ restart = "draining" => <<SessionOf[c], c>> \in snapshot

\* A lane's limit is a number the configuration allows, and what is active was
\* within the limit when it started.
Capped ==
  \A l \in Lanes :
    /\ \E n \in Limits \cup {1} : limit[l] = AtLeastOne(n)
    /\ \E n \in Limits \cup {1} : Cardinality(active[l]) <= AtLeastOne(n)

LanesInv ==
  /\ TypeOK /\ NoIdleLane
  /\ Places /\ Queued /\ SessionSlots /\ Holding /\ Drained /\ Capped

-----------------------------------------------------------------------------
(* What the pump does, seen from outside *)

\* The entry c leaves the queue of l and is counted as active there.
Taken(l, c) ==
  /\ l \in due /\ queue[l] # <<>> /\ c = Head(queue[l]) /\ HasSlot(l)
  /\ active' = [active EXCEPT ![l] = @ \cup {c}]
  /\ UNCHANGED <<limit, restart, snapshot, cutShort, restarts, reloads>>

\* It runs, or prepares its run, or is turned away.
Stays(l, c, p) ==
  /\ \/ p = "running" /\ at[c] = Innermost(c)
     \/ p = "preparing" /\ l = "cron" /\ at[c] < Innermost(c)
     \/ p = "returning" /\ at[c] < Innermost(c)
  /\ phase' = [phase EXCEPT ![c] = p]
  /\ queue' = [queue EXCEPT ![l] = Tail(@)]
  /\ UNCHANGED <<at, due>>

\* It enters the next lane.
Enters(l, c, inner) ==
  /\ l # "cron" /\ at[c] < Innermost(c) /\ ~Rejecting
  /\ inner = Lane(c, at[c] + 1)
  /\ queue' = [[queue EXCEPT ![l] = Tail(@)] EXCEPT ![inner] = Append(@, c)]
  /\ at' = [at EXCEPT ![c] = @ + 1]
  /\ due' = due \cup {inner}
  /\ phase' = phase

LEMMA HeadIsQueued ==
  ASSUME TypeOK, Places, Queued, NEW l \in Lanes, queue[l] # <<>>
  PROVE  /\ Head(queue[l]) \in Commands
         /\ phase[Head(queue[l])] = "queued"
         /\ at[Head(queue[l])] \in 1..Innermost(Head(queue[l]))
         /\ Lane(Head(queue[l]), at[Head(queue[l])]) = l
<1>1. queue[l] \in Seq(Commands)
  BY DEF TypeOK
<1>2. 1 \in DOMAIN queue[l] /\ Head(queue[l]) = queue[l][1] /\ queue[l][1] \in Commands
  BY <1>1
<1>3. phase[queue[l][1]] = "queued" /\ Lane(queue[l][1], at[queue[l][1]]) = l
  BY <1>2 DEF Queued, GoodQueues, Range
<1>4. at[queue[l][1]] \in 1..Innermost(queue[l][1])
  BY <1>2, <1>3, RouteFacts DEF Places, Place
<1> QED BY <1>2, <1>3, <1>4

LEMMA StartCases ==
  ASSUME TypeOK, Places, Queued, NEW l \in Lanes, Start(l)
  PROVE  \E c \in Commands :
           /\ Taken(l, c)
           /\ phase[c] = "queued" /\ at[c] \in 1..Innermost(c) /\ Lane(c, at[c]) = l
           /\ \/ \E p \in {"running", "preparing", "returning"} : Stays(l, c, p)
              \/ \E inner \in Lanes : Enters(l, c, inner)
<1> DEFINE c == Head(queue[l])
<1>1. /\ c \in Commands
      /\ phase[c] = "queued" /\ at[c] \in 1..Innermost(c) /\ Lane(c, at[c]) = l
  BY HeadIsQueued DEF Start
<1>2. Taken(l, c)
  BY DEF Start, Taken
<1>3. CASE /\ at[c] = Innermost(c)
           /\ phase' = [phase EXCEPT ![c] = "running"]
           /\ queue' = [queue EXCEPT ![l] = Tail(@)]
           /\ UNCHANGED <<at, due>>
  <2>1. Stays(l, c, "running")
    BY <1>3 DEF Stays
  <2> QED BY <1>1, <1>2, <2>1
<1>4. CASE /\ l = "cron" /\ at[c] < Innermost(c)
           /\ phase' = [phase EXCEPT ![c] = "preparing"]
           /\ queue' = [queue EXCEPT ![l] = Tail(@)]
           /\ UNCHANGED <<at, due>>
  <2>1. Stays(l, c, "preparing")
    BY <1>4 DEF Stays
  <2> QED BY <1>1, <1>2, <2>1
<1>5. CASE /\ l # "cron" /\ at[c] < Innermost(c)
           /\ Rejected(c) /\ queue' = [queue EXCEPT ![l] = Tail(@)]
  <2>1. Stays(l, c, "returning")
    BY <1>5 DEF Stays, Rejected
  <2> QED BY <1>1, <1>2, <2>1
<1>6. CASE /\ l # "cron" /\ at[c] < Innermost(c) /\ ~Rejecting
           /\ queue' = [[queue EXCEPT ![l] = Tail(@)]
                        EXCEPT ![Lane(c, at[c] + 1)] = Append(@, c)]
           /\ at' = [at EXCEPT ![c] = @ + 1]
           /\ due' = due \cup {Lane(c, at[c] + 1)}
           /\ UNCHANGED phase
  <2>1. Lane(c, at[c] + 1) \in Lanes
    BY <1>1, <1>6, RouteFacts
  <2>2. Enters(l, c, Lane(c, at[c] + 1))
    BY <1>6 DEF Enters
  <2> QED BY <1>1, <1>2, <2>1, <2>2
<1> QED BY <1>3, <1>4, <1>5, <1>6, Zenon DEF Start

-----------------------------------------------------------------------------
(* Types *)

LEMMA TypeStep ==
  ASSUME TypeOK, Places, Queued, [Next]_vars
  PROVE  TypeOK'
<1> USE DEF TypeOK
<1>1. ASSUME NEW c \in Commands, Enqueue(c) PROVE TypeOK'
  <2>1. Lane(c, 1) \in Lanes
    BY RouteLane, RouteLength
  <2>2. CASE phase' = [phase EXCEPT ![c] = "settled"] /\ UNCHANGED <<queue, at, due>>
    BY <1>1, <2>2 DEF Enqueue
  <2>3. CASE /\ queue' = [queue EXCEPT ![Lane(c, 1)] = Append(@, c)]
             /\ at' = [at EXCEPT ![c] = 1]
             /\ phase' = [phase EXCEPT ![c] = "queued"]
             /\ due' = {Lane(c, 1)}
    <3>1. at' \in [Commands -> 0..3]
      BY <2>3
    <3>2. queue' \in [Lanes -> Seq(Commands)]
      BY <2>1, <2>3
    <3> QED BY <1>1, <2>1, <2>3, <3>1, <3>2 DEF Enqueue
  <2> QED BY <1>1, <2>2, <2>3, Zenon DEF Enqueue
<1>2. ASSUME NEW c \in Commands, EnterSession(c) PROVE TypeOK'
  <2>1. CASE Rejected(c) /\ UNCHANGED queue
    BY <1>2, <2>1 DEF EnterSession, Rejected
  <2>2. CASE ~Rejected(c) \/ ~UNCHANGED queue
    <3> DEFINE inner == Lane(c, at[c] + 1)
    <3>1. inner \in Lanes /\ at[c] + 1 \in 0..3
      <4>1. at[c] = Innermost(c) - 2 /\ Innermost(c) \in {2, 3} /\ at[c] \in 0..3
        BY <1>2, RouteLength DEF EnterSession, Places, Place
      <4> QED BY <4>1, RouteLane
    <3>2. /\ queue' = [queue EXCEPT ![inner] = Append(@, c)]
          /\ phase' = [phase EXCEPT ![c] = "queued"]
          /\ at' = [at EXCEPT ![c] = @ + 1]
          /\ due' = {inner}
      BY <1>2, <2>2, Zenon DEF EnterSession
    <3> QED BY <1>2, <3>1, <3>2 DEF EnterSession
  <2> QED BY <2>1, <2>2
<1>3. ASSUME NEW c \in Commands, Leave(c) PROVE TypeOK'
  <2> DEFINE l == Lane(c, at[c])
  <2>1. at[c] \in 1..Innermost(c) /\ l \in Lanes /\ at[c] - 1 \in 0..3
    BY <1>3, RouteFacts DEF Leave, Places, Place
  <2>2. due' \in {{l}, {}}
    BY <1>3, Zenon DEF Leave
  <2>3. phase' \in [Commands -> {"new", "queued", "preparing", "running", "returning", "settled"}]
    BY <1>3 DEF Leave
  <2> QED BY <1>3, <2>1, <2>2, <2>3 DEF Leave
<1>4. ASSUME NEW l \in Lanes, Start(l) PROVE TypeOK'
  <2>1. PICK c \in Commands :
          /\ Taken(l, c)
          /\ phase[c] = "queued" /\ at[c] \in 1..Innermost(c) /\ Lane(c, at[c]) = l
          /\ \/ \E p \in {"running", "preparing", "returning"} : Stays(l, c, p)
             \/ \E inner \in Lanes : Enters(l, c, inner)
    BY <1>4, StartCases
  <2>2. Tail(queue[l]) \in Seq(Commands)
    BY <2>1 DEF Taken
  <2>3. CASE \E p \in {"running", "preparing", "returning"} : Stays(l, c, p)
    BY <2>1, <2>2, <2>3 DEF Taken, Stays
  <2>4. ASSUME NEW inner \in Lanes, Enters(l, c, inner) PROVE TypeOK'
    <3>1. at[c] + 1 \in 0..3
      <4>1. at[c] \in 0..3 /\ at[c] < Innermost(c) /\ Innermost(c) \in {2, 3}
        BY <2>4, RouteLength DEF Enters
      <4> QED BY <4>1
    <3>4. at' \in [Commands -> 0..3]
      BY <2>4, <3>1 DEF Enters
    <3> DEFINE rest == [queue EXCEPT ![l] = Tail(@)]
    <3>2. rest \in [Lanes -> Seq(Commands)] /\ queue' = [rest EXCEPT ![inner] = Append(@, c)]
      BY <2>2, <2>4 DEF Enters
    <3>3. queue' \in [Lanes -> Seq(Commands)]
      <4> HIDE DEF rest
      <4>1. Append(rest[inner], c) \in Seq(Commands)
        BY <3>2
      <4> QED BY <3>2, <4>1
    <3> QED BY <2>1, <2>4, <3>4, <3>3 DEF Taken, Enters
  <2> QED BY <2>1, <2>3, <2>4
<1>5. ASSUME NEW l \in Lanes, PumpEnds(l) PROVE TypeOK'
  BY <1>5 DEF PumpEnds
<1>6. ASSUME NEW s \in Sessions, Clear(s) PROVE TypeOK'
  <2>1. \A c \in Commands : phase[c] = "queued" => at[c] - 1 \in 0..3
    BY RouteLength DEF Places, Place
  <2>2. at' \in [Commands -> 0..3]
    <3>1. at' = [c \in Commands |-> IF WaitsIn(c, s) THEN at[c] - 1 ELSE at[c]]
      BY <1>6, Zenon DEF Clear
    <3>2. \A c \in Commands : WaitsIn(c, s) => at[c] - 1 \in 0..3
      BY <2>1 DEF WaitsIn
    <3> QED BY <3>1, <3>2
  <2>3. phase' \in [Commands -> {"new", "queued", "preparing", "running", "returning", "settled"}]
    BY <1>6 DEF Clear
  <2>4. queue' \in [Lanes -> Seq(Commands)]
    <3>1. <<>> \in Seq(Commands) /\ queue' = [queue EXCEPT ![s] = <<>>]
      BY <1>6 DEF Clear
    <3> DEFINE empty == <<>>
    <3> HIDE DEF empty
    <3>2. empty \in Seq(Commands) /\ queue' = [queue EXCEPT ![s] = empty]
      BY <3>1 DEF empty
    <3> QED BY <3>2
  <2> QED BY <1>6, <2>2, <2>3, <2>4 DEF Clear
<1>7. ASSUME NEW l \in {"main", "subagent", "cron"}, NEW n \in Limits, SetConcurrency(l, n)
      PROVE  TypeOK'
  <2>1. l \in Lanes /\ AtLeastOne(n) \in Nat \ {0}
    BY LimitsType DEF Lanes, GlobalLanes, AtLeastOne
  <2> QED BY <1>7, <2>1 DEF SetConcurrency
<1>8. CASE DrainBegins
  BY <1>8 DEF DrainBegins
<1>9. CASE DrainEnds
  BY <1>9 DEF DrainEnds
<1>10. CASE ResetAllLanes
  BY <1>10 DEF ResetAllLanes
<1>11. CASE UNCHANGED vars
  BY <1>11 DEF vars
<1> QED
  BY <1>1, <1>2, <1>3, <1>4, <1>5, <1>6, <1>7, <1>8, <1>9, <1>10, <1>11 DEF Next, Pump

-----------------------------------------------------------------------------
(* No lane is idle with work waiting *)

\* Whatever takes an entry out of an active set, adds one to a queue or raises a
\* limit pumps that lane.
LEMMA NoIdleStep ==
  ASSUME TypeOK, Places, Queued, NoIdleLane, [Next]_vars
  PROVE  NoIdleLane'
<1> USE DEF TypeOK, NoIdleLane, HasSlot
<1>1. ASSUME NEW c \in Commands, Enqueue(c) PROVE NoIdleLane'
  BY <1>1 DEF Enqueue, AtRest
<1>2. ASSUME NEW c \in Commands, EnterSession(c) PROVE NoIdleLane'
  <2>1. CASE Rejected(c) /\ UNCHANGED queue
    BY <1>2, <2>1 DEF EnterSession, Rejected
  <2>2. CASE ~Rejected(c) \/ ~UNCHANGED queue
    <3> DEFINE inner == Lane(c, at[c] + 1)
    <3>1. /\ queue' = [queue EXCEPT ![inner] = Append(@, c)]
          /\ due = {} /\ due' = {inner} /\ UNCHANGED <<active, limit>>
      BY <1>2, <2>2, Zenon DEF EnterSession, AtRest
    <3> QED BY <3>1
  <2> QED BY <2>1, <2>2
<1>3. ASSUME NEW c \in Commands, Leave(c) PROVE NoIdleLane'
  <2> DEFINE l == Lane(c, at[c])
  <2>1. /\ due = {} /\ UNCHANGED <<queue, limit>>
        /\ active' = [active EXCEPT ![l] = @ \ {c}]
    BY <1>3, Zenon DEF Leave, AtRest
  <2>2. CASE c \in active[l]
    <3>1. due' = {l}
      BY <1>3, <2>2 DEF Leave
    <3> QED BY <2>1, <3>1
  <2>3. CASE c \notin active[l]
    <3>1. active' = active
      BY <2>1, <2>3
    <3> QED BY <2>1, <3>1
  <2> QED BY <2>2, <2>3
<1>4. ASSUME NEW l \in Lanes, Start(l) PROVE NoIdleLane'
  <2>1. PICK c \in Commands :
          /\ Taken(l, c)
          /\ \/ \E p \in {"running", "preparing", "returning"} : Stays(l, c, p)
             \/ \E inner \in Lanes : Enters(l, c, inner)
    BY <1>4, StartCases
  <2>2. CASE \E p \in {"running", "preparing", "returning"} : Stays(l, c, p)
    BY <2>1, <2>2 DEF Taken, Stays
  <2>3. ASSUME NEW inner \in Lanes, Enters(l, c, inner) PROVE NoIdleLane'
    BY <2>1, <2>3 DEF Taken, Enters
  <2> QED BY <2>1, <2>2, <2>3
<1>5. ASSUME NEW l \in Lanes, PumpEnds(l) PROVE NoIdleLane'
  BY <1>5 DEF PumpEnds
<1>6. ASSUME NEW s \in Sessions, Clear(s) PROVE NoIdleLane'
  BY <1>6 DEF Clear
<1>7. ASSUME NEW l \in {"main", "subagent", "cron"}, NEW n \in Limits, SetConcurrency(l, n)
      PROVE  NoIdleLane'
  BY <1>7 DEF SetConcurrency, AtRest
<1>8. CASE DrainBegins
  BY <1>8 DEF DrainBegins
<1>9. CASE DrainEnds
  BY <1>9 DEF DrainEnds
<1>10. CASE ResetAllLanes
  BY <1>10 DEF ResetAllLanes
<1>11. CASE UNCHANGED vars
  BY <1>11 DEF vars
<1> QED
  BY <1>1, <1>2, <1>3, <1>4, <1>5, <1>6, <1>7, <1>8, <1>9, <1>10, <1>11 DEF Next, Pump

-----------------------------------------------------------------------------
(* Places *)

\* A step of the command c alone.
Moves(c, k, p) == at' = [at EXCEPT ![c] = k] /\ phase' = [phase EXCEPT ![c] = p]

LEMMA PlaceOf ==
  ASSUME TypeOK, Places, NEW c \in Commands, NEW k, NEW p, Moves(c, k, p), Place(c, k, p)
  PROVE  Places'
<1> SUFFICES ASSUME NEW d \in Commands
             PROVE  Place(d, at'[d], phase'[d])
  BY DEF Places
<1>1. CASE d = c
  <2>1. at'[d] = k /\ phase'[d] = p
    BY <1>1 DEF TypeOK, Moves
  <2> QED BY <1>1, <2>1
<1>2. CASE d # c
  <2>1. at'[d] = at[d] /\ phase'[d] = phase[d]
    BY <1>2 DEF TypeOK, Moves
  <2> QED BY <2>1 DEF Places
<1> QED BY <1>1, <1>2

LEMMA PlacesStep ==
  ASSUME TypeOK, Places, Queued, [Next]_vars
  PROVE  Places'
<1>1. ASSUME NEW c \in Commands, Enqueue(c) PROVE Places'
  <2>1. phase[c] = "new" /\ at[c] = 0
    BY <1>1, RouteLength DEF Enqueue, Places, Place
  <2>2. CASE phase' = [phase EXCEPT ![c] = "settled"] /\ UNCHANGED <<queue, at, due>>
    <3>1. Moves(c, 0, "settled")
      BY <2>1, <2>2 DEF TypeOK, Moves
    <3>2. Place(c, 0, "settled")
      BY RouteLength DEF Place
    <3> QED BY <3>1, <3>2, PlaceOf
  <2>3. CASE /\ at' = [at EXCEPT ![c] = 1]
             /\ phase' = [phase EXCEPT ![c] = "queued"]
    <3>1. Moves(c, 1, "queued")
      BY <2>3 DEF Moves
    <3>2. Place(c, 1, "queued")
      BY RouteLength DEF Place
    <3> QED BY <3>1, <3>2, PlaceOf
  <2> QED BY <1>1, <2>2, <2>3, Zenon DEF Enqueue
<1>2. ASSUME NEW c \in Commands, EnterSession(c) PROVE Places'
  <2>1. /\ phase[c] = "preparing" /\ at[c] \in 0..3 /\ at[c] >= 1
        /\ at[c] = Innermost(c) - 2 /\ Innermost(c) \in {2, 3}
    BY <1>2, RouteLength DEF EnterSession, Places, Place, TypeOK
  <2>2. CASE Rejected(c)
    <3>1. Moves(c, at[c], "returning")
      BY <2>2 DEF Rejected, TypeOK, Moves
    <3>2. Place(c, at[c], "returning")
      BY <2>1 DEF Place
    <3> QED BY <3>1, <3>2, PlaceOf
  <2>3. CASE /\ phase' = [phase EXCEPT ![c] = "queued"]
             /\ at' = [at EXCEPT ![c] = @ + 1]
    <3>1. Moves(c, at[c] + 1, "queued")
      BY <2>3 DEF Moves
    <3>2. Place(c, at[c] + 1, "queued")
      BY <2>1 DEF Place
    <3> QED BY <3>1, <3>2, PlaceOf
  <2> QED BY <1>2, <2>2, <2>3, Zenon DEF EnterSession
<1>3. ASSUME NEW c \in Commands, Leave(c) PROVE Places'
  <2> DEFINE p == IF at[c] = 1 THEN "settled" ELSE "returning"
  <2>1. Moves(c, at[c] - 1, p)
    BY <1>3 DEF Leave, Moves
  <2>2. at[c] \in 0..3 /\ at[c] >= 1 /\ at[c] <= Innermost(c) /\ Innermost(c) \in {2, 3}
    BY <1>3, RouteLength DEF Leave, Places, Place, TypeOK
  <2> HIDE DEF p
  <2>3. Place(c, at[c] - 1, p)
    BY <2>2 DEF p, Place
  <2> QED BY <2>1, <2>3, PlaceOf
<1>4. ASSUME NEW l \in Lanes, Start(l) PROVE Places'
  <2>1. PICK c \in Commands :
          /\ Taken(l, c)
          /\ phase[c] = "queued" /\ at[c] \in 1..Innermost(c) /\ Lane(c, at[c]) = l
          /\ \/ \E p \in {"running", "preparing", "returning"} : Stays(l, c, p)
             \/ \E inner \in Lanes : Enters(l, c, inner)
    BY <1>4, StartCases
  <2>2. at[c] \in 0..3 /\ at[c] >= 1 /\ at[c] <= Innermost(c) /\ Innermost(c) \in {2, 3}
    BY <2>1, RouteLength DEF TypeOK
  <2>3. ASSUME NEW p \in {"running", "preparing", "returning"}, Stays(l, c, p) PROVE Places'
    <3>1. Moves(c, at[c], p)
      BY <2>3 DEF Stays, TypeOK, Moves
    <3>2. /\ p = "running" <=> at[c] = Innermost(c)
          /\ p = "preparing" => l = "cron" /\ at[c] < Innermost(c)
      BY <2>3, <2>2 DEF Stays
    <3>3. p = "preparing" => at[c] = Innermost(c) - 2
      BY <2>1, <3>2, RouteFacts
    <3>4. Place(c, at[c], p)
      BY <2>2, <3>2, <3>3 DEF Place
    <3> QED BY <3>1, <3>4, PlaceOf
  <2>4. ASSUME NEW inner \in Lanes, Enters(l, c, inner) PROVE Places'
    <3>1. Moves(c, at[c] + 1, "queued") /\ at[c] < Innermost(c)
      BY <2>1, <2>4 DEF Enters, TypeOK, Moves
    <3>2. Place(c, at[c] + 1, "queued")
      BY <2>2, <3>1 DEF Place
    <3> QED BY <3>1, <3>2, PlaceOf
  <2> QED BY <2>1, <2>3, <2>4
<1>5. ASSUME NEW s \in Sessions, Clear(s) PROVE Places'
  <2> SUFFICES ASSUME NEW d \in Commands
               PROVE  Place(d, at'[d], phase'[d])
    BY DEF Places
  <2>1. CASE ~WaitsIn(d, s)
    <3>1. at'[d] = at[d] /\ phase'[d] = phase[d]
      BY <1>5, <2>1 DEF Clear
    <3> QED BY <3>1 DEF Places
  <2>2. CASE WaitsIn(d, s)
    <3>1. /\ at[d] \in 0..3 /\ at[d] >= 1 /\ at[d] <= Innermost(d) /\ Innermost(d) \in {2, 3}
      BY <2>2, RouteLength DEF WaitsIn, Places, Place, TypeOK
    <3>2. /\ at'[d] = at[d] - 1
          /\ phase'[d] = IF at[d] = 1 THEN "settled" ELSE "returning"
      BY <1>5, <2>2 DEF Clear
    <3> QED BY <3>1, <3>2 DEF Place
  <2> QED BY <2>1, <2>2
<1>6. CASE UNCHANGED <<at, phase>>
  BY <1>6 DEF Places
<1> QED
  BY <1>1, <1>2, <1>3, <1>4, <1>5, <1>6, Zenon
  DEF Next, Pump, PumpEnds, SetConcurrency, DrainBegins, DrainEnds, ResetAllLanes, vars

-----------------------------------------------------------------------------
(* Queues *)

AddsTo(q, r, l, c) == r = [q EXCEPT ![l] = Append(@, c)]
DropsHead(q, r, l) == r = [q EXCEPT ![l] = Tail(@)]
InNoQueue(c, q) == \A l \in Lanes : c \notin Range(q[l])
SameBut(c, a, b, p, r) == \A d \in Commands \ {c} : b[d] = a[d] /\ r[d] = p[d]

LEMMA RangeType ==
  ASSUME NEW q \in [Lanes -> Seq(Commands)], NEW l \in Lanes
  PROVE  Range(q[l]) \subseteq Commands
<1>1. q[l] \in Seq(Commands)
  OBVIOUS
<1>2. \A i \in DOMAIN q[l] : q[l][i] \in Commands
  BY <1>1
<1> QED BY <1>2 DEF Range

LEMMA AddEntry ==
  ASSUME NEW q \in [Lanes -> Seq(Commands)], NEW r, NEW a, NEW b, NEW p, NEW o,
         NEW c \in Commands, NEW l \in Lanes,
         GoodQueues(q, a, p), AddsTo(q, r, l, c), InNoQueue(c, q), SameBut(c, a, b, p, o),
         o[c] = "queued", Lane(c, b[c]) = l
  PROVE  GoodQueues(r, b, o)
<1> SUFFICES ASSUME NEW m \in Lanes
             PROVE  /\ IsInjective(r[m])
                    /\ \A d \in Range(r[m]) : o[d] = "queued" /\ Lane(d, b[d]) = m
  BY DEF GoodQueues
<1>1. /\ IsInjective(q[m]) /\ Range(q[m]) \subseteq Commands \ {c}
      /\ \A d \in Range(q[m]) : p[d] = "queued" /\ Lane(d, a[d]) = m
  BY RangeType DEF GoodQueues, InNoQueue
<1>2. \A d \in Range(q[m]) : o[d] = "queued" /\ Lane(d, b[d]) = m
  BY <1>1 DEF SameBut
<1>3. CASE m = l
  <2>1. r[m] = Append(q[m], c) /\ q[m] \in Seq(Commands)
    BY <1>3 DEF AddsTo
  <2>2. IsInjective(r[m]) /\ Range(r[m]) = Range(q[m]) \cup {c}
    BY <1>1, <2>1, AppendEntry
  <2> QED BY <1>2, <1>3, <2>2
<1>4. CASE m # l
  <2>1. r[m] = q[m]
    BY <1>4 DEF AddsTo
  <2> QED BY <1>1, <1>2, <2>1
<1> QED BY <1>3, <1>4

LEMMA DropEntry ==
  ASSUME NEW q \in [Lanes -> Seq(Commands)], NEW r, NEW a, NEW b, NEW p, NEW o,
         NEW l \in Lanes, q[l] # <<>>, NEW c, c = Head(q[l]),
         GoodQueues(q, a, p), DropsHead(q, r, l), SameBut(c, a, b, p, o)
  PROVE  GoodQueues(r, b, o) /\ InNoQueue(c, r) /\ r \in [Lanes -> Seq(Commands)]
<1>1. /\ q[l] \in Seq(Commands) /\ IsInjective(q[l]) /\ r[l] = Tail(q[l])
      /\ r \in [Lanes -> Seq(Commands)]
  <2>1. q[l] \in Seq(Commands) /\ Tail(q[l]) \in Seq(Commands)
    OBVIOUS
  <2> QED BY <2>1 DEF GoodQueues, DropsHead
<1>2. IsInjective(r[l]) /\ Range(r[l]) \subseteq Range(q[l]) /\ c \notin Range(r[l])
  BY <1>1, TailEntries
<1>3. c \in Range(q[l])
  <2>1. 1 \in DOMAIN q[l] /\ c = q[l][1]
    BY <1>1
  <2> QED BY <2>1 DEF Range
<1>4. \A m \in Lanes : m # l => r[m] = q[m]
  BY DEF DropsHead
<1>5. \A m \in Lanes : Range(r[m]) \subseteq Range(q[m]) /\ IsInjective(r[m])
  BY <1>2, <1>4 DEF GoodQueues
<1>6. InNoQueue(c, r)
  <2> SUFFICES ASSUME NEW m \in Lanes, c \in Range(r[m]) PROVE FALSE
    BY DEF InNoQueue
  <2>1. m # l
    BY <1>2
  <2>2. c \in Range(q[m])
    BY <1>5
  <2> QED BY <1>3, <2>1, <2>2 DEF GoodQueues
<1>7. GoodQueues(r, b, o)
  <2> SUFFICES ASSUME NEW m \in Lanes, NEW d \in Range(r[m])
               PROVE  o[d] = "queued" /\ Lane(d, b[d]) = m
    BY <1>5 DEF GoodQueues
  <2>1. d \in Range(q[m]) /\ d \in Commands /\ d # c
    BY <1>5, <1>6, RangeType DEF InNoQueue
  <2> QED BY <2>1 DEF GoodQueues, SameBut
<1> QED BY <1>1, <1>6, <1>7

LEMMA NotWaiting ==
  ASSUME Queued, NEW c \in Commands, phase[c] # "queued"
  PROVE  InNoQueue(c, queue)
BY DEF Queued, GoodQueues, InNoQueue

\* A step of a command that waits nowhere leaves the queues good.
LEMMA Elsewhere ==
  ASSUME TypeOK, Queued, NEW c \in Commands, phase[c] # "queued",
         SameBut(c, at, at', phase, phase'), queue' = queue
  PROVE  Queued'
<1> SUFFICES ASSUME NEW l \in Lanes, NEW d \in Range(queue[l])
             PROVE  phase'[d] = "queued" /\ Lane(d, at'[d]) = l
  BY DEF Queued, GoodQueues
<1>1. d \in Commands /\ d # c
  BY RangeType, NotWaiting DEF TypeOK, InNoQueue
<1> QED BY <1>1 DEF Queued, GoodQueues, SameBut

LEMMA QueuedStep ==
  ASSUME TypeOK, Places, Queued, [Next]_vars
  PROVE  Queued'
<1>1. ASSUME NEW c \in Commands, Enqueue(c) PROVE Queued'
  <2>1. phase[c] = "new" /\ Lane(c, 1) \in Lanes
    BY <1>1, RouteLane, RouteLength DEF Enqueue
  <2>2. CASE phase' = [phase EXCEPT ![c] = "settled"] /\ UNCHANGED <<queue, at, due>>
    <3>1. SameBut(c, at, at', phase, phase')
      BY <2>2 DEF SameBut, TypeOK
    <3> QED BY <2>1, <2>2, <3>1, Elsewhere
  <2>3. CASE /\ queue' = [queue EXCEPT ![Lane(c, 1)] = Append(@, c)]
             /\ at' = [at EXCEPT ![c] = 1]
             /\ phase' = [phase EXCEPT ![c] = "queued"]
    <3>1. SameBut(c, at, at', phase, phase') /\ at'[c] = 1 /\ phase'[c] = "queued"
      BY <2>3 DEF SameBut, TypeOK
    <3>2. InNoQueue(c, queue)
      BY <2>1, NotWaiting
    <3>3. AddsTo(queue, queue', Lane(c, 1), c)
      BY <2>3 DEF AddsTo
    <3> QED BY <2>1, <3>1, <3>2, <3>3, AddEntry DEF Queued, TypeOK
  <2> QED BY <1>1, <2>2, <2>3, Zenon DEF Enqueue
<1>2. ASSUME NEW c \in Commands, EnterSession(c) PROVE Queued'
  <2>1. phase[c] = "preparing"
    BY <1>2 DEF EnterSession
  <2>2. CASE Rejected(c) /\ UNCHANGED queue
    <3>1. SameBut(c, at, at', phase, phase')
      BY <2>2 DEF SameBut, TypeOK, Rejected
    <3> QED BY <2>1, <2>2, <3>1, Elsewhere
  <2>3. CASE /\ queue' = [queue EXCEPT ![Lane(c, at[c] + 1)] = Append(@, c)]
             /\ phase' = [phase EXCEPT ![c] = "queued"]
             /\ at' = [at EXCEPT ![c] = @ + 1]
    <3>1. SameBut(c, at, at', phase, phase') /\ at'[c] = at[c] + 1 /\ phase'[c] = "queued"
      BY <2>3 DEF SameBut, TypeOK
    <3>2. InNoQueue(c, queue)
      BY <2>1, NotWaiting
    <3>3. AddsTo(queue, queue', Lane(c, at[c] + 1), c)
      BY <2>3 DEF AddsTo
    <3>4. Lane(c, at[c] + 1) \in Lanes
      <4>1. at[c] = Innermost(c) - 2 /\ Innermost(c) \in {2, 3} /\ at[c] \in 0..3
        BY <2>1, RouteLength DEF Places, Place, TypeOK
      <4> QED BY <4>1, RouteLane
    <3> QED BY <3>1, <3>2, <3>3, <3>4, AddEntry DEF Queued, TypeOK
  <2> QED BY <1>2, <2>2, <2>3, Zenon DEF EnterSession
<1>3. ASSUME NEW c \in Commands, Leave(c) PROVE Queued'
  <2>1. phase[c] # "queued" /\ queue' = queue /\ SameBut(c, at, at', phase, phase')
    BY <1>3 DEF Leave, SameBut, TypeOK
  <2> QED BY <2>1, Elsewhere
<1>4. ASSUME NEW l \in Lanes, Start(l) PROVE Queued'
  <2>1. PICK c \in Commands :
          /\ Taken(l, c)
          /\ phase[c] = "queued" /\ at[c] \in 1..Innermost(c) /\ Lane(c, at[c]) = l
          /\ \/ \E p \in {"running", "preparing", "returning"} : Stays(l, c, p)
             \/ \E inner \in Lanes : Enters(l, c, inner)
    BY <1>4, StartCases
  <2>2. queue[l] # <<>> /\ c = Head(queue[l])
    BY <2>1 DEF Taken
  <2>3. ASSUME NEW p \in {"running", "preparing", "returning"}, Stays(l, c, p) PROVE Queued'
    <3>1. DropsHead(queue, queue', l) /\ SameBut(c, at, at', phase, phase')
      BY <2>3 DEF Stays, DropsHead, SameBut, TypeOK
    <3> QED BY <2>2, <3>1, DropEntry DEF Queued, TypeOK
  <2>4. ASSUME NEW inner \in Lanes, Enters(l, c, inner) PROVE Queued'
    <3> DEFINE rest == [queue EXCEPT ![l] = Tail(@)]
    <3>1. AddsTo(rest, queue', inner, c) /\ DropsHead(queue, rest, l)
      BY <2>4 DEF Enters, AddsTo, DropsHead
    <3>2. SameBut(c, at, at, phase, phase)
      BY DEF SameBut
    <3> HIDE DEF rest
    <3>3. GoodQueues(rest, at, phase) /\ InNoQueue(c, rest) /\ rest \in [Lanes -> Seq(Commands)]
      BY <2>2, <3>1, <3>2, DropEntry DEF Queued, TypeOK
    <3>4. /\ SameBut(c, at, at', phase, phase')
          /\ phase'[c] = "queued" /\ Lane(c, at'[c]) = inner
      BY <2>1, <2>4 DEF Enters, SameBut, TypeOK
    <3> QED BY <3>1, <3>3, <3>4, AddEntry DEF Queued
  <2> QED BY <2>1, <2>3, <2>4
<1>5. ASSUME NEW s \in Sessions, Clear(s) PROVE Queued'
  <2>1. s \in Lanes
    BY DEF Lanes
  <2>2. queue'[s] = <<>> /\ \A m \in Lanes : m # s => queue'[m] = queue[m]
    BY <1>5, <2>1 DEF Clear, TypeOK
  <2>3. \A c \in Commands : ~WaitsIn(c, s) => phase'[c] = phase[c] /\ at'[c] = at[c]
    BY <1>5 DEF Clear
  <2> SUFFICES ASSUME NEW m \in Lanes
               PROVE  /\ IsInjective(queue'[m])
                      /\ \A d \in Range(queue'[m]) : phase'[d] = "queued" /\ Lane(d, at'[d]) = m
    BY DEF Queued, GoodQueues
  <2>4. CASE m = s
    BY <2>2, <2>4, NoEntries
  <2>5. CASE m # s
    <3>1. queue'[m] = queue[m] /\ Range(queue[m]) \subseteq Commands
      BY <2>2, <2>5, RangeType DEF TypeOK
    <3>2. \A d \in Range(queue[m]) : ~WaitsIn(d, s)
      BY <2>5 DEF Queued, GoodQueues, WaitsIn
    <3> QED BY <2>3, <3>1, <3>2 DEF Queued, GoodQueues
  <2> QED BY <2>4, <2>5
<1>6. CASE UNCHANGED <<queue, at, phase>>
  BY <1>6 DEF Queued
<1> QED
  BY <1>1, <1>2, <1>3, <1>4, <1>5, <1>6, Zenon
  DEF Next, Pump, PumpEnds, SetConcurrency, DrainBegins, DrainEnds, ResetAllLanes, vars

-----------------------------------------------------------------------------
(* Slots *)

Takes(l, c) == HasSlot(l) /\ active' = [active EXCEPT ![l] = @ \cup {c}] /\ limit' = limit
Frees(l, c) == active' = [active EXCEPT ![l] = @ \ {c}] /\ limit' = limit
FreesAll == active' = [l \in Lanes |-> {}] /\ limit' = limit
Reconfigures(l, n) ==
  /\ l \in GlobalLanes /\ n \in Limits
  /\ limit' = [limit EXCEPT ![l] = AtLeastOne(n)] /\ active' = active

LEMMA SlotChanges ==
  ASSUME TypeOK, Places, Queued, [Next]_vars
  PROVE  \/ UNCHANGED <<active, limit>>
         \/ \E l \in Lanes, c \in Commands : Takes(l, c) \/ Frees(l, c)
         \/ FreesAll
         \/ \E l \in Lanes, n \in Limits : Reconfigures(l, n)
<1>1. ASSUME NEW c \in Commands, Leave(c)
      PROVE  \E l \in Lanes : Frees(l, c)
  <2>1. Lane(c, at[c]) \in Lanes
    <3>1. at[c] \in Nat /\ 1 <= at[c] /\ at[c] <= Innermost(c)
      BY <1>1, RouteLength DEF Leave, Places, Place, TypeOK
    <3> QED BY <3>1, RouteLane
  <2>2. Frees(Lane(c, at[c]), c)
    BY <1>1 DEF Leave, Frees
  <2> QED BY <2>1, <2>2
<1>2. ASSUME NEW l \in Lanes, Start(l)
      PROVE  \E c \in Commands : Takes(l, c)
  BY <1>2, StartCases DEF Taken, Takes
<1>3. ASSUME NEW l \in {"main", "subagent", "cron"}, NEW n \in Limits, SetConcurrency(l, n)
      PROVE  l \in Lanes /\ Reconfigures(l, n)
  BY <1>3 DEF SetConcurrency, Reconfigures, Lanes, GlobalLanes
<1>4. CASE ResetAllLanes
  BY <1>4 DEF ResetAllLanes, FreesAll
<1> QED
  BY <1>1, <1>2, <1>3, <1>4, Zenon
  DEF Next, Pump, Enqueue, EnterSession, PumpEnds, Clear, DrainBegins, DrainEnds, vars

LEMMA ActiveFinite ==
  ASSUME TypeOK, NEW l \in Lanes
  PROVE  IsFiniteSet(active[l]) /\ Cardinality(active[l]) \in Nat
BY CommandsFinite, FS_Subset, FS_CardinalityType DEF TypeOK

LEMMA SessionSlotsStep ==
  ASSUME TypeOK, Places, Queued, SessionSlots, [Next]_vars
  PROVE  SessionSlots'
<1> SUFFICES ASSUME NEW s \in Sessions
             PROVE  limit'[s] = 1 /\ \A c, d \in active'[s] : c = d
  BY DEF SessionSlots
<1>1. s \in Lanes /\ s \notin GlobalLanes
  BY SessionsAreOwnLanes DEF Lanes
<1>2. limit[s] = 1 /\ \A c, d \in active[s] : c = d
  BY DEF SessionSlots
<1>3. CASE UNCHANGED <<active, limit>>
  BY <1>2, <1>3
<1>4. ASSUME NEW l \in Lanes, NEW c \in Commands, Takes(l, c)
      PROVE  limit'[s] = 1 /\ \A b, d \in active'[s] : b = d
  <2>1. CASE l # s
    BY <1>1, <1>2, <1>4, <2>1 DEF Takes, TypeOK
  <2>2. CASE l = s
    <3>1. Cardinality(active[s]) < 1
      BY <1>2, <1>4, <2>2 DEF Takes, HasSlot
    <3>2. active[s] = {}
      <4>1. Cardinality(active[s]) = 0
        BY <1>1, <3>1, ActiveFinite
      <4> QED BY <1>1, <4>1, ActiveFinite, FS_EmptySet
    <3>3. active'[s] = {c}
      BY <1>1, <1>4, <2>2, <3>2 DEF Takes, TypeOK
    <3> QED BY <1>2, <1>4, <3>3 DEF Takes
  <2> QED BY <2>1, <2>2
<1>5. ASSUME NEW l \in Lanes, NEW c \in Commands, Frees(l, c)
      PROVE  limit'[s] = 1 /\ \A b, d \in active'[s] : b = d
  BY <1>1, <1>2, <1>5 DEF Frees, TypeOK
<1>6. CASE FreesAll
  BY <1>1, <1>2, <1>6 DEF FreesAll
<1>7. ASSUME NEW l \in Lanes, NEW n \in Limits, Reconfigures(l, n)
      PROVE  limit'[s] = 1 /\ \A b, d \in active'[s] : b = d
  BY <1>1, <1>2, <1>7 DEF Reconfigures, TypeOK
<1> QED BY <1>3, <1>4, <1>5, <1>6, <1>7, SlotChanges

LEMMA CappedStep ==
  ASSUME TypeOK, Places, Queued, Capped, [Next]_vars
  PROVE  Capped'
<1> SUFFICES ASSUME NEW m \in Lanes
             PROVE  /\ \E n \in Limits \cup {1} : limit'[m] = AtLeastOne(n)
                    /\ \E n \in Limits \cup {1} : Cardinality(active'[m]) <= AtLeastOne(n)
  BY DEF Capped
<1> DEFINE Goal == /\ \E n \in Limits \cup {1} : limit'[m] = AtLeastOne(n)
                   /\ \E n \in Limits \cup {1} : Cardinality(active'[m]) <= AtLeastOne(n)
<1>1. PICK n1 \in Limits \cup {1} : limit[m] = AtLeastOne(n1)
  BY DEF Capped
<1>2. PICK n2 \in Limits \cup {1} : Cardinality(active[m]) <= AtLeastOne(n2)
  BY DEF Capped
<1>3. CASE UNCHANGED <<active, limit>>
  BY <1>1, <1>2, <1>3
<1>4. ASSUME NEW l \in Lanes, NEW c \in Commands, Takes(l, c) PROVE Goal
  <2>1. CASE l # m
    <3>1. active'[m] = active[m] /\ limit'[m] = limit[m]
      BY <1>4, <2>1 DEF Takes, TypeOK
    <3> QED BY <1>1, <1>2, <3>1
  <2>2. CASE l = m
    <3>1. active'[m] = active[m] \cup {c} /\ limit'[m] = limit[m]
      BY <1>4, <2>2 DEF Takes, TypeOK
    <3>2. Cardinality(active'[m]) <= Cardinality(active[m]) + 1
      <4>1. IsFiniteSet(active[m]) /\ Cardinality(active[m]) \in Nat
        BY ActiveFinite
      <4>2. \/ Cardinality(active[m] \cup {c}) = Cardinality(active[m])
            \/ Cardinality(active[m] \cup {c}) = Cardinality(active[m]) + 1
        BY <4>1, FS_AddElement
      <4> QED BY <3>1, <4>1, <4>2
    <3>3. Cardinality(active[m]) < limit[m] /\ limit[m] \in Nat
      BY <1>4, <2>2 DEF Takes, HasSlot, TypeOK
    <3>4. Cardinality(active'[m]) \in Nat
      BY <3>1, ActiveFinite, FS_AddElement, FS_CardinalityType
    <3>5. Cardinality(active'[m]) <= AtLeastOne(n1)
      BY <1>1, <3>2, <3>3, <3>4, ActiveFinite
    <3> QED BY <1>1, <3>1, <3>5
  <2> QED BY <2>1, <2>2
<1>5. ASSUME NEW l \in Lanes, NEW c \in Commands, Frees(l, c) PROVE Goal
  <2>1. active'[m] \subseteq active[m] /\ limit'[m] = limit[m]
    BY <1>5 DEF Frees, TypeOK
  <2>2. Cardinality(active'[m]) <= Cardinality(active[m]) /\ Cardinality(active'[m]) \in Nat
    BY <2>1, ActiveFinite, FS_Subset, FS_CardinalityType
  <2>3. AtLeastOne(n2) \in Nat
    BY LimitsType DEF AtLeastOne
  <2>4. Cardinality(active'[m]) <= AtLeastOne(n2)
    BY <1>2, <2>2, <2>3, ActiveFinite
  <2> QED BY <1>1, <2>1, <2>4
<1>6. CASE FreesAll
  <2>1. Cardinality(active'[m]) = 0 /\ limit'[m] = limit[m]
    BY <1>6, FS_EmptySet DEF FreesAll
  <2>2. Cardinality(active'[m]) <= AtLeastOne(1)
    BY <2>1 DEF AtLeastOne
  <2> QED BY <1>1, <2>1, <2>2
<1>7. ASSUME NEW l \in Lanes, NEW n \in Limits, Reconfigures(l, n) PROVE Goal
  <2>1. active'[m] = active[m] /\ limit'[m] \in {limit[m], AtLeastOne(n)}
    BY <1>7 DEF Reconfigures, TypeOK
  <2> QED BY <1>1, <1>2, <2>1
<1> QED BY <1>3, <1>4, <1>5, <1>6, <1>7, SlotChanges

-----------------------------------------------------------------------------
(* Who holds what, and what a drain waits for *)

\* Of the commands that are in their innermost lane or run after a step.
Kept(d) ==
  /\ at'[d] = Innermost(d) => at[d] = Innermost(d)
  /\ phase'[d] = "running" => phase[d] = "running"

\* Only the pump lets a command into a global lane or starts it; every other step
\* keeps or removes.
LEMMA OthersKeep ==
  ASSUME TypeOK, Places, [Next]_vars, \A l \in Lanes : ~Start(l)
  PROVE  \A d \in Commands : Kept(d)
<1> USE DEF TypeOK
<1>1. ASSUME NEW c \in Commands, Enqueue(c) PROVE \A d \in Commands : Kept(d)
  <2>1. Innermost(c) \in {2, 3}
    BY RouteLength
  <2>2. CASE phase' = [phase EXCEPT ![c] = "settled"] /\ UNCHANGED <<queue, at, due>>
    BY <2>2 DEF Kept
  <2>3. CASE /\ at' = [at EXCEPT ![c] = 1]
             /\ phase' = [phase EXCEPT ![c] = "queued"]
    BY <2>1, <2>3 DEF Kept
  <2> QED BY <1>1, <2>2, <2>3, Zenon DEF Enqueue
<1>2. ASSUME NEW c \in Commands, EnterSession(c) PROVE \A d \in Commands : Kept(d)
  <2>1. at[c] = Innermost(c) - 2 /\ Innermost(c) \in {2, 3}
    BY <1>2, RouteLength DEF EnterSession, Places, Place
  <2>2. CASE Rejected(c)
    BY <2>2 DEF Kept, Rejected
  <2>3. CASE /\ phase' = [phase EXCEPT ![c] = "queued"]
             /\ at' = [at EXCEPT ![c] = @ + 1]
    BY <2>1, <2>3 DEF Kept
  <2> QED BY <1>2, <2>2, <2>3, Zenon DEF EnterSession
<1>3. ASSUME NEW c \in Commands, Leave(c) PROVE \A d \in Commands : Kept(d)
  <2>1. at[c] \in 0..3 /\ at[c] <= Innermost(c) /\ Innermost(c) \in {2, 3}
    BY RouteLength DEF Places, Place
  <2>2. at' = [at EXCEPT ![c] = @ - 1] /\ \E p \in {"settled", "returning"} : phase' = [phase EXCEPT ![c] = p]
    BY <1>3 DEF Leave
  <2> QED BY <2>1, <2>2 DEF Kept
<1>4. ASSUME NEW s \in Sessions, Clear(s) PROVE \A d \in Commands : Kept(d)
  <2> SUFFICES ASSUME NEW d \in Commands PROVE Kept(d)
    OBVIOUS
  <2>1. CASE ~WaitsIn(d, s)
    BY <1>4, <2>1 DEF Clear, Kept
  <2>2. CASE WaitsIn(d, s)
    <3>1. at[d] \in 0..3 /\ at[d] <= Innermost(d) /\ Innermost(d) \in {2, 3}
      BY RouteLength DEF Places, Place
    <3>2. at'[d] = at[d] - 1 /\ phase'[d] = IF at[d] = 1 THEN "settled" ELSE "returning"
      BY <1>4, <2>2 DEF Clear
    <3> QED BY <3>1, <3>2 DEF Kept
  <2> QED BY <2>1, <2>2
<1>5. CASE UNCHANGED <<at, phase>>
  BY <1>5 DEF Kept
<1> QED
  BY <1>1, <1>2, <1>3, <1>4, <1>5, Zenon
  DEF Next, Pump, PumpEnds, SetConcurrency, DrainBegins, DrainEnds, ResetAllLanes, vars

\* A command gives up a slot only when it leaves that lane.
LEMMA LeaverReleases ==
  ASSUME TypeOK, Places, NEW c \in Commands, Leave(c)
  PROVE  /\ at'[c] # Innermost(c) /\ phase'[c] # "running"
         /\ \A d \in Commands \ {c}, l \in Lanes : d \in active[l] => d \in active'[l]
<1>1. at[c] \in 0..3 /\ at[c] <= Innermost(c) /\ Innermost(c) \in {2, 3}
  BY RouteLength DEF Places, Place, TypeOK
<1>2. at'[c] = at[c] - 1 /\ phase'[c] = IF at[c] = 1 THEN "settled" ELSE "returning"
  BY DEF Leave, TypeOK
<1>3. active' = [active EXCEPT ![Lane(c, at[c])] = @ \ {c}]
  BY DEF Leave
<1> QED BY <1>1, <1>2, <1>3 DEF TypeOK

LEMMA HoldingStep ==
  ASSUME TypeOK, Places, Queued, Holding, Drained, [Next]_vars
  PROVE  Holding'
<1> SUFFICES ASSUME ~cutShort', NEW d \in Commands
             PROVE  /\ at'[d] = Innermost(d) => d \in active'[SessionOf[d]]
                    /\ phase'[d] = "running" => d \in active'[Lane(d, Innermost(d))]
  BY DEF Holding
<1> DEFINE Goal == /\ at'[d] = Innermost(d) => d \in active'[SessionOf[d]]
                   /\ phase'[d] = "running" => d \in active'[Lane(d, Innermost(d))]
<1>1. SessionOf[d] \in Lanes /\ Lane(d, Innermost(d)) \in Lanes
  BY RouteFacts DEF Lanes
<1>2. ASSUME cutShort PROVE FALSE
  <2>1. cutShort' = TRUE
    BY <1>2, StartCases, Zenon
    DEF Next, Pump, Taken, Enqueue, EnterSession, Leave, PumpEnds, Clear, SetConcurrency,
        DrainBegins, DrainEnds, ResetAllLanes, vars
  <2> QED BY <2>1
<1>3. /\ at[d] = Innermost(d) => d \in active[SessionOf[d]]
      /\ phase[d] = "running" => d \in active[Lane(d, Innermost(d))]
  BY <1>2 DEF Holding
<1>4. ASSUME NEW l \in Lanes, Start(l) PROVE Goal
  <2>1. PICK c \in Commands :
          /\ Taken(l, c)
          /\ phase[c] = "queued" /\ at[c] \in 1..Innermost(c) /\ Lane(c, at[c]) = l
          /\ \/ \E p \in {"running", "preparing", "returning"} : Stays(l, c, p)
             \/ \E inner \in Lanes : Enters(l, c, inner)
    BY <1>4, StartCases
  <2>2. c \in active'[l] /\ \A m \in Lanes : active[m] \subseteq active'[m]
    BY <2>1 DEF Taken, TypeOK
  <2>3. ASSUME NEW p \in {"running", "preparing", "returning"}, Stays(l, c, p) PROVE Goal
    <3>1. at' = at /\ phase'[c] = p /\ (d # c => phase'[d] = phase[d])
      BY <2>3 DEF Stays, TypeOK
    <3>2. p = "running" => l = Lane(c, Innermost(c))
      BY <2>1, <2>3 DEF Stays
    <3> QED BY <1>1, <1>3, <2>2, <3>1, <3>2
  <2>4. ASSUME NEW inner \in Lanes, Enters(l, c, inner) PROVE Goal
    <3>1. /\ phase' = phase /\ (d # c => at'[d] = at[d])
          /\ at'[c] = at[c] + 1 /\ at[c] \in 0..3
      BY <2>4 DEF Enters, TypeOK
    <3>2. at'[c] = Innermost(c) => l = SessionOf[c]
      <4>1. at'[c] = Innermost(c) => at[c] = Innermost(c) - 1
        BY <3>1, RouteLength
      <4> QED BY <2>1, <4>1, RouteFacts
    <3> QED BY <1>1, <1>3, <2>1, <2>2, <3>1, <3>2
  <2> QED BY <2>1, <2>3, <2>4
<1>5. ASSUME \A l \in Lanes : ~Start(l) PROVE Goal
  <2>1. Kept(d)
    BY <1>5, OthersKeep
  <2>2. CASE active' = active
    BY <1>3, <2>1, <2>2 DEF Kept
  <2>3. ASSUME NEW c \in Commands, Leave(c) PROVE Goal
    BY <1>1, <1>3, <2>1, <2>3, LeaverReleases DEF Kept
  <2>4. CASE ResetAllLanes
    <3>1. at[d] # Innermost(d) /\ phase[d] # "running"
      BY <1>2, <2>4 DEF ResetAllLanes, Drained, Places, Place
    <3> QED BY <2>1, <3>1 DEF Kept
  <2> QED
    BY <1>5, <2>2, <2>3, <2>4, Zenon
    DEF Next, Pump, Enqueue, EnterSession, PumpEnds, Clear, SetConcurrency, DrainBegins,
        DrainEnds, vars
<1> QED BY <1>4, <1>5

\* While the gateway rejects commands, none gets into a global lane any more; those
\* that were there when the drain began hold a slot that the drain waits for.
LEMMA DrainedStep ==
  ASSUME TypeOK, Places, Queued, Holding, Drained, [Next]_vars
  PROVE  Drained'
<1> SUFFICES ASSUME ~cutShort', NEW d \in Commands, at'[d] = Innermost(d)
             PROVE  /\ restart' # "closing"
                    /\ restart' = "draining" => <<SessionOf[d], d>> \in snapshot'
  BY DEF Drained
<1> DEFINE Goal == /\ restart' # "closing"
                   /\ restart' = "draining" => <<SessionOf[d], d>> \in snapshot'
<1>1. SessionOf[d] \in Lanes
  BY RouteFacts DEF Lanes
<1>2. ASSUME NEW l \in Lanes, Start(l) PROVE Goal
  <2>1. PICK c \in Commands :
          /\ Taken(l, c)
          /\ \/ \E p \in {"running", "preparing", "returning"} : Stays(l, c, p)
             \/ \E inner \in Lanes : Enters(l, c, inner)
    BY <1>2, StartCases
  <2>2. UNCHANGED <<restart, snapshot, cutShort>>
    BY <2>1 DEF Taken
  <2>3. ASSUME NEW p \in {"running", "preparing", "returning"}, Stays(l, c, p) PROVE Goal
    BY <2>2, <2>3 DEF Stays, Drained
  <2>4. ASSUME NEW inner \in Lanes, Enters(l, c, inner) PROVE Goal
    BY <2>2, <2>4 DEF Enters, Rejecting
  <2> QED BY <2>1, <2>3, <2>4
<1>3. ASSUME \A l \in Lanes : ~Start(l) PROVE Goal
  <2>1. at[d] = Innermost(d)
    BY <1>3, OthersKeep DEF Kept
  <2>2. CASE UNCHANGED <<restart, snapshot, cutShort>>
    BY <2>1, <2>2 DEF Drained
  <2>3. CASE DrainBegins
    <3>1. ~cutShort /\ restart' = "draining"
      BY <2>3 DEF DrainBegins
    <3>2. d \in active[SessionOf[d]]
      BY <2>1, <3>1 DEF Holding
    <3>3. <<SessionOf[d], d>> \in snapshot'
      BY <1>1, <2>3, <3>2 DEF DrainBegins
    <3> QED BY <3>1, <3>3
  <2>4. CASE DrainEnds
    <3>1. ~cutShort /\ ~(\E x \in snapshot : x[2] \in active[x[1]]) /\ restart = "draining"
      BY <2>4 DEF DrainEnds, TypeOK
    <3>2. <<SessionOf[d], d>> \in snapshot /\ d \in active[SessionOf[d]]
      BY <2>1, <3>1 DEF Drained, Holding
    <3> QED BY <3>1, <3>2
  <2>5. CASE ResetAllLanes
    BY <2>5 DEF ResetAllLanes
  <2> QED
    BY <1>3, <2>2, <2>3, <2>4, <2>5, Zenon
    DEF Next, Pump, Enqueue, EnterSession, Leave, PumpEnds, Clear, SetConcurrency, vars
<1> QED BY <1>2, <1>3

-----------------------------------------------------------------------------
(* The theorems *)

LEMMA LanesInit ==
  ASSUME Init
  PROVE  LanesInv
<1> USE DEF Init
<1>1. TypeOK
  <2>1. <<>> \in Seq(Commands)
    OBVIOUS
  <2> DEFINE empty == <<>>
  <2> HIDE DEF empty
  <2>2. empty \in Seq(Commands) /\ queue = [l \in Lanes |-> empty]
    BY <2>1 DEF empty
  <2>3. queue \in [Lanes -> Seq(Commands)]
    BY <2>2
  <2>4. active \in [Lanes -> SUBSET Commands] /\ limit \in [Lanes -> Nat \ {0}]
    OBVIOUS
  <2>5. at \in [Commands -> 0..3]
    OBVIOUS
  <2>6. phase \in [Commands -> {"new", "queued", "preparing", "running", "returning",
                              "settled"}]
    OBVIOUS
  <2>7. restarts \in Nat /\ reloads \in Nat /\ cutShort \in BOOLEAN /\ due \subseteq Lanes
    OBVIOUS
  <2> QED BY <2>3, <2>4, <2>5, <2>6, <2>7 DEF TypeOK
<1>2. NoIdleLane
  BY DEF NoIdleLane
<1>3. Places
  BY RouteLength DEF Places, Place
<1>4. Queued
  BY NoEntries DEF Queued, GoodQueues
<1>5. SessionSlots
  BY DEF SessionSlots, Lanes
<1>6. Holding /\ Drained
  BY RouteLength DEF Holding, Drained
<1>7. Capped
  BY FS_EmptySet DEF Capped, AtLeastOne
<1> QED BY <1>1, <1>2, <1>3, <1>4, <1>5, <1>6, <1>7 DEF LanesInv

\* The inductive invariant of the lanes holds in every state.
THEOREM LanesInvariant == SafetySpec => []LanesInv
<1>1. Init => LanesInv
  BY LanesInit
<1>2. LanesInv /\ [Next]_vars => LanesInv'
  BY TypeStep, NoIdleStep, PlacesStep, QueuedStep, SessionSlotsStep, HoldingStep, DrainedStep,
     CappedStep
  DEF LanesInv
<1> QED BY <1>1, <1>2, PTL DEF SafetySpec

\* Every variable of the command queue keeps its type: no limit falls below one,
\* and no command leaves more lanes than it entered.
THEOREM LanesTypes == SafetySpec => []TypeOK
<1>1. LanesInv => TypeOK
  BY DEF LanesInv
<1> QED BY <1>1, LanesInvariant, PTL

\* After enqueueCommandInLane, a completion, setCommandLaneConcurrency,
\* clearCommandLane or resetAllLanes no lane is left with an entry waiting and a
\* slot free.
THEOREM NoLaneIdles == SafetySpec => []NoIdleLane
<1>1. LanesInv => NoIdleLane
  BY DEF LanesInv
<1> QED BY <1>1, LanesInvariant, PTL

\* At most one agent run per session, through any number of restarts none of whose
\* drains reached its timeout.
THEOREM SessionsRunAlone == SafetySpec => []OneRunPerSession
<1>1. LanesInv => OneRunPerSession
  <2> SUFFICES ASSUME LanesInv, ~cutShort, NEW c \in Commands, NEW d \in Commands,
                      phase[c] = "running", phase[d] = "running", SessionOf[c] = SessionOf[d]
               PROVE  c = d
    BY DEF OneRunPerSession
  <2>1. at[c] = Innermost(c) /\ at[d] = Innermost(d)
    BY DEF LanesInv, Places, Place
  <2>2. c \in active[SessionOf[c]] /\ d \in active[SessionOf[c]]
    BY <2>1 DEF LanesInv, Holding
  <2>3. SessionOf[c] \in Sessions
    BY RouteFacts
  <2> QED BY <2>2, <2>3 DEF LanesInv, SessionSlots
<1> QED BY <1>1, LanesInvariant, PTL

\* No global lane ever runs more agents than some configured limit allows, as long
\* as no drain reached its timeout.
THEOREM RunsAreCapped == SafetySpec => []ParallelismCapped
<1>1. LanesInv => ParallelismCapped
  <2> SUFFICES ASSUME LanesInv, ~cutShort, NEW l \in GlobalLanes
               PROVE  \E n \in Limits \cup {1} :
                        Cardinality({c \in Commands : phase[c] = "running"
                                                        /\ Lane(c, Innermost(c)) = l})
                          <= AtLeastOne(n)
    BY DEF ParallelismCapped
  <2> DEFINE runs == {c \in Commands : phase[c] = "running" /\ Lane(c, Innermost(c)) = l}
  <2>1. l \in Lanes /\ TypeOK
    BY DEF Lanes, LanesInv
  <2>2. runs \subseteq active[l]
    BY DEF LanesInv, Holding
  <2>3. /\ Cardinality(runs) <= Cardinality(active[l])
        /\ Cardinality(runs) \in Nat /\ Cardinality(active[l]) \in Nat
    BY <2>1, <2>2, ActiveFinite, FS_Subset, FS_CardinalityType
  <2>4. PICK n \in Limits \cup {1} : Cardinality(active[l]) <= AtLeastOne(n)
    BY <2>1 DEF LanesInv, Capped
  <2>5. AtLeastOne(n) \in Nat
    BY LimitsType DEF AtLeastOne
  <2> HIDE DEF runs
  <2>6. Cardinality(runs) <= AtLeastOne(n)
    BY <2>3, <2>4, <2>5
  <2> QED BY <2>6 DEF runs
<1> QED BY <1>1, LanesInvariant, PTL
=============================================================================
