------------------------ MODULE ExecutionRefinement ------------------------
(***************************************************************************)
(* Execution implements SessionPool, for every suite tree, every number of *)
(* tests and all settings.  The abstract pool counts the sessions that the *)
(* detailed one queues (Counts), so each critical section is shown to      *)
(* commute with Counts; that the guards of the abstract actions hold needs *)
(* what CountInv says of the counters, and RunInv: how far the suites are, *)
(* which bounds the tests that are under way by the limit on them, and     *)
(* when the pool is closed.  StepSimulated puts the steps together.        *)
(***************************************************************************)
EXTENDS ExecutionProofs

-----------------------------------------------------------------------------
(* The abstract pool.                                                      *)

\* The abstract pool computes with the same operators.
LEMMA SameReplenish ==
    ASSUME NEW p, NEW keep, NEW cancel
    PROVE  AbstractPool!Replenish(p, keep, cancel) = C!Replenish(p, keep, cancel)
BY DEF AbstractPool!Replenish, AbstractPool!Replenished, AbstractPool!Spares,
       AbstractPool!Starting, AbstractPool!Created, AbstractPool!CreatedFresh,
       AbstractPool!CreatedAny, AbstractPool!CreatedSpares, AbstractPool!DroppedResets,
       AbstractPool!Supply, AbstractPool!FreshSupply, AbstractPool!FreshIdle,
       AbstractPool!Bound, AbstractPool!Monus, AbstractPool!Minimum, AbstractPool!Total,
       C!Replenish, C!Replenished, C!Spares, C!Starting, C!Created, C!CreatedFresh,
       C!CreatedAny, C!CreatedSpares, C!DroppedResets, C!Supply, C!FreshSupply, C!FreshIdle,
       C!Bound, C!Monus, C!Minimum, C!Total

LEMMA SameSteps ==
    ASSUME NEW p
    PROVE  /\ \A kind, always : AbstractPool!Register(p, kind, always) = C!Register(p, kind, always)
           /\ \A kind : AbstractPool!Takes(p, kind) = C!Takes(p, kind)
           /\ \A kind, sort : AbstractPool!Serve(p, kind, sort) = C!Serve(p, kind, sort)
           /\ \A kind : AbstractPool!GiveUp(p, kind) = C!GiveUp(p, kind)
           /\ AbstractPool!Finished(p) = C!Finished(p)
           /\ AbstractPool!Claimed(p) = C!Claimed(p)
           /\ AbstractPool!ResetOver(p) = C!ResetOver(p)
           /\ AbstractPool!Shut(p) = C!Shut(p)
           /\ \A sort : AbstractPool!Delivered(p, sort) = C!Delivered(p, sort)
BY DEF AbstractPool!Register, C!Register, AbstractPool!Monus, C!Monus, AbstractPool!Takes, C!Takes,
       AbstractPool!Sorts, C!Sorts, AbstractPool!Serve, C!Serve, AbstractPool!GiveUp, C!GiveUp,
       AbstractPool!Finished, C!Finished, AbstractPool!Claimed, C!Claimed,
       AbstractPool!ResetOver, C!ResetOver, AbstractPool!Shut, C!Shut,
       AbstractPool!Delivered, C!Delivered, AbstractPool!Offer, C!Offer

LEMMA SameEnded ==
    ASSUME NEW p, NEW keep, NEW cancel
    PROVE  AbstractPool!Ended(p, keep, cancel) = C!Ended(p, keep, cancel)
BY SameReplenish DEF AbstractPool!Ended, C!Ended, AbstractPool!Gone, C!Gone

LEMMA SameReset ==
    ASSUME NEW p, NEW keep, NEW cancel
    PROVE  /\ AbstractPool!DeliverReset(p, keep, cancel) = C!DeliverReset(p, keep, cancel)
           /\ AbstractPool!WantsReset(p, keep, cancel) <=> C!WantsReset(p, keep, cancel)
BY DEF AbstractPool!DeliverReset, C!DeliverReset, AbstractPool!WantsReset, C!WantsReset,
       AbstractPool!KeepsReset, C!KeepsReset, AbstractPool!Starting, C!Starting,
       AbstractPool!StartingAny, C!StartingAny, AbstractPool!Total, C!Total,
       AbstractPool!Supply, C!Supply, AbstractPool!FreshSupply, C!FreshSupply,
       AbstractPool!FreshIdle, C!FreshIdle, AbstractPool!Minimum, C!Minimum,
       AbstractPool!ResetOver, C!ResetOver, AbstractPool!Offer, C!Offer

CountShape ==
    [idle : [C!Sorts -> Int], creating : Int, resetting : Int, running : Int, alive : Int,
     waiting : [C!Kinds -> Int], upcoming : [C!Kinds -> Int],
     upcomingAlways : [C!Kinds -> Int], closed : BOOLEAN]

LEMMA SameCounts ==
    ASSUME NEW b \in CountShape, NEW c \in CountShape,
           b.idle = c.idle, b.creating = c.creating, b.resetting = c.resetting,
           b.running = c.running, b.alive = c.alive, b.waiting = c.waiting,
           b.upcoming = c.upcoming, b.upcomingAlways = c.upcomingAlways, b.closed = c.closed
    PROVE  b = c
BY DEF CountShape

\* The counts of a pool, by its fields.
LEMMA CountsOf ==
    ASSUME NEW p \in PoolShape, NEW c, c = Counts(p)
    PROVE  /\ c \in CountShape
           /\ c.idle = [sort \in C!Sorts |-> OfSort(p.idle, sort)]
           /\ c.creating = p.creating /\ c.resetting = p.resetting
           /\ c.running = p.running /\ c.alive = p.alive /\ c.waiting = p.waiting
           /\ c.upcoming = p.upcoming /\ c.upcomingAlways = p.upcomingAlways
           /\ c.closed = p.closed
<1> PICK idle : idle = [sort \in C!Sorts |-> OfSort(p.idle, sort)]
  OBVIOUS
<1>1. \A sort : OfSort(p.idle, sort) \in Int
  <2>1. p.idle \in Queue
    BY DEF PoolShape
  <2>2. \A sort : OfSort(p.idle, sort) \in Nat
    BY <2>1, SortedTickets
  <2> QED BY <2>2
<1>2. idle \in [C!Sorts -> Int]
  BY <1>1
<1>3. c = [p EXCEPT !.idle = idle]
  BY DEF Counts
<1> QED BY <1>2, <1>3 DEF PoolShape, CountShape

LEMMA CountsKept ==
    ASSUME NEW p \in PoolShape
    PROVE  /\ Counts([p EXCEPT !.running = @ - 1]) = C!Finished(Counts(p))
           /\ Counts([p EXCEPT !.resetting = @ + 1]) = C!Claimed(Counts(p))
           /\ Counts([p EXCEPT !.resetting = @ - 1]) = C!ResetOver(Counts(p))
           /\ Counts([p EXCEPT !.alive = @ - 1]) = C!Gone(Counts(p))
           /\ Counts([p EXCEPT !.creating = @ - 1]) = [Counts(p) EXCEPT !.creating = @ - 1]
           /\ \A t : Counts(GiveUp(p, t)) = C!GiveUp(Counts(p), Kind(t))
<1> PICK idle : idle = [sort \in C!Sorts |-> OfSort(p.idle, sort)]
  OBVIOUS
<1>1. Counts(p) = [p EXCEPT !.idle = idle]
  BY DEF Counts
<1>2. /\ Counts([p EXCEPT !.running = @ - 1]) = C!Finished(Counts(p))
      /\ Counts([p EXCEPT !.resetting = @ + 1]) = C!Claimed(Counts(p))
      /\ Counts([p EXCEPT !.resetting = @ - 1]) = C!ResetOver(Counts(p))
      /\ Counts([p EXCEPT !.alive = @ - 1]) = C!Gone(Counts(p))
      /\ Counts([p EXCEPT !.creating = @ - 1]) = [Counts(p) EXCEPT !.creating = @ - 1]
  BY DEF Counts, PoolShape, C!Finished, C!Claimed, C!ResetOver, C!Gone
<1>3. ASSUME NEW t PROVE Counts(GiveUp(p, t)) = C!GiveUp(Counts(p), Kind(t))
  <2> PICK waiting : waiting = [p.waiting EXCEPT ![Kind(t)] = @ - 1]
    OBVIOUS
  <2>1. GiveUp(p, t) = [p EXCEPT !.waiting = waiting]
    BY DEF GiveUp, PoolShape
  <2>2. C!GiveUp(Counts(p), Kind(t)) = [Counts(p) EXCEPT !.waiting = waiting]
    BY <1>1 DEF C!GiveUp, PoolShape
  <2> QED BY <2>1, <2>2, ZenonT(60) DEF Counts, PoolShape
<1> QED BY <1>2, <1>3

\* take registers the test.
LEMMA CountsRegistered ==
    ASSUME pool \in PoolShape, NEW t, NEW always \in BOOLEAN, always <=> t \in RunAlways
    PROVE  Counts(Register(t)) = C!Register(Counts(pool), Kind(t), always)
<1> PICK c : c = Counts(pool)
  OBVIOUS
<1> PICK q : q = Register(t)
  OBVIOUS
<1> PICK waiting : waiting = [pool.waiting EXCEPT ![Kind(t)] = @ + 1]
  OBVIOUS
<1> PICK upcoming : upcoming = [pool.upcoming EXCEPT ![Kind(t)] = C!Monus(@, 1)]
  OBVIOUS
<1> PICK ups : ups = [pool.upcomingAlways EXCEPT ![Kind(t)] = IF always THEN C!Monus(@, 1) ELSE @]
  OBVIOUS
<1>1. q = [pool EXCEPT !.upcoming = upcoming, !.upcomingAlways = ups, !.waiting = waiting]
  BY DEF Register, PoolShape
<1>2. c.upcoming = pool.upcoming /\ c.upcomingAlways = pool.upcomingAlways
      /\ c.waiting = pool.waiting
  BY DEF Counts, PoolShape
<1>3. C!Register(c, Kind(t), always) =
          [c EXCEPT !.upcoming = upcoming, !.upcomingAlways = ups, !.waiting = waiting]
  BY <1>2 DEF C!Register, Counts, PoolShape
<1>4. Counts(q) = [c EXCEPT !.upcoming = upcoming, !.upcomingAlways = ups, !.waiting = waiting]
  <2> PICK idle : idle = [sort \in C!Sorts |-> OfSort(pool.idle, sort)]
    OBVIOUS
  <2>1. q.idle = pool.idle
    BY <1>1 DEF PoolShape
  <2>2. Counts(q) = [q EXCEPT !.idle = idle] /\ c = [pool EXCEPT !.idle = idle]
    BY <2>1 DEF Counts
  <2> QED BY <1>1, <2>2, ZenonT(60) DEF PoolShape
<1> QED BY <1>3, <1>4

\* Whether take finds a ticket, and of which sort.
LEMMA TakesNone ==
    ASSUME NEW p \in PoolShape, NEW kind \in C!Kinds, Position(p.idle, kind) = 0
    PROVE  C!Takes(Counts(p), kind) = {}
<1> PICK c : c = Counts(p)
  OBVIOUS
<1>1. /\ p.idle \in Queue
      /\ \A sort \in C!Sorts : c.idle[sort] = OfSort(p.idle, sort)
  BY DEF PoolShape, Counts
<1>2. \A k \in DOMAIN p.idle : kind = "fresh" /\ p.idle[k].sort = "reset"
  BY <1>1, PositionFacts
<1>3. ASSUME NEW sort \in C!Sorts, c.idle[sort] > 0,
             (sort = "reset") <=> (kind = "any" /\ c.idle["reset"] > 0)
      PROVE  FALSE
  <2>1. OfSort(p.idle, sort) # 0
    BY <1>1, <1>3
  <2>2. PICK k \in DOMAIN p.idle : p.idle[k].sort = sort
    BY <1>1, <2>1, SortedTickets
  <2> QED BY <1>2, <1>3, <2>2
<1> QED BY <1>3 DEF C!Takes

LEMMA TakesTicket ==
    ASSUME NEW p \in PoolShape, NEW kind \in C!Kinds, NEW i, i = Position(p.idle, kind), i # 0,
           NEW sort, sort = p.idle[i].sort
    PROVE  i \in 1 .. Len(p.idle) /\ sort \in C!Takes(Counts(p), kind)
<1> PICK c : c = Counts(p)
  OBVIOUS
<1> PICK q : q = p.idle
  OBVIOUS
<1>1. /\ q \in Queue /\ q \in Seq(Ticket) /\ DOMAIN q = 1 .. Len(q)
      /\ \A s \in C!Sorts : c.idle[s] = OfSort(q, s)
  BY DEF PoolShape, Counts, Queue, Ticket
<1>2. i \in 1 .. Len(q) /\ (kind = "fresh" => q[i].sort # "reset")
  BY <1>1, PositionFacts
<1>3. q[i] \in Ticket /\ sort \in C!Sorts
  <2>1. q[i] \in Ticket
    BY <1>1, <1>2
  <2> QED BY <2>1 DEF Ticket
<1>4. c.idle[sort] > 0
  <2>1. OfSort(q, sort) \in Nat /\ OfSort(q, sort) # 0
    BY <1>1, <1>2, SortedTickets
  <2> QED BY <1>1, <1>3, <2>1
<1>5. (sort = "reset") <=> (kind = "any" /\ c.idle["reset"] > 0)
  <2>1. CASE kind = "fresh"
    BY <1>2, <2>1
  <2>2. CASE kind = "any"
    <3> DEFINE reset == SelectInSeq(q, IsReset)
    <3>1. /\ reset \in {0} \union DOMAIN q
          /\ reset # 0 => q[reset].sort = "reset"
          /\ reset = 0 => \A k \in DOMAIN q : q[k].sort # "reset"
      BY <1>1, SelectReset DEF IsReset
    <3>2. i = IF reset # 0 \/ q = <<>> THEN reset ELSE 1
      BY <2>2 DEF Position
    <3> HIDE DEF reset
    <3>3. CASE reset # 0
      BY <1>4, <2>2, <3>1, <3>2, <3>3
    <3>4. CASE reset = 0
      <4>1. sort # "reset"
        BY <1>1, <1>2, <3>1, <3>4
      <4>2. OfSort(q, "reset") = 0
        BY <1>1, <3>1, <3>4, SortedTickets
      <4>3. c.idle["reset"] = 0
        BY <1>1, <4>2 DEF C!Sorts
      <4> QED BY <4>1, <4>3
    <3> QED BY <3>3, <3>4
  <2> QED BY <2>1, <2>2 DEF C!Kinds
<1> QED BY <1>2, <1>3, <1>4, <1>5 DEF C!Takes

\* take, when it finds the ticket at position i.
LEMMA CountsServed ==
    ASSUME NEW p \in PoolShape, NEW kind \in C!Kinds, NEW i \in 1 .. Len(p.idle),
           NEW sort \in C!Sorts, sort = p.idle[i].sort
    PROVE  Counts(Serve(p, kind, i)) = C!Serve(Counts(p), kind, sort)
<1> PICK c : c = Counts(p)
  OBVIOUS
<1> PICK s : s = Serve(p, kind, i)
  OBVIOUS
<1> PICK left : left = RemoveAt(p.idle, i)
  OBVIOUS
<1> PICK waiting : waiting = [p.waiting EXCEPT ![kind] = @ - 1]
  OBVIOUS
<1> PICK running : running = IF sort = "failed" THEN p.running ELSE p.running + 1
  OBVIOUS
<1> PICK idle : idle = [x \in C!Sorts |-> OfSort(p.idle, x)]
  OBVIOUS
<1> PICK rest : rest = [idle EXCEPT ![sort] = @ - 1]
  OBVIOUS
<1>1. s = [p EXCEPT !.idle = left, !.waiting = waiting, !.running = running]
  BY DEF Serve, PoolShape
<1>2. /\ c \in CountShape /\ c.idle = idle
      /\ c.creating = p.creating /\ c.resetting = p.resetting /\ c.running = p.running
      /\ c.alive = p.alive /\ c.waiting = p.waiting /\ c.upcoming = p.upcoming
      /\ c.upcomingAlways = p.upcomingAlways /\ c.closed = p.closed
  BY CountsOf
<1> PICK d : d = C!Serve(c, kind, sort)
  OBVIOUS
<1>3. d = [c EXCEPT !.idle = rest, !.waiting = waiting, !.running = running]
  BY <1>2 DEF C!Serve, CountShape
<1>4. p.idle \in Queue
  BY DEF PoolShape
<1>5. rest = [x \in C!Sorts |-> OfSort(left, x)] /\ rest \in [C!Sorts -> Int]
  <2>1. \A x \in C!Sorts : OfSort(left, x) = OfSort(p.idle, x) - (IF sort = x THEN 1 ELSE 0)
                           /\ OfSort(p.idle, x) \in Nat
    BY <1>4, RemovedTicket, SortedTickets
  <2>2. \A x \in C!Sorts : rest[x] = OfSort(left, x) /\ rest[x] \in Int
    BY <2>1
  <2> QED BY <2>2
<1>6. waiting \in [C!Kinds -> Int] /\ running \in Int
  BY DEF PoolShape
<1>7. /\ s \in PoolShape /\ s.idle = left /\ s.waiting = waiting /\ s.running = running
      /\ s.creating = p.creating /\ s.resetting = p.resetting /\ s.alive = p.alive
      /\ s.upcoming = p.upcoming /\ s.upcomingAlways = p.upcomingAlways /\ s.closed = p.closed
  <2>1. s.idle = left
    BY <1>1 DEF PoolShape
  <2> QED BY <2>1, ServedPool
<1> PICK e : e = Counts(s)
  OBVIOUS
<1>8. /\ e \in CountShape /\ e.idle = [x \in C!Sorts |-> OfSort(left, x)]
      /\ e.creating = s.creating /\ e.resetting = s.resetting /\ e.running = s.running
      /\ e.alive = s.alive /\ e.waiting = s.waiting /\ e.upcoming = s.upcoming
      /\ e.upcomingAlways = s.upcomingAlways /\ e.closed = s.closed
  BY <1>7, CountsOf
<1>9. /\ d \in CountShape /\ d.idle = rest /\ d.waiting = waiting /\ d.running = running
      /\ d.creating = c.creating /\ d.resetting = c.resetting /\ d.alive = c.alive
      /\ d.upcoming = c.upcoming /\ d.upcomingAlways = c.upcomingAlways /\ d.closed = c.closed
  <2>1. c \in CountShape
    BY <1>2
  <2>2. rest \in [C!Sorts -> Int]
    BY <1>5
  <2> QED BY ONLY <1>3, <1>6, <2>1, <2>2 DEF CountShape
<1>10. e = d
  BY <1>2, <1>5, <1>7, <1>8, <1>9, SameCounts
<1> QED BY <1>10

\* deliver and deliver_reset.
LEMMA CountsOffered ==
    ASSUME NEW p \in PoolShape, NEW w \in Nat, NEW sort \in C!Sorts
    PROVE  Counts(Offer(p, w, sort)) = C!Offer(Counts(p), sort)
<1> PICK c : c = Counts(p)
  OBVIOUS
<1> PICK ticket \in Ticket : ticket = [session |-> w, sort |-> sort]
  BY DEF Ticket
<1> PICK idle : idle = [x \in C!Sorts |-> OfSort(p.idle, x)]
  OBVIOUS
<1> PICK more : more = [idle EXCEPT ![sort] = @ + 1]
  OBVIOUS
<1> PICK queue : queue = Append(p.idle, ticket)
  OBVIOUS
<1>1. c = [p EXCEPT !.idle = idle] /\ c.closed = p.closed /\ c.idle = idle
  BY DEF Counts, PoolShape
<1>2. CASE p.closed
  <2>1. Offer(p, w, sort) = p /\ C!Offer(c, sort) = c
    BY <1>1, <1>2 DEF Offer, C!Offer
  <2> QED BY <2>1
<1>3. CASE ~p.closed
  <2>1. Offer(p, w, sort) = [p EXCEPT !.idle = queue]
    BY <1>3 DEF Offer, PoolShape
  <2>2. C!Offer(c, sort) = [c EXCEPT !.idle = more]
    BY <1>1, <1>3 DEF C!Offer, PoolShape
  <2>3. p.idle \in Queue
    BY DEF PoolShape
  <2>4. more = [x \in C!Sorts |-> OfSort(queue, x)]
    <3>1. \A x \in C!Sorts : OfSort(queue, x) = OfSort(p.idle, x) + (IF sort = x THEN 1 ELSE 0)
                             /\ OfSort(p.idle, x) \in Nat
      <4>1. ticket.sort = sort
        OBVIOUS
      <4>2. \A x : OfSort(queue, x) = OfSort(p.idle, x) + (IF ticket.sort = x THEN 1 ELSE 0)
        BY <2>3, AppendedTicket
      <4> QED BY <2>3, <4>1, <4>2, SortedTickets
    <3>2. \A x \in C!Sorts : more[x] = OfSort(queue, x)
      BY <3>1
    <3> QED BY <3>2
  <2>5. PICK q : q = [p EXCEPT !.idle = queue]
    OBVIOUS
  <2>6. q.idle = queue /\ q = [p EXCEPT !.idle = queue]
    BY <2>5 DEF PoolShape
  <2>7. Counts(q) = [q EXCEPT !.idle = more]
    BY <2>4, <2>6 DEF Counts
  <2> QED BY <1>1, <2>1, <2>2, <2>5, <2>7, ZenonT(60) DEF PoolShape
<1> QED BY <1>2, <1>3

-----------------------------------------------------------------------------
(* take.                                                                   *)

LEMMA PoolsShape == \A p \in Pools : p \in PoolShape
BY DEF Pools, PoolShape, C!Tally

LEMMA AbstractServed ==
    ASSUME NEW c, NEW kind, NEW sort, NEW d, Counts(pool') = d, NEW cancel \in BOOLEAN,
           NEW served, served = C!Replenish(C!Serve(c, kind, sort), keepStarting, cancel),
           \/ /\ d = served /\ ~cancel /\ UNCHANGED cancelled
              /\ IF sort = "failed" THEN keepStarting' \in {keepStarting, FALSE}
                                    ELSE UNCHANGED keepStarting
           \/ /\ d = IF sort = "failed" THEN served ELSE C!Finished(served)
              /\ cancelled' = TRUE /\ UNCHANGED keepStarting
    PROVE  AbstractPool!ServeFrom(c, kind, sort)
<1>1. Counts(pool)' = d
  OBVIOUS
<1>2. served = AbstractPool!Replenish(AbstractPool!Serve(c, kind, sort), keepStarting, cancel)
  BY SameSteps, SameReplenish
<1>3. AbstractPool!Finished(served) = C!Finished(served)
  BY SameSteps
<1>4. CASE /\ d = served /\ ~cancel /\ UNCHANGED cancelled
           /\ IF sort = "failed" THEN keepStarting' \in {keepStarting, FALSE}
                                 ELSE UNCHANGED keepStarting
  <2>1. cancel = FALSE
    BY <1>4
  <2> QED BY <1>1, <1>2, <1>4, <2>1 DEF AbstractPool!ServeFrom, AbstractPool!StopsRun
<1>5. CASE /\ d = IF sort = "failed" THEN served ELSE C!Finished(served)
           /\ cancelled' = TRUE /\ UNCHANGED keepStarting
  BY <1>1, <1>2, <1>3, <1>5 DEF AbstractPool!ServeFrom
<1> QED BY <1>4, <1>5

\* What take makes of the counts when it finds the ticket at position i, and replenishes.
LEMMA ServedReplenished ==
    ASSUME NEW p \in Pools, NEW kind \in C!Kinds, p.waiting[kind] > 0,
           NEW i \in 1 .. Len(p.idle), NEW sort \in C!Sorts, sort = p.idle[i].sort,
           NEW keep \in BOOLEAN, NEW cancel \in BOOLEAN,
           NEW q, q = Replenish(Serve(p, kind, i), keep, cancel)
    PROVE  /\ q \in PoolShape
           /\ Counts(q) = C!Replenish(C!Serve(Counts(p), kind, sort), keep, cancel)
<1> PICK s : s = Serve(p, kind, i)
  OBVIOUS
<1>1. p \in PoolShape
  BY PoolsShape
<1>2. /\ s \in PoolShape
      /\ s.creating = p.creating /\ s.resetting = p.resetting /\ s.alive = p.alive
      /\ s.upcoming = p.upcoming /\ s.upcomingAlways = p.upcomingAlways
      /\ s.waiting = [p.waiting EXCEPT ![kind] = @ - 1]
      /\ s.running = IF p.idle[i].sort = "failed" THEN p.running ELSE p.running + 1
  BY <1>1, ServedPool
<1>3. s \in Pools
  <2>1. /\ s.creating \in Nat /\ s.resetting \in Nat /\ s.alive \in Nat
        /\ s.upcoming \in C!Tally /\ s.upcomingAlways \in C!Tally
    BY <1>2 DEF Pools
  <2>2. s.running \in Nat
    BY <1>2 DEF Pools
  <2>3. \A k \in C!Kinds : s.waiting[k] \in Nat
    BY <1>2 DEF Pools, C!Tally
  <2> QED BY <1>2, <2>1, <2>2, <2>3, PoolsByCounters
<1>4. Counts(s) = C!Serve(Counts(p), kind, sort)
  BY <1>1, CountsServed
<1>5. q \in Pools /\ Counts(q) = C!Replenish(Counts(s), keep, cancel)
  BY <1>3, ReplenishCounts
<1> QED BY <1>4, <1>5, PoolsShape

\* The rest of take: the test waits for a session, or takes one.
LEMMA TakeFromServes ==
    ASSUME Inv, NEW t \in PoolTests, ~cancelled, NEW kind, kind = Kind(t),
           NEW p \in Pools, Within(p.idle, pool.idle), p.waiting[kind] > 0, TakeFrom(t, p),
           NEW c, c = Counts(p)
    PROVE  \/ /\ C!Takes(c, kind) = {}
              /\ pool' = p /\ UNCHANGED <<keepStarting, cancelled>>
           \/ \E sort \in C!Takes(c, kind) : AbstractPool!ServeFrom(c, kind, sort)
<1> DEFINE i == Position(p.idle, kind)
           ticket == p.idle[i]
           taken(cancel) == Replenish(Serve(p, kind, i), keepStarting, cancel)
           returned(cancel) == [taken(cancel) EXCEPT !.running = @ - 1]
<1>1. kind \in C!Kinds /\ p \in PoolShape
  BY KindType, PoolsShape
<1>2. keepStarting \in BOOLEAN
  BY DEF Inv, Shape
<1>3. \/ i = 0 /\ pool' = p /\ UNCHANGED <<keepStarting, cancelled>>
      \/ i # 0 /\ IsOk(ticket) /\ workers[ticket.session].state = "offered"
         /\ pool' = taken(FALSE) /\ UNCHANGED <<keepStarting, cancelled>>
      \/ i # 0 /\ IsOk(ticket) /\ workers[ticket.session].state # "offered"
      \/ i # 0 /\ ~IsOk(ticket) /\ pool' = taken(FALSE)
         /\ keepStarting' \in {keepStarting, FALSE} /\ UNCHANGED cancelled
      \/ /\ i # 0
         /\ \E cancel \in BOOLEAN :
               pool' = IF IsOk(ticket) THEN returned(cancel) ELSE taken(cancel)
         /\ cancelled' = TRUE /\ UNCHANGED keepStarting
  BY DEF TakeFrom, Update, StartsBody, FailsToStart, NotStarted, StopOn
<1>4. CASE i = 0 /\ pool' = p /\ UNCHANGED <<keepStarting, cancelled>>
  BY <1>1, <1>4, TakesNone
<1>5. ASSUME i # 0
      PROVE  /\ i \in 1 .. Len(p.idle) /\ ticket.sort \in C!Takes(c, kind)
             /\ ticket.sort \in C!Sorts
  <2> PICK sort : sort = ticket.sort
    OBVIOUS
  <2>1. i \in 1 .. Len(p.idle) /\ sort \in C!Takes(c, kind)
    BY <1>1, <1>5, TakesTicket
  <2> QED BY <2>1 DEF C!Takes
<1>6. ASSUME i # 0, NEW cancel \in BOOLEAN, NEW q, q = taken(cancel)
      PROVE  /\ q \in PoolShape
             /\ Counts(q) = C!Replenish(C!Serve(c, kind, ticket.sort), keepStarting, cancel)
  <2> PICK sort \in C!Sorts : sort = ticket.sort
    BY <1>5, <1>6
  <2> PICK j \in 1 .. Len(p.idle) : j = i
    BY <1>5, <1>6
  <2> PICK keep \in BOOLEAN : keep = keepStarting
    BY <1>2
  <2>1. q = Replenish(Serve(p, kind, j), keep, cancel) /\ sort = p.idle[j].sort
    BY <1>6
  <2> HIDE DEF i
  <2>2. q \in PoolShape /\ Counts(q) = C!Replenish(C!Serve(Counts(p), kind, sort), keep, cancel)
    BY <1>1, <2>1, ServedReplenished
  <2> QED BY <2>2
<1>7. CASE i # 0 /\ IsOk(ticket) /\ workers[ticket.session].state # "offered"
  <2>1. PICK k \in DOMAIN pool.idle : p.idle[i] = pool.idle[k]
    <3>1. i \in DOMAIN p.idle
      BY <1>1, <1>5, <1>7 DEF PoolShape, Queue
    <3> QED BY <3>1, WithinTickets
  <2> QED BY <1>7, <2>1 DEF Inv, TicketsConsistent
<1> HIDE DEF i
<1>8. CASE /\ i # 0 /\ IsOk(ticket) /\ pool' = taken(FALSE)
           /\ UNCHANGED <<keepStarting, cancelled>>
  <2> PICK cancel \in BOOLEAN : cancel = FALSE
    OBVIOUS
  <2> PICK sort : sort = ticket.sort
    OBVIOUS
  <2> PICK served : served = C!Replenish(C!Serve(c, kind, sort), keepStarting, cancel)
    OBVIOUS
  <2>1. Counts(pool') = served /\ sort \in C!Takes(c, kind) /\ sort # "failed"
    BY <1>5, <1>6, <1>8 DEF IsOk
  <2>2. AbstractPool!ServeFrom(c, kind, sort)
    BY <1>8, <2>1, AbstractServed
  <2> QED BY <2>1, <2>2
<1>9. CASE /\ i # 0 /\ ~IsOk(ticket) /\ pool' = taken(FALSE)
           /\ keepStarting' \in {keepStarting, FALSE} /\ UNCHANGED cancelled
  <2> PICK cancel \in BOOLEAN : cancel = FALSE
    OBVIOUS
  <2> PICK sort : sort = ticket.sort
    OBVIOUS
  <2> PICK served : served = C!Replenish(C!Serve(c, kind, sort), keepStarting, cancel)
    OBVIOUS
  <2>1. Counts(pool') = served /\ sort \in C!Takes(c, kind) /\ sort = "failed"
    BY <1>5, <1>6, <1>9 DEF IsOk
  <2>2. AbstractPool!ServeFrom(c, kind, sort)
    BY <1>9, <2>1, AbstractServed
  <2> QED BY <2>1, <2>2
<1>10. ASSUME i # 0, NEW cancel \in BOOLEAN,
              pool' = IF IsOk(ticket) THEN returned(cancel) ELSE taken(cancel),
              cancelled' = TRUE, UNCHANGED keepStarting
       PROVE  \E sort \in C!Takes(c, kind) : AbstractPool!ServeFrom(c, kind, sort)
  <2> PICK sort : sort = ticket.sort
    OBVIOUS
  <2> PICK served : served = C!Replenish(C!Serve(c, kind, sort), keepStarting, cancel)
    OBVIOUS
  <2> PICK q : q = taken(cancel)
    OBVIOUS
  <2> PICK d : d = Counts(pool')
    OBVIOUS
  <2>1. q \in PoolShape /\ Counts(q) = served /\ sort \in C!Takes(c, kind)
    BY <1>5, <1>6, <1>10
  <2>2. d = IF sort = "failed" THEN served ELSE C!Finished(served)
    <3>1. Counts([q EXCEPT !.running = @ - 1]) = C!Finished(served)
      BY <2>1, CountsKept
    <3> QED BY <1>10, <2>1, <3>1 DEF IsOk
  <2>3. AbstractPool!ServeFrom(c, kind, sort)
    BY <1>10, <2>2, AbstractServed
  <2> QED BY <2>1, <2>3
<1> QED BY <1>3, <1>4, <1>7, <1>8, <1>9, <1>10

-----------------------------------------------------------------------------
(* How far the suites are.                                                 *)

\* No suite has more children under way than its parallelism, none that was not started has any,
\* and only the end of the run closes the pool.
RunInv ==
    /\ \A s \in Suites : Cardinality(InFlight(s)) <= Parallelism[s]
    /\ \A s \in Suites : suite[s] = "unstarted" => started[s] = 0
    /\ pool.closed => suite[Root] = "done"

LEMMA DoneStays ==
    ASSUME Inv, [Next]_vars, NEW u \in Tests, phase[u] = "done"
    PROVE  phase'[u] = "done"
<1>1. phase \in [Tests -> Phases]
  BY DEF Inv, Shape
<1>2. ASSUME NEW t, NEW x, phase' = [phase EXCEPT ![t] = x], t # u \/ x = "done"
      PROVE  phase'[u] = "done"
  BY <1>1, <1>2
<1>3. ASSUME NEW t, NotStarted(t)
      PROVE  phase'[u] = "done"
  <2>1. phase' = [phase EXCEPT ![t] = "done"]
    BY <1>3 DEF NotStarted
  <2> QED BY <1>2, <2>1
<1>4. ASSUME NEW s \in Suites, StartChild(s)
      PROVE  phase'[u] = "done"
  <2>1. CASE phase' = phase
    BY <2>1
  <2>2. CASE phase' # phase
    <3>1. PICK n \in Tests : /\ n = Children[s][started[s] + 1]
                             /\ Skip(n) \/ FailUnplannable(n) \/ RequestDedicated(n)
                                  \/ TakeOrWait(n)
      BY <1>4, <2>2 DEF StartChild
    <3>2. phase[n] = "queued"
      <4>1. HasRoom(s) /\ started' = [started EXCEPT ![s] = @ + 1]
        BY <1>4 DEF StartChild
      <4> QED BY <3>1, <4>1, NextChild
    <3>3. phase'[u] = phase[u]
      <4>1. u # n
        BY <3>2
      <4>2. Shape
        BY DEF Inv
      <4> HIDE DEF Inv
      <4> QED BY <3>1, <4>1, <4>2, TestPhase
    <3> QED BY <3>3
  <2> QED BY <2>1, <2>2
<1>5. ASSUME NEW t \in Tests, StopsWaiting(t)
      PROVE  phase'[u] = "done"
  <2>1. t # u
    BY <1>5 DEF StopsWaiting, IsWoken
  <2>2. TakeFrom(t, pool) \/ NotStarted(t)
    BY <1>5 DEF StopsWaiting
  <2> QED BY <1>3, <2>1, <2>2, TestPhase DEF Inv
<1>6. ASSUME NEW t \in Tests, GetsDedicated(t)
      PROVE  phase'[u] = "done"
  <2>1. phase[t] \in {"requested", "refused"}
    BY <1>6 DEF GetsDedicated, HasAnswer
  <2>2. \E x : phase' = [phase EXCEPT ![t] = x]
    BY <1>6 DEF GetsDedicated, NotStarted, StartsBody, FailsToStart
  <2> QED BY <1>2, <2>1, <2>2
<1>7. ASSUME NEW t \in Tests, IsCancelled(t)
      PROVE  phase'[u] = "done"
  BY <1>2, <1>7 DEF IsCancelled
<1>8. ASSUME NEW w \in DOMAIN workers, CreationFails(w)
      PROVE  phase'[u] = "done"
  <2>1. CASE Pooled(w)
    BY <1>8, <2>1 DEF CreationFails
  <2>2. CASE ~Pooled(w)
    <3>1. phase' = [phase EXCEPT ![workers[w].owner] = "refused"] /\ workers[w].state = "creating"
      BY <1>8, <2>2 DEF CreationFails
    <3>2. phase[workers[w].owner] = "requested"
      BY <2>2, <3>1 DEF Inv, WorkersConsistent, WorkerConsistent, Pooled
    <3> QED BY <1>2, <3>1, <3>2
  <2> QED BY <2>1, <2>2
<1>9. ASSUME NEW w \in DOMAIN workers, BodyEnds(w) \/ PagesChecked(w)
      PROVE  phase'[u] = "done"
  <2>1. phase' = [phase EXCEPT ![workers[w].test] = "done"]
    BY <1>9 DEF BodyEnds, PagesChecked, AfterBody
  <2> QED BY <1>2, <2>1
<1>10. ASSUME NEW s \in Suites, FinishSuite(s)
       PROVE  phase'[u] = "done"
  BY <1>10 DEF FinishSuite
<1>11. CASE Spawn \/ Cancel \/ UNCHANGED vars
  BY <1>11 DEF Spawn, Cancel, vars, executor
<1>12. ASSUME NEW w \in DOMAIN workers,
              \/ Created(w) \/ Release(w) \/ Dropped(w) \/ TimesOut(w)
              \/ ResetDone(w) \/ ResetFails(w) \/ \E ok \in BOOLEAN : Quits(w, ok)
       PROVE  phase'[u] = "done"
  BY <1>12 DEF Created, Release, Dropped, TimesOut, ResetDone, ResetFails, Quits, executor
<1> QED BY <1>4, <1>5, <1>6, <1>7, <1>8, <1>9, <1>10, <1>11, <1>12
        DEF Next, Progress, Terminating

\* A suite is started once and finishes once.
LEMMA SuiteChanged ==
    ASSUME Inv, [Next]_vars
    PROVE  \A s \in Suites : /\ suite[s] = "done" => suite'[s] = "done"
                             /\ suite'[s] = "unstarted" => suite[s] = "unstarted"
<1>0. suite \in [Suites -> {"unstarted", "running", "done"}]
  BY DEF Inv, Shape
<1> DEFINE Kept == \A s \in Suites : /\ suite[s] = "done" => suite'[s] = "done"
                                     /\ suite'[s] = "unstarted" => suite[s] = "unstarted"
<1>1. ASSUME NEW s \in Suites, StartChild(s) PROVE Kept
  <2>1. HasRoom(s) /\ started' = [started EXCEPT ![s] = @ + 1]
    BY <1>1 DEF StartChild
  <2>2. PICK n : n = Children[s][started[s] + 1]
    OBVIOUS
  <2>3. (n \in Suites /\ suite' = [suite EXCEPT ![n] = "running"]) \/ suite' = suite
    BY <1>1, <2>2 DEF StartChild
  <2>4. n \in Suites => n \notin Tests /\ suite[n] = "unstarted"
    <3>1. TreeConsistent /\ started \in [Suites -> Nat]
      BY DEF Inv, Shape
    <3>2. started[s] + 1 \in DOMAIN Children[s] /\ started[s] + 1 > started[s]
      BY <1>1, <2>1, <3>1, TreeAssumption DEF HasRoom
    <3> QED BY <2>2, <3>1, <3>2, TestsAssumption DEF TreeConsistent
  <2> QED BY <1>0, <2>3, <2>4
<1>2. ASSUME NEW s \in Suites, FinishSuite(s) PROVE Kept
  BY <1>0, <1>2 DEF FinishSuite
<1>3. ASSUME NEW t, StopsWaiting(t) \/ GetsDedicated(t) \/ IsCancelled(t)
      PROVE  suite' = suite
  BY <1>3 DEF StopsWaiting, GetsDedicated, IsCancelled
<1>4. ASSUME NEW w, \/ Created(w) \/ CreationFails(w) \/ Release(w) \/ Dropped(w)
                    \/ TimesOut(w) \/ ResetDone(w) \/ ResetFails(w)
      PROVE  suite' = suite
  BY <1>4 DEF Created, CreationFails, Release, Dropped, TimesOut, ResetDone, ResetFails, executor
<1>5. ASSUME NEW w, BodyEnds(w) \/ PagesChecked(w) \/ \E ok : Quits(w, ok)
      PROVE  suite' = suite
  BY <1>5 DEF BodyEnds, PagesChecked, AfterBody, Quits
<1>6. ASSUME Spawn \/ Cancel \/ UNCHANGED vars
      PROVE  suite' = suite
  BY <1>6 DEF Spawn, Cancel, vars, executor
<1>7. suite' = suite => Kept
  OBVIOUS
<1> HIDE DEF Kept
<1>8. suite' = suite \/ \E s \in Suites : StartChild(s) \/ FinishSuite(s)
  BY <1>3, <1>4, <1>5, <1>6 DEF Next, Progress, Terminating
<1>9. Kept
  BY <1>1, <1>2, <1>7, <1>8
<1> QED BY <1>9 DEF Kept

LEMMA ChildStaysDone ==
    ASSUME Inv, SimpleInv, [Next]_vars, NEW s \in Suites, NEW i \in 1 .. started[s],
           Done(Children[s][i])
    PROVE  Done(Children[s][i])'
<1> PICK n : n = Children[s][i]
  OBVIOUS
<1>1. n \in Nodes
  <2>1. started[s] \in Nat /\ started[s] <= Len(Children[s]) /\ Children[s] \in Seq(Nodes)
    BY TreeAssumption DEF Inv, Shape, SimpleInv
  <2> QED BY <2>1
<1>2. CASE n \in Tests
  BY <1>2, DoneStays DEF Done
<1>3. CASE n \notin Tests
  BY <1>1, <1>3, SuiteChanged DEF Done, Nodes
<1> QED BY <1>2, <1>3

\* A child that is done stays done, so that a suite has as many children under way as before,
\* unless it has one more started.
LEMMA FlightShrinks ==
    ASSUME Inv, SimpleInv, [Next]_vars, NEW s \in Suites, started'[s] = started[s]
    PROVE  InFlight(s)' \subseteq InFlight(s)
BY ChildStaysDone DEF InFlight

LEMMA FlightFinite ==
    ASSUME Inv, NEW s \in Suites
    PROVE  IsFiniteSet(InFlight(s)) /\ Cardinality(InFlight(s)) \in Nat
<1>1. started[s] \in Nat
  BY DEF Inv, Shape
<1>2. IsFiniteSet(1 .. started[s])
  BY <1>1, FS_Interval
<1>3. InFlight(s) \in SUBSET (1 .. started[s])
  BY DEF InFlight
<1> QED BY <1>2, <1>3, FS_Subset, FS_CardinalityType

LEMMA FlightStep ==
    ASSUME Inv, SimpleInv, RunInv, [Next]_vars, NEW s \in Suites
    PROVE  Cardinality(InFlight(s)') <= Parallelism[s]
<1>1. IsFiniteSet(InFlight(s)) /\ Cardinality(InFlight(s)) \in Nat
  BY FlightFinite
<1>2. Cardinality(InFlight(s)) <= Parallelism[s] /\ Parallelism[s] \in Nat
  BY TreeAssumption DEF RunInv
<1>3. started \in [Suites -> Nat]
  BY DEF Inv, Shape
<1>4. CASE started'[s] = started[s]
  <2> PICK F : F = InFlight(s)
    OBVIOUS
  <2> PICK G : G = InFlight(s)'
    OBVIOUS
  <2>1. G \in SUBSET F
    BY <1>4, FlightShrinks
  <2>2. IsFiniteSet(G) /\ Cardinality(G) <= Cardinality(F) /\ Cardinality(G) \in Nat
    BY <1>1, <2>1, FS_Subset, FS_CardinalityType
  <2> QED BY <1>1, <1>2, <2>2
<1>5. CASE started'[s] # started[s]
  <2>1. HasRoom(s) /\ started'[s] = started[s] + 1
    BY <1>3, <1>5, ChildStarted
  <2> PICK F : F = InFlight(s)
    OBVIOUS
  <2> PICK G : G = InFlight(s)'
    OBVIOUS
  <2> PICK k : k = started[s] + 1
    OBVIOUS
  <2>2. \A i \in G : i \in F \union {k}
    <3>1. ASSUME NEW i \in 1 .. started'[s], ~(i \in 1 .. started[s]) PROVE i = k
      BY <1>3, <2>1, <3>1
    <3> QED BY <3>1, ChildStaysDone DEF InFlight
  <2>3. IsFiniteSet(F \union {k}) /\ Cardinality(F \union {k}) <= Cardinality(F) + 1
    BY <1>1, FS_AddElement
  <2>4. G \in SUBSET (F \union {k})
    BY <2>2
  <2>5. IsFiniteSet(G) /\ Cardinality(G) <= Cardinality(F \union {k}) /\ Cardinality(G) \in Nat
    BY <2>3, <2>4, FS_Subset, FS_CardinalityType
  <2>6. Cardinality(F) < Parallelism[s] /\ Cardinality(F \union {k}) \in Nat
    BY <2>1, <2>3, FS_CardinalityType DEF HasRoom
  <2> QED BY <1>1, <1>2, <2>3, <2>5, <2>6
<1> QED BY <1>4, <1>5

LEMMA UnstartedStep ==
    ASSUME Inv, RunInv, [Next]_vars, NEW s \in Suites, suite'[s] = "unstarted"
    PROVE  started'[s] = 0
<1>1. suite[s] = "unstarted" /\ started[s] = 0 /\ started \in [Suites -> Nat]
  BY SuiteChanged DEF RunInv, Inv, Shape
<1>2. \A u \in Suites : HasRoom(u) => u # s
  BY <1>1 DEF HasRoom
<1> QED BY <1>1, <1>2, ChildStarted

\* Replenishing, offering and serving leave the pool open or closed.
LEMMA ClosedKept ==
    ASSUME NEW p \in PoolShape
    PROVE  /\ \A keep, cancel : Replenish(p, keep, cancel).closed = p.closed
           /\ \A w, sort : Offer(p, w, sort).closed = p.closed
           /\ \A kind, i : Serve(p, kind, i).closed = p.closed
           /\ \A t : GiveUp(p, t).closed = p.closed
<1>1. ASSUME NEW keep, NEW cancel
      PROVE  Replenish(p, keep, cancel).closed = p.closed
  <2> PICK c : c = C!Replenish(Counts(p), keep, cancel)
    OBVIOUS
  <2> PICK idle : idle = WithoutResets(p.idle, OfSort(p.idle, "reset") - c.idle["reset"])
    OBVIOUS
  <2>1. Replenish(p, keep, cancel)
            = [p EXCEPT !.idle = idle, !.creating = c.creating, !.alive = c.alive]
    BY DEF Replenish, PoolShape
  <2> QED BY <2>1 DEF PoolShape
<1>2. \A w, sort : Offer(p, w, sort).closed = p.closed
  BY DEF Offer, PoolShape
<1>3. \A kind, i : Serve(p, kind, i).closed = p.closed
  BY DEF Serve, PoolShape
<1>4. \A t : GiveUp(p, t).closed = p.closed
  BY DEF GiveUp, PoolShape
<1> QED BY <1>1, <1>2, <1>3, <1>4

LEMMA ServedClosed ==
    ASSUME NEW p \in PoolShape, NEW kind \in C!Kinds, NEW i \in 1 .. Len(p.idle),
           NEW keep \in BOOLEAN, NEW cancel \in BOOLEAN,
           NEW r, r = Replenish(Serve(p, kind, i), keep, cancel)
    PROVE  r.closed = p.closed /\ [r EXCEPT !.running = @ - 1].closed = p.closed
<1> PICK s : s = Serve(p, kind, i)
  OBVIOUS
<1>1. s \in PoolShape /\ s.closed = p.closed
  <2>1. s \in PoolShape
    BY ServedPool
  <2>2. s.closed = p.closed
    BY ClosedKept
  <2> QED BY <2>1, <2>2
<1>2. r \in PoolShape
  BY <1>1, ReplenishFacts
<1>3. r.closed = p.closed
  BY <1>1, ClosedKept
<1> QED BY <1>2, <1>3 DEF PoolShape

LEMMA FailedClosed ==
    ASSUME NEW p \in PoolShape, NEW w \in Nat, NEW keep \in BOOLEAN, NEW cancel \in BOOLEAN,
           NEW o, o = Offer(p, w, "failed")
    PROVE  Ended(o, keep, cancel).closed = p.closed
<1> PICK sort \in C!Sorts : sort = "failed"
  BY DEF C!Sorts
<1>1. o = Offer(p, w, sort)
  OBVIOUS
<1>2. o \in PoolShape /\ o.closed = p.closed
  <2>1. o \in PoolShape
    BY <1>1, OfferShape
  <2>2. o.closed = p.closed
    BY ClosedKept
  <2> QED BY <2>1, <2>2
<1> PICK q : q = [o EXCEPT !.alive = @ - 1]
  OBVIOUS
<1>3. q \in PoolShape /\ q.closed = p.closed
  BY <1>2 DEF PoolShape
<1>4. Ended(o, keep, cancel) = Replenish(q, keep, cancel)
  BY Zenon DEF Ended
<1> QED BY ONLY <1>3, <1>4, ClosedKept

LEMMA TakeKeepsOpen ==
    ASSUME NEW t \in PoolTests, NEW p \in PoolShape, keepStarting \in BOOLEAN, TakeFrom(t, p)
    PROVE  pool'.closed = p.closed
<1> DEFINE i == Position(p.idle, Kind(t))
           taken(cancel) == Replenish(Serve(p, Kind(t), i), keepStarting, cancel)
<1>1. \/ i = 0 /\ pool' = p
      \/ i # 0 /\ \E cancel \in BOOLEAN :
                     pool' = taken(cancel) \/ pool' = [taken(cancel) EXCEPT !.running = @ - 1]
  BY DEF TakeFrom, Update
<1>2. CASE i = 0 /\ pool' = p
  BY <1>2
<1>3. ASSUME i # 0, NEW cancel \in BOOLEAN,
             pool' = taken(cancel) \/ pool' = [taken(cancel) EXCEPT !.running = @ - 1]
      PROVE  pool'.closed = p.closed
  <2>1. p.idle \in Queue /\ Kind(t) \in C!Kinds
    BY KindType DEF PoolShape
  <2>2. i \in 1 .. Len(p.idle)
    BY <1>3, <2>1, PositionFacts
  <2> PICK r : r = taken(cancel)
    OBVIOUS
  <2> HIDE DEF i
  <2>3. r.closed = p.closed /\ [r EXCEPT !.running = @ - 1].closed = p.closed
    BY <2>1, <2>2, ServedClosed
  <2>4. pool' = r \/ pool' = [r EXCEPT !.running = @ - 1]
    BY <1>3
  <2> QED BY <2>3, <2>4
<1> QED BY <1>1, <1>2, <1>3

\* Only the end of the run closes the pool.
LEMMA PoolStaysOpen ==
    ASSUME Inv, CountInv, [Next]_vars
    PROVE  pool'.closed = pool.closed \/ suite'[Root] = "done"
<1>0. /\ pool \in PoolShape /\ DOMAIN workers \subseteq Nat /\ keepStarting \in BOOLEAN /\ keepStarting' \in BOOLEAN
      /\ cancelled \in BOOLEAN
  BY StateShapes, StepInv
<1>1. ASSUME NEW s \in Suites, StartChild(s)
      PROVE  pool'.closed = pool.closed
  <2>1. UNCHANGED pool \/ \E n \in Tests : TakeOrWait(n)
    BY <1>1 DEF StartChild, Skip, FailUnplannable, RequestDedicated, sessions
  <2>2. ASSUME NEW n \in Tests, TakeOrWait(n)
        PROVE  pool'.closed = pool.closed
    <3> DEFINE registered(cancel) == Replenish(Register(n), keepStarting, cancel)
    <3>1. Register(n) \in PoolShape /\ Register(n).closed = pool.closed
      BY <1>0, RegisterShape DEF Register, PoolShape
    <3>2. \A cancel \in BOOLEAN : /\ registered(cancel) \in PoolShape
                                  /\ registered(cancel).closed = pool.closed
      BY <1>0, <3>1, ReplenishFacts, ClosedKept
    <3>3. CASE TakeFrom(n, registered(FALSE))
      <4> PICK p : p = registered(FALSE)
        OBVIOUS
      <4>1. p \in PoolShape /\ p.closed = pool.closed
        BY <3>2
      <4>2. n \in PoolTests
        BY <2>2 DEF TakeOrWait
      <4> QED BY <1>0, <3>3, <4>1, <4>2, TakeKeepsOpen
    <3>4. ASSUME NEW cancel \in BOOLEAN, pool' = GiveUp(registered(cancel), n)
          PROVE  pool'.closed = pool.closed
      <4> PICK p : p = registered(cancel)
        OBVIOUS
      <4>1. p \in PoolShape /\ p.closed = pool.closed
        BY <3>2
      <4> QED BY <3>4, <4>1, ClosedKept
    <3> QED BY <2>2, <3>3, <3>4 DEF TakeOrWait, Update
  <2> QED BY <2>1, <2>2
<1>2. ASSUME NEW s \in Suites, FinishSuite(s)
      PROVE  pool'.closed = pool.closed \/ suite'[Root] = "done"
  <2>1. CASE s = Root
    BY <1>2, <2>1, TreeAssumption DEF FinishSuite, Inv, Shape
  <2>2. CASE s # Root
    BY <1>2, <2>2 DEF FinishSuite
  <2> QED BY <2>1, <2>2
<1>3. ASSUME NEW t \in Tests, StopsWaiting(t)
      PROVE  pool'.closed = pool.closed
  <2>1. CASE TakeFrom(t, pool)
    <3>1. t \in PoolTests
      BY <1>3 DEF StopsWaiting, IsWoken, CountInv, TestsPlaced, TestPlaced
    <3> QED BY <1>0, <2>1, <3>1, TakeKeepsOpen
  <2>2. CASE pool' = GiveUp(pool, t)
    BY <1>0, <2>2, ClosedKept
  <2> QED BY <1>3, <2>1, <2>2 DEF StopsWaiting
<1>4. ASSUME NEW t, GetsDedicated(t) \/ IsCancelled(t)
      PROVE  pool'.closed = pool.closed
  BY <1>0, <1>4 DEF GetsDedicated, IsCancelled, PoolShape
<1>5. ASSUME NEW w, Release(w) \/ Dropped(w) \/ TimesOut(w)
      PROVE  pool'.closed = pool.closed
  BY <1>5 DEF Release, Dropped, TimesOut
<1>6. ASSUME NEW w \in DOMAIN workers, Created(w) \/ CreationFails(w)
      PROVE  pool'.closed = pool.closed
  <2> PICK p : p = [pool EXCEPT !.creating = @ - 1]
    OBVIOUS
  <2>1. p \in PoolShape /\ p.closed = pool.closed
    BY <1>0 DEF PoolShape
  <2>2. CASE Created(w)
    <3>1. pool' = pool \/ pool' = Offer(p, w, "created")
      BY <2>2, Zenon DEF Created
    <3> QED BY ONLY <2>1, <3>1, ClosedKept
  <2>3. CASE CreationFails(w) /\ Pooled(w)
    <3> PICK o : o = Offer(p, w, "failed")
      OBVIOUS
    <3>1. pool' = Ended(o, keepStarting, cancelled)
      <4>1. o = Offer([pool EXCEPT !.creating = @ - 1], w, "failed")
        BY Zenon
      <4> QED BY <2>3, <4>1, Zenon DEF CreationFails, Update
    <3>2. w \in Nat /\ o = Offer(p, w, "failed")
      BY <1>0, <1>6
    <3> QED BY ONLY <1>0, <2>1, <3>1, <3>2, FailedClosed
  <2>4. CASE CreationFails(w) /\ ~Pooled(w)
    BY <2>4 DEF CreationFails
  <2> QED BY <1>6, <2>2, <2>3, <2>4
<1>7. ASSUME NEW w, ResetDone(w) \/ ResetFails(w)
      PROVE  pool'.closed = pool.closed
  <2> PICK p : p = [pool EXCEPT !.resetting = @ - 1]
    OBVIOUS
  <2>1. p \in PoolShape /\ p.closed = pool.closed
    BY <1>0 DEF PoolShape
  <2>2. CASE ResetDone(w)
    <3>1. pool' = p \/ pool' = Offer(p, w, "reset")
      BY <2>2, Zenon DEF ResetDone
    <3> QED BY ONLY <2>1, <3>1, ClosedKept
  <2>3. CASE ResetFails(w)
    <3>1. pool' = Replenish(p, keepStarting, cancelled)
      BY <2>3, Zenon DEF ResetFails, Update
    <3> QED BY ONLY <2>1, <3>1, ClosedKept
  <2> QED BY <1>7, <2>2, <2>3
<1>8. ASSUME NEW w, NEW ok, Quits(w, ok)
      PROVE  pool'.closed = pool.closed
  <2> PICK p : p = [pool EXCEPT !.alive = @ - 1]
    OBVIOUS
  <2>1. p \in PoolShape /\ p.closed = pool.closed
    BY <1>0 DEF PoolShape
  <2>2. pool' = pool \/ pool' = Replenish(p, keepStarting', cancelled)
    BY <1>8, Zenon DEF Quits, Ended, Update
  <2> QED BY ONLY <2>1, <2>2, ClosedKept
<1>9. ASSUME NEW w, BodyEnds(w) \/ PagesChecked(w)
      PROVE  pool'.closed = pool.closed
  <2> PICK p : p = IF Pooled(w) THEN [pool EXCEPT !.running = @ - 1] ELSE pool
    OBVIOUS
  <2>1. p \in PoolShape /\ p.closed = pool.closed
    BY <1>0 DEF PoolShape
  <2>2. pool' = p \/ pool' = [p EXCEPT !.resetting = @ + 1]
    BY <1>9 DEF BodyEnds, PagesChecked, AfterBody
  <2> QED BY <2>1, <2>2 DEF PoolShape
<1>10. CASE Spawn \/ Cancel \/ UNCHANGED vars
  BY <1>10 DEF Spawn, Cancel, vars, sessions
<1> HIDE DEF Inv, CountInv
<1> QED BY <1>1, <1>2, <1>3, <1>4, <1>5, <1>6, <1>7, <1>8, <1>9, <1>10
        DEF Next, Progress, Terminating

LEMMA RunStep ==
    ASSUME Inv, CountInv, SimpleInv, RunInv, [Next]_vars
    PROVE  RunInv'
<1>1. \A s \in Suites : Cardinality(InFlight(s)') <= Parallelism[s]
  BY FlightStep
<1>2. \A s \in Suites : suite'[s] = "unstarted" => started'[s] = 0
  BY UnstartedStep
<1>3. pool'.closed => suite'[Root] = "done"
  <2>1. suite[Root] = "done" => suite'[Root] = "done"
    BY SuiteChanged, TreeAssumption
  <2> QED BY <2>1, PoolStaysOpen DEF RunInv
<1> QED BY <1>1, <1>2, <1>3 DEF RunInv

LEMMA InitRun ==
    ASSUME Init
    PROVE  RunInv
<1>1. started = [s \in Suites |-> 0]
  BY DEF Init
<1>2. ASSUME NEW s \in Suites
      PROVE  Cardinality(InFlight(s)) <= Parallelism[s]
  <2>1. InFlight(s) = {}
    BY <1>1 DEF InFlight
  <2>2. Cardinality(InFlight(s)) = 0 /\ Parallelism[s] \in Nat
    BY <2>1, FS_EmptySet, TreeAssumption
  <2> QED BY <2>2
<1>3. ~pool.closed
  <2>1. pool = Replenish(NewPool, TRUE, FALSE)
    BY DEF Init
  <2>2. NewPool \in PoolShape /\ ~NewPool.closed
    BY NewPoolShape, NewPoolCounts
  <2>3. Replenish(NewPool, TRUE, FALSE).closed = NewPool.closed
    BY <2>2, ClosedKept
  <2> QED BY <2>1, <2>2, <2>3
<1> QED BY <1>1, <1>2, <1>3 DEF RunInv

-----------------------------------------------------------------------------
(* Room for a test.                                                        *)

Busy == {"waiting", "requested", "refused", "running"}

\* The suites and tests under way, once a further child n of suite s is.
UnderWay(n) ==
    {u \in Suites : suite[u] = "running"} \union {t \in Tests : phase[t] \in Busy} \union {n}

\* At most one value per index of a sequence is among the children.
LEMMA FewChildren ==
    ASSUME NEW s \in Suites, NEW I, IsFiniteSet(I), I \subseteq DOMAIN Children[s],
           NEW R, \A n \in R \intersect ChildrenOf(s) : \E i \in I : n = Children[s][i]
    PROVE  Cardinality(R \intersect ChildrenOf(s)) <= Cardinality(I)
<1> DEFINE X == R \intersect ChildrenOf(s)
<1> PICK at : at = [n \in X |-> CHOOSE i \in I : n = Children[s][i]]
  OBVIOUS
<1>1. \A n \in X : at[n] \in I /\ n = Children[s][at[n]]
  OBVIOUS
<1> HIDE DEF X
<1>2. at \in Injection(X, I)
  <2>1. at \in [X -> I]
    BY <1>1
  <2>2. \A m, n \in X : at[m] = at[n] => m = n
    BY <1>1
  <2> QED BY <2>1, <2>2 DEF Injection, IsInjective
<1>3. IsFiniteSet(X) /\ Cardinality(X) <= Cardinality(I)
  BY <1>2, FS_Injection
<1> QED BY <1>3 DEF X

\* What is under way is a child that was started, or the next one.
LEMMA UnderWayChild ==
    ASSUME Inv, SimpleInv, NEW s \in Suites, HasRoom(s),
           NEW n \in Tests, n = Children[s][started[s] + 1],
           NEW u \in Suites, NEW i \in DOMAIN Children[u], Children[u][i] \in UnderWay(n)
    PROVE  \/ u = s /\ i = started[s] + 1
           \/ i \in InFlight(u) /\ suite[u] # "done"
<1> PICK m : m = Children[u][i]
  OBVIOUS
<1>1. started \in [Suites -> Nat] /\ Children[u] \in Seq(Nodes) /\ Children[s] \in Seq(Nodes)
  BY TreeAssumption DEF Inv, Shape
<1>2. CASE m = n
  <2>1. started[s] + 1 \in DOMAIN Children[s]
    BY <1>1 DEF HasRoom
  <2> PICK k \in DOMAIN Children[s] : k = started[s] + 1
    BY <2>1
  <2>2. Children[u][i] = Children[s][k]
    BY <1>2
  <2>3. u = s /\ i = k
    BY <2>2, OwnershipAssumption
  <2> QED BY <2>3
<1>3. CASE m # n
  <2>1. (m \in Suites /\ suite[m] = "running") \/ (m \in Tests /\ phase[m] \in Busy)
    BY <1>3 DEF UnderWay
  <2>2. ~Done(m)
    BY <2>1, TestsAssumption DEF Done, Busy
  <2>3. TreeConsistent
    BY DEF Inv
  <2>4. ~(i > started[u])
    BY <2>1, <2>3, TestsAssumption DEF TreeConsistent, Busy
  <2>5. suite[u] # "done"
    BY <2>2, <2>3 DEF TreeConsistent
  <2> QED BY <1>1, <2>2, <2>4, <2>5 DEF InFlight
<1> QED BY <1>2, <1>3

LEMMA UnderWayTogether ==
    ASSUME Inv, SimpleInv, RunInv, NEW s \in Suites, HasRoom(s),
           NEW n \in Tests, n = Children[s][started[s] + 1]
    PROVE  Together(UnderWay(n))
<1> PICK R : R = UnderWay(n)
  OBVIOUS
<1>1. started \in [Suites -> Nat] /\ suite \in [Suites -> {"unstarted", "running", "done"}]
  BY DEF Inv, Shape
<1>2. ASSUME NEW u \in Suites, u \notin R PROVE R \intersect ChildrenOf(u) = {}
  <2>1. suite[u] # "running" /\ u # s
    BY <1>2 DEF UnderWay, HasRoom
  <2>2. suite[u] = "unstarted" => InFlight(u) = {}
    BY DEF RunInv, InFlight
  <2>3. ASSUME NEW i \in DOMAIN Children[u], Children[u][i] \in R PROVE FALSE
    <3>1. i \in InFlight(u) /\ suite[u] # "done"
      BY <2>1, <2>3, UnderWayChild
    <3> QED BY <1>1, <2>1, <2>2, <3>1
  <2> QED BY <2>3 DEF ChildrenOf
<1>3. ASSUME NEW u \in Suites
      PROVE  Cardinality(R \intersect ChildrenOf(u)) <= Parallelism[u]
  <2> PICK I : I = IF u = s THEN InFlight(s) \union {started[s] + 1} ELSE InFlight(u)
    OBVIOUS
  <2>1. /\ IsFiniteSet(InFlight(u)) /\ Cardinality(InFlight(u)) \in Nat
        /\ Cardinality(InFlight(u)) <= Parallelism[u] /\ Parallelism[u] \in Nat
    BY FlightFinite, TreeAssumption DEF RunInv
  <2>2. IsFiniteSet(I) /\ Cardinality(I) <= Parallelism[u]
    <3>1. CASE u # s
      BY <2>1, <3>1
    <3>2. CASE u = s
      <4>1. Cardinality(InFlight(s)) < Parallelism[s]
        BY DEF HasRoom
      <4>2. /\ IsFiniteSet(InFlight(s) \union {started[s] + 1})
            /\ Cardinality(InFlight(s) \union {started[s] + 1}) <= Cardinality(InFlight(s)) + 1
        BY <2>1, <3>2, FS_AddElement
      <4>3. Cardinality(InFlight(s) \union {started[s] + 1}) \in Nat
        BY <4>2, FS_CardinalityType
      <4> QED BY <2>1, <3>2, <4>1, <4>2, <4>3
    <3> QED BY <3>1, <3>2
  <2>3. I \subseteq DOMAIN Children[u]
    <3>1. /\ Children[u] \in Seq(Nodes) /\ Children[s] \in Seq(Nodes)
          /\ started[u] \in Nat /\ started[u] <= Len(Children[u])
          /\ started[s] \in Nat /\ started[s] < Len(Children[s])
      BY <1>1, TreeAssumption DEF SimpleInv, HasRoom
    <3>2. InFlight(u) \subseteq DOMAIN Children[u]
      BY <3>1 DEF InFlight
    <3>3. started[s] + 1 \in DOMAIN Children[s]
      BY <3>1
    <3> QED BY <3>2, <3>3
  <2>4. ASSUME NEW m \in R \intersect ChildrenOf(u)
        PROVE  \E i \in I : m = Children[u][i]
    <3> PICK i \in DOMAIN Children[u] : m = Children[u][i]
      BY DEF ChildrenOf
    <3>1. (u = s /\ i = started[s] + 1) \/ i \in InFlight(u)
      BY UnderWayChild
    <3> QED BY <3>1
  <2>5. Cardinality(R \intersect ChildrenOf(u)) <= Cardinality(I)
    BY <2>2, <2>3, <2>4, FewChildren
  <2>6. IsFiniteSet(R \intersect ChildrenOf(u)) /\ Cardinality(I) \in Nat
        /\ Cardinality(R \intersect ChildrenOf(u)) \in Nat
    <3>1. IsFiniteSet(Nodes)
      BY TreeAssumption, TestsAssumption, FS_Union DEF Nodes
    <3>2. R \in SUBSET Nodes
      BY DEF UnderWay, Nodes
    <3>3. R \intersect ChildrenOf(u) \in SUBSET Nodes
      BY <3>2
    <3>4. IsFiniteSet(R \intersect ChildrenOf(u))
      BY <3>1, <3>3, FS_Subset
    <3> QED BY <2>2, <3>4, FS_CardinalityType
  <2> QED BY <2>1, <2>2, <2>5, <2>6
<1> QED BY <1>2, <1>3 DEF Together

\* MaxConcurrency bounds the tests that are in flight at once.
LEMMA ConcurrencyBounds ==
    ASSUME NEW R \in SUBSET Nodes, Together(R), NEW T \in SUBSET Tests, T \subseteq R
    PROVE  IsFiniteSet(T) /\ Cardinality(T) <= MaxConcurrency
<1> DEFINE leaves == {n \in Nodes : n \in Suites => Children[n] = <<>>}
           counts == {Cardinality(Q \intersect leaves) : Q \in {Q \in SUBSET Nodes : Together(Q)}}
<1>1. IsFiniteSet(Nodes)
  BY TreeAssumption, TestsAssumption, FS_Union DEF Nodes
<1>2. ASSUME NEW Q \in SUBSET Nodes
      PROVE  /\ IsFiniteSet(Q \intersect leaves)
             /\ Cardinality(Q \intersect leaves) \in Nat
             /\ Cardinality(Q \intersect leaves) <= Cardinality(Nodes)
  <2>1. Q \intersect leaves \in SUBSET Nodes
    OBVIOUS
  <2> HIDE DEF leaves
  <2>2. IsFiniteSet(Q \intersect leaves)
    BY <1>1, <2>1, FS_Subset
  <2> QED BY <1>1, <2>1, <2>2, FS_Subset, FS_CardinalityType
<1>3. /\ counts \union {1} \in SUBSET Nat
      /\ \A k \in counts \union {1} : k <= Cardinality(Nodes) + 1
      /\ Cardinality(Nodes) + 1 \in Nat
  <2>1. Cardinality(Nodes) \in Nat
    BY <1>1, FS_CardinalityType
  <2>2. \A k \in counts : k \in Nat /\ k <= Cardinality(Nodes)
    <3> HIDE DEF leaves
    <3> QED BY <1>2
  <2> HIDE DEF counts
  <2> QED BY <2>1, <2>2
<1>4. \A k \in counts \union {1} : k <= Max(counts \union {1})
  <2> HIDE DEF counts
  <2> QED BY <1>3, MaxFacts
<1>5. MaxConcurrency = Max(counts \union {1})
  BY DEF MaxConcurrency
<1>6. Cardinality(R \intersect leaves) \in counts
  BY Zenon
<1>7. T \subseteq R \intersect leaves
  BY TestsAssumption DEF Nodes
<1> HIDE DEF counts, leaves
<1>8. Cardinality(R \intersect leaves) <= MaxConcurrency
  BY <1>4, <1>5, <1>6
<1>9. IsFiniteSet(R \intersect leaves) /\ Cardinality(R \intersect leaves) \in Nat
  BY <1>2
<1>10. IsFiniteSet(T) /\ Cardinality(T) <= Cardinality(R \intersect leaves)
  BY <1>7, <1>9, FS_Subset
<1>11. Cardinality(T) \in Nat /\ MaxConcurrency \in Nat
  BY <1>10, FS_CardinalityType, ConcurrencyType
<1> QED BY <1>8, <1>9, <1>10, <1>11

\* A suite starts a test only while fewer tests than that take a session or run in one.
LEMMA RoomForTest ==
    ASSUME Inv, CountInv, SimpleInv, RunInv, NEW s \in Suites, HasRoom(s),
           NEW n \in Tests, n = Children[s][started[s] + 1], phase[n] = "queued"
    PROVE  pool.running + C!Total(pool.waiting) < MaxConcurrency
<1> DEFINE A == {u \in PoolTestsOf("any") : phase[u] \in {"waiting"}}
           F == {u \in PoolTestsOf("fresh") : phase[u] \in {"waiting"}}
           D == {u \in PoolTests : phase[u] \in {"running"}}
<1>1. /\ pool.running = Cardinality(D)
      /\ pool.waiting["any"] = Cardinality(A) /\ pool.waiting["fresh"] = Cardinality(F)
  <2>1. /\ pool.running = CountTests(phase, PoolTests, {"running"})
        /\ \A k \in C!Kinds : pool.waiting[k] = CountTests(phase, PoolTestsOf(k), {"waiting"})
    BY DEF CountInv, Tallied
  <2> QED BY <2>1 DEF CountTests, C!Kinds
<1>2. IsFiniteSet(A) /\ IsFiniteSet(F) /\ IsFiniteSet(D)
  <2>1. PoolTestsOf("any") \in SUBSET Tests /\ PoolTestsOf("fresh") \in SUBSET Tests
        /\ PoolTests \in SUBSET Tests
    BY TestSets
  <2>2. A \in SUBSET Tests /\ F \in SUBSET Tests /\ D \in SUBSET Tests
    BY <2>1
  <2> HIDE DEF A, F, D
  <2> QED BY <2>2, FS_Subset, TestsAssumption
<1>3. /\ A \intersect F = {} /\ (A \union F) \intersect D = {}
      /\ ((A \union F) \union D) \intersect {n} = {}
  BY TestSets
<1>4. ((A \union F) \union D) \union {n} \subseteq UnderWay(n)
  BY TestSets DEF UnderWay, Busy
<1>5. ((A \union F) \union D) \union {n} \in SUBSET Tests
  BY TestSets
<1>6. Together(UnderWay(n)) /\ UnderWay(n) \in SUBSET Nodes
  BY UnderWayTogether DEF UnderWay, Nodes
<1> HIDE DEF A, F, D
<1>7. IsFiniteSet(A \union F) /\ Cardinality(A \union F) = Cardinality(A) + Cardinality(F)
  BY <1>2, <1>3, CountTogether
<1>8. /\ IsFiniteSet((A \union F) \union D)
      /\ Cardinality((A \union F) \union D) = Cardinality(A \union F) + Cardinality(D)
  BY <1>2, <1>3, <1>7, CountTogether
<1>9. IsFiniteSet({n}) /\ Cardinality({n}) = 1
  BY FS_Singleton
<1>10. Cardinality(((A \union F) \union D) \union {n}) = Cardinality((A \union F) \union D) + 1
  BY <1>3, <1>8, <1>9, CountTogether
<1>11. Cardinality(((A \union F) \union D) \union {n}) <= MaxConcurrency
  BY <1>4, <1>5, <1>6, ConcurrencyBounds
<1>12. /\ Cardinality(A) \in Nat /\ Cardinality(F) \in Nat /\ Cardinality(D) \in Nat
       /\ MaxConcurrency \in Nat
  BY <1>2, FS_CardinalityType, ConcurrencyType
<1> QED BY <1>1, <1>7, <1>8, <1>10, <1>11, <1>12 DEF C!Total

\* A queued test is counted among the upcoming ones, as long as it may start.
LEMMA TestUpcoming ==
    ASSUME Inv, CountInv, NEW t \in PoolTests, phase[t] = "queued", MayStart(t),
           NEW kind, kind = Kind(t), NEW always \in BOOLEAN, always <=> t \in RunAlways
    PROVE  IF always THEN pool.upcomingAlways[kind] > 0
                     ELSE pool.upcoming[kind] > pool.upcomingAlways[kind]
<1> DEFINE Q == {u \in PoolTestsOf(kind) : phase[u] \in {"queued"}}
           A == {u \in PoolTestsOf(kind) \intersect RunAlways : phase[u] \in {"queued"}}
<1>1. kind \in C!Kinds /\ t \in PoolTestsOf(kind) /\ PoolTestsOf(kind) \in SUBSET Tests
  BY KindType, TestSets
<1>2. /\ keepStarting => pool.upcoming[kind] = Cardinality(Q)
      /\ pool.upcomingAlways[kind] = Cardinality(A)
  BY <1>1 DEF CountInv, Tallied, CountTests, MayStart
<1>3. Q \in SUBSET Tests /\ A \in SUBSET Q
  BY <1>1
<1>4. t \in Q /\ (always => t \in A) /\ (~always => t \notin A)
  BY <1>1
<1> HIDE DEF Q, A
<1>5. IsFiniteSet(Q) /\ IsFiniteSet(A) /\ Cardinality(Q) \in Nat /\ Cardinality(A) \in Nat
  BY <1>3, FS_Subset, FS_CardinalityType, TestsAssumption
<1>6. CASE always
  <2>1. Cardinality(A) # 0
    BY <1>4, <1>5, <1>6, FS_EmptySet
  <2> QED BY <1>2, <1>5, <1>6, <2>1
<1>7. CASE ~always
  <2>1. IsFiniteSet({t}) /\ Cardinality({t}) = 1
    BY FS_Singleton
  <2>2. Cardinality(A \union {t}) = Cardinality(A) + 1
    <3>1. A \intersect {t} = {}
      BY <1>4, <1>7
    <3> QED BY <1>5, <2>1, <3>1, CountTogether
  <2>3. A \union {t} \subseteq Q
    BY <1>3, <1>4
  <2>4. Cardinality(A \union {t}) <= Cardinality(Q)
    BY <1>5, <2>3, FS_Subset
  <2>5. keepStarting
    BY <1>7 DEF MayStart
  <2> QED BY <1>2, <1>5, <1>7, <2>2, <2>4, <2>5
<1> QED BY <1>6, <1>7

\* The pool is open as long as a test is not done.
LEMMA OpenForTest ==
    ASSUME Inv, RunInv, NEW t \in Tests, phase[t] # "done"
    PROVE  ~pool.closed
BY AllTestsDone DEF RunInv

-----------------------------------------------------------------------------
(* Sessions that quit.                                                     *)

LEMMA StatesTogether ==
    ASSUME NEW ws \in Seq(WorkerShape), NEW X, NEW Y, X \intersect Y = {}
    PROVE  CountSessions(ws, X \union Y) = CountSessions(ws, X) + CountSessions(ws, Y)
<1>1. SessionsIn(ws, X \union Y) = SessionsIn(ws, X) \union SessionsIn(ws, Y)
  BY DEF SessionsIn
<1>2. SessionsIn(ws, X) \intersect SessionsIn(ws, Y) = {}
  BY DEF SessionsIn
<1>3. IsFiniteSet(SessionsIn(ws, X)) /\ IsFiniteSet(SessionsIn(ws, Y))
  BY SessionsFinite
<1> QED BY <1>1, <1>2, <1>3, CountTogether DEF CountSessions

\* An open session is in creation, offered, in a test, being reset or quits.
LEMMA OpenSessions ==
    ASSUME NEW ws \in Seq(WorkerShape)
    PROVE  /\ CountSessions(ws, Open) =
                  CountSessions(ws, InCreation) + CountSessions(ws, {"offered"})
                      + CountSessions(ws, InTest) + CountSessions(ws, InReset)
                      + CountSessions(ws, {"quitting"})
           /\ CountSessions(ws, InCreation) \in Nat /\ CountSessions(ws, {"offered"}) \in Nat
           /\ CountSessions(ws, InTest) \in Nat /\ CountSessions(ws, InReset) \in Nat
           /\ CountSessions(ws, {"quitting"}) \in Nat
<1>1. Open = (((InCreation \union {"offered"}) \union InTest) \union InReset) \union {"quitting"}
  BY DEF Open, InCreation, InTest, InReset, States
<1>2. /\ InCreation \intersect {"offered"} = {}
      /\ (InCreation \union {"offered"}) \intersect InTest = {}
      /\ ((InCreation \union {"offered"}) \union InTest) \intersect InReset = {}
      /\ (((InCreation \union {"offered"}) \union InTest) \union InReset)
             \intersect {"quitting"} = {}
  BY DEF InCreation, InTest, InReset
<1>3. \A X : CountSessions(ws, X) \in Nat
  BY SessionsFinite
<1>4. CountSessions(ws, InCreation \union {"offered"}) =
          CountSessions(ws, InCreation) + CountSessions(ws, {"offered"})
  BY <1>2, StatesTogether
<1>5. CountSessions(ws, (InCreation \union {"offered"}) \union InTest) =
          CountSessions(ws, InCreation \union {"offered"}) + CountSessions(ws, InTest)
  BY <1>2, StatesTogether
<1>6. CountSessions(ws, ((InCreation \union {"offered"}) \union InTest) \union InReset) =
          CountSessions(ws, (InCreation \union {"offered"}) \union InTest)
              + CountSessions(ws, InReset)
  BY <1>2, StatesTogether
<1>7. CountSessions(ws, Open) =
          CountSessions(ws, ((InCreation \union {"offered"}) \union InTest) \union InReset)
              + CountSessions(ws, {"quitting"})
  BY <1>1, <1>2, StatesTogether
<1> QED BY <1>3, <1>4, <1>5, <1>6, <1>7

\* Every session of a ticket is offered, so that there are at least as many as tickets.
LEMMA TicketsOffered ==
    ASSUME Inv, ~cancelled
    PROVE  OfSort(pool.idle, "created") + OfSort(pool.idle, "reset")
               <= CountSessions(workers, {"offered"})
<1> DEFINE q == pool.idle
           A == {i \in DOMAIN q : q[i].sort = "created"}
           B == {i \in DOMAIN q : q[i].sort = "reset"}
           O == SessionsIn(workers, {"offered"})
<1>0. q \in Queue /\ workers \in Seq(WorkerShape)
  BY DEF Inv, Shape, PoolShape
<1>1. IsFiniteSet(A) /\ IsFiniteSet(B)
  BY <1>0, SortedTickets
<1>2. A \intersect B = {}
  OBVIOUS
<1>3. OfSort(q, "created") = Cardinality(A) /\ OfSort(q, "reset") = Cardinality(B)
  BY DEF OfSort
<1> PICK at : at = [i \in A \union B |-> q[i].session]
  OBVIOUS
<1>4. at \in Injection(A \union B, O)
  <2>1. ASSUME NEW i \in A \union B
        PROVE  /\ q[i].session \in O
               /\ \A j \in A \union B : q[j].session = q[i].session => i = j
    BY DEF Inv, TicketsConsistent, IsOk, SessionsIn, Pooled
  <2>2. at \in [A \union B -> O]
    BY <2>1
  <2>3. \A i, j \in A \union B : at[i] = at[j] => i = j
    BY <2>1
  <2> QED BY <2>2, <2>3 DEF Injection, IsInjective
<1>5. IsFiniteSet(O) /\ CountSessions(workers, {"offered"}) = Cardinality(O)
  BY <1>0, SessionsFinite DEF CountSessions
<1> HIDE DEF A, B, O
<1>6. Cardinality(A \union B) <= Cardinality(O)
  BY <1>4, <1>5, FS_Injection
<1>7. Cardinality(A \union B) = Cardinality(A) + Cardinality(B)
  BY <1>1, <1>2, CountTogether
<1> QED BY <1>3, <1>5, <1>6, <1>7

\* The session whose worker ends is one that the pool counts as open, and as nothing else.
LEMMA SessionQuitting ==
    ASSUME Inv, CountInv, NEW w \in DOMAIN workers, Pooled(w), workers[w].state = "quitting",
           NEW c, c = Counts(pool)
    PROVE  AbstractPool!Quitting(c) > 0
<1>1. workers \in Seq(WorkerShape) /\ pool \in Pools
  BY DEF Inv, Shape, CountInv, Tallied
<1>2. /\ c.alive = pool.alive /\ c.creating = pool.creating /\ c.resetting = pool.resetting
      /\ c.running = pool.running
      /\ c.idle["created"] = OfSort(pool.idle, "created")
      /\ c.idle["reset"] = OfSort(pool.idle, "reset")
  BY <1>1, CountsFacts DEF C!Sorts
<1>3. /\ pool.alive = CountSessions(workers, Open) + 0
      /\ pool.creating = CountSessions(workers, InCreation) + 0
      /\ ~cancelled => /\ pool.resetting = CountSessions(workers, InReset)
                       /\ pool.running = CountSessions(workers, InTest)
  BY DEF CountInv, Tallied
<1>4. CountSessions(workers, {"quitting"}) # 0
  <2> PICK S : S = SessionsIn(workers, {"quitting"})
    OBVIOUS
  <2>1. w \in S
    BY DEF SessionsIn, Pooled
  <2>2. IsFiniteSet(S)
    BY <1>1, SessionsFinite
  <2>3. Cardinality(S) # 0
    BY <2>1, <2>2, FS_EmptySet
  <2> QED BY <2>3 DEF CountSessions
<1>5. /\ CountSessions(workers, Open) =
             CountSessions(workers, InCreation) + CountSessions(workers, {"offered"})
                 + CountSessions(workers, InTest) + CountSessions(workers, InReset)
                 + CountSessions(workers, {"quitting"})
      /\ CountSessions(workers, InCreation) \in Nat /\ CountSessions(workers, {"offered"}) \in Nat
      /\ CountSessions(workers, InTest) \in Nat /\ CountSessions(workers, InReset) \in Nat
      /\ CountSessions(workers, {"quitting"}) \in Nat
  BY <1>1, OpenSessions
<1> PICK a : a = CountSessions(workers, InCreation)
  OBVIOUS
<1> PICK o : o = CountSessions(workers, {"offered"})
  OBVIOUS
<1> PICK r : r = CountSessions(workers, InTest)
  OBVIOUS
<1> PICK s : s = CountSessions(workers, InReset)
  OBVIOUS
<1> PICK x : x = CountSessions(workers, {"quitting"})
  OBVIOUS
<1>8. /\ a \in Nat /\ o \in Nat /\ r \in Nat /\ s \in Nat /\ x \in Nat /\ x # 0
      /\ c.alive = a + o + r + s + x /\ c.creating = a
      /\ ~cancelled => c.resetting = s /\ c.running = r
  BY <1>2, <1>3, <1>4, <1>5
<1>6. CASE cancelled
  <2>1. AbstractPool!Quitting(c) = c.alive - c.creating - 0
    BY <1>6 DEF AbstractPool!Quitting
  <2> QED BY ONLY <1>8, <2>1
<1>7. CASE ~cancelled
  <2>1. OfSort(pool.idle, "created") + OfSort(pool.idle, "reset")
            <= CountSessions(workers, {"offered"})
    BY <1>7, TicketsOffered
  <2>2. OfSort(pool.idle, "created") \in Nat /\ OfSort(pool.idle, "reset") \in Nat
    BY <1>1, SortedTickets DEF Pools
  <2> PICK i : i = c.idle["created"]
    OBVIOUS
  <2> PICK j : j = c.idle["reset"]
    OBVIOUS
  <2>3. i \in Nat /\ j \in Nat /\ i + j <= o
    BY <1>2, <2>1, <2>2
  <2>4. AbstractPool!Quitting(c) = c.alive - c.creating - (i + j + c.resetting + c.running)
    BY <1>7 DEF AbstractPool!Quitting
  <2> QED BY ONLY <1>7, <1>8, <2>3, <2>4
<1> QED BY <1>6, <1>7

-----------------------------------------------------------------------------
(* Every step is one of the abstract pool, or leaves it alone.             *)

Simulated == [AbstractPool!Next]_(AbstractPool!vars)

LEMMA AbstractStutter ==
    ASSUME pool' = pool, keepStarting' = keepStarting, cancelled' = cancelled
    PROVE  Simulated
<1>1. Counts(pool)' = Counts(pool)
  OBVIOUS
<1> QED BY <1>1 DEF Simulated, AbstractPool!vars

\* A failure stops a run, whose pool it leaves alone.
LEMMA AbstractStop ==
    ASSUME pool' = pool, keepStarting' \in {keepStarting, FALSE}, cancelled' = cancelled
    PROVE  Simulated
<1>1. Counts(pool)' = Counts(pool)
  OBVIOUS
<1>2. CASE keepStarting' = keepStarting
  BY <1>2, AbstractStutter
<1>3. CASE keepStarting' = FALSE
  BY <1>1, <1>3 DEF Simulated, AbstractPool!Next, AbstractPool!Stop
<1> QED BY <1>2, <1>3

LEMMA StopOnStops ==
    ASSUME NEW failed, NEW t, StopOn(failed, t)
    PROVE  keepStarting' \in {keepStarting, FALSE}
BY DEF StopOn

\* Tests that do not start, or start with a session of their own.
LEMMA AloneSimulated ==
    ASSUME NEW t, Skip(t) \/ FailUnplannable(t) \/ RequestDedicated(t) \/ GetsDedicated(t)
    PROVE  Simulated
<1>1. CASE Skip(t)
  <2>1. /\ pool' = pool /\ cancelled' = cancelled /\ StopOn(FALSE, t)
    BY <1>1, Zenon DEF Skip, NotStarted, sessions
  <2> QED BY <2>1, StopOnStops, AbstractStop
<1>2. CASE FailUnplannable(t)
  <2>1. /\ pool' = pool /\ cancelled' = cancelled /\ StopOn(TRUE, t)
    BY <1>2, Zenon DEF FailUnplannable, FailsToStart, sessions
  <2> QED BY <2>1, StopOnStops, AbstractStop
<1>3. CASE RequestDedicated(t)
  <2>1. pool' = pool /\ cancelled' = cancelled /\ keepStarting' = keepStarting
    BY <1>3 DEF RequestDedicated
  <2> QED BY <2>1, AbstractStutter
<1>4. CASE GetsDedicated(t)
  <2>1. /\ pool' = pool
        /\ \/ NotStarted(t) /\ UNCHANGED cancelled
           \/ StartsBody(t)
           \/ FailsToStart(t, "failed")
    BY <1>4 DEF GetsDedicated
  <2>2. cancelled' = cancelled /\ \E failed : StopOn(failed, t)
    BY <2>1 DEF NotStarted, StartsBody, FailsToStart
  <2> QED BY <2>1, <2>2, StopOnStops, AbstractStop
<1> QED BY <1>1, <1>2, <1>3, <1>4

\* take registers its test and replenishes.
LEMMA RegisteredCounts ==
    ASSUME pool \in Pools, NEW t \in PoolTests, NEW kind, kind = Kind(t),
           NEW always \in BOOLEAN, always <=> t \in RunAlways,
           NEW keep \in BOOLEAN, NEW cancel \in BOOLEAN,
           NEW p, p = Replenish(Register(t), keep, cancel)
    PROVE  /\ p \in Pools /\ Within(p.idle, pool.idle) /\ p.waiting[kind] > 0
           /\ Counts(p) = AbstractPool!Replenish(
                  AbstractPool!Register(Counts(pool), kind, always), keep, cancel)
<1> PICK reg : reg = Register(t)
  OBVIOUS
<1>1. pool \in PoolShape /\ kind \in C!Kinds
  BY PoolsShape, KindType
<1>2. /\ reg \in PoolShape /\ reg.idle = pool.idle
  BY <1>1, RegisterShape
<1>3. Registered(pool, reg, t)
  BY <1>1, RegisterStep DEF Register
<1>4. /\ reg.waiting[kind] > 0
      /\ \A k \in C!Kinds : reg.waiting[k] \in Nat
  <2>1. reg.waiting = [pool.waiting EXCEPT ![kind] = @ + 1] /\ pool.waiting \in [C!Kinds -> Nat]
    BY <1>3 DEF Registered, Pools, C!Tally
  <2> QED BY <1>1, <2>1
<1>5. reg.upcoming \in C!Tally /\ reg.upcomingAlways \in C!Tally
  <2>1. /\ reg.upcoming = [pool.upcoming EXCEPT ![kind] = C!Monus(@, 1)]
        /\ reg.upcomingAlways = [pool.upcomingAlways EXCEPT
                                     ![kind] = IF t \in RunAlways THEN C!Monus(@, 1) ELSE @]
        /\ pool.upcoming \in [C!Kinds -> Nat] /\ pool.upcomingAlways \in [C!Kinds -> Nat]
    BY <1>3 DEF Registered, Pools, C!Tally
  <2>2. \A m \in Nat : C!Monus(m, 1) \in Nat
    BY DEF C!Monus
  <2> QED BY <1>1, <2>1, <2>2 DEF C!Tally
<1>6. reg \in Pools
  <2>1. /\ reg.creating \in Nat /\ reg.resetting \in Nat /\ reg.running \in Nat
        /\ reg.alive \in Nat
    BY <1>3 DEF Registered, Pools
  <2> QED BY <1>2, <1>4, <1>5, <2>1, PoolsByCounters
<1>7. /\ p \in Pools /\ Counts(p) = C!Replenish(Counts(reg), keep, cancel)
      /\ p.waiting = reg.waiting
  <2>1. p = Replenish(reg, keep, cancel)
    OBVIOUS
  <2> QED BY ONLY <1>6, <2>1, keep \in BOOLEAN, cancel \in BOOLEAN, ReplenishCounts, ZenonT(60)
<1>8. Within(p.idle, reg.idle)
  BY <1>2, ReplenishFacts
<1>9. Counts(reg) = AbstractPool!Register(Counts(pool), kind, always)
  BY <1>1, CountsRegistered, SameSteps
<1>10. Counts(p) = AbstractPool!Replenish(
           AbstractPool!Register(Counts(pool), kind, always), keep, cancel)
  BY <1>7, <1>9, SameReplenish
<1> QED BY <1>2, <1>4, <1>7, <1>8, <1>10

LEMMA TakeOrWaitSimulated ==
    ASSUME Inv, CountInv, SimpleInv, RunInv, NEW s \in Suites, HasRoom(s),
           NEW t \in Tests, t = Children[s][started[s] + 1], phase[t] = "queued", TakeOrWait(t)
    PROVE  Simulated
<1> PICK kind : kind = Kind(t)
  OBVIOUS
<1> PICK always \in BOOLEAN : always <=> t \in RunAlways
  OBVIOUS
<1> PICK c : c = Counts(pool)
  OBVIOUS
<1> PICK no \in BOOLEAN : no = FALSE
  OBVIOUS
<1>1. /\ t \in PoolTests /\ MayStart(t) /\ ~cancelled /\ keepStarting \in BOOLEAN
      /\ pool \in Pools /\ kind \in C!Kinds
  BY KindType DEF TakeOrWait, MayStart, Inv, Shape, CountInv, Tallied
<1>2. /\ c.closed = pool.closed /\ c.running = pool.running /\ c.waiting = pool.waiting
      /\ c.upcoming = pool.upcoming /\ c.upcomingAlways = pool.upcomingAlways
  BY <1>1, CountsFacts
<1> DEFINE Guards ==
        /\ ~c.closed
        /\ AbstractPool!MayStart(always)
        /\ c.running + AbstractPool!Total(c.waiting) < MaxConcurrency
        /\ IF always THEN c.upcomingAlways[kind] > 0
                     ELSE c.upcoming[kind] > c.upcomingAlways[kind]
<1>3. Guards
  <2>1. ~c.closed
    BY <1>2, OpenForTest
  <2>2. AbstractPool!MayStart(always)
    BY <1>1 DEF MayStart, AbstractPool!MayStart
  <2>3. c.running + AbstractPool!Total(c.waiting) < MaxConcurrency
    BY <1>2, RoomForTest DEF AbstractPool!Total, C!Total
  <2>4. IF always THEN c.upcomingAlways[kind] > 0
                  ELSE c.upcoming[kind] > c.upcomingAlways[kind]
    BY <1>1, <1>2, TestUpcoming
  <2> QED BY <2>1, <2>2, <2>3, <2>4
<1> HIDE DEF Guards
<1> DEFINE registered(cancel) ==
        AbstractPool!Replenish(AbstractPool!Register(c, kind, always), keepStarting, cancel)
<1>4. kind \in AbstractPool!Kinds
  BY <1>1 DEF AbstractPool!Kinds, C!Kinds
<1>5. ASSUME TakeFrom(t, Replenish(Register(t), keepStarting, no))
      PROVE  \/ /\ AbstractPool!Takes(registered(no), kind) = {}
                /\ Counts(pool') = registered(no) /\ UNCHANGED <<keepStarting, cancelled>>
             \/ \E sort \in AbstractPool!Takes(registered(no), kind) :
                   AbstractPool!ServeFrom(registered(no), kind, sort)
  <2> PICK keep \in BOOLEAN : keep = keepStarting
    BY <1>1
  <2> PICK p : p = Replenish(Register(t), keep, no)
    OBVIOUS
  <2> PICK d : d = Counts(p)
    OBVIOUS
  <2>1. /\ p \in Pools /\ Within(p.idle, pool.idle) /\ p.waiting[kind] > 0
        /\ d = registered(no)
    BY <1>1, RegisteredCounts
  <2>2. TakeFrom(t, p)
    BY <1>5
  <2>3. \/ /\ C!Takes(d, kind) = {}
           /\ pool' = p /\ UNCHANGED <<keepStarting, cancelled>>
        \/ \E sort \in C!Takes(d, kind) : AbstractPool!ServeFrom(d, kind, sort)
    BY <1>1, <2>1, <2>2, TakeFromServes
  <2>4. C!Takes(d, kind) = AbstractPool!Takes(d, kind)
    BY SameSteps
  <2> HIDE DEF registered
  <2> QED BY <2>1, <2>3, <2>4
<1>6. ASSUME NEW cancel \in BOOLEAN,
             pool' = GiveUp(Replenish(Register(t), keepStarting, cancel), t)
      PROVE  Counts(pool') = AbstractPool!GiveUp(registered(cancel), kind)
  <2> PICK keep \in BOOLEAN : keep = keepStarting
    BY <1>1
  <2> PICK p : p = Replenish(Register(t), keep, cancel)
    OBVIOUS
  <2> PICK d : d = Counts(p)
    OBVIOUS
  <2>1. p \in Pools /\ d = registered(cancel)
    BY <1>1, RegisteredCounts
  <2>2. Counts(GiveUp(p, t)) = C!GiveUp(d, Kind(t))
    <3>1. p \in PoolShape
      BY <2>1, PoolsShape
    <3>2. \A u : Counts(GiveUp(p, u)) = C!GiveUp(Counts(p), Kind(u))
      BY ONLY <3>1, CountsKept
    <3> QED BY <3>2
  <2>3. C!GiveUp(d, kind) = AbstractPool!GiveUp(d, kind)
    BY SameSteps
  <2> HIDE DEF registered
  <2> QED BY <1>6, <2>1, <2>2, <2>3
<1>7. \/ TakeFrom(t, Replenish(Register(t), keepStarting, no))
      \/ /\ \E cancel \in BOOLEAN :
               pool' = GiveUp(Replenish(Register(t), keepStarting, cancel), t)
         /\ cancelled' = TRUE /\ UNCHANGED keepStarting
  BY DEF TakeOrWait, Update, NotStarted, StopOn
<1>8. \/ /\ AbstractPool!Takes(registered(no), kind) = {}
         /\ Counts(pool') = registered(no) /\ UNCHANGED <<keepStarting, cancelled>>
      \/ \E sort \in AbstractPool!Takes(registered(no), kind) :
             AbstractPool!ServeFrom(registered(no), kind, sort)
      \/ /\ \E cancel \in BOOLEAN :
               Counts(pool') = AbstractPool!GiveUp(registered(cancel), kind)
         /\ cancelled' = TRUE /\ UNCHANGED keepStarting
  <2> HIDE DEF registered
  <2> QED BY <1>5, <1>6, <1>7
<1>9. AbstractPool!Take(kind, always)
  <2>1. Counts(pool)' = Counts(pool')
    OBVIOUS
  <2>2. no = FALSE
    OBVIOUS
  <2> QED BY <1>3, <1>8, <2>1, <2>2 DEF Guards, AbstractPool!Take
<1> QED BY <1>4, <1>9 DEF Simulated, AbstractPool!Next

\* A test in a phase is among those counted in it.
LEMMA CountedTest ==
    ASSUME NEW T \in SUBSET Tests, NEW t \in T, NEW x, phase[t] = x
    PROVE  CountTests(phase, T, {x}) \in Nat /\ CountTests(phase, T, {x}) > 0
<1> PICK S : S = {u \in T : phase[u] \in {x}}
  OBVIOUS
<1>1. IsFiniteSet(S)
  BY FS_Subset, TestsAssumption
<1>2. t \in S
  OBVIOUS
<1>3. Cardinality(S) \in Nat /\ Cardinality(S) # 0
  BY <1>1, <1>2, FS_CardinalityType, FS_EmptySet
<1> QED BY <1>3 DEF CountTests

LEMMA StopsWaitingSimulated ==
    ASSUME Inv, CountInv, NEW t \in Tests, StopsWaiting(t)
    PROVE  Simulated
<1> PICK kind : kind = Kind(t)
  OBVIOUS
<1> PICK c : c = Counts(pool)
  OBVIOUS
<1>1. phase[t] = "waiting" /\ t \in PoolTests
  <2>1. phase[t] = "waiting" /\ TestPlaced(t, phase[t])
    BY DEF StopsWaiting, IsWoken, CountInv, TestsPlaced
  <2> QED BY <2>1 DEF TestPlaced
<1>2. pool \in Pools /\ kind \in C!Kinds /\ t \in PoolTestsOf(kind)
  BY <1>1, KindType, TestSets DEF CountInv, Tallied
<1>3. c.waiting = pool.waiting
  BY <1>2, CountsFacts
<1>4. pool.waiting[kind] > 0
  <2>1. pool.waiting[kind] = CountTests(phase, PoolTestsOf(kind), {"waiting"})
    BY <1>2 DEF CountInv, Tallied
  <2>2. CountTests(phase, PoolTestsOf(kind), {"waiting"}) > 0
    BY <1>1, <1>2, CountedTest, TestSets
  <2> QED BY <2>1, <2>2
<1>5. kind \in AbstractPool!Kinds
  BY <1>2 DEF AbstractPool!Kinds, C!Kinds
<1>6. CASE MayStart(t) /\ TakeFrom(t, pool)
  <2>1. ~cancelled
    BY <1>6 DEF MayStart
  <2>2. \/ /\ C!Takes(c, kind) = {}
           /\ pool' = pool /\ UNCHANGED <<keepStarting, cancelled>>
        \/ \E sort \in C!Takes(c, kind) : AbstractPool!ServeFrom(c, kind, sort)
    <3>1. Within(pool.idle, pool.idle) /\ TakeFrom(t, pool)
      BY <1>6, WithinItself
    <3> QED BY <1>1, <1>2, <1>4, <2>1, <3>1, TakeFromServes
  <2>3. C!Takes(c, kind) = AbstractPool!Takes(c, kind)
    BY SameSteps
  <2>4. CASE pool' = pool /\ UNCHANGED <<keepStarting, cancelled>>
    BY <2>4, AbstractStutter
  <2>5. CASE \E sort \in AbstractPool!Takes(c, kind) : AbstractPool!ServeFrom(c, kind, sort)
    <3>1. AbstractPool!WaitEnds(kind)
      BY <1>3, <1>4, <2>1, <2>5 DEF AbstractPool!WaitEnds
    <3> QED BY <1>5, <3>1 DEF Simulated, AbstractPool!Next
  <2> QED BY <2>2, <2>3, <2>4, <2>5
<1>7. CASE ~MayStart(t) /\ pool' = GiveUp(pool, t) /\ NotStarted(t) /\ UNCHANGED cancelled
  <2>1. keepStarting' = keepStarting /\ cancelled' = cancelled
    BY <1>7 DEF NotStarted, StopOn
  <2>2. cancelled \/ ~keepStarting
    BY <1>7 DEF MayStart
  <2>3. Counts(GiveUp(pool, t)) = AbstractPool!GiveUp(c, kind)
    <3>1. pool \in PoolShape
      BY <1>2, PoolsShape
    <3>2. \A u : Counts(GiveUp(pool, u)) = C!GiveUp(Counts(pool), Kind(u))
      BY ONLY <3>1, CountsKept
    <3> QED BY <3>2, SameSteps
  <2>4. Counts(pool)' = AbstractPool!GiveUp(c, kind)
    BY <1>7, <2>3
  <2>5. AbstractPool!StopsWaiting(kind)
    BY <1>3, <1>4, <2>1, <2>2, <2>4 DEF AbstractPool!StopsWaiting
  <2> QED BY <1>5, <2>5 DEF Simulated, AbstractPool!Next
<1> QED BY <1>6, <1>7 DEF StopsWaiting

\* A pool session's test finished: the session quits, or is claimed for a reset.
LEMMA FinishedSimulated ==
    ASSUME Inv, CountInv, NEW t \in PoolTests, phase[t] = "running",
           keepStarting' \in {keepStarting, FALSE}, cancelled' = cancelled,
           NEW p, p = [pool EXCEPT !.running = @ - 1],
           \/ pool' = p
           \/ /\ C!WantsReset(Counts(p), keepStarting', cancelled)
              /\ pool' = [p EXCEPT !.resetting = @ + 1]
    PROVE  Simulated
<1> PICK c : c = Counts(pool)
  OBVIOUS
<1> PICK d : d = Counts(p)
  OBVIOUS
<1>1. pool \in Pools /\ pool \in PoolShape
  BY PoolsShape DEF CountInv, Tallied
<1>2. c.running = pool.running
  BY <1>1, CountsFacts
<1>3. pool.running > 0
  <2>1. pool.running = CountTests(phase, PoolTests, {"running"})
    BY DEF CountInv, Tallied
  <2>2. CountTests(phase, PoolTests, {"running"}) > 0
    BY CountedTest, TestSets
  <2> QED BY <2>1, <2>2
<1>4. d = AbstractPool!Finished(c)
  <2>1. d = C!Finished(c)
    BY ONLY <1>1, p = [pool EXCEPT !.running = @ - 1], c = Counts(pool), d = Counts(p), CountsKept
  <2> QED BY <2>1, SameSteps
<1>5. \/ Counts(pool') = d
      \/ /\ AbstractPool!WantsReset(d, keepStarting', cancelled)
         /\ Counts(pool') = AbstractPool!Claimed(d)
  <2>1. CASE pool' = p
    BY <2>1
  <2>2. CASE /\ C!WantsReset(Counts(p), keepStarting', cancelled)
             /\ pool' = [p EXCEPT !.resetting = @ + 1]
    <3>1. p \in PoolShape
      BY <1>1, OneRunsLess
    <3>2. Counts([p EXCEPT !.resetting = @ + 1]) = C!Claimed(Counts(p))
      BY ONLY <3>1, CountsKept
    <3>3. C!Claimed(d) = AbstractPool!Claimed(d)
      BY SameSteps
    <3>4. AbstractPool!WantsReset(d, keepStarting', cancelled)
      BY <2>2, SameReset
    <3> QED BY <2>2, <3>2, <3>3, <3>4
  <2> QED BY <2>1, <2>2
<1>6. AbstractPool!TestFinished
  <2>1. Counts(pool)' = Counts(pool')
    OBVIOUS
  <2> QED BY <1>2, <1>3, <1>4, <1>5, <2>1 DEF AbstractPool!TestFinished, AbstractPool!StopsRun
<1> QED BY <1>6 DEF Simulated, AbstractPool!Next

LEMMA IsCancelledSimulated ==
    ASSUME Inv, CountInv, NEW t \in Tests, IsCancelled(t)
    PROVE  Simulated
<1>1. /\ cancelled' = cancelled /\ phase[t] = "running"
      /\ pool' = IF t \in PoolTests THEN [pool EXCEPT !.running = @ - 1] ELSE pool
      /\ keepStarting' \in {keepStarting, FALSE}
  <2>1. StopOn(FALSE, t)
    BY DEF IsCancelled
  <2> QED BY <2>1, StopOnStops DEF IsCancelled, LostWorker
<1>2. CASE t \in PoolTests
  <2> PICK p : p = [pool EXCEPT !.running = @ - 1]
    OBVIOUS
  <2> QED BY <1>1, <1>2, FinishedSimulated
<1>3. CASE t \notin PoolTests
  BY <1>1, <1>3, AbstractStop
<1> QED BY <1>2, <1>3

\* A session in a state is among those counted in it.
LEMMA CountedSession ==
    ASSUME workers \in Seq(WorkerShape), NEW w \in DOMAIN workers, Pooled(w), NEW X,
           workers[w].state \in X
    PROVE  CountSessions(workers, X) \in Nat /\ CountSessions(workers, X) > 0
<1> PICK S : S = SessionsIn(workers, X)
  OBVIOUS
<1>1. IsFiniteSet(S)
  BY SessionsFinite
<1>2. w \in S
  BY DEF SessionsIn, Pooled
<1>3. Cardinality(S) \in Nat /\ Cardinality(S) # 0
  BY <1>1, <1>2, FS_CardinalityType, FS_EmptySet
<1> QED BY <1>3 DEF CountSessions

LEMMA AfterBodySimulated ==
    ASSUME Inv, CountInv, NEW w \in DOMAIN workers, workers[w].state \in InTest,
           keepStarting' \in {keepStarting, FALSE}, NEW outcome, AfterBody(w, outcome)
    PROVE  Simulated
<1> PICK t : t = workers[w].test
  OBVIOUS
<1>1. workers \in Seq(WorkerShape) /\ WorkerConsistent(w) /\ SessionPlaced(workers[w])
  BY DEF Inv, Shape, WorkersConsistent, CountInv, SessionsPlaced
<1>2. t # None /\ phase[t] = "running"
  BY <1>1 DEF WorkerConsistent, InTest
<1>3. cancelled' = cancelled
  BY DEF AfterBody
<1>4. CASE Pooled(w)
  <2>1. t \in PoolTests
    BY <1>1, <1>2, <1>4 DEF SessionPlaced, Pooled
  <2> PICK p : p = [pool EXCEPT !.running = @ - 1]
    OBVIOUS
  <2>2. \/ pool' = p
        \/ /\ C!WantsReset(Counts(p), keepStarting', cancelled)
           /\ pool' = [p EXCEPT !.resetting = @ + 1]
    BY <1>4 DEF AfterBody
  <2> QED BY <1>2, <1>3, <2>1, <2>2, FinishedSimulated
<1>5. CASE ~Pooled(w)
  <2>1. pool' = pool
    BY <1>5 DEF AfterBody, MayReuse
  <2> QED BY <1>3, <2>1, AbstractStop
<1> QED BY <1>4, <1>5

LEMMA BodySimulated ==
    ASSUME Inv, CountInv, NEW w \in DOMAIN workers,
           BodyEnds(w) \/ TimesOut(w) \/ PagesChecked(w)
    PROVE  Simulated
<1>1. CASE BodyEnds(w)
  <2>1. PICK outcome : /\ workers[w].state = "running"
                       /\ StopOn(outcome # "passed", workers[w].test)
                       /\ AfterBody(w, outcome)
    BY <1>1 DEF BodyEnds
  <2>2. keepStarting' \in {keepStarting, FALSE} /\ workers[w].state \in InTest
    BY <2>1, StopOnStops DEF InTest
  <2> QED BY <2>1, <2>2, AfterBodySimulated
<1>2. CASE TimesOut(w)
  <2>1. pool' = pool /\ cancelled' = cancelled /\ StopOn(TRUE, workers[w].test)
    BY <1>2 DEF TimesOut
  <2> QED BY <2>1, StopOnStops, AbstractStop
<1>3. CASE PagesChecked(w)
  <2>1. /\ workers[w].state \in InTest /\ keepStarting' \in {keepStarting, FALSE}
        /\ AfterBody(w, "timedOut")
    BY <1>3 DEF PagesChecked, InTest
  <2> QED BY <2>1, AfterBodySimulated
<1> QED BY <1>1, <1>2, <1>3

\* What the abstract pool does not see of a session.
LEMMA UntoldSimulated ==
    ASSUME NEW w, Release(w) \/ Dropped(w)
    PROVE  Simulated
<1>1. pool' = pool /\ keepStarting' = keepStarting /\ cancelled' = cancelled
  BY DEF Release, Dropped
<1> QED BY <1>1, AbstractStutter

\* deliver, after which one session less is being created.
LEMMA DeliveredCounts ==
    ASSUME NEW p \in PoolShape, NEW w \in Nat, NEW sort \in C!Sorts,
           NEW q, q = Offer([p EXCEPT !.creating = @ - 1], w, sort)
    PROVE  q \in PoolShape /\ Counts(q) = C!Delivered(Counts(p), sort)
<1> PICK r : r = [p EXCEPT !.creating = @ - 1]
  OBVIOUS
<1>1. r \in PoolShape /\ Counts(r) = [Counts(p) EXCEPT !.creating = @ - 1]
  <2>1. r \in PoolShape
    BY OneLess
  <2>2. Counts([p EXCEPT !.creating = @ - 1]) = [Counts(p) EXCEPT !.creating = @ - 1]
    BY ONLY p \in PoolShape, CountsKept
  <2> QED BY <2>1, <2>2
<1>2. q = Offer(r, w, sort)
  OBVIOUS
<1>3. Counts(q) = C!Offer(Counts(r), sort) /\ q \in PoolShape
  BY ONLY <1>1, <1>2, w \in Nat, sort \in C!Sorts, CountsOffered, OfferShape
<1> QED BY <1>1, <1>3 DEF C!Delivered

LEMMA CreatedSimulated ==
    ASSUME Inv, CountInv, NEW w \in DOMAIN workers, Created(w)
    PROVE  Simulated
<1> PICK c : c = Counts(pool)
  OBVIOUS
<1> PICK sort \in C!Sorts : sort = "created"
  BY DEF C!Sorts
<1>1. /\ workers \in Seq(WorkerShape) /\ pool \in PoolShape /\ pool \in Pools /\ w \in Nat
      /\ keepStarting' = keepStarting /\ cancelled' = cancelled
  <2>1. workers \in Seq(WorkerShape) /\ pool \in Pools
    BY DEF Inv, Shape, CountInv, Tallied
  <2> QED BY <2>1, PoolsShape DEF Created
<1>2. CASE Pooled(w)
  <2>1. pool' = Offer([pool EXCEPT !.creating = @ - 1], w, sort)
    BY <1>2 DEF Created
  <2>2. Counts(pool') = C!Delivered(c, sort)
    BY <1>1, <2>1, DeliveredCounts
  <2>3. Counts(pool)' = AbstractPool!Delivered(c, "created")
    BY <2>2, SameSteps
  <2>4. c.creating > 0
    <3>1. /\ pool.creating = CountSessions(workers, InCreation) + 0
          /\ c.creating = pool.creating
      BY <1>1, CountsFacts DEF CountInv, Tallied
    <3>2. workers[w].state \in InCreation
      BY DEF Created, InCreation
    <3>3. CountSessions(workers, InCreation) \in Nat /\ CountSessions(workers, InCreation) > 0
      BY <1>1, <1>2, <3>2, CountedSession
    <3> QED BY <3>1, <3>3
  <2>5. AbstractPool!Deliver
    BY <1>1, <2>3, <2>4 DEF AbstractPool!Deliver
  <2> QED BY <2>5 DEF Simulated, AbstractPool!Next
<1>3. CASE ~Pooled(w)
  BY <1>1, <1>3, AbstractStutter DEF Created
<1> QED BY <1>2, <1>3

\* The counters that count a pool session are positive, whose worker may lower them.
LEMMA CountedInPool ==
    ASSUME Inv, CountInv, NEW w \in DOMAIN workers, Pooled(w)
    PROVE  /\ workers[w].state # "ended" => pool.alive > 0
           /\ workers[w].state \in InCreation => pool.creating > 0
           /\ workers[w].state = "resetting" => pool.resetting > 0
<1>1. workers \in Seq(WorkerShape) /\ pool \in Pools
  BY DEF Inv, Shape, CountInv, Tallied
<1>2. /\ pool.alive = CountSessions(workers, Open) + 0
      /\ pool.creating = CountSessions(workers, InCreation) + 0
      /\ pool.resetting >= CountSessions(workers, InReset)
      /\ pool.alive \in Nat /\ pool.creating \in Nat /\ pool.resetting \in Nat
  BY <1>1 DEF CountInv, Tallied, Pools
<1>3. \A X : workers[w].state \in X =>
          CountSessions(workers, X) \in Nat /\ CountSessions(workers, X) > 0
  BY <1>1, CountedSession
<1>4. ASSUME workers[w].state # "ended" PROVE pool.alive > 0
  <2>1. workers[w] \in WorkerShape
    BY <1>1, ElementOfSeq
  <2>2. workers[w].state \in States
    BY <2>1 DEF WorkerShape
  <2>3. workers[w].state \in Open
    BY <1>4, <2>2 DEF Open
  <2> QED BY <1>2, <1>3, <2>3
<1>5. ASSUME workers[w].state \in InCreation PROVE pool.creating > 0
  BY <1>2, <1>3, <1>5
<1>6. ASSUME workers[w].state = "resetting" PROVE pool.resetting > 0
  <2>1. workers[w].state \in InReset
    BY <1>6 DEF InReset
  <2> QED BY <1>2, <1>3, <2>1
<1> QED BY <1>4, <1>5, <1>6

\* session_ended.
LEMMA EndedCounts ==
    ASSUME NEW p \in Pools, p.alive > 0, NEW keep \in BOOLEAN, NEW cancel \in BOOLEAN
    PROVE  Counts(Ended(p, keep, cancel)) = AbstractPool!Ended(Counts(p), keep, cancel)
<1> PICK q : q = [p EXCEPT !.alive = @ - 1]
  OBVIOUS
<1>1. q \in Pools
  BY DEF Pools
<1>2. Counts(q) = C!Gone(Counts(p))
  <2>1. p \in PoolShape
    BY PoolsShape
  <2>2. Counts([p EXCEPT !.alive = @ - 1]) = C!Gone(Counts(p))
    BY ONLY <2>1, CountsKept
  <2> QED BY <2>2
<1>3. Ended(p, keep, cancel) = Replenish(q, keep, cancel)
  BY DEF Ended
<1>4. Counts(Replenish(q, keep, cancel)) = C!Replenish(Counts(q), keep, cancel)
  BY ONLY <1>1, keep \in BOOLEAN, cancel \in BOOLEAN, ReplenishCounts
<1>5. C!Ended(Counts(p), keep, cancel) = C!Replenish(Counts(q), keep, cancel)
  BY <1>2 DEF C!Ended
<1> QED BY <1>3, <1>4, <1>5, SameEnded

LEMMA CreationFailsSimulated ==
    ASSUME Inv, CountInv, NEW w \in DOMAIN workers, CreationFails(w)
    PROVE  Simulated
<1> PICK c : c = Counts(pool)
  OBVIOUS
<1> PICK sort \in C!Sorts : sort = "failed"
  BY DEF C!Sorts
<1>1. /\ workers \in Seq(WorkerShape) /\ pool \in PoolShape /\ pool \in Pools /\ w \in Nat
      /\ keepStarting' = keepStarting /\ cancelled' = cancelled
      /\ keepStarting \in BOOLEAN /\ cancelled \in BOOLEAN
      /\ workers[w].state = "creating"
  <2>1. workers \in Seq(WorkerShape) /\ pool \in Pools
    BY DEF Inv, Shape, CountInv, Tallied
  <2> QED BY <2>1, PoolsShape DEF CreationFails, Inv, Shape
<1>2. CASE Pooled(w)
  <2> PICK p : p = [pool EXCEPT !.creating = @ - 1]
    OBVIOUS
  <2> PICK o : o = Offer(p, w, sort)
    OBVIOUS
  <2>1. pool' = Ended(o, keepStarting, cancelled)
    BY <1>2, Zenon DEF CreationFails, Update
  <2>2. pool.creating > 0 /\ pool.alive > 0 /\ c.creating = pool.creating
    BY <1>1, <1>2, CountedInPool, CountsFacts DEF InCreation
  <2>3. o \in PoolShape /\ Counts(o) = C!Delivered(c, sort)
    BY <1>1, DeliveredCounts
  <2>4. p \in Pools /\ p.alive = pool.alive
    BY <1>1, <2>2 DEF Pools
  <2>5. o \in Pools /\ o.alive > 0
    <3>1. p \in PoolShape
      BY <2>4, PoolsShape
    <3>2. /\ o.creating = p.creating /\ o.resetting = p.resetting /\ o.running = p.running
          /\ o.alive = p.alive /\ o.waiting = p.waiting /\ o.upcoming = p.upcoming
          /\ o.upcomingAlways = p.upcomingAlways
      <4>1. w \in Nat /\ o = Offer(p, w, sort)
        BY <1>1
      <4>2. sort \in C!Sorts
        OBVIOUS
      <4> QED BY ONLY <3>1, <4>1, <4>2, OfferFacts
    <3>3. /\ p.creating \in Nat /\ p.resetting \in Nat /\ p.running \in Nat /\ p.alive \in Nat
          /\ \A k \in C!Kinds : p.waiting[k] \in Nat
          /\ p.upcoming \in C!Tally /\ p.upcomingAlways \in C!Tally
      BY <2>4 DEF Pools, C!Tally
    <3>4. o \in Pools
      BY <2>3, <3>2, <3>3, PoolsByCounters
    <3> QED BY <2>2, <2>4, <3>2, <3>4
  <2>6. Counts(pool') = AbstractPool!Ended(C!Delivered(c, sort), keepStarting, cancelled)
    <3>1. Counts(Ended(o, keepStarting, cancelled))
              = AbstractPool!Ended(Counts(o), keepStarting, cancelled)
      BY ONLY <1>1, <2>5, EndedCounts
    <3> QED BY <2>1, <2>3, <3>1
  <2>7. C!Delivered(c, sort) = AbstractPool!Delivered(c, sort)
    BY SameSteps
  <2>8. Counts(pool)' = AbstractPool!Ended(AbstractPool!Delivered(c, "failed"),
                                           keepStarting, cancelled)
    BY <2>6, <2>7
  <2>9. AbstractPool!CreationFails
    BY <1>1, <2>2, <2>8 DEF AbstractPool!CreationFails
  <2> QED BY <2>9 DEF Simulated, AbstractPool!Next
<1>3. CASE ~Pooled(w)
  <2>1. pool' = pool
    BY <1>3 DEF CreationFails
  <2> QED BY <1>1, <2>1, AbstractStutter
<1> QED BY <1>2, <1>3

\* A session that is being reset is of the pool, and counted.
LEMMA ResetFacts ==
    ASSUME Inv, CountInv, NEW w \in DOMAIN workers, workers[w].state = "resetting"
    PROVE  /\ pool \in Pools /\ pool \in PoolShape /\ w \in Nat /\ pool.resetting > 0
           /\ keepStarting \in BOOLEAN /\ cancelled \in BOOLEAN
<1>1. workers \in Seq(WorkerShape) /\ pool \in Pools /\ WorkerConsistent(w)
  BY DEF Inv, Shape, WorkersConsistent, CountInv, Tallied
<1>2. Pooled(w)
  BY <1>1 DEF WorkerConsistent, Reusable
<1> QED BY <1>1, <1>2, CountedInPool, PoolsShape DEF Inv, Shape

LEMMA ResetDoneSimulated ==
    ASSUME Inv, CountInv, NEW w \in DOMAIN workers, ResetDone(w)
    PROVE  Simulated
<1> PICK c : c = Counts(pool)
  OBVIOUS
<1> PICK sort \in C!Sorts : sort = "reset"
  BY DEF C!Sorts
<1> PICK done : done = [pool EXCEPT !.resetting = @ - 1]
  OBVIOUS
<1> PICK d : d = Counts(done)
  OBVIOUS
<1>1. /\ keepStarting' = keepStarting /\ cancelled' = cancelled
      /\ pool' = IF C!KeepsReset(d, keepStarting, cancelled) THEN Offer(done, w, sort) ELSE done
  BY Zenon DEF ResetDone
<1>2. pool \in PoolShape /\ w \in Nat /\ pool.resetting > 0 /\ c.resetting = pool.resetting
  BY ResetFacts, CountsFacts DEF ResetDone
<1>3. done \in PoolShape
  BY <1>2, OneLess
<1>4. d = C!ResetOver(c)
  <2>1. Counts([pool EXCEPT !.resetting = @ - 1]) = C!ResetOver(Counts(pool))
    BY ONLY <1>2, CountsKept
  <2> QED BY <2>1
<1>5. Counts(Offer(done, w, sort)) = C!Offer(d, sort)
  <2>1. sort \in C!Sorts
    OBVIOUS
  <2>2. Counts(Offer(done, w, sort)) = C!Offer(Counts(done), sort)
    BY ONLY <1>2, <1>3, <2>1, CountsOffered
  <2> QED BY <2>2
<1>6. Counts(pool') = C!DeliverReset(c, keepStarting, cancelled)
  <2>1. C!DeliverReset(c, keepStarting, cancelled)
            = IF C!KeepsReset(d, keepStarting, cancelled) THEN C!Offer(d, sort) ELSE d
    BY <1>4 DEF C!DeliverReset
  <2> QED BY <1>1, <1>5, <2>1
<1>7. Counts(pool)' = AbstractPool!DeliverReset(c, keepStarting, cancelled)
  BY <1>6, SameReset
<1>8. AbstractPool!ResetDone
  BY <1>1, <1>2, <1>7 DEF AbstractPool!ResetDone
<1> QED BY <1>8 DEF Simulated, AbstractPool!Next

LEMMA ResetFailsSimulated ==
    ASSUME Inv, CountInv, NEW w \in DOMAIN workers, ResetFails(w)
    PROVE  Simulated
<1> PICK c : c = Counts(pool)
  OBVIOUS
<1> PICK q : q = [pool EXCEPT !.resetting = @ - 1]
  OBVIOUS
<1>1. /\ keepStarting' = keepStarting /\ cancelled' = cancelled
      /\ pool' = Replenish(q, keepStarting, cancelled)
  BY Zenon DEF ResetFails, Update, executor
<1>2. /\ pool \in PoolShape /\ pool \in Pools /\ pool.resetting > 0
      /\ keepStarting \in BOOLEAN /\ cancelled \in BOOLEAN
  BY ResetFacts DEF ResetFails
<1>3. c.resetting = pool.resetting
  BY <1>2, CountsFacts
<1>4. q \in Pools
  BY <1>2 DEF Pools
<1>5. Counts(q) = AbstractPool!ResetOver(c)
  <2>1. Counts([pool EXCEPT !.resetting = @ - 1]) = C!ResetOver(Counts(pool))
    BY ONLY <1>2, CountsKept
  <2> QED BY <2>1, SameSteps
<1>6. Counts(Replenish(q, keepStarting, cancelled))
          = C!Replenish(Counts(q), keepStarting, cancelled)
  BY ONLY <1>2, <1>4, ReplenishCounts
<1>7. Counts(pool)' = AbstractPool!Replenish(AbstractPool!ResetOver(c), keepStarting, cancelled)
  BY <1>1, <1>5, <1>6, SameReplenish
<1>8. AbstractPool!ResetFails
  BY <1>1, <1>2, <1>3, <1>7 DEF AbstractPool!ResetFails
<1> QED BY <1>8 DEF Simulated, AbstractPool!Next

LEMMA QuitsSimulated ==
    ASSUME Inv, Inv', CountInv, NEW w \in DOMAIN workers, NEW ok, Quits(w, ok)
    PROVE  Simulated
<1> PICK c : c = Counts(pool)
  OBVIOUS
<1>1. PICK keep \in BOOLEAN : keep = keepStarting'
  BY StateShapes
<1>2. /\ keep \in BOOLEAN /\ cancelled' = cancelled /\ cancelled \in BOOLEAN
      /\ workers[w].state = "quitting"
      /\ workers \in Seq(WorkerShape) /\ pool \in Pools /\ pool \in PoolShape
  BY PoolsShape DEF Quits, Inv, Shape, CountInv, Tallied
<1>3. keepStarting' \in {keepStarting, FALSE}
  BY DEF Quits, StopOn
<1>4. CASE Pooled(w)
  <2>1. pool' = Ended(pool, keep, cancelled)
    BY <1>1, <1>4, Zenon DEF Quits, Update
  <2>2. pool.alive > 0
    BY <1>2, <1>4, CountedInPool
  <2>3. Counts(Ended(pool, keep, cancelled)) = AbstractPool!Ended(Counts(pool), keep, cancelled)
    BY ONLY <1>2, <2>2, EndedCounts
  <2>4. Counts(pool)' = AbstractPool!Ended(c, keepStarting', cancelled)
    BY <1>1, <2>1, <2>3
  <2>5. AbstractPool!Quitting(c) > 0
    BY <1>2, <1>4, SessionQuitting
  <2>6. AbstractPool!SessionEnded
    BY <1>2, <1>3, <2>4, <2>5 DEF AbstractPool!SessionEnded, AbstractPool!StopsRun
  <2> QED BY <2>6 DEF Simulated, AbstractPool!Next
<1>5. CASE ~Pooled(w)
  <2>1. pool' = pool
    BY <1>5 DEF Quits
  <2> QED BY <1>2, <1>3, <2>1, AbstractStop
<1> QED BY <1>4, <1>5

\* When the root is done, so is every test, in the next state too.
LEMMA RootDone == Inv /\ suite[Root] = "done" => \A t \in Tests : phase[t] = "done"
BY AllTestsDone

LEMMA NextRootDone ==
    Inv' /\ suite'[Root] = "done" => \A t \in Tests : phase'[t] = "done"
<1>1. (Inv /\ suite[Root] = "done" => \A t \in Tests : phase[t] = "done")'
  BY RootDone, PTL
<1> QED BY <1>1

LEMMA CountsShut ==
    ASSUME NEW p \in PoolShape, NEW q, q = [p EXCEPT !.closed = TRUE, !.idle = <<>>]
    PROVE  Counts(q) = C!Shut(Counts(p))
<1> PICK c : c = Counts(p)
  OBVIOUS
<1> PICK d : d = Counts(q)
  OBVIOUS
<1> PICK e : e = C!Shut(c)
  OBVIOUS
<1> PICK none : none = [sort \in C!Sorts |-> 0]
  OBVIOUS
<1>1. <<>> \in Queue /\ none \in [C!Sorts -> Int]
  BY DEF Queue
<1>2. /\ q \in PoolShape /\ q.idle = <<>> /\ q.creating = p.creating /\ q.resetting = p.resetting
      /\ q.running = p.running /\ q.alive = p.alive /\ q.waiting = p.waiting
      /\ q.upcoming = p.upcoming /\ q.upcomingAlways = p.upcomingAlways
  BY <1>1 DEF PoolShape
<1>3. q.closed
  BY DEF PoolShape
<1>4. /\ c \in CountShape /\ c.creating = p.creating /\ c.resetting = p.resetting
      /\ c.running = p.running /\ c.alive = p.alive /\ c.waiting = p.waiting
      /\ c.upcoming = p.upcoming /\ c.upcomingAlways = p.upcomingAlways
  BY CountsOf
<1>5. /\ d \in CountShape /\ d.idle = [sort \in C!Sorts |-> OfSort(q.idle, sort)]
      /\ d.creating = q.creating /\ d.resetting = q.resetting
      /\ d.running = q.running /\ d.alive = q.alive /\ d.waiting = q.waiting
      /\ d.upcoming = q.upcoming /\ d.upcomingAlways = q.upcomingAlways
  BY <1>2, CountsOf
<1>6. d.closed
  BY <1>2, <1>3, CountsOf
<1>7. e = [c EXCEPT !.closed = TRUE, !.idle = none]
  BY DEF C!Shut
<1>8. /\ e \in CountShape /\ e.idle = none /\ e.creating = c.creating /\ e.resetting = c.resetting
      /\ e.running = c.running /\ e.alive = c.alive /\ e.waiting = c.waiting
      /\ e.upcoming = c.upcoming /\ e.upcomingAlways = c.upcomingAlways
  BY <1>1, <1>4, <1>7 DEF CountShape
<1>9. e.closed
  BY <1>4, <1>7 DEF CountShape
<1>10. d.idle = none
  <2>1. ASSUME NEW sort \in C!Sorts PROVE OfSort(q.idle, sort) = 0
    <3>1. {i \in DOMAIN q.idle : q.idle[i].sort = sort} = {}
      BY <1>2
    <3> QED BY <3>1, FS_EmptySet DEF OfSort
  <2> QED BY <1>5, <2>1
<1>11. d.closed = e.closed
  <2>1. d.closed \in BOOLEAN /\ e.closed \in BOOLEAN
    BY <1>5, <1>8 DEF CountShape
  <2> QED BY <1>6, <1>9, <2>1
<1>12. d = e
  BY <1>2, <1>4, <1>5, <1>8, <1>10, <1>11, SameCounts
<1> QED BY <1>12

LEMMA FinishSuiteSimulated ==
    ASSUME Inv, Inv', CountInv, RunInv, NEW s \in Suites, FinishSuite(s)
    PROVE  Simulated
<1> PICK c : c = Counts(pool)
  OBVIOUS
<1>1. /\ keepStarting' = keepStarting /\ cancelled' = cancelled /\ phase' = phase
      /\ suite[s] = "running" /\ suite' = [suite EXCEPT ![s] = "done"]
      /\ suite \in [Suites -> {"unstarted", "running", "done"}]
      /\ pool \in Pools /\ pool \in PoolShape
  BY PoolsShape DEF FinishSuite, AllDone, Inv, Shape, CountInv, Tallied
<1>2. CASE s = Root
  <2>1. pool' = [pool EXCEPT !.closed = TRUE, !.idle = <<>>]
    BY <1>2 DEF FinishSuite
  <2>2. ~pool.closed
    BY <1>1, <1>2 DEF RunInv
  <2>3. \A t \in Tests : phase[t] = "done"
    BY <1>1, <1>2, NextRootDone
  <2>4. ASSUME NEW T \in SUBSET Tests, NEW x, x # "done" PROVE CountTests(phase, T, {x}) = 0
    <3>1. {u \in T : phase[u] \in {x}} = {}
      BY <2>3, <2>4
    <3> QED BY <3>1, FS_EmptySet DEF CountTests
  <2>5. pool.running = 0 /\ \A k \in C!Kinds : pool.waiting[k] = 0
    <3>1. /\ pool.running = CountTests(phase, PoolTests, {"running"})
          /\ \A k \in C!Kinds : pool.waiting[k] = CountTests(phase, PoolTestsOf(k), {"waiting"})
      BY DEF CountInv, Tallied
    <3> QED BY <2>4, <3>1, TestSets
  <2>6. /\ c.running = pool.running /\ c.waiting = pool.waiting
    BY <1>1, CountsFacts
  <2>7. c.closed <=> pool.closed
    BY <1>1, CountsFacts
  <2>8. c.running = 0 /\ AbstractPool!Total(c.waiting) = 0
    BY <2>5, <2>6 DEF AbstractPool!Total, C!Kinds
  <2>9. Counts(pool') = AbstractPool!Shut(c)
    BY <1>1, <2>1, CountsShut, SameSteps
  <2>10. AbstractPool!Close
    <3>1. Counts(pool)' = AbstractPool!Shut(c)
      BY <2>9
    <3> QED BY <1>1, <2>2, <2>7, <2>8, <3>1 DEF AbstractPool!Close
  <2> QED BY <2>10 DEF Simulated, AbstractPool!Next
<1>3. CASE s # Root
  <2>1. pool' = pool
    BY <1>3 DEF FinishSuite
  <2> QED BY <1>1, <2>1, AbstractStutter
<1> QED BY <1>2, <1>3

LEMMA StartChildSimulated ==
    ASSUME Inv, CountInv, SimpleInv, RunInv, NEW s \in Suites, StartChild(s)
    PROVE  Simulated
<1>1. PICK n : n = Children[s][started[s] + 1]
  OBVIOUS
<1>2. /\ HasRoom(s) /\ started' = [started EXCEPT ![s] = @ + 1]
      /\ \/ /\ n \in Suites
            /\ UNCHANGED <<phase, woken, sessions, keepStarting, cancelled, record, board>>
         \/ /\ n \in Tests
            /\ Skip(n) \/ FailUnplannable(n) \/ RequestDedicated(n) \/ TakeOrWait(n)
  BY <1>1 DEF StartChild
<1>3. n \in Tests => phase[n] = "queued"
  BY <1>1, <1>2, NextChild
<1>4. CASE n \in Tests /\ (Skip(n) \/ FailUnplannable(n) \/ RequestDedicated(n))
  BY <1>4, AloneSimulated
<1>5. CASE n \in Tests /\ TakeOrWait(n)
  BY <1>1, <1>2, <1>3, <1>5, TakeOrWaitSimulated
<1>6. CASE UNCHANGED <<phase, woken, sessions, keepStarting, cancelled, record, board>>
  BY <1>6, AbstractStutter DEF sessions
<1> QED BY <1>2, <1>4, <1>5, <1>6

LEMMA StepSimulated ==
    ASSUME Inv, Inv', CountInv, SimpleInv, RunInv, [Next]_vars
    PROVE  Simulated
<1>1. ASSUME NEW s \in Suites, StartChild(s) \/ FinishSuite(s)
      PROVE  Simulated
  BY <1>1, StartChildSimulated, FinishSuiteSimulated
<1>2. ASSUME NEW t \in Tests, StopsWaiting(t) \/ GetsDedicated(t) \/ IsCancelled(t)
      PROVE  Simulated
  BY <1>2, StopsWaitingSimulated, AloneSimulated, IsCancelledSimulated
<1>3. ASSUME NEW w \in DOMAIN workers,
             Created(w) \/ CreationFails(w) \/ Release(w) \/ Dropped(w)
      PROVE  Simulated
  BY <1>3, CreatedSimulated, CreationFailsSimulated, UntoldSimulated
<1>4. ASSUME NEW w \in DOMAIN workers,
             BodyEnds(w) \/ TimesOut(w) \/ PagesChecked(w) \/ ResetDone(w) \/ ResetFails(w)
      PROVE  Simulated
  BY <1>4, BodySimulated, ResetDoneSimulated, ResetFailsSimulated
<1>5. ASSUME NEW w \in DOMAIN workers, NEW ok, Quits(w, ok)
      PROVE  Simulated
  BY <1>5, QuitsSimulated
<1>6. CASE Spawn
  BY <1>6, AbstractStutter DEF Spawn
<1>7. CASE Cancel
  <2>1. cancelled' = TRUE /\ pool' = pool /\ keepStarting' = keepStarting
    BY <1>7 DEF Cancel, sessions
  <2>2. Counts(pool)' = Counts(pool)
    BY <2>1
  <2>3. AbstractPool!Cancel
    BY <2>1, <2>2 DEF AbstractPool!Cancel
  <2> QED BY <2>3 DEF Simulated, AbstractPool!Next
<1>8. CASE UNCHANGED vars
  BY <1>8, AbstractStutter DEF vars, sessions
<1> QED BY <1>1, <1>2, <1>3, <1>4, <1>5, <1>6, <1>7, <1>8 DEF Next, Progress, Terminating

LEMMA InitSimulated ==
    ASSUME Init
    PROVE  AbstractPool!Init
<1> PICK p : p = NewPool
  OBVIOUS
<1> PICK c : c = Counts(p)
  OBVIOUS
<1> PICK keep \in BOOLEAN : keep = TRUE
  OBVIOUS
<1> PICK cancel \in BOOLEAN : cancel = FALSE
  OBVIOUS
<1> PICK d : d = AbstractPool!NewPool
  OBVIOUS
<1>1. pool = Replenish(p, keep, cancel) /\ keepStarting = TRUE /\ cancelled = cancel
  BY Zenon DEF Init
<1>2. p \in Pools /\ keep \in BOOLEAN /\ cancel \in BOOLEAN
  BY NewPoolCounts
<1>3. Counts(Replenish(p, keep, cancel)) = C!Replenish(Counts(p), keep, cancel)
  BY ONLY <1>2, ReplenishCounts
<1>4. c = d
  <2> PICK waiting : waiting = [k \in C!Kinds |-> 0]
    OBVIOUS
  <2> PICK none : none = [sort \in C!Sorts |-> 0]
    OBVIOUS
  <2>1. d = C!NewPool
    BY DEF AbstractPool!NewPool, C!NewPool, AbstractPool!Sorts, C!Sorts, AbstractPool!Kinds,
           C!Kinds
  <2>2. /\ Upcoming \in [C!Kinds -> Int] /\ UpcomingAlways \in [C!Kinds -> Int]
        /\ waiting \in [C!Kinds -> Int] /\ none \in [C!Sorts -> Int]
    <3>1. ASSUME NEW S \in SUBSET Tests PROVE Cardinality(S) \in Nat
      BY FS_Subset, FS_CardinalityType, TestsAssumption
    <3>2. ASSUME NEW k
          PROVE  /\ Cardinality(PoolTestsOf(k)) \in Nat
                 /\ Cardinality(PoolTestsOf(k) \intersect RunAlways) \in Nat
      BY <3>1, TestSets
    <3> QED BY <3>2 DEF Upcoming, UpcomingAlways, C!Kinds
  <2>3. /\ d \in CountShape /\ d.idle = none /\ d.creating = 0 /\ d.resetting = 0
        /\ d.running = 0 /\ d.alive = 0 /\ d.waiting = waiting
        /\ d.upcoming = Upcoming /\ d.upcomingAlways = UpcomingAlways
    BY <2>1, <2>2 DEF C!NewPool, CountShape
  <2>4. ~d.closed
    BY <2>1 DEF C!NewPool
  <2>5. p = [d EXCEPT !.idle = <<>>] /\ <<>> \in Queue
    BY <2>1 DEF NewPool, Queue
  <2>6. /\ p \in PoolShape /\ p.idle = <<>> /\ p.creating = 0 /\ p.resetting = 0
        /\ p.running = 0 /\ p.alive = 0 /\ p.waiting = waiting
        /\ p.upcoming = Upcoming /\ p.upcomingAlways = UpcomingAlways
    BY <2>3, <2>5 DEF CountShape, PoolShape
  <2>7. ~p.closed
    BY <2>3, <2>4, <2>5 DEF CountShape
  <2>8. /\ c \in CountShape /\ c.idle = [sort \in C!Sorts |-> OfSort(p.idle, sort)]
        /\ c.creating = p.creating /\ c.resetting = p.resetting
        /\ c.running = p.running /\ c.alive = p.alive /\ c.waiting = p.waiting
        /\ c.upcoming = p.upcoming /\ c.upcomingAlways = p.upcomingAlways
    BY <2>6, CountsOf
  <2>9. c.closed = d.closed
    <3>1. c.closed <=> p.closed
      BY <2>6, CountsOf
    <3>2. c.closed \in BOOLEAN /\ d.closed \in BOOLEAN
      BY <2>3, <2>8 DEF CountShape
    <3> QED BY <2>4, <2>7, <3>1, <3>2
  <2>10. c.idle = none
    <3>1. ASSUME NEW sort \in C!Sorts PROVE OfSort(p.idle, sort) = 0
      <4>1. {i \in DOMAIN p.idle : p.idle[i].sort = sort} = {}
        BY <2>6
      <4> QED BY <4>1, FS_EmptySet DEF OfSort
    <3> QED BY <2>8, <3>1
  <2> QED BY <2>3, <2>6, <2>8, <2>9, <2>10, SameCounts
<1>5. Counts(pool) = AbstractPool!Replenish(d, TRUE, cancelled)
  BY <1>1, <1>3, <1>4, SameReplenish
<1> QED BY <1>1, <1>2, <1>5 DEF AbstractPool!Init

\* The constants of the abstract pool are as it assumes (ConcurrencyAssumption, SpareAssumption and
\* UpcomingAssumption of PoolCounts), so that what is proved of it holds of a run.
LEMMA AbstractConstants ==
    /\ MaxConcurrency \in Nat \ {0} /\ Spare \in Nat
    /\ Upcoming \in AbstractPool!Tally /\ UpcomingAlways \in AbstractPool!Tally
    /\ \A k \in AbstractPool!Kinds : UpcomingAlways[k] <= Upcoming[k]
<1>1. ASSUME NEW k
      PROVE  /\ Cardinality(PoolTestsOf(k)) \in Nat
             /\ Cardinality(PoolTestsOf(k) \intersect RunAlways) \in Nat
             /\ Cardinality(PoolTestsOf(k) \intersect RunAlways) <= Cardinality(PoolTestsOf(k))
  <2> PICK T : T = PoolTestsOf(k)
    OBVIOUS
  <2>1. T \in SUBSET Tests
    BY TestSets
  <2>2. IsFiniteSet(T) /\ IsFiniteSet(T \intersect RunAlways) /\ T \intersect RunAlways \subseteq T
    BY <2>1, FS_Subset, TestsAssumption
  <2> QED BY <2>2, FS_CardinalityType, FS_Subset
<1>2. \A k \in AbstractPool!Kinds :
          /\ Upcoming[k] = Cardinality(PoolTestsOf(k))
          /\ UpcomingAlways[k] = Cardinality(PoolTestsOf(k) \intersect RunAlways)
  BY DEF Upcoming, UpcomingAlways, AbstractPool!Kinds
<1>3. Upcoming \in AbstractPool!Tally /\ UpcomingAlways \in AbstractPool!Tally
  BY <1>1 DEF Upcoming, UpcomingAlways, AbstractPool!Tally, AbstractPool!Kinds
<1> QED BY <1>1, <1>2, <1>3, ConcurrencyType, SettingsAssumption

-----------------------------------------------------------------------------
(* Theorem *)

\* Tests and session workers (run_test, take, serve_tests, run_session and the rest of execution) use
\* the pool as SessionPool allows: whatever the suites, the order of the steps and the failures, the
\* counts of the pool start as they do there and every step is one of its actions or leaves them
\* alone.  With AbstractConstants, what SessionPoolProofs proves of SessionPool holds of the run.
THEOREM PoolIsUsedAsSpecified == Spec => RefinesSessionPool
<1>1. Init => CountInv /\ SimpleInv /\ RunInv /\ AbstractPool!Init
  BY InitCounts, InitSimple, InitRun, InitSimulated
<1>2. Inv /\ Inv' /\ CountInv /\ SimpleInv /\ RunInv /\ [Next]_vars
          => (CountInv /\ SimpleInv /\ RunInv)'
  BY CountStepInv, SimpleStep, RunStep
<1>3. Inv /\ Inv' /\ CountInv /\ SimpleInv /\ RunInv /\ [Next]_vars
          => [AbstractPool!Next]_(AbstractPool!vars)
  BY StepSimulated DEF Simulated
<1> QED
  BY <1>1, <1>2, <1>3, Invariance, PTL DEF Spec, RefinesSessionPool, AbstractPool!Spec
=============================================================================
