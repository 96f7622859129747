-------------------------- MODULE ExecutionProofs --------------------------
(***************************************************************************)
(* Proofs about Execution for every suite tree, every number of tests and  *)
(* all settings: sessions, tickets and tests never get mixed up, however   *)
(* the executor, the workers and a cancellation interleave.                *)
(*                                                                         *)
(* Inv is inductive.  Its parts say what each actor may rely on: a worker  *)
(* in its state (WorkersConsistent), a test in its phase                   *)
(* (TestsConsistent), a ticket in the queue (TicketsConsistent), and how   *)
(* far the walk of the suite tree is (TreeConsistent).  CountInv says what *)
(* the counters of the pool count.                                         *)
(***************************************************************************)
EXTENDS Execution, FiniteSetTheorems, WellFoundedInduction, SequenceTheorems, TLAPS

-----------------------------------------------------------------------------
(* The inductive invariant. *)

Phases == {"queued", "waiting", "requested", "refused", "running", "done"}

\* Phases of a test that did not start.
Before == {"queued", "waiting", "requested", "refused"}

Recorded == BodyOutcomes \union {"panicked", "cancelled"}

Queue == Seq([session : Nat, sort : C!Sorts])

PoolShape ==
    [idle : Queue, creating : Int, resetting : Int, running : Int, alive : Int,
     waiting : [C!Kinds -> Int], upcoming : [C!Kinds -> Int],
     upcomingAlways : [C!Kinds -> Int], closed : BOOLEAN]

WorkerShape ==
    [state : States, owner : {Pool} \union Tests, test : {None} \union Tests,
     ran : Seq(Tests), outcome : {None} \union BodyOutcomes, baseline : BOOLEAN]

\* The shape of the state, without what takes counting.
Shape ==
    /\ suite \in [Suites -> {"unstarted", "running", "done"}]
    /\ started \in [Suites -> Nat]
    /\ phase \in [Tests -> Phases]
    /\ woken \subseteq Waiting
    /\ pool \in PoolShape
    /\ requests \in Seq(Nat)
    /\ workers \in Seq(WorkerShape)
    /\ keepStarting \in BOOLEAN /\ cancelled \in BOOLEAN
    /\ record \in [Tests -> Seq(Recorded)]

\* A request is of one session, which was not spawned yet.
RequestsConsistent ==
    \A i \in DOMAIN requests :
        requests[i] # Close =>
            /\ requests[i] \in DOMAIN workers
            /\ workers[requests[i]].state = "requested"
            /\ \A j \in DOMAIN requests : requests[j] = requests[i] => i = j

\* A session that may run a further test once it was reset.
Reusable(w) ==
    /\ Reuse /\ Pooled(w) /\ workers[w].baseline
    /\ Len(workers[w].ran) \in 1 .. MaxTests - 1
    /\ record[workers[w].ran[Len(workers[w].ran)]] \in {<<"passed">>, <<"failed">>}

\* What the state of a worker says about its session, its test and its owner.
WorkerConsistent(w) ==
    LET self == workers[w]
    IN  /\ self.state \in {"requested", "creating", "offered", "ended"} => self.test = None
        /\ self.state \in {"requested", "creating"} => self.ran = <<>>
        /\ self.state \in {"requested", "creating"} /\ self.owner # Pool =>
              phase[self.owner] = "requested"
        /\ self.state = "offered" /\ self.owner # Pool => self.ran = <<>>
        /\ self.state \in {"running", "checking"} =>
              /\ self.test # None /\ self.ran # <<>>
              /\ self.test = self.ran[Len(self.ran)]
              /\ phase[self.test] = "running"
        /\ self.state = "resetting" => self.test # None /\ phase[self.test] = "done" /\ Reusable(w)
        /\ self.state = "quitting" /\ self.test # None =>
              phase[self.test] = "done" /\ record[self.test] = <<>> /\ self.outcome # None
        /\ self.owner # Pool => phase[self.owner] # "queued"

\* What a session ran: SessionsAreReusedSafely, of one session.
RanSafely(w) ==
    LET ran == workers[w].ran
    IN  /\ Len(ran) <= (IF Reuse /\ Pooled(w) /\ workers[w].baseline THEN MaxTests ELSE 1)
        /\ \A i \in 2 .. Len(ran) :
              ran[i] \notin Fresh /\ record[ran[i - 1]] \in {<<"passed">>, <<"failed">>}

\* A dedicated session, a test under way and a test that ran belong to one worker.
WorkersDistinct ==
    \A v, w \in DOMAIN workers :
        v # w =>
            /\ workers[v].owner # Pool => workers[v].owner # workers[w].owner
            /\ workers[v].test # None => workers[v].test # workers[w].test
            /\ Range(workers[v].ran) \intersect Range(workers[w].ran) = {}

WorkersConsistent ==
    \A w \in DOMAIN workers : WorkerConsistent(w) /\ RanSafely(w)

\* A ticket is of a pool session; unless the run was cancelled, the session is offered by this
\* ticket only, and is new or was reset, as the ticket says.
TicketsConsistent ==
    \A i \in DOMAIN pool.idle :
        LET ticket == pool.idle[i]
            w      == ticket.session
        IN  /\ w \in DOMAIN workers /\ Pooled(w)
            /\ ticket.sort = "failed" => workers[w].state = "ended"
            /\ ~cancelled /\ IsOk(ticket) =>
                  /\ workers[w].state = "offered"
                  /\ \A j \in DOMAIN pool.idle : pool.idle[j].session = w => i = j
                  /\ ticket.sort = "created" => workers[w].ran = <<>>
                  /\ ticket.sort = "reset" => Reusable(w)

\* Only a test that is done is recorded, once, and only one that started ran in a session.  One
\* that is done and not recorded will be when its session quit, or was not started at all.
TestConsistent(t) ==
    /\ phase[t] # "done" => record[t] = <<>>
    /\ phase[t] \in Before => Ran(t) = {}
    /\ Len(record[t]) <= 1
    /\ phase[t] = "done" /\ record[t] = <<>> =>
          \/ \E w \in DOMAIN workers : workers[w].state = "quitting" /\ workers[w].test = t
          \/ Ran(t) = {} /\ (cancelled \/ (~keepStarting /\ t \notin RunAlways))

TestsConsistent == \A t \in Tests : TestConsistent(t)

\* Children that a suite's stream did not reach were not started; those of a suite that is done
\* are done.
TreeConsistent ==
    \A s \in Suites : \A i \in DOMAIN Children[s] :
        LET n == Children[s][i]
        IN  /\ i > started[s] => IF n \in Tests THEN phase[n] = "queued" ELSE suite[n] = "unstarted"
            /\ suite[s] = "done" => Done(n)

Inv ==
    /\ Shape
    /\ RequestsConsistent
    /\ WorkersDistinct
    /\ WorkersConsistent
    /\ TicketsConsistent
    /\ TestsConsistent
    /\ TreeConsistent
    /\ NoLostWakeup

-----------------------------------------------------------------------------
(* Numbers and queues.                                                     *)

Ticket == [session : Nat, sort : C!Sorts]

LEMMA LeastElement ==
    ASSUME NEW S \in SUBSET Nat, S # {}
    PROVE  \E m \in S : \A k \in S : m <= k
<1>1. PICK m \in S : \A k \in S : <<k, m>> \notin OpToRel(<, Nat)
  BY WFMin, NatLessThanWellFounded, Zenon
<1>2. \A k \in S : ~(k < m)
  BY <1>1, Zenon DEF OpToRel
<1> QED BY <1>2

LEMMA NatSetInduction ==
    ASSUME NEW S, 0 \in S, \A n \in Nat : n \in S => n + 1 \in S
    PROVE  Nat \subseteq S
<1>1. SUFFICES ASSUME Nat \ S # {} PROVE FALSE
  OBVIOUS
<1>2. PICK m \in Nat \ S : \A k \in Nat \ S : m <= k
  BY <1>1, LeastElement
<1>3. m - 1 \in Nat /\ m - 1 \notin S
  BY <1>2
<1> QED BY <1>2, <1>3

LEMMA MinFacts ==
    ASSUME NEW S \in SUBSET Nat, S # {}
    PROVE  Min(S) \in S
<1>1. \E m \in S : \A k \in S : m <= k
  BY LeastElement
<1> QED BY <1>1 DEF Min

\* A bounded set of numbers has a maximum.
LEMMA MaxFacts ==
    ASSUME NEW S \in SUBSET Nat, S # {}, NEW b \in Nat, \A k \in S : k <= b
    PROVE  Max(S) \in S /\ \A k \in S : k <= Max(S)
<1> DEFINE B == {m \in Nat : \A k \in S : k <= m}
<1>1. PICK m \in B : \A n \in B : m <= n
  <2>1. B \in SUBSET Nat /\ b \in B
    OBVIOUS
  <2> HIDE DEF B
  <2> QED BY <2>1, LeastElement
<1>2. m \in S
  <2>1. SUFFICES ASSUME m \notin S PROVE FALSE
    OBVIOUS
  <2>2. \A k \in S : k <= m - 1
    BY <1>1, <2>1
  <2>3. m - 1 \in Nat
    <3>1. PICK k \in S : TRUE
      OBVIOUS
    <3>2. k \in Nat /\ k <= m - 1
      BY <2>2, <3>1
    <3> QED BY <1>1, <3>2
  <2> QED BY <1>1, <2>2, <2>3
<1>3. \E x \in S : \A y \in S : x >= y
  BY <1>1, <1>2
<1>4. Max(S) \in S /\ \A y \in S : Max(S) >= y
  BY <1>3 DEF Max
<1> QED BY <1>4

LEMMA ConcurrencyType == MaxConcurrency \in Nat \ {0}
<1> DEFINE leaves == {n \in Nodes : n \in Suites => Children[n] = <<>>}
           counts == {Cardinality(R \intersect leaves) : R \in {R \in SUBSET Nodes : Together(R)}}
<1>1. IsFiniteSet(Nodes)
  BY TreeAssumption, TestsAssumption, FS_Union DEF Nodes
<1>2. ASSUME NEW R \in SUBSET Nodes
      PROVE  Cardinality(R \intersect leaves) \in Nat
             /\ Cardinality(R \intersect leaves) <= Cardinality(Nodes)
  <2>1. R \intersect leaves \in SUBSET Nodes
    OBVIOUS
  <2> HIDE DEF leaves
  <2>2. IsFiniteSet(R \intersect leaves)
    BY <1>1, <2>1, FS_Subset
  <2> QED BY <1>1, <2>1, <2>2, FS_Subset, FS_CardinalityType
<1>3. /\ counts \union {1} \in SUBSET Nat
      /\ \A k \in counts \union {1} : k <= Cardinality(Nodes) + 1
      /\ Cardinality(Nodes) + 1 \in Nat
  <2>1. Cardinality(Nodes) \in Nat
    BY <1>1, FS_CardinalityType
  <2>2. \A k \in counts : k \in Nat /\ k <= Cardinality(Nodes)
    <3> HIDE DEF leaves
    <3> QED BY <1>2
  <2> HIDE DEF counts
  <2> QED BY <2>1, <2>2
<1>4. /\ Max(counts \union {1}) \in counts \union {1}
      /\ \A k \in counts \union {1} : k <= Max(counts \union {1})
  <2> HIDE DEF counts
  <2> QED BY <1>3, MaxFacts
<1>5. MaxConcurrency = Max(counts \union {1})
  BY DEF MaxConcurrency
<1> HIDE DEF counts
<1>6. 1 <= Max(counts \union {1}) /\ Max(counts \union {1}) \in Nat
  BY <1>3, <1>4
<1> QED BY <1>5, <1>6

LEMMA SelectReset ==
    ASSUME NEW q \in Queue
    PROVE  /\ SelectInSeq(q, IsReset) \in {0} \union DOMAIN q
           /\ SelectInSeq(q, IsReset) # 0 => IsReset(q[SelectInSeq(q, IsReset)])
           /\ SelectInSeq(q, IsReset) = 0 => \A i \in DOMAIN q : ~IsReset(q[i])
<1> DEFINE I == {i \in 1 .. Len(q) : IsReset(q[i])}
<1>1. /\ SelectInSeq(q, IsReset) = IF I # {} THEN Min(I) ELSE 0
      /\ DOMAIN q = 1 .. Len(q) /\ Len(q) \in Nat
  BY DEF SelectInSeq, Queue
<1>2. I \in SUBSET Nat /\ (I # {} => Min(I) \in I)
  <2>1. I \in SUBSET Nat
    BY <1>1
  <2> HIDE DEF I
  <2> QED BY <2>1, MinFacts
<1> QED BY <1>1, <1>2

LEMMA SelectFresh ==
    ASSUME NEW q \in Queue
    PROVE  /\ SelectInSeq(q, IsFresh) \in {0} \union DOMAIN q
           /\ SelectInSeq(q, IsFresh) # 0 => IsFresh(q[SelectInSeq(q, IsFresh)])
           /\ SelectInSeq(q, IsFresh) = 0 => \A i \in DOMAIN q : ~IsFresh(q[i])
<1> DEFINE I == {i \in 1 .. Len(q) : IsFresh(q[i])}
<1>1. /\ SelectInSeq(q, IsFresh) = IF I # {} THEN Min(I) ELSE 0
      /\ DOMAIN q = 1 .. Len(q) /\ Len(q) \in Nat
  BY DEF SelectInSeq, Queue
<1>2. I \in SUBSET Nat /\ (I # {} => Min(I) \in I)
  <2>1. I \in SUBSET Nat
    BY <1>1
  <2> HIDE DEF I
  <2> QED BY <2>1, MinFacts
<1> QED BY <1>1, <1>2

\* q is what is left of queue p: other tickets than p's are not in it, and none more than once.
Within(q, p) ==
    \E f \in [DOMAIN q -> DOMAIN p] :
        /\ \A i, j \in DOMAIN q : f[i] = f[j] => i = j
        /\ \A i \in DOMAIN q : q[i] = p[f[i]]

LEMMA WithinItself == \A q : Within(q, q)
<1> SUFFICES ASSUME NEW q PROVE Within(q, q)
  OBVIOUS
<1>1. [i \in DOMAIN q |-> i] \in [DOMAIN q -> DOMAIN q]
  OBVIOUS
<1> QED BY <1>1 DEF Within

LEMMA WithinWithin ==
    ASSUME NEW q, NEW r, NEW s, Within(q, r), Within(r, s)
    PROVE  Within(q, s)
<1>1. PICK f \in [DOMAIN q -> DOMAIN r] : /\ \A i, j \in DOMAIN q : f[i] = f[j] => i = j
                                          /\ \A i \in DOMAIN q : q[i] = r[f[i]]
  BY DEF Within
<1>2. PICK g \in [DOMAIN r -> DOMAIN s] : /\ \A i, j \in DOMAIN r : g[i] = g[j] => i = j
                                          /\ \A i \in DOMAIN r : r[i] = s[g[i]]
  BY DEF Within
<1> DEFINE h == [i \in DOMAIN q |-> g[f[i]]]
<1>3. /\ h \in [DOMAIN q -> DOMAIN s]
      /\ \A i, j \in DOMAIN q : h[i] = h[j] => i = j
      /\ \A i \in DOMAIN q : q[i] = s[h[i]]
  BY <1>1, <1>2
<1> QED BY <1>3, Zenon DEF Within

\* What is left of a queue has tickets only where the queue has.
LEMMA WithinTickets ==
    ASSUME NEW q, NEW p, Within(q, p), NEW i \in DOMAIN q
    PROVE  \E k \in DOMAIN p : q[i] = p[k]
BY DEF Within

LEMMA RemoveAtFacts ==
    ASSUME NEW q \in Queue, NEW i \in 1 .. Len(q), NEW r, r = RemoveAt(q, i)
    PROVE  /\ r \in Queue /\ Len(r) = Len(q) - 1
           /\ \A k \in 1 .. i - 1 : r[k] = q[k]
           /\ \A k \in i .. Len(q) - 1 : r[k] = q[k + 1]
<1> DEFINE a == SubSeq(q, 1, i - 1)
           b == SubSeq(q, i + 1, Len(q))
<1>1. q \in Seq(Ticket) /\ Len(q) \in Nat /\ DOMAIN q = 1 .. Len(q)
  BY DEF Queue, Ticket
<1>2. \A k \in 1 .. Len(q) : q[k] \in Ticket
  BY <1>1
<1>3. a \in Seq(Ticket) /\ Len(a) = i - 1 /\ \A k \in 1 .. i - 1 : a[k] = q[k]
  <2>1. \A k \in 1 .. i - 1 : q[k] \in Ticket
    BY <1>1, <1>2
  <2>2. /\ a \in Seq(Ticket)
        /\ Len(a) = IF 1 <= i - 1 THEN (i - 1) - 1 + 1 ELSE 0
        /\ \A k \in 1 .. (i - 1) - 1 + 1 : a[k] = q[1 + k - 1]
    <3>1. 1 \in Int /\ i - 1 \in Int
      OBVIOUS
    <3> QED BY <2>1, <3>1, SubSeqProperties
  <2> QED BY <1>1, <2>2
<1>4. b \in Seq(Ticket) /\ Len(b) = Len(q) - i /\ \A k \in 1 .. Len(q) - i : b[k] = q[k + i]
  <2>1. \A k \in i + 1 .. Len(q) : q[k] \in Ticket
    BY <1>1, <1>2
  <2>2. i + 1 \in Int /\ Len(q) \in Int
    BY <1>1
  <2>3. /\ b \in Seq(Ticket)
        /\ Len(b) = IF i + 1 <= Len(q) THEN Len(q) - (i + 1) + 1 ELSE 0
        /\ \A k \in 1 .. Len(q) - (i + 1) + 1 : b[k] = q[i + 1 + k - 1]
    BY <2>1, <2>2, SubSeqProperties
  <2>4. Len(b) = Len(q) - i
    <3>1. Len(b) = IF i + 1 <= Len(q) THEN Len(q) - (i + 1) + 1 ELSE 0
      BY <2>3
    <3> HIDE DEF b
    <3>2. Len(q) \in Nat /\ i \in 1 .. Len(q)
      BY <1>1
    <3> QED BY <3>1, <3>2
  <2>5. ASSUME NEW k \in 1 .. Len(q) - i PROVE b[k] = q[k + i]
    <3> HIDE DEF b
    <3>1. k \in 1 .. Len(q) - (i + 1) + 1 /\ i + 1 + k - 1 = k + i
      BY <1>1
    <3> QED BY <2>3, <3>1
  <2> QED BY <2>3, <2>4, <2>5
<1>5. r = a \o b
  BY DEF RemoveAt
<1> HIDE DEF a, b
<1>6. /\ a \o b \in Seq(Ticket)
      /\ Len(a \o b) = Len(a) + Len(b)
      /\ \A k \in 1 .. Len(a) + Len(b) : (a \o b)[k] = IF k <= Len(a) THEN a[k] ELSE b[k - Len(a)]
  BY <1>3, <1>4, ConcatProperties, ZenonT(30)
<1>7. r \in Queue /\ Len(r) = Len(q) - 1
  BY <1>1, <1>3, <1>4, <1>5, <1>6 DEF Queue, Ticket
<1>8. \A k \in 1 .. i - 1 : r[k] = q[k]
  BY <1>1, <1>3, <1>4, <1>5, <1>6
<1>9. \A k \in i .. Len(q) - 1 : r[k] = q[k + 1]
  BY <1>1, <1>3, <1>4, <1>5, <1>6
<1> QED BY <1>7, <1>8, <1>9

LEMMA RemoveAtWithin ==
    ASSUME NEW q \in Queue, NEW i \in 1 .. Len(q)
    PROVE  Within(RemoveAt(q, i), q)
<1> DEFINE r == RemoveAt(q, i)
           f == [k \in DOMAIN r |-> IF k < i THEN k ELSE k + 1]
<1>1. /\ r \in Queue /\ Len(r) = Len(q) - 1 /\ Len(q) \in Nat
      /\ DOMAIN r = 1 .. Len(q) - 1 /\ DOMAIN q = 1 .. Len(q)
      /\ \A k \in 1 .. i - 1 : r[k] = q[k]
      /\ \A k \in i .. Len(q) - 1 : r[k] = q[k + 1]
  <2>1. /\ r \in Queue /\ Len(r) = Len(q) - 1
        /\ \A k \in 1 .. i - 1 : r[k] = q[k]
        /\ \A k \in i .. Len(q) - 1 : r[k] = q[k + 1]
    BY RemoveAtFacts
  <2> HIDE DEF r
  <2> QED BY <2>1 DEF Queue
<1> HIDE DEF r
<1>2. f \in [DOMAIN r -> DOMAIN q]
  BY <1>1
<1>3. \A j, k \in DOMAIN r : f[j] = f[k] => j = k
  BY <1>1
<1>4. \A k \in DOMAIN r : r[k] = q[f[k]]
  BY <1>1
<1> HIDE DEF f
<1> QED BY <1>2, <1>3, <1>4, Zenon DEF Within, r

\* Removing at 0 removes nothing: no ticket is where SelectInSeq found none.
LEMMA RemoveAtNone ==
    ASSUME NEW q \in Queue
    PROVE  RemoveAt(q, 0) = q
<1>1. q \in Seq(Ticket) /\ Len(q) \in Nat
  BY DEF Queue, Ticket
<1>2. SubSeq(q, 1, 0 - 1) = <<>>
  BY SubSeqEmpty
<1>3. SubSeq(q, 0 + 1, Len(q)) = q
  BY <1>1, SubSeqFull
<1>4. <<>> \o q = q
  BY <1>1, ConcatEmptySeq
<1> QED BY <1>2, <1>3, <1>4 DEF RemoveAt

LEMMA DropReset ==
    ASSUME NEW q \in Queue, NEW r, r = RemoveAt(q, SelectInSeq(q, IsReset))
    PROVE  r \in Queue /\ Within(r, q)
<1> DEFINE i == SelectInSeq(q, IsReset)
<1>1. i \in {0} \union DOMAIN q /\ DOMAIN q = 1 .. Len(q)
  <2>1. i \in {0} \union DOMAIN q
    BY SelectReset
  <2> HIDE DEF i
  <2> QED BY <2>1 DEF Queue
<1>2. r = RemoveAt(q, i)
  OBVIOUS
<1> HIDE DEF i
<1>3. CASE i = 0
  BY <1>2, <1>3, RemoveAtNone, WithinItself
<1>4. CASE i \in 1 .. Len(q)
  BY <1>2, <1>4, RemoveAtWithin, RemoveAtFacts
<1> QED BY <1>1, <1>3, <1>4

\* The recursion of WithoutResets has a solution.
LEMMA DroppingResets ==
    ASSUME NEW q, NEW n \in Nat
    PROVE  LET Is(g) == g = [i \in 0 .. n |->
                                IF i = 0 THEN q
                                ELSE RemoveAt(g[i - 1], SelectInSeq(g[i - 1], IsReset))]
           IN  Is(CHOOSE g : Is(g))
<1> DEFINE Step(r) == RemoveAt(r, SelectInSeq(r, IsReset))
           Is(g, m) == g = [i \in 0 .. m |-> IF i = 0 THEN q ELSE Step(g[i - 1])]
           S == {m \in Nat : \E g : Is(g, m)}
<1>1. 0 \in S
  <2>1. Is([i \in 0 .. 0 |-> q], 0)
    OBVIOUS
  <2> QED BY <2>1
<1>2. ASSUME NEW m \in Nat, m \in S
      PROVE  m + 1 \in S
  <2>1. PICK g : Is(g, m)
    BY <1>2
  <2> DEFINE h == [i \in 0 .. m + 1 |-> IF i = 0 THEN q ELSE Step(g[i - 1])]
  <2> HIDE DEF Step
  <2>2. \A i \in 0 .. m : h[i] = g[i]
    BY <2>1
  <2>3. ASSUME NEW i \in 0 .. m + 1, i # 0 PROVE h[i - 1] = g[i - 1]
    <3>1. i - 1 \in 0 .. m
      BY <2>3
    <3> QED BY <2>2, <3>1
  <2>4. h = [i \in 0 .. m + 1 |-> IF i = 0 THEN q ELSE Step(h[i - 1])]
    <3> HIDE DEF h
    <3>1. h = [i \in 0 .. m + 1 |-> IF i = 0 THEN q ELSE Step(g[i - 1])]
      BY DEF h
    <3> QED BY <2>3, <3>1
  <2> HIDE DEF h
  <2> QED BY <2>4
<1>3. \E g : Is(g, n)
  <2> HIDE DEF Is
  <2>1. Nat \subseteq S
    <3>1. 0 \in S /\ \A m \in Nat : m \in S => m + 1 \in S
      BY <1>1, <1>2
    <3> HIDE DEF S
    <3> QED BY <3>1, NatSetInduction
  <2> QED BY <2>1
<1> QED BY <1>3

LEMMA WithoutResetsFacts ==
    ASSUME NEW q \in Queue, NEW n \in Nat
    PROVE  WithoutResets(q, n) \in Queue /\ Within(WithoutResets(q, n), q)
<1> DEFINE Step(r) == RemoveAt(r, SelectInSeq(r, IsReset))
           Is(g, m) == g = [i \in 0 .. m |-> IF i = 0 THEN q ELSE Step(g[i - 1])]
           without == CHOOSE g : Is(g, n)
<1>4. Is(without, n)
  BY DroppingResets
<1>5. WithoutResets(q, n) = without[n]
  BY DEF WithoutResets
<1> HIDE DEF without
<1> DEFINE T == {m \in Nat : m \in 0 .. n => without[m] \in Queue /\ Within(without[m], q)}
<1>6. 0 \in T
  <2>1. without[0] = q
    BY <1>4
  <2> QED BY <2>1, WithinItself
<1>7. ASSUME NEW m \in Nat, m \in T
      PROVE  m + 1 \in T
  <2>1. SUFFICES ASSUME m + 1 \in 0 .. n
                 PROVE  without[m + 1] \in Queue /\ Within(without[m + 1], q)
    OBVIOUS
  <2>2. m \in 0 .. n /\ without[m] \in Queue /\ Within(without[m], q)
    BY <1>7, <2>1
  <2>3. without[m + 1] = Step(without[m])
    <3> HIDE DEF Step
    <3> QED BY <1>4, <2>1
  <2>4. without[m + 1] \in Queue /\ Within(without[m + 1], without[m])
    BY <2>2, <2>3, DropReset
  <2> QED BY <2>2, <2>4, WithinWithin
<1>8. Nat \subseteq T
  <2>1. 0 \in T /\ \A m \in Nat : m \in T => m + 1 \in T
    BY <1>6, <1>7
  <2> HIDE DEF T
  <2> QED BY <2>1, NatSetInduction
<1> QED BY <1>5, <1>8

-----------------------------------------------------------------------------
(* The pool.                                                               *)

LEMMA PositionFacts ==
    ASSUME NEW q \in Queue, NEW kind \in C!Kinds, NEW i, i = Position(q, kind)
    PROVE  /\ i \in {0} \union 1 .. Len(q)
           /\ kind = "fresh" /\ i # 0 => q[i].sort # "reset"
           /\ i = 0 <=> \A k \in DOMAIN q : kind = "fresh" /\ q[k].sort = "reset"
<1>1. q \in Seq(Ticket) /\ Len(q) \in Nat /\ DOMAIN q = 1 .. Len(q)
  BY DEF Queue, Ticket
<1> DEFINE fresh == SelectInSeq(q, IsFresh)
           reset == SelectInSeq(q, IsReset)
<1>2. /\ fresh \in {0} \union DOMAIN q
      /\ fresh # 0 => q[fresh].sort # "reset"
      /\ fresh = 0 => \A k \in DOMAIN q : q[k].sort = "reset"
  BY SelectFresh DEF IsFresh
<1>3. /\ reset \in {0} \union DOMAIN q
      /\ reset # 0 => q[reset].sort = "reset"
  BY SelectReset DEF IsReset
<1>4. i = IF kind = "fresh" THEN fresh ELSE IF reset # 0 \/ q = <<>> THEN reset ELSE 1
  BY DEF Position
<1>5. q = <<>> <=> Len(q) = 0
  BY <1>1
<1> HIDE DEF fresh, reset
<1>6. CASE kind = "fresh"
  BY <1>1, <1>2, <1>4, <1>6
<1>7. CASE kind # "fresh"
  BY <1>1, <1>3, <1>4, <1>5, <1>7
<1> QED BY <1>6, <1>7

\* What is left of a queue that has no ticket for a test has none either.
LEMMA WithinPosition ==
    ASSUME NEW p \in Queue, NEW q \in Queue, Within(q, p), NEW kind \in C!Kinds,
           Position(p, kind) = 0
    PROVE  Position(q, kind) = 0
<1>1. \A k \in DOMAIN p : kind = "fresh" /\ p[k].sort = "reset"
  BY PositionFacts
<1>2. \A k \in DOMAIN q : \E j \in DOMAIN p : q[k] = p[j]
  BY WithinTickets
<1> QED BY <1>1, <1>2, PositionFacts

LEMMA KindType == \A t : Kind(t) \in C!Kinds
BY DEF Kind, C!Kinds

\* What replenishing may do to the pool.
LEMMA ReplenishFacts ==
    ASSUME NEW p \in PoolShape, NEW keep \in BOOLEAN, NEW cancel \in BOOLEAN,
           NEW q, q = Replenish(p, keep, cancel)
    PROVE  /\ q \in PoolShape
           /\ Within(q.idle, p.idle)
           /\ q.alive - p.alive \in Nat
           /\ p.closed => q.alive = p.alive
<1> DEFINE counts == Counts(p)
           spares == C!Spares(counts, keep, cancel)
           c == C!Replenish(counts, keep, cancel)
<1>1. /\ p.idle \in Queue /\ p.creating \in Int /\ p.resetting \in Int /\ p.running \in Int
      /\ p.alive \in Int /\ p.waiting \in [C!Kinds -> Int] /\ p.upcoming \in [C!Kinds -> Int]
      /\ p.upcomingAlways \in [C!Kinds -> Int] /\ p.closed \in BOOLEAN
  BY DEF PoolShape
<1>2. \A sort : OfSort(p.idle, sort) \in Nat
  <2> SUFFICES ASSUME NEW sort PROVE OfSort(p.idle, sort) \in Nat
    OBVIOUS
  <2> DEFINE I == {i \in DOMAIN p.idle : p.idle[i].sort = sort}
  <2>1. IsFiniteSet(1 .. Len(p.idle)) /\ DOMAIN p.idle = 1 .. Len(p.idle)
    BY <1>1, FS_Interval DEF Queue
  <2>2. I \in SUBSET (1 .. Len(p.idle))
    BY <2>1
  <2>3. OfSort(p.idle, sort) = Cardinality(I)
    BY DEF OfSort
  <2> HIDE DEF I
  <2> QED BY <2>1, <2>2, <2>3, FS_Subset, FS_CardinalityType
<1>3. /\ counts = [p EXCEPT !.idle = [sort \in C!Sorts |-> OfSort(p.idle, sort)]]
      /\ counts.idle["reset"] \in Nat /\ counts.idle["created"] \in Nat
      /\ counts.idle["failed"] \in Nat
      /\ counts.idle["reset"] = OfSort(p.idle, "reset")
      /\ counts.creating = p.creating /\ counts.resetting = p.resetting
      /\ counts.alive = p.alive /\ counts.waiting = p.waiting
      /\ counts.upcoming = p.upcoming /\ counts.upcomingAlways = p.upcomingAlways
      /\ counts.closed = p.closed
  BY <1>2 DEF Counts, C!Sorts, PoolShape
<1> HIDE DEF counts
<1>4. /\ \A m, n \in Int : C!Monus(m, n) \in Nat /\ C!Minimum(m, n) \in Int
      /\ \A m, n \in Nat : C!Minimum(m, n) \in Nat
  BY DEF C!Monus, C!Minimum
<1>5. MaxConcurrency + Spare \in Int
  BY ConcurrencyType, SettingsAssumption
<1>6. /\ counts.waiting["any"] \in Int /\ counts.waiting["fresh"] \in Int
      /\ C!Total(counts.waiting) \in Int
  BY <1>1, <1>3 DEF C!Kinds, C!Total
<1>7. C!FreshSupply(counts) \in Int /\ C!Supply(counts) \in Int
  BY <1>1, <1>3 DEF C!FreshSupply, C!FreshIdle, C!Supply
<1>8. spares \in Int
  <2>1. C!Starting(counts, keep, cancel) \in Int
    BY <1>1, <1>3 DEF C!Starting, C!Total, C!Kinds
  <2> QED BY <1>4, <2>1, SettingsAssumption DEF C!Spares
<1> HIDE DEF spares
<1>9. C!CreatedFresh(counts) \in Nat
  BY <1>4, <1>6, <1>7 DEF C!CreatedFresh
<1>10. C!DroppedResets(counts) \in Nat
  <2>1. C!Monus(C!Bound, counts.alive) \in Nat
    BY <1>1, <1>3, <1>4, <1>5 DEF C!Bound
  <2> DEFINE room == C!Monus(C!Bound, counts.alive)
             over == C!Monus(C!CreatedFresh(counts), room)
             unneeded == C!Monus(counts.idle["reset"], counts.waiting["any"])
  <2>2. unneeded \in Nat
    BY <1>3, <1>4, <1>6
  <2>3. over \in Nat
    <3> HIDE DEF room
    <3> QED BY <1>4, <1>9, <2>1 DEF room
  <2>4. C!DroppedResets(counts) = C!Minimum(over, unneeded)
    BY DEF C!DroppedResets
  <2> HIDE DEF over, unneeded
  <2> QED BY <1>4, <2>2, <2>3, <2>4
<1>11. C!CreatedAny(counts) \in Nat
  <2> DEFINE needed == C!Total(counts.waiting)
             there == C!Supply(counts) - C!DroppedResets(counts) + C!CreatedFresh(counts)
  <2>1. needed \in Int /\ there \in Int
    BY <1>6, <1>7, <1>9, <1>10
  <2>2. C!CreatedAny(counts) = C!Monus(needed, there)
    BY DEF C!CreatedAny
  <2> HIDE DEF needed, there
  <2> QED BY <1>4, <2>1, <2>2
<1>12. C!CreatedSpares(counts, spares) \in Nat
  <2> DEFINE created == C!CreatedFresh(counts) + C!CreatedAny(counts)
             missing == C!Monus(C!Total(counts.waiting) + spares,
                                C!Supply(counts) - C!DroppedResets(counts) + created)
             room == C!Monus(C!Bound, counts.alive + created)
  <2>1. missing \in Nat
    <3> DEFINE needed == C!Total(counts.waiting) + spares
               there == C!Supply(counts) - C!DroppedResets(counts) + created
    <3>1. needed \in Int /\ there \in Int
      BY <1>6, <1>7, <1>8, <1>9, <1>10, <1>11
    <3>2. missing = C!Monus(needed, there)
      OBVIOUS
    <3> HIDE DEF needed, there, missing
    <3> QED BY <1>4, <3>1, <3>2
  <2>2. room \in Nat
    BY <1>1, <1>3, <1>4, <1>5, <1>9, <1>11 DEF C!Bound
  <2>3. C!CreatedSpares(counts, spares) = C!Minimum(missing, room)
    BY DEF C!CreatedSpares
  <2> HIDE DEF missing, room
  <2> QED BY <1>4, <2>1, <2>2, <2>3
<1>13. C!Created(counts, spares) \in Nat
  BY <1>9, <1>11, <1>12 DEF C!Created
<1>14. /\ c.creating - p.creating \in Nat /\ c.creating \in Int
       /\ c.alive - p.alive \in Nat /\ c.alive \in Int
       /\ counts.idle["reset"] - c.idle["reset"] \in Nat
       /\ p.closed => c.alive = p.alive
  <2>1. c = C!Replenished(counts, spares)
    BY DEF C!Replenish, spares
  <2> HIDE DEF c
  <2>2. CASE p.closed
    <3>1. c = counts
      BY <1>3, <2>1, <2>2 DEF C!Replenished
    <3> QED BY <1>1, <1>3, <3>1
  <2>3. CASE ~p.closed
    <3>1. c = [counts EXCEPT !.idle["reset"] = @ - C!DroppedResets(counts),
                             !.creating = @ + C!Created(counts, spares),
                             !.alive = @ + C!Created(counts, spares)]
      BY <1>3, <2>1, <2>3 DEF C!Replenished
    <3>2. counts \in [DOMAIN p -> {counts[x] : x \in DOMAIN p}] /\ DOMAIN p =
            {"idle", "creating", "resetting", "running", "alive", "waiting", "upcoming",
             "upcomingAlways", "closed"}
      BY <1>3 DEF PoolShape
    <3>3. /\ c.creating = counts.creating + C!Created(counts, spares)
          /\ c.alive = counts.alive + C!Created(counts, spares)
      BY <3>1, <3>2
    <3>4. c.idle["reset"] = counts.idle["reset"] - C!DroppedResets(counts)
      <4>1. counts.idle \in [C!Sorts -> Nat]
        BY <1>2, <1>3, <3>2 DEF PoolShape
      <4> QED BY <3>1, <3>2, <4>1 DEF C!Sorts
    <3> QED BY <1>1, <1>3, <1>10, <1>13, <2>3, <3>3, <3>4
  <2> QED BY <1>1, <2>2, <2>3
<1> DEFINE n == OfSort(p.idle, "reset") - c.idle["reset"]
           left == WithoutResets(p.idle, n)
<1>15. q = [p EXCEPT !.idle = left, !.creating = c.creating, !.alive = c.alive]
  BY DEF Replenish, counts
<1> HIDE DEF c
<1>16. left \in Queue /\ Within(left, p.idle)
  <2>1. n \in Nat
    BY <1>3, <1>14
  <2> HIDE DEF n
  <2> QED BY <1>1, <2>1, WithoutResetsFacts
<1> HIDE DEF left
<1>17. q \in PoolShape /\ q.idle = left /\ q.alive = c.alive
  BY <1>1, <1>14, <1>15, <1>16 DEF PoolShape
<1> QED BY <1>14, <1>16, <1>17

-----------------------------------------------------------------------------
(* Steps that concern at most a test t and a session w.                    *)

\* Such a step may request sessions.
Frame(t, w) ==
    /\ phase' \in [Tests -> Phases]
    /\ record' \in [Tests -> Seq(Recorded)]
    /\ workers' \in Seq(WorkerShape)
    /\ DOMAIN workers \subseteq DOMAIN workers'
    /\ \A v \in DOMAIN workers : v # w => workers'[v] = workers[v]
    /\ \A v \in DOMAIN workers' : v \notin DOMAIN workers =>
          \E owner \in {Pool} \union Tests : workers'[v] = Hired(owner)
    /\ \A u \in Tests : u # t => phase'[u] = phase[u] /\ record'[u] = record[u]
    /\ t \in Tests /\ record[t] # <<>> => record'[t] = record[t]
    /\ (cancelled => cancelled') /\ (keepStarting' => keepStarting)

\* Those it requests are for the pool.
StepOf(t, w) ==
    /\ Frame(t, w)
    /\ \A v \in DOMAIN workers' : v \notin DOMAIN workers => workers'[v] = Hired(Pool)

LEMMA HiredShape ==
    ASSUME NEW owner \in {Pool} \union Tests
    PROVE  /\ Hired(owner) \in WorkerShape
           /\ Hired(owner).state = "requested" /\ Hired(owner).owner = owner
           /\ Hired(owner).test = None /\ Hired(owner).ran = <<>>
BY DEF Hired, WorkerShape, States

\* The workers and requests after sessions were requested.
LEMMA RequestFacts ==
    ASSUME NEW ws \in Seq(WorkerShape), NEW owner \in {Pool} \union Tests, NEW n \in Nat,
           requests \in Seq(Nat), Request(ws, owner, n)
    PROVE  /\ workers' \in Seq(WorkerShape)
           /\ DOMAIN ws = 1 .. Len(ws) /\ Len(ws) \in Nat
           /\ DOMAIN workers' = 1 .. Len(ws) + n
           /\ \A w \in 1 .. Len(ws) : workers'[w] = ws[w]
           /\ \A w \in Len(ws) + 1 .. Len(ws) + n : workers'[w] = Hired(owner)
           /\ requests' \in Seq(Nat)
           /\ DOMAIN requests = 1 .. Len(requests) /\ Len(requests) \in Nat
           /\ DOMAIN requests' = 1 .. Len(requests) + n
           /\ \A i \in 1 .. Len(requests) : requests'[i] = requests[i]
           /\ \A i \in Len(requests) + 1 .. Len(requests) + n :
                 requests'[i] = Len(ws) + (i - Len(requests))
<1> DEFINE new == [i \in 1 .. n |-> Hired(owner)]
           numbers == [i \in 1 .. n |-> Len(ws) + i]
<1>1. Len(ws) \in Nat /\ Len(requests) \in Nat /\ DOMAIN ws = 1 .. Len(ws)
      /\ DOMAIN requests = 1 .. Len(requests)
  OBVIOUS
<1>2. workers' = ws \o new /\ requests' = requests \o numbers
  BY DEF Request
<1>3. new \in Seq(WorkerShape) /\ Len(new) = n /\ \A i \in 1 .. n : new[i] = Hired(owner)
  BY HiredShape
<1>4. numbers \in Seq(Nat) /\ Len(numbers) = n /\ \A i \in 1 .. n : numbers[i] = Len(ws) + i
  BY <1>1
<1> HIDE DEF new, numbers
<1>5. /\ workers' \in Seq(WorkerShape)
      /\ Len(workers') = Len(ws) + n
      /\ \A i \in 1 .. Len(ws) + n : workers'[i] = IF i <= Len(ws) THEN ws[i] ELSE new[i - Len(ws)]
  BY <1>2, <1>3, ConcatProperties
<1>6. /\ requests' \in Seq(Nat)
      /\ Len(requests') = Len(requests) + n
      /\ \A i \in 1 .. Len(requests) + n :
            requests'[i] = IF i <= Len(requests) THEN requests[i] ELSE numbers[i - Len(requests)]
  BY <1>2, <1>4, ConcatProperties
<1>7. DOMAIN workers' = 1 .. Len(ws) + n /\ DOMAIN requests' = 1 .. Len(requests) + n
  BY <1>5, <1>6
<1>8. \A w \in 1 .. Len(ws) : workers'[w] = ws[w]
  BY <1>1, <1>5
<1>9. ASSUME NEW w \in Len(ws) + 1 .. Len(ws) + n PROVE workers'[w] = Hired(owner)
  BY <1>1, <1>3, <1>5
<1>10. \A i \in 1 .. Len(requests) : requests'[i] = requests[i]
  BY <1>1, <1>6
<1>11. ASSUME NEW i \in Len(requests) + 1 .. Len(requests) + n
       PROVE  requests'[i] = Len(ws) + (i - Len(requests))
  BY <1>1, <1>4, <1>6
<1> QED BY <1>1, <1>5, <1>6, <1>7, <1>8, <1>9, <1>10, <1>11

\* Sessions that are requested keep the requests consistent, if those requested before were
\* left alone.
LEMMA RequestConsistent ==
    ASSUME Shape, RequestsConsistent,
           NEW ws \in Seq(WorkerShape), Len(ws) = Len(workers),
           \A w \in DOMAIN workers : workers[w].state = "requested" => ws[w].state = "requested",
           NEW owner \in {Pool} \union Tests, NEW n \in Nat, Request(ws, owner, n)
    PROVE  RequestsConsistent'
<1>1. requests \in Seq(Nat) /\ DOMAIN workers = 1 .. Len(ws) /\ Len(ws) \in Nat
  BY DEF Shape
<1>2. /\ DOMAIN workers' = 1 .. Len(ws) + n
      /\ \A w \in 1 .. Len(ws) : workers'[w] = ws[w]
      /\ \A w \in Len(ws) + 1 .. Len(ws) + n : workers'[w] = Hired(owner)
      /\ DOMAIN requests = 1 .. Len(requests) /\ Len(requests) \in Nat
      /\ DOMAIN requests' = 1 .. Len(requests) + n
      /\ \A i \in 1 .. Len(requests) : requests'[i] = requests[i]
      /\ \A i \in Len(requests) + 1 .. Len(requests) + n :
            requests'[i] = Len(ws) + (i - Len(requests))
  BY <1>1, RequestFacts
<1>3. \A i \in DOMAIN requests : requests[i] # Close =>
          /\ requests[i] \in 1 .. Len(ws)
          /\ workers[requests[i]].state = "requested"
          /\ \A j \in DOMAIN requests : requests[j] = requests[i] => i = j
  BY <1>1 DEF RequestsConsistent
<1> SUFFICES ASSUME NEW i \in 1 .. Len(requests) + n, requests'[i] # Close
             PROVE  /\ requests'[i] \in 1 .. Len(ws) + n
                    /\ workers'[requests'[i]].state = "requested"
                    /\ \A j \in 1 .. Len(requests) + n : requests'[j] = requests'[i] => i = j
  BY <1>2 DEF RequestsConsistent
<1>4. CASE i \in 1 .. Len(requests)
  <2>1. /\ requests'[i] = requests[i] /\ requests[i] \in 1 .. Len(ws)
        /\ workers[requests[i]].state = "requested"
        /\ \A j \in DOMAIN requests : requests[j] = requests[i] => i = j
    BY <1>2, <1>3, <1>4
  <2>2. workers'[requests'[i]].state = "requested"
    <3>1. requests[i] \in DOMAIN workers /\ workers[requests[i]].state = "requested"
      BY <1>1, <2>1
    <3>2. ws[requests[i]].state = "requested"
      BY <3>1
    <3>3. workers'[requests[i]] = ws[requests[i]]
      BY <1>2, <2>1
    <3> QED BY <2>1, <3>2, <3>3
  <2>3. ASSUME NEW j \in 1 .. Len(requests) + n, requests'[j] = requests'[i] PROVE i = j
    <3>1. CASE j \in 1 .. Len(requests)
      BY <1>2, <2>1, <2>3, <3>1
    <3>2. CASE j \in Len(requests) + 1 .. Len(requests) + n
      <4>1. requests'[j] = Len(ws) + (j - Len(requests))
        BY <1>2, <3>2
      <4> QED BY <1>1, <1>2, <2>1, <2>3, <3>2, <4>1
    <3> QED BY <1>2, <3>1, <3>2
  <2> QED BY <1>1, <2>1, <2>2, <2>3
<1>5. CASE i \in Len(requests) + 1 .. Len(requests) + n
  <2>1. requests'[i] = Len(ws) + (i - Len(requests))
    BY <1>2, <1>5
  <2>2. requests'[i] \in Len(ws) + 1 .. Len(ws) + n
    BY <1>1, <1>2, <1>5, <2>1
  <2>3. workers'[requests'[i]].state = "requested"
    BY <1>2, <2>2, HiredShape
  <2>4. ASSUME NEW j \in 1 .. Len(requests) + n, requests'[j] = requests'[i] PROVE i = j
    <3>1. CASE j \in 1 .. Len(requests)
      <4>1. requests'[j] = requests[j] /\ requests[j] # Close
        BY <1>2, <2>4, <3>1
      <4>2. requests[j] \in 1 .. Len(ws)
        BY <1>2, <1>3, <3>1, <4>1
      <4> QED BY <1>1, <2>2, <2>4, <4>1, <4>2
    <3>2. CASE j \in Len(requests) + 1 .. Len(requests) + n
      BY <1>1, <1>2, <1>5, <2>1, <2>4, <3>2
    <3> QED BY <1>2, <3>1, <3>2
  <2> QED BY <1>1, <2>2, <2>3, <2>4
<1> QED BY <1>2, <1>4, <1>5

LEMMA RequestsKept ==
    ASSUME Shape, RequestsConsistent, UNCHANGED requests,
           DOMAIN workers \subseteq DOMAIN workers',
           \A w \in DOMAIN workers : workers[w].state = "requested" => workers'[w].state = "requested"
    PROVE  RequestsConsistent'
BY DEF RequestsConsistent

\* A step replenishes the pool: q is it, ws are the workers but for those it requests.
LEMMA UpdateFacts ==
    ASSUME Shape, RequestsConsistent, NEW q \in PoolShape, NEW open, q.alive - open \in Nat,
           NEW ws \in Seq(WorkerShape), Len(ws) = Len(workers),
           \A w \in DOMAIN workers : workers[w].state = "requested" => ws[w].state = "requested",
           Update(q, open, ws)
    PROVE  /\ pool' = q
           /\ requests' \in Seq(Nat)
           /\ RequestsConsistent'
           /\ workers' \in Seq(WorkerShape)
           /\ DOMAIN workers = DOMAIN ws
           /\ DOMAIN workers \subseteq DOMAIN workers'
           /\ \A v \in DOMAIN workers : workers'[v] = ws[v]
           /\ \A v \in DOMAIN workers' : v \notin DOMAIN workers => workers'[v] = Hired(Pool)
<1> DEFINE n == q.alive - open
<1>1. pool' = q /\ Request(ws, Pool, n)
  BY DEF Update
<1>2. n \in Nat
  OBVIOUS
<1> HIDE DEF n
<1>3. RequestsConsistent'
  BY <1>1, <1>2, RequestConsistent
<1>4. requests \in Seq(Nat) /\ DOMAIN workers = 1 .. Len(ws) /\ Len(ws) \in Nat
  BY DEF Shape
<1>5. /\ workers' \in Seq(WorkerShape)
      /\ DOMAIN ws = 1 .. Len(ws)
      /\ DOMAIN workers' = 1 .. Len(ws) + n
      /\ \A w \in 1 .. Len(ws) : workers'[w] = ws[w]
      /\ \A w \in Len(ws) + 1 .. Len(ws) + n : workers'[w] = Hired(Pool)
      /\ requests' \in Seq(Nat)
  BY <1>1, <1>2, <1>4, RequestFacts
<1>6. ASSUME NEW v \in DOMAIN workers', v \notin DOMAIN workers PROVE workers'[v] = Hired(Pool)
  BY <1>2, <1>4, <1>5, <1>6
<1>7. DOMAIN workers \subseteq DOMAIN workers' /\ DOMAIN workers = DOMAIN ws
  BY <1>2, <1>4, <1>5
<1> QED BY <1>1, <1>3, <1>4, <1>5, <1>6, <1>7

\* A worker that the step does not concern stays consistent.
LEMMA OtherWorkers ==
    ASSUME Inv, NEW t, NEW w, Frame(t, w), NEW v \in DOMAIN workers, v # w,
           workers[v].test = t /\ t \in Tests => phase'[t] = phase[t] /\ record'[t] = record[t],
           workers[v].owner = t /\ t \in Tests =>
               /\ phase'[t] # "queued"
               /\ workers[v].state \in {"requested", "creating"} => phase'[t] = "requested"
    PROVE  WorkerConsistent(v)' /\ RanSafely(v)'
<1> DEFINE self == workers[v]
<1>1. self \in WorkerShape /\ workers'[v] = self /\ v \in DOMAIN workers'
  BY DEF Inv, Shape, Frame
<1>2. WorkerConsistent(v) /\ RanSafely(v)
  BY DEF Inv, WorkersConsistent
<1>3. /\ self.owner \in {Pool} \union Tests /\ self.test \in {None} \union Tests
      /\ self.ran \in Seq(Tests) /\ self.state \in States
  BY <1>1 DEF WorkerShape
<1>4. /\ phase \in [Tests -> Phases] /\ phase' \in [Tests -> Phases]
      /\ \A u \in Tests : u # t => phase'[u] = phase[u] /\ record'[u] = record[u]
      /\ t \in Tests /\ record[t] # <<>> => record'[t] = record[t]
  BY DEF Inv, Shape, Frame
<1>5. \A u \in Tests : record[u] \in {<<"passed">>, <<"failed">>} => record'[u] = record[u]
  BY <1>4
<1>6. Pooled(v)' <=> Pooled(v)
  BY <1>1 DEF Pooled
<1>7. \A u \in Tests : self.test = u => phase'[u] = phase[u] /\ record'[u] = record[u]
  BY <1>3, <1>4
<1>8. Reusable(v) => Reusable(v)'
  <2> SUFFICES ASSUME Reusable(v) PROVE Reusable(v)'
    OBVIOUS
  <2>1. Len(self.ran) \in 1 .. MaxTests - 1 /\ self.ran[Len(self.ran)] \in Tests
    BY <1>3 DEF Reusable
  <2> QED BY <1>1, <1>5, <1>6, <2>1 DEF Reusable
<1>9. RanSafely(v)'
  <2>1. \A i \in 2 .. Len(self.ran) : i - 1 \in 1 .. Len(self.ran) /\ self.ran[i - 1] \in Tests
    BY <1>3
  <2> QED BY <1>1, <1>2, <1>5, <1>6, <2>1 DEF RanSafely
<1>10. self.owner # Pool => phase'[self.owner] # "queued"
  BY <1>2, <1>3, <1>4 DEF WorkerConsistent
<1>11. self.owner # Pool /\ self.state \in {"requested", "creating"} =>
          phase'[self.owner] = "requested"
  BY <1>2, <1>3, <1>4 DEF WorkerConsistent
<1>12. self.test # None => phase'[self.test] = phase[self.test] /\ record'[self.test] = record[self.test]
  BY <1>3, <1>7
<1> HIDE DEF self
<1>13. WorkerConsistent(v)'
  BY <1>1, <1>2, <1>8, <1>10, <1>11, <1>12 DEF WorkerConsistent, self
<1> QED BY <1>9, <1>13

\* A session that was just requested is consistent.
LEMMA HiredConsistent ==
    ASSUME NEW v, workers'[v] = Hired(Pool)
    PROVE  WorkerConsistent(v)' /\ RanSafely(v)'
<1>1. /\ workers'[v].state = "requested" /\ workers'[v].owner = Pool
      /\ workers'[v].test = None /\ workers'[v].ran = <<>>
  BY HiredShape
<1>2. RanSafely(v)'
  <2>1. Len(<<>>) = 0
    OBVIOUS
  <2> QED BY <1>1, <2>1, SettingsAssumption DEF RanSafely
<1> QED BY <1>1, <1>2 DEF WorkerConsistent

LEMMA WorkersStep ==
    ASSUME Inv, NEW t, NEW w, StepOf(t, w),
           w \in DOMAIN workers => WorkerConsistent(w)' /\ RanSafely(w)',
           \A v \in DOMAIN workers : v # w /\ t \in Tests =>
               /\ workers[v].test = t => phase'[t] = phase[t] /\ record'[t] = record[t]
               /\ workers[v].owner = t =>
                     /\ phase'[t] # "queued"
                     /\ workers[v].state \in {"requested", "creating"} => phase'[t] = "requested"
    PROVE  WorkersConsistent'
<1> SUFFICES ASSUME NEW v \in DOMAIN workers' PROVE WorkerConsistent(v)' /\ RanSafely(v)'
  BY DEF WorkersConsistent
<1>1. CASE v \notin DOMAIN workers
  BY <1>1, HiredConsistent DEF StepOf, Frame
<1>2. CASE v \in DOMAIN workers /\ v # w
  BY <1>2, OtherWorkers DEF StepOf
<1>3. CASE v \in DOMAIN workers /\ v = w
  BY <1>3
<1> QED BY <1>1, <1>2, <1>3

LEMMA DistinctStep ==
    ASSUME Inv, NEW t, NEW w, StepOf(t, w),
           w \in DOMAIN workers =>
               /\ workers'[w].owner = workers[w].owner
               /\ workers'[w].test # None =>
                     \A v \in DOMAIN workers : v # w => workers[v].test # workers'[w].test
               /\ \A u \in Range(workers'[w].ran) : u \in Range(workers[w].ran) \/ Ran(u) = {}
    PROVE  WorkersDistinct'
<1>1. /\ \A v \in DOMAIN workers : v # w => workers'[v] = workers[v]
      /\ \A v \in DOMAIN workers' : v \notin DOMAIN workers => workers'[v] = Hired(Pool)
  BY DEF StepOf, Frame
<1>2. WorkersDistinct
  BY DEF Inv
<1>3. /\ Hired(Pool).owner = Pool /\ Hired(Pool).test = None
      /\ Range(Hired(Pool).ran) = {}
  BY HiredShape DEF Range
<1>4. w \in DOMAIN workers =>
        \A v \in DOMAIN workers : v # w =>
            Range(workers[v].ran) \intersect Range(workers'[w].ran) = {}
  BY <1>2 DEF WorkersDistinct, Ran
<1> SUFFICES ASSUME NEW u \in DOMAIN workers', NEW v \in DOMAIN workers', u # v
             PROVE  /\ workers'[u].owner # Pool => workers'[u].owner # workers'[v].owner
                    /\ workers'[u].test # None => workers'[u].test # workers'[v].test
                    /\ Range(workers'[u].ran) \intersect Range(workers'[v].ran) = {}
  BY DEF WorkersDistinct
<1>5. CASE u \notin DOMAIN workers \/ v \notin DOMAIN workers
  BY <1>1, <1>3, <1>5
<1>6. CASE u \in DOMAIN workers /\ v \in DOMAIN workers /\ u # w /\ v # w
  BY <1>1, <1>2, <1>6 DEF WorkersDistinct
<1>7. CASE u = w /\ v \in DOMAIN workers /\ w \in DOMAIN workers
  <2>1. workers'[v] = workers[v] /\ v # w
    BY <1>1, <1>7
  <2> QED BY <1>2, <1>4, <1>7, <2>1 DEF WorkersDistinct
<1>8. CASE v = w /\ u \in DOMAIN workers /\ w \in DOMAIN workers
  <2>1. workers'[u] = workers[u] /\ u # w
    BY <1>1, <1>8
  <2> QED BY <1>2, <1>4, <1>8, <2>1 DEF WorkersDistinct
<1> QED BY <1>5, <1>6, <1>7, <1>8

\* Where a test ran does not change, unless it is the one of the step.
LEMMA RanElsewhere ==
    ASSUME NEW t, NEW w, Frame(t, w), NEW u \in Tests,
           w \in DOMAIN workers =>
               (u \in Range(workers'[w].ran) <=> u \in Range(workers[w].ran))
    PROVE  Ran(u)' = Ran(u)
<1>1. /\ \A v \in DOMAIN workers : v # w => workers'[v] = workers[v]
      /\ \A v \in DOMAIN workers' : v \notin DOMAIN workers =>
            \E owner \in {Pool} \union Tests : workers'[v] = Hired(owner)
      /\ DOMAIN workers \subseteq DOMAIN workers'
  BY DEF Frame
<1>2. \A owner \in {Pool} \union Tests : Range(Hired(owner).ran) = {}
  BY HiredShape DEF Range
<1>3. \A v \in DOMAIN workers' : v \notin DOMAIN workers => u \notin Range(workers'[v].ran)
  BY <1>1, <1>2
<1>4. \A v \in DOMAIN workers : u \in Range(workers'[v].ran) <=> u \in Range(workers[v].ran)
  BY <1>1
<1>5. /\ Ran(u) = {v \in DOMAIN workers : u \in Range(workers[v].ran)}
      /\ Ran(u)' = {v \in DOMAIN workers' : u \in Range(workers'[v].ran)}
  BY DEF Ran
<1> QED BY <1>1, <1>3, <1>4, <1>5

LEMMA TestsStep ==
    ASSUME Inv, NEW t, NEW w, Frame(t, w), t \in Tests => TestConsistent(t)',
           w \in DOMAIN workers =>
               /\ \A u \in Tests : u # t =>
                     (u \in Range(workers'[w].ran) <=> u \in Range(workers[w].ran))
               /\ \A u \in Tests : u # t /\ workers[w].state = "quitting" /\ workers[w].test = u =>
                     workers'[w].state = "quitting" /\ workers'[w].test = u
    PROVE  TestsConsistent'
<1> SUFFICES ASSUME NEW u \in Tests, u # t PROVE TestConsistent(u)'
  BY DEF TestsConsistent
<1>1. phase'[u] = phase[u] /\ record'[u] = record[u]
      /\ (cancelled => cancelled') /\ (keepStarting' => keepStarting)
  BY DEF Frame
<1>2. Ran(u)' = Ran(u)
  BY RanElsewhere
<1>3. TestConsistent(u)
  BY DEF Inv, TestsConsistent
<1>4. ASSUME NEW v \in DOMAIN workers, workers[v].state = "quitting", workers[v].test = u
      PROVE  v \in DOMAIN workers' /\ workers'[v].state = "quitting" /\ workers'[v].test = u
  BY <1>4 DEF Frame
<1>5. (\E v \in DOMAIN workers : workers[v].state = "quitting" /\ workers[v].test = u) =>
        \E v \in DOMAIN workers' : workers'[v].state = "quitting" /\ workers'[v].test = u
  BY <1>4
<1> QED BY <1>1, <1>2, <1>3, <1>5 DEF TestConsistent

\* A ticket stays good if its session does.
LEMMA TicketsStep ==
    ASSUME Inv, NEW t, NEW w, Frame(t, w), cancelled' \in BOOLEAN,
           Within(pool'.idle, pool.idle),
           w \in DOMAIN workers =>
               /\ workers[w].state # "ended" /\ workers'[w].owner = workers[w].owner
               /\ ~cancelled /\ ~cancelled' => \A i \in DOMAIN pool'.idle :
                     IsOk(pool'.idle[i]) => pool'.idle[i].session # w
    PROVE  TicketsConsistent'
<1>1. PICK f \in [DOMAIN pool'.idle -> DOMAIN pool.idle] :
          /\ \A i, j \in DOMAIN pool'.idle : f[i] = f[j] => i = j
          /\ \A i \in DOMAIN pool'.idle : pool'.idle[i] = pool.idle[f[i]]
  BY DEF Within
<1> SUFFICES ASSUME NEW i \in DOMAIN pool'.idle, NEW ticket, ticket = pool'.idle[i],
                    NEW v, v = ticket.session
             PROVE  /\ v \in DOMAIN workers' /\ Pooled(v)'
                    /\ ticket.sort = "failed" => workers'[v].state = "ended"
                    /\ ~cancelled' /\ IsOk(ticket) =>
                          /\ workers'[v].state = "offered"
                          /\ \A j \in DOMAIN pool'.idle : pool'.idle[j].session = v => i = j
                          /\ ticket.sort = "created" => workers'[v].ran = <<>>
                          /\ ticket.sort = "reset" => Reusable(v)'
  BY DEF TicketsConsistent, IsOk
<1>2. f[i] \in DOMAIN pool.idle /\ ticket = pool.idle[f[i]]
  BY <1>1
<1>3. /\ v \in DOMAIN workers /\ Pooled(v)
      /\ ticket.sort = "failed" => workers[v].state = "ended"
      /\ ~cancelled /\ IsOk(ticket) =>
            /\ workers[v].state = "offered"
            /\ \A j \in DOMAIN pool.idle : pool.idle[j].session = v => f[i] = j
            /\ ticket.sort = "created" => workers[v].ran = <<>>
            /\ ticket.sort = "reset" => Reusable(v)
  BY <1>2 DEF Inv, TicketsConsistent
<1>4. /\ v \in DOMAIN workers' /\ Pooled(v)'
      /\ ticket.sort = "failed" => workers'[v].state = "ended"
  BY <1>3 DEF Frame, Pooled
<1>5. SUFFICES ASSUME ~cancelled', IsOk(ticket)
               PROVE  /\ workers'[v].state = "offered"
                      /\ \A j \in DOMAIN pool'.idle : pool'.idle[j].session = v => i = j
                      /\ ticket.sort = "created" => workers'[v].ran = <<>>
                      /\ ticket.sort = "reset" => Reusable(v)'
  BY <1>4
<1>6. ~cancelled
  BY <1>5 DEF Frame
<1>7. v # w
  BY <1>3, <1>5, <1>6
<1>8. workers'[v] = workers[v]
  BY <1>3, <1>7 DEF Frame
<1>9. \A j \in DOMAIN pool'.idle : pool'.idle[j].session = v => i = j
  BY <1>1, <1>3, <1>5, <1>6
<1>10. Reusable(v) => Reusable(v)'
  <2> SUFFICES ASSUME Reusable(v) PROVE Reusable(v)'
    OBVIOUS
  <2>1. workers[v].ran \in Seq(Tests)
    <3>1. workers[v] \in WorkerShape
      BY <1>3 DEF Inv, Shape
    <3> QED BY <3>1 DEF WorkerShape
  <2>2. Len(workers[v].ran) \in 1 .. MaxTests - 1 /\ workers[v].ran[Len(workers[v].ran)] \in Tests
    <3>1. Len(workers[v].ran) \in 1 .. MaxTests - 1
      BY DEF Reusable
    <3>2. DOMAIN workers[v].ran = 1 .. Len(workers[v].ran)
      BY <2>1
    <3>3. Len(workers[v].ran) \in DOMAIN workers[v].ran
      BY <3>1, <3>2, SettingsAssumption
    <3> QED BY <2>1, <3>1, <3>3
  <2>3. \A u \in Tests : record[u] \in {<<"passed">>, <<"failed">>} => record'[u] = record[u]
    <3>1. /\ \A u \in Tests : u # t => record'[u] = record[u]
          /\ t \in Tests /\ record[t] # <<>> => record'[t] = record[t]
      BY DEF Frame
    <3>2. \A u \in Tests : record[u] # <<>> => record'[u] = record[u]
      BY <3>1, Zenon
    <3>3. <<"passed">> # <<>> /\ <<"failed">> # <<>>
      OBVIOUS
    <3> QED BY <3>2, <3>3, Zenon
  <2>4. record'[workers[v].ran[Len(workers[v].ran)]] = record[workers[v].ran[Len(workers[v].ran)]]
    BY <2>2, <2>3 DEF Reusable
  <2> QED BY <1>4, <1>8, <2>2, <2>4 DEF Reusable, Pooled
<1> QED BY <1>3, <1>5, <1>6, <1>8, <1>9, <1>10

\* What the executor's walk relies on: a child is started once, tests that are done stay so.
LEMMA TreeStep ==
    ASSUME Inv, UNCHANGED <<suite, started>>, NEW t,
           \A u \in Tests : u # t => phase'[u] = phase[u],
           t \in Tests => phase[t] # "queued" /\ (phase[t] = "done" => phase'[t] = "done")
    PROVE  TreeConsistent'
<1> SUFFICES ASSUME NEW s \in Suites, NEW i \in DOMAIN Children[s],
                    NEW n, n = Children[s][i]
             PROVE  /\ i > started[s] => IF n \in Tests THEN phase'[n] = "queued"
                                                        ELSE suite[n] = "unstarted"
                    /\ suite[s] = "done" => Done(n)'
  BY DEF TreeConsistent
<1>1. /\ i > started[s] => IF n \in Tests THEN phase[n] = "queued" ELSE suite[n] = "unstarted"
      /\ suite[s] = "done" => Done(n)
  BY DEF Inv, TreeConsistent
<1> QED BY <1>1 DEF Done

-----------------------------------------------------------------------------
(* What ends or continues the wait of a test.                              *)

LEMMA StopOnFacts ==
    ASSUME Shape, NEW t, NEW failed \in BOOLEAN, StopOn(failed, t)
    PROVE  /\ keepStarting' \in BOOLEAN /\ (keepStarting' => keepStarting)
           /\ woken \ {t} \subseteq woken' /\ woken' \subseteq Waiting \ {t}
           /\ keepStarting' = keepStarting \/ Waiting \ {t} \subseteq woken'
           /\ ~failed => keepStarting' = keepStarting
BY DEF StopOn, Shape

\* No wakeup is lost where tickets only leave the pool, and whoever stops the run wakes all.
LEMMA WakeupKept ==
    ASSUME Inv, NEW t, \A u \in Tests : u # t => phase'[u] = phase[u],
           pool'.idle \in Queue, Within(pool'.idle, pool.idle),
           woken \ {t} \subseteq woken',
           keepStarting' = keepStarting \/ Waiting \ {t} \subseteq woken',
           cancelled => cancelled',
           t \in Tests /\ phase'[t] = "waiting" /\ ~cancelled' =>
               t \in woken' \/ (MayStart(t)' /\ Position(pool'.idle, Kind(t)) = 0)
    PROVE  NoLostWakeup'
<1> SUFFICES ASSUME NEW u \in Tests, phase'[u] = "waiting", u \notin woken', ~cancelled'
             PROVE  MayStart(u)' /\ Position(pool'.idle, Kind(u)) = 0
  BY DEF NoLostWakeup, Waiting
<1>1. CASE u = t
  BY <1>1
<1>2. CASE u # t
  <2>1. u \in Waiting /\ u \notin woken /\ ~cancelled /\ keepStarting' = keepStarting
    BY <1>2 DEF Waiting
  <2>2. MayStart(u) /\ Position(pool.idle, Kind(u)) = 0
    BY <2>1 DEF Inv, NoLostWakeup
  <2>3. pool.idle \in Queue
    BY DEF Inv, Shape, PoolShape
  <2>4. Position(pool'.idle, Kind(u)) = 0
    BY <2>2, <2>3, KindType, WithinPosition
  <2> QED BY <2>1, <2>2, <2>4 DEF MayStart
<1> QED BY <1>1, <1>2

\* Tickets that are left are as good as the queue they are left from.
LEMMA TicketWithin ==
    ASSUME Inv, NEW q, Within(q, pool.idle), NEW i \in DOMAIN q, NEW w, w = q[i].session
    PROVE  /\ w \in DOMAIN workers /\ Pooled(w)
           /\ ~cancelled /\ IsOk(q[i]) =>
                 /\ workers[w].state = "offered"
                 /\ \A j \in DOMAIN q : q[j].session = w => i = j
                 /\ q[i].sort = "created" => workers[w].ran = <<>>
                 /\ q[i].sort = "reset" => Reusable(w)
<1>1. PICK f \in [DOMAIN q -> DOMAIN pool.idle] :
          /\ \A k, j \in DOMAIN q : f[k] = f[j] => k = j
          /\ \A k \in DOMAIN q : q[k] = pool.idle[f[k]]
  BY DEF Within
<1>2. f[i] \in DOMAIN pool.idle /\ q[i] = pool.idle[f[i]]
  BY <1>1
<1>3. /\ w \in DOMAIN workers /\ Pooled(w)
      /\ ~cancelled /\ IsOk(q[i]) =>
            /\ workers[w].state = "offered"
            /\ \A j \in DOMAIN pool.idle : pool.idle[j].session = w => f[i] = j
            /\ q[i].sort = "created" => workers[w].ran = <<>>
            /\ q[i].sort = "reset" => Reusable(w)
  BY <1>2 DEF Inv, TicketsConsistent
<1>4. ~cancelled /\ IsOk(q[i]) => \A j \in DOMAIN q : q[j].session = w => i = j
  BY <1>1, <1>3
<1> QED BY <1>3, <1>4

\* The only ticket of a session is gone once it was removed.
LEMMA TicketRemoved ==
    ASSUME NEW q \in Queue, NEW i \in 1 .. Len(q), NEW w,
           \A j \in DOMAIN q : q[j].session = w => i = j,
           NEW r, Within(r, RemoveAt(q, i))
    PROVE  \A j \in DOMAIN r : r[j].session # w
<1> DEFINE s == RemoveAt(q, i)
<1>1. /\ s \in Queue /\ Len(s) = Len(q) - 1
      /\ \A k \in 1 .. i - 1 : s[k] = q[k]
      /\ \A k \in i .. Len(q) - 1 : s[k] = q[k + 1]
  BY RemoveAtFacts
<1>2. Within(r, s)
  OBVIOUS
<1> HIDE DEF s
<1>3. Len(q) \in Nat /\ DOMAIN q = 1 .. Len(q) /\ DOMAIN s = 1 .. Len(s)
  BY <1>1 DEF Queue
<1>4. \A k \in DOMAIN s : s[k].session # w
  BY <1>1, <1>3
<1> QED BY <1>2, <1>4, WithinTickets

\* The frame of a step of test t that leaves the sessions there are alone.
LEMMA TestFrame ==
    ASSUME Inv, NEW t \in Tests, NEW x \in Phases, phase' = [phase EXCEPT ![t] = x],
           record' \in [Tests -> Seq(Recorded)],
           \A u \in Tests : u # t => record'[u] = record[u],
           record[t] = <<>>,
           workers' \in Seq(WorkerShape), DOMAIN workers \subseteq DOMAIN workers',
           \A v \in DOMAIN workers : workers'[v] = workers[v],
           \A v \in DOMAIN workers' : v \notin DOMAIN workers => workers'[v] = Hired(Pool),
           cancelled => cancelled', keepStarting' => keepStarting
    PROVE  /\ StepOf(t, 0) /\ 0 \notin DOMAIN workers
           /\ phase'[t] = x /\ \A u \in Tests : u # t => phase'[u] = phase[u]
<1>1. phase \in [Tests -> Phases] /\ workers \in Seq(WorkerShape)
  BY DEF Inv, Shape
<1>2. 0 \notin DOMAIN workers
  BY <1>1
<1>3. phase' \in [Tests -> Phases] /\ phase'[t] = x /\ \A u \in Tests : u # t => phase'[u] = phase[u]
  BY <1>1
<1> QED BY <1>2, <1>3 DEF StepOf, Frame

\* No session is there that is for the test or runs it.
LEMMA TestHasNoWorker ==
    ASSUME Inv, NEW t \in Tests, phase[t] \in Before, NEW v \in DOMAIN workers
    PROVE  /\ workers[v].test # t
           /\ phase[t] # "requested" /\ workers[v].owner = t =>
                 workers[v].state \notin {"requested", "creating"}
           /\ phase[t] = "queued" => workers[v].owner # t
<1>1. t # None /\ t # Pool
  BY TestsAssumption
<1>2. workers[v] \in WorkerShape /\ WorkerConsistent(v)
  BY DEF Inv, Shape, WorkersConsistent
<1>3. workers[v].state \in States
  BY <1>2 DEF WorkerShape
<1>4. ASSUME workers[v].test = t PROVE FALSE
  <2>1. phase[t] \in {"running", "done"}
    BY <1>1, <1>2, <1>3, <1>4 DEF WorkerConsistent, States
  <2> QED BY <2>1 DEF Before
<1> QED BY <1>1, <1>2, <1>4 DEF WorkerConsistent

\* The test returns without having started: NotStarted, because it may not start, or
\* FailsToStart.
LEMMA TestReturns ==
    ASSUME Inv, NEW t \in Tests, phase[t] \in Before,
           \/ NotStarted(t) /\ (cancelled' \/ ~MayStart(t))
           \/ \E outcome \in Recorded : FailsToStart(t, outcome),
           workers' \in Seq(WorkerShape), DOMAIN workers \subseteq DOMAIN workers',
           \A v \in DOMAIN workers : workers'[v] = workers[v],
           \A v \in DOMAIN workers' : v \notin DOMAIN workers => workers'[v] = Hired(Pool),
           \A v \in DOMAIN workers :
               workers[v].owner = t => workers[v].state \notin {"requested", "creating"},
           requests' \in Seq(Nat), RequestsConsistent',
           pool' \in PoolShape, Within(pool'.idle, pool.idle),
           cancelled' \in BOOLEAN, cancelled => cancelled',
           suite' \in [Suites -> {"unstarted", "running", "done"}],
           started' \in [Suites -> Nat], TreeConsistent'
    PROVE  Inv'
<1>1. Shape /\ TestConsistent(t) /\ record \in [Tests -> Seq(Recorded)]
  BY DEF Inv, TestsConsistent, Shape
<1>2. record[t] = <<>> /\ Ran(t) = {}
  BY <1>1 DEF TestConsistent, Before
<1>3. phase' = [phase EXCEPT ![t] = "done"] /\ \E failed \in BOOLEAN : StopOn(failed, t)
  BY DEF NotStarted, FailsToStart
<1>4. /\ keepStarting' \in BOOLEAN /\ (keepStarting' => keepStarting)
      /\ woken \ {t} \subseteq woken' /\ woken' \subseteq Waiting \ {t}
      /\ keepStarting' = keepStarting \/ Waiting \ {t} \subseteq woken'
  BY <1>1, <1>3, StopOnFacts
<1>5. /\ record' \in [Tests -> Seq(Recorded)]
      /\ \A u \in Tests : u # t => record'[u] = record[u]
      /\ Len(record'[t]) <= 1
      /\ record'[t] = <<>> => cancelled' \/ (~keepStarting' /\ t \notin RunAlways)
  <2>1. CASE NotStarted(t) /\ (cancelled' \/ ~MayStart(t))
    <3>1. record' = record
      BY <2>1 DEF NotStarted
    <3>2. cancelled' \/ (~keepStarting' /\ t \notin RunAlways)
      BY <1>4, <2>1 DEF MayStart
    <3> QED BY <1>1, <1>2, <3>1, <3>2
  <2>2. CASE \E outcome \in Recorded : FailsToStart(t, outcome)
    <3>1. PICK outcome \in Recorded : record' = [record EXCEPT ![t] = Append(@, outcome)]
      BY <2>2 DEF FailsToStart, Record
    <3>2. /\ Append(record[t], outcome) \in Seq(Recorded)
          /\ Append(record[t], outcome) # <<>> /\ Len(Append(record[t], outcome)) = 1
      BY <1>1, <1>2, AppendProperties
    <3>3. record'[t] = Append(record[t], outcome)
      BY <1>1, <3>1
    <3> QED BY <1>1, <3>1, <3>2, <3>3
  <2> QED BY <2>1, <2>2
<1>6. /\ StepOf(t, 0) /\ 0 \notin DOMAIN workers
      /\ phase'[t] = "done" /\ \A u \in Tests : u # t => phase'[u] = phase[u]
  <2>1. "done" \in Phases
    BY DEF Phases
  <2> QED BY <1>2, <1>3, <1>4, <1>5, <2>1, TestFrame
<1>7. Ran(t)' = {}
  BY <1>2, <1>6, RanElsewhere DEF StepOf
<1>8. \A v \in DOMAIN workers : workers[v].test # t
  BY TestHasNoWorker
<1>9. WorkersConsistent'
  BY <1>6, <1>8, WorkersStep
<1>10. WorkersDistinct'
  BY <1>6, DistinctStep
<1>11. TestsConsistent'
  <2>1. TestConsistent(t)'
    BY <1>5, <1>6, <1>7 DEF TestConsistent, Before
  <2> QED BY <1>6, <2>1, TestsStep DEF StepOf
<1>12. TicketsConsistent'
  BY <1>6, TicketsStep DEF StepOf
<1>13. NoLostWakeup'
  <2>1. pool'.idle \in Queue
    BY DEF PoolShape
  <2> QED BY <1>4, <1>6, <2>1, WakeupKept
<1>14. Shape'
  <2>1. woken' \subseteq Waiting'
    BY <1>4, <1>6 DEF Waiting
  <2> QED BY <1>4, <1>5, <1>6, <2>1 DEF Shape, StepOf, Frame
<1> QED BY <1>9, <1>10, <1>11, <1>12, <1>13, <1>14 DEF Inv

\* The test waits for a session: there is no ticket for it.
LEMMA TestWaits ==
    ASSUME Inv, NEW t \in Tests, phase[t] \in {"queued", "waiting"}, MayStart(t),
           phase' = [phase EXCEPT ![t] = "waiting"], woken' = woken \ {t},
           UNCHANGED <<keepStarting, cancelled, record>>,
           workers' \in Seq(WorkerShape), DOMAIN workers \subseteq DOMAIN workers',
           \A v \in DOMAIN workers : workers'[v] = workers[v],
           \A v \in DOMAIN workers' : v \notin DOMAIN workers => workers'[v] = Hired(Pool),
           requests' \in Seq(Nat), RequestsConsistent',
           pool' \in PoolShape, Within(pool'.idle, pool.idle), Position(pool'.idle, Kind(t)) = 0,
           suite' \in [Suites -> {"unstarted", "running", "done"}],
           started' \in [Suites -> Nat], TreeConsistent'
    PROVE  Inv'
<1>1. Shape /\ TestConsistent(t) /\ record \in [Tests -> Seq(Recorded)]
  BY DEF Inv, TestsConsistent, Shape
<1>2. record[t] = <<>> /\ Ran(t) = {} /\ phase[t] \in Before
  BY <1>1 DEF TestConsistent, Before
<1>3. /\ StepOf(t, 0) /\ 0 \notin DOMAIN workers
      /\ phase'[t] = "waiting" /\ \A u \in Tests : u # t => phase'[u] = phase[u]
  <2>1. "waiting" \in Phases
    BY DEF Phases
  <2> QED BY <1>1, <1>2, <2>1, TestFrame
<1>4. Ran(t)' = {}
  BY <1>2, <1>3, RanElsewhere DEF StepOf
<1>5. \A v \in DOMAIN workers :
          /\ workers[v].test # t
          /\ workers[v].owner = t => workers[v].state \notin {"requested", "creating"}
  BY <1>2, TestHasNoWorker
<1>6. WorkersConsistent'
  <2>1. \A v \in DOMAIN workers : v # 0 /\ t \in Tests =>
            /\ workers[v].test = t => phase'[t] = phase[t] /\ record'[t] = record[t]
            /\ workers[v].owner = t =>
                  /\ phase'[t] # "queued"
                  /\ workers[v].state \in {"requested", "creating"} => phase'[t] = "requested"
    BY <1>3, <1>5
  <2> QED BY <1>3, <2>1, WorkersStep
<1>7. WorkersDistinct'
  BY <1>3, DistinctStep
<1>8. TestsConsistent'
  <2>1. TestConsistent(t)'
    BY <1>2, <1>3, <1>4 DEF TestConsistent
  <2> QED BY <1>3, <2>1, TestsStep DEF StepOf
<1>9. cancelled \in BOOLEAN /\ TicketsConsistent'
  <2>1. cancelled' \in BOOLEAN
    BY <1>1 DEF Shape
  <2> QED BY <1>3, <2>1, TicketsStep DEF StepOf
<1>10. NoLostWakeup'
  <2>1. pool'.idle \in Queue /\ MayStart(t)'
    BY DEF PoolShape, MayStart
  <2> QED BY <1>3, <2>1, WakeupKept
<1>11. Shape'
  <2>1. woken' \subseteq Waiting'
    BY <1>1, <1>3 DEF Shape, Waiting
  <2> QED BY <1>1, <1>3, <2>1 DEF Shape, StepOf, Frame
<1> QED BY <1>6, <1>7, <1>8, <1>9, <1>10, <1>11 DEF Inv

LEMMA AppendRan ==
    ASSUME NEW ran \in Seq(Tests), NEW t \in Tests
    PROVE  /\ Append(ran, t) \in Seq(Tests) /\ Append(ran, t) # <<>>
           /\ Len(Append(ran, t)) = Len(ran) + 1 /\ Len(ran) \in Nat
           /\ \A i \in 1 .. Len(ran) : Append(ran, t)[i] = ran[i]
           /\ Append(ran, t)[Len(ran) + 1] = t
           /\ Range(Append(ran, t)) = Range(ran) \union {t}
<1> DEFINE more == Append(ran, t)
<1>1. /\ more \in Seq(Tests) /\ more # <<>> /\ Len(more) = Len(ran) + 1
      /\ \A i \in 1 .. Len(ran) : more[i] = ran[i]
      /\ more[Len(ran) + 1] = t
  BY AppendProperties
<1> HIDE DEF more
<1>2. Len(ran) \in Nat /\ DOMAIN ran = 1 .. Len(ran) /\ DOMAIN more = 1 .. Len(ran) + 1
  BY <1>1
<1>3. Range(more) = Range(ran) \union {t}
  <2>1. \A i \in DOMAIN more : more[i] \in Range(ran) \union {t}
    BY <1>1, <1>2 DEF Range
  <2>2. \A i \in DOMAIN ran : ran[i] \in Range(more)
    BY <1>1, <1>2 DEF Range
  <2>3. t \in Range(more)
    BY <1>1, <1>2 DEF Range
  <2> QED BY <2>1, <2>2, <2>3 DEF Range
<1> QED BY <1>1, <1>2, <1>3 DEF more

\* The test starts in session w, which was offered: by a ticket that is gone, or to the test.
LEMMA TestStarts ==
    ASSUME Inv, NEW t \in Tests, phase[t] \in Before, StartsBody(t), ~cancelled,
           NEW w \in DOMAIN workers, workers[w].state = "offered",
           Pooled(w) \/ workers[w].owner = t,
           workers[w].ran = <<>> \/ (Reusable(w) /\ t \notin Fresh),
           \A i \in DOMAIN pool'.idle : IsOk(pool'.idle[i]) => pool'.idle[i].session # w,
           workers' \in Seq(WorkerShape), DOMAIN workers \subseteq DOMAIN workers',
           \A v \in DOMAIN workers : workers'[v] = Assigned(t, w)[v],
           \A v \in DOMAIN workers' : v \notin DOMAIN workers => workers'[v] = Hired(Pool),
           phase[t] = "requested" => workers[w].owner = t,
           requests' \in Seq(Nat), RequestsConsistent',
           pool' \in PoolShape, Within(pool'.idle, pool.idle),
           suite' \in [Suites -> {"unstarted", "running", "done"}],
           started' \in [Suites -> Nat], TreeConsistent'
    PROVE  Inv'
<1>1. Shape /\ TestConsistent(t) /\ record \in [Tests -> Seq(Recorded)]
      /\ workers \in Seq(WorkerShape) /\ phase \in [Tests -> Phases]
  BY DEF Inv, TestsConsistent, Shape
<1>2. record[t] = <<>> /\ Ran(t) = {}
  BY <1>1 DEF TestConsistent, Before
<1>3. /\ phase' = [phase EXCEPT ![t] = "running"] /\ StopOn(FALSE, t)
      /\ cancelled' = cancelled /\ record' = record
  BY DEF StartsBody
<1>4. /\ keepStarting' \in BOOLEAN /\ (keepStarting' => keepStarting)
      /\ woken \ {t} \subseteq woken' /\ woken' \subseteq Waiting \ {t}
      /\ keepStarting' = keepStarting \/ Waiting \ {t} \subseteq woken'
  BY <1>1, <1>3, StopOnFacts
<1>5. phase' \in [Tests -> Phases] /\ phase'[t] = "running"
      /\ \A u \in Tests : u # t => phase'[u] = phase[u]
  <2>1. "running" \in Phases
    BY DEF Phases
  <2> QED BY <1>1, <1>3, <2>1
<1> DEFINE self == workers[w]
<1>6. self \in WorkerShape /\ self.ran \in Seq(Tests) /\ WorkerConsistent(w) /\ RanSafely(w)
      /\ self.owner \in {Pool} \union Tests
  <2>1. self \in WorkerShape /\ WorkerConsistent(w) /\ RanSafely(w)
    BY <1>1 DEF Inv, WorkersConsistent
  <2> QED BY <2>1 DEF WorkerShape
<1>7. /\ workers'[w] = [self EXCEPT !.state = "running", !.test = t, !.ran = Append(@, t)]
      /\ \A v \in DOMAIN workers : v # w => workers'[v] = workers[v]
  BY <1>1 DEF Assigned
<1>8. /\ workers'[w].state = "running" /\ workers'[w].test = t
      /\ workers'[w].owner = self.owner /\ workers'[w].baseline = self.baseline
      /\ workers'[w].ran = Append(self.ran, t)
  BY <1>6, <1>7 DEF WorkerShape
<1>9. StepOf(t, w)
  BY <1>1, <1>2, <1>3, <1>4, <1>5, <1>7 DEF StepOf, Frame
<1> HIDE DEF self
<1>10. /\ Append(self.ran, t) \in Seq(Tests) /\ Append(self.ran, t) # <<>>
       /\ Len(Append(self.ran, t)) = Len(self.ran) + 1 /\ Len(self.ran) \in Nat
       /\ \A i \in 1 .. Len(self.ran) : Append(self.ran, t)[i] = self.ran[i]
       /\ Append(self.ran, t)[Len(self.ran) + 1] = t
  BY <1>6, AppendRan
<1>11. Range(workers'[w].ran) = Range(self.ran) \union {t}
  BY <1>6, <1>8, AppendRan
<1>12. t # None /\ \A v \in DOMAIN workers : workers[v].test # t
  BY TestHasNoWorker, TestsAssumption DEF self
<1>13. \A v \in DOMAIN workers : v # w /\ workers[v].owner = t =>
            workers[v].state \notin {"requested", "creating"}
  <2> SUFFICES ASSUME NEW v \in DOMAIN workers, v # w, workers[v].owner = t
               PROVE  workers[v].state \notin {"requested", "creating"}
    OBVIOUS
  <2>1. CASE phase[t] = "requested"
    <3>1. t # Pool
      BY TestsAssumption
    <3> QED BY <2>1, <3>1 DEF Inv, WorkersDistinct
  <2>2. CASE phase[t] # "requested"
    BY <2>2, TestHasNoWorker
  <2> QED BY <2>1, <2>2
<1>14. WorkerConsistent(w)'
  <2>1. self.owner # Pool => phase'[self.owner] # "queued"
    BY <1>5, <1>6 DEF WorkerConsistent, self
  <2>2. workers'[w].ran # <<>> /\ workers'[w].ran[Len(workers'[w].ran)] = t
    BY <1>8, <1>10
  <2> QED BY <1>5, <1>8, <1>12, <2>1, <2>2 DEF WorkerConsistent
<1>15. RanSafely(w)'
  <2>1. Pooled(w)' <=> Pooled(w)
    BY <1>8 DEF Pooled, self
  <2>2. CASE self.ran = <<>>
    <3>1. Len(workers'[w].ran) = 1
      BY <1>8, <1>10, <2>2
    <3> QED BY <3>1, SettingsAssumption DEF RanSafely
  <2>3. CASE Reusable(w) /\ t \notin Fresh
    <3>1. /\ Reuse /\ Pooled(w) /\ self.baseline /\ Len(self.ran) \in 1 .. MaxTests - 1
          /\ record[self.ran[Len(self.ran)]] \in {<<"passed">>, <<"failed">>}
      BY <2>3 DEF Reusable, self
    <3>2. Len(workers'[w].ran) <= MaxTests
      BY <1>8, <1>10, <3>1, SettingsAssumption
    <3>3. \A i \in 2 .. Len(self.ran) :
              self.ran[i] \notin Fresh /\ record[self.ran[i - 1]] \in {<<"passed">>, <<"failed">>}
      BY <1>6 DEF RanSafely, self
    <3>4. ASSUME NEW i \in 2 .. Len(self.ran) + 1
          PROVE  /\ Append(self.ran, t)[i] \notin Fresh
                 /\ record'[Append(self.ran, t)[i - 1]] \in {<<"passed">>, <<"failed">>}
      <4>1. CASE i \in 2 .. Len(self.ran)
        BY <1>3, <1>10, <3>3, <4>1
      <4>2. CASE i = Len(self.ran) + 1
        <5>1. i - 1 = Len(self.ran) /\ i - 1 \in 1 .. Len(self.ran)
          BY <1>10, <3>1, <4>2
        <5> QED BY <1>3, <1>10, <2>3, <3>1, <4>2, <5>1
      <4> QED BY <1>10, <4>1, <4>2
    <3> QED BY <1>8, <1>10, <2>1, <3>1, <3>2, <3>4 DEF RanSafely
  <2> QED BY <2>2, <2>3 DEF self
<1>16. WorkersConsistent'
  BY <1>5, <1>9, <1>12, <1>13, <1>14, <1>15, WorkersStep
<1>17. WorkersDistinct'
  <2>1. \A u \in Range(workers'[w].ran) : u \in Range(workers[w].ran) \/ Ran(u) = {}
    BY <1>2, <1>11 DEF self
  <2> QED BY <1>8, <1>9, <1>12, <2>1, DistinctStep DEF self
<1>18. TestsConsistent'
  <2>1. TestConsistent(t)'
    BY <1>2, <1>3, <1>5 DEF TestConsistent, Before
  <2>2. \A u \in Tests : u # t => (u \in Range(workers'[w].ran) <=> u \in Range(workers[w].ran))
    BY <1>11 DEF self
  <2> QED BY <1>9, <2>1, <2>2, TestsStep DEF StepOf
<1>19. TicketsConsistent'
  <2>1. cancelled' \in BOOLEAN
    BY <1>1, <1>3 DEF Shape
  <2> QED BY <1>8, <1>9, <2>1, TicketsStep DEF self, StepOf
<1>20. NoLostWakeup'
  <2>1. pool'.idle \in Queue
    BY DEF PoolShape
  <2> QED BY <1>3, <1>4, <1>5, <2>1, WakeupKept
<1>21. Shape'
  <2>1. woken' \subseteq Waiting'
    BY <1>4, <1>5 DEF Waiting
  <2> QED BY <1>1, <1>3, <1>4, <1>5, <2>1 DEF Shape, StepOf, Frame
<1> QED BY <1>16, <1>17, <1>18, <1>19, <1>20, <1>21 DEF Inv

-----------------------------------------------------------------------------
(* The executor.                                                           *)

LEMMA ChangedWorker ==
    ASSUME workers \in Seq(WorkerShape), NEW w \in DOMAIN workers, NEW e \in WorkerShape,
           NEW ws, ws = [workers EXCEPT ![w] = e]
    PROVE  /\ ws \in Seq(WorkerShape) /\ Len(ws) = Len(workers) /\ DOMAIN ws = DOMAIN workers
           /\ ws[w] = e
           /\ \A v \in DOMAIN workers : v # w => ws[v] = workers[v]
<1>1. w \in 1 .. Len(workers) /\ DOMAIN workers = 1 .. Len(workers)
  OBVIOUS
<1>2. ws \in Seq(WorkerShape) /\ Len(ws) = Len(workers)
  BY <1>1, ExceptSeq
<1>3. \A v \in 1 .. Len(workers) : ws[v] = IF v = w THEN e ELSE workers[v]
  BY <1>1
<1> QED BY <1>1, <1>2, <1>3

LEMMA AssignedFacts ==
    ASSUME workers \in Seq(WorkerShape), NEW t \in Tests, NEW w \in DOMAIN workers
    PROVE  /\ Assigned(t, w) \in Seq(WorkerShape)
           /\ Len(Assigned(t, w)) = Len(workers) /\ DOMAIN Assigned(t, w) = DOMAIN workers
           /\ \A v \in DOMAIN workers : v # w => Assigned(t, w)[v] = workers[v]
<1> DEFINE e == [workers[w] EXCEPT !.state = "running", !.test = t, !.ran = Append(@, t)]
<1>1. workers[w] \in WorkerShape
  OBVIOUS
<1>2. Append(workers[w].ran, t) \in Seq(Tests)
  BY <1>1 DEF WorkerShape
<1>3. e \in WorkerShape
  BY <1>1, <1>2 DEF WorkerShape, States
<1>4. Assigned(t, w) = [workers EXCEPT ![w] = e]
  BY <1>1 DEF Assigned, WorkerShape
<1> HIDE DEF e
<1> QED BY <1>3, <1>4, ChangedWorker

LEMMA RunningChanged ==
    ASSUME NEW q \in PoolShape, NEW r, r = [q EXCEPT !.running = @ - 1]
    PROVE  r \in PoolShape /\ r.idle = q.idle /\ r.alive = q.alive
BY DEF PoolShape

LEMMA ServeFacts ==
    ASSUME NEW p \in PoolShape, NEW kind \in C!Kinds, NEW i \in 1 .. Len(p.idle),
           NEW keep \in BOOLEAN, NEW cancel \in BOOLEAN,
           NEW q, q = Replenish(Serve(p, kind, i), keep, cancel)
    PROVE  /\ q \in PoolShape
           /\ Within(q.idle, RemoveAt(p.idle, i))
           /\ Within(q.idle, p.idle)
           /\ q.alive - p.alive \in Nat /\ q.alive \in Int
           /\ [q EXCEPT !.running = @ - 1] \in PoolShape
           /\ [q EXCEPT !.running = @ - 1].idle = q.idle
           /\ [q EXCEPT !.running = @ - 1].alive = q.alive
<1> DEFINE served == Serve(p, kind, i)
<1>1. p.idle \in Queue /\ p.running \in Int /\ p.waiting \in [C!Kinds -> Int] /\ p.alive \in Int
  BY DEF PoolShape
<1>2. RemoveAt(p.idle, i) \in Queue /\ Within(RemoveAt(p.idle, i), p.idle)
  BY <1>1, RemoveAtFacts, RemoveAtWithin
<1>3. /\ served \in PoolShape
      /\ served.idle = RemoveAt(p.idle, i) /\ served.alive = p.alive
  <2>1. [p.waiting EXCEPT ![kind] = @ - 1] \in [C!Kinds -> Int]
    BY <1>1
  <2>2. (IF p.idle[i].sort = "failed" THEN p.running ELSE p.running + 1) \in Int
    BY <1>1
  <2> QED BY <1>2, <2>1, <2>2 DEF Serve, PoolShape
<1> HIDE DEF served
<1>4. /\ q \in PoolShape /\ Within(q.idle, served.idle) /\ q.alive - served.alive \in Nat
  BY <1>3, ReplenishFacts DEF served
<1>5. Within(q.idle, p.idle)
  BY <1>2, <1>3, <1>4, WithinWithin
<1>6. q.alive \in Int
  BY <1>4 DEF PoolShape
<1>7. /\ [q EXCEPT !.running = @ - 1] \in PoolShape
      /\ [q EXCEPT !.running = @ - 1].idle = q.idle
      /\ [q EXCEPT !.running = @ - 1].alive = q.alive
  BY <1>4, RunningChanged
<1> QED BY <1>3, <1>4, <1>5, <1>6, <1>7

\* The only ticket of a session is gone from what replenishing left of the queue.
LEMMA TicketGone ==
    ASSUME NEW p \in PoolShape, NEW q \in PoolShape, NEW at \in 1 .. Len(p.idle), NEW w,
           \A j \in DOMAIN p.idle : p.idle[j].session = w => at = j,
           Within(q.idle, RemoveAt(p.idle, at))
    PROVE  \A j \in DOMAIN q.idle : q.idle[j].session # w
<1> DEFINE idle == p.idle
           left == q.idle
<1>1. /\ idle \in Queue /\ at \in 1 .. Len(idle)
      /\ \A j \in DOMAIN idle : idle[j].session = w => at = j
      /\ Within(left, RemoveAt(idle, at))
  BY DEF PoolShape
<1> HIDE DEF idle, left
<1>2. \A j \in DOMAIN left : left[j].session # w
  BY <1>1, TicketRemoved
<1> QED BY <1>2 DEF idle, left

\* The rest of take, whichever ticket it finds.
LEMMA TakeFromInv ==
    ASSUME Inv, NEW t \in Tests, phase[t] \in {"queued", "waiting"}, MayStart(t),
           NEW p \in PoolShape, Within(p.idle, pool.idle), p.alive - pool.alive \in Nat,
           TakeFrom(t, p),
           suite' \in [Suites -> {"unstarted", "running", "done"}],
           started' \in [Suites -> Nat], TreeConsistent'
    PROVE  Inv'
<1> DEFINE i == Position(p.idle, Kind(t))
           ticket == p.idle[i]
           w == ticket.session
           taken(cancel) == Replenish(Serve(p, Kind(t), i), keepStarting, cancel)
           returned(cancel) == [taken(cancel) EXCEPT !.running = @ - 1]
           offered == workers[w].state = "offered"
<1>1. /\ Shape /\ RequestsConsistent /\ workers \in Seq(WorkerShape) /\ pool.alive \in Int
      /\ keepStarting \in BOOLEAN /\ cancelled \in BOOLEAN /\ ~cancelled
  BY DEF Inv, Shape, PoolShape, MayStart
<1>2. p.idle \in Queue /\ p.alive \in Int /\ Kind(t) \in C!Kinds
  BY KindType DEF PoolShape
<1>3. /\ i \in {0} \union 1 .. Len(p.idle)
      /\ Kind(t) = "fresh" /\ i # 0 => ticket.sort # "reset"
  BY <1>2, PositionFacts
<1>4. ASSUME NEW cancel \in BOOLEAN, i # 0
      PROVE  /\ taken(cancel) \in PoolShape /\ returned(cancel) \in PoolShape
             /\ taken(cancel).alive - pool.alive \in Nat
             /\ returned(cancel).alive - pool.alive \in Nat
             /\ Within(taken(cancel).idle, pool.idle)
             /\ Within(taken(cancel).idle, RemoveAt(p.idle, i))
             /\ returned(cancel).idle = taken(cancel).idle
  <2> HIDE DEF i
  <2>1. i \in 1 .. Len(p.idle)
    BY <1>3, <1>4
  <2> DEFINE q == taken(cancel)
  <2>2. /\ q \in PoolShape
        /\ Within(q.idle, RemoveAt(p.idle, i))
        /\ Within(q.idle, p.idle)
        /\ q.alive - p.alive \in Nat /\ q.alive \in Int
        /\ [q EXCEPT !.running = @ - 1] \in PoolShape
        /\ [q EXCEPT !.running = @ - 1].idle = q.idle
        /\ [q EXCEPT !.running = @ - 1].alive = q.alive
    BY <1>1, <1>2, <2>1, ServeFacts
  <2> HIDE DEF q
  <2>3. q.alive - pool.alive \in Nat
    BY <1>1, <1>2, <2>2
  <2>4. Within(q.idle, pool.idle)
    BY <2>2, WithinWithin
  <2> QED BY <2>2, <2>3, <2>4 DEF q
<1>5. phase[t] \in Before /\ phase[t] # "requested"
  BY DEF Before
<1>6. \A v \in DOMAIN workers :
          workers[v].owner = t => workers[v].state \notin {"requested", "creating"}
  BY <1>5, TestHasNoWorker
<1>7. i # 0 => /\ w \in DOMAIN workers /\ Pooled(w)
               /\ IsOk(ticket) =>
                     /\ workers[w].state = "offered"
                     /\ \A j \in DOMAIN p.idle : p.idle[j].session = w => i = j
                     /\ ticket.sort = "created" => workers[w].ran = <<>>
                     /\ ticket.sort = "reset" => Reusable(w)
  <2>1. i # 0 => i \in DOMAIN p.idle
    BY <1>2, <1>3 DEF Queue
  <2> HIDE DEF i
  <2> QED BY <1>1, <2>1, TicketWithin
<1>8. i # 0 => ticket.sort \in C!Sorts
  <2> HIDE DEF i
  <2>1. i # 0 => ticket \in Ticket
    <3>1. p.idle \in Seq(Ticket)
      BY <1>2 DEF Queue, Ticket
    <3> QED BY <1>3, <3>1, ElementOfSeq
  <2> QED BY <2>1 DEF Ticket
<1>9. ASSUME i = 0, Update(p, pool.alive, workers), phase' = [phase EXCEPT ![t] = "waiting"],
             woken' = woken \ {t}, UNCHANGED <<keepStarting, cancelled, record, board>>
      PROVE  Inv'
  <2>1. /\ pool' = p /\ requests' \in Seq(Nat) /\ RequestsConsistent'
        /\ workers' \in Seq(WorkerShape) /\ DOMAIN workers \subseteq DOMAIN workers'
        /\ \A v \in DOMAIN workers : workers'[v] = workers[v]
        /\ \A v \in DOMAIN workers' : v \notin DOMAIN workers => workers'[v] = Hired(Pool)
    BY <1>1, <1>9, UpdateFacts
  <2>2. pool' \in PoolShape /\ Within(pool'.idle, pool.idle) /\ Position(pool'.idle, Kind(t)) = 0
    BY <1>9, <2>1
  <2> HIDE DEF i
  <2> QED BY <1>9, <2>1, <2>2, TestWaits
<1>10. ASSUME i # 0, IsOk(ticket), Update(taken(FALSE), pool.alive, Assigned(t, w)), StartsBody(t)
       PROVE  Inv'
  <2> DEFINE q == taken(FALSE)
  <2>1. /\ q \in PoolShape /\ q.alive - pool.alive \in Nat /\ Within(q.idle, pool.idle)
        /\ Within(q.idle, RemoveAt(p.idle, i))
    BY <1>4, <1>10
  <2>2. /\ w \in DOMAIN workers /\ Pooled(w) /\ workers[w].state = "offered"
        /\ \A j \in DOMAIN p.idle : p.idle[j].session = w => i = j
        /\ workers[w].ran = <<>> \/ (Reusable(w) /\ t \notin Fresh)
    <3>1. ticket.sort = "created" \/ (ticket.sort = "reset" /\ t \notin Fresh)
      BY <1>3, <1>8, <1>10 DEF IsOk, C!Sorts, Kind
    <3> HIDE DEF i
    <3> QED BY <1>7, <1>10, <3>1
  <2> HIDE DEF q
  <2> HIDE DEF i
  <2>3. \A j \in DOMAIN q.idle : q.idle[j].session # w
    <3>1. i \in 1 .. Len(p.idle)
      BY <1>3, <1>10
    <3> HIDE DEF w
    <3>2. \A j \in DOMAIN p.idle : p.idle[j].session = w => i = j
      BY <2>2
    <3>3. PICK at \in 1 .. Len(p.idle) : at = i
      BY <3>1
    <3>4. PICK r \in PoolShape : r = q
      BY <2>1
    <3>5. Within(r.idle, RemoveAt(p.idle, at)) /\ \A j \in DOMAIN p.idle : p.idle[j].session = w => at = j
      BY <2>1, <3>2, <3>3, <3>4
    <3>6. \A j \in DOMAIN r.idle : r.idle[j].session # w
      BY <1>2, <3>5, TicketGone
    <3> QED BY <3>4, <3>6
  <2> HIDE DEF w
  <2>4. /\ Assigned(t, w) \in Seq(WorkerShape) /\ Len(Assigned(t, w)) = Len(workers)
        /\ \A v \in DOMAIN workers : v # w => Assigned(t, w)[v] = workers[v]
    BY <1>1, <2>2, AssignedFacts
  <2>5. \A v \in DOMAIN workers : workers[v].state = "requested" =>
            Assigned(t, w)[v].state = "requested"
    BY <2>2, <2>4
  <2>6. Update(q, pool.alive, Assigned(t, w))
    BY <1>10 DEF q
  <2>7. /\ pool' = q /\ requests' \in Seq(Nat) /\ RequestsConsistent'
        /\ workers' \in Seq(WorkerShape) /\ DOMAIN workers \subseteq DOMAIN workers'
        /\ \A v \in DOMAIN workers : workers'[v] = Assigned(t, w)[v]
        /\ \A v \in DOMAIN workers' : v \notin DOMAIN workers => workers'[v] = Hired(Pool)
    BY <1>1, <2>1, <2>4, <2>5, <2>6, UpdateFacts
  <2> QED BY <1>1, <1>5, <1>10, <2>1, <2>2, <2>3, <2>7, TestStarts
<1>11. ASSUME i # 0, NEW q \in PoolShape, q.alive - pool.alive \in Nat, Within(q.idle, pool.idle),
              Update(q, pool.alive, workers), cancelled' \in BOOLEAN,
              \/ NotStarted(t) /\ cancelled'
              \/ FailsToStart(t, "failed")
       PROVE  Inv'
  <2> HIDE DEF i
  <2>1. /\ pool' = q /\ requests' \in Seq(Nat) /\ RequestsConsistent'
        /\ workers' \in Seq(WorkerShape) /\ DOMAIN workers \subseteq DOMAIN workers'
        /\ \A v \in DOMAIN workers : workers'[v] = workers[v]
        /\ \A v \in DOMAIN workers' : v \notin DOMAIN workers => workers'[v] = Hired(Pool)
    BY <1>1, <1>11, UpdateFacts
  <2>2. pool' \in PoolShape /\ Within(pool'.idle, pool.idle)
    BY <1>11, <2>1
  <2>3. \/ NotStarted(t) /\ (cancelled' \/ ~MayStart(t))
        \/ \E outcome \in Recorded : FailsToStart(t, outcome)
    BY <1>11 DEF Recorded, BodyOutcomes
  <2>4. cancelled => cancelled'
    BY <1>1
  <2> QED BY <1>5, <1>6, <1>11, <2>1, <2>2, <2>3, <2>4, TestReturns
<1>12. \/ /\ i = 0
          /\ Update(p, pool.alive, workers)
          /\ phase' = [phase EXCEPT ![t] = "waiting"]
          /\ woken' = woken \ {t}
          /\ UNCHANGED <<keepStarting, cancelled, record, board>>
       \/ /\ i # 0 /\ IsOk(ticket) /\ offered
          /\ Update(taken(FALSE), pool.alive, Assigned(t, w))
          /\ StartsBody(t)
       \/ /\ i # 0 /\ IsOk(ticket) /\ ~offered
          /\ Update(returned(FALSE), pool.alive, workers)
          /\ FailsToStart(t, "failed")
       \/ /\ i # 0 /\ ~IsOk(ticket)
          /\ Update(taken(FALSE), pool.alive, workers)
          /\ FailsToStart(t, "failed")
       \/ /\ i # 0
          /\ \E cancel \in BOOLEAN :
                Update(IF IsOk(ticket) THEN returned(cancel) ELSE taken(cancel),
                       pool.alive, workers)
          /\ cancelled' = TRUE
          /\ NotStarted(t)
  BY DEF TakeFrom
<1> HIDE DEF i, ticket, taken, returned, offered
<1>13. ASSUME i # 0, NEW cancel \in BOOLEAN,
              NEW q \in {taken(cancel), returned(cancel)}, Update(q, pool.alive, workers),
              \/ NotStarted(t) /\ cancelled' = TRUE
              \/ FailsToStart(t, "failed")
       PROVE  Inv'
  <2>1. q \in PoolShape /\ q.alive - pool.alive \in Nat /\ Within(q.idle, pool.idle)
    BY <1>4, <1>13
  <2>2. cancelled' \in BOOLEAN
    BY <1>1, <1>13 DEF FailsToStart
  <2> QED BY <1>11, <1>13, <2>1, <2>2
<1>14. CASE i = 0
  BY <1>9, <1>12, <1>14
<1>15. CASE i # 0 /\ IsOk(ticket) /\ StartsBody(t) /\ Update(taken(FALSE), pool.alive, Assigned(t, w))
  BY <1>10, <1>15
<1>16. CASE i # 0 /\ FailsToStart(t, "failed")
            /\ \/ Update(returned(FALSE), pool.alive, workers)
               \/ Update(taken(FALSE), pool.alive, workers)
  BY <1>13, <1>16
<1>17. CASE i # 0 /\ NotStarted(t) /\ cancelled' = TRUE
            /\ \E cancel \in BOOLEAN :
                  Update(IF IsOk(ticket) THEN returned(cancel) ELSE taken(cancel),
                         pool.alive, workers)
  BY <1>13, <1>17
<1> QED BY <1>12, <1>14, <1>15, <1>16, <1>17

LEMMA RegisterShape ==
    ASSUME pool \in PoolShape, NEW t
    PROVE  /\ Register(t) \in PoolShape
           /\ Register(t).idle = pool.idle /\ Register(t).alive = pool.alive
<1> DEFINE k == Kind(t)
<1>1. k \in C!Kinds
  BY KindType
<1>2. /\ pool.waiting \in [C!Kinds -> Int] /\ pool.upcoming \in [C!Kinds -> Int]
      /\ pool.upcomingAlways \in [C!Kinds -> Int]
  BY DEF PoolShape
<1>3. \A m \in Int : C!Monus(m, 1) \in Int
  BY DEF C!Monus
<1> HIDE DEF k
<1> DEFINE upcoming == [pool.upcoming EXCEPT ![k] = C!Monus(@, 1)]
           always == [pool.upcomingAlways EXCEPT ![k] = IF t \in RunAlways THEN C!Monus(@, 1) ELSE @]
           waiting == [pool.waiting EXCEPT ![k] = @ + 1]
<1>4. upcoming \in [C!Kinds -> Int] /\ always \in [C!Kinds -> Int] /\ waiting \in [C!Kinds -> Int]
  BY <1>1, <1>2, <1>3
<1>5. Register(t) = [pool EXCEPT !.upcoming = upcoming, !.upcomingAlways = always,
                                 !.waiting = waiting]
  BY DEF Register, PoolShape, k
<1> HIDE DEF upcoming, always, waiting
<1> QED BY <1>4, <1>5 DEF PoolShape

LEMMA GiveUpShape ==
    ASSUME NEW p \in PoolShape, NEW t
    PROVE  /\ GiveUp(p, t) \in PoolShape
           /\ GiveUp(p, t).idle = p.idle /\ GiveUp(p, t).alive = p.alive
<1> DEFINE waiting == [p.waiting EXCEPT ![Kind(t)] = @ - 1]
<1>1. waiting \in [C!Kinds -> Int]
  BY KindType DEF PoolShape
<1>2. GiveUp(p, t) = [p EXCEPT !.waiting = waiting]
  BY DEF GiveUp, PoolShape
<1> HIDE DEF waiting
<1> QED BY <1>1, <1>2 DEF PoolShape

\* A test returns while sessions may have been requested for others.
LEMMA ReturnsWith ==
    ASSUME Inv, NEW t \in Tests, phase[t] \in {"queued", "waiting"},
           NEW q \in PoolShape, Within(q.idle, pool.idle), q.alive - pool.alive \in Nat,
           Update(q, pool.alive, workers),
           NotStarted(t), cancelled' \/ ~MayStart(t), cancelled' \in BOOLEAN, cancelled => cancelled',
           suite' \in [Suites -> {"unstarted", "running", "done"}],
           started' \in [Suites -> Nat], TreeConsistent'
    PROVE  Inv'
<1>1. /\ Shape /\ RequestsConsistent /\ workers \in Seq(WorkerShape) /\ phase[t] \in Before
      /\ phase[t] # "requested"
  BY DEF Inv, Shape, Before
<1>2. /\ pool' = q /\ requests' \in Seq(Nat) /\ RequestsConsistent'
      /\ workers' \in Seq(WorkerShape) /\ DOMAIN workers \subseteq DOMAIN workers'
      /\ \A v \in DOMAIN workers : workers'[v] = workers[v]
      /\ \A v \in DOMAIN workers' : v \notin DOMAIN workers => workers'[v] = Hired(Pool)
  BY <1>1, UpdateFacts
<1>3. \A v \in DOMAIN workers :
          workers[v].owner = t => workers[v].state \notin {"requested", "creating"}
  BY <1>1, TestHasNoWorker
<1>4. pool' \in PoolShape /\ Within(pool'.idle, pool.idle)
  BY <1>2
<1> QED BY <1>1, <1>2, <1>3, <1>4, TestReturns

LEMMA TakeOrWaitInv ==
    ASSUME Inv, NEW t \in Tests, phase[t] = "queued", TakeOrWait(t),
           suite' \in [Suites -> {"unstarted", "running", "done"}],
           started' \in [Suites -> Nat], TreeConsistent'
    PROVE  Inv'
<1> DEFINE registered(cancel) == Replenish(Register(t), keepStarting, cancel)
<1>1. /\ pool \in PoolShape /\ keepStarting \in BOOLEAN /\ cancelled \in BOOLEAN
      /\ pool.alive \in Int
  BY DEF Inv, Shape, PoolShape
<1>2. ASSUME NEW cancel \in BOOLEAN
      PROVE  /\ registered(cancel) \in PoolShape /\ registered(cancel).alive - pool.alive \in Nat
             /\ Within(registered(cancel).idle, pool.idle)
  <2> DEFINE p == Register(t)
             q == registered(cancel)
  <2>1. p \in PoolShape /\ p.idle = pool.idle /\ p.alive = pool.alive
    BY <1>1, RegisterShape
  <2>2. q = Replenish(p, keepStarting, cancel)
    OBVIOUS
  <2> HIDE DEF p, q
  <2>3. q \in PoolShape /\ Within(q.idle, p.idle) /\ q.alive - p.alive \in Nat
    BY <1>1, <2>1, <2>2, ReplenishFacts
  <2> QED BY <2>1, <2>3 DEF q
<1>3. /\ MayStart(t)
      /\ \/ TakeFrom(t, registered(FALSE))
         \/ /\ \E cancel \in BOOLEAN :
                  Update(GiveUp(registered(cancel), t), pool.alive, workers)
            /\ cancelled' = TRUE
            /\ NotStarted(t)
  BY DEF TakeOrWait
<1> HIDE DEF registered
<1>4. CASE TakeFrom(t, registered(FALSE))
  <2> DEFINE p == registered(FALSE)
  <2>1. p \in PoolShape /\ p.alive - pool.alive \in Nat /\ Within(p.idle, pool.idle)
        /\ TakeFrom(t, p)
    BY <1>2, <1>4
  <2> HIDE DEF p
  <2> QED BY <1>3, <2>1, TakeFromInv
<1>5. ASSUME NEW cancel \in BOOLEAN, Update(GiveUp(registered(cancel), t), pool.alive, workers),
             cancelled' = TRUE, NotStarted(t)
      PROVE  Inv'
  <2> DEFINE q == GiveUp(registered(cancel), t)
  <2>1. q \in PoolShape /\ Within(q.idle, pool.idle) /\ q.alive - pool.alive \in Nat
    BY <1>2, GiveUpShape
  <2>2. Update(q, pool.alive, workers)
    BY <1>5
  <2> HIDE DEF q
  <2> QED BY <1>5, <2>1, <2>2, ReturnsWith
<1> QED BY <1>3, <1>4, <1>5

\* A test with a session of its own requests it.
LEMMA RequestInv ==
    ASSUME Inv, NEW t \in Tests, phase[t] = "queued", RequestDedicated(t),
           suite' \in [Suites -> {"unstarted", "running", "done"}],
           started' \in [Suites -> Nat], TreeConsistent'
    PROVE  Inv'
<1>1. /\ Shape /\ RequestsConsistent /\ workers \in Seq(WorkerShape) /\ requests \in Seq(Nat)
      /\ phase \in [Tests -> Phases] /\ record \in [Tests -> Seq(Recorded)] /\ TestConsistent(t)
      /\ woken \subseteq Waiting
  BY DEF Inv, Shape, TestsConsistent
<1>2. /\ phase' = [phase EXCEPT ![t] = "requested"] /\ Request(workers, t, 1)
      /\ woken' = woken /\ pool' = pool /\ keepStarting' = keepStarting
      /\ cancelled' = cancelled /\ record' = record
  BY DEF RequestDedicated
<1>3. t \in {Pool} \union Tests /\ 1 \in Nat /\ t # Pool /\ t # None
  BY TestsAssumption
<1>4. RequestsConsistent'
  BY <1>1, <1>2, <1>3, RequestConsistent
<1>5. /\ workers' \in Seq(WorkerShape) /\ requests' \in Seq(Nat) /\ Len(workers) \in Nat
      /\ DOMAIN workers = 1 .. Len(workers) /\ DOMAIN workers' = 1 .. Len(workers) + 1
      /\ \A v \in 1 .. Len(workers) : workers'[v] = workers[v]
      /\ \A v \in Len(workers) + 1 .. Len(workers) + 1 : workers'[v] = Hired(t)
  BY <1>1, <1>2, <1>3, RequestFacts
<1>6. /\ DOMAIN workers \subseteq DOMAIN workers'
      /\ \A v \in DOMAIN workers : workers'[v] = workers[v]
      /\ \A v \in DOMAIN workers' : v \notin DOMAIN workers => workers'[v] = Hired(t)
      /\ \A u, v \in DOMAIN workers' :
            u \notin DOMAIN workers /\ v \notin DOMAIN workers => u = v
  BY <1>5
<1>7. phase' \in [Tests -> Phases] /\ phase'[t] = "requested"
      /\ \A u \in Tests : u # t => phase'[u] = phase[u]
  BY <1>1, <1>2 DEF Phases
<1>8. 0 \notin DOMAIN workers /\ Frame(t, 0)
  <2>1. \A v \in DOMAIN workers' : v \notin DOMAIN workers =>
            \E owner \in {Pool} \union Tests : workers'[v] = Hired(owner)
    BY <1>6
  <2> QED BY <1>1, <1>2, <1>5, <1>6, <1>7, <2>1 DEF Frame
<1>9. \A v \in DOMAIN workers : workers[v].test # t /\ workers[v].owner # t
  <2>1. phase[t] \in Before
    BY DEF Before
  <2> QED BY <2>1, TestHasNoWorker
<1>10. /\ Hired(t).state = "requested" /\ Hired(t).owner = t
       /\ Hired(t).test = None /\ Hired(t).ran = <<>>
  BY <1>3, HiredShape
<1>11. WorkersConsistent'
  <2> SUFFICES ASSUME NEW v \in DOMAIN workers' PROVE WorkerConsistent(v)' /\ RanSafely(v)'
    BY DEF WorkersConsistent
  <2>1. CASE v \in DOMAIN workers
    <3>1. v # 0 /\ workers[v].test # t /\ workers[v].owner # t
      BY <1>8, <1>9, <2>1
    <3> QED BY <1>8, <2>1, <3>1, OtherWorkers
  <2>2. CASE v \notin DOMAIN workers
    <3>1. /\ workers'[v].state = "requested" /\ workers'[v].owner = t
          /\ workers'[v].test = None /\ workers'[v].ran = <<>>
      BY <1>6, <1>10, <2>2
    <3>2. Len(<<>>) = 0
      OBVIOUS
    <3>3. RanSafely(v)'
      BY <3>1, <3>2, SettingsAssumption DEF RanSafely
    <3> QED BY <1>7, <3>1, <3>3 DEF WorkerConsistent
  <2> QED BY <2>1, <2>2
<1>12. WorkersDistinct'
  <2> SUFFICES ASSUME NEW u \in DOMAIN workers', NEW v \in DOMAIN workers', u # v
               PROVE  /\ workers'[u].owner # Pool => workers'[u].owner # workers'[v].owner
                      /\ workers'[u].test # None => workers'[u].test # workers'[v].test
                      /\ Range(workers'[u].ran) \intersect Range(workers'[v].ran) = {}
    BY DEF WorkersDistinct
  <2>1. Range(<<>>) = {}
    BY DEF Range
  <2>2. CASE u \in DOMAIN workers /\ v \in DOMAIN workers
    BY <1>6, <2>2 DEF Inv, WorkersDistinct
  <2>3. CASE u \in DOMAIN workers /\ v \notin DOMAIN workers
    BY <1>6, <1>9, <1>10, <2>1, <2>3
  <2>4. CASE u \notin DOMAIN workers /\ v \in DOMAIN workers
    BY <1>6, <1>9, <1>10, <2>1, <2>4
  <2>5. ~(u \notin DOMAIN workers /\ v \notin DOMAIN workers)
    BY <1>6
  <2> QED BY <2>2, <2>3, <2>4, <2>5
<1>13. TestsConsistent'
  <2>1. Ran(t)' = Ran(t)
    BY <1>8, RanElsewhere
  <2>2. TestConsistent(t)'
    BY <1>1, <1>2, <1>7, <2>1 DEF TestConsistent, Before
  <2> QED BY <1>8, <2>2, TestsStep
<1>14. TicketsConsistent'
  <2>1. cancelled' \in BOOLEAN /\ Within(pool'.idle, pool.idle)
    BY <1>1, <1>2, WithinItself DEF Shape
  <2> QED BY <1>8, <2>1, TicketsStep
<1>15. NoLostWakeup'
  <2>1. pool'.idle \in Queue /\ Within(pool'.idle, pool.idle)
    BY <1>1, <1>2, WithinItself DEF Shape, PoolShape
  <2> QED BY <1>2, <1>7, <2>1, WakeupKept
<1>16. Shape'
  <2>1. woken' \subseteq Waiting'
    BY <1>1, <1>2, <1>7 DEF Waiting
  <2> QED BY <1>1, <1>2, <1>5, <1>7, <2>1 DEF Shape
<1> QED BY <1>4, <1>11, <1>12, <1>13, <1>14, <1>15, <1>16 DEF Inv

\* A step of a test changes no other test's phase.
LEMMA TakeFromPhase ==
    ASSUME NEW t, NEW p, TakeFrom(t, p)
    PROVE  \E x : phase' = [phase EXCEPT ![t] = x]
BY DEF TakeFrom, StartsBody, FailsToStart, NotStarted

LEMMA TestPhase ==
    ASSUME Shape, NEW t,
           \/ Skip(t) \/ FailUnplannable(t) \/ RequestDedicated(t) \/ TakeOrWait(t)
           \/ TakeFrom(t, pool)
    PROVE  \A u \in Tests : u # t => phase'[u] = phase[u]
<1>1. \E x : phase' = [phase EXCEPT ![t] = x]
  <2>1. CASE TakeOrWait(t)
    <3>1. NotStarted(t) \/ \E p : TakeFrom(t, p)
      BY <2>1, Zenon DEF TakeOrWait
    <3> QED BY <3>1, TakeFromPhase DEF NotStarted
  <2>2. CASE Skip(t) \/ FailUnplannable(t) \/ RequestDedicated(t)
    BY <2>2 DEF Skip, FailUnplannable, RequestDedicated, FailsToStart, NotStarted
  <2> QED BY <2>1, <2>2, TakeFromPhase
<1> QED BY <1>1 DEF Shape

\* The next child of a suite was not started, and is its child only.
LEMMA NextChild ==
    ASSUME Inv, NEW s \in Suites, HasRoom(s), started' = [started EXCEPT ![s] = @ + 1],
           NEW n, n = Children[s][started[s] + 1]
    PROVE  /\ started' \in [Suites -> Nat]
           /\ n \in Tests => phase[n] = "queued"
           /\ n \in Suites => n \notin Tests /\ suite[n] = "unstarted"
           /\ \A u \in Suites : \A i \in DOMAIN Children[u] :
                 /\ i > started'[u] => i > started[u]
                 /\ Children[u][i] = n => ~(i > started'[u])
<1>1. started \in [Suites -> Nat] /\ started[s] < Len(Children[s]) /\ TreeConsistent
  BY DEF Inv, Shape, HasRoom
<1>2. \A u \in Suites : /\ Len(Children[u]) \in Nat
                        /\ DOMAIN Children[u] = 1 .. Len(Children[u])
  BY TreeAssumption
<1>3. /\ started' \in [Suites -> Nat] /\ started'[s] = started[s] + 1
      /\ \A u \in Suites : u # s => started'[u] = started[u]
  BY <1>1
<1>4. started[s] + 1 \in DOMAIN Children[s] /\ started[s] + 1 > started[s]
  BY <1>1, <1>2
<1>5. /\ n \in Tests => phase[n] = "queued"
      /\ n \notin Tests => suite[n] = "unstarted"
  BY <1>1, <1>4 DEF TreeConsistent
<1>6. n \in Suites => n \notin Tests
  BY TestsAssumption
<1>7. ASSUME NEW u \in Suites, NEW i \in DOMAIN Children[u]
      PROVE  /\ i > started'[u] => i > started[u]
             /\ Children[u][i] = n => ~(i > started'[u])
  <2>1. i \in Nat /\ started[u] \in Nat
    BY <1>1, <1>2
  <2>2. Children[u][i] = n => u = s /\ i = started[s] + 1
    BY <1>4, OwnershipAssumption
  <2>3. i > started'[u] => i > started[u]
    BY <1>3, <2>1
  <2> QED BY <1>3, <2>1, <2>2, <2>3
<1> QED BY <1>3, <1>5, <1>6, <1>7

LEMMA TestStartedTree ==
    ASSUME Inv, NEW s \in Suites, HasRoom(s), started' = [started EXCEPT ![s] = @ + 1],
           NEW n \in Tests, n = Children[s][started[s] + 1], suite' = suite,
           \A u \in Tests : u # n => phase'[u] = phase[u]
    PROVE  TreeConsistent'
<1>1. /\ phase[n] = "queued"
      /\ \A u \in Suites : \A i \in DOMAIN Children[u] :
            /\ i > started'[u] => i > started[u]
            /\ Children[u][i] = n => ~(i > started'[u])
  BY NextChild
<1> SUFFICES ASSUME NEW u \in Suites, NEW i \in DOMAIN Children[u],
                    NEW m, m = Children[u][i]
             PROVE  /\ i > started'[u] => IF m \in Tests THEN phase'[m] = "queued"
                                                         ELSE suite'[m] = "unstarted"
                    /\ suite'[u] = "done" => Done(m)'
  BY DEF TreeConsistent
<1>2. /\ i > started[u] => IF m \in Tests THEN phase[m] = "queued" ELSE suite[m] = "unstarted"
      /\ suite[u] = "done" => Done(m)
  BY DEF Inv, TreeConsistent
<1>3. i > started'[u] => i > started[u] /\ m # n
  BY <1>1
<1>4. suite[u] = "done" => m # n
  BY <1>1, <1>2 DEF Done
<1> QED BY <1>2, <1>3, <1>4 DEF Done

LEMMA SuiteStartedTree ==
    ASSUME Inv, NEW s \in Suites, HasRoom(s), started' = [started EXCEPT ![s] = @ + 1],
           NEW n \in Suites, n = Children[s][started[s] + 1],
           suite' = [suite EXCEPT ![n] = "running"], phase' = phase
    PROVE  TreeConsistent'
<1>1. /\ n \notin Tests /\ suite[n] = "unstarted"
      /\ \A u \in Suites : \A i \in DOMAIN Children[u] :
            /\ i > started'[u] => i > started[u]
            /\ Children[u][i] = n => ~(i > started'[u])
  BY NextChild
<1>2. suite \in [Suites -> {"unstarted", "running", "done"}]
  BY DEF Inv, Shape
<1>3. suite'[n] = "running" /\ \A u : u # n => suite'[u] = suite[u]
  BY <1>2
<1> SUFFICES ASSUME NEW u \in Suites, NEW i \in DOMAIN Children[u],
                    NEW m, m = Children[u][i]
             PROVE  /\ i > started'[u] => IF m \in Tests THEN phase'[m] = "queued"
                                                         ELSE suite'[m] = "unstarted"
                    /\ suite'[u] = "done" => Done(m)'
  BY DEF TreeConsistent
<1>4. /\ i > started[u] => IF m \in Tests THEN phase[m] = "queued" ELSE suite[m] = "unstarted"
      /\ suite[u] = "done" => Done(m)
  BY DEF Inv, TreeConsistent
<1>5. i > started'[u] => i > started[u] /\ m # n
  BY <1>1
<1>6. suite'[u] = "done" => suite[u] = "done"
  BY <1>3
<1>7. suite[u] = "done" => m # n
  BY <1>1, <1>4 DEF Done
<1> QED BY <1>3, <1>4, <1>5, <1>6, <1>7 DEF Done

LEMMA SkipInv ==
    ASSUME Inv, NEW t \in Tests, phase[t] = "queued", Skip(t) \/ FailUnplannable(t),
           suite' \in [Suites -> {"unstarted", "running", "done"}],
           started' \in [Suites -> Nat], TreeConsistent'
    PROVE  Inv'
<1>1. /\ Shape /\ RequestsConsistent /\ phase[t] \in Before
      /\ pool \in PoolShape /\ workers \in Seq(WorkerShape) /\ requests \in Seq(Nat)
      /\ cancelled \in BOOLEAN
  BY DEF Inv, Shape, Before
<1>2. /\ pool' = pool /\ workers' = workers /\ requests' = requests /\ cancelled' = cancelled
      /\ \/ NotStarted(t) /\ ~MayStart(t)
         \/ FailsToStart(t, "panicked")
  BY DEF Skip, FailUnplannable, FailsToStart, sessions
<1>3. RequestsConsistent'
  BY <1>1, <1>2, RequestsKept
<1>4. \A v \in DOMAIN workers :
          workers[v].owner = t => workers[v].state \notin {"requested", "creating"}
  BY <1>1, TestHasNoWorker
<1>5. Within(pool'.idle, pool.idle)
  BY <1>2, WithinItself
<1>6. "panicked" \in Recorded
  BY DEF Recorded
<1> QED BY <1>1, <1>2, <1>3, <1>4, <1>5, <1>6, TestReturns

LEMMA StartChildInv ==
    ASSUME Inv, NEW s \in Suites, StartChild(s)
    PROVE  Inv'
<1> DEFINE n == Children[s][started[s] + 1]
<1>1. /\ HasRoom(s) /\ started' = [started EXCEPT ![s] = @ + 1]
      /\ \/ /\ n \in Suites
            /\ suite' = [suite EXCEPT ![n] = "running"]
            /\ UNCHANGED <<phase, woken, sessions, keepStarting, cancelled, record, board>>
         \/ /\ n \in Tests
            /\ Skip(n) \/ FailUnplannable(n) \/ RequestDedicated(n) \/ TakeOrWait(n)
            /\ UNCHANGED suite
  BY DEF StartChild
<1>2. n = Children[s][started[s] + 1]
  OBVIOUS
<1> HIDE DEF n
<1>3. /\ started' \in [Suites -> Nat]
      /\ n \in Tests => phase[n] = "queued"
  BY <1>1, <1>2, NextChild
<1>4. Shape /\ suite \in [Suites -> {"unstarted", "running", "done"}]
  BY DEF Inv, Shape
<1>5. CASE n \in Tests
  <2>1. /\ Skip(n) \/ FailUnplannable(n) \/ RequestDedicated(n) \/ TakeOrWait(n)
        /\ suite' = suite
    <3>1. n \notin Suites
      BY <1>5, TestsAssumption
    <3> QED BY <1>1, <3>1
  <2>2. \A u \in Tests : u # n => phase'[u] = phase[u]
    BY <1>4, <2>1, TestPhase
  <2>3. TreeConsistent'
    BY <1>1, <1>2, <1>5, <2>1, <2>2, TestStartedTree
  <2>4. suite' \in [Suites -> {"unstarted", "running", "done"}]
    BY <1>4, <2>1
  <2> QED BY <1>3, <1>5, <2>1, <2>3, <2>4, SkipInv, RequestInv, TakeOrWaitInv
<1>6. CASE n \notin Tests
  <2>1. /\ n \in Suites /\ suite' = [suite EXCEPT ![n] = "running"]
        /\ phase' = phase /\ woken' = woken /\ pool' = pool /\ requests' = requests
        /\ workers' = workers /\ keepStarting' = keepStarting /\ cancelled' = cancelled
        /\ record' = record
    BY <1>1, <1>6 DEF sessions
  <2>2. TreeConsistent'
    BY <1>1, <1>2, <2>1, SuiteStartedTree
  <2>3. suite' \in [Suites -> {"unstarted", "running", "done"}]
    BY <1>4, <2>1
  <2>4. Shape'
    BY <1>3, <2>1, <2>3 DEF Inv, Shape, Waiting
  <2>5. RequestsConsistent' /\ WorkersDistinct' /\ NoLostWakeup'
    BY <2>1 DEF Inv, RequestsConsistent, WorkersDistinct, NoLostWakeup, Waiting, MayStart
  <2>6. WorkersConsistent'
    BY <2>1 DEF Inv, WorkersConsistent, WorkerConsistent, RanSafely, Pooled, Reusable
  <2>7. TicketsConsistent'
    BY <2>1 DEF Inv, TicketsConsistent, Pooled, Reusable
  <2>8. TestsConsistent'
    BY <2>1 DEF Inv, TestsConsistent, TestConsistent, Ran
  <2> QED BY <2>2, <2>4, <2>5, <2>6, <2>7, <2>8 DEF Inv
<1> QED BY <1>5, <1>6

LEMMA FinishSuiteInv ==
    ASSUME Inv, NEW s \in Suites, FinishSuite(s)
    PROVE  Inv'
<1>1. /\ AllDone(s) /\ suite' = [suite EXCEPT ![s] = "done"]
      /\ started' = started /\ phase' = phase /\ woken' = woken /\ workers' = workers
      /\ keepStarting' = keepStarting /\ cancelled' = cancelled /\ record' = record
      /\ \/ pool' = [pool EXCEPT !.closed = TRUE, !.idle = <<>>] /\ requests' = Append(requests, Close)
         \/ pool' = pool /\ requests' = requests
  BY DEF FinishSuite
<1>2. /\ Shape /\ suite \in [Suites -> {"unstarted", "running", "done"}]
      /\ pool \in PoolShape /\ requests \in Seq(Nat)
      /\ phase \in [Tests -> Phases] /\ record \in [Tests -> Seq(Recorded)]
      /\ workers \in Seq(WorkerShape) /\ cancelled \in BOOLEAN
  BY DEF Inv, Shape
<1>3. suite' \in [Suites -> {"unstarted", "running", "done"}]
      /\ suite'[s] = "done" /\ suite[s] = "running" /\ \A u : u # s => suite'[u] = suite[u]
  BY <1>1, <1>2 DEF AllDone
<1>4. TreeConsistent'
  <2> SUFFICES ASSUME NEW u \in Suites, NEW i \in DOMAIN Children[u],
                      NEW m, m = Children[u][i]
               PROVE  /\ i > started[u] => IF m \in Tests THEN phase[m] = "queued"
                                                          ELSE suite'[m] = "unstarted"
                      /\ suite'[u] = "done" => Done(m)'
    BY <1>1 DEF TreeConsistent
  <2>1. /\ i > started[u] => IF m \in Tests THEN phase[m] = "queued" ELSE suite[m] = "unstarted"
        /\ suite[u] = "done" => Done(m)
    BY DEF Inv, TreeConsistent
  <2>2. s \notin Tests
    BY TestsAssumption
  <2>3. Done(m) => Done(m)'
    BY <1>1, <1>3 DEF Done
  <2>4. u = s => Done(m)
    <3>1. started[s] = Len(Children[s]) /\ InFlight(s) = {}
      BY <1>1 DEF AllDone
    <3>2. DOMAIN Children[s] = 1 .. Len(Children[s])
      BY TreeAssumption
    <3> QED BY <3>1, <3>2 DEF InFlight
  <2> QED BY <1>3, <2>1, <2>3, <2>4
<1>5. /\ pool' \in PoolShape /\ pool'.idle \in Queue /\ Within(pool'.idle, pool.idle)
  <2>1. CASE pool' = pool
    BY <1>2, <2>1, WithinItself DEF PoolShape
  <2>2. CASE pool' = [pool EXCEPT !.closed = TRUE, !.idle = <<>>]
    <3>1. <<>> \in Queue
      BY DEF Queue
    <3>2. pool' \in PoolShape /\ pool'.idle = <<>>
      BY <1>2, <2>2, <3>1 DEF PoolShape
    <3>3. Within(<<>>, pool.idle)
      <4>1. <<>> \in [DOMAIN <<>> -> DOMAIN pool.idle] /\ DOMAIN <<>> = {}
        OBVIOUS
      <4> QED BY <4>1 DEF Within
    <3> QED BY <3>1, <3>2, <3>3
  <2> QED BY <1>1, <2>1, <2>2
<1>6. requests' \in Seq(Nat) /\ RequestsConsistent'
  <2>1. CASE requests' = requests
    BY <1>1, <1>2, <2>1 DEF Inv, RequestsConsistent
  <2>2. CASE requests' = Append(requests, Close)
    <3>1. Close \in Nat
      BY DEF Close
    <3>2. /\ requests' \in Seq(Nat) /\ Len(requests) \in Nat
          /\ DOMAIN requests = 1 .. Len(requests) /\ DOMAIN requests' = 1 .. Len(requests) + 1
          /\ \A i \in 1 .. Len(requests) : requests'[i] = requests[i]
          /\ requests'[Len(requests) + 1] = Close
      BY <1>2, <2>2, <3>1, AppendProperties
    <3>3. \A i \in DOMAIN requests' : requests'[i] # Close =>
              i \in DOMAIN requests /\ requests'[i] = requests[i]
      BY <3>2
    <3> QED BY <1>1, <3>2, <3>3 DEF Inv, RequestsConsistent
  <2> QED BY <1>1, <2>1, <2>2
<1>7. 0 \notin DOMAIN workers /\ StepOf(None, 0) /\ None \notin Tests
  BY <1>1, <1>2, TestsAssumption DEF StepOf, Frame
<1>8. WorkersDistinct'
  BY <1>1 DEF Inv, WorkersDistinct
<1>9. WorkersConsistent'
  BY <1>1 DEF Inv, WorkersConsistent, WorkerConsistent, RanSafely, Pooled, Reusable
<1>10. TestsConsistent'
  BY <1>1 DEF Inv, TestsConsistent, TestConsistent, Ran
<1>11. TicketsConsistent'
  <2>1. cancelled' \in BOOLEAN
    BY <1>1, <1>2
  <2> QED BY <1>5, <1>7, <2>1, TicketsStep DEF StepOf
<1>12. NoLostWakeup'
  BY <1>1, <1>5, <1>7, WakeupKept
<1>13. Shape'
  BY <1>1, <1>3, <1>5, <1>6 DEF Inv, Shape, Waiting
<1> QED BY <1>4, <1>6, <1>8, <1>9, <1>10, <1>11, <1>12, <1>13 DEF Inv

LEMMA StopsWaitingInv ==
    ASSUME Inv, NEW t \in Tests, StopsWaiting(t)
    PROVE  Inv'
<1>1. /\ phase[t] = "waiting" /\ suite' = suite /\ started' = started
      /\ \/ MayStart(t) /\ TakeFrom(t, pool)
         \/ /\ ~MayStart(t) /\ pool' = GiveUp(pool, t) /\ NotStarted(t)
            /\ requests' = requests /\ workers' = workers /\ cancelled' = cancelled
  BY DEF StopsWaiting, IsWoken
<1>2. /\ Shape /\ RequestsConsistent /\ pool \in PoolShape /\ pool.alive \in Int
      /\ suite' \in [Suites -> {"unstarted", "running", "done"}] /\ started' \in [Suites -> Nat]
      /\ phase[t] \in Before /\ phase[t] # "requested"
  BY <1>1 DEF Inv, Shape, PoolShape, Before
<1>3. CASE MayStart(t) /\ TakeFrom(t, pool)
  <2>1. \A u \in Tests : u # t => phase'[u] = phase[u]
    BY <1>2, <1>3, TestPhase
  <2>2. TreeConsistent'
    BY <1>1, <2>1, TreeStep
  <2>3. pool.alive - pool.alive \in Nat /\ Within(pool.idle, pool.idle)
    BY <1>2, WithinItself
  <2> QED BY <1>1, <1>2, <1>3, <2>2, <2>3, TakeFromInv
<1>4. CASE /\ ~MayStart(t) /\ pool' = GiveUp(pool, t) /\ NotStarted(t)
           /\ requests' = requests /\ workers' = workers /\ cancelled' = cancelled
  <2>1. phase' = [phase EXCEPT ![t] = "done"]
    BY <1>4 DEF NotStarted
  <2>2. \A u \in Tests : u # t => phase'[u] = phase[u]
    BY <1>2, <2>1 DEF Shape
  <2>3. TreeConsistent'
    BY <1>1, <2>2, TreeStep
  <2>4. pool' \in PoolShape /\ Within(pool'.idle, pool.idle)
    BY <1>2, <1>4, GiveUpShape, WithinItself
  <2>5. \A v \in DOMAIN workers :
            workers[v].owner = t => workers[v].state \notin {"requested", "creating"}
    BY <1>2, TestHasNoWorker
  <2>6. RequestsConsistent'
    BY <1>2, <1>4, RequestsKept
  <2>7. workers' \in Seq(WorkerShape) /\ requests' \in Seq(Nat) /\ cancelled' \in BOOLEAN
    BY <1>2, <1>4 DEF Shape
  <2> QED BY <1>2, <1>4, <2>3, <2>4, <2>5, <2>6, <2>7, TestReturns
<1> QED BY <1>1, <1>3, <1>4

LEMMA GetsDedicatedInv ==
    ASSUME Inv, NEW t \in Tests, GetsDedicated(t)
    PROVE  Inv'
<1>1. PICK w \in DOMAIN workers :
          /\ HasAnswer(t, w)
          /\ \/ ~MayStart(t) /\ NotStarted(t) /\ UNCHANGED <<workers, cancelled>>
             \/ /\ MayStart(t) /\ phase[t] = "requested" /\ workers[w].state = "offered"
                /\ StartsBody(t) /\ workers' = Assigned(t, w)
             \/ MayStart(t) /\ FailsToStart(t, "failed") /\ UNCHANGED workers
  BY DEF GetsDedicated
<1>2. /\ suite' = suite /\ started' = started /\ pool' = pool /\ requests' = requests
      /\ phase[t] \in {"requested", "refused"} /\ phase[t] \in Before
      /\ workers[w].owner = t /\ workers[w].state \notin {"requested", "creating"}
  BY <1>1 DEF GetsDedicated, HasAnswer, Before
<1>3. /\ Shape /\ RequestsConsistent /\ workers \in Seq(WorkerShape)
      /\ suite' \in [Suites -> {"unstarted", "running", "done"}] /\ started' \in [Suites -> Nat]
      /\ requests' \in Seq(Nat) /\ pool' \in PoolShape /\ Within(pool'.idle, pool.idle)
      /\ cancelled \in BOOLEAN
  BY <1>2, WithinItself DEF Inv, Shape
<1>4. t # Pool
  BY TestsAssumption
<1>5. \A v \in DOMAIN workers :
          workers[v].owner = t => workers[v].state \notin {"requested", "creating"}
  BY <1>2, <1>4 DEF Inv, WorkersDistinct
<1>6. \E x : phase' = [phase EXCEPT ![t] = x]
  BY <1>1 DEF NotStarted, StartsBody, FailsToStart
<1>7. TreeConsistent'
  <2>1. \A u \in Tests : u # t => phase'[u] = phase[u]
    BY <1>3, <1>6 DEF Shape
  <2>2. phase[t] # "queued" /\ phase[t] # "done"
    BY <1>2
  <2> QED BY <1>2, <2>1, <2>2, TreeStep
<1>8. CASE \/ ~MayStart(t) /\ NotStarted(t) /\ UNCHANGED <<workers, cancelled>>
           \/ MayStart(t) /\ FailsToStart(t, "failed") /\ UNCHANGED workers
  <2>1. workers' = workers /\ cancelled' = cancelled
    BY <1>8 DEF FailsToStart
  <2>2. RequestsConsistent'
    BY <1>2, <1>3, <2>1, RequestsKept
  <2>3. \/ NotStarted(t) /\ (cancelled' \/ ~MayStart(t))
        \/ \E outcome \in Recorded : FailsToStart(t, outcome)
    BY <1>8 DEF Recorded, BodyOutcomes
  <2> QED BY <1>2, <1>3, <1>5, <1>7, <2>1, <2>2, <2>3, TestReturns
<1>9. CASE /\ MayStart(t) /\ phase[t] = "requested" /\ workers[w].state = "offered"
           /\ StartsBody(t) /\ workers' = Assigned(t, w)
  <2>1. ~cancelled
    BY <1>9 DEF MayStart
  <2>2. workers[w].ran = <<>>
    BY <1>2, <1>4, <1>9 DEF Inv, WorkersConsistent, WorkerConsistent
  <2>3. \A i \in DOMAIN pool'.idle : IsOk(pool'.idle[i]) => pool'.idle[i].session # w
    BY <1>2, <1>4 DEF Inv, TicketsConsistent, Pooled
  <2>4. /\ workers' \in Seq(WorkerShape) /\ DOMAIN workers' = DOMAIN workers
        /\ \A v \in DOMAIN workers : v # w => workers'[v] = workers[v]
    BY <1>3, <1>9, AssignedFacts
  <2>5. \A v \in DOMAIN workers : workers[v].state = "requested" => workers'[v].state = "requested"
    BY <1>9, <2>4
  <2>6. RequestsConsistent'
    BY <1>2, <1>3, <2>4, <2>5, RequestsKept
  <2>7. /\ \A v \in DOMAIN workers : workers'[v] = Assigned(t, w)[v]
        /\ \A v \in DOMAIN workers' : v \notin DOMAIN workers => workers'[v] = Hired(Pool)
    BY <1>9, <2>4
  <2> QED BY <1>2, <1>3, <1>7, <1>9, <2>1, <2>2, <2>3, <2>4, <2>6, <2>7, TestStarts
<1> QED BY <1>1, <1>8, <1>9

\* A cancelled run records a test whose worker is gone.
LEMMA IsCancelledInv ==
    ASSUME Inv, NEW t \in Tests, IsCancelled(t)
    PROVE  Inv'
<1>1. /\ LostWorker(t) /\ phase[t] = "running"
      /\ phase' = [phase EXCEPT ![t] = "done"] /\ StopOn(FALSE, t)
      /\ record' = [record EXCEPT ![t] = Append(@, "cancelled")]
      /\ suite' = suite /\ started' = started /\ requests' = requests /\ workers' = workers
      /\ cancelled' = cancelled
      /\ pool' = pool \/ pool' = [pool EXCEPT !.running = @ - 1]
  BY DEF IsCancelled, LostWorker, Record
<1>2. /\ Shape /\ RequestsConsistent /\ TestConsistent(t) /\ workers \in Seq(WorkerShape)
      /\ pool \in PoolShape /\ phase \in [Tests -> Phases] /\ record \in [Tests -> Seq(Recorded)]
      /\ cancelled \in BOOLEAN
  BY DEF Inv, Shape, TestsConsistent
<1>3. record[t] = <<>>
  BY <1>1, <1>2 DEF TestConsistent
<1>4. /\ keepStarting' \in BOOLEAN /\ (keepStarting' => keepStarting)
      /\ woken \ {t} \subseteq woken' /\ woken' \subseteq Waiting \ {t}
      /\ keepStarting' = keepStarting \/ Waiting \ {t} \subseteq woken'
  BY <1>1, <1>2, StopOnFacts
<1>5. /\ record' \in [Tests -> Seq(Recorded)]
      /\ \A u \in Tests : u # t => record'[u] = record[u]
      /\ record'[t] # <<>> /\ Len(record'[t]) = 1
  <2>1. "cancelled" \in Recorded
    BY DEF Recorded
  <2>2. /\ Append(record[t], "cancelled") \in Seq(Recorded)
        /\ Append(record[t], "cancelled") # <<>> /\ Len(Append(record[t], "cancelled")) = 1
    BY <1>2, <1>3, <2>1, AppendProperties
  <2>3. record'[t] = Append(record[t], "cancelled")
    BY <1>1, <1>2
  <2> QED BY <1>1, <1>2, <2>2, <2>3
<1>6. /\ StepOf(t, 0) /\ 0 \notin DOMAIN workers
      /\ phase'[t] = "done" /\ \A u \in Tests : u # t => phase'[u] = phase[u]
  <2>1. "done" \in Phases
    BY DEF Phases
  <2> QED BY <1>1, <1>2, <1>3, <1>4, <1>5, <2>1, TestFrame
<1>7. pool' \in PoolShape /\ Within(pool'.idle, pool.idle)
  BY <1>1, <1>2, RunningChanged, WithinItself
<1>8. \A v \in DOMAIN workers : workers[v].test # t
  <2> SUFFICES ASSUME NEW v \in DOMAIN workers, workers[v].test = t PROVE FALSE
    OBVIOUS
  <2>1. workers[v] \in WorkerShape /\ WorkerConsistent(v) /\ t # None
    BY <1>2, TestsAssumption DEF Inv, WorkersConsistent
  <2>2. workers[v].state \in States
    BY <2>1 DEF WorkerShape
  <2>3. workers[v].state \notin {"running", "checking"}
    BY <1>1 DEF LostWorker, Serving
  <2> QED BY <1>1, <2>1, <2>2, <2>3 DEF WorkerConsistent, States
<1>9. \A v \in DOMAIN workers :
          workers[v].owner = t => workers[v].state \notin {"requested", "creating"}
  <2>1. t # Pool
    BY TestsAssumption
  <2> QED BY <1>1, <2>1 DEF Inv, WorkersConsistent, WorkerConsistent
<1>10. WorkersConsistent'
  BY <1>6, <1>8, <1>9, WorkersStep
<1>11. WorkersDistinct'
  BY <1>6, DistinctStep
<1>12. TestsConsistent'
  <2>1. TestConsistent(t)'
    BY <1>5, <1>6 DEF TestConsistent, Before
  <2> QED BY <1>6, <2>1, TestsStep DEF StepOf
<1>13. TicketsConsistent'
  <2>1. cancelled' \in BOOLEAN
    BY <1>1, <1>2
  <2> QED BY <1>6, <1>7, <2>1, TicketsStep DEF StepOf
<1>14. TreeConsistent'
  <2>1. phase[t] # "queued" /\ phase[t] # "done"
    BY <1>1
  <2> QED BY <1>1, <1>6, <2>1, TreeStep
<1>15. NoLostWakeup'
  <2>1. pool'.idle \in Queue
    BY <1>7 DEF PoolShape
  <2> QED BY <1>1, <1>4, <1>6, <1>7, <2>1, WakeupKept
<1>16. RequestsConsistent'
  BY <1>1, <1>2, RequestsKept
<1>17. Shape'
  <2>1. woken' \subseteq Waiting'
    BY <1>4, <1>6 DEF Waiting
  <2> QED BY <1>1, <1>2, <1>4, <1>5, <1>6, <1>7, <2>1 DEF Shape, StepOf, Frame
<1> QED BY <1>10, <1>11, <1>12, <1>13, <1>14, <1>15, <1>16, <1>17 DEF Inv

-----------------------------------------------------------------------------
(* The session workers.                                                    *)

LEMMA StateChanged ==
    ASSUME workers \in Seq(WorkerShape), NEW w \in DOMAIN workers, NEW x \in States,
           NEW ws, ws = [workers EXCEPT ![w].state = x]
    PROVE  /\ ws \in Seq(WorkerShape) /\ Len(ws) = Len(workers) /\ DOMAIN ws = DOMAIN workers
           /\ ws[w].state = x /\ ws[w].owner = workers[w].owner /\ ws[w].test = workers[w].test
           /\ ws[w].ran = workers[w].ran /\ ws[w].outcome = workers[w].outcome
           /\ ws[w].baseline = workers[w].baseline
           /\ \A v \in DOMAIN workers : v # w => ws[v] = workers[v]
<1> DEFINE e == [workers[w] EXCEPT !.state = x]
<1>1. workers[w] \in WorkerShape
  OBVIOUS
<1>2. e \in WorkerShape /\ ws = [workers EXCEPT ![w] = e]
  BY <1>1 DEF WorkerShape
<1>3. /\ e.state = x /\ e.owner = workers[w].owner /\ e.test = workers[w].test
      /\ e.ran = workers[w].ran /\ e.outcome = workers[w].outcome
      /\ e.baseline = workers[w].baseline
  BY <1>1 DEF WorkerShape
<1> HIDE DEF e
<1>4. /\ ws \in Seq(WorkerShape) /\ Len(ws) = Len(workers) /\ DOMAIN ws = DOMAIN workers
      /\ ws[w] = e
      /\ \A v \in DOMAIN workers : v # w => ws[v] = workers[v]
  BY <1>2, ChangedWorker
<1> QED BY <1>3, <1>4

\* Worker w is in state x and has no test anymore.
Left(w, x) == [workers EXCEPT ![w].state = x, ![w].test = None]

LEMMA TestLeft ==
    ASSUME workers \in Seq(WorkerShape), NEW w \in DOMAIN workers, NEW x \in States,
           NEW ws, ws = Left(w, x)
    PROVE  /\ ws \in Seq(WorkerShape) /\ Len(ws) = Len(workers) /\ DOMAIN ws = DOMAIN workers
           /\ ws[w].state = x /\ ws[w].owner = workers[w].owner /\ ws[w].test = None
           /\ ws[w].ran = workers[w].ran /\ ws[w].outcome = workers[w].outcome
           /\ ws[w].baseline = workers[w].baseline
           /\ \A v \in DOMAIN workers : v # w => ws[v] = workers[v]
<1> DEFINE e == [workers[w] EXCEPT !.state = x, !.test = None]
<1>1. workers[w] \in WorkerShape
  OBVIOUS
<1>2. e \in WorkerShape /\ ws = [workers EXCEPT ![w] = e]
  BY <1>1 DEF WorkerShape, Left
<1>3. /\ e.state = x /\ e.owner = workers[w].owner /\ e.test = None
      /\ e.ran = workers[w].ran /\ e.outcome = workers[w].outcome
      /\ e.baseline = workers[w].baseline
  BY <1>1 DEF WorkerShape
<1> HIDE DEF e
<1>4. /\ ws \in Seq(WorkerShape) /\ Len(ws) = Len(workers) /\ DOMAIN ws = DOMAIN workers
      /\ ws[w] = e
      /\ \A v \in DOMAIN workers : v # w => ws[v] = workers[v]
  BY <1>2, ChangedWorker
<1> QED BY <1>3, <1>4

\* Worker w moves on: its session stays its owner's and ran what it ran.
MovesOn(w) ==
    /\ workers' \in Seq(WorkerShape)
    /\ DOMAIN workers \subseteq DOMAIN workers'
    /\ \A v \in DOMAIN workers : v # w => workers'[v] = workers[v]
    /\ \A v \in DOMAIN workers' : v \notin DOMAIN workers => workers'[v] = Hired(Pool)
    /\ workers'[w].owner = workers[w].owner
    /\ workers'[w].ran = workers[w].ran
    /\ workers'[w].baseline = workers[w].baseline \/ workers[w].ran = <<>>
    /\ workers'[w].test \in {None, workers[w].test}

\* What ran in it was still recorded.
LEMMA RanSafelyKept ==
    ASSUME Inv, NEW w \in DOMAIN workers, MovesOn(w),
           \A u \in Tests : record[u] # <<>> => record'[u] = record[u]
    PROVE  RanSafely(w)'
<1>1. workers[w] \in WorkerShape /\ RanSafely(w)
  BY DEF Inv, Shape, WorkersConsistent
<1>2. /\ workers'[w].ran = workers[w].ran /\ (Pooled(w)' <=> Pooled(w))
      /\ workers'[w].baseline = workers[w].baseline \/ workers[w].ran = <<>>
  BY DEF MovesOn, Pooled
<1>3. CASE workers[w].ran = <<>>
  <2>1. Len(workers'[w].ran) = 0
    BY <1>2, <1>3
  <2> QED BY <2>1, SettingsAssumption DEF RanSafely
<1>4. CASE workers'[w].baseline = workers[w].baseline
  <2>1. workers[w].ran \in Seq(Tests)
    BY <1>1 DEF WorkerShape
  <2>2. \A i \in 2 .. Len(workers[w].ran) :
            workers[w].ran[i - 1] \in Tests
    BY <2>1
  <2>3. \A i \in 2 .. Len(workers[w].ran) :
            record[workers[w].ran[i - 1]] \in {<<"passed">>, <<"failed">>}
    BY <1>1 DEF RanSafely
  <2>4. ASSUME NEW i \in 2 .. Len(workers[w].ran)
        PROVE  record'[workers[w].ran[i - 1]] = record[workers[w].ran[i - 1]]
    <3> DEFINE u == workers[w].ran[i - 1]
    <3>1. u \in Tests /\ record[u] \in {<<"passed">>, <<"failed">>}
      BY <2>2, <2>3
    <3> HIDE DEF u
    <3>2. record[u] # <<>>
      BY <3>1
    <3> QED BY <3>1, <3>2 DEF u
  <2> QED BY <1>1, <1>2, <1>4, <2>3, <2>4 DEF RanSafely
<1> QED BY <1>2, <1>3, <1>4

\* No test starts, ends or is recorded.
Quiet == UNCHANGED <<suite, started, phase, record>>

LEMMA QuietStep ==
    ASSUME Inv, NEW w \in DOMAIN workers, MovesOn(w), Quiet, WorkerConsistent(w)',
           cancelled => cancelled', keepStarting' => keepStarting,
           workers[w].state = "quitting" /\ workers[w].test # None =>
               workers'[w].state = "quitting" /\ workers'[w].test = workers[w].test
    PROVE  /\ StepOf(None, w) /\ None \notin Tests
           /\ WorkersConsistent' /\ WorkersDistinct' /\ TestsConsistent' /\ TreeConsistent'
<1>1. /\ phase' = phase /\ record' = record /\ suite' = suite /\ started' = started
      /\ phase \in [Tests -> Phases] /\ record \in [Tests -> Seq(Recorded)]
      /\ None \notin Tests
  BY TestsAssumption DEF Quiet, Inv, Shape
<1>2. StepOf(None, w)
  BY <1>1 DEF StepOf, Frame, MovesOn
<1>3. RanSafely(w)'
  BY <1>1, RanSafelyKept
<1>4. WorkersConsistent'
  BY <1>1, <1>2, <1>3, WorkersStep
<1>5. WorkersDistinct'
  <2>1. /\ workers'[w].owner = workers[w].owner /\ workers'[w].ran = workers[w].ran
        /\ workers'[w].test \in {None, workers[w].test}
    BY DEF MovesOn
  <2>2. workers'[w].test # None =>
            \A v \in DOMAIN workers : v # w => workers[v].test # workers'[w].test
    BY <2>1 DEF Inv, WorkersDistinct
  <2> QED BY <1>2, <2>1, <2>2, DistinctStep
<1>6. TestsConsistent'
  <2>1. workers'[w].ran = workers[w].ran
    BY DEF MovesOn
  <2> QED BY <1>1, <1>2, <2>1, TestsStep DEF StepOf
<1>7. TreeConsistent'
  BY <1>1, TreeStep
<1> QED BY <1>1, <1>2, <1>4, <1>5, <1>6, <1>7

\* Only a session that is offered has a ticket.
LEMMA NoTicket ==
    ASSUME Inv, NEW w \in DOMAIN workers, workers[w].state # "offered", ~cancelled,
           NEW q, Within(q, pool.idle)
    PROVE  \A i \in DOMAIN q : IsOk(q[i]) => q[i].session # w
BY TicketWithin

LEMMA QuietInv ==
    ASSUME Inv, NEW w \in DOMAIN workers, MovesOn(w), Quiet, WorkerConsistent(w)',
           cancelled' = cancelled, keepStarting' \in BOOLEAN, keepStarting' => keepStarting,
           workers[w].state = "quitting" /\ workers[w].test # None =>
               workers'[w].state = "quitting" /\ workers'[w].test = workers[w].test,
           woken \subseteq woken', woken' \subseteq Waiting,
           keepStarting' = keepStarting \/ Waiting \subseteq woken',
           pool' \in PoolShape, Within(pool'.idle, pool.idle),
           requests' \in Seq(Nat), RequestsConsistent',
           workers[w].state # "ended",
           workers[w].state # "offered" \/ cancelled
               \/ \A i \in DOMAIN pool'.idle : IsOk(pool'.idle[i]) => pool'.idle[i].session # w
    PROVE  Inv'
<1>1. /\ StepOf(None, w) /\ None \notin Tests
      /\ WorkersConsistent' /\ WorkersDistinct' /\ TestsConsistent' /\ TreeConsistent'
  BY QuietStep
<1>2. cancelled' \in BOOLEAN
  BY DEF Inv, Shape
<1>3. TicketsConsistent'
  <2>1. ~cancelled => \A i \in DOMAIN pool'.idle :
            IsOk(pool'.idle[i]) => pool'.idle[i].session # w
    BY NoTicket
  <2>2. workers'[w].owner = workers[w].owner
    BY DEF MovesOn
  <2> QED BY <1>1, <1>2, <2>1, <2>2, TicketsStep DEF StepOf
<1>4. phase' = phase
  BY DEF Quiet
<1>5. NoLostWakeup'
  <2>1. pool'.idle \in Queue
    BY DEF PoolShape
  <2>2. keepStarting' = keepStarting \/ Waiting \ {None} \subseteq woken'
    OBVIOUS
  <2> QED BY <1>1, <1>4, <2>1, <2>2, WakeupKept
<1>6. Shape'
  BY <1>2, <1>4 DEF Inv, Shape, Quiet, MovesOn, Waiting
<1> QED BY <1>1, <1>3, <1>5, <1>6 DEF Inv

\* The worker delivers its session, or that it could not be created.
LEMMA OfferInv ==
    ASSUME Inv, NEW w \in DOMAIN workers, MovesOn(w), Quiet, WorkerConsistent(w)',
           Pooled(w), workers[w].state \in {"creating", "resetting"},
           NEW sort \in C!Sorts,
           IF sort = "failed" THEN workers'[w].state = "ended" ELSE workers'[w].state = "offered",
           sort = "created" => workers'[w].ran = <<>>,
           sort = "reset" => Reusable(w)',
           cancelled' = cancelled, keepStarting' = keepStarting, woken' = Waiting,
           pool' \in PoolShape, Within(pool'.idle, Append(pool.idle, [session |-> w, sort |-> sort])),
           requests' \in Seq(Nat), RequestsConsistent'
    PROVE  Inv'
<1>1. /\ StepOf(None, w) /\ None \notin Tests
      /\ WorkersConsistent' /\ WorkersDistinct' /\ TestsConsistent' /\ TreeConsistent'
  BY QuietStep
<1>2. cancelled' \in BOOLEAN /\ keepStarting' \in BOOLEAN /\ phase' = phase /\ record' = record
  BY DEF Inv, Shape, Quiet
<1> DEFINE ticket == [session |-> w, sort |-> sort]
           r == Append(pool.idle, ticket)
           last == Len(pool.idle) + 1
<1>3. /\ DOMAIN r = DOMAIN pool.idle \union {last} /\ last \notin DOMAIN pool.idle
      /\ \A i \in DOMAIN pool.idle : r[i] = pool.idle[i]
      /\ r[last] = ticket
  <2>1. pool.idle \in Seq(Ticket) /\ Len(pool.idle) \in Nat
        /\ DOMAIN pool.idle = 1 .. Len(pool.idle)
    BY DEF Inv, Shape, PoolShape, Queue, Ticket
  <2>2. /\ Len(r) = Len(pool.idle) + 1
        /\ \A i \in 1 .. Len(pool.idle) : r[i] = pool.idle[i]
        /\ r[Len(pool.idle) + 1] = ticket
    BY <2>1, AppendProperties
  <2>3. DOMAIN r = 1 .. Len(pool.idle) + 1
    BY <2>1
  <2> HIDE DEF r
  <2> QED BY <2>1, <2>2, <2>3
<1>4. PICK f \in [DOMAIN pool'.idle -> DOMAIN r] :
          /\ \A i, j \in DOMAIN pool'.idle : f[i] = f[j] => i = j
          /\ \A i \in DOMAIN pool'.idle : pool'.idle[i] = r[f[i]]
  BY DEF Within
<1> HIDE DEF r, last
<1>5. /\ w \in DOMAIN workers' /\ Pooled(w)'
      /\ \A v \in DOMAIN workers : v # w => workers'[v] = workers[v] /\ v \in DOMAIN workers'
  BY DEF MovesOn, Pooled
<1>6. ASSUME NEW i \in DOMAIN pool.idle
      PROVE  /\ pool.idle[i].session \in DOMAIN workers /\ Pooled(pool.idle[i].session)
             /\ pool.idle[i].sort = "failed" => workers[pool.idle[i].session].state = "ended"
             /\ ~cancelled => pool.idle[i].session # w
  BY DEF Inv, TicketsConsistent, IsOk
<1>7. TicketsConsistent'
  <2> SUFFICES ASSUME NEW i \in DOMAIN pool'.idle, NEW v, v = pool'.idle[i].session
               PROVE  /\ v \in DOMAIN workers' /\ Pooled(v)'
                      /\ pool'.idle[i].sort = "failed" => workers'[v].state = "ended"
                      /\ ~cancelled' /\ IsOk(pool'.idle[i]) =>
                            /\ workers'[v].state = "offered"
                            /\ \A j \in DOMAIN pool'.idle : pool'.idle[j].session = v => i = j
                            /\ pool'.idle[i].sort = "created" => workers'[v].ran = <<>>
                            /\ pool'.idle[i].sort = "reset" => Reusable(v)'
    BY DEF TicketsConsistent, IsOk
  <2>1. f[i] \in DOMAIN r /\ pool'.idle[i] = r[f[i]]
    BY <1>4
  <2>2. CASE f[i] = last
    <3>1. pool'.idle[i] = ticket /\ v = w
      BY <1>3, <2>1, <2>2
    <3>2. ~cancelled => \A j \in DOMAIN pool'.idle : pool'.idle[j].session = w => i = j
      <4> SUFFICES ASSUME ~cancelled, NEW j \in DOMAIN pool'.idle, pool'.idle[j].session = w
                   PROVE  i = j
        OBVIOUS
      <4>1. f[j] \in DOMAIN r /\ pool'.idle[j] = r[f[j]]
        BY <1>4
      <4>2. f[j] = last
        BY <1>3, <1>6, <4>1
      <4> QED BY <1>4, <2>2, <4>2
    <3> QED BY <1>5, <3>1, <3>2 DEF IsOk
  <2>3. CASE f[i] \in DOMAIN pool.idle
    <3>1. pool'.idle[i] = pool.idle[f[i]]
      BY <1>3, <2>1, <2>3
    <3>2. /\ v \in DOMAIN workers /\ Pooled(v)
          /\ pool'.idle[i].sort = "failed" => workers[v].state = "ended"
          /\ ~cancelled => v # w
      BY <1>6, <2>3, <3>1
    <3>3. v \in DOMAIN workers' /\ Pooled(v)'
      BY <1>5, <3>2 DEF Pooled
    <3>4. pool'.idle[i].sort = "failed" => workers'[v].state = "ended"
      BY <1>5, <3>2
    <3>5. ASSUME ~cancelled, IsOk(pool'.idle[i])
          PROVE  /\ workers'[v].state = "offered"
                 /\ \A j \in DOMAIN pool'.idle : pool'.idle[j].session = v => i = j
                 /\ pool'.idle[i].sort = "created" => workers'[v].ran = <<>>
                 /\ pool'.idle[i].sort = "reset" => Reusable(v)'
      <4>1. /\ workers[v].state = "offered"
            /\ \A j \in DOMAIN pool.idle : pool.idle[j].session = v => f[i] = j
            /\ pool'.idle[i].sort = "created" => workers[v].ran = <<>>
            /\ pool'.idle[i].sort = "reset" => Reusable(v)
        BY <2>3, <3>1, <3>5 DEF Inv, TicketsConsistent
      <4>2. workers'[v] = workers[v]
        BY <1>5, <3>2, <3>5
      <4>3. ASSUME NEW j \in DOMAIN pool'.idle, pool'.idle[j].session = v PROVE i = j
        <5>1. f[j] \in DOMAIN r /\ pool'.idle[j] = r[f[j]]
          BY <1>4
        <5>2. f[j] # last
          BY <1>3, <3>2, <3>5, <4>3, <5>1
        <5>3. f[j] \in DOMAIN pool.idle /\ pool.idle[f[j]].session = v
          BY <1>3, <4>3, <5>1, <5>2
        <5> QED BY <1>4, <4>1, <5>3
      <4>4. Reusable(v) => Reusable(v)'
        BY <1>2, <4>2 DEF Reusable, Pooled
      <4> QED BY <4>1, <4>2, <4>3, <4>4
    <3> QED BY <1>2, <3>3, <3>4, <3>5
  <2> QED BY <1>3, <2>1, <2>2, <2>3
<1>8. NoLostWakeup'
  BY <1>2 DEF NoLostWakeup, Waiting
<1>9. Shape'
  BY <1>2 DEF Inv, Shape, Quiet, MovesOn, Waiting
<1> QED BY <1>1, <1>7, <1>8, <1>9 DEF Inv

LEMMA SpawnInv ==
    ASSUME Inv, Spawn
    PROVE  Inv'
<1>0. PICK w : w = Head(requests)
  OBVIOUS
<1>1. /\ HasRequest /\ requests' = Tail(requests)
      /\ workers' = [workers EXCEPT ![w].state = "creating"]
      /\ suite' = suite /\ started' = started /\ phase' = phase /\ woken' = woken
      /\ pool' = pool /\ keepStarting' = keepStarting /\ cancelled' = cancelled
      /\ record' = record
  BY <1>0 DEF Spawn, executor
<1>2. /\ workers \in Seq(WorkerShape) /\ requests \in Seq(Nat) /\ woken \subseteq Waiting
      /\ keepStarting \in BOOLEAN /\ pool \in PoolShape /\ RequestsConsistent
  BY DEF Inv, Shape
<1>3. /\ requests # <<>> /\ w = requests[1] /\ requests[1] # Close
      /\ Len(requests) \in Nat /\ Len(requests) # 0 /\ DOMAIN requests = 1 .. Len(requests)
  BY <1>0, <1>1, <1>2 DEF HasRequest
<1>4. /\ requests' \in Seq(Nat) /\ Len(requests') = Len(requests) - 1
      /\ \A i \in 1 .. Len(requests) - 1 : requests'[i] = requests[i + 1]
  BY <1>1, <1>2, <1>3, HeadTailProperties
<1>5. /\ w \in DOMAIN workers /\ workers[w].state = "requested"
      /\ \A j \in DOMAIN requests : requests[j] = w => 1 = j
  BY <1>2, <1>3 DEF RequestsConsistent
<1>6. /\ workers' \in Seq(WorkerShape) /\ DOMAIN workers' = DOMAIN workers
      /\ workers'[w].state = "creating" /\ workers'[w].owner = workers[w].owner
      /\ workers'[w].test = workers[w].test /\ workers'[w].ran = workers[w].ran
      /\ workers'[w].baseline = workers[w].baseline
      /\ \A v \in DOMAIN workers : v # w => workers'[v] = workers[v]
  <2>1. "creating" \in States
    BY DEF States
  <2> QED BY <1>1, <1>2, <1>5, <2>1, StateChanged
<1>7. MovesOn(w) /\ Quiet
  BY <1>1, <1>6 DEF MovesOn, Quiet
<1>8. RequestsConsistent'
  <2> SUFFICES ASSUME NEW i \in DOMAIN requests', requests'[i] # Close
               PROVE  /\ requests'[i] \in DOMAIN workers'
                      /\ workers'[requests'[i]].state = "requested"
                      /\ \A j \in DOMAIN requests' : requests'[j] = requests'[i] => i = j
    BY DEF RequestsConsistent
  <2>1. DOMAIN requests' = 1 .. Len(requests) - 1
    BY <1>4
  <2>2. i + 1 \in DOMAIN requests /\ i + 1 # 1 /\ requests'[i] = requests[i + 1]
    BY <1>3, <1>4, <2>1
  <2>3. /\ requests[i + 1] \in DOMAIN workers /\ workers[requests[i + 1]].state = "requested"
        /\ \A j \in DOMAIN requests : requests[j] = requests[i + 1] => i + 1 = j
    BY <1>2, <2>2 DEF RequestsConsistent
  <2>4. requests[i + 1] # w
    BY <1>5, <2>2
  <2>5. ASSUME NEW j \in DOMAIN requests', requests'[j] = requests'[i] PROVE i = j
    <3>1. j + 1 \in DOMAIN requests /\ requests'[j] = requests[j + 1]
      BY <1>3, <1>4, <2>1
    <3>2. i + 1 = j + 1
      BY <2>2, <2>3, <2>5, <3>1
    <3> QED BY <2>1, <3>2
  <2> QED BY <1>6, <2>2, <2>3, <2>4, <2>5
<1>9. WorkerConsistent(w)'
  <2>1. WorkerConsistent(w)
    BY <1>5 DEF Inv, WorkersConsistent
  <2>2. /\ workers[w].test = None /\ workers[w].ran = <<>>
        /\ workers[w].owner # Pool => phase[workers[w].owner] = "requested"
    BY <1>5, <2>1 DEF WorkerConsistent
  <2> QED BY <1>1, <1>6, <2>2 DEF WorkerConsistent
<1>10. Within(pool'.idle, pool.idle)
  BY <1>1, WithinItself
<1>11. workers[w].state # "quitting" /\ workers[w].state # "ended" /\ workers[w].state # "offered"
  BY <1>5
<1>12. /\ keepStarting' \in BOOLEAN /\ woken \subseteq woken' /\ woken' \subseteq Waiting
       /\ pool' \in PoolShape
  BY <1>1, <1>2
<1> QED BY <1>1, <1>4, <1>5, <1>7, <1>8, <1>9, <1>10, <1>11, <1>12, QuietInv

\* Requests are not lost where other sessions change.
LEMMA RequestsOfOthers ==
    ASSUME Inv, NEW w \in DOMAIN workers, MovesOn(w), workers[w].state # "requested",
           UNCHANGED requests
    PROVE  RequestsConsistent' /\ requests' \in Seq(Nat)
<1>1. /\ DOMAIN workers \subseteq DOMAIN workers'
      /\ \A v \in DOMAIN workers : workers[v].state = "requested" => workers'[v].state = "requested"
  BY DEF MovesOn
<1> QED BY <1>1, RequestsKept DEF Inv, Shape

\* A worker that has no test left is consistent.
LEMMA IdleConsistent ==
    ASSUME Inv, NEW w \in DOMAIN workers, workers'[w].owner = workers[w].owner, phase' = phase,
           workers'[w].test = None,
           \/ workers'[w].state \in {"quitting", "ended"}
           \/ workers'[w].state = "offered" /\ (workers'[w].ran = <<>> \/ Pooled(w))
    PROVE  WorkerConsistent(w)'
BY DEF Inv, WorkersConsistent, WorkerConsistent, Pooled

LEMMA OfferShape ==
    ASSUME NEW p \in PoolShape, NEW w \in Nat, NEW sort \in C!Sorts
    PROVE  /\ Offer(p, w, sort) \in PoolShape
           /\ Offer(p, w, sort).alive = p.alive
           /\ ~p.closed => Offer(p, w, sort).idle = Append(p.idle, [session |-> w, sort |-> sort])
           /\ p.closed => Offer(p, w, sort) = p
<1> DEFINE ticket == [session |-> w, sort |-> sort]
<1>1. p.idle \in Queue /\ ticket \in [session : Nat, sort : C!Sorts]
  BY DEF PoolShape
<1>2. Append(p.idle, ticket) \in Queue
  BY <1>1, AppendProperties DEF Queue
<1> QED BY <1>2 DEF Offer, PoolShape

LEMMA CreatingChanged ==
    ASSUME NEW p \in PoolShape
    PROVE  /\ [p EXCEPT !.creating = @ - 1] \in PoolShape
           /\ [p EXCEPT !.creating = @ - 1].idle = p.idle
           /\ [p EXCEPT !.creating = @ - 1].alive = p.alive
           /\ [p EXCEPT !.creating = @ - 1].closed = p.closed
           /\ [p EXCEPT !.resetting = @ - 1] \in PoolShape
           /\ [p EXCEPT !.resetting = @ - 1].idle = p.idle
           /\ [p EXCEPT !.resetting = @ - 1].alive = p.alive
           /\ [p EXCEPT !.resetting = @ - 1].closed = p.closed
           /\ [p EXCEPT !.alive = @ - 1] \in PoolShape
           /\ [p EXCEPT !.alive = @ - 1].idle = p.idle
           /\ [p EXCEPT !.alive = @ - 1].alive = p.alive - 1
BY DEF PoolShape

LEMMA CreatedInv ==
    ASSUME Inv, NEW w \in DOMAIN workers, Created(w)
    PROVE  Inv'
<1>1. PICK baseline \in BOOLEAN :
          workers' = [workers EXCEPT ![w].state = "offered", ![w].baseline = baseline]
  BY SettingsAssumption DEF Created
<1>2. /\ workers[w].state = "creating"
      /\ suite' = suite /\ started' = started /\ phase' = phase /\ requests' = requests
      /\ keepStarting' = keepStarting /\ cancelled' = cancelled /\ record' = record
      /\ \/ /\ Pooled(w) /\ woken' = Waiting
            /\ pool' = Offer([pool EXCEPT !.creating = @ - 1], w, "created")
         \/ ~Pooled(w) /\ pool' = pool /\ woken' = woken
  BY DEF Created, Notify
<1>3. /\ workers \in Seq(WorkerShape) /\ woken \subseteq Waiting
      /\ keepStarting \in BOOLEAN /\ pool \in PoolShape /\ w \in Nat
      /\ workers[w] \in WorkerShape /\ WorkerConsistent(w)
  BY DEF Inv, Shape, WorkersConsistent
<1> DEFINE e == [workers[w] EXCEPT !.state = "offered", !.baseline = baseline]
<1>4. e \in WorkerShape /\ workers' = [workers EXCEPT ![w] = e]
  BY <1>1, <1>3 DEF WorkerShape, States
<1>5. /\ e.state = "offered" /\ e.owner = workers[w].owner /\ e.test = workers[w].test
      /\ e.ran = workers[w].ran
  BY <1>3 DEF WorkerShape
<1> HIDE DEF e
<1>6. /\ workers' \in Seq(WorkerShape) /\ DOMAIN workers' = DOMAIN workers /\ workers'[w] = e
      /\ \A v \in DOMAIN workers : v # w => workers'[v] = workers[v]
  BY <1>3, <1>4, ChangedWorker
<1>7. workers[w].test = None /\ workers[w].ran = <<>>
  BY <1>2, <1>3 DEF WorkerConsistent
<1>8. MovesOn(w) /\ Quiet
  BY <1>2, <1>5, <1>6, <1>7 DEF MovesOn, Quiet
<1>9. WorkerConsistent(w)'
  BY <1>2, <1>5, <1>6, <1>7, IdleConsistent
<1>10. RequestsConsistent' /\ requests' \in Seq(Nat)
  BY <1>2, <1>8, RequestsOfOthers
<1> DEFINE p == [pool EXCEPT !.creating = @ - 1]
<1>11. p \in PoolShape /\ p.idle = pool.idle
  BY <1>3, CreatingChanged
<1>12. Pooled(w) => pool' = Offer(p, w, "created")
  BY <1>2
<1> HIDE DEF p
<1>13. "created" \in C!Sorts
  BY DEF C!Sorts
<1>14. CASE Pooled(w) /\ ~p.closed
  <2>1. /\ pool' \in PoolShape
        /\ pool'.idle = Append(pool.idle, [session |-> w, sort |-> "created"])
    BY <1>3, <1>11, <1>12, <1>13, <1>14, OfferShape
  <2>2. Within(pool'.idle, Append(pool.idle, [session |-> w, sort |-> "created"]))
    BY <2>1, WithinItself
  <2> QED BY <1>2, <1>5, <1>6, <1>7, <1>8, <1>9, <1>10, <1>13, <1>14, <2>1, <2>2, OfferInv
<1>15. CASE ~Pooled(w) \/ p.closed
  <2>1. pool' \in PoolShape /\ pool'.idle = pool.idle
    BY <1>2, <1>3, <1>11, <1>12, <1>13, <1>15, OfferShape
  <2>2. Within(pool'.idle, pool.idle)
    BY <2>1, WithinItself
  <2>3. woken \subseteq woken' /\ woken' \subseteq Waiting
    BY <1>2, <1>3
  <2>4. workers[w].state # "quitting" /\ workers[w].state # "ended" /\ workers[w].state # "offered"
    BY <1>2
  <2> QED BY <1>2, <1>3, <1>8, <1>9, <1>10, <2>1, <2>2, <2>3, <2>4, QuietInv
<1> QED BY <1>14, <1>15

\* The pool is told that a session ended, or how its reset went, and requests others.
LEMMA ReplenishedWith ==
    ASSUME Inv, NEW w \in DOMAIN workers, workers[w].state # "requested",
           NEW ws \in Seq(WorkerShape), Len(ws) = Len(workers),
           \A v \in DOMAIN workers : v # w => ws[v] = workers[v],
           ws[w].owner = workers[w].owner, ws[w].ran = workers[w].ran,
           ws[w].baseline = workers[w].baseline, ws[w].test \in {None, workers[w].test},
           NEW p \in PoolShape, NEW keep \in BOOLEAN, NEW cancel \in BOOLEAN,
           Update(Replenish(p, keep, cancel), p.alive, ws)
    PROVE  /\ MovesOn(w) /\ workers'[w] = ws[w]
           /\ pool' \in PoolShape /\ Within(pool'.idle, p.idle)
           /\ requests' \in Seq(Nat) /\ RequestsConsistent'
<1> DEFINE q == Replenish(p, keep, cancel)
<1>1. q \in PoolShape /\ Within(q.idle, p.idle) /\ q.alive - p.alive \in Nat
  BY ReplenishFacts
<1>2. Update(q, p.alive, ws)
  OBVIOUS
<1> HIDE DEF q
<1>3. Shape /\ RequestsConsistent
      /\ \A v \in DOMAIN workers : workers[v].state = "requested" => ws[v].state = "requested"
  BY DEF Inv
<1>4. /\ pool' = q /\ requests' \in Seq(Nat) /\ RequestsConsistent'
      /\ workers' \in Seq(WorkerShape) /\ DOMAIN workers \subseteq DOMAIN workers'
      /\ \A v \in DOMAIN workers : workers'[v] = ws[v]
      /\ \A v \in DOMAIN workers' : v \notin DOMAIN workers => workers'[v] = Hired(Pool)
  BY <1>1, <1>2, <1>3, UpdateFacts
<1>5. MovesOn(w) /\ workers'[w] = ws[w]
  BY <1>4 DEF MovesOn
<1> QED BY <1>1, <1>4, <1>5

\* The creation of a dedicated session fails: its test is told.
LEMMA RefusedInv ==
    ASSUME Inv, NEW w \in DOMAIN workers, workers[w].state = "creating", ~Pooled(w),
           phase' = [phase EXCEPT ![workers[w].owner] = "refused"],
           workers' = [workers EXCEPT ![w].state = "ended"],
           UNCHANGED <<suite, started, woken, pool, requests, keepStarting, cancelled, record>>
    PROVE  Inv'
<1>1. /\ workers \in Seq(WorkerShape) /\ woken \subseteq Waiting /\ phase \in [Tests -> Phases]
      /\ keepStarting \in BOOLEAN /\ pool \in PoolShape /\ cancelled \in BOOLEAN
      /\ record \in [Tests -> Seq(Recorded)] /\ requests \in Seq(Nat)
      /\ workers[w] \in WorkerShape /\ WorkerConsistent(w) /\ RequestsConsistent
  BY DEF Inv, Shape, WorkersConsistent
<1>2. PICK t : t = workers[w].owner
  OBVIOUS
<1>3. /\ t \in Tests /\ t # Pool /\ t # None /\ phase[t] = "requested"
      /\ workers[w].test = None /\ workers[w].ran = <<>>
  BY <1>1, <1>2, TestsAssumption DEF WorkerShape, Pooled, WorkerConsistent
<1>4. phase' \in [Tests -> Phases] /\ phase'[t] = "refused"
      /\ \A u \in Tests : u # t => phase'[u] = phase[u]
  <2>1. "refused" \in Phases
    BY DEF Phases
  <2> QED BY <1>1, <1>2, <1>3, <2>1
<1>5. /\ workers' \in Seq(WorkerShape) /\ DOMAIN workers' = DOMAIN workers
      /\ workers'[w].state = "ended" /\ workers'[w].owner = t
      /\ workers'[w].test = None /\ workers'[w].ran = <<>>
      /\ workers'[w].baseline = workers[w].baseline
      /\ \A v \in DOMAIN workers : v # w => workers'[v] = workers[v]
  <2>1. "ended" \in States
    BY DEF States
  <2>2. PICK ws : ws = [workers EXCEPT ![w].state = "ended"]
    OBVIOUS
  <2>3. /\ ws \in Seq(WorkerShape) /\ Len(ws) = Len(workers) /\ DOMAIN ws = DOMAIN workers
        /\ ws[w].state = "ended" /\ ws[w].owner = workers[w].owner /\ ws[w].test = workers[w].test
        /\ ws[w].ran = workers[w].ran /\ ws[w].baseline = workers[w].baseline
        /\ \A v \in DOMAIN workers : v # w => ws[v] = workers[v]
    BY <1>1, <2>1, <2>2, StateChanged
  <2>4. workers' = ws
    BY <2>2
  <2> QED BY <1>2, <1>3, <2>3, <2>4
<1>6. StepOf(t, w)
  BY <1>1, <1>4, <1>5 DEF StepOf, Frame
<1>7. phase[t] \in Before
  BY <1>3 DEF Before
<1>8. WorkersConsistent'
  <2>1. MovesOn(w)
    BY <1>2, <1>3, <1>5 DEF MovesOn
  <2>2. RanSafely(w)'
    BY <2>1, RanSafelyKept
  <2>3. WorkerConsistent(w)'
    BY <1>3, <1>4, <1>5 DEF WorkerConsistent
  <2>4. \A v \in DOMAIN workers : v # w => workers[v].test # t /\ workers[v].owner # t
    BY <1>2, <1>3, <1>7, TestHasNoWorker DEF Inv, WorkersDistinct
  <2> QED BY <1>6, <2>2, <2>3, <2>4, WorkersStep
<1>9. WorkersDistinct'
  <2>1. workers'[w].owner = workers[w].owner /\ workers'[w].ran = workers[w].ran
    BY <1>2, <1>3, <1>5
  <2> QED BY <1>5, <1>6, <2>1, DistinctStep
<1>10. TestsConsistent'
  <2>1. workers'[w].ran = workers[w].ran
    BY <1>3, <1>5
  <2>2. Ran(t)' = Ran(t)
    BY <1>3, <1>6, <2>1, RanElsewhere DEF StepOf
  <2>3. TestConsistent(t)'
    <3>1. TestConsistent(t)
      BY <1>3 DEF Inv, TestsConsistent
    <3>2. record'[t] = <<>> /\ Ran(t)' = {}
      BY <1>3, <1>7, <2>2, <3>1 DEF TestConsistent
    <3> QED BY <1>4, <3>2 DEF TestConsistent
  <2> QED BY <1>3, <1>6, <2>1, <2>3, TestsStep DEF StepOf
<1>11. Within(pool'.idle, pool.idle)
  BY WithinItself
<1>12. TicketsConsistent'
  <2>1. ~cancelled => \A i \in DOMAIN pool'.idle :
            IsOk(pool'.idle[i]) => pool'.idle[i].session # w
    BY <1>11, NoTicket
  <2>2. cancelled' \in BOOLEAN /\ workers'[w].owner = workers[w].owner
    BY <1>1, <1>2, <1>5
  <2> QED BY <1>6, <1>11, <2>1, <2>2, TicketsStep DEF StepOf
<1>13. TreeConsistent'
  BY <1>3, <1>4, TreeStep
<1>14. NoLostWakeup'
  <2>1. pool'.idle \in Queue
    BY <1>1 DEF PoolShape
  <2> QED BY <1>4, <1>11, <2>1, WakeupKept
<1>15. RequestsConsistent'
  <2>1. /\ DOMAIN workers \subseteq DOMAIN workers'
        /\ \A v \in DOMAIN workers :
              workers[v].state = "requested" => workers'[v].state = "requested"
    BY <1>5
  <2> QED BY <2>1, RequestsKept DEF Inv
<1>16. Shape'
  <2>1. woken' \subseteq Waiting'
    BY <1>1, <1>3, <1>4 DEF Waiting
  <2> QED BY <1>1, <1>4, <1>5, <2>1 DEF Inv, Shape
<1> QED BY <1>8, <1>9, <1>10, <1>12, <1>13, <1>14, <1>15, <1>16 DEF Inv

LEMMA CreationFailsInv ==
    ASSUME Inv, NEW w \in DOMAIN workers, CreationFails(w)
    PROVE  Inv'
<1>1. /\ workers[w].state = "creating"
      /\ suite' = suite /\ started' = started /\ keepStarting' = keepStarting
      /\ cancelled' = cancelled /\ record' = record
  BY DEF CreationFails
<1>2. /\ workers \in Seq(WorkerShape) /\ woken \subseteq Waiting /\ w \in Nat
      /\ keepStarting \in BOOLEAN /\ pool \in PoolShape /\ cancelled \in BOOLEAN
      /\ WorkerConsistent(w)
  BY DEF Inv, Shape, WorkersConsistent
<1>3. CASE ~Pooled(w)
  <2>1. /\ phase' = [phase EXCEPT ![workers[w].owner] = "refused"]
        /\ workers' = [workers EXCEPT ![w].state = "ended"]
        /\ pool' = pool /\ requests' = requests /\ woken' = woken
    BY <1>3 DEF CreationFails
  <2> QED BY <1>1, <1>3, <2>1, RefusedInv
<1>4. CASE Pooled(w)
  <2>0. PICK ws : ws = [workers EXCEPT ![w].state = "ended"]
    OBVIOUS
  <2> DEFINE delivered == [pool EXCEPT !.creating = @ - 1]
             failed == Offer(delivered, w, "failed")
             p == [failed EXCEPT !.alive = @ - 1]
  <2>1. /\ Update(Replenish(p, keepStarting, cancelled), pool.alive - 1, ws)
        /\ woken' = Waiting /\ phase' = phase
    BY <1>4, <2>0 DEF CreationFails, Ended, Notify
  <2>2. "failed" \in C!Sorts /\ "ended" \in States
    BY DEF C!Sorts, States
  <2>3. /\ ws \in Seq(WorkerShape) /\ Len(ws) = Len(workers) /\ DOMAIN ws = DOMAIN workers
        /\ ws[w].state = "ended" /\ ws[w].owner = workers[w].owner /\ ws[w].test = workers[w].test
        /\ ws[w].ran = workers[w].ran /\ ws[w].baseline = workers[w].baseline
        /\ \A v \in DOMAIN workers : v # w => ws[v] = workers[v]
    BY <1>2, <2>0, <2>2, StateChanged
  <2>4. /\ delivered \in PoolShape /\ delivered.idle = pool.idle /\ delivered.alive = pool.alive
        /\ delivered.closed = pool.closed
    BY <1>2, CreatingChanged
  <2> HIDE DEF delivered
  <2>5. /\ failed \in PoolShape /\ failed.alive = pool.alive
        /\ ~pool.closed => failed.idle = Append(pool.idle, [session |-> w, sort |-> "failed"])
        /\ pool.closed => failed.idle = pool.idle
    BY <1>2, <2>2, <2>4, OfferShape
  <2> HIDE DEF failed
  <2>6. p \in PoolShape /\ p.idle = failed.idle /\ p.alive = pool.alive - 1
    BY <2>5, CreatingChanged
  <2> HIDE DEF p
  <2>7. /\ MovesOn(w) /\ workers'[w] = ws[w]
        /\ pool' \in PoolShape /\ Within(pool'.idle, p.idle)
        /\ requests' \in Seq(Nat) /\ RequestsConsistent'
    BY <1>1, <1>2, <2>1, <2>3, <2>6, ReplenishedWith
  <2>8. Quiet
    BY <1>1, <2>1 DEF Quiet
  <2>9. workers[w].test = None
    BY <1>1, <1>2 DEF WorkerConsistent
  <2>10. WorkerConsistent(w)'
    BY <2>1, <2>3, <2>7, <2>9, IdleConsistent
  <2>11. CASE pool.closed
    <3>1. Within(pool'.idle, pool.idle)
      BY <2>5, <2>6, <2>7, <2>11
    <3>2. keepStarting' \in BOOLEAN /\ woken \subseteq woken' /\ woken' \subseteq Waiting
      BY <1>1, <1>2, <2>1
    <3>3. workers[w].state # "quitting" /\ workers[w].state # "ended" /\ workers[w].state # "offered"
      BY <1>1
    <3> QED BY <1>1, <2>7, <2>8, <2>10, <3>1, <3>2, <3>3, QuietInv
  <2>12. CASE ~pool.closed
    <3>1. Within(pool'.idle, Append(pool.idle, [session |-> w, sort |-> "failed"]))
      BY <2>5, <2>6, <2>7, <2>12
    <3>2. workers'[w].state = "ended"
      BY <2>3, <2>7
    <3> QED BY <1>1, <1>4, <2>1, <2>2, <2>7, <2>8, <2>10, <3>1, <3>2, OfferInv
  <2> QED BY <1>2, <2>11, <2>12
<1> QED BY <1>3, <1>4

\* The worker leaves its test, without telling the pool.
LEMMA LeavesInv ==
    ASSUME Inv, NEW w \in DOMAIN workers,
           workers' = [workers EXCEPT ![w].state = "quitting", ![w].test = None],
           workers[w].state \in {"offered", "running", "checking", "resetting"},
           UNCHANGED <<suite, started, phase, woken, pool, requests, keepStarting, cancelled,
                       record>>,
           workers[w].state = "offered" => cancelled \/ ~TicketHeld(w)
    PROVE  Inv'
<1>1. /\ workers \in Seq(WorkerShape) /\ woken \subseteq Waiting /\ keepStarting \in BOOLEAN
      /\ pool \in PoolShape
  BY DEF Inv, Shape
<1>2. PICK ws : ws = Left(w, "quitting")
  OBVIOUS
<1>3. "quitting" \in States
  BY DEF States
<1>4. /\ ws \in Seq(WorkerShape) /\ DOMAIN ws = DOMAIN workers
      /\ ws[w].state = "quitting" /\ ws[w].owner = workers[w].owner /\ ws[w].test = None
      /\ ws[w].ran = workers[w].ran /\ ws[w].baseline = workers[w].baseline
      /\ \A v \in DOMAIN workers : v # w => ws[v] = workers[v]
  BY <1>1, <1>2, <1>3, TestLeft
<1>5. workers' = ws
  BY <1>2 DEF Left
<1>6. MovesOn(w) /\ Quiet
  BY <1>4, <1>5 DEF MovesOn, Quiet
<1>7. WorkerConsistent(w)'
  BY <1>4, <1>5, IdleConsistent
<1>8. workers[w].state # "requested" /\ workers[w].state # "quitting" /\ workers[w].state # "ended"
  OBVIOUS
<1>9. RequestsConsistent' /\ requests' \in Seq(Nat)
  BY <1>6, <1>8, RequestsOfOthers
<1>10. Within(pool'.idle, pool.idle) /\ pool' \in PoolShape
  BY <1>1, WithinItself
<1>11. \/ workers[w].state # "offered" \/ cancelled
       \/ \A i \in DOMAIN pool'.idle : IsOk(pool'.idle[i]) => pool'.idle[i].session # w
  BY DEF TicketHeld, Inv, TicketsConsistent
<1>12. keepStarting' \in BOOLEAN /\ woken \subseteq woken' /\ woken' \subseteq Waiting
  BY <1>1
<1> QED BY <1>6, <1>7, <1>8, <1>9, <1>10, <1>11, <1>12, QuietInv

LEMMA ReleaseInv ==
    ASSUME Inv, NEW w \in DOMAIN workers, Release(w)
    PROVE  Inv'
BY LeavesInv DEF Release, IsReleased, executor

LEMMA DroppedInv ==
    ASSUME Inv, NEW w \in DOMAIN workers, Dropped(w)
    PROVE  Inv'
BY LeavesInv DEF Dropped, executor

LEMMA TimesOutInv ==
    ASSUME Inv, NEW w \in DOMAIN workers, TimesOut(w)
    PROVE  Inv'
<1>1. /\ workers[w].state = "running" /\ workers' = [workers EXCEPT ![w].state = "checking"]
      /\ StopOn(TRUE, workers[w].test)
      /\ suite' = suite /\ started' = started /\ phase' = phase /\ pool' = pool
      /\ requests' = requests /\ cancelled' = cancelled /\ record' = record
  BY DEF TimesOut
<1>2. /\ workers \in Seq(WorkerShape) /\ woken \subseteq Waiting /\ pool \in PoolShape /\ Shape
      /\ WorkerConsistent(w)
  BY DEF Inv, Shape, WorkersConsistent
<1>3. PICK ws : ws = [workers EXCEPT ![w].state = "checking"]
  OBVIOUS
<1>4. "checking" \in States
  BY DEF States
<1>5. /\ ws \in Seq(WorkerShape) /\ DOMAIN ws = DOMAIN workers
      /\ ws[w].state = "checking" /\ ws[w].owner = workers[w].owner
      /\ ws[w].test = workers[w].test
      /\ ws[w].ran = workers[w].ran /\ ws[w].baseline = workers[w].baseline
      /\ \A v \in DOMAIN workers : v # w => ws[v] = workers[v]
  BY <1>2, <1>3, <1>4, StateChanged
<1>6. workers' = ws
  BY <1>1, <1>3
<1>7. MovesOn(w) /\ Quiet
  BY <1>1, <1>5, <1>6 DEF MovesOn, Quiet
<1>8. /\ workers[w].test # None /\ workers[w].ran # <<>>
      /\ workers[w].test = workers[w].ran[Len(workers[w].ran)]
      /\ phase[workers[w].test] = "running"
      /\ workers[w].owner # Pool => phase[workers[w].owner] # "queued"
  BY <1>1, <1>2 DEF WorkerConsistent
<1>9. WorkerConsistent(w)'
  BY <1>1, <1>5, <1>6, <1>8 DEF WorkerConsistent
<1>10. /\ workers[w].state # "requested" /\ workers[w].state # "quitting"
       /\ workers[w].state # "ended" /\ workers[w].state # "offered"
  BY <1>1
<1>11. RequestsConsistent' /\ requests' \in Seq(Nat)
  BY <1>1, <1>7, <1>10, RequestsOfOthers
<1>12. Within(pool'.idle, pool.idle) /\ pool' \in PoolShape
  BY <1>1, <1>2, WithinItself
<1>13. workers[w].test \notin Waiting
  BY <1>8 DEF Waiting
<1>14. /\ keepStarting' \in BOOLEAN /\ (keepStarting' => keepStarting)
       /\ woken \subseteq woken' /\ woken' \subseteq Waiting
       /\ keepStarting' = keepStarting \/ Waiting \subseteq woken'
  BY <1>1, <1>2, <1>13, StopOnFacts
<1> QED BY <1>1, <1>7, <1>9, <1>10, <1>11, <1>12, <1>14, QuietInv

LEMMA ResetDoneInv ==
    ASSUME Inv, NEW w \in DOMAIN workers, ResetDone(w)
    PROVE  Inv'
<1> DEFINE done == [pool EXCEPT !.resetting = @ - 1]
<1>1. /\ workers[w].state = "resetting"
      /\ workers' = [workers EXCEPT ![w].state = "offered", ![w].test = None]
      /\ \/ pool' = Offer(done, w, "reset") /\ woken' = Waiting
         \/ pool' = done /\ woken' = woken
      /\ suite' = suite /\ started' = started /\ phase' = phase /\ requests' = requests
      /\ keepStarting' = keepStarting /\ cancelled' = cancelled /\ record' = record
  BY DEF ResetDone, Notify
<1>2. /\ workers \in Seq(WorkerShape) /\ woken \subseteq Waiting /\ pool \in PoolShape
      /\ keepStarting \in BOOLEAN /\ w \in Nat /\ WorkerConsistent(w)
  BY DEF Inv, Shape, WorkersConsistent
<1>3. PICK ws : ws = Left(w, "offered")
  OBVIOUS
<1>4. "offered" \in States /\ "reset" \in C!Sorts
  BY DEF States, C!Sorts
<1>5. /\ ws \in Seq(WorkerShape) /\ DOMAIN ws = DOMAIN workers
      /\ ws[w].state = "offered" /\ ws[w].owner = workers[w].owner /\ ws[w].test = None
      /\ ws[w].ran = workers[w].ran /\ ws[w].baseline = workers[w].baseline
      /\ \A v \in DOMAIN workers : v # w => ws[v] = workers[v]
  BY <1>2, <1>3, <1>4, TestLeft
<1>6. workers' = ws
  BY <1>1, <1>3 DEF Left
<1>7. MovesOn(w) /\ Quiet
  BY <1>1, <1>5, <1>6 DEF MovesOn, Quiet
<1>8. Reusable(w) /\ Pooled(w)
  BY <1>1, <1>2 DEF WorkerConsistent, Reusable
<1>9. WorkerConsistent(w)'
  BY <1>1, <1>5, <1>6, <1>8, IdleConsistent
<1>10. /\ workers[w].state # "requested" /\ workers[w].state # "quitting"
       /\ workers[w].state # "ended" /\ workers[w].state # "offered"
  BY <1>1
<1>11. RequestsConsistent' /\ requests' \in Seq(Nat)
  BY <1>1, <1>7, <1>10, RequestsOfOthers
<1>12. done \in PoolShape /\ done.idle = pool.idle
  BY <1>2, CreatingChanged
<1> HIDE DEF done
<1>13. \/ /\ pool' \in PoolShape /\ woken' = Waiting
          /\ pool'.idle = Append(pool.idle, [session |-> w, sort |-> "reset"])
       \/ /\ pool' \in PoolShape /\ woken \subseteq woken' /\ woken' \subseteq Waiting
          /\ pool'.idle = pool.idle
  BY <1>1, <1>2, <1>4, <1>12, OfferShape
<1>14. CASE /\ pool' \in PoolShape /\ woken' = Waiting
            /\ pool'.idle = Append(pool.idle, [session |-> w, sort |-> "reset"])
  <2>1. Within(pool'.idle, Append(pool.idle, [session |-> w, sort |-> "reset"]))
    BY <1>14, WithinItself
  <2>2. Reusable(w)'
    BY <1>1, <1>5, <1>6, <1>8 DEF Reusable, Pooled
  <2>3. workers'[w].state = "offered"
    BY <1>5, <1>6
  <2> QED BY <1>1, <1>4, <1>7, <1>8, <1>9, <1>11, <1>14, <2>1, <2>2, <2>3, OfferInv
<1>15. CASE /\ pool' \in PoolShape /\ woken \subseteq woken' /\ woken' \subseteq Waiting
            /\ pool'.idle = pool.idle
  <2>1. Within(pool'.idle, pool.idle)
    BY <1>15, WithinItself
  <2> QED BY <1>1, <1>2, <1>7, <1>9, <1>10, <1>11, <1>15, <2>1, QuietInv
<1> QED BY <1>13, <1>14, <1>15

LEMMA ResetFailsInv ==
    ASSUME Inv, NEW w \in DOMAIN workers, ResetFails(w)
    PROVE  Inv'
<1>1. PICK ws : ws = Left(w, "quitting")
  OBVIOUS
<1> DEFINE p == [pool EXCEPT !.resetting = @ - 1]
<1>2. /\ workers[w].state = "resetting"
      /\ Update(Replenish(p, keepStarting, cancelled), pool.alive, ws)
      /\ suite' = suite /\ started' = started /\ phase' = phase /\ woken' = woken
      /\ keepStarting' = keepStarting /\ cancelled' = cancelled /\ record' = record
  BY <1>1 DEF ResetFails, executor, Left
<1>3. /\ workers \in Seq(WorkerShape) /\ woken \subseteq Waiting /\ pool \in PoolShape
      /\ keepStarting \in BOOLEAN /\ cancelled \in BOOLEAN
  BY DEF Inv, Shape
<1>4. "quitting" \in States
  BY DEF States
<1>5. /\ ws \in Seq(WorkerShape) /\ Len(ws) = Len(workers)
      /\ ws[w].state = "quitting" /\ ws[w].owner = workers[w].owner /\ ws[w].test = None
      /\ ws[w].ran = workers[w].ran /\ ws[w].baseline = workers[w].baseline
      /\ \A v \in DOMAIN workers : v # w => ws[v] = workers[v]
  BY <1>1, <1>3, <1>4, TestLeft
<1>6. p \in PoolShape /\ p.idle = pool.idle /\ p.alive = pool.alive
  BY <1>3, CreatingChanged
<1> HIDE DEF p
<1>7. /\ workers[w].state # "requested" /\ workers[w].state # "quitting"
      /\ workers[w].state # "ended" /\ workers[w].state # "offered"
  BY <1>2
<1>8. /\ MovesOn(w) /\ workers'[w] = ws[w]
      /\ pool' \in PoolShape /\ Within(pool'.idle, p.idle)
      /\ requests' \in Seq(Nat) /\ RequestsConsistent'
  BY <1>2, <1>3, <1>5, <1>6, <1>7, ReplenishedWith
<1>9. Quiet
  BY <1>2 DEF Quiet
<1>10. WorkerConsistent(w)'
  BY <1>2, <1>5, <1>8, IdleConsistent
<1>11. /\ keepStarting' \in BOOLEAN /\ woken \subseteq woken' /\ woken' \subseteq Waiting
       /\ Within(pool'.idle, pool.idle)
  BY <1>2, <1>3, <1>6, <1>8
<1> QED BY <1>2, <1>7, <1>8, <1>9, <1>10, <1>11, QuietInv

\* The test of worker w is over, which is in state x then.
Over(w, x, outcome) == [workers EXCEPT ![w].state = x, ![w].outcome = outcome]

LEMMA TestOver ==
    ASSUME workers \in Seq(WorkerShape), NEW w \in DOMAIN workers, NEW x \in States,
           NEW outcome \in BodyOutcomes, NEW ws, ws = Over(w, x, outcome)
    PROVE  /\ ws \in Seq(WorkerShape) /\ DOMAIN ws = DOMAIN workers
           /\ ws[w].state = x /\ ws[w].owner = workers[w].owner /\ ws[w].test = workers[w].test
           /\ ws[w].ran = workers[w].ran /\ ws[w].outcome = outcome
           /\ ws[w].baseline = workers[w].baseline
           /\ \A v \in DOMAIN workers : v # w => ws[v] = workers[v]
<1> DEFINE e == [workers[w] EXCEPT !.state = x, !.outcome = outcome]
<1>1. workers[w] \in WorkerShape
  OBVIOUS
<1>2. e \in WorkerShape /\ ws = [workers EXCEPT ![w] = e]
  BY <1>1 DEF WorkerShape, Over
<1>3. /\ e.state = x /\ e.owner = workers[w].owner /\ e.test = workers[w].test
      /\ e.ran = workers[w].ran /\ e.outcome = outcome
      /\ e.baseline = workers[w].baseline
  BY <1>1 DEF WorkerShape
<1> HIDE DEF e
<1>4. /\ ws \in Seq(WorkerShape) /\ DOMAIN ws = DOMAIN workers
      /\ ws[w] = e
      /\ \A v \in DOMAIN workers : v # w => ws[v] = workers[v]
  BY <1>2, ChangedWorker
<1> QED BY <1>3, <1>4

\* An outcome is recorded for a test that was not recorded.
LEMMA RecordFacts ==
    ASSUME record \in [Tests -> Seq(Recorded)], NEW t \in Tests, record[t] = <<>>,
           NEW outcome \in BodyOutcomes, Record(t, outcome)
    PROVE  /\ record' \in [Tests -> Seq(Recorded)]
           /\ \A u \in Tests : u # t => record'[u] = record[u]
           /\ record'[t] = <<outcome>> /\ record'[t] # <<>> /\ Len(record'[t]) = 1
<1>1. outcome \in Recorded
  BY DEF Recorded
<1>2. Append(record[t], outcome) = <<outcome>> /\ <<outcome>> \in Seq(Recorded)
      /\ <<outcome>> # <<>> /\ Len(<<outcome>>) = 1
  BY <1>1
<1>3. record' = [record EXCEPT ![t] = Append(record[t], outcome)]
  BY DEF Record
<1> QED BY <1>2, <1>3

LEMMA AfterBodyInv ==
    ASSUME Inv, NEW w \in DOMAIN workers, workers[w].state \in {"running", "checking"},
           NEW t, t = workers[w].test, NEW outcome \in BodyOutcomes, AfterBody(w, outcome),
           keepStarting' \in BOOLEAN, keepStarting' => keepStarting,
           woken \ {t} \subseteq woken', woken' \subseteq Waiting,
           keepStarting' = keepStarting \/ Waiting \ {t} \subseteq woken'
    PROVE  Inv'
<1>1. PICK reuse \in BOOLEAN :
          /\ reuse => MayReuse(w, outcome)
          /\ phase' = [phase EXCEPT ![t] = "done"]
          /\ pool' = LET finished == IF Pooled(w) THEN [pool EXCEPT !.running = @ - 1] ELSE pool
                     IN  IF reuse THEN [finished EXCEPT !.resetting = @ + 1] ELSE finished
          /\ workers' = Over(w, IF reuse THEN "resetting" ELSE "quitting", outcome)
          /\ IF reuse THEN Record(t, outcome) ELSE record' = record
          /\ suite' = suite /\ started' = started /\ requests' = requests
          /\ cancelled' = cancelled
  <2> DEFINE finished == IF Pooled(w) THEN [pool EXCEPT !.running = @ - 1] ELSE pool
             reuse == MayReuse(w, outcome)
                         /\ C!WantsReset(Counts(finished), keepStarting', cancelled)
  <2>1. reuse \in BOOLEAN
    OBVIOUS
  <2>2. /\ reuse => MayReuse(w, outcome)
        /\ phase' = [phase EXCEPT ![t] = "done"]
        /\ pool' = IF reuse THEN [finished EXCEPT !.resetting = @ + 1] ELSE finished
        /\ workers' = Over(w, IF reuse THEN "resetting" ELSE "quitting", outcome)
        /\ IF reuse THEN Record(t, outcome) ELSE record' = record
        /\ suite' = suite /\ started' = started /\ requests' = requests
        /\ cancelled' = cancelled
    BY DEF AfterBody, Over
  <2> HIDE DEF reuse
  <2> QED BY <2>1, <2>2
<1>2. /\ workers \in Seq(WorkerShape) /\ phase \in [Tests -> Phases] /\ pool \in PoolShape
      /\ record \in [Tests -> Seq(Recorded)] /\ requests \in Seq(Nat) /\ cancelled \in BOOLEAN
      /\ workers[w] \in WorkerShape /\ WorkerConsistent(w) /\ RanSafely(w)
  BY DEF Inv, Shape, WorkersConsistent
<1>3. /\ t # None /\ t \in Tests /\ workers[w].ran # <<>> /\ workers[w].ran \in Seq(Tests)
      /\ t = workers[w].ran[Len(workers[w].ran)] /\ phase[t] = "running"
      /\ workers[w].owner # Pool => workers[w].owner \in Tests /\ phase[workers[w].owner] # "queued"
  BY <1>2 DEF WorkerConsistent, WorkerShape
<1>4. record[t] = <<>>
  BY <1>3 DEF Inv, TestsConsistent, TestConsistent
<1>5. /\ phase' \in [Tests -> Phases] /\ phase'[t] = "done"
      /\ \A u \in Tests : u # t => phase'[u] = phase[u]
  BY <1>1, <1>2, <1>3 DEF Phases
<1>6. /\ record' \in [Tests -> Seq(Recorded)]
      /\ \A u \in Tests : u # t => record'[u] = record[u]
      /\ IF reuse THEN record'[t] = <<outcome>> /\ record'[t] # <<>> /\ Len(record'[t]) = 1
                  ELSE record'[t] = <<>>
  BY <1>1, <1>2, <1>3, <1>4, RecordFacts
<1>7. /\ workers' \in Seq(WorkerShape) /\ DOMAIN workers' = DOMAIN workers
      /\ workers'[w].state = (IF reuse THEN "resetting" ELSE "quitting")
      /\ workers'[w].owner = workers[w].owner /\ workers'[w].test = t
      /\ workers'[w].ran = workers[w].ran /\ workers'[w].outcome = outcome
      /\ workers'[w].baseline = workers[w].baseline
      /\ \A v \in DOMAIN workers : v # w => workers'[v] = workers[v]
  <2>1. (IF reuse THEN "resetting" ELSE "quitting") \in States
    BY DEF States
  <2> QED BY <1>1, <1>2, <2>1, TestOver
<1>8. StepOf(t, w)
  BY <1>1, <1>4, <1>5, <1>6, <1>7 DEF StepOf, Frame
<1>9. /\ pool' \in PoolShape /\ pool'.idle \in Queue /\ Within(pool'.idle, pool.idle)
  <2>1. PICK finished : finished = IF Pooled(w) THEN [pool EXCEPT !.running = @ - 1] ELSE pool
    OBVIOUS
  <2>2. finished \in PoolShape /\ finished.idle = pool.idle
    BY <1>2, <2>1, RunningChanged
  <2>3. pool' = IF reuse THEN [finished EXCEPT !.resetting = @ + 1] ELSE finished
    BY <1>1, <2>1
  <2>4. pool' \in PoolShape /\ pool'.idle = pool.idle
    BY <2>2, <2>3 DEF PoolShape
  <2> QED BY <2>4, WithinItself DEF PoolShape
<1>10. WorkersConsistent'
  <2>1. MovesOn(w)
    BY <1>7 DEF MovesOn
  <2>2. RanSafely(w)'
    <3>1. \A u \in Tests : record[u] # <<>> => record'[u] = record[u]
      BY <1>4, <1>6
    <3> QED BY <2>1, <3>1, RanSafelyKept
  <2>3. phase'[t] = "done" /\ (workers'[w].owner # Pool => phase'[workers'[w].owner] # "queued")
    BY <1>3, <1>5, <1>7
  <2>4. WorkerConsistent(w)'
    <3>1. CASE reuse
      <4>1. /\ Reuse /\ Pooled(w) /\ workers[w].baseline
            /\ outcome # "timedOut" /\ Len(workers[w].ran) < MaxTests
        BY <1>1, <3>1 DEF MayReuse
      <4>2. Len(workers[w].ran) \in 1 .. MaxTests - 1
        <5>1. Len(workers[w].ran) \in Nat /\ Len(workers[w].ran) # 0
          BY <1>3
        <5> QED BY <4>1, <5>1, SettingsAssumption
      <4>3. record'[t] \in {<<"passed">>, <<"failed">>}
        BY <1>6, <3>1, <4>1 DEF BodyOutcomes
      <4>4. Reusable(w)'
        BY <1>3, <1>7, <4>1, <4>2, <4>3 DEF Reusable, Pooled
      <4> QED BY <1>3, <1>7, <2>3, <3>1, <4>4 DEF WorkerConsistent
    <3>2. CASE ~reuse
      <4>1. outcome # None
        BY DEF BodyOutcomes, None
      <4> QED BY <1>3, <1>6, <1>7, <2>3, <3>2, <4>1 DEF WorkerConsistent
    <3> QED BY <3>1, <3>2
  <2>5. \A v \in DOMAIN workers : v # w => workers[v].test # t
    BY <1>3 DEF Inv, WorkersDistinct
  <2>6. \A v \in DOMAIN workers :
            workers[v].owner = t => workers[v].state \notin {"requested", "creating"}
    <3>1. t # Pool
      BY <1>3, TestsAssumption
    <3> QED BY <1>3, <3>1 DEF Inv, WorkersConsistent, WorkerConsistent
  <2> QED BY <1>5, <1>8, <2>2, <2>4, <2>5, <2>6, WorkersStep
<1>11. WorkersDistinct'
  <2>1. \A v \in DOMAIN workers : v # w => workers[v].test # workers'[w].test
    BY <1>3, <1>7 DEF Inv, WorkersDistinct
  <2> QED BY <1>7, <1>8, <2>1, DistinctStep
<1>12. TestsConsistent'
  <2>1. TestConsistent(t)'
    <3>1. CASE reuse
      <4>1. phase'[t] = "done" /\ phase'[t] \notin Before
        BY <1>5 DEF Before
      <4>2. record'[t] # <<>> /\ Len(record'[t]) = 1
        BY <1>6, <3>1
      <4> QED BY <4>1, <4>2 DEF TestConsistent
    <3>2. CASE ~reuse
      <4>1. w \in DOMAIN workers' /\ workers'[w].state = "quitting" /\ workers'[w].test = t
        BY <1>7, <3>2
      <4>2. phase'[t] \notin Before /\ Len(record'[t]) <= 1
        BY <1>5, <1>6, <3>2 DEF Before
      <4> QED BY <1>5, <1>6, <3>2, <4>1, <4>2 DEF TestConsistent
    <3> QED BY <3>1, <3>2
  <2>2. \A u \in Tests : u # t => workers[w].test # u
    OBVIOUS
  <2> QED BY <1>7, <1>8, <2>1, <2>2, TestsStep DEF StepOf
<1>13. TicketsConsistent'
  <2>1. workers[w].state # "offered" /\ workers[w].state # "ended"
    OBVIOUS
  <2>2. ~cancelled => \A i \in DOMAIN pool'.idle :
            IsOk(pool'.idle[i]) => pool'.idle[i].session # w
    BY <1>9, <2>1, NoTicket
  <2>3. cancelled' \in BOOLEAN
    BY <1>1, <1>2
  <2> QED BY <1>7, <1>8, <1>9, <2>1, <2>2, <2>3, TicketsStep DEF StepOf
<1>14. TreeConsistent'
  BY <1>1, <1>3, <1>5, TreeStep
<1>15. NoLostWakeup'
  BY <1>1, <1>5, <1>9, WakeupKept
<1>16. RequestsConsistent'
  <2>1. /\ DOMAIN workers \subseteq DOMAIN workers'
        /\ \A v \in DOMAIN workers :
              workers[v].state = "requested" => workers'[v].state = "requested"
    BY <1>7
  <2> QED BY <1>1, <2>1, RequestsKept DEF Inv
<1>17. Shape'
  <2>1. woken' \subseteq Waiting'
    BY <1>3, <1>5 DEF Waiting
  <2> QED BY <1>1, <1>2, <1>5, <1>6, <1>7, <1>9, <2>1 DEF Inv, Shape
<1> QED BY <1>10, <1>11, <1>12, <1>13, <1>14, <1>15, <1>16, <1>17 DEF Inv

LEMMA BodyEndsInv ==
    ASSUME Inv, NEW w \in DOMAIN workers, BodyEnds(w)
    PROVE  Inv'
<1>1. PICK outcome \in Outcomes \ {"timedOut"} :
          StopOn(outcome # "passed", workers[w].test) /\ AfterBody(w, outcome)
  BY DEF BodyEnds
<1>2. PICK t : t = workers[w].test
  OBVIOUS
<1>3. /\ keepStarting' \in BOOLEAN /\ (keepStarting' => keepStarting)
      /\ woken \ {t} \subseteq woken' /\ woken' \subseteq Waiting \ {t}
      /\ keepStarting' = keepStarting \/ Waiting \ {t} \subseteq woken'
  <2>1. Shape /\ (outcome # "passed") \in BOOLEAN /\ StopOn(outcome # "passed", t)
    BY <1>1, <1>2 DEF Inv
  <2> QED BY <2>1, StopOnFacts
<1>4. outcome \in BodyOutcomes /\ workers[w].state \in {"running", "checking"}
  BY SettingsAssumption DEF BodyEnds
<1> QED BY <1>1, <1>2, <1>3, <1>4, AfterBodyInv

LEMMA PagesCheckedInv ==
    ASSUME Inv, NEW w \in DOMAIN workers, PagesChecked(w)
    PROVE  Inv'
<1>1. PICK t : t = workers[w].test
  OBVIOUS
<1>2. /\ workers[w].state \in {"running", "checking"} /\ AfterBody(w, "timedOut")
      /\ keepStarting' = keepStarting /\ woken' = woken
  BY DEF PagesChecked
<1>3. keepStarting' \in BOOLEAN /\ woken' \subseteq Waiting /\ woken \ {t} \subseteq woken'
      /\ "timedOut" \in BodyOutcomes
  BY <1>2 DEF Inv, Shape, BodyOutcomes
<1> QED BY <1>1, <1>2, <1>3, AfterBodyInv


\* What a session that quits leaves to the pool, in any case.
LEMMA QuitFacts ==
    ASSUME Inv, NEW w \in DOMAIN workers, NEW ok, Quits(w, ok), keepStarting' \in BOOLEAN
    PROVE  /\ workers[w].state = "quitting"
           /\ suite' = suite /\ started' = started /\ phase' = phase /\ cancelled' = cancelled
           /\ MovesOn(w) /\ DOMAIN workers \subseteq DOMAIN workers'
           /\ workers'[w].state = "ended" /\ workers'[w].owner = workers[w].owner
           /\ workers'[w].test = None /\ workers'[w].ran = workers[w].ran
           /\ pool' \in PoolShape /\ Within(pool'.idle, pool.idle)
           /\ requests' \in Seq(Nat) /\ RequestsConsistent'
           /\ WorkerConsistent(w)'
<1>1. PICK ws : ws = Left(w, "ended")
  OBVIOUS
<1>2. PICK keep : keep = keepStarting'
  OBVIOUS
<1>3. /\ workers[w].state = "quitting"
      /\ suite' = suite /\ started' = started /\ phase' = phase /\ cancelled' = cancelled
      /\ IF Pooled(w)
         THEN Update(Ended(pool, keep, cancelled), pool.alive - 1, ws)
         ELSE workers' = ws /\ pool' = pool /\ requests' = requests
  BY <1>1, <1>2 DEF Quits, Left
<1>4. /\ workers \in Seq(WorkerShape) /\ pool \in PoolShape /\ cancelled \in BOOLEAN
      /\ requests \in Seq(Nat) /\ keep \in BOOLEAN
  BY <1>2 DEF Inv, Shape
<1>5. "ended" \in States
  BY DEF States
<1>6. /\ ws \in Seq(WorkerShape) /\ Len(ws) = Len(workers) /\ DOMAIN ws = DOMAIN workers
      /\ ws[w].state = "ended" /\ ws[w].owner = workers[w].owner /\ ws[w].test = None
      /\ ws[w].ran = workers[w].ran /\ ws[w].baseline = workers[w].baseline
      /\ \A v \in DOMAIN workers : v # w => ws[v] = workers[v]
  BY <1>1, <1>4, <1>5, TestLeft
<1>7. workers[w].state # "requested"
  BY <1>3
<1>8. /\ MovesOn(w) /\ workers'[w] = ws[w]
      /\ pool' \in PoolShape /\ Within(pool'.idle, pool.idle)
      /\ requests' \in Seq(Nat) /\ RequestsConsistent'
  <2>1. CASE Pooled(w)
    <3> DEFINE p == [pool EXCEPT !.alive = @ - 1]
    <3>1. p \in PoolShape /\ p.idle = pool.idle /\ p.alive = pool.alive - 1
      BY <1>4, CreatingChanged
    <3>2. Update(Replenish(p, keep, cancelled), p.alive, ws)
      BY <1>3, <2>1, <3>1 DEF Ended
    <3> HIDE DEF p
    <3>3. /\ MovesOn(w) /\ workers'[w] = ws[w]
          /\ pool' \in PoolShape /\ Within(pool'.idle, p.idle)
          /\ requests' \in Seq(Nat) /\ RequestsConsistent'
      BY <1>4, <1>6, <1>7, <3>1, <3>2, ReplenishedWith
    <3> QED BY <3>1, <3>3
  <2>2. CASE ~Pooled(w)
    <3>1. workers' = ws /\ pool' = pool /\ requests' = requests
      BY <1>3, <2>2
    <3>2. MovesOn(w) /\ workers'[w] = ws[w]
      BY <1>6, <3>1 DEF MovesOn
    <3>3. pool' \in PoolShape /\ Within(pool'.idle, pool.idle)
      BY <1>4, <3>1, WithinItself DEF PoolShape
    <3>4. RequestsConsistent' /\ requests' \in Seq(Nat)
      BY <1>7, <3>1, <3>2, RequestsOfOthers
    <3> QED BY <3>2, <3>3, <3>4
  <2> QED BY <2>1, <2>2
<1>9. WorkerConsistent(w)'
  BY <1>3, <1>6, <1>8, IdleConsistent
<1> QED BY <1>3, <1>6, <1>8, <1>9 DEF MovesOn

\* A session that leaves no test to record.
LEMMA IdleQuitsInv ==
    ASSUME Inv, NEW w \in DOMAIN workers, NEW ok, Quits(w, ok), workers[w].test = None
    PROVE  Inv'
<1>1. StopOn(FALSE, None) /\ record' = record
  BY DEF Quits
<1>2. /\ keepStarting' \in BOOLEAN /\ (keepStarting' => keepStarting)
      /\ woken \ {None} \subseteq woken' /\ woken' \subseteq Waiting \ {None}
      /\ keepStarting' = keepStarting
  <2>1. Shape /\ FALSE \in BOOLEAN
    BY DEF Inv
  <2> QED BY <1>1, <2>1, StopOnFacts
<1>3. woken \subseteq woken' /\ woken' \subseteq Waiting
  BY <1>2, TestsAssumption DEF Inv, Shape, Waiting
<1>4. /\ workers[w].state = "quitting"
      /\ suite' = suite /\ started' = started /\ phase' = phase /\ cancelled' = cancelled
      /\ MovesOn(w) /\ pool' \in PoolShape /\ Within(pool'.idle, pool.idle)
      /\ requests' \in Seq(Nat) /\ RequestsConsistent'
      /\ WorkerConsistent(w)'
  BY <1>2, QuitFacts
<1>5. Quiet
  BY <1>1, <1>4 DEF Quiet
<1>6. workers[w].state # "ended" /\ workers[w].state # "offered"
  BY <1>4
<1> QED BY <1>2, <1>3, <1>4, <1>5, <1>6, QuietInv

\* A session whose last test is recorded now.
LEMMA TestQuitsInv ==
    ASSUME Inv, NEW w \in DOMAIN workers, NEW ok, Quits(w, ok),
           NEW t, t = workers[w].test, t # None
    PROVE  Inv'
<1>1. /\ workers \in Seq(WorkerShape) /\ phase \in [Tests -> Phases]
      /\ record \in [Tests -> Seq(Recorded)] /\ suite \in [Suites -> {"unstarted", "running", "done"}]
      /\ started \in [Suites -> Nat] /\ cancelled \in BOOLEAN
      /\ workers[w] \in WorkerShape /\ WorkerConsistent(w)
  BY DEF Inv, Shape, WorkersConsistent
<1>2. workers[w].state = "quitting"
  BY DEF Quits
<1>3. t \in Tests /\ phase[t] = "done" /\ record[t] = <<>> /\ workers[w].outcome \in BodyOutcomes
  BY <1>1, <1>2 DEF WorkerConsistent, WorkerShape
<1>4. PICK outcome \in BodyOutcomes : StopOn(outcome # "passed", t) /\ Record(t, outcome)
  <2> DEFINE outcome == IF workers[w].outcome = "passed" /\ ~ok THEN "failed"
                        ELSE workers[w].outcome
  <2>1. StopOn(outcome # "passed", t) /\ Record(t, outcome)
    BY DEF Quits
  <2>2. outcome \in BodyOutcomes
    BY <1>3 DEF BodyOutcomes
  <2> QED BY <2>1, <2>2
<1>5. /\ keepStarting' \in BOOLEAN /\ (keepStarting' => keepStarting)
      /\ woken \ {t} \subseteq woken' /\ woken' \subseteq Waiting \ {t}
      /\ keepStarting' = keepStarting \/ Waiting \ {t} \subseteq woken'
  <2>1. Shape /\ (outcome # "passed") \in BOOLEAN
    BY DEF Inv
  <2> QED BY <1>4, <2>1, StopOnFacts
<1>6. /\ suite' = suite /\ started' = started /\ phase' = phase /\ cancelled' = cancelled
      /\ MovesOn(w) /\ DOMAIN workers \subseteq DOMAIN workers'
      /\ workers'[w].state = "ended" /\ workers'[w].owner = workers[w].owner
      /\ workers'[w].test = None /\ workers'[w].ran = workers[w].ran
      /\ pool' \in PoolShape /\ Within(pool'.idle, pool.idle)
      /\ requests' \in Seq(Nat) /\ RequestsConsistent'
      /\ WorkerConsistent(w)'
  BY <1>5, QuitFacts
<1>7. /\ record' \in [Tests -> Seq(Recorded)]
      /\ \A u \in Tests : u # t => record'[u] = record[u]
      /\ record'[t] # <<>> /\ Len(record'[t]) = 1
  BY <1>1, <1>3, <1>4, RecordFacts
<1>8. StepOf(t, w)
  BY <1>1, <1>3, <1>5, <1>6, <1>7 DEF StepOf, Frame, MovesOn
<1>9. WorkersConsistent'
  <2>1. RanSafely(w)'
    <3>1. \A u \in Tests : record[u] # <<>> => record'[u] = record[u]
      BY <1>3, <1>7
    <3> QED BY <1>6, <3>1, RanSafelyKept
  <2>2. \A v \in DOMAIN workers : v # w => workers[v].test # t
    BY DEF Inv, WorkersDistinct
  <2>3. \A v \in DOMAIN workers :
            workers[v].owner = t => workers[v].state \notin {"requested", "creating"}
    <3>1. t # Pool
      BY <1>3, TestsAssumption
    <3> QED BY <1>3, <3>1 DEF Inv, WorkersConsistent, WorkerConsistent
  <2>4. phase'[t] # "queued"
    BY <1>3, <1>6
  <2> QED BY <1>6, <1>8, <2>1, <2>2, <2>3, <2>4, WorkersStep
<1>10. WorkersDistinct'
  BY <1>6, <1>8, DistinctStep
<1>11. TestsConsistent'
  <2>1. TestConsistent(t)'
    <3>1. /\ phase'[t] = "done" /\ phase'[t] \notin Before
          /\ record'[t] # <<>> /\ Len(record'[t]) <= 1
      BY <1>3, <1>6, <1>7 DEF Before
    <3> QED BY <3>1 DEF TestConsistent
  <2> QED BY <1>6, <1>8, <2>1, TestsStep DEF StepOf
<1>12. TicketsConsistent'
  <2>1. workers[w].state # "offered" /\ workers[w].state # "ended"
    BY <1>2
  <2>2. ~cancelled => \A i \in DOMAIN pool'.idle :
            IsOk(pool'.idle[i]) => pool'.idle[i].session # w
    BY <1>6, <2>1, NoTicket
  <2>3. cancelled' \in BOOLEAN
    BY <1>1, <1>6
  <2> QED BY <1>6, <1>8, <2>1, <2>2, <2>3, TicketsStep DEF StepOf
<1>13. TreeConsistent'
  BY <1>3, <1>6, TreeStep
<1>14. NoLostWakeup'
  <2>1. pool'.idle \in Queue
    BY <1>6 DEF PoolShape
  <2>2. phase'[t] # "waiting"
    BY <1>3, <1>6
  <2> QED BY <1>5, <1>6, <2>1, <2>2, WakeupKept
<1>15. Shape'
  <2>1. woken' \subseteq Waiting'
    BY <1>5, <1>6 DEF Waiting
  <2>2. workers' \in Seq(WorkerShape)
    BY <1>6 DEF MovesOn
  <2> QED BY <1>1, <1>5, <1>6, <1>7, <2>1, <2>2 DEF Shape
<1> QED BY <1>6, <1>9, <1>10, <1>11, <1>12, <1>13, <1>14, <1>15 DEF Inv

LEMMA QuitsInv ==
    ASSUME Inv, NEW w \in DOMAIN workers, NEW ok, Quits(w, ok)
    PROVE  Inv'
<1>1. PICK t : t = workers[w].test
  OBVIOUS
<1> QED BY <1>1, IdleQuitsInv, TestQuitsInv

LEMMA CancelInv ==
    ASSUME Inv, Cancel
    PROVE  Inv'
<1>1. /\ cancelled' = TRUE /\ suite' = suite /\ started' = started /\ phase' = phase
      /\ woken' = woken /\ pool' = pool /\ requests' = requests /\ workers' = workers
      /\ keepStarting' = keepStarting /\ record' = record
  BY DEF Cancel, executor, sessions
<1>2. Shape'
  BY <1>1 DEF Inv, Shape, Waiting
<1>3. RequestsConsistent' /\ WorkersDistinct'
  BY <1>1 DEF Inv, RequestsConsistent, WorkersDistinct
<1>4. WorkersConsistent'
  <2>1. ASSUME NEW w \in DOMAIN workers
        PROVE  WorkerConsistent(w)' /\ RanSafely(w)'
    <3>1. WorkerConsistent(w) /\ RanSafely(w)
      BY DEF Inv, WorkersConsistent
    <3> QED BY <1>1, <3>1 DEF WorkerConsistent, RanSafely, Reusable, Pooled
  <2> QED BY <1>1, <2>1 DEF WorkersConsistent
<1>5. TicketsConsistent'
  BY <1>1 DEF Inv, TicketsConsistent, Pooled
<1>6. TestsConsistent'
  <2>1. ASSUME NEW t \in Tests
        PROVE  TestConsistent(t)'
    <3>1. TestConsistent(t)
      BY DEF Inv, TestsConsistent
    <3>2. Ran(t)' = Ran(t)
      BY <1>1 DEF Ran
    <3> QED BY <1>1, <3>1, <3>2 DEF TestConsistent
  <2> QED BY <2>1 DEF TestsConsistent
<1>7. TreeConsistent'
  BY <1>1 DEF Inv, TreeConsistent, Done
<1>8. NoLostWakeup'
  BY <1>1 DEF NoLostWakeup
<1> QED BY <1>2, <1>3, <1>4, <1>5, <1>6, <1>7, <1>8 DEF Inv

LEMMA StutterInv ==
    ASSUME Inv, UNCHANGED vars
    PROVE  Inv'
<1>1. /\ suite' = suite /\ started' = started /\ phase' = phase
      /\ woken' = woken /\ pool' = pool /\ requests' = requests /\ workers' = workers
      /\ keepStarting' = keepStarting /\ cancelled' = cancelled /\ record' = record
  BY DEF vars, executor, sessions
<1>2. Shape'
  BY <1>1 DEF Inv, Shape, Waiting
<1>3. RequestsConsistent' /\ WorkersDistinct'
  BY <1>1 DEF Inv, RequestsConsistent, WorkersDistinct
<1>4. WorkersConsistent'
  <2>1. ASSUME NEW w \in DOMAIN workers
        PROVE  WorkerConsistent(w)' /\ RanSafely(w)'
    <3>1. WorkerConsistent(w) /\ RanSafely(w)
      BY DEF Inv, WorkersConsistent
    <3> QED BY <1>1, <3>1 DEF WorkerConsistent, RanSafely, Reusable, Pooled
  <2> QED BY <1>1, <2>1 DEF WorkersConsistent
<1>5. TicketsConsistent'
  BY <1>1 DEF Inv, TicketsConsistent, Pooled, Reusable
<1>6. TestsConsistent'
  <2>1. ASSUME NEW t \in Tests
        PROVE  TestConsistent(t)'
    <3>1. TestConsistent(t)
      BY DEF Inv, TestsConsistent
    <3>2. Ran(t)' = Ran(t)
      BY <1>1 DEF Ran
    <3> QED BY <1>1, <3>1, <3>2 DEF TestConsistent
  <2> QED BY <2>1 DEF TestsConsistent
<1>7. TreeConsistent'
  BY <1>1 DEF Inv, TreeConsistent, Done
<1>8. NoLostWakeup'
  BY <1>1 DEF Inv, NoLostWakeup, Waiting, MayStart
<1> QED BY <1>2, <1>3, <1>4, <1>5, <1>6, <1>7, <1>8 DEF Inv

LEMMA StepInv ==
    ASSUME Inv, [Next]_vars
    PROVE  Inv'
<1>1. ASSUME NEW s \in Suites, StartChild(s) \/ FinishSuite(s)
      PROVE  Inv'
  BY <1>1, StartChildInv, FinishSuiteInv
<1>2. ASSUME NEW t \in Tests, StopsWaiting(t) \/ GetsDedicated(t) \/ IsCancelled(t)
      PROVE  Inv'
  BY <1>2, StopsWaitingInv, GetsDedicatedInv, IsCancelledInv
<1>3. ASSUME NEW w \in DOMAIN workers,
             \/ Created(w) \/ CreationFails(w) \/ Release(w) \/ Dropped(w)
             \/ BodyEnds(w) \/ TimesOut(w) \/ PagesChecked(w)
             \/ ResetDone(w) \/ ResetFails(w)
      PROVE  Inv'
  BY <1>3, CreatedInv, CreationFailsInv, ReleaseInv, DroppedInv, BodyEndsInv, TimesOutInv,
     PagesCheckedInv, ResetDoneInv, ResetFailsInv
<1>4. ASSUME NEW w \in DOMAIN workers, NEW ok, Quits(w, ok)
      PROVE  Inv'
  BY <1>4, QuitsInv
<1>5. CASE Spawn
  BY <1>5, SpawnInv
<1>6. CASE Cancel
  BY <1>6, CancelInv
<1>7. CASE UNCHANGED vars
  BY <1>7, StutterInv
<1> QED BY <1>1, <1>2, <1>3, <1>4, <1>5, <1>6, <1>7 DEF Next, Progress, Terminating

-----------------------------------------------------------------------------
(* The initial state. *)

LEMMA UpcomingShape ==
    Upcoming \in [C!Kinds -> Int] /\ UpcomingAlways \in [C!Kinds -> Int]
<1>1. ASSUME NEW S \in SUBSET Tests
      PROVE  Cardinality(S) \in Nat
  <2>1. IsFiniteSet(Tests)
    BY TestsAssumption
  <2>2. IsFiniteSet(S)
    BY <2>1, FS_Subset
  <2> QED BY <2>2, FS_CardinalityType
<1>2. ASSUME NEW kind
      PROVE  PoolTestsOf(kind) \in SUBSET Tests /\ PoolTestsOf(kind) \intersect RunAlways \in SUBSET Tests
  BY DEF PoolTestsOf, PoolTests
<1>3. /\ Cardinality(PoolTestsOf("any")) \in Int /\ Cardinality(PoolTestsOf("fresh")) \in Int
      /\ Cardinality(PoolTestsOf("any") \intersect RunAlways) \in Int
      /\ Cardinality(PoolTestsOf("fresh") \intersect RunAlways) \in Int
  BY <1>1, <1>2
<1> QED BY <1>3 DEF Upcoming, UpcomingAlways, C!Kinds

LEMMA NewPoolShape ==
    NewPool \in PoolShape /\ NewPool.idle = <<>> /\ NewPool.alive = 0
<1>1. <<>> \in Queue
  BY DEF Queue
<1>2. Upcoming \in [C!Kinds -> Int] /\ UpcomingAlways \in [C!Kinds -> Int]
  BY UpcomingShape
<1>3. PICK old : old = C!NewPool
  OBVIOUS
<1>4. /\ old \in [idle : [C!Sorts -> Int], creating : Int, resetting : Int, running : Int,
                   alive : Int, waiting : [C!Kinds -> Int], upcoming : [C!Kinds -> Int],
                   upcomingAlways : [C!Kinds -> Int], closed : BOOLEAN]
      /\ old.alive = 0
  BY <1>2, <1>3 DEF C!NewPool
<1>5. NewPool = [old EXCEPT !.idle = <<>>]
  BY <1>3 DEF NewPool
<1> QED BY <1>1, <1>4, <1>5 DEF PoolShape

LEMMA InitInv ==
    ASSUME Init
    PROVE  Inv
<1>1. PICK p : p = Replenish(NewPool, TRUE, FALSE)
  OBVIOUS
<1>2. /\ pool = p
      /\ workers = [i \in 1 .. p.alive |-> Hired(Pool)]
      /\ requests = [i \in 1 .. p.alive |-> i]
      /\ suite = [s \in Suites |-> IF s = Root THEN "running" ELSE "unstarted"]
      /\ started = [s \in Suites |-> 0]
      /\ phase = [t \in Tests |-> "queued"]
      /\ woken = {} /\ keepStarting = TRUE /\ cancelled = FALSE
      /\ record = [t \in Tests |-> <<>>]
  BY <1>1 DEF Init
<1>3. /\ p \in PoolShape /\ p.alive \in Nat /\ p.idle = <<>>
  <2>0. PICK q \in PoolShape : q = NewPool /\ q.idle = <<>> /\ q.alive = 0
    BY NewPoolShape
  <2>1. p \in PoolShape /\ Within(p.idle, <<>>) /\ p.alive - 0 \in Nat
    BY <1>1, <2>0, ReplenishFacts
  <2>2. p.idle \in Queue
    BY <2>1 DEF PoolShape
  <2>3. Len(p.idle) = 0
    BY <2>1, <2>2 DEF Within
  <2>4. p.alive \in Int
    BY <2>1 DEF PoolShape
  <2> QED BY <2>1, <2>2, <2>3, <2>4 DEF Queue
<1>4. /\ workers \in Seq(WorkerShape) /\ DOMAIN workers = 1 .. p.alive
      /\ \A w \in DOMAIN workers : workers[w] = Hired(Pool)
  BY <1>2, <1>3, HiredShape
<1>5. ASSUME NEW w \in DOMAIN workers
      PROVE  /\ workers[w].state = "requested" /\ workers[w].owner = Pool
             /\ workers[w].test = None /\ workers[w].ran = <<>>
  BY <1>4, HiredShape
<1>6. Shape
  <2>1. requests \in Seq(Nat)
    BY <1>2, <1>3
  <2>2. "queued" \in Phases /\ <<>> \in Seq(Recorded)
    BY DEF Phases
  <2> QED BY <1>2, <1>3, <1>4, <2>1, <2>2 DEF Shape
<1>7. RequestsConsistent
  BY <1>2, <1>3, <1>4, <1>5 DEF RequestsConsistent
<1>8. WorkersDistinct
  BY <1>5 DEF WorkersDistinct, Range
<1>9. WorkersConsistent
  <2>1. ASSUME NEW w \in DOMAIN workers
        PROVE  WorkerConsistent(w) /\ RanSafely(w)
    <3>1. Len(workers[w].ran) = 0 /\ 2 .. Len(workers[w].ran) = {}
      BY <1>5
    <3>2. 0 <= 1 /\ 0 <= MaxTests
      BY SettingsAssumption
    <3>3. RanSafely(w)
      BY <3>1, <3>2 DEF RanSafely
    <3>4. WorkerConsistent(w)
      BY <1>5 DEF WorkerConsistent
    <3> QED BY <3>3, <3>4
  <2> QED BY <2>1 DEF WorkersConsistent
<1>10. TicketsConsistent
  BY <1>2, <1>3 DEF TicketsConsistent
<1>11. TestsConsistent
  <2>1. ASSUME NEW t \in Tests
        PROVE  TestConsistent(t)
    <3>1. Ran(t) = {}
      BY <1>5 DEF Ran, Range
    <3> QED BY <1>2, <3>1 DEF TestConsistent
  <2> QED BY <2>1 DEF TestsConsistent
<1>12. TreeConsistent
  <2>1. ASSUME NEW s \in Suites, NEW i \in DOMAIN Children[s], NEW n, n = Children[s][i]
        PROVE  /\ IF n \in Tests THEN phase[n] = "queued" ELSE suite[n] = "unstarted"
               /\ suite[s] # "done"
    <3>1. n \in Nodes /\ n \in ChildrenOf(s)
      BY <2>1, TreeAssumption DEF ChildrenOf
    <3>2. n # Root
      BY <3>1, OwnershipAssumption
    <3> QED BY <1>2, <3>1, <3>2 DEF Nodes
  <2> QED BY <2>1 DEF TreeConsistent
<1>13. NoLostWakeup
  BY <1>2 DEF NoLostWakeup, Waiting
<1> QED BY <1>6, <1>7, <1>8, <1>9, <1>10, <1>11, <1>12, <1>13 DEF Inv

-----------------------------------------------------------------------------
(* What the invariant says of a run. *)

LEMMA RanOnce ==
    ASSUME Inv, NEW t \in Tests
    PROVE  Cardinality(Ran(t)) <= 1
<1>1. CASE Ran(t) = {}
  BY <1>1, FS_EmptySet
<1>2. CASE Ran(t) # {}
  <2>1. PICK w : w \in Ran(t)
    BY <1>2
  <2>2. Ran(t) = {w}
    BY <2>1 DEF Inv, WorkersDistinct, Ran
  <2>3. Cardinality({w}) = 1
    BY FS_Singleton
  <2> QED BY ONLY <2>2, <2>3
<1> QED BY <1>1, <1>2

\* When the walk of the tree is over, every test is done: a topmost suite that is not done would
\* be a child of one that is.
LEMMA AllTestsDone ==
    ASSUME Inv, suite[Root] = "done", NEW t \in Tests
    PROVE  phase[t] = "done"
<1>1. ASSUME NEW s \in Suites, suite[s] = "done", NEW n \in ChildrenOf(s)
      PROVE  Done(n)
  BY <1>1 DEF Inv, TreeConsistent, ChildrenOf
<1>2. ASSUME NEW n \in Nodes, n # Root
      PROVE  \E s \in Suites : n \in ChildrenOf(s)
  BY <1>2, OwnershipAssumption
<1> DEFINE left == {s \in Suites : suite[s] # "done"}
<1>3. left = {}
  <2>1. SUFFICES ASSUME left # {} PROVE FALSE
    OBVIOUS
  <2>2. PICK n \in left : \A s \in left : n \notin ChildrenOf(s)
    BY <2>1, OwnershipAssumption
  <2>3. n \in Nodes /\ n # Root /\ n \notin Tests
    BY TestsAssumption DEF Nodes
  <2>4. PICK s \in Suites : n \in ChildrenOf(s)
    BY <1>2, <2>3
  <2>5. suite[s] = "done"
    BY <2>2, <2>4
  <2> QED BY <1>1, <2>2, <2>3, <2>4, <2>5 DEF Done
<1>4. t \in Nodes /\ t # Root
  BY TestsAssumption, TreeAssumption DEF Nodes
<1>5. PICK s \in Suites : t \in ChildrenOf(s)
  BY <1>2, <1>4
<1> QED BY <1>1, <1>3, <1>5 DEF Done

LEMMA InvRecordedOnce ==
    ASSUME Inv
    PROVE  RecordedOnce
<1>1. ASSUME NEW t \in Tests
      PROVE  Len(record[t]) <= 1 /\ Cardinality(Ran(t)) <= 1
  BY RanOnce DEF Inv, TestsConsistent, TestConsistent
<1>2. ASSUME Terminated, NEW t \in Tests, record[t] = <<>>
      PROVE  Ran(t) = {} /\ (cancelled \/ (~keepStarting /\ t \notin RunAlways))
  <2>1. phase[t] = "done"
    BY <1>2, AllTestsDone DEF Terminated
  <2>2. \A w \in DOMAIN workers : workers[w].state # "quitting"
    BY <1>2 DEF Terminated
  <2> QED BY <1>2, <2>1, <2>2 DEF Inv, TestsConsistent, TestConsistent
<1> QED BY <1>1, <1>2 DEF RecordedOnce

LEMMA InvTicketsAreLive ==
    ASSUME Inv
    PROVE  TicketsAreLive
BY DEF Inv, TicketsConsistent, TicketsAreLive

LEMMA InvReusedSafely ==
    ASSUME Inv
    PROVE  SessionsAreReusedSafely
BY DEF Inv, WorkersConsistent, RanSafely, SessionsAreReusedSafely

\* A step in which a test starts is one that asked MayStart.
LEMMA StartsOnlyIfAllowed ==
    ASSUME Shape, [Next]_vars, NEW u \in Tests, phase[u] # "running", phase'[u] = "running"
    PROVE  MayStart(u)
<1>1. phase \in [Tests -> Phases] /\ phase' # phase
  BY DEF Shape
<1>2. ASSUME NEW t \in Tests, NEW x, phase' = [phase EXCEPT ![t] = x], x # "running"
      PROVE  FALSE
  BY <1>1, <1>2
<1>3. ASSUME NEW t, NotStarted(t), t \in Tests
      PROVE  FALSE
  BY <1>2, <1>3 DEF NotStarted
<1>4. ASSUME NEW s \in Suites, StartChild(s)
      PROVE  MayStart(u)
  <2>1. PICK n \in Tests : Skip(n) \/ FailUnplannable(n) \/ RequestDedicated(n) \/ TakeOrWait(n)
    BY <1>1, <1>4 DEF StartChild
  <2>2. u = n
    BY <2>1, TestPhase
  <2>3. ~Skip(n)
    BY <1>3 DEF Skip
  <2> QED BY <2>1, <2>2, <2>3 DEF FailUnplannable, RequestDedicated, TakeOrWait
<1>5. ASSUME NEW t \in Tests, StopsWaiting(t)
      PROVE  MayStart(u)
  <2>1. MayStart(t) /\ TakeFrom(t, pool)
    BY <1>3, <1>5 DEF StopsWaiting
  <2> QED BY <2>1, TestPhase
<1>6. ASSUME NEW t \in Tests, GetsDedicated(t)
      PROVE  MayStart(u)
  <2>1. MayStart(t)
    BY <1>3, <1>6 DEF GetsDedicated
  <2>2. \E x : phase' = [phase EXCEPT ![t] = x]
    BY <1>6 DEF GetsDedicated, NotStarted, StartsBody, FailsToStart
  <2> QED BY <1>1, <2>1, <2>2
<1>7. ASSUME NEW t \in Tests, IsCancelled(t)
      PROVE  FALSE
  BY <1>2, <1>7 DEF IsCancelled
<1>8. ASSUME NEW w \in DOMAIN workers, CreationFails(w)
      PROVE  FALSE
  <2>1. phase' = [phase EXCEPT ![workers[w].owner] = "refused"] /\ ~Pooled(w)
    BY <1>1, <1>8 DEF CreationFails
  <2>2. workers[w] \in WorkerShape
    BY DEF Shape
  <2>3. workers[w].owner \in Tests
    BY <2>1, <2>2 DEF WorkerShape, Pooled
  <2> QED BY <1>2, <2>1, <2>3
<1>9. ASSUME NEW w \in DOMAIN workers, BodyEnds(w) \/ PagesChecked(w)
      PROVE  FALSE
  <2>1. phase' = [phase EXCEPT ![workers[w].test] = "done"]
    BY <1>9 DEF BodyEnds, PagesChecked, AfterBody
  <2> QED BY <1>1, <2>1
<1>10. ASSUME NEW s \in Suites, FinishSuite(s)
       PROVE  FALSE
  BY <1>1, <1>10 DEF FinishSuite
<1>11. ~Spawn /\ ~Cancel /\ ~UNCHANGED vars
  BY <1>1 DEF Spawn, Cancel, vars, executor
<1>12. ASSUME NEW w \in DOMAIN workers,
              \/ Created(w) \/ Release(w) \/ Dropped(w) \/ TimesOut(w)
              \/ ResetDone(w) \/ ResetFails(w) \/ \E ok \in BOOLEAN : Quits(w, ok)
       PROVE  FALSE
  BY <1>1, <1>12 DEF Created, Release, Dropped, TimesOut, ResetDone, ResetFails, Quits, executor
<1> QED BY <1>4, <1>5, <1>6, <1>7, <1>8, <1>9, <1>10, <1>11, <1>12
        DEF Next, Progress, Terminating

-----------------------------------------------------------------------------
(* Counting.                                                               *)

\* A set that gains or loses at most one element.
LEMMA CountStep ==
    ASSUME NEW A, NEW B, NEW x, IsFiniteSet(A), \A y : y # x => (y \in A <=> y \in B)
    PROVE  /\ IsFiniteSet(B)
           /\ Cardinality(A) \in Nat /\ Cardinality(B) \in Nat
           /\ Cardinality(B) = Cardinality(A) + (IF x \in B THEN 1 ELSE 0)
                                              - (IF x \in A THEN 1 ELSE 0)
<1>1. Cardinality(A) \in Nat
  BY FS_CardinalityType
<1>2. CASE x \in A <=> x \in B
  <2>1. B = A
    BY <1>2
  <2> QED BY <1>1, <1>2, <2>1
<1>3. CASE x \in B /\ x \notin A
  <2>1. B = A \union {x}
    BY <1>3
  <2> QED BY <1>1, <1>3, <2>1, FS_AddElement
<1>4. CASE x \in A /\ x \notin B
  <2>1. B = A \ {x}
    BY <1>4
  <2>2. IsFiniteSet(B) /\ Cardinality(B) = Cardinality(A) - 1
    BY <1>4, <2>1, FS_RemoveElement
  <2>3. Cardinality(B) \in Nat
    BY <2>2, FS_CardinalityType
  <2> QED BY <1>1, <1>4, <2>2, <2>3
<1> QED BY <1>2, <1>3, <1>4

\* Two sets without a common element.
LEMMA CountTogether ==
    ASSUME NEW A, NEW B, IsFiniteSet(A), IsFiniteSet(B), A \intersect B = {}
    PROVE  /\ IsFiniteSet(A \union B)
           /\ Cardinality(A \union B) = Cardinality(A) + Cardinality(B)
<1>1. /\ IsFiniteSet(A \union B)
      /\ Cardinality(A \union B) = Cardinality(A) + Cardinality(B) - Cardinality(A \intersect B)
  BY FS_Union
<1>2. Cardinality(A \intersect B) = 0
  BY FS_EmptySet
<1> QED BY <1>1, <1>2, FS_CardinalityType

\* How many tickets of a sort are in the queue: OfSort.
LEMMA SortedTickets ==
    ASSUME NEW q \in Queue, NEW sort
    PROVE  /\ IsFiniteSet({i \in DOMAIN q : q[i].sort = sort})
           /\ OfSort(q, sort) \in Nat
           /\ OfSort(q, sort) = 0 <=> \A i \in DOMAIN q : q[i].sort # sort
<1> DEFINE I == {i \in DOMAIN q : q[i].sort = sort}
<1>1. IsFiniteSet(1 .. Len(q)) /\ DOMAIN q = 1 .. Len(q)
  BY FS_Interval DEF Queue
<1>2. I \in SUBSET (1 .. Len(q))
  BY <1>1
<1>3. OfSort(q, sort) = Cardinality(I)
  BY DEF OfSort
<1>4. I = {} <=> \A i \in DOMAIN q : q[i].sort # sort
  OBVIOUS
<1> HIDE DEF I
<1>5. IsFiniteSet(I) /\ Cardinality(I) \in Nat /\ (Cardinality(I) = 0 <=> I = {})
  BY <1>1, <1>2, FS_Subset, FS_CardinalityType, FS_EmptySet
<1> QED BY <1>3, <1>4, <1>5 DEF I

LEMMA AppendedTicket ==
    ASSUME NEW q \in Queue, NEW ticket \in Ticket, NEW sort
    PROVE  /\ Append(q, ticket) \in Queue
           /\ OfSort(Append(q, ticket), sort) =
                  OfSort(q, sort) + (IF ticket.sort = sort THEN 1 ELSE 0)
<1> DEFINE r == Append(q, ticket)
           A == {i \in DOMAIN q : q[i].sort = sort}
           B == {i \in DOMAIN r : r[i].sort = sort}
           x == Len(q) + 1
<1>1. /\ r \in Queue /\ DOMAIN q = 1 .. Len(q) /\ Len(q) \in Nat
      /\ DOMAIN r = 1 .. Len(q) + 1
      /\ \A i \in 1 .. Len(q) : r[i] = q[i]
      /\ r[Len(q) + 1] = ticket
  BY DEF Queue, Ticket
<1>2. IsFiniteSet(A)
  BY SortedTickets
<1> HIDE DEF r
<1>3. \A y : y # x => (y \in A <=> y \in B)
  BY <1>1
<1>4. x \notin A /\ (x \in B <=> ticket.sort = sort)
  BY <1>1
<1>5. OfSort(q, sort) = Cardinality(A) /\ OfSort(r, sort) = Cardinality(B)
  BY DEF OfSort
<1> HIDE DEF A, B, x
<1>6. OfSort(r, sort) = OfSort(q, sort) + (IF ticket.sort = sort THEN 1 ELSE 0)
  BY <1>2, <1>3, <1>4, <1>5, CountStep
<1> QED BY <1>1, <1>6 DEF r

LEMMA RemovedTicket ==
    ASSUME NEW q \in Queue, NEW i \in 1 .. Len(q), NEW sort
    PROVE  OfSort(RemoveAt(q, i), sort) =
               OfSort(q, sort) - (IF q[i].sort = sort THEN 1 ELSE 0)
<1> PICK r : r = RemoveAt(q, i)
  OBVIOUS
<1> DEFINE A == {k \in DOMAIN q : q[k].sort = sort}
           B == {k \in DOMAIN r : r[k].sort = sort}
           f == [k \in B |-> IF k < i THEN k ELSE k + 1]
<1>1. /\ r \in Queue /\ Len(q) \in Nat /\ Len(r) = Len(q) - 1
      /\ DOMAIN q = 1 .. Len(q) /\ DOMAIN r = 1 .. Len(q) - 1
      /\ \A k \in 1 .. i - 1 : r[k] = q[k]
      /\ \A k \in i .. Len(q) - 1 : r[k] = q[k + 1]
  <2>1. /\ r \in Queue /\ Len(r) = Len(q) - 1
        /\ \A k \in 1 .. i - 1 : r[k] = q[k]
        /\ \A k \in i .. Len(q) - 1 : r[k] = q[k + 1]
    BY RemoveAtFacts
  <2> QED BY <2>1 DEF Queue
<1>2. f \in Bijection(B, A \ {i})
  <2>1. f \in [B -> A \ {i}]
    BY <1>1
  <2>2. ASSUME NEW j \in B, NEW k \in B, f[j] = f[k] PROVE j = k
    BY <1>1, <2>2
  <2>3. ASSUME NEW k \in A \ {i} PROVE \E j \in B : f[j] = k
    <3>1. CASE k < i
      <4>1. k \in B /\ f[k] = k
        BY <1>1, <2>3, <3>1
      <4> QED BY <4>1
    <3>2. CASE k > i
      <4>1. k - 1 \in i .. Len(q) - 1 /\ k - 1 \in 1 .. Len(q) - 1 /\ r[k - 1] = q[(k - 1) + 1]
        BY <1>1, <2>3, <3>2
      <4>2. k - 1 + 1 = k /\ ~(k - 1 < i)
        BY <1>1, <2>3, <3>2
      <4>3. k - 1 \in B
        BY <1>1, <2>3, <4>1, <4>2
      <4> QED BY <4>2, <4>3
    <3>3. k \in 1 .. Len(q) /\ k # i
      BY <1>1, <2>3
    <3>4. k < i \/ k > i
      BY ONLY <1>1, <3>3, i \in 1 .. Len(q)
    <3> QED BY <3>1, <3>2, <3>4
  <2> HIDE DEF f, A, B
  <2>4. f \in Injection(B, A \ {i})
    <3>1. \A j, k \in B : f[j] = f[k] => j = k
      BY <2>2
    <3> QED BY <2>1, <3>1 DEF Injection, IsInjective
  <2>5. f \in Surjection(B, A \ {i})
    BY <2>1, <2>3 DEF Surjection
  <2> QED BY <2>4, <2>5 DEF Bijection
<1>3. IsFiniteSet(A) /\ IsFiniteSet(B)
  BY <1>1, SortedTickets
<1>4. i \in A <=> q[i].sort = sort
  BY <1>1
<1>5. OfSort(q, sort) = Cardinality(A) /\ OfSort(r, sort) = Cardinality(B)
  BY DEF OfSort
<1> HIDE DEF A, B, f
<1>6. Cardinality(A \ {i}) = Cardinality(B)
  BY <1>2, <1>3, FS_Bijection DEF ExistsBijection
<1>7. Cardinality(A) \in Nat
  BY <1>3, FS_CardinalityType
<1>8. Cardinality(A \ {i}) = IF i \in A THEN Cardinality(A) - 1 ELSE Cardinality(A)
  BY <1>3, FS_RemoveElement
<1>9. OfSort(r, sort) = OfSort(q, sort) - (IF q[i].sort = sort THEN 1 ELSE 0)
  BY <1>4, <1>5, <1>6, <1>7, <1>8
<1> QED BY <1>9

\* The reset tickets that WithoutResets removes, and no others.
LEMMA DroppedReset ==
    ASSUME NEW q \in Queue, OfSort(q, "reset") > 0
    PROVE  LET r == RemoveAt(q, SelectInSeq(q, IsReset))
           IN  /\ r \in Queue
               /\ OfSort(r, "reset") = OfSort(q, "reset") - 1
               /\ \A sort : sort # "reset" => OfSort(r, sort) = OfSort(q, sort)
<1> PICK i : i = SelectInSeq(q, IsReset)
  OBVIOUS
<1>1. i # 0
  <2>1. \E k \in DOMAIN q : IsReset(q[k])
    <3>1. OfSort(q, "reset") = 0 <=> \A k \in DOMAIN q : q[k].sort # "reset"
      BY SortedTickets
    <3> QED BY <3>1 DEF IsReset
  <2> QED BY <2>1, SelectReset
<1>2. i \in 1 .. Len(q) /\ q[i].sort = "reset"
  <2>1. i \in {0} \union DOMAIN q /\ (i # 0 => IsReset(q[i]))
    BY SelectReset
  <2>2. DOMAIN q = 1 .. Len(q)
    BY DEF Queue
  <2> QED BY <1>1, <2>1, <2>2 DEF IsReset
<1>3. RemoveAt(q, i) \in Queue
  BY <1>2, RemoveAtFacts
<1>4. \A sort : OfSort(RemoveAt(q, i), sort) =
                   OfSort(q, sort) - (IF q[i].sort = sort THEN 1 ELSE 0)
  BY <1>2, RemovedTicket
<1>5. OfSort(RemoveAt(q, i), "reset") = OfSort(q, "reset") - 1
  BY <1>2, <1>4
<1>6. ASSUME NEW sort, sort # "reset" PROVE OfSort(RemoveAt(q, i), sort) = OfSort(q, sort)
  <2>1. OfSort(q, sort) \in Nat
    BY SortedTickets
  <2> QED BY <1>2, <1>4, <1>6, <2>1
<1> QED BY <1>3, <1>5, <1>6

LEMMA WithoutResetsCounts ==
    ASSUME NEW q \in Queue, NEW n \in Nat, n <= OfSort(q, "reset")
    PROVE  /\ OfSort(WithoutResets(q, n), "reset") = OfSort(q, "reset") - n
           /\ \A sort : sort # "reset" => OfSort(WithoutResets(q, n), sort) = OfSort(q, sort)
<1> DEFINE Step(r) == RemoveAt(r, SelectInSeq(r, IsReset))
           Is(g, m) == g = [i \in 0 .. m |-> IF i = 0 THEN q ELSE Step(g[i - 1])]
           without == CHOOSE g : Is(g, n)
<1>1. Is(without, n)
  BY DroppingResets
<1>2. WithoutResets(q, n) = without[n]
  BY DEF WithoutResets
<1> HIDE DEF without
<1> DEFINE Less(r, m) == /\ r \in Queue
                         /\ OfSort(r, "reset") = OfSort(q, "reset") - m
                         /\ \A sort : sort # "reset" => OfSort(r, sort) = OfSort(q, sort)
           T == {m \in Nat : m \in 0 .. n => Less(without[m], m)}
<1>3. OfSort(q, "reset") \in Nat
  BY SortedTickets
<1>4. 0 \in T
  <2>1. without[0] = q
    BY <1>1
  <2> QED BY <1>3, <2>1
<1>5. ASSUME NEW m \in Nat, m \in T PROVE m + 1 \in T
  <2>1. SUFFICES ASSUME m + 1 \in 0 .. n PROVE Less(without[m + 1], m + 1)
    OBVIOUS
  <2>2. m \in 0 .. n /\ Less(without[m], m)
    BY <1>5, <2>1
  <2>3. without[m + 1] = Step(without[m])
    <3> HIDE DEF Step
    <3> QED BY <1>1, <2>1
  <2> PICK r : r = without[m]
    OBVIOUS
  <2>4. r \in Queue /\ OfSort(r, "reset") = OfSort(q, "reset") - m
        /\ \A sort : sort # "reset" => OfSort(r, sort) = OfSort(q, sort)
    BY <2>2
  <2>5. OfSort(r, "reset") > 0
    BY <1>3, <2>1, <2>4
  <2>6. /\ Step(r) \in Queue /\ OfSort(Step(r), "reset") = OfSort(r, "reset") - 1
        /\ \A sort : sort # "reset" => OfSort(Step(r), sort) = OfSort(r, sort)
    BY <2>4, <2>5, DroppedReset
  <2> HIDE DEF Step
  <2>7. OfSort(Step(r), "reset") = OfSort(q, "reset") - (m + 1)
    BY <1>3, <2>4, <2>6
  <2> QED BY <2>3, <2>4, <2>6, <2>7
<1>6. n \in T
  <2>1. 0 \in T /\ \A m \in Nat : m \in T => m + 1 \in T
    BY <1>4, <1>5
  <2> HIDE DEF T
  <2> QED BY <2>1, NatSetInduction
<1> QED BY <1>2, <1>6

-----------------------------------------------------------------------------
(* The pool and its counts.                                                *)

\* The pool, with counters that did not underflow.
Pools ==
    [idle : Queue, creating : Nat, resetting : Nat, running : Nat, alive : Nat,
     waiting : C!Tally, upcoming : C!Tally, upcomingAlways : C!Tally, closed : BOOLEAN]

LEMMA CountsFacts ==
    ASSUME NEW p \in Pools, NEW c, c = Counts(p)
    PROVE  /\ c \in C!PoolState
           /\ \A sort \in C!Sorts : c.idle[sort] = OfSort(p.idle, sort)
           /\ c.creating = p.creating /\ c.resetting = p.resetting
           /\ c.running = p.running /\ c.alive = p.alive
           /\ c.waiting = p.waiting /\ c.upcoming = p.upcoming
           /\ c.upcomingAlways = p.upcomingAlways /\ c.closed = p.closed
<1> PICK idle : idle = [sort \in C!Sorts |-> OfSort(p.idle, sort)]
  OBVIOUS
<1>1. p.idle \in Queue
  BY DEF Pools
<1>2. \A sort : OfSort(p.idle, sort) \in Nat
  BY <1>1, SortedTickets
<1>3. idle \in [C!Sorts -> Nat] /\ \A sort \in C!Sorts : idle[sort] = OfSort(p.idle, sort)
  BY <1>2
<1>4. c = [p EXCEPT !.idle = idle]
  BY DEF Counts
<1> QED BY <1>3, <1>4 DEF Pools, C!PoolState

\* Two pools of counts are the same if their counters are.
LEMMA SamePool ==
    ASSUME NEW b \in C!PoolState, NEW c \in C!PoolState,
           \A sort \in C!Sorts : b.idle[sort] = c.idle[sort],
           b.creating = c.creating, b.resetting = c.resetting, b.running = c.running,
           b.alive = c.alive, b.waiting = c.waiting, b.upcoming = c.upcoming,
           b.upcomingAlways = c.upcomingAlways, b.closed = c.closed
    PROVE  b = c
<1>1. b.idle = c.idle
  BY DEF C!PoolState
<1> QED BY <1>1 DEF C!PoolState

LEMMA CountsFields ==
    ASSUME NEW c \in C!PoolState
    PROVE  /\ c.idle["created"] \in Nat /\ c.idle["failed"] \in Nat /\ c.idle["reset"] \in Nat
           /\ c.creating \in Nat /\ c.resetting \in Nat /\ c.running \in Nat /\ c.alive \in Nat
           /\ c.waiting["any"] \in Nat /\ c.waiting["fresh"] \in Nat
           /\ c.upcoming["any"] \in Nat /\ c.upcoming["fresh"] \in Nat
           /\ c.upcomingAlways["any"] \in Nat /\ c.upcomingAlways["fresh"] \in Nat
           /\ c.closed \in BOOLEAN
           /\ C!FreshSupply(c) \in Nat /\ C!Supply(c) \in Nat
           /\ C!FreshSupply(c) = c.idle["created"] + c.idle["failed"] + c.creating
           /\ C!Supply(c) = C!FreshSupply(c) + c.idle["reset"] + c.resetting
           /\ C!Total(c.waiting) = c.waiting["any"] + c.waiting["fresh"]
           /\ C!Total(c.waiting) \in Nat
<1>1. /\ c.idle["created"] \in Nat /\ c.idle["failed"] \in Nat /\ c.idle["reset"] \in Nat
      /\ c.creating \in Nat /\ c.resetting \in Nat /\ c.running \in Nat /\ c.alive \in Nat
      /\ c.waiting["any"] \in Nat /\ c.waiting["fresh"] \in Nat
      /\ c.upcoming["any"] \in Nat /\ c.upcoming["fresh"] \in Nat
      /\ c.upcomingAlways["any"] \in Nat /\ c.upcomingAlways["fresh"] \in Nat
      /\ c.closed \in BOOLEAN
  BY DEF C!PoolState, C!Tally, C!Kinds, C!Sorts
<1> QED BY <1>1 DEF C!FreshSupply, C!FreshIdle, C!Supply, C!Total

\* What replenish_locked makes of the counts.  If it creates sessions, there are in the end no
\* more unused ones than tests that wait, and spares.
LEMMA ReplenishedCounts ==
    ASSUME NEW c \in C!PoolState, NEW keep \in BOOLEAN, NEW cancel \in BOOLEAN,
           NEW d, d = C!Replenish(c, keep, cancel)
    PROVE  /\ d \in C!PoolState
           /\ d.idle["created"] = c.idle["created"] /\ d.idle["failed"] = c.idle["failed"]
           /\ c.idle["reset"] - d.idle["reset"] \in Nat
           /\ d.alive - c.alive \in Nat /\ d.creating - c.creating = d.alive - c.alive
           /\ d.resetting = c.resetting /\ d.running = c.running /\ d.waiting = c.waiting
           /\ d.upcoming = c.upcoming /\ d.upcomingAlways = c.upcomingAlways
           /\ d.closed = c.closed
           /\ c.closed => d = c
           /\ d.alive # c.alive => C!FreshSupply(d) <= C!Total(d.waiting) + Spare
<1> PICK spares : spares = C!Spares(c, keep, cancel)
  OBVIOUS
<1> DEFINE fresh == C!CreatedFresh(c)
           any == C!CreatedAny(c)
           extra == C!CreatedSpares(c, spares)
           dropped == C!DroppedResets(c)
           room == C!Monus(C!Bound, c.alive)
<1>2. C!Bound \in Nat /\ Spare \in Nat
  BY ConcurrencyType, SettingsAssumption DEF C!Bound
<1>3. spares \in 0 .. Spare
  <2>1. C!Starting(c, keep, cancel) \in Nat
    BY CountsFields DEF C!Starting, C!Total
  <2> QED BY <1>2, <2>1 DEF C!Spares, C!Minimum
<1>4. d = C!Replenished(c, spares)
  BY DEF C!Replenish
<1>5. fresh \in Nat /\ fresh = C!Monus(c.waiting["fresh"], C!FreshSupply(c))
  <2>1. c.waiting["fresh"] \in Int /\ C!FreshSupply(c) \in Int
    BY CountsFields
  <2> QED BY <2>1 DEF C!CreatedFresh, C!Monus
<1>6. dropped \in 0 .. c.idle["reset"]
  <2>1. room \in Nat /\ c.idle["reset"] \in Nat /\ c.waiting["any"] \in Nat
    BY <1>2, CountsFields DEF C!Monus
  <2>2. dropped = C!Minimum(C!Monus(fresh, room), C!Monus(c.idle["reset"], c.waiting["any"]))
    BY DEF C!DroppedResets
  <2> HIDE DEF room, fresh, dropped
  <2> PICK m : m = C!Monus(fresh, room)
    OBVIOUS
  <2> PICK n : n = C!Monus(c.idle["reset"], c.waiting["any"])
    OBVIOUS
  <2>3. m \in Nat
    BY <1>5, <2>1 DEF C!Monus
  <2>4. n \in 0 .. c.idle["reset"]
    BY <2>1 DEF C!Monus
  <2> QED BY <2>1, <2>2, <2>3, <2>4 DEF C!Minimum
<1>7. /\ any \in Nat
      /\ any = C!Monus(C!Total(c.waiting), C!Supply(c) - dropped + fresh)
  <2>1. C!Supply(c) \in Nat /\ C!Total(c.waiting) \in Nat /\ c.idle["reset"] \in Nat
    BY CountsFields
  <2>2. any = C!Monus(C!Total(c.waiting), C!Supply(c) - dropped + fresh)
    BY DEF C!CreatedAny
  <2> HIDE DEF any, dropped, fresh
  <2> QED BY <1>5, <1>6, <2>1, <2>2 DEF C!Monus
<1>8. /\ extra \in Nat
      /\ extra # 0 => C!Supply(c) - dropped + (fresh + any) + extra
                          <= C!Total(c.waiting) + spares
  <2>1. /\ C!Supply(c) \in Nat /\ C!Total(c.waiting) \in Nat /\ c.idle["reset"] \in Nat
        /\ c.alive \in Nat
    BY CountsFields
  <2>2. extra = C!Minimum(C!Monus(C!Total(c.waiting) + spares,
                                  C!Supply(c) - dropped + (fresh + any)),
                          C!Monus(C!Bound, c.alive + (fresh + any)))
    BY DEF C!CreatedSpares
  <2> HIDE DEF any, dropped, fresh, extra
  <2> PICK m : m = C!Monus(C!Total(c.waiting) + spares, C!Supply(c) - dropped + (fresh + any))
    OBVIOUS
  <2> PICK n : n = C!Monus(C!Bound, c.alive + (fresh + any))
    OBVIOUS
  <2>3. n \in Nat
    BY <1>2, <1>5, <1>7, <2>1 DEF C!Monus
  <2>4. m \in Nat /\ (m # 0 => C!Supply(c) - dropped + (fresh + any) + m
                                   <= C!Total(c.waiting) + spares)
    BY <1>3, <1>5, <1>6, <1>7, <2>1 DEF C!Monus
  <2>5. extra = IF m <= n THEN m ELSE n
    BY <2>2 DEF C!Minimum
  <2> QED BY <1>3, <1>5, <1>6, <1>7, <2>1, <2>3, <2>4, <2>5
<1> DEFINE created == C!Created(c, spares)
<1>9. created = fresh + any + extra /\ created \in Nat
  BY <1>5, <1>7, <1>8 DEF C!Created
<1>10. CASE c.closed
  <2>1. d = c
    BY <1>4, <1>10 DEF C!Replenished
  <2> QED BY <2>1, CountsFields
<1>11. CASE ~c.closed
  <2> HIDE DEF dropped, created, fresh, any, extra
  <2>1. d = [c EXCEPT !.idle["reset"] = @ - dropped, !.creating = @ + created,
                      !.alive = @ + created]
    BY <1>4, <1>11 DEF C!Replenished, dropped, created
  <2> PICK idle : idle = [c.idle EXCEPT !["reset"] = @ - dropped]
    OBVIOUS
  <2>2. /\ idle \in [C!Sorts -> Nat]
        /\ idle["created"] = c.idle["created"] /\ idle["failed"] = c.idle["failed"]
        /\ idle["reset"] = c.idle["reset"] - dropped
    BY <1>6, CountsFields DEF C!PoolState, C!Sorts
  <2>3. d = [c EXCEPT !.idle = idle, !.creating = @ + created, !.alive = @ + created]
    BY <2>1 DEF C!PoolState
  <2>4. /\ d \in C!PoolState
        /\ d.idle = idle /\ d.creating = c.creating + created /\ d.alive = c.alive + created
        /\ d.resetting = c.resetting /\ d.running = c.running /\ d.waiting = c.waiting
        /\ d.upcoming = c.upcoming /\ d.upcomingAlways = c.upcomingAlways
        /\ d.closed = c.closed
    <3>1. c.creating + created \in Nat /\ c.alive + created \in Nat
      BY <1>9, CountsFields
    <3> QED BY <2>2, <2>3, <3>1 DEF C!PoolState
  <2>5. C!FreshSupply(d) = C!FreshSupply(c) + created
    BY <1>9, <2>2, <2>4, CountsFields DEF C!FreshSupply, C!FreshIdle
  <2>6. /\ c.alive \in Nat /\ c.creating \in Nat /\ c.idle["reset"] \in Nat
        /\ C!FreshSupply(c) \in Nat /\ c.resetting \in Nat
        /\ c.waiting["any"] \in Nat /\ c.waiting["fresh"] \in Nat
        /\ C!Supply(c) = C!FreshSupply(c) + c.idle["reset"] + c.resetting
        /\ C!Total(c.waiting) = c.waiting["any"] + c.waiting["fresh"]
    BY CountsFields
  <2>7. ASSUME created # 0 PROVE C!FreshSupply(d) <= C!Total(d.waiting) + Spare
    <3>1. C!Monus(c.waiting["fresh"], C!FreshSupply(c)) =
              IF c.waiting["fresh"] >= C!FreshSupply(c)
              THEN c.waiting["fresh"] - C!FreshSupply(c) ELSE 0
      BY <2>6 DEF C!Monus
    <3>2. C!Monus(C!Total(c.waiting), C!Supply(c) - dropped + fresh) =
              IF C!Total(c.waiting) >= C!Supply(c) - dropped + fresh
              THEN C!Total(c.waiting) - (C!Supply(c) - dropped + fresh) ELSE 0
      BY <1>5, <1>6, <2>6 DEF C!Monus
    <3>3. C!FreshSupply(c) + created <= C!Total(c.waiting) + Spare
      <4> PICK F : F = C!FreshSupply(c)
        OBVIOUS
      <4> PICK T : T = C!Total(c.waiting)
        OBVIOUS
      <4> PICK B : B = C!Supply(c) - dropped
        OBVIOUS
      <4>1. F \in Nat /\ T \in Nat /\ B \in Int /\ F <= B
        BY <1>6, <2>6
      <4>2. fresh # 0 => F + fresh <= T
        BY ONLY F = C!FreshSupply(c), T = C!Total(c.waiting), <1>5, <2>6, <3>1
      <4>3. any # 0 => B + fresh + any <= T
        BY ONLY T = C!Total(c.waiting), B = C!Supply(c) - dropped, <1>5, <1>6, <1>7, <2>6, <3>2
      <4>4. extra # 0 => B + (fresh + any) + extra <= T + spares
        BY <1>8
      <4>5. F + (fresh + any + extra) <= T + Spare
        <5>1. CASE extra # 0
          BY ONLY <1>2, <1>3, <1>5, <1>7, <1>8, <4>1, <4>4, <5>1
        <5>2. CASE extra = 0 /\ any # 0
          BY ONLY <1>2, <1>5, <1>7, <4>1, <4>3, <5>2
        <5>3. CASE extra = 0 /\ any = 0
          BY ONLY <1>2, <1>5, <1>9, <2>7, <4>1, <4>2, <5>3
        <5> QED BY <5>1, <5>2, <5>3
      <4> QED BY <1>9, <4>5
    <3> QED BY <2>4, <2>5, <3>3
  <2> QED BY <1>6, <1>9, <1>11, <2>2, <2>4, <2>6, <2>7
<1> QED BY <1>10, <1>11, CountsFields

\* Replenishing the pool replenishes its counts.
LEMMA ReplenishCounts ==
    ASSUME NEW p \in Pools, NEW keep \in BOOLEAN, NEW cancel \in BOOLEAN,
           NEW q, q = Replenish(p, keep, cancel)
    PROVE  /\ q \in Pools
           /\ Counts(q) = C!Replenish(Counts(p), keep, cancel)
           /\ q.alive - p.alive \in Nat /\ q.creating - p.creating = q.alive - p.alive
           /\ q.resetting = p.resetting /\ q.running = p.running /\ q.waiting = p.waiting
           /\ q.upcoming = p.upcoming /\ q.upcomingAlways = p.upcomingAlways
           /\ q.closed = p.closed
           /\ C!FreshSupply(Counts(q)) = C!FreshSupply(Counts(p)) + (q.alive - p.alive)
           /\ p.closed => q.alive = p.alive
           /\ q.alive # p.alive => C!FreshSupply(Counts(q)) <= C!Total(q.waiting) + Spare
<1> PICK c : c = Counts(p)
  OBVIOUS
<1> PICK d : d = C!Replenish(c, keep, cancel)
  OBVIOUS
<1> PICK n : n = OfSort(p.idle, "reset") - d.idle["reset"]
  OBVIOUS
<1> PICK left : left = WithoutResets(p.idle, n)
  OBVIOUS
<1>1. /\ c \in C!PoolState
      /\ \A sort \in C!Sorts : c.idle[sort] = OfSort(p.idle, sort)
      /\ c.creating = p.creating /\ c.resetting = p.resetting
      /\ c.running = p.running /\ c.alive = p.alive
      /\ c.waiting = p.waiting /\ c.upcoming = p.upcoming
      /\ c.upcomingAlways = p.upcomingAlways /\ c.closed = p.closed
  BY CountsFacts
<1>2. /\ d \in C!PoolState
      /\ d.idle["created"] = c.idle["created"] /\ d.idle["failed"] = c.idle["failed"]
      /\ c.idle["reset"] - d.idle["reset"] \in Nat
      /\ d.alive - c.alive \in Nat /\ d.creating - c.creating = d.alive - c.alive
      /\ d.resetting = c.resetting /\ d.running = c.running /\ d.waiting = c.waiting
      /\ d.upcoming = c.upcoming /\ d.upcomingAlways = c.upcomingAlways
      /\ d.closed = c.closed
      /\ c.closed => d = c
      /\ d.alive # c.alive => C!FreshSupply(d) <= C!Total(d.waiting) + Spare
  BY <1>1, ReplenishedCounts
<1>3. p.idle \in Queue
  BY DEF Pools
<1>4. n \in Nat /\ n <= OfSort(p.idle, "reset") /\ OfSort(p.idle, "reset") - n = d.idle["reset"]
  <2>1. c.idle["reset"] = OfSort(p.idle, "reset") /\ d.idle["reset"] \in Nat
        /\ OfSort(p.idle, "reset") \in Nat
    BY <1>1, <1>2, <1>3, SortedTickets, CountsFields DEF C!Sorts
  <2> QED BY <1>2, <2>1
<1>5. left \in Queue /\ OfSort(left, "reset") = d.idle["reset"]
      /\ \A sort : sort # "reset" => OfSort(left, sort) = OfSort(p.idle, sort)
  BY <1>3, <1>4, WithoutResetsFacts, WithoutResetsCounts
<1>6. q = [p EXCEPT !.idle = left, !.creating = d.creating, !.alive = d.alive]
  BY DEF Replenish
<1>7. /\ q \in Pools
      /\ q.idle = left /\ q.creating = d.creating /\ q.alive = d.alive
      /\ q.resetting = p.resetting /\ q.running = p.running /\ q.waiting = p.waiting
      /\ q.upcoming = p.upcoming /\ q.upcomingAlways = p.upcomingAlways /\ q.closed = p.closed
  <2>1. d.creating \in Nat /\ d.alive \in Nat
    BY <1>2, CountsFields
  <2> QED BY <1>5, <1>6, <2>1 DEF Pools
<1> PICK e : e = Counts(q)
  OBVIOUS
<1>8. /\ e \in C!PoolState
      /\ \A sort \in C!Sorts : e.idle[sort] = OfSort(left, sort)
      /\ e.creating = d.creating /\ e.resetting = p.resetting
      /\ e.running = p.running /\ e.alive = d.alive
      /\ e.waiting = p.waiting /\ e.upcoming = p.upcoming
      /\ e.upcomingAlways = p.upcomingAlways /\ e.closed = p.closed
  BY <1>7, CountsFacts
<1>9. e = d
  <2>1. \A sort \in C!Sorts : e.idle[sort] = d.idle[sort]
    BY <1>1, <1>2, <1>5, <1>8 DEF C!Sorts
  <2> QED BY <1>1, <1>2, <1>8, <2>1, SamePool
<1>10. C!FreshSupply(d) = C!FreshSupply(c) + (d.alive - c.alive)
  <2>1. /\ C!FreshSupply(c) = c.idle["created"] + c.idle["failed"] + c.creating
        /\ C!FreshSupply(d) = d.idle["created"] + d.idle["failed"] + d.creating
        /\ c.creating \in Nat /\ d.creating \in Nat /\ c.alive \in Nat /\ d.alive \in Nat
        /\ c.idle["created"] \in Nat /\ c.idle["failed"] \in Nat
    BY <1>1, <1>2, CountsFields
  <2> QED BY <1>2, <2>1
<1> QED BY <1>1, <1>2, <1>7, <1>9, <1>10

-----------------------------------------------------------------------------
(* What the counters count.                                                *)

Planned == Tests \ Unplannable

\* Phases of a test that was started, and of one that no longer waits.
Begun == Phases \ {"queued"}
Answered == Begun \ {"waiting"}

Open == States \ {"ended"}
InCreation == {"requested", "creating"}
InReset == {"resetting"}
InTest == {"running", "checking"}

\* The pool sessions of ws in one of the states X, and the tests of T in one of the phases X.
SessionsIn(ws, X) == {v \in DOMAIN ws : ws[v].owner = Pool /\ ws[v].state \in X}
CountSessions(ws, X) == Cardinality(SessionsIn(ws, X))
CountTests(ph, T, X) == Cardinality({u \in T : ph[u] \in X})

LEMMA SessionsFinite ==
    ASSUME NEW ws \in Seq(WorkerShape), NEW X
    PROVE  IsFiniteSet(SessionsIn(ws, X)) /\ CountSessions(ws, X) \in Nat
<1>1. IsFiniteSet(1 .. Len(ws)) /\ DOMAIN ws = 1 .. Len(ws)
  BY FS_Interval
<1>2. SessionsIn(ws, X) \in SUBSET (1 .. Len(ws))
  BY <1>1 DEF SessionsIn
<1> QED BY <1>1, <1>2, FS_Subset, FS_CardinalityType DEF CountSessions

LEMMA TestsFinite ==
    ASSUME NEW ph, NEW T \in SUBSET Tests, NEW X
    PROVE  IsFiniteSet({u \in T : ph[u] \in X}) /\ CountTests(ph, T, X) \in Nat
<1> DEFINE U == {u \in T : ph[u] \in X}
<1>1. U \in SUBSET Tests
  OBVIOUS
<1> HIDE DEF U
<1>2. IsFiniteSet(U)
  BY <1>1, FS_Subset, TestsAssumption
<1> QED BY <1>2, FS_CardinalityType DEF CountTests, U

\* One session changes its state.
LEMMA SessionChanged ==
    ASSUME NEW ws \in Seq(WorkerShape), NEW vs \in Seq(WorkerShape), NEW w \in DOMAIN ws,
           DOMAIN vs = DOMAIN ws, \A v \in DOMAIN ws : v # w => vs[v] = ws[v],
           vs[w].owner = ws[w].owner, NEW X
    PROVE  CountSessions(vs, X) =
               CountSessions(ws, X)
                   + (IF ws[w].owner = Pool /\ vs[w].state \in X THEN 1 ELSE 0)
                   - (IF ws[w].owner = Pool /\ ws[w].state \in X THEN 1 ELSE 0)
<1>1. \A v : v # w => (v \in SessionsIn(ws, X) <=> v \in SessionsIn(vs, X))
  BY DEF SessionsIn
<1>2. /\ w \in SessionsIn(ws, X) <=> (ws[w].owner = Pool /\ ws[w].state \in X)
      /\ w \in SessionsIn(vs, X) <=> (ws[w].owner = Pool /\ vs[w].state \in X)
  BY DEF SessionsIn
<1>3. IsFiniteSet(SessionsIn(ws, X))
  BY SessionsFinite
<1> QED BY <1>1, <1>2, <1>3, CountStep DEF CountSessions

\* One test changes its phase.
LEMMA PhaseChanged ==
    ASSUME NEW ph \in [Tests -> Phases], NEW qh \in [Tests -> Phases], NEW t \in Tests,
           \A u \in Tests : u # t => qh[u] = ph[u], NEW T \in SUBSET Tests, NEW X
    PROVE  CountTests(qh, T, X) =
               CountTests(ph, T, X) + (IF t \in T /\ qh[t] \in X THEN 1 ELSE 0)
                                    - (IF t \in T /\ ph[t] \in X THEN 1 ELSE 0)
<1> DEFINE A == {u \in T : ph[u] \in X}
           B == {u \in T : qh[u] \in X}
<1>1. \A u : u # t => (u \in A <=> u \in B)
  OBVIOUS
<1>2. /\ t \in A <=> (t \in T /\ ph[t] \in X)
      /\ t \in B <=> (t \in T /\ qh[t] \in X)
  OBVIOUS
<1>3. IsFiniteSet(A)
  BY TestsFinite
<1>4. CountTests(ph, T, X) = Cardinality(A) /\ CountTests(qh, T, X) = Cardinality(B)
  BY DEF CountTests
<1> HIDE DEF A, B
<1> QED BY <1>1, <1>2, <1>3, <1>4, CountStep

\* n sessions were requested and joined ws.
Joined(ws, vs, owner, n) ==
    /\ DOMAIN vs = 1 .. Len(ws) + n
    /\ \A w \in 1 .. Len(ws) : vs[w] = ws[w]
    /\ \A w \in Len(ws) + 1 .. Len(ws) + n : vs[w] = Hired(owner)

LEMMA SessionsRequested ==
    ASSUME NEW ws \in Seq(WorkerShape), NEW owner \in {Pool} \union Tests, NEW n \in Nat,
           NEW vs \in Seq(WorkerShape), Joined(ws, vs, owner, n), NEW X
    PROVE  /\ Len(vs) = Len(ws) + n
           /\ CountSessions(vs, X) = CountSessions(ws, X)
                                     + (IF owner = Pool /\ "requested" \in X THEN n ELSE 0)
<1> DEFINE new == IF owner = Pool /\ "requested" \in X THEN Len(ws) + 1 .. Len(ws) + n ELSE {}
<1> USE DEF Joined
<1>1. /\ Len(ws) \in Nat /\ DOMAIN ws = 1 .. Len(ws)
      /\ Len(vs) \in Nat /\ DOMAIN vs = 1 .. Len(vs)
  OBVIOUS
<1>2. Len(vs) = Len(ws) + n
  BY <1>1, LenProperties
<1>3. Hired(owner).state = "requested" /\ Hired(owner).owner = owner
  BY HiredShape
<1>4. SessionsIn(vs, X) = SessionsIn(ws, X) \union new
  <2>1. ASSUME NEW v \in 1 .. Len(ws) PROVE v \in SessionsIn(vs, X) <=> v \in SessionsIn(ws, X)
    BY <1>1, <1>2 DEF SessionsIn
  <2>2. ASSUME NEW v \in Len(ws) + 1 .. Len(ws) + n
        PROVE  v \in SessionsIn(vs, X) <=> owner = Pool /\ "requested" \in X
    BY <1>1, <1>2, <1>3 DEF SessionsIn
  <2>3. SessionsIn(vs, X) \subseteq 1 .. Len(ws) + n /\ SessionsIn(ws, X) \subseteq 1 .. Len(ws)
    BY <1>1 DEF SessionsIn
  <2>4. \A v : v \in 1 .. Len(ws) + n => v \in 1 .. Len(ws) \/ v \in Len(ws) + 1 .. Len(ws) + n
    BY <1>1
  <2>5. \A v : v \in 1 .. Len(ws) => v \notin Len(ws) + 1 .. Len(ws) + n /\ v \in 1 .. Len(ws) + n
    BY <1>1
  <2> QED BY <1>1, <2>1, <2>2, <2>3, <2>4, <2>5
<1>5. /\ IsFiniteSet(new) /\ SessionsIn(ws, X) \intersect new = {}
      /\ Cardinality(new) = IF owner = Pool /\ "requested" \in X THEN n ELSE 0
  <2>1. IsFiniteSet(Len(ws) + 1 .. Len(ws) + n) /\ Cardinality(Len(ws) + 1 .. Len(ws) + n) = n
    BY <1>1, FS_Interval
  <2>2. SessionsIn(ws, X) \subseteq 1 .. Len(ws)
    BY <1>1 DEF SessionsIn
  <2>3. \A v \in 1 .. Len(ws) : v \notin Len(ws) + 1 .. Len(ws) + n
    BY <1>1
  <2>4. IsFiniteSet({}) /\ Cardinality({}) = 0
    BY FS_EmptySet
  <2> QED BY <2>1, <2>2, <2>3, <2>4
<1> HIDE DEF new
<1>6. CountSessions(vs, X) = CountSessions(ws, X) + Cardinality(new)
  BY <1>4, <1>5, SessionsFinite, CountTogether DEF CountSessions
<1> QED BY <1>2, <1>5, <1>6

-----------------------------------------------------------------------------
(* The pool and what it counts.                                            *)

\* Sessions being created and those nobody took yet: C!FreshSupply.
Unused(p) == OfSort(p.idle, "created") + OfSort(p.idle, "failed") + p.creating

(***************************************************************************)
(* The pool p has the right counts for the sessions ws, n sessions that    *)
(* are being requested, and tests in the phases ph.  Its last two parts    *)
(* bound the sessions: every one was requested for a test that was         *)
(* started, or as a spare; and each is still unused, or some test was      *)
(* answered with it.                                                       *)
(***************************************************************************)
Tallied(p, ws, n, ph, keep, cancel) ==
    /\ p \in Pools
    /\ p.alive = CountSessions(ws, Open) + n
    /\ p.creating = CountSessions(ws, InCreation) + n
    /\ p.running = CountTests(ph, PoolTests, {"running"})
    /\ \A k \in C!Kinds : p.waiting[k] = CountTests(ph, PoolTestsOf(k), {"waiting"})
    /\ p.resetting >= CountSessions(ws, InReset)
    /\ ~cancel =>
          /\ p.resetting = CountSessions(ws, InReset)
          /\ p.running = CountSessions(ws, InTest)
          /\ \A k \in C!Kinds :
                /\ keep => p.upcoming[k] = CountTests(ph, PoolTestsOf(k), {"queued"})
                /\ p.upcomingAlways[k] =
                       CountTests(ph, PoolTestsOf(k) \intersect RunAlways, {"queued"})
    /\ Len(ws) + n <= CountTests(ph, Planned, Begun) + Spare
    /\ ~p.closed => Len(ws) + n <= Unused(p) + CountTests(ph, Planned, Answered)

\* At most session w changed, and at most test t.
OneSession(ws, vs, w) ==
    vs = ws \/ (/\ w \in DOMAIN ws /\ DOMAIN vs = DOMAIN ws
                /\ \A v \in DOMAIN ws : v # w => vs[v] = ws[v]
                /\ vs[w].owner = ws[w].owner)

OneTest(ph, qh, t) == qh = ph \/ (t \in Tests /\ \A u \in Tests : u # t => qh[u] = ph[u])

\* How many more sessions are in X after w changed, and tests after t did.
SessionGain(ws, vs, w, X) ==
    (IF vs[w].owner = Pool /\ vs[w].state \in X THEN 1 ELSE 0)
        - (IF ws[w].owner = Pool /\ ws[w].state \in X THEN 1 ELSE 0)

TestGain(ph, qh, t, T, X) ==
    (IF t \in T /\ qh[t] \in X THEN 1 ELSE 0) - (IF t \in T /\ ph[t] \in X THEN 1 ELSE 0)

LEMMA SessionsGain ==
    ASSUME NEW ws \in Seq(WorkerShape), NEW vs \in Seq(WorkerShape), NEW w,
           OneSession(ws, vs, w), NEW X
    PROVE  /\ CountSessions(vs, X) = CountSessions(ws, X) + SessionGain(ws, vs, w, X)
           /\ CountSessions(ws, X) \in Nat /\ CountSessions(vs, X) \in Nat
           /\ SessionGain(ws, vs, w, X) \in Int
<1>1. CountSessions(ws, X) \in Nat /\ CountSessions(vs, X) \in Nat
  BY SessionsFinite
<1>2. CASE vs = ws
  BY <1>1, <1>2 DEF SessionGain
<1>3. CASE /\ w \in DOMAIN ws /\ DOMAIN vs = DOMAIN ws
           /\ \A v \in DOMAIN ws : v # w => vs[v] = ws[v]
           /\ vs[w].owner = ws[w].owner
  <2>1. CountSessions(vs, X) =
            CountSessions(ws, X)
                + (IF ws[w].owner = Pool /\ vs[w].state \in X THEN 1 ELSE 0)
                - (IF ws[w].owner = Pool /\ ws[w].state \in X THEN 1 ELSE 0)
    BY <1>3, SessionChanged
  <2> QED BY <1>1, <1>3, <2>1 DEF SessionGain
<1> QED BY <1>2, <1>3 DEF OneSession

LEMMA TestsGain ==
    ASSUME NEW ph \in [Tests -> Phases], NEW qh \in [Tests -> Phases], NEW t,
           OneTest(ph, qh, t), NEW T \in SUBSET Tests, NEW X
    PROVE  /\ CountTests(qh, T, X) = CountTests(ph, T, X) + TestGain(ph, qh, t, T, X)
           /\ CountTests(ph, T, X) \in Nat /\ CountTests(qh, T, X) \in Nat
           /\ TestGain(ph, qh, t, T, X) \in Int
<1>1. CountTests(ph, T, X) \in Nat /\ CountTests(qh, T, X) \in Nat
  BY TestsFinite
<1>2. CASE qh = ph
  BY <1>1, <1>2 DEF TestGain
<1>3. CASE t \in Tests /\ \A u \in Tests : u # t => qh[u] = ph[u]
  BY <1>1, <1>3, PhaseChanged DEF TestGain
<1> QED BY <1>2, <1>3 DEF OneTest

LEMMA TestSets ==
    /\ PoolTests \in SUBSET Tests /\ Planned \in SUBSET Tests /\ PoolTests \subseteq Planned
    /\ \A k : /\ PoolTestsOf(k) \in SUBSET PoolTests
              /\ PoolTestsOf(k) \in SUBSET Tests
              /\ PoolTestsOf(k) \intersect RunAlways \in SUBSET Tests
    /\ PoolTestsOf("any") \intersect PoolTestsOf("fresh") = {}
    /\ \A t \in PoolTests : t \in PoolTestsOf(Kind(t))
    /\ \A t, k : t \in PoolTestsOf(k) => k = Kind(t)
BY DEF PoolTests, Planned, PoolTestsOf

\* A pool whose counters are natural numbers.
LEMMA PoolsByCounters ==
    ASSUME NEW q \in PoolShape, q.creating \in Nat, q.resetting \in Nat, q.running \in Nat,
           q.alive \in Nat, \A k \in C!Kinds : q.waiting[k] \in Nat,
           q.upcoming \in C!Tally, q.upcomingAlways \in C!Tally
    PROVE  q \in Pools
<1>1. q.waiting \in C!Tally
  BY DEF PoolShape, C!Tally
<1> QED BY <1>1 DEF PoolShape, Pools

\* The counts that may change when the phase of test t, the state of session w, and the pool do.
Adjusted(p, ws, ph, q, vs, qh, w, t, keeps, cancels) ==
    /\ q.alive = p.alive + SessionGain(ws, vs, w, Open)
    /\ q.creating = p.creating + SessionGain(ws, vs, w, InCreation)
    /\ q.running = p.running + TestGain(ph, qh, t, PoolTests, {"running"})
    /\ \A k \in C!Kinds :
          q.waiting[k] = p.waiting[k] + TestGain(ph, qh, t, PoolTestsOf(k), {"waiting"})
    /\ q.resetting >= p.resetting + SessionGain(ws, vs, w, InReset)
    /\ ~cancels =>
          /\ q.resetting = p.resetting + SessionGain(ws, vs, w, InReset)
          /\ q.running = p.running + SessionGain(ws, vs, w, InTest)
          /\ \A k \in C!Kinds :
                /\ keeps => q.upcoming[k] =
                       p.upcoming[k] + TestGain(ph, qh, t, PoolTestsOf(k), {"queued"})
                /\ q.upcomingAlways[k] = p.upcomingAlways[k]
                       + TestGain(ph, qh, t, PoolTestsOf(k) \intersect RunAlways, {"queued"})
    /\ TestGain(ph, qh, t, Planned, Begun) >= 0
    /\ ~q.closed => /\ ~p.closed
                    /\ Unused(q) + TestGain(ph, qh, t, Planned, Answered) >= Unused(p)

LEMMA LengthByDomain ==
    ASSUME NEW S, NEW q \in Seq(S), NEW n \in Nat, DOMAIN q = 1 .. n
    PROVE  Len(q) = n
<1>1. Len(q) \in Nat /\ DOMAIN q = 1 .. Len(q)
  OBVIOUS
<1>2. PICK m : m = Len(q)
  OBVIOUS
<1>3. m \in Nat /\ 1 .. m = 1 .. n
  BY <1>1, <1>2
<1>4. m \in 1 .. n \/ m = 0
  BY <1>3
<1>5. n \in 1 .. m \/ n = 0
  BY <1>3
<1> QED BY <1>2, <1>3, <1>4, <1>5

LEMMA TallyStep ==
    ASSUME NEW p, NEW ws \in Seq(WorkerShape), NEW n \in Nat,
           NEW ph \in [Tests -> Phases], NEW keep \in BOOLEAN, NEW cancel \in BOOLEAN,
           Tallied(p, ws, n, ph, keep, cancel),
           NEW q \in PoolShape, NEW vs \in Seq(WorkerShape), NEW qh \in [Tests -> Phases],
           NEW keeps \in BOOLEAN, NEW cancels \in BOOLEAN, cancel => cancels, keeps => keep,
           q.upcoming \in C!Tally, q.upcomingAlways \in C!Tally,
           NEW w, OneSession(ws, vs, w), NEW t, OneTest(ph, qh, t),
           Adjusted(p, ws, ph, q, vs, qh, w, t, keeps, cancels)
    PROVE  Tallied(q, vs, n, qh, keeps, cancels)
<1>1. ASSUME NEW X
      PROVE  /\ CountSessions(vs, X) = CountSessions(ws, X) + SessionGain(ws, vs, w, X)
             /\ CountSessions(ws, X) \in Nat /\ CountSessions(vs, X) \in Nat
             /\ SessionGain(ws, vs, w, X) \in Int
  BY SessionsGain
<1>2. ASSUME NEW T \in SUBSET Tests, NEW X
      PROVE  /\ CountTests(qh, T, X) = CountTests(ph, T, X) + TestGain(ph, qh, t, T, X)
             /\ CountTests(ph, T, X) \in Nat /\ CountTests(qh, T, X) \in Nat
             /\ TestGain(ph, qh, t, T, X) \in Int
  BY TestsGain
<1>3. /\ p \in Pools /\ p.closed \in BOOLEAN /\ q.closed \in BOOLEAN
      /\ p.resetting \in Nat /\ q.resetting \in Int /\ p.idle \in Queue /\ q.idle \in Queue
      /\ p.creating \in Nat /\ q.creating \in Int
  BY DEF Pools, PoolShape, Tallied
<1>4. /\ q.alive = CountSessions(vs, Open) + n /\ q.creating = CountSessions(vs, InCreation) + n
      /\ q.alive \in Nat /\ q.creating \in Nat
  <2>1. p.alive = CountSessions(ws, Open) + n /\ p.creating = CountSessions(ws, InCreation) + n
    BY DEF Tallied
  <2>2. /\ q.alive = p.alive + SessionGain(ws, vs, w, Open)
        /\ q.creating = p.creating + SessionGain(ws, vs, w, InCreation)
    BY DEF Adjusted
  <2>3. q.alive = CountSessions(vs, Open) + n /\ q.alive \in Nat
    BY <1>1, <2>1, <2>2
  <2>4. q.creating = CountSessions(vs, InCreation) + n /\ q.creating \in Nat
    BY <1>1, <2>1, <2>2
  <2> QED BY <2>3, <2>4
<1>5. q.running = CountTests(qh, PoolTests, {"running"}) /\ q.running \in Nat
  <2>1. /\ p.running = CountTests(ph, PoolTests, {"running"})
        /\ q.running = p.running + TestGain(ph, qh, t, PoolTests, {"running"})
    BY DEF Tallied, Adjusted
  <2> QED BY <1>2, <2>1, TestSets
<1>6. ASSUME NEW k \in C!Kinds
      PROVE  /\ q.waiting[k] = CountTests(qh, PoolTestsOf(k), {"waiting"})
             /\ q.waiting[k] \in Nat
  <2>1. /\ p.waiting[k] = CountTests(ph, PoolTestsOf(k), {"waiting"})
        /\ q.waiting[k] = p.waiting[k] + TestGain(ph, qh, t, PoolTestsOf(k), {"waiting"})
    BY DEF Tallied, Adjusted
  <2>2. PoolTestsOf(k) \in SUBSET Tests
    BY TestSets
  <2> QED BY <1>2, <2>1, <2>2
<1>7. q.resetting >= CountSessions(vs, InReset) /\ q.resetting \in Nat
  <2>1. /\ p.resetting >= CountSessions(ws, InReset)
        /\ q.resetting >= p.resetting + SessionGain(ws, vs, w, InReset)
    BY DEF Tallied, Adjusted
  <2> QED BY <1>1, <1>3, <2>1
<1>8. ASSUME ~cancels
      PROVE  q.resetting = CountSessions(vs, InReset) /\ q.running = CountSessions(vs, InTest)
  <2>1. /\ p.resetting = CountSessions(ws, InReset) /\ p.running = CountSessions(ws, InTest)
        /\ q.resetting = p.resetting + SessionGain(ws, vs, w, InReset)
        /\ q.running = p.running + SessionGain(ws, vs, w, InTest)
    BY <1>8 DEF Tallied, Adjusted
  <2>2. q.resetting = CountSessions(vs, InReset)
    BY <1>1, <2>1
  <2>3. q.running = CountSessions(vs, InTest)
    BY <1>1, <2>1
  <2> QED BY <2>2, <2>3
<1>9. ASSUME ~cancels, NEW k \in C!Kinds
      PROVE  /\ keeps => q.upcoming[k] = CountTests(qh, PoolTestsOf(k), {"queued"})
             /\ q.upcomingAlways[k] =
                    CountTests(qh, PoolTestsOf(k) \intersect RunAlways, {"queued"})
  <2>1. PICK T : T = PoolTestsOf(k)
    OBVIOUS
  <2>2. PICK A : A = PoolTestsOf(k) \intersect RunAlways
    OBVIOUS
  <2>3. T \in SUBSET Tests /\ A \in SUBSET Tests
    BY <2>1, <2>2, TestSets
  <2>4. /\ keep => p.upcoming[k] = CountTests(ph, T, {"queued"})
        /\ p.upcomingAlways[k] = CountTests(ph, A, {"queued"})
        /\ keeps => q.upcoming[k] = p.upcoming[k] + TestGain(ph, qh, t, T, {"queued"})
        /\ q.upcomingAlways[k] = p.upcomingAlways[k] + TestGain(ph, qh, t, A, {"queued"})
    BY <1>9, <2>1, <2>2 DEF Tallied, Adjusted
  <2>5. CountTests(qh, T, {"queued"}) = CountTests(ph, T, {"queued"})
                                            + TestGain(ph, qh, t, T, {"queued"})
    BY <1>2, <2>3
  <2>6. CountTests(qh, A, {"queued"}) = CountTests(ph, A, {"queued"})
                                            + TestGain(ph, qh, t, A, {"queued"})
    BY <1>2, <2>3
  <2> QED BY <2>1, <2>2, <2>4, <2>5, <2>6
<1>10. Len(vs) = Len(ws) /\ Len(ws) \in Nat
  <2>1. /\ Len(ws) \in Nat /\ DOMAIN ws = 1 .. Len(ws)
        /\ Len(vs) \in Nat /\ DOMAIN vs = 1 .. Len(vs)
    OBVIOUS
  <2>2. DOMAIN vs = DOMAIN ws
    <3>1. CASE vs = ws
      BY <3>1
    <3>2. CASE DOMAIN vs = DOMAIN ws
      BY <3>2
    <3>3. vs = ws \/ DOMAIN vs = DOMAIN ws
      BY Zenon DEF OneSession
    <3> QED BY <3>1, <3>2, <3>3
  <2>3. DOMAIN vs = 1 .. Len(ws)
    BY <2>1, <2>2
  <2> QED BY <2>1, <2>3, LengthByDomain
<1>11. Len(vs) + n <= CountTests(qh, Planned, Begun) + Spare
  <2>1. /\ Len(ws) + n <= CountTests(ph, Planned, Begun) + Spare
        /\ TestGain(ph, qh, t, Planned, Begun) >= 0
    BY DEF Tallied, Adjusted
  <2> QED BY <1>2, <1>10, <2>1, TestSets, SettingsAssumption
<1>12. ASSUME ~q.closed
       PROVE  Len(vs) + n <= Unused(q) + CountTests(qh, Planned, Answered)
  <2>1. /\ Len(ws) + n <= Unused(p) + CountTests(ph, Planned, Answered)
        /\ Unused(q) + TestGain(ph, qh, t, Planned, Answered) >= Unused(p)
    BY <1>12 DEF Tallied, Adjusted
  <2>2. Unused(p) \in Int /\ Unused(q) \in Int
    <3>1. \A sort : OfSort(p.idle, sort) \in Nat
      BY <1>3, SortedTickets
    <3>2. \A sort : OfSort(q.idle, sort) \in Nat
      BY <1>3, SortedTickets
    <3> QED BY <1>3, <3>1, <3>2 DEF Unused
  <2> QED BY <1>2, <1>10, <2>1, <2>2, TestSets
<1>13. q \in Pools
  BY <1>4, <1>5, <1>6, <1>7, PoolsByCounters
<1> QED BY <1>4, <1>5, <1>6, <1>7, <1>8, <1>9, <1>11, <1>12, <1>13 DEF Tallied

\* The shape of a state that is counted.
Counted(ws, n, ph, keep, cancel) ==
    /\ ws \in Seq(WorkerShape) /\ n \in Nat /\ ph \in [Tests -> Phases]
    /\ keep \in BOOLEAN /\ cancel \in BOOLEAN

LEMMA UnusedFacts ==
    ASSUME NEW p \in PoolShape
    PROVE  /\ Unused(p) \in Int
           /\ p \in Pools => Unused(p) = C!FreshSupply(Counts(p))
<1>1. p.idle \in Queue /\ p.creating \in Int
  BY DEF PoolShape
<1>2. \A sort : OfSort(p.idle, sort) \in Nat
  BY <1>1, SortedTickets
<1>3. Unused(p) \in Int
  BY <1>1, <1>2 DEF Unused
<1>4. ASSUME p \in Pools PROVE Unused(p) = C!FreshSupply(Counts(p))
  <2> PICK c : c = Counts(p)
    OBVIOUS
  <2>1. /\ c \in C!PoolState /\ \A sort \in C!Sorts : c.idle[sort] = OfSort(p.idle, sort)
        /\ c.creating = p.creating
    BY <1>4, CountsFacts
  <2>2. C!FreshSupply(c) = c.idle["created"] + c.idle["failed"] + c.creating
    BY <2>1, CountsFields
  <2> QED BY <2>1, <2>2 DEF Unused, C!Sorts
<1> QED BY <1>3, <1>4

\* A test that waits or was answered has begun.
LEMMA WaitingBegun ==
    ASSUME NEW ph \in [Tests -> Phases]
    PROVE  /\ CountTests(ph, PoolTestsOf("any"), {"waiting"}) \in Nat
           /\ CountTests(ph, PoolTestsOf("fresh"), {"waiting"}) \in Nat
           /\ CountTests(ph, Planned, Answered) \in Nat
           /\ CountTests(ph, Planned, Begun) \in Nat
           /\ CountTests(ph, PoolTestsOf("any"), {"waiting"})
                + CountTests(ph, PoolTestsOf("fresh"), {"waiting"})
                + CountTests(ph, Planned, Answered)
                  <= CountTests(ph, Planned, Begun)
<1> DEFINE A == {u \in PoolTestsOf("any") : ph[u] \in {"waiting"}}
           F == {u \in PoolTestsOf("fresh") : ph[u] \in {"waiting"}}
           D == {u \in Planned : ph[u] \in Answered}
           B == {u \in Planned : ph[u] \in Begun}
<1>1. /\ CountTests(ph, PoolTestsOf("any"), {"waiting"}) = Cardinality(A)
      /\ CountTests(ph, PoolTestsOf("fresh"), {"waiting"}) = Cardinality(F)
      /\ CountTests(ph, Planned, Answered) = Cardinality(D)
      /\ CountTests(ph, Planned, Begun) = Cardinality(B)
  BY DEF CountTests
<1>2. IsFiniteSet(A) /\ IsFiniteSet(F) /\ IsFiniteSet(D) /\ IsFiniteSet(B)
  <2>1. /\ PoolTestsOf("any") \in SUBSET Tests /\ PoolTestsOf("fresh") \in SUBSET Tests
        /\ Planned \in SUBSET Tests
    BY TestSets
  <2>2. IsFiniteSet(A)
    <3>1. A \in SUBSET Tests
      BY <2>1
    <3> HIDE DEF A
    <3> QED BY <3>1, FS_Subset, TestsAssumption
  <2>3. IsFiniteSet(F)
    <3>1. F \in SUBSET Tests
      BY <2>1
    <3> HIDE DEF F
    <3> QED BY <3>1, FS_Subset, TestsAssumption
  <2>4. IsFiniteSet(D)
    BY <2>1, TestsFinite
  <2>5. IsFiniteSet(B)
    BY <2>1, TestsFinite
  <2> QED BY <2>2, <2>3, <2>4, <2>5
<1>3. A \intersect F = {} /\ (A \union F) \intersect D = {}
  BY TestSets DEF Answered, Begun
<1>4. (A \union F) \union D \subseteq B
  BY TestSets DEF Answered, Begun, Phases
<1> HIDE DEF A, F, D, B
<1>5. IsFiniteSet(A \union F) /\ Cardinality(A \union F) = Cardinality(A) + Cardinality(F)
  BY <1>2, <1>3, CountTogether
<1>6. Cardinality((A \union F) \union D) = Cardinality(A \union F) + Cardinality(D)
  BY <1>2, <1>3, <1>5, CountTogether
<1>7. Cardinality((A \union F) \union D) <= Cardinality(B)
  BY <1>2, <1>4, FS_Subset
<1>8. /\ Cardinality(A) \in Nat /\ Cardinality(F) \in Nat
      /\ Cardinality(D) \in Nat /\ Cardinality(B) \in Nat
  BY <1>2, FS_CardinalityType
<1> QED BY <1>1, <1>5, <1>6, <1>7, <1>8

LEMMA ReplenishTally ==
    ASSUME NEW p, NEW ws, NEW n, NEW ph, NEW keep, NEW cancel,
           Counted(ws, n, ph, keep, cancel), Tallied(p, ws, n, ph, keep, cancel),
           NEW k \in BOOLEAN, NEW c \in BOOLEAN, NEW q, q = Replenish(p, k, c)
    PROVE  /\ q.alive - p.alive \in Nat
           /\ Tallied(q, ws, n + (q.alive - p.alive), ph, keep, cancel)
<1> PICK m : m = q.alive - p.alive
  OBVIOUS
<1>0. p \in Pools
  BY DEF Tallied
<1>1. /\ p \in Pools /\ n \in Nat /\ ws \in Seq(WorkerShape) /\ ph \in [Tests -> Phases]
      /\ keep \in BOOLEAN /\ cancel \in BOOLEAN
  BY DEF Tallied, Counted
<1>2. /\ q \in Pools /\ m \in Nat /\ q.creating - p.creating = m
      /\ q.resetting = p.resetting /\ q.running = p.running /\ q.waiting = p.waiting
      /\ q.upcoming = p.upcoming /\ q.upcomingAlways = p.upcomingAlways
      /\ q.closed = p.closed
      /\ C!FreshSupply(Counts(q)) = C!FreshSupply(Counts(p)) + m
      /\ p.closed => m = 0
      /\ m # 0 => C!FreshSupply(Counts(q)) <= C!Total(q.waiting) + Spare
  <2>1. /\ q \in Pools
        /\ q.resetting = p.resetting /\ q.running = p.running /\ q.waiting = p.waiting
        /\ q.upcoming = p.upcoming /\ q.upcomingAlways = p.upcomingAlways
        /\ q.closed = p.closed
    BY <1>0, ReplenishCounts
  <2>4. q.alive - p.alive \in Nat /\ q.creating - p.creating = q.alive - p.alive
    BY <1>0, ReplenishCounts
  <2>5. C!FreshSupply(Counts(q)) = C!FreshSupply(Counts(p)) + (q.alive - p.alive)
    BY <1>0, ReplenishCounts
  <2>6. p.closed => q.alive = p.alive
    BY <1>0, ReplenishCounts
  <2>7. q.alive # p.alive => C!FreshSupply(Counts(q)) <= C!Total(q.waiting) + Spare
    BY <1>0, ReplenishCounts
  <2>2. p.alive \in Nat /\ q.alive \in Nat
    BY <1>1, <2>1 DEF Pools
  <2>3. q.alive # p.alive <=> m # 0
    BY <2>2
  <2> QED BY <2>1, <2>3, <2>4, <2>5, <2>6, <2>7
<1>3. p \in PoolShape /\ q \in PoolShape
  BY <1>1, <1>2 DEF Pools, PoolShape, C!Tally
<1>4. Unused(q) = Unused(p) + m /\ Unused(p) \in Int
  BY <1>1, <1>2, <1>3, UnusedFacts
<1>5. /\ p.alive \in Nat /\ q.alive \in Nat /\ p.creating \in Nat /\ q.creating \in Nat
      /\ p.closed \in BOOLEAN
  BY <1>1, <1>2 DEF Pools
<1>6. Len(ws) \in Nat
  BY <1>1
<1>7. q.alive = CountSessions(ws, Open) + (n + m) /\ q.creating = CountSessions(ws, InCreation) + (n + m)
  <2>1. p.alive = CountSessions(ws, Open) + n /\ p.creating = CountSessions(ws, InCreation) + n
    BY DEF Tallied
  <2>2. CountSessions(ws, Open) \in Nat /\ CountSessions(ws, InCreation) \in Nat
    BY <1>1, SessionsFinite
  <2>3. q.alive = p.alive + m /\ q.creating = p.creating + m
    BY <1>2, <1>5
  <2>4. q.alive = CountSessions(ws, Open) + (n + m)
    BY <1>1, <1>2, <2>1, <2>2, <2>3
  <2>5. q.creating = CountSessions(ws, InCreation) + (n + m)
    <3>1. m \in Nat
      BY <1>2
    <3> QED BY ONLY <1>1, <2>1, <2>2, <2>3, <3>1
  <2> QED BY <2>4, <2>5
<1>8. /\ q.running = CountTests(ph, PoolTests, {"running"})
      /\ \A kind \in C!Kinds : q.waiting[kind] = CountTests(ph, PoolTestsOf(kind), {"waiting"})
      /\ q.resetting >= CountSessions(ws, InReset)
  BY <1>2 DEF Tallied
<1>9. ~cancel =>
          /\ q.resetting = CountSessions(ws, InReset)
          /\ q.running = CountSessions(ws, InTest)
          /\ \A kind \in C!Kinds :
                /\ keep => q.upcoming[kind] = CountTests(ph, PoolTestsOf(kind), {"queued"})
                /\ q.upcomingAlways[kind] =
                       CountTests(ph, PoolTestsOf(kind) \intersect RunAlways, {"queued"})
  BY <1>2 DEF Tallied
<1>10. ~q.closed => Len(ws) + (n + m) <= Unused(q) + CountTests(ph, Planned, Answered)
  <2>1. ~p.closed => Len(ws) + n <= Unused(p) + CountTests(ph, Planned, Answered)
    BY DEF Tallied
  <2>2. CountTests(ph, Planned, Answered) \in Nat
    BY <1>1, WaitingBegun
  <2>3. n \in Nat /\ m \in Nat /\ (~q.closed => ~p.closed)
    BY <1>1, <1>2
  <2> QED BY ONLY <1>4, <1>6, <2>1, <2>2, <2>3
<1>11. Len(ws) + (n + m) <= CountTests(ph, Planned, Begun) + Spare
  <2>1. CASE m = 0
    <3>1. Len(ws) + n <= CountTests(ph, Planned, Begun) + Spare
      BY DEF Tallied
    <3> QED BY <1>1, <2>1, <3>1
  <2>2. CASE m # 0
    <3>1. ~q.closed
      BY <1>2, <2>2
    <3>2. Unused(q) <= C!Total(q.waiting) + Spare
      BY <1>2, <1>3, <2>2, UnusedFacts
    <3>3. C!Total(q.waiting) = CountTests(ph, PoolTestsOf("any"), {"waiting"})
                                   + CountTests(ph, PoolTestsOf("fresh"), {"waiting"})
      BY <1>8 DEF C!Total, C!Kinds
    <3>4. Unused(q) \in Int /\ Spare \in Nat
      BY <1>3, UnusedFacts, SettingsAssumption
    <3>5. /\ CountTests(ph, PoolTestsOf("any"), {"waiting"})
                + CountTests(ph, PoolTestsOf("fresh"), {"waiting"})
                + CountTests(ph, Planned, Answered)
                  <= CountTests(ph, Planned, Begun)
          /\ CountTests(ph, PoolTestsOf("any"), {"waiting"}) \in Nat
          /\ CountTests(ph, PoolTestsOf("fresh"), {"waiting"}) \in Nat
          /\ CountTests(ph, Planned, Answered) \in Nat
          /\ CountTests(ph, Planned, Begun) \in Nat
      BY <1>1, WaitingBegun
    <3>6. n \in Nat /\ m \in Nat
      BY <1>1, <1>2
    <3> QED BY ONLY <1>6, <1>10, <3>1, <3>2, <3>3, <3>4, <3>5, <3>6
  <2> QED BY <2>1, <2>2
<1> QED BY <1>2, <1>7, <1>8, <1>9, <1>10, <1>11 DEF Tallied

\* The sessions that were being requested are there.
LEMMA HireTally ==
    ASSUME NEW p, NEW ws, NEW n, NEW ph, NEW keep, NEW cancel,
           Counted(ws, n, ph, keep, cancel), Tallied(p, ws, n, ph, keep, cancel),
           NEW vs \in Seq(WorkerShape), Joined(ws, vs, Pool, n)
    PROVE  Tallied(p, vs, 0, ph, keep, cancel)
<1>1. n \in Nat /\ ws \in Seq(WorkerShape) /\ Len(ws) \in Nat
  BY DEF Counted
<1>2. ASSUME NEW X
      PROVE  /\ Len(vs) = Len(ws) + n
             /\ CountSessions(vs, X) =
                    CountSessions(ws, X) + (IF "requested" \in X THEN n ELSE 0)
             /\ CountSessions(ws, X) \in Nat
  BY <1>1, SessionsRequested, SessionsFinite
<1>3. /\ CountSessions(vs, Open) = CountSessions(ws, Open) + n
      /\ CountSessions(vs, InCreation) = CountSessions(ws, InCreation) + n
      /\ CountSessions(vs, InReset) = CountSessions(ws, InReset)
      /\ CountSessions(vs, InTest) = CountSessions(ws, InTest)
      /\ CountSessions(vs, Open) \in Nat /\ CountSessions(vs, InCreation) \in Nat
      /\ Len(vs) = Len(ws) + n /\ Len(vs) \in Nat
  <2>1. /\ "requested" \in Open /\ "requested" \in InCreation
        /\ "requested" \notin InReset /\ "requested" \notin InTest
    BY DEF Open, InCreation, InReset, InTest, States
  <2>2. CountSessions(vs, Open) = CountSessions(ws, Open) + n /\ CountSessions(ws, Open) \in Nat
    BY <1>2, <2>1
  <2>3. /\ CountSessions(vs, InCreation) = CountSessions(ws, InCreation) + n
        /\ CountSessions(ws, InCreation) \in Nat
    BY <1>2, <2>1
  <2>4. CountSessions(vs, InReset) = CountSessions(ws, InReset)
    <3>1. /\ CountSessions(vs, InReset) = CountSessions(ws, InReset) + 0
          /\ CountSessions(ws, InReset) \in Nat
      BY <1>2, <2>1
    <3> QED BY <3>1
  <2>5. CountSessions(vs, InTest) = CountSessions(ws, InTest)
    <3>1. /\ CountSessions(vs, InTest) = CountSessions(ws, InTest) + 0
          /\ CountSessions(ws, InTest) \in Nat
      BY <1>2, <2>1
    <3> QED BY <3>1
  <2>6. Len(vs) = Len(ws) + n
    BY <1>2
  <2> QED BY <1>1, <2>2, <2>3, <2>4, <2>5, <2>6
<1>4. p.alive = CountSessions(vs, Open) + 0 /\ p.creating = CountSessions(vs, InCreation) + 0
  BY <1>3 DEF Tallied
<1>5. Len(vs) + 0 = Len(ws) + n
  BY <1>3
<1> QED BY <1>3, <1>4, <1>5 DEF Tallied

-----------------------------------------------------------------------------
(* The steps of tests and sessions, counted.                               *)

\* What one test counts for, when its phase changes from a to b.
LEMMA TestGains ==
    ASSUME NEW ph, NEW qh, NEW t, NEW T, NEW X
    PROVE  /\ TestGain(ph, qh, t, T, X) \in {-1, 0, 1}
           /\ t \notin T => TestGain(ph, qh, t, T, X) = 0
           /\ (ph[t] \in X <=> qh[t] \in X) => TestGain(ph, qh, t, T, X) = 0
           /\ t \in T /\ ph[t] \in X /\ qh[t] \notin X => TestGain(ph, qh, t, T, X) = -1
           /\ t \in T /\ ph[t] \notin X /\ qh[t] \in X => TestGain(ph, qh, t, T, X) = 1
BY DEF TestGain

LEMMA SessionGains ==
    ASSUME NEW ws, NEW vs, NEW w, NEW X
    PROVE  /\ SessionGain(ws, vs, w, X) \in {-1, 0, 1}
           /\ vs = ws => SessionGain(ws, vs, w, X) = 0
           /\ ws[w].owner # Pool /\ vs[w].owner # Pool => SessionGain(ws, vs, w, X) = 0
           /\ ws[w].owner = Pool /\ vs[w].owner = Pool =>
                 /\ (ws[w].state \in X <=> vs[w].state \in X) => SessionGain(ws, vs, w, X) = 0
                 /\ ws[w].state \in X /\ vs[w].state \notin X => SessionGain(ws, vs, w, X) = -1
                 /\ ws[w].state \notin X /\ vs[w].state \in X => SessionGain(ws, vs, w, X) = 1
BY DEF SessionGain

\* What the gains of a pool test are: of the tests of its own kind, and of the others.
LEMMA PoolTestGains ==
    ASSUME NEW ph, NEW qh, NEW t \in PoolTests, NEW X, NEW k \in C!Kinds
    PROVE  /\ TestGain(ph, qh, t, PoolTestsOf(k), X) =
                  IF k = Kind(t) THEN TestGain(ph, qh, t, PoolTests, X) ELSE 0
           /\ TestGain(ph, qh, t, PoolTestsOf(k) \intersect RunAlways, X) =
                  IF k = Kind(t) /\ t \in RunAlways THEN TestGain(ph, qh, t, PoolTests, X) ELSE 0
           /\ TestGain(ph, qh, t, Planned, X) = TestGain(ph, qh, t, PoolTests, X)
<1>1. t \in PoolTestsOf(k) <=> k = Kind(t)
  BY DEF PoolTestsOf
<1>2. t \in Planned
  BY TestSets
<1> QED BY <1>1, <1>2 DEF TestGain

LEMMA KindGain ==
    ASSUME NEW ph, NEW qh, NEW t \in PoolTests, NEW X, NEW k \in C!Kinds
    PROVE  TestGain(ph, qh, t, PoolTestsOf(k), X) =
               IF k = Kind(t) THEN TestGain(ph, qh, t, PoolTests, X) ELSE 0
BY DEF PoolTestsOf, TestGain

\* A step that leaves the pool alone.
Unmoved(ws, vs, w, cancels) ==
    /\ SessionGain(ws, vs, w, Open) = 0 /\ SessionGain(ws, vs, w, InCreation) = 0
    /\ SessionGain(ws, vs, w, InReset) = 0 \/ (cancels /\ SessionGain(ws, vs, w, InReset) = -1)
    /\ cancels \/ SessionGain(ws, vs, w, InTest) = 0

Passed(ph, qh, t, keeps, cancels) ==
    \/ qh = ph
    \/ /\ t \in Tests \ PoolTests
       /\ qh[t] \in Answered
    \/ /\ t \in PoolTests /\ ph[t] = "queued" /\ qh[t] = "done"
       /\ cancels \/ (~keeps /\ t \notin RunAlways)

LEMMA QuietTally ==
    ASSUME NEW p, NEW ws, NEW n, NEW ph, NEW keep, NEW cancel,
           Counted(ws, n, ph, keep, cancel), Tallied(p, ws, n, ph, keep, cancel),
           NEW keeps \in BOOLEAN, NEW cancels \in BOOLEAN, cancel => cancels, keeps => keep,
           NEW vs \in Seq(WorkerShape), NEW w, OneSession(ws, vs, w), Unmoved(ws, vs, w, cancels),
           NEW qh \in [Tests -> Phases], NEW t, OneTest(ph, qh, t), Passed(ph, qh, t, keeps, cancels)
    PROVE  Tallied(p, vs, n, qh, keeps, cancels)
<1>0. /\ \A X \in {Open, InCreation} : SessionGain(ws, vs, w, X) = 0
      /\ SessionGain(ws, vs, w, InReset) = 0 \/ (cancels /\ SessionGain(ws, vs, w, InReset) = -1)
      /\ cancels \/ SessionGain(ws, vs, w, InTest) = 0
  BY DEF Unmoved
<1>10. \/ qh = ph
       \/ /\ t \in Tests \ PoolTests
          /\ qh[t] \in Answered
       \/ /\ t \in PoolTests /\ ph[t] = "queued" /\ qh[t] = "done"
          /\ cancels \/ (~keeps /\ t \notin RunAlways)
  BY DEF Passed
<1>1. p \in Pools /\ p \in PoolShape /\ p.upcoming \in C!Tally /\ p.upcomingAlways \in C!Tally
  BY DEF Tallied, Pools, PoolShape, C!Tally
<1>2. /\ p.alive \in Nat /\ p.creating \in Nat /\ p.running \in Nat /\ p.resetting \in Nat
      /\ \A k \in C!Kinds : /\ p.waiting[k] \in Nat /\ p.upcoming[k] \in Nat
                            /\ p.upcomingAlways[k] \in Nat
  BY <1>1 DEF Pools, C!Tally
<1>3. /\ TestGain(ph, qh, t, PoolTests, {"running"}) = 0
      /\ \A k \in C!Kinds : TestGain(ph, qh, t, PoolTestsOf(k), {"waiting"}) = 0
      /\ TestGain(ph, qh, t, Planned, Begun) >= 0
      /\ TestGain(ph, qh, t, Planned, Answered) >= 0
      /\ ~cancels => \A k \in C!Kinds :
            /\ keeps => TestGain(ph, qh, t, PoolTestsOf(k), {"queued"}) = 0
            /\ TestGain(ph, qh, t, PoolTestsOf(k) \intersect RunAlways, {"queued"}) = 0
  <2>1. CASE qh = ph
    BY <2>1 DEF TestGain
  <2>2. CASE t \in Tests \ PoolTests /\ qh[t] \in Answered
    <3>1. \A k : t \notin PoolTestsOf(k)
      BY <2>2, TestSets
    <3> QED BY <2>2, <3>1 DEF TestGain, Answered, Begun
  <2>3. CASE /\ t \in PoolTests /\ ph[t] = "queued" /\ qh[t] = "done"
             /\ cancels \/ (~keeps /\ t \notin RunAlways)
    BY <2>3, TestSets DEF TestGain, Answered, Begun, Phases
  <2> QED BY <1>10, <2>1, <2>2, <2>3
<1>4. Unused(p) \in Int
  BY <1>1, UnusedFacts
<1>5. p.closed \in BOOLEAN
  BY <1>1 DEF Pools
<1>6. /\ SessionGain(ws, vs, w, Open) = 0 /\ SessionGain(ws, vs, w, InCreation) = 0
      /\ SessionGain(ws, vs, w, InReset) \in {-1, 0}
      /\ ~cancels => /\ SessionGain(ws, vs, w, InReset) = 0
                     /\ SessionGain(ws, vs, w, InTest) = 0
  BY <1>0
<1>7. TestGain(ph, qh, t, Planned, Answered) \in Int
  BY TestGains
<1>8. Adjusted(p, ws, ph, p, vs, qh, w, t, keeps, cancels)
  <2>1. /\ p.alive = p.alive + SessionGain(ws, vs, w, Open)
        /\ p.creating = p.creating + SessionGain(ws, vs, w, InCreation)
        /\ p.running = p.running + TestGain(ph, qh, t, PoolTests, {"running"})
        /\ p.resetting >= p.resetting + SessionGain(ws, vs, w, InReset)
    BY <1>2, <1>3, <1>6
  <2>2. \A k \in C!Kinds :
           p.waiting[k] = p.waiting[k] + TestGain(ph, qh, t, PoolTestsOf(k), {"waiting"})
    BY <1>2, <1>3
  <2>3. ASSUME ~cancels
        PROVE  /\ p.resetting = p.resetting + SessionGain(ws, vs, w, InReset)
               /\ p.running = p.running + SessionGain(ws, vs, w, InTest)
               /\ \A k \in C!Kinds :
                     /\ keeps => p.upcoming[k] =
                            p.upcoming[k] + TestGain(ph, qh, t, PoolTestsOf(k), {"queued"})
                     /\ p.upcomingAlways[k] = p.upcomingAlways[k]
                            + TestGain(ph, qh, t, PoolTestsOf(k) \intersect RunAlways, {"queued"})
    BY <1>2, <1>3, <1>6, <2>3
  <2>4. ~p.closed => /\ ~p.closed
                     /\ Unused(p) + TestGain(ph, qh, t, Planned, Answered) >= Unused(p)
    BY <1>3, <1>4, <1>7
  <2> QED BY <1>3, <2>1, <2>2, <2>3, <2>4 DEF Adjusted
<1>9. /\ ws \in Seq(WorkerShape) /\ n \in Nat /\ ph \in [Tests -> Phases]
      /\ keep \in BOOLEAN /\ cancel \in BOOLEAN
  BY DEF Counted
<1> QED BY <1>1, <1>8, <1>9, TallyStep

\* A test of the pool registers: it waits.
Registered(p, q, t) ==
    /\ q.idle = p.idle /\ q.creating = p.creating /\ q.resetting = p.resetting
    /\ q.running = p.running /\ q.alive = p.alive /\ q.closed = p.closed
    /\ q.waiting = [p.waiting EXCEPT ![Kind(t)] = @ + 1]
    /\ q.upcoming = [p.upcoming EXCEPT ![Kind(t)] = C!Monus(@, 1)]
    /\ q.upcomingAlways =
           [p.upcomingAlways EXCEPT ![Kind(t)] = IF t \in RunAlways THEN C!Monus(@, 1) ELSE @]

LEMMA RegisterTally ==
    ASSUME NEW p, NEW ws, NEW n, NEW ph, NEW keep, NEW cancel,
           Counted(ws, n, ph, keep, cancel), Tallied(p, ws, n, ph, keep, cancel),
           NEW keeps \in BOOLEAN, NEW cancels \in BOOLEAN, cancel => cancels, keeps => keep,
           NEW t \in PoolTests, ph[t] = "queued",
           NEW qh \in [Tests -> Phases], OneTest(ph, qh, t), qh[t] = "waiting",
           NEW q \in PoolShape, Registered(p, q, t)
    PROVE  Tallied(q, ws, n, qh, keeps, cancels)
<1>0. /\ q.idle = p.idle /\ q.creating = p.creating /\ q.resetting = p.resetting
      /\ q.running = p.running /\ q.alive = p.alive /\ q.closed = p.closed
      /\ q.waiting = [p.waiting EXCEPT ![Kind(t)] = @ + 1]
      /\ q.upcoming = [p.upcoming EXCEPT ![Kind(t)] = C!Monus(@, 1)]
      /\ q.upcomingAlways =
             [p.upcomingAlways EXCEPT ![Kind(t)] = IF t \in RunAlways THEN C!Monus(@, 1) ELSE @]
  BY DEF Registered
<1> USE <1>0
<1>1. p \in Pools /\ p \in PoolShape /\ p.upcoming \in C!Tally /\ p.upcomingAlways \in C!Tally
  BY DEF Tallied, Pools, PoolShape, C!Tally
<1>2. /\ p.alive \in Nat /\ p.creating \in Nat /\ p.running \in Nat /\ p.resetting \in Nat
      /\ \A k \in C!Kinds : /\ p.waiting[k] \in Nat /\ p.upcoming[k] \in Nat
                            /\ p.upcomingAlways[k] \in Nat
      /\ p.closed \in BOOLEAN
  BY <1>1 DEF Pools, C!Tally
<1>3. Kind(t) \in C!Kinds
  BY KindType
<1>4. \A k \in C!Kinds :
         /\ q.waiting[k] = p.waiting[k] + (IF k = Kind(t) THEN 1 ELSE 0)
         /\ q.upcoming[k] = IF k = Kind(t) THEN C!Monus(p.upcoming[k], 1) ELSE p.upcoming[k]
         /\ q.upcomingAlways[k] = IF k = Kind(t) /\ t \in RunAlways
                                  THEN C!Monus(p.upcomingAlways[k], 1) ELSE p.upcomingAlways[k]
  BY <1>1, <1>2, <1>3 DEF Pools, C!Tally
<1>5. q.upcoming \in C!Tally /\ q.upcomingAlways \in C!Tally
  <2>1. \A k \in C!Kinds : q.upcoming[k] \in Nat /\ q.upcomingAlways[k] \in Nat
    BY <1>2, <1>4 DEF C!Monus
  <2> QED BY <1>1, <2>1 DEF C!Tally
<1>6. /\ ws \in Seq(WorkerShape) /\ n \in Nat /\ ph \in [Tests -> Phases]
      /\ keep \in BOOLEAN /\ cancel \in BOOLEAN
  BY DEF Counted
<1>7. t \in Tests /\ qh[t] = "waiting" /\ OneTest(ph, qh, t)
  BY TestSets
<1>8. TestGain(ph, qh, t, PoolTests, {"running"}) = 0
  BY <1>7 DEF TestGain
<1>9. ASSUME NEW k \in C!Kinds
      PROVE  /\ q.waiting[k] = p.waiting[k] + TestGain(ph, qh, t, PoolTestsOf(k), {"waiting"})
  <2>1. TestGain(ph, qh, t, PoolTests, {"waiting"}) = 1
    BY <1>7 DEF TestGain
  <2>2. TestGain(ph, qh, t, PoolTestsOf(k), {"waiting"}) =
            IF k = Kind(t) THEN TestGain(ph, qh, t, PoolTests, {"waiting"}) ELSE 0
    BY KindGain
  <2> QED BY <1>4, <2>1, <2>2
<1>10. ASSUME ~cancels, NEW k \in C!Kinds
       PROVE  /\ keeps => q.upcoming[k] =
                     p.upcoming[k] + TestGain(ph, qh, t, PoolTestsOf(k), {"queued"})
              /\ q.upcomingAlways[k] = p.upcomingAlways[k]
                     + TestGain(ph, qh, t, PoolTestsOf(k) \intersect RunAlways, {"queued"})
  <2>1. TestGain(ph, qh, t, PoolTests, {"queued"}) = -1
    BY <1>7 DEF TestGain
  <2>2. /\ TestGain(ph, qh, t, PoolTestsOf(k), {"queued"}) = IF k = Kind(t) THEN -1 ELSE 0
        /\ TestGain(ph, qh, t, PoolTestsOf(k) \intersect RunAlways, {"queued"}) =
               IF k = Kind(t) /\ t \in RunAlways THEN -1 ELSE 0
    BY <2>1, PoolTestGains
  <2>3. ASSUME k = Kind(t), keeps PROVE p.upcoming[k] >= 1
    <3> DEFINE U == {u \in PoolTestsOf(k) : ph[u] \in {"queued"}}
    <3>1. p.upcoming[k] = Cardinality(U)
      BY <1>10, <2>3 DEF Tallied, CountTests
    <3>2. t \in U
      BY <2>3, TestSets
    <3>3. IsFiniteSet(U)
      <4>1. U \in SUBSET Tests
        BY TestSets
      <4> HIDE DEF U
      <4> QED BY <4>1, FS_Subset, TestsAssumption
    <3> HIDE DEF U
    <3>4. Cardinality(U) # 0 /\ Cardinality(U) \in Nat
      BY <3>2, <3>3, FS_EmptySet, FS_CardinalityType
    <3> QED BY <3>1, <3>4
  <2>4. ASSUME k = Kind(t), t \in RunAlways PROVE p.upcomingAlways[k] >= 1
    <3> DEFINE U == {u \in PoolTestsOf(k) \intersect RunAlways : ph[u] \in {"queued"}}
    <3>1. p.upcomingAlways[k] = Cardinality(U)
      BY <1>10, <2>4 DEF Tallied, CountTests
    <3>2. t \in U
      BY <2>4, TestSets
    <3>3. IsFiniteSet(U)
      <4>1. U \in SUBSET Tests
        BY TestSets
      <4> HIDE DEF U
      <4> QED BY <4>1, FS_Subset, TestsAssumption
    <3> HIDE DEF U
    <3>4. Cardinality(U) # 0 /\ Cardinality(U) \in Nat
      BY <3>2, <3>3, FS_EmptySet, FS_CardinalityType
    <3> QED BY <3>1, <3>4
  <2>5. p.upcoming[k] \in Nat /\ p.upcomingAlways[k] \in Nat
    BY <1>2
  <2>6. /\ q.upcoming[k] = IF k = Kind(t) THEN C!Monus(p.upcoming[k], 1) ELSE p.upcoming[k]
        /\ q.upcomingAlways[k] = IF k = Kind(t) /\ t \in RunAlways
                                 THEN C!Monus(p.upcomingAlways[k], 1) ELSE p.upcomingAlways[k]
    BY <1>4
  <2>7. keeps => q.upcoming[k] = p.upcoming[k] + TestGain(ph, qh, t, PoolTestsOf(k), {"queued"})
    BY <2>2, <2>3, <2>5, <2>6 DEF C!Monus
  <2>8. q.upcomingAlways[k] = p.upcomingAlways[k]
            + TestGain(ph, qh, t, PoolTestsOf(k) \intersect RunAlways, {"queued"})
    BY <2>2, <2>4, <2>5, <2>6 DEF C!Monus
  <2> QED BY <2>7, <2>8
<1>11. /\ TestGain(ph, qh, t, Planned, Begun) >= 0
       /\ TestGain(ph, qh, t, Planned, Answered) = 0
  BY <1>7 DEF TestGain, Begun, Answered, Phases
<1>12. Unused(q) = Unused(p) /\ Unused(p) \in Int
  BY <1>1, UnusedFacts DEF Unused
<1>13. \A X : SessionGain(ws, ws, Pool, X) = 0
  BY SessionGains
<1>14. Adjusted(p, ws, ph, q, ws, qh, Pool, t, keeps, cancels)
  BY <1>2, <1>8, <1>9, <1>10, <1>11, <1>12, <1>13 DEF Adjusted
<1>15. OneSession(ws, ws, Pool)
  BY DEF OneSession
<1> QED BY <1>5, <1>6, <1>7, <1>14, <1>15, TallyStep

\* A test of `kind` stops waiting in pool p, and n tests start.
WaitOver(p, q, kind, n) ==
    /\ q.creating = p.creating /\ q.resetting = p.resetting /\ q.alive = p.alive
    /\ q.running = p.running + n
    /\ q.waiting = [p.waiting EXCEPT ![kind] = @ - 1]
    /\ q.upcoming = p.upcoming /\ q.upcomingAlways = p.upcomingAlways
    /\ q.closed = p.closed
    /\ Unused(q) + 1 >= Unused(p)

\* A test stops waiting without a session: it gives up, or takes the ticket of a failed creation.
LEMMA AnsweredTally ==
    ASSUME NEW p, NEW ws, NEW n, NEW ph, NEW keep, NEW cancel,
           Counted(ws, n, ph, keep, cancel), Tallied(p, ws, n, ph, keep, cancel),
           NEW keeps \in BOOLEAN, NEW cancels \in BOOLEAN, cancel => cancels, keeps => keep,
           NEW t \in PoolTests, ph[t] = "waiting",
           NEW qh \in [Tests -> Phases], OneTest(ph, qh, t), qh[t] = "done",
           NEW q \in PoolShape, WaitOver(p, q, Kind(t), 0)
    PROVE  Tallied(q, ws, n, qh, keeps, cancels)
<1>0. /\ q.creating = p.creating /\ q.resetting = p.resetting /\ q.alive = p.alive
      /\ q.running = p.running
      /\ q.waiting = [p.waiting EXCEPT ![Kind(t)] = @ - 1]
      /\ q.upcoming = p.upcoming /\ q.upcomingAlways = p.upcomingAlways
      /\ q.closed = p.closed
      /\ Unused(q) + 1 >= Unused(p)
  BY DEF WaitOver, Tallied, Pools
<1> USE <1>0
<1>1. p \in Pools /\ p \in PoolShape /\ p.upcoming \in C!Tally /\ p.upcomingAlways \in C!Tally
  BY DEF Tallied, Pools, PoolShape, C!Tally
<1>2. /\ p.alive \in Nat /\ p.creating \in Nat /\ p.running \in Nat /\ p.resetting \in Nat
      /\ \A k \in C!Kinds : /\ p.waiting[k] \in Nat /\ p.upcoming[k] \in Nat
                            /\ p.upcomingAlways[k] \in Nat
      /\ p.closed \in BOOLEAN
  BY <1>1 DEF Pools, C!Tally
<1>3. Kind(t) \in C!Kinds
  BY KindType
<1>4. \A k \in C!Kinds : q.waiting[k] = p.waiting[k] - (IF k = Kind(t) THEN 1 ELSE 0)
  BY <1>1, <1>2, <1>3 DEF Pools, C!Tally
<1>6. /\ ws \in Seq(WorkerShape) /\ n \in Nat /\ ph \in [Tests -> Phases]
      /\ keep \in BOOLEAN /\ cancel \in BOOLEAN
  BY DEF Counted
<1>7. t \in Tests /\ qh[t] = "done" /\ OneTest(ph, qh, t)
  BY TestSets
<1>8. TestGain(ph, qh, t, PoolTests, {"running"}) = 0
  BY <1>7 DEF TestGain
<1>9. ASSUME NEW k \in C!Kinds
      PROVE  q.waiting[k] = p.waiting[k] + TestGain(ph, qh, t, PoolTestsOf(k), {"waiting"})
  <2>1. TestGain(ph, qh, t, PoolTests, {"waiting"}) = -1
    BY <1>7 DEF TestGain
  <2>2. TestGain(ph, qh, t, PoolTestsOf(k), {"waiting"}) =
            IF k = Kind(t) THEN TestGain(ph, qh, t, PoolTests, {"waiting"}) ELSE 0
    BY KindGain
  <2> QED BY <1>2, <1>4, <2>1, <2>2
<1>10. ASSUME NEW k \in C!Kinds
       PROVE  /\ TestGain(ph, qh, t, PoolTestsOf(k), {"queued"}) = 0
              /\ TestGain(ph, qh, t, PoolTestsOf(k) \intersect RunAlways, {"queued"}) = 0
  BY <1>7 DEF TestGain
<1>11. /\ TestGain(ph, qh, t, Planned, Begun) >= 0
       /\ TestGain(ph, qh, t, Planned, Answered) = 1
  BY <1>7, TestSets DEF TestGain, Begun, Answered, Phases
<1>12. Unused(p) \in Int /\ Unused(q) \in Int
  BY <1>1, UnusedFacts
<1>13. \A X : SessionGain(ws, ws, Pool, X) = 0
  BY SessionGains
<1>14. Adjusted(p, ws, ph, q, ws, qh, Pool, t, keeps, cancels)
  BY <1>2, <1>8, <1>9, <1>10, <1>11, <1>12, <1>13 DEF Adjusted
<1>15. OneSession(ws, ws, Pool)
  BY DEF OneSession
<1> QED BY <1>1, <1>6, <1>7, <1>14, <1>15, TallyStep

\* A test takes the ticket of session w, which starts its body; if w was dropped since, the run
\* was cancelled.
Starts(ws, vs, w, cancels) ==
    \/ cancels /\ vs = ws
    \/ ws[w].owner = Pool /\ vs[w].owner = Pool
       /\ ws[w].state = "offered" /\ vs[w].state = "running"

LEMMA StartedTally ==
    ASSUME NEW p, NEW ws, NEW n, NEW ph, NEW keep, NEW cancel,
           Counted(ws, n, ph, keep, cancel), Tallied(p, ws, n, ph, keep, cancel),
           NEW keeps \in BOOLEAN, NEW cancels \in BOOLEAN, cancel => cancels, keeps => keep,
           NEW vs \in Seq(WorkerShape), NEW w, OneSession(ws, vs, w),
           Starts(ws, vs, w, cancels),
           NEW t \in PoolTests, ph[t] = "waiting",
           NEW qh \in [Tests -> Phases], OneTest(ph, qh, t), qh[t] = "running",
           NEW q \in PoolShape, WaitOver(p, q, Kind(t), 1)
    PROVE  Tallied(q, vs, n, qh, keeps, cancels)
<1>0. /\ q.creating = p.creating /\ q.resetting = p.resetting /\ q.alive = p.alive
      /\ q.running = p.running + 1
      /\ q.waiting = [p.waiting EXCEPT ![Kind(t)] = @ - 1]
      /\ q.upcoming = p.upcoming /\ q.upcomingAlways = p.upcomingAlways
      /\ q.closed = p.closed
      /\ Unused(q) + 1 >= Unused(p)
  BY DEF WaitOver
<1> USE <1>0
<1>1. p \in Pools /\ p \in PoolShape /\ p.upcoming \in C!Tally /\ p.upcomingAlways \in C!Tally
  BY DEF Tallied, Pools, PoolShape, C!Tally
<1>2. /\ p.alive \in Nat /\ p.creating \in Nat /\ p.running \in Nat /\ p.resetting \in Nat
      /\ \A k \in C!Kinds : /\ p.waiting[k] \in Nat /\ p.upcoming[k] \in Nat
                            /\ p.upcomingAlways[k] \in Nat
      /\ p.closed \in BOOLEAN
  BY <1>1 DEF Pools, C!Tally
<1>3. Kind(t) \in C!Kinds
  BY KindType
<1>4. \A k \in C!Kinds : q.waiting[k] = p.waiting[k] - (IF k = Kind(t) THEN 1 ELSE 0)
  BY <1>1, <1>2, <1>3 DEF Pools, C!Tally
<1>6. /\ ws \in Seq(WorkerShape) /\ n \in Nat /\ ph \in [Tests -> Phases]
      /\ keep \in BOOLEAN /\ cancel \in BOOLEAN
  BY DEF Counted
<1>7. t \in Tests /\ qh[t] = "running" /\ OneTest(ph, qh, t)
  BY TestSets
<1>8. TestGain(ph, qh, t, PoolTests, {"running"}) = 1
  BY <1>7 DEF TestGain
<1>9. ASSUME NEW k \in C!Kinds
      PROVE  q.waiting[k] = p.waiting[k] + TestGain(ph, qh, t, PoolTestsOf(k), {"waiting"})
  <2>1. TestGain(ph, qh, t, PoolTests, {"waiting"}) = -1
    BY <1>7 DEF TestGain
  <2>2. TestGain(ph, qh, t, PoolTestsOf(k), {"waiting"}) =
            IF k = Kind(t) THEN TestGain(ph, qh, t, PoolTests, {"waiting"}) ELSE 0
    BY KindGain
  <2> QED BY <1>2, <1>4, <2>1, <2>2
<1>10. ASSUME NEW k \in C!Kinds
       PROVE  /\ TestGain(ph, qh, t, PoolTestsOf(k), {"queued"}) = 0
              /\ TestGain(ph, qh, t, PoolTestsOf(k) \intersect RunAlways, {"queued"}) = 0
  BY <1>7 DEF TestGain
<1>11. /\ TestGain(ph, qh, t, Planned, Begun) >= 0
       /\ TestGain(ph, qh, t, Planned, Answered) = 1
  BY <1>7, TestSets DEF TestGain, Begun, Answered, Phases
<1>12. Unused(p) \in Int /\ Unused(q) \in Int
  BY <1>1, UnusedFacts
<1>13. /\ SessionGain(ws, vs, w, Open) = 0 /\ SessionGain(ws, vs, w, InCreation) = 0
       /\ SessionGain(ws, vs, w, InReset) = 0
       /\ ~cancels => SessionGain(ws, vs, w, InTest) = 1
  <2>1. CASE cancels /\ vs = ws
    BY <2>1, SessionGains
  <2>2. CASE ws[w].owner = Pool /\ vs[w].owner = Pool
             /\ ws[w].state = "offered" /\ vs[w].state = "running"
    BY <2>2 DEF SessionGain, Open, InCreation, InReset, InTest, States
  <2> QED BY <2>1, <2>2 DEF Starts
<1>14. Adjusted(p, ws, ph, q, vs, qh, w, t, keeps, cancels)
  <2>1. /\ q.alive = p.alive + SessionGain(ws, vs, w, Open)
        /\ q.creating = p.creating + SessionGain(ws, vs, w, InCreation)
        /\ q.resetting = p.resetting + SessionGain(ws, vs, w, InReset)
        /\ q.running = p.running + TestGain(ph, qh, t, PoolTests, {"running"})
    BY <1>2, <1>8, <1>13
  <2>2. ~cancels => q.running = p.running + SessionGain(ws, vs, w, InTest)
    BY <1>2, <1>13
  <2>3. ASSUME NEW k \in C!Kinds
        PROVE  /\ q.upcoming[k] =
                      p.upcoming[k] + TestGain(ph, qh, t, PoolTestsOf(k), {"queued"})
               /\ q.upcomingAlways[k] = p.upcomingAlways[k]
                      + TestGain(ph, qh, t, PoolTestsOf(k) \intersect RunAlways, {"queued"})
    <3>1. /\ TestGain(ph, qh, t, PoolTestsOf(k), {"queued"}) = 0
          /\ TestGain(ph, qh, t, PoolTestsOf(k) \intersect RunAlways, {"queued"}) = 0
      BY <1>10
    <3>2. p.upcoming[k] \in Nat /\ p.upcomingAlways[k] \in Nat
      BY <1>2
    <3> QED BY <3>1, <3>2
  <2>4. q.resetting >= p.resetting + SessionGain(ws, vs, w, InReset)
    BY <1>2, <1>13
  <2> QED BY <1>9, <1>11, <1>12, <2>1, <2>2, <2>3, <2>4 DEF Adjusted
<1> QED BY <1>1, <1>6, <1>7, <1>14, TallyStep

\* The body of test t is over, and the session it ran in is reset or quits; or the run was
\* cancelled, and t goes without a session.
BodyOver(p, q, ws, vs, w, t) ==
    /\ q.idle = p.idle /\ q.creating = p.creating
    /\ q.resetting = p.resetting + SessionGain(ws, vs, w, InReset)
    /\ q.running = p.running - (IF t \in PoolTests THEN 1 ELSE 0)
    /\ q.alive = p.alive /\ q.waiting = p.waiting /\ q.upcoming = p.upcoming
    /\ q.upcomingAlways = p.upcomingAlways /\ q.closed = p.closed

SessionLeft(ws, vs, w, t, cancels) ==
    /\ SessionGain(ws, vs, w, Open) = 0 /\ SessionGain(ws, vs, w, InCreation) = 0
    /\ cancels \/ SessionGain(ws, vs, w, InTest) = (IF t \in PoolTests THEN -1 ELSE 0)

LEMMA LeftTally ==
    ASSUME NEW p, NEW ws, NEW n, NEW ph, NEW keep, NEW cancel,
           Counted(ws, n, ph, keep, cancel), Tallied(p, ws, n, ph, keep, cancel),
           NEW keeps \in BOOLEAN, NEW cancels \in BOOLEAN, cancel => cancels, keeps => keep,
           NEW vs \in Seq(WorkerShape), NEW w, OneSession(ws, vs, w),
           NEW t \in Tests, ph[t] = "running", SessionLeft(ws, vs, w, t, cancels),
           NEW qh \in [Tests -> Phases], OneTest(ph, qh, t), qh[t] = "done",
           NEW q \in PoolShape, BodyOver(p, q, ws, vs, w, t)
    PROVE  Tallied(q, vs, n, qh, keeps, cancels)
<1>0. /\ q.idle = p.idle /\ q.creating = p.creating
      /\ q.resetting = p.resetting + SessionGain(ws, vs, w, InReset)
      /\ q.running = p.running - (IF t \in PoolTests THEN 1 ELSE 0)
      /\ q.alive = p.alive /\ q.waiting = p.waiting /\ q.upcoming = p.upcoming
      /\ q.upcomingAlways = p.upcomingAlways /\ q.closed = p.closed
      /\ SessionGain(ws, vs, w, Open) = 0 /\ SessionGain(ws, vs, w, InCreation) = 0
      /\ cancels \/ SessionGain(ws, vs, w, InTest) = (IF t \in PoolTests THEN -1 ELSE 0)
  BY DEF BodyOver, SessionLeft
<1> USE <1>0
<1>1. p \in Pools /\ p \in PoolShape /\ p.upcoming \in C!Tally /\ p.upcomingAlways \in C!Tally
  BY DEF Tallied, Pools, PoolShape, C!Tally
<1>2. /\ p.alive \in Nat /\ p.creating \in Nat /\ p.running \in Nat /\ p.resetting \in Nat
      /\ \A k \in C!Kinds : /\ p.waiting[k] \in Nat /\ p.upcoming[k] \in Nat
                            /\ p.upcomingAlways[k] \in Nat
      /\ p.closed \in BOOLEAN
  BY <1>1 DEF Pools, C!Tally
<1>3. /\ ws \in Seq(WorkerShape) /\ n \in Nat /\ ph \in [Tests -> Phases]
      /\ keep \in BOOLEAN /\ cancel \in BOOLEAN
  BY DEF Counted
<1>4. TestGain(ph, qh, t, PoolTests, {"running"}) = IF t \in PoolTests THEN -1 ELSE 0
  BY DEF TestGain
<1>5. ASSUME NEW k \in C!Kinds
      PROVE  /\ TestGain(ph, qh, t, PoolTestsOf(k), {"waiting"}) = 0
             /\ TestGain(ph, qh, t, PoolTestsOf(k), {"queued"}) = 0
             /\ TestGain(ph, qh, t, PoolTestsOf(k) \intersect RunAlways, {"queued"}) = 0
  BY DEF TestGain
<1>6. /\ TestGain(ph, qh, t, Planned, Begun) >= 0
      /\ TestGain(ph, qh, t, Planned, Answered) = 0
  BY DEF TestGain, Begun, Answered, Phases
<1>7. Unused(q) = Unused(p) /\ Unused(p) \in Int
  BY <1>1, UnusedFacts DEF Unused
<1>8. SessionGain(ws, vs, w, InReset) \in Int /\ SessionGain(ws, vs, w, InTest) \in Int
  BY SessionGains
<1>9. Adjusted(p, ws, ph, q, vs, qh, w, t, keeps, cancels)
  <2>1. /\ q.alive = p.alive + SessionGain(ws, vs, w, Open)
        /\ q.creating = p.creating + SessionGain(ws, vs, w, InCreation)
        /\ q.running = p.running + TestGain(ph, qh, t, PoolTests, {"running"})
        /\ q.resetting >= p.resetting + SessionGain(ws, vs, w, InReset)
    BY <1>2, <1>4, <1>8
  <2>2. ~cancels => q.running = p.running + SessionGain(ws, vs, w, InTest)
    BY <1>2
  <2>3. ASSUME NEW k \in C!Kinds
        PROVE  /\ q.waiting[k] = p.waiting[k] + TestGain(ph, qh, t, PoolTestsOf(k), {"waiting"})
               /\ q.upcoming[k] =
                      p.upcoming[k] + TestGain(ph, qh, t, PoolTestsOf(k), {"queued"})
               /\ q.upcomingAlways[k] = p.upcomingAlways[k]
                      + TestGain(ph, qh, t, PoolTestsOf(k) \intersect RunAlways, {"queued"})
    <3>1. /\ p.upcoming[k] \in Nat /\ p.upcomingAlways[k] \in Nat /\ p.waiting[k] \in Nat
      BY <1>2
    <3>2. /\ TestGain(ph, qh, t, PoolTestsOf(k), {"waiting"}) = 0
          /\ TestGain(ph, qh, t, PoolTestsOf(k), {"queued"}) = 0
          /\ TestGain(ph, qh, t, PoolTestsOf(k) \intersect RunAlways, {"queued"}) = 0
      BY <1>5
    <3> QED BY <3>1, <3>2
  <2>4. \A k \in C!Kinds :
           q.waiting[k] = p.waiting[k] + TestGain(ph, qh, t, PoolTestsOf(k), {"waiting"})
    BY <2>3
  <2>5. ~cancels =>
           /\ q.resetting = p.resetting + SessionGain(ws, vs, w, InReset)
           /\ q.running = p.running + SessionGain(ws, vs, w, InTest)
           /\ \A k \in C!Kinds :
                 /\ keeps => q.upcoming[k] =
                        p.upcoming[k] + TestGain(ph, qh, t, PoolTestsOf(k), {"queued"})
                 /\ q.upcomingAlways[k] = p.upcomingAlways[k]
                        + TestGain(ph, qh, t, PoolTestsOf(k) \intersect RunAlways, {"queued"})
    BY <2>2, <2>3
  <2>6. ~q.closed => /\ ~p.closed
                     /\ Unused(q) + TestGain(ph, qh, t, Planned, Answered) >= Unused(p)
    BY <1>6, <1>7
  <2> QED BY <1>6, <2>1, <2>4, <2>5, <2>6 DEF Adjusted
<1> QED BY <1>1, <1>3, <1>9, TallyStep

\* A session changes its state, without a test.
Followed(p, q, ws, vs, w) ==
    /\ q.alive = p.alive + SessionGain(ws, vs, w, Open)
    /\ q.creating = p.creating + SessionGain(ws, vs, w, InCreation)
    /\ q.resetting = p.resetting + SessionGain(ws, vs, w, InReset)
    /\ q.running = p.running /\ q.waiting = p.waiting /\ q.upcoming = p.upcoming
    /\ q.upcomingAlways = p.upcomingAlways /\ q.closed = p.closed
    /\ ~p.closed => Unused(q) >= Unused(p)

LEMMA SessionTally ==
    ASSUME NEW p, NEW ws, NEW n, NEW ph, NEW keep, NEW cancel,
           Counted(ws, n, ph, keep, cancel), Tallied(p, ws, n, ph, keep, cancel),
           NEW keeps \in BOOLEAN, keeps => keep,
           NEW vs \in Seq(WorkerShape), NEW w, OneSession(ws, vs, w),
           SessionGain(ws, vs, w, InTest) = 0,
           NEW q \in PoolShape, Followed(p, q, ws, vs, w)
    PROVE  Tallied(q, vs, n, ph, keeps, cancel)
<1>0. /\ q.alive = p.alive + SessionGain(ws, vs, w, Open)
      /\ q.creating = p.creating + SessionGain(ws, vs, w, InCreation)
      /\ q.resetting = p.resetting + SessionGain(ws, vs, w, InReset)
      /\ q.running = p.running /\ q.waiting = p.waiting /\ q.upcoming = p.upcoming
      /\ q.upcomingAlways = p.upcomingAlways /\ q.closed = p.closed
      /\ ~p.closed => Unused(q) >= Unused(p)
  BY DEF Followed
<1> USE <1>0
<1>1. p \in Pools /\ p \in PoolShape /\ p.upcoming \in C!Tally /\ p.upcomingAlways \in C!Tally
  BY DEF Tallied, Pools, PoolShape, C!Tally
<1>2. /\ p.alive \in Nat /\ p.creating \in Nat /\ p.running \in Nat /\ p.resetting \in Nat
      /\ \A k \in C!Kinds : /\ p.waiting[k] \in Nat /\ p.upcoming[k] \in Nat
                            /\ p.upcomingAlways[k] \in Nat
      /\ p.closed \in BOOLEAN
  BY <1>1 DEF Pools, C!Tally
<1>3. /\ ws \in Seq(WorkerShape) /\ n \in Nat /\ ph \in [Tests -> Phases]
      /\ keep \in BOOLEAN /\ cancel \in BOOLEAN
  BY DEF Counted
<1>4. ASSUME NEW T, NEW X PROVE TestGain(ph, ph, Pool, T, X) = 0
  BY DEF TestGain
<1>5. Unused(p) \in Int /\ Unused(q) \in Int
  BY <1>1, UnusedFacts
<1>6. SessionGain(ws, vs, w, InReset) \in Int
  BY SessionGains
<1>7. Adjusted(p, ws, ph, q, vs, ph, w, Pool, keeps, cancel)
  <2>1. /\ q.alive = p.alive + SessionGain(ws, vs, w, Open)
        /\ q.creating = p.creating + SessionGain(ws, vs, w, InCreation)
        /\ q.running = p.running + TestGain(ph, ph, Pool, PoolTests, {"running"})
        /\ q.resetting >= p.resetting + SessionGain(ws, vs, w, InReset)
        /\ q.running = p.running + SessionGain(ws, vs, w, InTest)
    BY <1>2, <1>4, <1>6
  <2>2. ASSUME NEW k \in C!Kinds
        PROVE  /\ q.waiting[k] = p.waiting[k] + TestGain(ph, ph, Pool, PoolTestsOf(k), {"waiting"})
               /\ q.upcoming[k] =
                      p.upcoming[k] + TestGain(ph, ph, Pool, PoolTestsOf(k), {"queued"})
               /\ q.upcomingAlways[k] = p.upcomingAlways[k]
                      + TestGain(ph, ph, Pool, PoolTestsOf(k) \intersect RunAlways, {"queued"})
    <3>1. /\ p.upcoming[k] \in Nat /\ p.upcomingAlways[k] \in Nat /\ p.waiting[k] \in Nat
      BY <1>2
    <3> QED BY <1>4, <3>1
  <2>3. \A k \in C!Kinds :
           q.waiting[k] = p.waiting[k] + TestGain(ph, ph, Pool, PoolTestsOf(k), {"waiting"})
    BY <2>2
  <2>4. ~cancel =>
           /\ q.resetting = p.resetting + SessionGain(ws, vs, w, InReset)
           /\ q.running = p.running + SessionGain(ws, vs, w, InTest)
           /\ \A k \in C!Kinds :
                 /\ keeps => q.upcoming[k] =
                        p.upcoming[k] + TestGain(ph, ph, Pool, PoolTestsOf(k), {"queued"})
                 /\ q.upcomingAlways[k] = p.upcomingAlways[k]
                        + TestGain(ph, ph, Pool, PoolTestsOf(k) \intersect RunAlways, {"queued"})
    BY <2>1, <2>2
  <2>5. /\ TestGain(ph, ph, Pool, Planned, Begun) >= 0
        /\ TestGain(ph, ph, Pool, Planned, Answered) = 0
    BY <1>4
  <2>6. ~q.closed => /\ ~p.closed
                     /\ Unused(q) + TestGain(ph, ph, Pool, Planned, Answered) >= Unused(p)
    BY <1>5, <2>5
  <2> QED BY <2>1, <2>3, <2>4, <2>5, <2>6 DEF Adjusted
<1>8. OneTest(ph, ph, Pool)
  BY DEF OneTest
<1>9. PICK cancels \in BOOLEAN : cancels = cancel
  BY <1>3
<1>10. Adjusted(p, ws, ph, q, vs, ph, w, Pool, keeps, cancels) /\ (cancel => cancels)
  BY <1>7, <1>9
<1>11. Tallied(q, vs, n, ph, keeps, cancels)
  BY <1>1, <1>3, <1>8, <1>10, TallyStep
<1> QED BY <1>9, <1>11

\* A test requests a session of its own.
LEMMA DedicatedTally ==
    ASSUME NEW p, NEW ws, NEW ph, NEW keep, NEW cancel,
           Counted(ws, 0, ph, keep, cancel), Tallied(p, ws, 0, ph, keep, cancel),
           NEW t \in Planned \ PoolTests, ph[t] = "queued",
           NEW qh \in [Tests -> Phases], OneTest(ph, qh, t), qh[t] = "requested",
           NEW vs \in Seq(WorkerShape), Joined(ws, vs, t, 1)
    PROVE  Tallied(p, vs, 0, qh, keep, cancel)
<1>1. /\ ws \in Seq(WorkerShape) /\ ph \in [Tests -> Phases] /\ Len(ws) \in Nat
      /\ t \in Tests /\ t # Pool
  BY TestsAssumption, TestSets DEF Counted
<1>2. ASSUME NEW X
      PROVE  Len(vs) = Len(ws) + 1 /\ CountSessions(vs, X) = CountSessions(ws, X)
  <2>1. CountSessions(ws, X) \in Nat
    BY <1>1, SessionsFinite
  <2>2. /\ Len(vs) = Len(ws) + 1
        /\ CountSessions(vs, X) = CountSessions(ws, X)
                                     + (IF t = Pool /\ "requested" \in X THEN 1 ELSE 0)
    BY <1>1, SessionsRequested
  <2> QED BY <1>1, <2>1, <2>2
<1>3. ASSUME NEW T \in SUBSET Tests, NEW X, t \notin T
      PROVE  CountTests(qh, T, X) = CountTests(ph, T, X)
  BY <1>1, <1>3, TestsGain DEF TestGain
<1>4. /\ CountTests(qh, Planned, Begun) = CountTests(ph, Planned, Begun) + 1
      /\ CountTests(ph, Planned, Begun) \in Nat
  <2>1. TestGain(ph, qh, t, Planned, Begun) = 1
    BY DEF TestGain, Begun, Phases
  <2> QED BY <1>1, <2>1, TestSets, TestsGain
<1>5. /\ CountTests(qh, Planned, Answered) = CountTests(ph, Planned, Answered) + 1
      /\ CountTests(ph, Planned, Answered) \in Nat
  <2>1. TestGain(ph, qh, t, Planned, Answered) = 1
    BY DEF TestGain, Begun, Answered, Phases
  <2> QED BY <1>1, <2>1, TestSets, TestsGain
<1>6. /\ t \notin PoolTests
      /\ \A k : t \notin PoolTestsOf(k) /\ t \notin PoolTestsOf(k) \intersect RunAlways
  BY TestSets
<1>7. /\ p.alive = CountSessions(vs, Open) + 0 /\ p.creating = CountSessions(vs, InCreation) + 0
      /\ p.resetting >= CountSessions(vs, InReset)
  BY <1>2 DEF Tallied
<1>8. p.running = CountTests(qh, PoolTests, {"running"})
  BY <1>3, <1>6, TestSets DEF Tallied
<1>9. ASSUME NEW k \in C!Kinds
      PROVE  p.waiting[k] = CountTests(qh, PoolTestsOf(k), {"waiting"})
  BY <1>3, <1>6, TestSets DEF Tallied
<1>10. ASSUME ~cancel
       PROVE  /\ p.resetting = CountSessions(vs, InReset)
              /\ p.running = CountSessions(vs, InTest)
              /\ \A k \in C!Kinds :
                    /\ keep => p.upcoming[k] = CountTests(qh, PoolTestsOf(k), {"queued"})
                    /\ p.upcomingAlways[k] =
                           CountTests(qh, PoolTestsOf(k) \intersect RunAlways, {"queued"})
  <2>1. ASSUME NEW k \in C!Kinds
        PROVE  /\ CountTests(qh, PoolTestsOf(k), {"queued"}) =
                      CountTests(ph, PoolTestsOf(k), {"queued"})
               /\ CountTests(qh, PoolTestsOf(k) \intersect RunAlways, {"queued"}) =
                      CountTests(ph, PoolTestsOf(k) \intersect RunAlways, {"queued"})
    BY <1>3, <1>6, TestSets
  <2> QED BY <1>2, <1>10, <2>1 DEF Tallied
<1>11. Len(vs) + 0 <= CountTests(qh, Planned, Begun) + Spare
  <2>1. Len(ws) + 0 <= CountTests(ph, Planned, Begun) + Spare
    BY DEF Tallied
  <2>2. Spare \in Nat
    BY SettingsAssumption
  <2>3. Len(vs) = Len(ws) + 1
    BY <1>2
  <2> QED BY ONLY <1>1, <1>4, <2>1, <2>2, <2>3
<1>12. p \in Pools
  BY DEF Tallied
<1>13. ~p.closed => Len(vs) + 0 <= Unused(p) + CountTests(qh, Planned, Answered)
  <2>1. ~p.closed => Len(ws) + 0 <= Unused(p) + CountTests(ph, Planned, Answered)
    BY DEF Tallied
  <2>2. p.closed \in BOOLEAN /\ Unused(p) \in Int
    BY <1>12, UnusedFacts DEF Pools, PoolShape, C!Tally
  <2> QED BY <1>1, <1>2, <1>5, <2>1, <2>2
<1> QED BY <1>7, <1>8, <1>9, <1>10, <1>11, <1>12, <1>13 DEF Tallied

-----------------------------------------------------------------------------
(* The pool is updated, with the sessions it requested.                    *)

LEMMA UpdateTally ==
    ASSUME NEW q, NEW open, NEW n, n = q.alive - open, NEW ws, NEW ph, NEW keep, NEW cancel,
           Counted(ws, n, ph, keep, cancel), Tallied(q, ws, n, ph, keep, cancel),
           requests \in Seq(Nat), Update(q, open, ws)
    PROVE  /\ Tallied(pool', workers', 0, ph, keep, cancel)
           /\ workers' \in Seq(WorkerShape) /\ Joined(ws, workers', Pool, n)
<1>1. pool' = q /\ Request(ws, Pool, n)
  BY DEF Update
<1>2. ws \in Seq(WorkerShape) /\ n \in Nat
  BY DEF Counted
<1>3. PICK owner \in {Pool} \union Tests : owner = Pool
  OBVIOUS
<1>4. Request(ws, owner, n)
  BY <1>1, <1>3
<1>5. /\ workers' \in Seq(WorkerShape)
      /\ DOMAIN workers' = 1 .. Len(ws) + n
      /\ \A w \in 1 .. Len(ws) : workers'[w] = ws[w]
      /\ \A w \in Len(ws) + 1 .. Len(ws) + n : workers'[w] = Hired(owner)
  BY <1>2, <1>4, RequestFacts
<1>6. PICK vs : vs = workers'
  OBVIOUS
<1>7. vs \in Seq(WorkerShape) /\ Joined(ws, vs, Pool, n)
  BY <1>3, <1>5, <1>6 DEF Joined
<1>8. Tallied(q, vs, 0, ph, keep, cancel)
  BY <1>7, HireTally
<1> QED BY <1>1, <1>6, <1>7, <1>8

LEMMA ReplenishUpdate ==
    ASSUME NEW p, NEW open, NEW n, n = p.alive - open, NEW ws, NEW ph, NEW keep, NEW cancel,
           Counted(ws, n, ph, keep, cancel), Tallied(p, ws, n, ph, keep, cancel),
           open \in Int, requests \in Seq(Nat), NEW k \in BOOLEAN, NEW c \in BOOLEAN,
           Update(Replenish(p, k, c), open, ws)
    PROVE  /\ Tallied(pool', workers', 0, ph, keep, cancel)
           /\ workers' \in Seq(WorkerShape)
           /\ \E m \in Nat : Joined(ws, workers', Pool, m)
<1>1. PICK q : q = Replenish(p, k, c)
  OBVIOUS
<1>2. q.alive - p.alive \in Nat /\ Tallied(q, ws, n + (q.alive - p.alive), ph, keep, cancel)
  BY <1>1, ReplenishTally
<1>3. PICK m : m = q.alive - open
  OBVIOUS
<1>4. p.alive \in Nat /\ q.alive \in Nat
  BY <1>2 DEF Tallied, Pools
<1>5. n + (q.alive - p.alive) = m /\ m \in Nat
  <2>1. n \in Nat
    BY DEF Counted
  <2> QED BY ONLY <1>2, <1>3, <1>4, <2>1, n = p.alive - open, open \in Int
<1>6. Counted(ws, m, ph, keep, cancel) /\ Tallied(q, ws, m, ph, keep, cancel)
  BY <1>2, <1>5 DEF Counted
<1>7. Update(q, open, ws)
  BY <1>1
<1>8. /\ Tallied(pool', workers', 0, ph, keep, cancel)
      /\ workers' \in Seq(WorkerShape) /\ Joined(ws, workers', Pool, m)
  BY <1>3, <1>6, <1>7, UpdateTally
<1> QED BY <1>5, <1>8

\* What take makes of the pool when it finds its ticket.
LEMMA ServedPool ==
    ASSUME NEW p \in PoolShape, NEW kind \in C!Kinds, NEW i \in 1 .. Len(p.idle),
           NEW s, s = Serve(p, kind, i)
    PROVE  /\ s \in PoolShape
           /\ s.creating = p.creating /\ s.resetting = p.resetting /\ s.alive = p.alive
           /\ s.upcoming = p.upcoming /\ s.upcomingAlways = p.upcomingAlways
           /\ s.closed = p.closed
           /\ s.waiting = [p.waiting EXCEPT ![kind] = @ - 1]
           /\ s.running = IF p.idle[i].sort = "failed" THEN p.running ELSE p.running + 1
           /\ Unused(s) + 1 >= Unused(p)
<1>1. /\ p.idle \in Queue /\ p.running \in Int /\ p.waiting \in [C!Kinds -> Int]
      /\ p.creating \in Int
  BY DEF PoolShape
<1>2. PICK r : r = RemoveAt(p.idle, i)
  OBVIOUS
<1>3. PICK waiting : waiting = [p.waiting EXCEPT ![kind] = @ - 1]
  OBVIOUS
<1>4. PICK running : running = IF p.idle[i].sort = "failed" THEN p.running ELSE p.running + 1
  OBVIOUS
<1>5. r \in Queue
  BY <1>1, <1>2, RemoveAtFacts
<1>6. waiting \in [C!Kinds -> Int] /\ running \in Int
  BY <1>1, <1>3, <1>4
<1>7. s = [p EXCEPT !.idle = r, !.waiting = waiting, !.running = running]
  BY <1>2, <1>3, <1>4 DEF Serve, PoolShape
<1>8. /\ s \in PoolShape /\ s.idle = r /\ s.waiting = waiting /\ s.running = running
      /\ s.creating = p.creating /\ s.resetting = p.resetting /\ s.alive = p.alive
      /\ s.upcoming = p.upcoming /\ s.upcomingAlways = p.upcomingAlways /\ s.closed = p.closed
  BY <1>5, <1>6, <1>7 DEF PoolShape
<1>9. Unused(s) + 1 >= Unused(p)
  <2>1. /\ OfSort(r, "created") =
               OfSort(p.idle, "created") - (IF p.idle[i].sort = "created" THEN 1 ELSE 0)
        /\ OfSort(r, "failed") =
               OfSort(p.idle, "failed") - (IF p.idle[i].sort = "failed" THEN 1 ELSE 0)
    BY <1>1, <1>2, RemovedTicket
  <2>2. OfSort(p.idle, "created") \in Nat /\ OfSort(p.idle, "failed") \in Nat
    BY <1>1, SortedTickets
  <2> QED BY <1>1, <1>8, <2>1, <2>2 DEF Unused
<1> QED BY <1>3, <1>4, <1>8, <1>9

-----------------------------------------------------------------------------
(* Where tests and sessions belong.                                        *)

\* A test that waits, or runs, was planned for the pool or for a session of its own.
TestPlaced(t, x) ==
    /\ x = "waiting" => t \in PoolTests
    /\ x \in {"requested", "refused"} => t \in Planned \ PoolTests
    /\ x = "running" => t \in Planned

TestsPlaced(ph) == \A t \in Tests : TestPlaced(t, ph[t])

\* A session is of the pool, or of a planned test of its own, and runs such tests.
SessionPlaced(self) ==
    /\ self.owner # Pool => self.owner \in Planned \ PoolTests
    /\ self.test # None => IF self.owner = Pool THEN self.test \in PoolTests
                                                ELSE self.test = self.owner
    /\ self.outcome \in {None} \union Outcomes
    /\ self.state = "checking" => "timedOut" \in Outcomes

SessionsPlaced(ws) == \A w \in DOMAIN ws : SessionPlaced(ws[w])

LEMMA PhasePlaced ==
    ASSUME NEW ph, TestsPlaced(ph), NEW qh, NEW t, OneTest(ph, qh, t),
           t \in Tests => TestPlaced(t, qh[t])
    PROVE  TestsPlaced(qh)
<1>1. CASE qh = ph
  BY <1>1
<1>2. CASE t \in Tests /\ \A u \in Tests : u # t => qh[u] = ph[u]
  BY <1>2 DEF TestsPlaced
<1> QED BY <1>1, <1>2 DEF OneTest

LEMMA SessionChangedPlaced ==
    ASSUME NEW ws, SessionsPlaced(ws), NEW vs, NEW w, OneSession(ws, vs, w),
           w \in DOMAIN ws => SessionPlaced(vs[w])
    PROVE  SessionsPlaced(vs)
<1>1. CASE vs = ws
  BY <1>1
<1>2. CASE /\ w \in DOMAIN ws /\ DOMAIN vs = DOMAIN ws
           /\ \A v \in DOMAIN ws : v # w => vs[v] = ws[v]
           /\ vs[w].owner = ws[w].owner
  BY <1>2 DEF SessionsPlaced
<1> QED BY <1>1, <1>2 DEF OneSession

LEMMA JoinedPlaced ==
    ASSUME NEW ws \in Seq(WorkerShape), SessionsPlaced(ws), NEW vs, NEW n \in Nat,
           NEW owner \in {Pool} \union (Planned \ PoolTests), Joined(ws, vs, owner, n)
    PROVE  SessionsPlaced(vs)
<1>1. DOMAIN ws = 1 .. Len(ws) /\ Len(ws) \in Nat
  OBVIOUS
<1>2. SessionPlaced(Hired(owner))
  BY DEF SessionPlaced, Hired
<1>3. ASSUME NEW w \in 1 .. Len(ws) + n PROVE SessionPlaced(vs[w])
  <2>1. CASE w \in 1 .. Len(ws)
    BY <1>1, <2>1 DEF Joined, SessionsPlaced
  <2>2. CASE w \notin 1 .. Len(ws)
    <3>1. w \in Len(ws) + 1 .. Len(ws) + n
      BY <1>1, <2>2
    <3> QED BY <1>2, <3>1 DEF Joined
  <2> QED BY <2>1, <2>2
<1> QED BY <1>3 DEF SessionsPlaced, Joined

\* The phases that a test returns to.
MovesTo(ph, qh, t, x) == qh = [ph EXCEPT ![t] = x]

LEMMA PhaseStep ==
    ASSUME NEW ph \in [Tests -> Phases], NEW rh \in [Tests -> Phases], NEW t \in Tests,
           OneTest(ph, rh, t), NEW x \in Phases, NEW qh, MovesTo(ph, qh, t, x)
    PROVE  /\ qh \in [Tests -> Phases] /\ qh[t] = x
           /\ OneTest(ph, qh, t) /\ OneTest(rh, qh, t)
           /\ rh[t] = x => rh = qh
<1>1. qh \in [Tests -> Phases] /\ qh[t] = x /\ \A u \in Tests : u # t => qh[u] = ph[u]
  BY DEF MovesTo
<1>2. \A u \in Tests : u # t => rh[u] = ph[u]
  BY DEF OneTest
<1>3. rh[t] = x => rh = qh
  <2> SUFFICES ASSUME rh[t] = x PROVE rh = qh
    OBVIOUS
  <2>1. \A u \in Tests : rh[u] = qh[u]
    BY <1>1, <1>2
  <2> QED BY <1>1, <2>1
<1>4. OneTest(ph, qh, t) /\ OneTest(rh, qh, t)
  BY <1>1, <1>2 DEF OneTest
<1> QED BY <1>1, <1>3, <1>4

\* A session that a step changes.
LEMMA SessionStep ==
    ASSUME workers \in Seq(WorkerShape), NEW w \in DOMAIN workers, NEW e \in WorkerShape,
           e.owner = workers[w].owner, NEW ws, ws = [workers EXCEPT ![w] = e]
    PROVE  /\ ws \in Seq(WorkerShape) /\ OneSession(workers, ws, w) /\ ws[w] = e
           /\ Len(ws) = Len(workers) /\ DOMAIN ws = DOMAIN workers
<1>1. /\ ws \in Seq(WorkerShape) /\ Len(ws) = Len(workers) /\ DOMAIN ws = DOMAIN workers
      /\ ws[w] = e
      /\ \A v \in DOMAIN workers : v # w => ws[v] = workers[v]
  BY ChangedWorker
<1> QED BY <1>1 DEF OneSession

-----------------------------------------------------------------------------
(* The inductive invariant of the counters, and the steps of the tests.    *)

CountInv ==
    /\ Tallied(pool, workers, 0, phase, keepStarting, cancelled)
    /\ TestsPlaced(phase)
    /\ SessionsPlaced(workers)

\* The types of a step's variables, before and after it.
LEMMA StateShapes ==
    ASSUME Inv, Inv'
    PROVE  /\ workers \in Seq(WorkerShape) /\ workers' \in Seq(WorkerShape)
           /\ requests \in Seq(Nat)
           /\ pool \in PoolShape /\ pool' \in PoolShape /\ pool.alive \in Int
           /\ phase \in [Tests -> Phases] /\ phase' \in [Tests -> Phases]
           /\ keepStarting \in BOOLEAN /\ keepStarting' \in BOOLEAN
           /\ cancelled \in BOOLEAN /\ cancelled' \in BOOLEAN
BY DEF Inv, Shape, PoolShape

LEMMA UpdateCounts ==
    ASSUME NEW q, NEW open \in Int, NEW n \in Nat, n = q.alive - open,
           NEW ws \in Seq(WorkerShape),
           NEW ph \in [Tests -> Phases], NEW keep \in BOOLEAN, NEW cancel \in BOOLEAN,
           Tallied(q, ws, n, ph, keep, cancel), TestsPlaced(ph), SessionsPlaced(ws),
           requests \in Seq(Nat), Update(q, open, ws),
           phase' = ph, keepStarting' = keep, cancelled' = cancel
    PROVE  CountInv'
<1>1. Counted(ws, n, ph, keep, cancel)
  BY DEF Counted
<1>2. /\ Tallied(pool', workers', 0, ph, keep, cancel)
      /\ workers' \in Seq(WorkerShape) /\ Joined(ws, workers', Pool, n)
  BY <1>1, UpdateTally
<1>3. PICK vs : vs = workers'
  OBVIOUS
<1>4. Joined(ws, vs, Pool, n)
  BY <1>2, <1>3
<1>5. SessionsPlaced(vs)
  <2>1. PICK owner \in {Pool} \union (Planned \ PoolTests) : owner = Pool
    OBVIOUS
  <2>2. Joined(ws, vs, owner, n)
    BY <1>4, <2>1
  <2> QED BY <2>2, JoinedPlaced
<1> QED BY <1>2, <1>3, <1>5 DEF CountInv

LEMMA ReplenishUpdateCounts ==
    ASSUME NEW p, NEW open \in Int, NEW n \in Nat, n = p.alive - open,
           NEW ws \in Seq(WorkerShape),
           NEW ph \in [Tests -> Phases], NEW keep \in BOOLEAN, NEW cancel \in BOOLEAN,
           Tallied(p, ws, n, ph, keep, cancel), TestsPlaced(ph), SessionsPlaced(ws),
           requests \in Seq(Nat), NEW k \in BOOLEAN, NEW c \in BOOLEAN,
           Update(Replenish(p, k, c), open, ws),
           phase' = ph, keepStarting' = keep, cancelled' = cancel
    PROVE  CountInv'
<1>1. Counted(ws, n, ph, keep, cancel)
  BY DEF Counted
<1>2. /\ Tallied(pool', workers', 0, ph, keep, cancel)
      /\ workers' \in Seq(WorkerShape)
  BY <1>1, ReplenishUpdate
<1>3. PICK m \in Nat : Joined(ws, workers', Pool, m)
  BY <1>1, ReplenishUpdate
<1>4. PICK vs : vs = workers'
  OBVIOUS
<1>5. SessionsPlaced(vs)
  <2>1. PICK owner \in {Pool} \union (Planned \ PoolTests) : owner = Pool
    OBVIOUS
  <2>2. Joined(ws, vs, owner, m)
    BY <1>3, <1>4, <2>1
  <2> QED BY <2>2, JoinedPlaced
<1> QED BY <1>2, <1>4, <1>5 DEF CountInv

\* The session that a test starts in.
LEMMA AssignedStep ==
    ASSUME workers \in Seq(WorkerShape), SessionsPlaced(workers), NEW t \in Tests,
           NEW w \in DOMAIN workers, NEW ws, ws = Assigned(t, w),
           workers[w].owner = Pool => t \in PoolTests,
           workers[w].owner # Pool => t = workers[w].owner
    PROVE  /\ ws \in Seq(WorkerShape) /\ OneSession(workers, ws, w) /\ SessionsPlaced(ws)
           /\ ws[w].state = "running" /\ ws[w].owner = workers[w].owner
<1> DEFINE e == [workers[w] EXCEPT !.state = "running", !.test = t, !.ran = Append(@, t)]
<1>1. workers[w] \in WorkerShape
  OBVIOUS
<1>2. Append(workers[w].ran, t) \in Seq(Tests)
  BY <1>1 DEF WorkerShape
<1>3. /\ e \in WorkerShape /\ e.state = "running" /\ e.owner = workers[w].owner
      /\ e.test = t /\ e.outcome = workers[w].outcome
  BY <1>1, <1>2 DEF WorkerShape, States
<1>4. ws = [workers EXCEPT ![w] = e]
  BY <1>1 DEF Assigned, WorkerShape
<1>5. SessionPlaced(e)
  BY <1>3 DEF SessionsPlaced, SessionPlaced
<1> HIDE DEF e
<1>6. ws \in Seq(WorkerShape) /\ OneSession(workers, ws, w) /\ ws[w] = e
  BY <1>3, <1>4, SessionStep
<1>7. SessionsPlaced(ws)
  BY <1>5, <1>6, SessionChangedPlaced
<1> QED BY <1>3, <1>6, <1>7

\* A test of the pool that leaves run_test, or starts.
LEMMA PoolTestStep ==
    ASSUME NEW ph \in [Tests -> Phases], TestsPlaced(ph), NEW rh \in [Tests -> Phases],
           NEW t \in PoolTests, OneTest(ph, rh, t),
           NEW x \in {"waiting", "running", "done"}, NEW qh, MovesTo(ph, qh, t, x)
    PROVE  /\ qh \in [Tests -> Phases] /\ qh[t] = x /\ TestsPlaced(qh)
           /\ OneTest(ph, qh, t) /\ OneTest(rh, qh, t)
           /\ rh[t] = x => rh = qh
<1>1. t \in Tests /\ x \in Phases
  BY DEF PoolTests, Phases
<1>2. /\ qh \in [Tests -> Phases] /\ qh[t] = x
      /\ OneTest(ph, qh, t) /\ OneTest(rh, qh, t)
      /\ rh[t] = x => rh = qh
  BY <1>1, PhaseStep
<1>3. TestPlaced(t, x)
  BY TestSets DEF TestPlaced
<1>4. TestsPlaced(qh)
  BY <1>2, <1>3, PhasePlaced
<1> QED BY <1>2, <1>4

LEMMA ServedOk ==
    ASSUME NEW p \in PoolShape, NEW kind \in C!Kinds, NEW i \in 1 .. Len(p.idle),
           p.idle[i].sort # "failed", NEW s, s = Serve(p, kind, i)
    PROVE  s \in PoolShape /\ WaitOver(p, s, kind, 1) /\ s.alive = p.alive
<1>1. /\ s \in PoolShape
      /\ s.creating = p.creating /\ s.resetting = p.resetting /\ s.alive = p.alive
      /\ s.upcoming = p.upcoming /\ s.upcomingAlways = p.upcomingAlways
      /\ s.closed = p.closed
      /\ s.waiting = [p.waiting EXCEPT ![kind] = @ - 1]
      /\ s.running = p.running + 1
      /\ Unused(s) + 1 >= Unused(p)
  BY ServedPool
<1> QED BY <1>1 DEF WaitOver

LEMMA ServedFailed ==
    ASSUME NEW p \in PoolShape, NEW kind \in C!Kinds, NEW i \in 1 .. Len(p.idle),
           p.idle[i].sort = "failed", NEW s, s = Serve(p, kind, i)
    PROVE  s \in PoolShape /\ WaitOver(p, s, kind, 0) /\ s.alive = p.alive
<1>1. /\ s \in PoolShape
      /\ s.creating = p.creating /\ s.resetting = p.resetting /\ s.alive = p.alive
      /\ s.upcoming = p.upcoming /\ s.upcomingAlways = p.upcomingAlways
      /\ s.closed = p.closed
      /\ s.waiting = [p.waiting EXCEPT ![kind] = @ - 1]
      /\ s.running = p.running
      /\ Unused(s) + 1 >= Unused(p)
  BY ServedPool
<1>2. p.running + 0 = p.running
  BY DEF PoolShape
<1> QED BY <1>1, <1>2 DEF WaitOver

\* The rest of take, once the test is registered.
LEMMA TakeFromCounts ==
    ASSUME Inv, Inv', TestsPlaced(phase), SessionsPlaced(workers),
           NEW t \in PoolTests, ~cancelled,
           NEW p \in PoolShape, Within(p.idle, pool.idle),
           NEW n \in Nat, n = p.alive - pool.alive,
           NEW ph \in [Tests -> Phases], OneTest(phase, ph, t), ph[t] = "waiting",
           Tallied(p, workers, n, ph, keepStarting, cancelled), TakeFrom(t, p)
    PROVE  CountInv'
<1> DEFINE i == Position(p.idle, Kind(t))
           ticket == p.idle[i]
<1>0. /\ phase \in [Tests -> Phases] /\ TestsPlaced(phase) /\ t \in PoolTests
      /\ ph \in [Tests -> Phases] /\ OneTest(phase, ph, t) /\ ph[t] = "waiting"
  BY StateShapes
<1>1. /\ workers \in Seq(WorkerShape) /\ requests \in Seq(Nat) /\ pool.alive \in Int
      /\ phase \in [Tests -> Phases] /\ phase' \in [Tests -> Phases]
      /\ keepStarting \in BOOLEAN /\ keepStarting' \in BOOLEAN
      /\ cancelled \in BOOLEAN /\ cancelled' \in BOOLEAN
  BY StateShapes
<1>2. t \in Tests /\ Kind(t) \in C!Kinds /\ p.idle \in Queue
  BY KindType DEF PoolTests, PoolShape
<1>3. i \in {0} \union 1 .. Len(p.idle)
  BY <1>2, PositionFacts DEF Queue
<1>4. PICK qh : qh = phase'
  OBVIOUS
<1>5. PICK keeps : keeps = keepStarting'
  OBVIOUS
<1>6. PICK cancels : cancels = cancelled'
  OBVIOUS
<1>7. /\ qh \in [Tests -> Phases] /\ keeps \in BOOLEAN /\ cancels \in BOOLEAN
      /\ cancelled => cancels
      /\ Counted(workers, n, ph, keepStarting, cancelled)
  BY <1>1, <1>4, <1>5, <1>6 DEF Counted
<1>8. \/ /\ i = 0
         /\ Update(p, pool.alive, workers)
         /\ phase' = [phase EXCEPT ![t] = "waiting"]
         /\ UNCHANGED <<keepStarting, cancelled>>
      \/ /\ i # 0 /\ IsOk(ticket) /\ workers[ticket.session].state = "offered"
         /\ Update(Replenish(Serve(p, Kind(t), i), keepStarting, FALSE), pool.alive,
                   Assigned(t, ticket.session))
         /\ StartsBody(t)
      \/ /\ i # 0 /\ IsOk(ticket) /\ workers[ticket.session].state # "offered"
      \/ /\ i # 0 /\ ~IsOk(ticket)
         /\ Update(Replenish(Serve(p, Kind(t), i), keepStarting, FALSE), pool.alive, workers)
         /\ FailsToStart(t, "failed")
      \/ /\ i # 0
         /\ \E cancel \in BOOLEAN :
               Update(IF IsOk(ticket)
                      THEN [Replenish(Serve(p, Kind(t), i), keepStarting, cancel)
                               EXCEPT !.running = @ - 1]
                      ELSE Replenish(Serve(p, Kind(t), i), keepStarting, cancel),
                      pool.alive, workers)
         /\ cancelled' = TRUE
         /\ NotStarted(t)
  BY DEF TakeFrom
<1>9. ASSUME i # 0, IsOk(ticket)
      PROVE  /\ ticket.session \in DOMAIN workers
             /\ workers[ticket.session].owner = Pool
             /\ workers[ticket.session].state = "offered"
  <2>1. i \in DOMAIN p.idle
    BY <1>2, <1>3, <1>9 DEF Queue
  <2>2. PICK w : w = p.idle[i].session
    OBVIOUS
  <2> HIDE DEF i
  <2>3. w \in DOMAIN workers /\ Pooled(w) /\ workers[w].state = "offered"
    BY <1>9, <2>1, <2>2, TicketWithin
  <2> QED BY <2>2, <2>3 DEF Pooled
<1> HIDE DEF i
<1>10. CASE /\ i = 0
            /\ Update(p, pool.alive, workers)
            /\ phase' = [phase EXCEPT ![t] = "waiting"]
            /\ UNCHANGED <<keepStarting, cancelled>>
  <2>1. MovesTo(phase, qh, t, "waiting")
    BY <1>4, <1>10 DEF MovesTo
  <2>2. ph = qh /\ TestsPlaced(qh)
    BY ONLY <1>0, <2>1, PoolTestStep
  <2> QED BY <1>1, <1>4, <1>10, <2>2, UpdateCounts
<1>11. CASE /\ i # 0 /\ IsOk(ticket)
            /\ Update(Replenish(Serve(p, Kind(t), i), keepStarting, FALSE), pool.alive,
                      Assigned(t, ticket.session))
            /\ StartsBody(t)
  <2>1. PICK s : s = Serve(p, Kind(t), i)
    OBVIOUS
  <2>2. PICK w : w = ticket.session
    OBVIOUS
  <2>3. PICK ws : ws = Assigned(t, w)
    OBVIOUS
  <2>4. w \in DOMAIN workers /\ workers[w].owner = Pool /\ workers[w].state = "offered"
    BY <1>9, <1>11, <2>2
  <2>5. /\ ws \in Seq(WorkerShape) /\ OneSession(workers, ws, w) /\ SessionsPlaced(ws)
        /\ ws[w].state = "running" /\ ws[w].owner = Pool
    BY <1>1, <1>2, <2>3, <2>4, AssignedStep
  <2>6. /\ MovesTo(phase, qh, t, "running")
        /\ keepStarting' = keepStarting /\ cancelled' = cancelled
    BY <1>4, <1>11 DEF StartsBody, StopOn, MovesTo
  <2>7. qh[t] = "running" /\ OneTest(ph, qh, t) /\ TestsPlaced(qh)
    BY ONLY <1>0, <2>6, PoolTestStep
  <2>8. s \in PoolShape /\ WaitOver(p, s, Kind(t), 1) /\ s.alive = p.alive
    <3>1. ticket.sort # "failed" /\ i \in 1 .. Len(p.idle)
      BY <1>3, <1>11 DEF IsOk
    <3> QED BY <1>2, <2>1, <3>1, ServedOk
  <2>9. keeps => keepStarting
    BY <1>5, <2>6
  <2>10. Tallied(s, ws, n, qh, keeps, cancels)
    <3>1. Starts(workers, ws, w, cancels)
      BY <2>4, <2>5 DEF Starts
    <3> QED BY <1>7, <2>5, <2>7, <2>8, <2>9, <3>1, StartedTally
  <2>11. Update(Replenish(s, keepStarting, FALSE), pool.alive, ws)
    BY <1>11, <2>1, <2>2, <2>3
  <2>12. n = s.alive - pool.alive
    BY <2>8
  <2>13. PICK no \in BOOLEAN : no = FALSE
    OBVIOUS
  <2>14. Update(Replenish(s, keepStarting, no), pool.alive, ws)
    BY <2>11, <2>13
  <2>15. /\ Tallied(s, ws, n, qh, keeps, cancels) /\ TestsPlaced(qh) /\ SessionsPlaced(ws)
         /\ ws \in Seq(WorkerShape) /\ requests \in Seq(Nat) /\ qh \in [Tests -> Phases]
    BY <1>1, <1>7, <2>5, <2>7, <2>10
  <2>16. n \in Nat /\ keeps \in BOOLEAN /\ cancels \in BOOLEAN /\ keepStarting \in BOOLEAN
    BY <1>1, <1>7
  <2>17. pool.alive \in Int /\ phase' = qh /\ keepStarting' = keeps /\ cancelled' = cancels
    BY <1>1, <1>4, <1>5, <1>6
  <2> QED BY ONLY <2>12, <2>13, <2>14, <2>15, <2>16, <2>17, ReplenishUpdateCounts
<1>12. CASE /\ i # 0 /\ ~IsOk(ticket) /\ phase' = [phase EXCEPT ![t] = "done"]
            /\ keepStarting' => keepStarting
            /\ \E cancel \in BOOLEAN :
                  Update(Replenish(Serve(p, Kind(t), i), keepStarting, cancel), pool.alive, workers)
  <2>1. PICK s : s = Serve(p, Kind(t), i)
    OBVIOUS
  <2>2. PICK cancel \in BOOLEAN : Update(Replenish(s, keepStarting, cancel), pool.alive, workers)
    BY <1>12, <2>1
  <2>3. MovesTo(phase, qh, t, "done")
    BY <1>4, <1>12 DEF MovesTo
  <2>4. qh[t] = "done" /\ OneTest(ph, qh, t) /\ TestsPlaced(qh)
    BY ONLY <1>0, <2>3, PoolTestStep
  <2>5. s \in PoolShape /\ WaitOver(p, s, Kind(t), 0) /\ s.alive = p.alive
    <3>1. ticket.sort = "failed" /\ i \in 1 .. Len(p.idle)
      BY <1>3, <1>12 DEF IsOk
    <3> QED BY <1>2, <2>1, <3>1, ServedFailed
  <2>6. keeps => keepStarting
    BY <1>5, <1>12
  <2>7. Tallied(s, workers, n, qh, keeps, cancels)
    BY <1>7, <2>4, <2>5, <2>6, AnsweredTally
  <2>8. n = s.alive - pool.alive
    BY <2>5
  <2>9. /\ Tallied(s, workers, n, qh, keeps, cancels) /\ TestsPlaced(qh)
        /\ SessionsPlaced(workers) /\ workers \in Seq(WorkerShape)
        /\ requests \in Seq(Nat) /\ qh \in [Tests -> Phases]
    BY <1>1, <1>7, <2>4, <2>7
  <2>10. n \in Nat /\ keeps \in BOOLEAN /\ cancels \in BOOLEAN /\ keepStarting \in BOOLEAN
    BY <1>1, <1>7
  <2>11. pool.alive \in Int /\ phase' = qh /\ keepStarting' = keeps /\ cancelled' = cancels
    BY <1>1, <1>4, <1>5, <1>6
  <2> QED BY ONLY <2>2, <2>8, <2>9, <2>10, <2>11, ReplenishUpdateCounts
<1>13. CASE /\ i # 0 /\ IsOk(ticket) /\ cancelled' = TRUE /\ NotStarted(t)
            /\ \E cancel \in BOOLEAN :
                  Update([Replenish(Serve(p, Kind(t), i), keepStarting, cancel)
                             EXCEPT !.running = @ - 1], pool.alive, workers)
  <2>1. PICK s : s = Serve(p, Kind(t), i)
    OBVIOUS
  <2>2. PICK cancel \in BOOLEAN :
            Update([Replenish(s, keepStarting, cancel) EXCEPT !.running = @ - 1], pool.alive, workers)
    BY <1>13, <2>1
  <2>3. PICK q : q = Replenish(s, keepStarting, cancel)
    OBVIOUS
  <2>4. PICK r : r = [q EXCEPT !.running = @ - 1]
    OBVIOUS
  <2>5. PICK mh : MovesTo(phase, mh, t, "running")
    BY DEF MovesTo
  <2>6. mh[t] = "running" /\ OneTest(ph, mh, t) /\ mh \in [Tests -> Phases] /\ OneTest(phase, mh, t)
    BY ONLY <1>0, <2>5, PoolTestStep
  <2>7. MovesTo(phase, qh, t, "done") /\ keepStarting' = keepStarting
    BY <1>4, <1>13 DEF NotStarted, StopOn, MovesTo
  <2>8. qh[t] = "done" /\ OneTest(mh, qh, t) /\ TestsPlaced(qh)
    BY ONLY <1>0, <2>6, <2>7, PoolTestStep
  <2>9. s \in PoolShape /\ WaitOver(p, s, Kind(t), 1) /\ s.alive = p.alive
    <3>1. ticket.sort # "failed" /\ i \in 1 .. Len(p.idle)
      BY <1>3, <1>13 DEF IsOk
    <3> QED BY <1>2, <2>1, <3>1, ServedOk
  <2>10. (keeps => keepStarting) /\ cancels
    BY <1>5, <1>6, <1>13, <2>7
  <2>11. PICK ws : ws = workers
    OBVIOUS
  <2>12. PICK late \in BOOLEAN : late = cancels
    BY <1>7
  <2>13. PICK still \in BOOLEAN : still = keeps
    BY <1>7
  <2>14. /\ ws \in Seq(WorkerShape) /\ OneSession(workers, ws, 0) /\ OneSession(ws, ws, 0)
         /\ Starts(workers, ws, 0, late) /\ SessionsPlaced(ws)
    BY <1>1, <2>10, <2>11, <2>12 DEF OneSession, Starts
  <2>15. Tallied(s, ws, n, mh, still, late)
    <3>1. (still => keepStarting) /\ (cancelled => late)
      BY <2>10, <2>12, <2>13
    <3> QED BY <1>7, <2>6, <2>9, <2>14, <3>1, StartedTally
  <2>16. Counted(ws, n, mh, still, late)
    BY <1>7, <2>6, <2>14 DEF Counted
  <2>17. PICK m : m = n + (q.alive - s.alive)
    OBVIOUS
  <2>18. q.alive - s.alive \in Nat /\ Tallied(q, ws, m, mh, still, late)
    BY <1>1, <2>3, <2>15, <2>16, <2>17, ReplenishTally
  <2>19. q \in Pools
    BY <2>18 DEF Tallied
  <2>20. m \in Nat /\ m = q.alive - pool.alive
    <3>1. s.alive = p.alive /\ s.alive \in Int /\ q.alive \in Int
      BY <2>9, <2>19 DEF PoolShape, Pools
    <3> QED BY <1>1, <2>17, <2>18, <3>1
  <2>21. /\ r \in PoolShape /\ r.idle = q.idle /\ r.creating = q.creating
         /\ r.resetting = q.resetting /\ r.running = q.running - 1 /\ r.alive = q.alive
         /\ r.waiting = q.waiting /\ r.upcoming = q.upcoming
         /\ r.upcomingAlways = q.upcomingAlways /\ r.closed = q.closed
    BY <2>4, <2>19 DEF PoolShape, Pools, C!Tally
  <2>22. /\ SessionGain(ws, ws, 0, Open) = 0 /\ SessionGain(ws, ws, 0, InCreation) = 0
         /\ SessionGain(ws, ws, 0, InReset) = 0
    BY SessionGains
  <2>23. BodyOver(q, r, ws, ws, 0, t) /\ SessionLeft(ws, ws, 0, t, cancels)
    <3>1. q.resetting + 0 = q.resetting
      BY <2>19 DEF Pools
    <3> QED BY <2>10, <2>21, <2>22, <3>1 DEF BodyOver, SessionLeft
  <2>24. Counted(ws, m, mh, still, late)
    BY <2>16, <2>20 DEF Counted
  <2>25. Tallied(r, ws, m, qh, keeps, cancels)
    <3>1. (keeps => still) /\ (late => cancels)
      BY <2>12, <2>13
    <3> QED BY <1>2, <1>7, <2>6, <2>8, <2>14, <2>18, <2>21, <2>23, <2>24, <3>1, LeftTally
  <2>26. Update(r, pool.alive, ws) /\ m = r.alive - pool.alive
    BY <2>2, <2>3, <2>4, <2>11, <2>20, <2>21
  <2> QED BY <1>1, <1>4, <1>5, <1>6, <1>7, <2>8, <2>14, <2>20, <2>25, <2>26, UpdateCounts
<1>14. CASE i # 0 /\ ~IsOk(ticket) /\ FailsToStart(t, "failed")
            /\ Update(Replenish(Serve(p, Kind(t), i), keepStarting, FALSE), pool.alive, workers)
  <2>1. phase' = [phase EXCEPT ![t] = "done"] /\ (keepStarting' => keepStarting)
    BY <1>14 DEF FailsToStart, StopOn
  <2>2. FALSE \in BOOLEAN
    OBVIOUS
  <2> QED BY <1>12, <1>14, <2>1, <2>2
<1>15. CASE /\ i # 0
            /\ \E cancel \in BOOLEAN :
                  Update(IF IsOk(ticket)
                         THEN [Replenish(Serve(p, Kind(t), i), keepStarting, cancel)
                                  EXCEPT !.running = @ - 1]
                         ELSE Replenish(Serve(p, Kind(t), i), keepStarting, cancel),
                         pool.alive, workers)
            /\ cancelled' = TRUE
            /\ NotStarted(t)
  <2>1. phase' = [phase EXCEPT ![t] = "done"] /\ (keepStarting' => keepStarting)
    BY <1>15 DEF NotStarted, StopOn
  <2>2. CASE IsOk(ticket)
    <3>1. PICK cancel \in BOOLEAN :
             Update([Replenish(Serve(p, Kind(t), i), keepStarting, cancel)
                        EXCEPT !.running = @ - 1], pool.alive, workers)
      BY <1>15, <2>2
    <3> QED BY <1>13, <1>15, <2>2, <3>1
  <2>3. CASE ~IsOk(ticket)
    <3>1. PICK cancel \in BOOLEAN :
             Update(Replenish(Serve(p, Kind(t), i), keepStarting, cancel), pool.alive, workers)
      BY <1>15, <2>3
    <3> QED BY <1>12, <1>15, <2>1, <2>3, <3>1
  <2> QED BY <2>2, <2>3
<1> QED BY <1>8, <1>9, <1>10, <1>11, <1>14, <1>15

\* A test that starts and needs a session of the pool.
LEMMA RegisterStep ==
    ASSUME NEW p \in PoolShape, NEW t, NEW q, q = [p EXCEPT
                 !.upcoming[Kind(t)] = C!Monus(@, 1),
                 !.upcomingAlways[Kind(t)] = IF t \in RunAlways THEN C!Monus(@, 1) ELSE @,
                 !.waiting[Kind(t)] = @ + 1]
    PROVE  Registered(p, q, t)
<1> PICK k \in C!Kinds : k = Kind(t)
  BY KindType
<1>1. PICK upcoming : upcoming = [p.upcoming EXCEPT ![k] = C!Monus(@, 1)]
  OBVIOUS
<1>2. PICK always :
          always = [p.upcomingAlways EXCEPT ![k] = IF t \in RunAlways THEN C!Monus(@, 1) ELSE @]
  OBVIOUS
<1>3. PICK waiting : waiting = [p.waiting EXCEPT ![k] = @ + 1]
  OBVIOUS
<1>4. q = [p EXCEPT !.upcoming = upcoming, !.upcomingAlways = always, !.waiting = waiting]
  BY <1>1, <1>2, <1>3 DEF PoolShape
<1>5. /\ q.idle = p.idle /\ q.creating = p.creating /\ q.resetting = p.resetting
      /\ q.running = p.running /\ q.alive = p.alive /\ q.closed = p.closed
      /\ q.waiting = waiting /\ q.upcoming = upcoming /\ q.upcomingAlways = always
  BY <1>4 DEF PoolShape
<1> QED BY <1>1, <1>2, <1>3, <1>5 DEF Registered

LEMMA GiveUpStep ==
    ASSUME NEW p \in PoolShape, NEW t, NEW q, q = GiveUp(p, t)
    PROVE  q \in PoolShape /\ WaitOver(p, q, Kind(t), 0) /\ q.alive = p.alive
<1>1. q \in PoolShape
  BY GiveUpShape
<1>2. PICK waiting : waiting = [p.waiting EXCEPT ![Kind(t)] = @ - 1]
  OBVIOUS
<1>3. q = [p EXCEPT !.waiting = waiting]
  BY <1>2 DEF GiveUp, PoolShape
<1>4. /\ q.idle = p.idle /\ q.creating = p.creating /\ q.resetting = p.resetting
      /\ q.running = p.running /\ q.alive = p.alive /\ q.closed = p.closed
      /\ q.waiting = waiting /\ q.upcoming = p.upcoming /\ q.upcomingAlways = p.upcomingAlways
  BY <1>3 DEF PoolShape
<1>5. Unused(q) + 1 >= Unused(p)
  <2>1. Unused(q) = Unused(p) /\ Unused(p) \in Int
    BY <1>4, UnusedFacts DEF Unused
  <2> QED BY <2>1
<1>6. p.running + 0 = p.running
  BY DEF PoolShape
<1> QED BY <1>1, <1>2, <1>4, <1>5, <1>6 DEF WaitOver

LEMMA TakeOrWaitCounts ==
    ASSUME Inv, Inv', CountInv, NEW t \in Tests, phase[t] = "queued", TakeOrWait(t)
    PROVE  CountInv'
<1>1. /\ workers \in Seq(WorkerShape) /\ requests \in Seq(Nat) /\ pool.alive \in Int
      /\ pool \in PoolShape
      /\ phase \in [Tests -> Phases] /\ phase' \in [Tests -> Phases]
      /\ keepStarting \in BOOLEAN /\ keepStarting' \in BOOLEAN
      /\ cancelled \in BOOLEAN /\ cancelled' \in BOOLEAN
  BY StateShapes
<1>2. /\ ~cancelled /\ t \in PoolTests
      /\ \/ TakeFrom(t, Replenish(Register(t), keepStarting, FALSE))
         \/ /\ \E cancel \in BOOLEAN :
                  Update(GiveUp(Replenish(Register(t), keepStarting, cancel), t),
                         pool.alive, workers)
            /\ cancelled' = TRUE
            /\ NotStarted(t)
  BY DEF TakeOrWait, MayStart
<1>3. /\ Tallied(pool, workers, 0, phase, keepStarting, cancelled)
      /\ TestsPlaced(phase) /\ SessionsPlaced(workers)
  BY DEF CountInv
<1>4. PICK reg : reg = Register(t)
  OBVIOUS
<1>5. /\ reg \in PoolShape /\ reg.idle = pool.idle /\ reg.alive = pool.alive
      /\ Registered(pool, reg, t)
  <2>1. Registered(pool, reg, t)
    BY <1>1, <1>4, RegisterStep DEF Register
  <2> QED BY <1>1, <1>4, <2>1, RegisterShape
<1>6. PICK ph : MovesTo(phase, ph, t, "waiting")
  BY DEF MovesTo
<1>7. ph \in [Tests -> Phases] /\ ph[t] = "waiting" /\ OneTest(phase, ph, t)
  <2>1. OneTest(phase, phase, t)
    BY DEF OneTest
  <2> QED BY <1>1, <1>2, <1>3, <1>6, <2>1, PoolTestStep
<1>8. PICK still \in BOOLEAN : still = keepStarting
  BY <1>1
<1>9. PICK late \in BOOLEAN : late = cancelled
  BY <1>1
<1>10. Counted(workers, 0, phase, keepStarting, cancelled) /\ Counted(workers, 0, ph, still, late)
  BY <1>1, <1>7 DEF Counted
<1>11. Tallied(reg, workers, 0, ph, still, late)
  <2>1. (still => keepStarting) /\ (cancelled => late)
    BY <1>8, <1>9
  <2> QED BY <1>2, <1>3, <1>5, <1>7, <1>10, <2>1, RegisterTally
<1>12. ASSUME NEW cancel \in BOOLEAN, NEW q, q = Replenish(reg, keepStarting, cancel),
              NEW n, n = q.alive - pool.alive
       PROVE  /\ n \in Nat /\ q \in PoolShape /\ Within(q.idle, pool.idle)
              /\ Tallied(q, workers, n, ph, still, late)
  <2>1. q \in PoolShape /\ Within(q.idle, reg.idle) /\ q.alive - reg.alive \in Nat
    BY <1>1, <1>5, <1>12, ReplenishFacts
  <2>2. Tallied(q, workers, 0 + (q.alive - reg.alive), ph, still, late)
    BY <1>1, <1>10, <1>11, <1>12, ReplenishTally
  <2>3. 0 + (q.alive - reg.alive) = n /\ n \in Nat
    BY <1>5, <1>12, <2>1
  <2> QED BY <1>5, <2>1, <2>2, <2>3
<1>13. CASE TakeFrom(t, Replenish(Register(t), keepStarting, FALSE))
  <2>1. PICK q : q = Replenish(reg, keepStarting, FALSE)
    OBVIOUS
  <2>2. PICK n : n = q.alive - pool.alive
    OBVIOUS
  <2>3. /\ n \in Nat /\ q \in PoolShape /\ Within(q.idle, pool.idle)
        /\ Tallied(q, workers, n, ph, still, late)
    BY <1>12, <2>1, <2>2
  <2>4. Tallied(q, workers, n, ph, keepStarting, cancelled) /\ TakeFrom(t, q)
    BY <1>4, <1>8, <1>9, <1>13, <2>1, <2>3
  <2> QED BY <1>2, <1>3, <1>7, <2>2, <2>3, <2>4, TakeFromCounts
<1>14. ASSUME NEW cancel \in BOOLEAN,
              Update(GiveUp(Replenish(Register(t), keepStarting, cancel), t), pool.alive, workers),
              cancelled' = TRUE, NotStarted(t)
       PROVE  CountInv'
  <2>1. PICK q : q = Replenish(reg, keepStarting, cancel)
    OBVIOUS
  <2>2. PICK r : r = GiveUp(q, t)
    OBVIOUS
  <2>3. PICK n : n = q.alive - pool.alive
    OBVIOUS
  <2>4. /\ n \in Nat /\ q \in PoolShape /\ Tallied(q, workers, n, ph, still, late)
    BY <1>12, <2>1, <2>3
  <2>5. r \in PoolShape /\ WaitOver(q, r, Kind(t), 0) /\ r.alive = q.alive
    BY <2>2, <2>4, GiveUpStep
  <2>6. PICK qh : qh = phase'
    OBVIOUS
  <2>7. PICK keeps \in BOOLEAN : keeps = keepStarting'
    BY <1>1
  <2>8. PICK cancels \in BOOLEAN : cancels = cancelled'
    BY <1>1
  <2>9. (keeps => still) /\ (late => cancels)
    BY <1>8, <1>14, <2>7, <2>8 DEF NotStarted, StopOn
  <2>10. /\ qh \in [Tests -> Phases] /\ qh[t] = "done" /\ OneTest(ph, qh, t) /\ TestsPlaced(qh)
    <3>1. MovesTo(phase, qh, t, "done")
      BY <1>14, <2>6 DEF NotStarted, MovesTo
    <3>2. phase \in [Tests -> Phases] /\ TestsPlaced(phase) /\ t \in PoolTests
      BY <1>1, <1>2, <1>3
    <3> QED BY ONLY <1>7, <3>1, <3>2, PoolTestStep
  <2>11. Counted(workers, n, ph, still, late)
    BY <1>10, <2>4 DEF Counted
  <2>12. Tallied(r, workers, n, qh, keeps, cancels)
    BY <1>2, <1>7, <2>4, <2>5, <2>9, <2>10, <2>11, AnsweredTally
  <2>13. Update(r, pool.alive, workers) /\ n = r.alive - pool.alive
    BY <1>4, <1>14, <2>1, <2>2, <2>3, <2>5
  <2> QED BY <1>1, <1>3, <2>4, <2>6, <2>7, <2>8, <2>10, <2>12, <2>13, UpdateCounts
<1> QED BY <1>2, <1>13, <1>14

\* A step that leaves the pool alone.
LEMMA QuietCounts ==
    ASSUME Inv, Inv', CountInv, pool' = pool,
           NEW vs, vs = workers', NEW qh, qh = phase',
           NEW keeps, keeps = keepStarting', NEW cancels, cancels = cancelled',
           keeps => keepStarting, cancelled => cancels,
           NEW w, OneSession(workers, vs, w), Unmoved(workers, vs, w, cancels), SessionsPlaced(vs),
           NEW t, OneTest(phase, qh, t), Passed(phase, qh, t, keeps, cancels), TestsPlaced(qh)
    PROVE  CountInv'
<1>1. /\ vs \in Seq(WorkerShape) /\ qh \in [Tests -> Phases]
      /\ keeps \in BOOLEAN /\ cancels \in BOOLEAN
      /\ Counted(workers, 0, phase, keepStarting, cancelled)
  BY StateShapes DEF Counted
<1>2. Tallied(pool, workers, 0, phase, keepStarting, cancelled)
  BY DEF CountInv
<1>3. Tallied(pool, vs, 0, qh, keeps, cancels)
  BY <1>1, <1>2, QuietTally
<1>4. Tallied(pool', workers', 0, phase', keepStarting', cancelled')
  BY <1>3
<1> QED BY <1>4 DEF CountInv

\* Nothing is counted of a session that a test leaves alone.
LEMMA Untouched ==
    ASSUME NEW ws, NEW cancels, NEW w
    PROVE  OneSession(ws, ws, w) /\ Unmoved(ws, ws, w, cancels)
<1>1. OneSession(ws, ws, w)
  BY DEF OneSession
<1>2. \A X : SessionGain(ws, ws, w, X) = 0
  BY SessionGains
<1> QED BY <1>1, <1>2 DEF Unmoved

\* A test returns from run_test without a session.
LEMMA ReturnCounts ==
    ASSUME Inv, Inv', CountInv, pool' = pool, workers' = workers, NEW t \in Tests,
           phase' = [phase EXCEPT ![t] = "done"],
           keepStarting' => keepStarting, cancelled => cancelled',
           t \in PoolTests => /\ phase[t] = "queued"
                              /\ cancelled' \/ (~keepStarting' /\ t \notin RunAlways)
    PROVE  CountInv'
<1>1. PICK qh : qh = phase'
  OBVIOUS
<1>2. PICK keeps : keeps = keepStarting'
  OBVIOUS
<1>3. PICK cancels : cancels = cancelled'
  OBVIOUS
<1>4. PICK vs : vs = workers
  OBVIOUS
<1>5. MovesTo(phase, qh, t, "done")
  BY <1>1 DEF MovesTo
<1>6. phase \in [Tests -> Phases] /\ TestsPlaced(phase) /\ SessionsPlaced(workers)
  BY StateShapes DEF CountInv
<1>7. qh[t] = "done" /\ OneTest(phase, qh, t)
  <2>1. OneTest(phase, phase, t) /\ "done" \in Phases
    BY DEF OneTest, Phases
  <2> QED BY <1>5, <1>6, <2>1, PhaseStep
<1>8. TestsPlaced(qh)
  <2>1. TestPlaced(t, qh[t])
    BY <1>7 DEF TestPlaced
  <2> QED BY <1>6, <1>7, <2>1, PhasePlaced
<1>9. Passed(phase, qh, t, keeps, cancels)
  BY <1>2, <1>3, <1>7 DEF Passed, Answered, Begun, Phases
<1>10. OneSession(workers, vs, 0) /\ Unmoved(workers, vs, 0, cancels) /\ SessionsPlaced(vs)
  BY <1>4, <1>6, Untouched
<1>11. vs = workers' /\ (keeps => keepStarting) /\ (cancelled => cancels)
  BY <1>2, <1>3, <1>4
<1> QED BY <1>1, <1>2, <1>3, <1>7, <1>8, <1>9, <1>10, <1>11, QuietCounts

LEMMA SkipCounts ==
    ASSUME Inv, Inv', CountInv, NEW t \in Tests, phase[t] = "queued", Skip(t)
    PROVE  CountInv'
<1>1. /\ pool' = pool /\ workers' = workers /\ phase' = [phase EXCEPT ![t] = "done"]
      /\ keepStarting' = keepStarting /\ cancelled' = cancelled /\ ~MayStart(t)
  BY DEF Skip, NotStarted, StopOn, sessions
<1>2. cancelled' \/ (~keepStarting' /\ t \notin RunAlways)
  BY <1>1 DEF MayStart
<1> QED BY <1>1, <1>2, ReturnCounts

LEMMA FailUnplannableCounts ==
    ASSUME Inv, Inv', CountInv, NEW t \in Tests, FailUnplannable(t)
    PROVE  CountInv'
<1>1. /\ pool' = pool /\ workers' = workers /\ phase' = [phase EXCEPT ![t] = "done"]
      /\ keepStarting' => keepStarting
  BY DEF FailUnplannable, FailsToStart, StopOn, sessions
<1>2. t \notin PoolTests
  BY DEF FailUnplannable, PoolTests
<1>3. cancelled => cancelled'
  BY DEF FailUnplannable, FailsToStart
<1> QED BY <1>1, <1>2, <1>3, ReturnCounts

LEMMA RequestDedicatedCounts ==
    ASSUME Inv, Inv', CountInv, NEW t \in Tests, phase[t] = "queued", RequestDedicated(t)
    PROVE  CountInv'
<1>1. /\ workers \in Seq(WorkerShape) /\ phase \in [Tests -> Phases] /\ requests \in Seq(Nat)
      /\ keepStarting \in BOOLEAN /\ cancelled \in BOOLEAN
  BY StateShapes
<1>2. /\ Tallied(pool, workers, 0, phase, keepStarting, cancelled)
      /\ TestsPlaced(phase) /\ SessionsPlaced(workers)
  BY DEF CountInv
<1>3. /\ phase' = [phase EXCEPT ![t] = "requested"] /\ Request(workers, t, 1)
      /\ pool' = pool /\ keepStarting' = keepStarting /\ cancelled' = cancelled
  BY DEF RequestDedicated
<1>4. t \in Planned \ PoolTests
  BY DEF RequestDedicated, Planned, PoolTests
<1>5. PICK owner \in {Pool} \union Tests : owner = t
  OBVIOUS
<1>6. PICK vs : vs = workers'
  OBVIOUS
<1>7. vs \in Seq(WorkerShape) /\ Joined(workers, vs, t, 1)
  <2>1. PICK n \in Nat : n = 1
    OBVIOUS
  <2>2. Request(workers, owner, n)
    BY <1>3, <1>5, <2>1
  <2>3. /\ workers' \in Seq(WorkerShape)
        /\ DOMAIN workers' = 1 .. Len(workers) + n
        /\ \A w \in 1 .. Len(workers) : workers'[w] = workers[w]
        /\ \A w \in Len(workers) + 1 .. Len(workers) + n : workers'[w] = Hired(owner)
    BY <1>1, <2>2, RequestFacts
  <2>4. Joined(workers, vs, owner, n)
    BY <1>6, <2>3 DEF Joined
  <2> QED BY <1>5, <1>6, <2>1, <2>3, <2>4
<1>8. PICK qh : qh = phase'
  OBVIOUS
<1>9. qh \in [Tests -> Phases] /\ qh[t] = "requested" /\ OneTest(phase, qh, t)
  <2>1. OneTest(phase, phase, t) /\ "requested" \in Phases /\ MovesTo(phase, qh, t, "requested")
    BY <1>3, <1>8 DEF OneTest, Phases, MovesTo
  <2> QED BY <1>1, <2>1, PhaseStep
<1>10. TestsPlaced(qh)
  <2>1. TestPlaced(t, qh[t])
    BY <1>4, <1>9 DEF TestPlaced
  <2> QED BY <1>2, <1>9, <2>1, PhasePlaced
<1>11. SessionsPlaced(vs)
  <2>1. t \in {Pool} \union (Planned \ PoolTests) /\ 1 \in Nat
    BY <1>4
  <2> QED BY <1>1, <1>2, <1>7, <2>1, JoinedPlaced
<1>12. Tallied(pool, vs, 0, qh, keepStarting, cancelled)
  <2>1. Counted(workers, 0, phase, keepStarting, cancelled)
    BY <1>1 DEF Counted
  <2> QED BY <1>2, <1>4, <1>7, <1>9, <2>1, DedicatedTally
<1>13. Tallied(pool', workers', 0, phase', keepStarting', cancelled')
  BY <1>3, <1>6, <1>8, <1>12
<1> QED BY <1>6, <1>8, <1>10, <1>11, <1>13 DEF CountInv

LEMMA StopsWaitingCounts ==
    ASSUME Inv, Inv', CountInv, NEW t \in Tests, StopsWaiting(t)
    PROVE  CountInv'
<1>1. /\ workers \in Seq(WorkerShape) /\ phase \in [Tests -> Phases] /\ phase' \in [Tests -> Phases]
      /\ keepStarting \in BOOLEAN /\ cancelled \in BOOLEAN /\ pool \in PoolShape
      /\ keepStarting' \in BOOLEAN /\ cancelled' \in BOOLEAN /\ pool.alive \in Int
  BY StateShapes
<1>2. /\ Tallied(pool, workers, 0, phase, keepStarting, cancelled)
      /\ TestsPlaced(phase) /\ SessionsPlaced(workers)
  BY DEF CountInv
<1>3. phase[t] = "waiting" /\ t \in PoolTests
  <2>1. phase[t] = "waiting" /\ TestPlaced(t, phase[t])
    BY <1>2 DEF StopsWaiting, IsWoken, TestsPlaced
  <2> QED BY <2>1 DEF TestPlaced
<1>4. OneTest(phase, phase, t)
  BY DEF OneTest
<1>5. CASE MayStart(t) /\ TakeFrom(t, pool)
  <2>1. ~cancelled /\ Within(pool.idle, pool.idle) /\ 0 \in Nat /\ 0 = pool.alive - pool.alive
    BY <1>1, <1>5, WithinItself DEF MayStart
  <2> QED BY <1>1, <1>2, <1>3, <1>4, <1>5, <2>1, TakeFromCounts
<1>6. CASE /\ pool' = GiveUp(pool, t)
           /\ NotStarted(t)
           /\ UNCHANGED <<requests, workers, cancelled>>
  <2>1. PICK q : q = GiveUp(pool, t)
    OBVIOUS
  <2>2. q \in PoolShape /\ WaitOver(pool, q, Kind(t), 0)
    BY <1>1, <2>1, GiveUpStep
  <2>3. PICK qh : qh = phase'
    OBVIOUS
  <2>4. PICK keeps \in BOOLEAN : keeps = keepStarting'
    BY <1>1
  <2>5. PICK cancels \in BOOLEAN : cancels = cancelled'
    BY <1>1
  <2>6. (keeps => keepStarting) /\ (cancelled => cancels)
    BY <1>6, <2>4, <2>5 DEF NotStarted, StopOn
  <2>7. qh \in [Tests -> Phases] /\ qh[t] = "done" /\ OneTest(phase, qh, t) /\ TestsPlaced(qh)
    <3>1. MovesTo(phase, qh, t, "done")
      BY <1>6, <2>3 DEF NotStarted, MovesTo
    <3> QED BY <1>1, <1>2, <1>3, <1>4, <3>1, PoolTestStep
  <2>8. Counted(workers, 0, phase, keepStarting, cancelled)
    BY <1>1 DEF Counted
  <2>9. Tallied(q, workers, 0, qh, keeps, cancels)
    BY <1>2, <1>3, <2>2, <2>6, <2>7, <2>8, AnsweredTally
  <2>10. Tallied(pool', workers', 0, phase', keepStarting', cancelled')
    BY <1>6, <2>1, <2>3, <2>4, <2>5, <2>9
  <2>11. TestsPlaced(phase') /\ SessionsPlaced(workers')
    BY <1>2, <1>6, <2>3, <2>7
  <2> QED BY <2>10, <2>11 DEF CountInv
<1> QED BY <1>5, <1>6 DEF StopsWaiting

LEMMA GetsDedicatedCounts ==
    ASSUME Inv, Inv', CountInv, NEW t \in Tests, GetsDedicated(t)
    PROVE  CountInv'
<1>1. /\ workers \in Seq(WorkerShape) /\ phase \in [Tests -> Phases]
      /\ TestsPlaced(phase) /\ SessionsPlaced(workers)
  BY StateShapes DEF CountInv
<1>2. PICK w \in DOMAIN workers :
          /\ HasAnswer(t, w)
          /\ \/ NotStarted(t) /\ UNCHANGED <<workers, cancelled>>
             \/ /\ workers[w].state = "offered"
                /\ StartsBody(t) /\ workers' = Assigned(t, w)
             \/ FailsToStart(t, "failed") /\ UNCHANGED workers
  BY DEF GetsDedicated
<1>3. pool' = pool /\ workers[w].owner = t /\ t # Pool
  BY <1>2, TestsAssumption DEF GetsDedicated, HasAnswer
<1>4. t \in Planned \ PoolTests
  <2>1. phase[t] \in {"requested", "refused"} /\ TestPlaced(t, phase[t])
    BY <1>1, <1>2 DEF HasAnswer, TestsPlaced
  <2> QED BY <2>1 DEF TestPlaced
<1>5. CASE NotStarted(t) /\ UNCHANGED <<workers, cancelled>>
  <2>1. /\ phase' = [phase EXCEPT ![t] = "done"]
        /\ keepStarting' = keepStarting /\ cancelled' = cancelled /\ workers' = workers
    BY <1>5 DEF NotStarted, StopOn
  <2> QED BY <1>3, <1>4, <2>1, ReturnCounts
<1>6. CASE FailsToStart(t, "failed") /\ UNCHANGED workers
  <2>1. phase' = [phase EXCEPT ![t] = "done"] /\ workers' = workers
    BY <1>6 DEF FailsToStart
  <2>2. keepStarting' => keepStarting
    BY <1>6 DEF FailsToStart, StopOn
  <2>3. cancelled => cancelled'
    BY <1>6 DEF FailsToStart
  <2>4. pool' = pool /\ t \notin PoolTests
    BY <1>3, <1>4
  <2> QED BY <2>1, <2>2, <2>3, <2>4, ReturnCounts
<1>7. CASE StartsBody(t) /\ workers' = Assigned(t, w)
  <2>1. PICK qh : qh = phase'
    OBVIOUS
  <2>2. PICK keeps : keeps = keepStarting'
    OBVIOUS
  <2>3. PICK cancels : cancels = cancelled'
    OBVIOUS
  <2>4. PICK vs : vs = Assigned(t, w)
    OBVIOUS
  <2>5. qh[t] = "running" /\ OneTest(phase, qh, t)
    <3>1. OneTest(phase, phase, t) /\ "running" \in Phases /\ MovesTo(phase, qh, t, "running")
      BY <1>7, <2>1 DEF OneTest, Phases, MovesTo, StartsBody
    <3> QED BY <1>1, <3>1, PhaseStep
  <2>6. TestsPlaced(qh)
    <3>1. TestPlaced(t, qh[t])
      BY <1>4, <2>5 DEF TestPlaced
    <3> QED BY <1>1, <2>5, <3>1, PhasePlaced
  <2>7. /\ OneSession(workers, vs, w) /\ SessionsPlaced(vs)
        /\ vs[w].owner = workers[w].owner
    BY <1>1, <1>3, <2>4, AssignedStep
  <2>8. Unmoved(workers, vs, w, cancels)
    <3>1. \A X : SessionGain(workers, vs, w, X) = 0
      BY <1>3, <2>7, SessionGains
    <3> QED BY <3>1 DEF Unmoved
  <2>9. Passed(phase, qh, t, keeps, cancels)
    BY <1>4, <2>5 DEF Passed, Answered, Begun, Phases
  <2>10. vs = workers' /\ (keeps => keepStarting) /\ (cancelled => cancels)
    BY <1>7, <2>2, <2>3, <2>4 DEF StartsBody, StopOn
  <2> QED BY <1>3, <2>1, <2>2, <2>3, <2>5, <2>6, <2>7, <2>8, <2>9, <2>10, QuietCounts
<1> QED BY <1>2, <1>5, <1>6, <1>7

\* The tests of sessions that run one are as many: unless the run was cancelled, no test of the
\* pool runs without a session.
LEMMA WorkerNotLost ==
    ASSUME Inv, CountInv, ~cancelled, NEW t \in PoolTests, phase[t] = "running"
    PROVE  \E w \in DOMAIN workers : Serving(w, t)
<1> SUFFICES ASSUME \A w \in DOMAIN workers : ~Serving(w, t) PROVE FALSE
  OBVIOUS
<1> DEFINE S == SessionsIn(workers, InTest)
           R == {u \in PoolTests : phase[u] \in {"running"}}
           f == [w \in S |-> workers[w].test]
<1>1. /\ workers \in Seq(WorkerShape) /\ WorkersDistinct /\ WorkersConsistent
      /\ SessionsPlaced(workers) /\ pool.running = Cardinality(S) /\ pool.running = Cardinality(R)
  BY DEF Inv, Shape, CountInv, Tallied, CountSessions, CountTests
<1>2. IsFiniteSet(S) /\ IsFiniteSet(R) /\ t \in R
  <2>1. IsFiniteSet(S)
    <3> HIDE DEF f, R
    <3> QED BY <1>1, SessionsFinite
  <2>2. PICK T \in SUBSET Tests : T = PoolTests
    BY TestSets
  <2>3. IsFiniteSet({u \in T : phase[u] \in {"running"}})
    BY TestsFinite
  <2> QED BY <2>1, <2>2, <2>3
<1>3. IsFiniteSet(R \ {t}) /\ Cardinality(R \ {t}) = Cardinality(R) - 1
  BY <1>2, FS_RemoveElement
<1>4. ASSUME NEW w \in S PROVE f[w] \in R \ {t} /\ workers[w].test # None
  <2>1. /\ w \in DOMAIN workers /\ workers[w].owner = Pool
        /\ workers[w].state \in {"running", "checking"}
    BY <1>4 DEF SessionsIn, InTest
  <2>2. workers[w].test # None /\ phase[workers[w].test] = "running"
    BY <1>1, <2>1 DEF WorkersConsistent, WorkerConsistent
  <2>3. workers[w].test \in PoolTests
    BY <1>1, <2>1, <2>2 DEF SessionsPlaced, SessionPlaced
  <2>4. workers[w].test # t
    BY <2>1 DEF Serving
  <2> QED BY <1>4, <2>2, <2>3, <2>4
<1>5. ASSUME NEW v \in S, NEW w \in S, f[v] = f[w] PROVE v = w
  <2>1. v \in DOMAIN workers /\ w \in DOMAIN workers /\ workers[v].test = workers[w].test
    BY <1>5 DEF SessionsIn
  <2>2. workers[v].test # None
    BY <1>4
  <2> QED BY <1>1, <2>1, <2>2 DEF WorkersDistinct
<1>6. f \in Injection(S, R \ {t})
  <2>1. f \in [S -> R \ {t}]
    BY <1>4
  <2>2. \A v, w \in S : f[v] = f[w] => v = w
    BY <1>5
  <2> HIDE DEF f, S, R
  <2> QED BY <2>1, <2>2 DEF Injection, IsInjective
<1> HIDE DEF f, S, R
<1>7. Cardinality(S) <= Cardinality(R \ {t})
  BY <1>2, <1>3, <1>6, FS_Injection DEF ExistsInjection
<1>8. Cardinality(S) \in Nat /\ Cardinality(R) \in Nat
  BY <1>2, FS_CardinalityType
<1> QED BY <1>1, <1>3, <1>7, <1>8

LEMMA OneRunsLess ==
    ASSUME NEW p \in PoolShape, NEW q, q = [p EXCEPT !.running = @ - 1]
    PROVE  /\ q \in PoolShape /\ q.idle = p.idle /\ q.creating = p.creating
           /\ q.resetting = p.resetting /\ q.alive = p.alive /\ q.waiting = p.waiting
           /\ q.upcoming = p.upcoming /\ q.upcomingAlways = p.upcomingAlways
           /\ q.closed = p.closed /\ q.running = p.running - 1
BY DEF PoolShape

LEMMA IsCancelledCounts ==
    ASSUME Inv, Inv', CountInv, NEW t \in Tests, IsCancelled(t)
    PROVE  CountInv'
<1>1. /\ workers \in Seq(WorkerShape) /\ phase \in [Tests -> Phases] /\ phase' \in [Tests -> Phases]
      /\ keepStarting \in BOOLEAN /\ cancelled \in BOOLEAN /\ pool \in PoolShape
      /\ keepStarting' \in BOOLEAN /\ cancelled' \in BOOLEAN
  BY StateShapes
<1>2. /\ Tallied(pool, workers, 0, phase, keepStarting, cancelled)
      /\ TestsPlaced(phase) /\ SessionsPlaced(workers)
  BY DEF CountInv
<1>3. /\ phase[t] = "running" /\ \A w \in DOMAIN workers : ~Serving(w, t)
      /\ phase' = [phase EXCEPT ![t] = "done"]
      /\ pool' = IF t \in PoolTests THEN [pool EXCEPT !.running = @ - 1] ELSE pool
      /\ keepStarting' = keepStarting /\ cancelled' = cancelled /\ workers' = workers
  BY DEF IsCancelled, LostWorker, StopOn
<1>4. t \in PoolTests => cancelled
  BY <1>3, WorkerNotLost
<1>5. PICK q : q = pool'
  OBVIOUS
<1>6. PICK ws : ws = workers
  OBVIOUS
<1>7. /\ q \in PoolShape /\ q.idle = pool.idle /\ q.creating = pool.creating
      /\ q.resetting = pool.resetting /\ q.alive = pool.alive /\ q.waiting = pool.waiting
      /\ q.upcoming = pool.upcoming /\ q.upcomingAlways = pool.upcomingAlways
      /\ q.closed = pool.closed
      /\ q.running = pool.running - (IF t \in PoolTests THEN 1 ELSE 0)
  <2>1. CASE t \in PoolTests
    <3>1. q = [pool EXCEPT !.running = @ - 1]
      BY <1>3, <1>5, <2>1
    <3>2. /\ q \in PoolShape /\ q.idle = pool.idle /\ q.creating = pool.creating
          /\ q.resetting = pool.resetting /\ q.alive = pool.alive /\ q.waiting = pool.waiting
          /\ q.upcoming = pool.upcoming /\ q.upcomingAlways = pool.upcomingAlways
          /\ q.closed = pool.closed /\ q.running = pool.running - 1
      BY <1>1, <3>1, OneRunsLess
    <3> QED BY <2>1, <3>2
  <2>2. CASE t \notin PoolTests
    <3>1. q = pool /\ pool.running \in Int
      BY <1>1, <1>3, <1>5, <2>2 DEF PoolShape
    <3> QED BY <1>1, <2>2, <3>1
  <2> QED BY <2>1, <2>2
<1>8. PICK keeps \in BOOLEAN : keeps = keepStarting
  BY <1>1
<1>9. PICK cancels \in BOOLEAN : cancels = cancelled
  BY <1>1
<1>10. /\ SessionGain(ws, ws, 0, Open) = 0 /\ SessionGain(ws, ws, 0, InCreation) = 0
       /\ SessionGain(ws, ws, 0, InReset) = 0 /\ SessionGain(ws, ws, 0, InTest) = 0
  BY SessionGains
<1>11. BodyOver(pool, q, ws, ws, 0, t) /\ SessionLeft(ws, ws, 0, t, cancels)
  <2>1. pool.resetting + 0 = pool.resetting
    BY <1>1 DEF PoolShape
  <2> QED BY <1>4, <1>7, <1>9, <1>10, <2>1 DEF BodyOver, SessionLeft
<1>12. PICK qh : qh = phase'
  OBVIOUS
<1>13. qh \in [Tests -> Phases] /\ qh[t] = "done" /\ OneTest(phase, qh, t)
  <2>1. OneTest(phase, phase, t) /\ "done" \in Phases /\ MovesTo(phase, qh, t, "done")
    BY <1>3, <1>12 DEF OneTest, Phases, MovesTo
  <2> QED BY <1>1, <2>1, PhaseStep
<1>14. TestsPlaced(qh)
  <2>1. TestPlaced(t, qh[t])
    BY <1>13 DEF TestPlaced
  <2> QED BY <1>2, <1>13, <2>1, PhasePlaced
<1>15. ws \in Seq(WorkerShape) /\ OneSession(ws, ws, 0)
  BY <1>1, <1>6, Untouched
<1>16. Counted(ws, 0, phase, keepStarting, cancelled)
       /\ Tallied(pool, ws, 0, phase, keepStarting, cancelled)
  BY <1>1, <1>2, <1>6 DEF Counted
<1>17. (keeps => keepStarting) /\ (cancelled => cancels)
  BY <1>8, <1>9
<1>18. Tallied(q, ws, 0, qh, keeps, cancels)
  BY <1>3, <1>7, <1>11, <1>13, <1>15, <1>16, <1>17, LeftTally
<1>19. Tallied(pool', workers', 0, phase', keepStarting', cancelled')
  BY <1>3, <1>5, <1>6, <1>8, <1>9, <1>12, <1>18
<1>20. TestsPlaced(phase') /\ SessionsPlaced(workers')
  BY <1>2, <1>3, <1>12, <1>14
<1> QED BY <1>19, <1>20 DEF CountInv

\* After the root suite, the pool closes.
LEMMA FinishSuiteCounts ==
    ASSUME Inv, Inv', CountInv, NEW s \in Suites, FinishSuite(s)
    PROVE  CountInv'
<1>1. /\ Tallied(pool, workers, 0, phase, keepStarting, cancelled)
      /\ TestsPlaced(phase) /\ SessionsPlaced(workers)
  BY DEF CountInv
<1>2. /\ phase' = phase /\ workers' = workers /\ keepStarting' = keepStarting
      /\ cancelled' = cancelled
      /\ pool' = pool \/ pool' = [pool EXCEPT !.closed = TRUE, !.idle = <<>>]
  BY DEF FinishSuite
<1>3. PICK q : q = pool'
  OBVIOUS
<1>4. Tallied(q, workers, 0, phase, keepStarting, cancelled)
  <2>1. CASE q = pool
    BY <1>1, <2>1
  <2>2. CASE q = [pool EXCEPT !.closed = TRUE, !.idle = <<>>]
    <3>1. pool \in Pools
      BY <1>1 DEF Tallied
    <3>2. <<>> \in Queue
      BY DEF Queue
    <3>3. /\ q \in Pools /\ q.creating = pool.creating
          /\ q.resetting = pool.resetting /\ q.running = pool.running /\ q.alive = pool.alive
          /\ q.waiting = pool.waiting /\ q.upcoming = pool.upcoming
          /\ q.upcomingAlways = pool.upcomingAlways /\ q.closed
      BY <2>2, <3>1, <3>2 DEF Pools
    <3> QED BY <1>1, <3>3 DEF Tallied
  <2> QED BY <1>2, <1>3, <2>1, <2>2
<1>5. Tallied(pool', workers', 0, phase', keepStarting', cancelled')
  BY <1>2, <1>3, <1>4
<1> QED BY <1>1, <1>2, <1>5 DEF CountInv

-----------------------------------------------------------------------------
(* Steps of the sessions.                                                  *)

\* Session w goes on, with its test or without.
GoesOn(ws, vs, w) ==
    /\ w \in DOMAIN ws /\ DOMAIN vs = DOMAIN ws
    /\ \A v \in DOMAIN ws : v # w => vs[v] = ws[v]
    /\ vs[w].owner = ws[w].owner /\ vs[w].test \in {None, ws[w].test}
    /\ vs[w].outcome \in {None, ws[w].outcome} \union Outcomes
    /\ vs[w].state = "checking" => "timedOut" \in Outcomes

LEMMA GoesOnFacts ==
    ASSUME NEW ws, SessionsPlaced(ws), NEW vs, NEW w, GoesOn(ws, vs, w)
    PROVE  OneSession(ws, vs, w) /\ SessionsPlaced(vs)
<1>1. OneSession(ws, vs, w)
  BY DEF GoesOn, OneSession
<1>2. SessionPlaced(vs[w])
  <2>1. SessionPlaced(ws[w])
    BY DEF GoesOn, SessionsPlaced
  <2>2. vs[w].outcome \in {None} \union Outcomes
    BY <2>1 DEF GoesOn, SessionPlaced
  <2> QED BY <2>1, <2>2 DEF GoesOn, SessionPlaced
<1> QED BY <1>1, <1>2, SessionChangedPlaced

ComesTo(ws, w, x) == ws = [workers EXCEPT ![w].state = x]

LEMMA ChangedGoesOn ==
    ASSUME workers \in Seq(WorkerShape), NEW w \in DOMAIN workers, NEW x \in States,
           NEW ws, ComesTo(ws, w, x),
           x = "checking" => "timedOut" \in Outcomes
    PROVE  /\ ws \in Seq(WorkerShape) /\ GoesOn(workers, ws, w)
           /\ ws[w].state = x /\ ws[w].owner = workers[w].owner
<1>1. ws = [workers EXCEPT ![w].state = x]
  BY DEF ComesTo
<1>2. /\ ws \in Seq(WorkerShape) /\ DOMAIN ws = DOMAIN workers
      /\ ws[w].state = x /\ ws[w].owner = workers[w].owner /\ ws[w].test = workers[w].test
      /\ ws[w].outcome = workers[w].outcome
      /\ \A v \in DOMAIN workers : v # w => ws[v] = workers[v]
  BY <1>1, StateChanged
<1> QED BY <1>2 DEF GoesOn

LEMMA LeftGoesOn ==
    ASSUME workers \in Seq(WorkerShape), NEW w \in DOMAIN workers, NEW x \in States,
           NEW ws, ws = Left(w, x),
           x = "checking" => "timedOut" \in Outcomes
    PROVE  /\ ws \in Seq(WorkerShape) /\ GoesOn(workers, ws, w)
           /\ ws[w].state = x /\ ws[w].owner = workers[w].owner
<1>1. /\ ws \in Seq(WorkerShape) /\ DOMAIN ws = DOMAIN workers
      /\ ws[w].state = x /\ ws[w].owner = workers[w].owner /\ ws[w].test = None
      /\ ws[w].outcome = workers[w].outcome
      /\ \A v \in DOMAIN workers : v # w => ws[v] = workers[v]
  BY TestLeft
<1> QED BY <1>1 DEF GoesOn

LEMMA UnmovedStates ==
    ASSUME NEW ws, NEW vs, NEW w, vs[w].owner = ws[w].owner, NEW cancels \in BOOLEAN,
           \/ ws[w].owner # Pool
           \/ ws[w].state = "requested" /\ vs[w].state = "creating"
           \/ ws[w].state = "offered" /\ vs[w].state = "quitting"
           \/ ws[w].state = "running" /\ vs[w].state = "checking"
           \/ /\ cancels /\ vs[w].state = "quitting"
              /\ ws[w].state \in {"offered", "running", "checking", "resetting"}
    PROVE  Unmoved(ws, vs, w, cancels)
BY DEF Unmoved, SessionGain, Open, InCreation, InReset, InTest, States

\* A session goes on and the pool is not told.
LEMMA UntoldCounts ==
    ASSUME Inv, Inv', CountInv, pool' = pool, phase' = phase, cancelled' = cancelled,
           keepStarting' => keepStarting,
           NEW vs, vs = workers', NEW w, GoesOn(workers, vs, w), Unmoved(workers, vs, w, cancelled)
    PROVE  CountInv'
<1>1. TestsPlaced(phase) /\ SessionsPlaced(workers)
  BY DEF CountInv
<1>2. OneSession(workers, vs, w) /\ SessionsPlaced(vs)
  BY <1>1, GoesOnFacts
<1>3. PICK keeps : keeps = keepStarting'
  OBVIOUS
<1>4. PICK cancels : cancels = cancelled
  OBVIOUS
<1>5. PICK qh : qh = phase
  OBVIOUS
<1>6. /\ OneTest(phase, qh, None) /\ Passed(phase, qh, None, keeps, cancels) /\ TestsPlaced(qh)
  BY <1>1, <1>5 DEF OneTest, Passed
<1>7. /\ qh = phase' /\ cancels = cancelled'
      /\ (keeps => keepStarting) /\ (cancelled => cancels) /\ Unmoved(workers, vs, w, cancels)
  BY <1>3, <1>4, <1>5
<1> QED BY <1>2, <1>3, <1>6, <1>7, QuietCounts

LEMMA SpawnCounts ==
    ASSUME Inv, Inv', CountInv, Spawn
    PROVE  CountInv'
<1>0. PICK w : w = Head(requests)
  OBVIOUS
<1>1. /\ HasRequest
      /\ workers' = [workers EXCEPT ![w].state = "creating"]
      /\ phase' = phase /\ pool' = pool /\ keepStarting' = keepStarting /\ cancelled' = cancelled
  BY <1>0 DEF Spawn, executor
<1>2. workers \in Seq(WorkerShape) /\ requests \in Seq(Nat) /\ RequestsConsistent
      /\ cancelled \in BOOLEAN
  BY DEF Inv, Shape
<1>3. w \in DOMAIN workers /\ workers[w].state = "requested"
  <2>1. /\ requests # <<>> /\ w = requests[1] /\ requests[1] # Close
        /\ Len(requests) \in Nat /\ Len(requests) # 0 /\ DOMAIN requests = 1 .. Len(requests)
    BY <1>0, <1>1, <1>2 DEF HasRequest
  <2> QED BY <1>2, <2>1 DEF RequestsConsistent
<1>4. PICK vs : vs = workers'
  OBVIOUS
<1>5. GoesOn(workers, vs, w) /\ vs[w].state = "creating" /\ vs[w].owner = workers[w].owner
  <2>1. "creating" \in States /\ ComesTo(vs, w, "creating")
    BY <1>1, <1>4 DEF States, ComesTo
  <2> QED BY <1>2, <1>3, <2>1, ChangedGoesOn
<1>6. Unmoved(workers, vs, w, cancelled)
  BY <1>2, <1>3, <1>5, UnmovedStates
<1> QED BY <1>1, <1>4, <1>5, <1>6, UntoldCounts

LEMMA LeavesCounts ==
    ASSUME Inv, Inv', CountInv, NEW w \in DOMAIN workers, Release(w) \/ Dropped(w)
    PROVE  CountInv'
<1>1. /\ workers' = [workers EXCEPT ![w].state = "quitting", ![w].test = None]
      /\ phase' = phase /\ pool' = pool /\ keepStarting' = keepStarting /\ cancelled' = cancelled
      /\ \/ workers[w].state = "offered"
         \/ cancelled /\ workers[w].state \in {"offered", "running", "checking", "resetting"}
  BY DEF Release, IsReleased, Dropped, executor
<1>2. workers \in Seq(WorkerShape) /\ cancelled \in BOOLEAN
  BY DEF Inv, Shape
<1>3. PICK vs : vs = workers'
  OBVIOUS
<1>4. GoesOn(workers, vs, w) /\ vs[w].state = "quitting" /\ vs[w].owner = workers[w].owner
  <2>1. "quitting" \in States /\ vs = Left(w, "quitting")
    BY <1>1, <1>3 DEF States, Left
  <2> QED BY <1>2, <2>1, LeftGoesOn
<1>5. Unmoved(workers, vs, w, cancelled)
  BY <1>1, <1>2, <1>4, UnmovedStates
<1> QED BY <1>1, <1>3, <1>4, <1>5, UntoldCounts

LEMMA TimesOutCounts ==
    ASSUME Inv, Inv', CountInv, NEW w \in DOMAIN workers, TimesOut(w)
    PROVE  CountInv'
<1>1. /\ workers' = [workers EXCEPT ![w].state = "checking"] /\ workers[w].state = "running"
      /\ phase' = phase /\ pool' = pool /\ cancelled' = cancelled
  BY DEF TimesOut
<1>2. keepStarting' => keepStarting
  BY DEF TimesOut, StopOn
<1>3. workers \in Seq(WorkerShape) /\ cancelled \in BOOLEAN
  BY DEF Inv, Shape
<1>4. PICK vs : vs = workers'
  OBVIOUS
<1>5. GoesOn(workers, vs, w) /\ vs[w].state = "checking" /\ vs[w].owner = workers[w].owner
  <2>1. /\ "checking" \in States /\ ComesTo(vs, w, "checking")
        /\ "timedOut" \in Outcomes
    BY <1>1, <1>4 DEF States, ComesTo, TimesOut
  <2> QED BY <1>3, <2>1, ChangedGoesOn
<1>6. Unmoved(workers, vs, w, cancelled)
  BY <1>1, <1>3, <1>5, UnmovedStates
<1> QED BY <1>1, <1>2, <1>4, <1>5, <1>6, UntoldCounts

\* A step of neither tests nor sessions.
LEMMA UnchangedCounts ==
    ASSUME Inv, Inv', CountInv, pool' = pool, phase' = phase, workers' = workers,
           keepStarting' = keepStarting, cancelled => cancelled'
    PROVE  CountInv'
<1>2. PICK vs : vs = workers
  OBVIOUS
<1>3. PICK qh : qh = phase
  OBVIOUS
<1>4. PICK keeps : keeps = keepStarting
  OBVIOUS
<1>5. PICK cancels : cancels = cancelled'
  OBVIOUS
<1>6. /\ TestsPlaced(qh) /\ SessionsPlaced(vs)
      /\ OneTest(phase, qh, None) /\ Passed(phase, qh, None, keeps, cancels)
  BY <1>2, <1>3 DEF CountInv, OneTest, Passed
<1>7. OneSession(workers, vs, 0) /\ Unmoved(workers, vs, 0, cancels)
  BY <1>2, Untouched
<1>8. /\ vs = workers' /\ qh = phase' /\ keeps = keepStarting'
      /\ (keeps => keepStarting) /\ (cancelled => cancels)
  BY <1>2, <1>3, <1>4, <1>5
<1> QED BY <1>5, <1>6, <1>7, <1>8, QuietCounts

LEMMA CancelCounts ==
    ASSUME Inv, Inv', CountInv, Cancel \/ UNCHANGED vars
    PROVE  CountInv'
<1>1. /\ pool' = pool /\ phase' = phase /\ workers' = workers /\ keepStarting' = keepStarting
      /\ cancelled => cancelled'
  BY DEF Cancel, vars, executor, sessions
<1> QED BY <1>1, UnchangedCounts

\* A pool session goes on, and the pool q is told.
Follows(q, vs, w) ==
    /\ GoesOn(workers, vs, w) /\ SessionGain(workers, vs, w, InTest) = 0
    /\ q \in PoolShape /\ Followed(pool, q, workers, vs, w)

LEMMA FollowsTally ==
    ASSUME Inv, CountInv, NEW keeps \in BOOLEAN, keeps => keepStarting,
           NEW vs \in Seq(WorkerShape), NEW q, NEW w, Follows(q, vs, w)
    PROVE  Tallied(q, vs, 0, phase, keeps, cancelled) /\ SessionsPlaced(vs)
<1>1. /\ GoesOn(workers, vs, w) /\ SessionGain(workers, vs, w, InTest) = 0
      /\ q \in PoolShape /\ Followed(pool, q, workers, vs, w)
  BY DEF Follows
<1>2. /\ Tallied(pool, workers, 0, phase, keepStarting, cancelled) /\ SessionsPlaced(workers)
      /\ Counted(workers, 0, phase, keepStarting, cancelled)
  BY DEF CountInv, Counted, Inv, Shape
<1>3. OneSession(workers, vs, w) /\ SessionsPlaced(vs)
  BY <1>1, <1>2, GoesOnFacts
<1>4. Tallied(q, vs, 0, phase, keeps, cancelled)
  BY <1>1, <1>2, <1>3, SessionTally
<1> QED BY <1>3, <1>4

LEMMA FollowsCounts ==
    ASSUME Inv, Inv', CountInv, phase' = phase, cancelled' = cancelled,
           keepStarting' => keepStarting,
           NEW vs, vs = workers', NEW q, q = pool', NEW w, Follows(q, vs, w)
    PROVE  CountInv'
<1>1. PICK keeps \in BOOLEAN : keeps = keepStarting'
  BY StateShapes
<1>2. (keeps => keepStarting) /\ vs \in Seq(WorkerShape)
  BY <1>1, StateShapes
<1>3. Tallied(q, vs, 0, phase, keeps, cancelled) /\ SessionsPlaced(vs)
  BY <1>2, FollowsTally
<1>4. Tallied(pool', workers', 0, phase', keepStarting', cancelled')
  BY <1>1, <1>3
<1>5. TestsPlaced(phase') /\ SessionsPlaced(workers')
  BY <1>3 DEF CountInv
<1> QED BY <1>4, <1>5 DEF CountInv

\* The pool then looks for sessions that it needs.
LEMMA EndsCounts ==
    ASSUME Inv, Inv', CountInv, phase' = phase, cancelled' = cancelled,
           keepStarting' => keepStarting,
           NEW vs \in Seq(WorkerShape), NEW q, NEW w, Follows(q, vs, w),
           NEW k \in BOOLEAN, Update(Replenish(q, k, cancelled), q.alive, vs)
    PROVE  CountInv'
<1>1. PICK keeps \in BOOLEAN : keeps = keepStarting'
  BY StateShapes
<1>2. keeps => keepStarting
  BY <1>1
<1>3. Tallied(q, vs, 0, phase, keeps, cancelled) /\ SessionsPlaced(vs)
  BY <1>2, FollowsTally
<1>4. PICK open \in Int : open = q.alive
  BY <1>3 DEF Tallied, Pools
<1>5. PICK n \in Nat : n = 0
  OBVIOUS
<1>6. PICK cancel \in BOOLEAN : cancel = cancelled
  BY StateShapes
<1>7. /\ n = q.alive - open /\ Tallied(q, vs, n, phase, keeps, cancel)
      /\ Update(Replenish(q, k, cancel), open, vs)
  BY <1>3, <1>4, <1>5, <1>6
<1>8. phase \in [Tests -> Phases] /\ TestsPlaced(phase) /\ requests \in Seq(Nat)
  BY StateShapes DEF CountInv
<1>9. phase' = phase /\ keepStarting' = keeps /\ cancelled' = cancel
  BY <1>1, <1>6
<1> QED BY <1>3, <1>7, <1>8, <1>9, ReplenishUpdateCounts

\* How a session of the pool counts.
LEMMA PooledGain ==
    ASSUME NEW ws, NEW vs, NEW w, NEW X, ws[w].owner = Pool, vs[w].owner = Pool
    PROVE  SessionGain(ws, vs, w, X) =
               (IF vs[w].state \in X THEN 1 ELSE 0) - (IF ws[w].state \in X THEN 1 ELSE 0)
BY DEF SessionGain

\* A ticket joins the queue, unless the pool is closed.
LEMMA OfferFacts ==
    ASSUME NEW p \in PoolShape, NEW w \in Nat, NEW sort \in C!Sorts, NEW q, q = Offer(p, w, sort)
    PROVE  /\ q \in PoolShape /\ q.creating = p.creating /\ q.resetting = p.resetting
           /\ q.running = p.running /\ q.alive = p.alive /\ q.waiting = p.waiting
           /\ q.upcoming = p.upcoming /\ q.upcomingAlways = p.upcomingAlways
           /\ q.closed = p.closed
           /\ Unused(p) \in Int /\ Unused(q) \in Int
           /\ ~p.closed => Unused(q) = Unused(p) + (IF sort \in {"created", "failed"} THEN 1 ELSE 0)
<1>1. PICK ticket \in Ticket : ticket = [session |-> w, sort |-> sort]
  BY DEF Ticket
<1>2. PICK idle : idle = IF p.closed THEN p.idle ELSE Append(p.idle, ticket)
  OBVIOUS
<1>3. p.idle \in Queue /\ p.creating \in Int
  BY DEF PoolShape
<1>4. Append(p.idle, ticket) \in Queue
  <2>1. PICK sorts : sorts = sort
    OBVIOUS
  <2> QED BY <1>3, AppendedTicket
<1>5. idle \in Queue
  BY <1>2, <1>3, <1>4
<1>6. q = [p EXCEPT !.idle = idle]
  BY <1>1, <1>2 DEF Offer, PoolShape
<1>7. /\ q \in PoolShape /\ q.idle = idle /\ q.creating = p.creating /\ q.resetting = p.resetting
      /\ q.running = p.running /\ q.alive = p.alive /\ q.waiting = p.waiting
      /\ q.upcoming = p.upcoming /\ q.upcomingAlways = p.upcomingAlways
      /\ q.closed = p.closed
  BY <1>5, <1>6 DEF PoolShape
<1>8. ASSUME ~p.closed
      PROVE  Unused(q) = Unused(p) + (IF sort \in {"created", "failed"} THEN 1 ELSE 0)
  <2>1. idle = Append(p.idle, ticket) /\ ticket.sort = sort
    BY <1>1, <1>2, <1>8
  <2>2. /\ OfSort(idle, "created") =
               OfSort(p.idle, "created") + (IF sort = "created" THEN 1 ELSE 0)
        /\ OfSort(idle, "failed") =
               OfSort(p.idle, "failed") + (IF sort = "failed" THEN 1 ELSE 0)
    BY <1>3, <2>1, AppendedTicket
  <2>3. OfSort(p.idle, "created") \in Nat /\ OfSort(p.idle, "failed") \in Nat
    BY <1>3, SortedTickets
  <2> QED BY <1>3, <1>7, <2>2, <2>3 DEF Unused
<1>9. Unused(p) \in Int /\ Unused(q) \in Int
  BY <1>7, UnusedFacts
<1> QED BY <1>7, <1>8, <1>9

\* The pool without a session that was being created or reset, or that was open.
LEMMA OneLess ==
    ASSUME NEW p \in PoolShape, NEW q,
           \/ q = [p EXCEPT !.creating = @ - 1]
           \/ q = [p EXCEPT !.resetting = @ - 1]
           \/ q = [p EXCEPT !.alive = @ - 1]
    PROVE  /\ q \in PoolShape /\ q.idle = p.idle /\ q.running = p.running
           /\ q.waiting = p.waiting /\ q.upcoming = p.upcoming
           /\ q.upcomingAlways = p.upcomingAlways /\ q.closed = p.closed
BY DEF PoolShape

\* The arithmetic of the steps that tell the pool.
LEMMA CreatedFollows ==
    ASSUME pool \in PoolShape, NEW p, p = [pool EXCEPT !.creating = @ - 1],
           NEW w \in Nat, NEW q, q = Offer(p, w, "created"), NEW vs, GoesOn(workers, vs, w),
           workers[w].owner = Pool, workers[w].state = "creating", vs[w].state = "offered"
    PROVE  Follows(q, vs, w)
<1>1. /\ p \in PoolShape /\ p.idle = pool.idle /\ p.running = pool.running
      /\ p.waiting = pool.waiting /\ p.upcoming = pool.upcoming
      /\ p.upcomingAlways = pool.upcomingAlways /\ p.closed = pool.closed
  BY OneLess
<1>2. /\ p.creating = pool.creating - 1 /\ p.resetting = pool.resetting /\ p.alive = pool.alive
      /\ pool.creating \in Int /\ pool.resetting \in Int /\ pool.alive \in Int
  BY DEF PoolShape
<1>3. "created" \in C!Sorts
  BY DEF C!Sorts
<1>4. /\ q \in PoolShape /\ q.creating = p.creating /\ q.resetting = p.resetting
      /\ q.running = p.running /\ q.alive = p.alive /\ q.waiting = p.waiting
      /\ q.upcoming = p.upcoming /\ q.upcomingAlways = p.upcomingAlways
      /\ q.closed = p.closed
  BY ONLY <1>1, <1>3, w \in Nat, q = Offer(p, w, "created"), OfferFacts
<1>5. /\ Unused(p) \in Int /\ Unused(q) \in Int
      /\ ~p.closed => Unused(q) = Unused(p) + 1
  BY ONLY <1>1, <1>3, w \in Nat, q = Offer(p, w, "created"), OfferFacts
<1>6. Unused(p) = Unused(pool) - 1 /\ Unused(pool) \in Int
  <2>1. OfSort(pool.idle, "created") \in Nat /\ OfSort(pool.idle, "failed") \in Nat
    BY SortedTickets DEF PoolShape
  <2> QED BY <1>1, <1>2, <2>1 DEF Unused
<1>7. ~pool.closed => Unused(q) >= Unused(pool)
  BY <1>1, <1>5, <1>6
<1>8. /\ SessionGain(workers, vs, w, Open) = 0 /\ SessionGain(workers, vs, w, InCreation) = -1
      /\ SessionGain(workers, vs, w, InReset) = 0 /\ SessionGain(workers, vs, w, InTest) = 0
  BY DEF GoesOn, SessionGain, Open, InCreation, InReset, InTest, States
<1>9. Followed(pool, q, workers, vs, w)
  BY <1>1, <1>2, <1>4, <1>7, <1>8 DEF Followed
<1> QED BY <1>4, <1>8, <1>9 DEF Follows

LEMMA CreationFailsFollows ==
    ASSUME pool \in PoolShape, NEW p, p = [pool EXCEPT !.creating = @ - 1],
           NEW w \in Nat, NEW o, o = Offer(p, w, "failed"), NEW q, q = [o EXCEPT !.alive = @ - 1],
           NEW vs, GoesOn(workers, vs, w),
           workers[w].owner = Pool, workers[w].state = "creating", vs[w].state = "ended"
    PROVE  Follows(q, vs, w) /\ q.alive = pool.alive - 1
<1>1. /\ p \in PoolShape /\ p.idle = pool.idle /\ p.running = pool.running
      /\ p.waiting = pool.waiting /\ p.upcoming = pool.upcoming
      /\ p.upcomingAlways = pool.upcomingAlways /\ p.closed = pool.closed
  BY OneLess
<1>2. /\ p.creating = pool.creating - 1 /\ p.resetting = pool.resetting /\ p.alive = pool.alive
      /\ pool.creating \in Int /\ pool.resetting \in Int /\ pool.alive \in Int
  BY DEF PoolShape
<1>3. "failed" \in C!Sorts
  BY DEF C!Sorts
<1>4. /\ o \in PoolShape /\ o.creating = p.creating /\ o.resetting = p.resetting
      /\ o.running = p.running /\ o.alive = p.alive /\ o.waiting = p.waiting
      /\ o.upcoming = p.upcoming /\ o.upcomingAlways = p.upcomingAlways
      /\ o.closed = p.closed
  BY ONLY <1>1, <1>3, w \in Nat, o = Offer(p, w, "failed"), OfferFacts
<1>5. /\ Unused(p) \in Int /\ Unused(o) \in Int
      /\ ~p.closed => Unused(o) = Unused(p) + 1
  BY ONLY <1>1, <1>3, w \in Nat, o = Offer(p, w, "failed"), OfferFacts
<1>6. Unused(p) = Unused(pool) - 1 /\ Unused(pool) \in Int
  <2>1. OfSort(pool.idle, "created") \in Nat /\ OfSort(pool.idle, "failed") \in Nat
    BY SortedTickets DEF PoolShape
  <2> QED BY <1>1, <1>2, <2>1 DEF Unused
<1>7. /\ q \in PoolShape /\ q.idle = o.idle /\ q.running = o.running
      /\ q.waiting = o.waiting /\ q.upcoming = o.upcoming
      /\ q.upcomingAlways = o.upcomingAlways /\ q.closed = o.closed
  BY <1>4, OneLess
<1>8. /\ q.alive = o.alive - 1 /\ q.creating = o.creating /\ q.resetting = o.resetting
  BY <1>4 DEF PoolShape
<1>9. ~pool.closed => Unused(q) >= Unused(pool)
  <2>1. Unused(q) = Unused(o)
    BY <1>7, <1>8 DEF Unused
  <2> QED BY <1>1, <1>5, <1>6, <2>1
<1>10. /\ SessionGain(workers, vs, w, Open) = -1 /\ SessionGain(workers, vs, w, InCreation) = -1
       /\ SessionGain(workers, vs, w, InReset) = 0 /\ SessionGain(workers, vs, w, InTest) = 0
  BY DEF GoesOn, SessionGain, Open, InCreation, InReset, InTest, States
<1>11. /\ q.running = pool.running /\ q.waiting = pool.waiting /\ q.upcoming = pool.upcoming
       /\ q.upcomingAlways = pool.upcomingAlways /\ q.closed = pool.closed
  BY <1>1, <1>4, <1>7
<1>12. /\ q.alive = pool.alive - 1 /\ q.creating = pool.creating - 1
       /\ q.resetting = pool.resetting + 0
  BY <1>2, <1>4, <1>8
<1>13. Followed(pool, q, workers, vs, w)
  BY <1>2, <1>9, <1>10, <1>11, <1>12 DEF Followed
<1> QED BY <1>7, <1>10, <1>12, <1>13 DEF Follows

LEMMA ResetFollows ==
    ASSUME pool \in PoolShape, NEW p, p = [pool EXCEPT !.resetting = @ - 1],
           NEW w \in Nat, NEW q, q = p \/ q = Offer(p, w, "reset"),
           NEW vs, GoesOn(workers, vs, w),
           workers[w].owner = Pool, workers[w].state = "resetting",
           vs[w].state \in {"offered", "quitting"}
    PROVE  Follows(q, vs, w) /\ q.alive = pool.alive
<1>1. /\ p \in PoolShape /\ p.idle = pool.idle /\ p.running = pool.running
      /\ p.waiting = pool.waiting /\ p.upcoming = pool.upcoming
      /\ p.upcomingAlways = pool.upcomingAlways /\ p.closed = pool.closed
  BY OneLess
<1>2. /\ p.resetting = pool.resetting - 1 /\ p.creating = pool.creating /\ p.alive = pool.alive
      /\ pool.creating \in Int /\ pool.resetting \in Int /\ pool.alive \in Int
  BY DEF PoolShape
<1>3. "reset" \in C!Sorts
  BY DEF C!Sorts
<1>4. /\ q \in PoolShape /\ q.creating = p.creating /\ q.resetting = p.resetting
      /\ q.running = p.running /\ q.alive = p.alive /\ q.waiting = p.waiting
      /\ q.upcoming = p.upcoming /\ q.upcomingAlways = p.upcomingAlways
      /\ q.closed = p.closed
  <2>1. CASE q = p
    BY <1>1, <2>1
  <2>2. CASE q = Offer(p, w, "reset")
    BY ONLY <1>1, <1>3, <2>2, w \in Nat, OfferFacts
  <2> QED BY <2>1, <2>2
<1>5. /\ Unused(p) \in Int /\ Unused(q) \in Int
      /\ ~p.closed => Unused(q) = Unused(p)
  <2>1. CASE q = p
    BY <1>1, <2>1, UnusedFacts
  <2>2. CASE q = Offer(p, w, "reset")
    <3>1. /\ Unused(p) \in Int /\ Unused(q) \in Int
          /\ ~p.closed => Unused(q) = Unused(p)
                             + (IF "reset" \in {"created", "failed"} THEN 1 ELSE 0)
      BY ONLY <1>1, <1>3, <2>2, w \in Nat, OfferFacts
    <3> QED BY <3>1
  <2> QED BY <2>1, <2>2
<1>6. Unused(p) = Unused(pool)
  BY <1>1, <1>2 DEF Unused
<1>7. ~pool.closed => Unused(q) >= Unused(pool)
  BY <1>1, <1>5, <1>6
<1>8. /\ SessionGain(workers, vs, w, Open) = 0 /\ SessionGain(workers, vs, w, InCreation) = 0
      /\ SessionGain(workers, vs, w, InReset) = -1 /\ SessionGain(workers, vs, w, InTest) = 0
  BY DEF GoesOn, SessionGain, Open, InCreation, InReset, InTest, States
<1>9. Followed(pool, q, workers, vs, w)
  BY <1>1, <1>2, <1>4, <1>7, <1>8 DEF Followed
<1> QED BY <1>2, <1>4, <1>8, <1>9 DEF Follows

LEMMA QuitsFollows ==
    ASSUME pool \in PoolShape, NEW q, q = [pool EXCEPT !.alive = @ - 1],
           NEW w, NEW vs, GoesOn(workers, vs, w),
           workers[w].owner = Pool, workers[w].state = "quitting", vs[w].state = "ended"
    PROVE  Follows(q, vs, w) /\ q.alive = pool.alive - 1
<1>1. /\ q \in PoolShape /\ q.idle = pool.idle /\ q.running = pool.running
      /\ q.waiting = pool.waiting /\ q.upcoming = pool.upcoming
      /\ q.upcomingAlways = pool.upcomingAlways /\ q.closed = pool.closed
  BY OneLess
<1>2. /\ q.resetting = pool.resetting /\ q.creating = pool.creating /\ q.alive = pool.alive - 1
      /\ pool.creating \in Int /\ pool.resetting \in Int /\ pool.alive \in Int
  BY DEF PoolShape
<1>3. Unused(q) = Unused(pool) /\ Unused(pool) \in Int
  BY <1>1, <1>2, UnusedFacts DEF Unused
<1>4. /\ SessionGain(workers, vs, w, Open) = -1 /\ SessionGain(workers, vs, w, InCreation) = 0
      /\ SessionGain(workers, vs, w, InReset) = 0 /\ SessionGain(workers, vs, w, InTest) = 0
  BY DEF GoesOn, SessionGain, Open, InCreation, InReset, InTest, States
<1>5. Followed(pool, q, workers, vs, w)
  BY <1>1, <1>2, <1>3, <1>4 DEF Followed
<1> QED BY <1>1, <1>2, <1>4, <1>5 DEF Follows

LEMMA CreatedCounts ==
    ASSUME Inv, Inv', CountInv, NEW w \in DOMAIN workers, Created(w)
    PROVE  CountInv'
<1>1. /\ workers[w].state = "creating"
      /\ phase' = phase /\ keepStarting' = keepStarting /\ cancelled' = cancelled
  BY DEF Created
<1>2. PICK baseline \in BOOLEAN :
         workers' = [workers EXCEPT ![w].state = "offered", ![w].baseline = baseline]
  BY SettingsAssumption DEF Created
<1>3. PICK vs : vs = workers'
  OBVIOUS
<1>4. workers \in Seq(WorkerShape) /\ pool \in PoolShape /\ w \in Nat /\ cancelled \in BOOLEAN
  <2>1. workers \in Seq(WorkerShape)
    BY StateShapes
  <2>2. w \in Nat
    BY <2>1
  <2> QED BY <2>1, <2>2, StateShapes
<1>5. GoesOn(workers, vs, w) /\ vs[w].state = "offered" /\ vs[w].owner = workers[w].owner
  <2>1. workers[w] \in WorkerShape
    BY <1>4
  <2>2. /\ DOMAIN vs = DOMAIN workers
        /\ \A v \in DOMAIN workers : v # w => vs[v] = workers[v]
        /\ vs[w] = [workers[w] EXCEPT !.state = "offered", !.baseline = baseline]
    BY <1>2, <1>3, <1>4
  <2>3. /\ vs[w].state = "offered" /\ vs[w].owner = workers[w].owner
        /\ vs[w].test = workers[w].test /\ vs[w].outcome = workers[w].outcome
    BY <2>1, <2>2 DEF WorkerShape
  <2> QED BY <2>2, <2>3 DEF GoesOn
<1>6. CASE ~Pooled(w)
  <2>1. pool' = pool /\ workers[w].owner # Pool
    BY <1>6 DEF Created, Pooled
  <2>2. Unmoved(workers, vs, w, cancelled)
    BY <1>4, <1>5, <2>1, UnmovedStates
  <2> QED BY <1>1, <1>3, <1>5, <2>1, <2>2, UntoldCounts
<1>7. CASE Pooled(w)
  <2>1. PICK p : p = [pool EXCEPT !.creating = @ - 1]
    OBVIOUS
  <2>2. PICK q : q = pool'
    OBVIOUS
  <2>3. q = Offer(p, w, "created") /\ workers[w].owner = Pool
    BY <1>7, <2>1, <2>2 DEF Created, Pooled
  <2>4. Follows(q, vs, w)
    BY <1>1, <1>4, <1>5, <2>1, <2>3, CreatedFollows
  <2> QED BY <1>1, <1>3, <2>2, <2>4, FollowsCounts
<1> QED BY <1>6, <1>7

LEMMA CreationFailsCounts ==
    ASSUME Inv, Inv', CountInv, NEW w \in DOMAIN workers, CreationFails(w)
    PROVE  CountInv'
<1>1. /\ workers[w].state = "creating"
      /\ keepStarting' = keepStarting /\ cancelled' = cancelled
  BY DEF CreationFails
<1>2. /\ workers \in Seq(WorkerShape) /\ pool \in PoolShape
      /\ keepStarting \in BOOLEAN /\ cancelled \in BOOLEAN
      /\ phase \in [Tests -> Phases] /\ TestsPlaced(phase) /\ SessionsPlaced(workers)
  BY StateShapes DEF CountInv
<1>3. w \in Nat
  BY <1>2
<1>4. PICK vs : vs = [workers EXCEPT ![w].state = "ended"]
  OBVIOUS
<1>5. /\ vs \in Seq(WorkerShape) /\ GoesOn(workers, vs, w)
      /\ vs[w].state = "ended" /\ vs[w].owner = workers[w].owner
  <2>1. "ended" \in States /\ ComesTo(vs, w, "ended")
    BY <1>4 DEF States, ComesTo
  <2> QED BY <1>2, <2>1, ChangedGoesOn
<1>6. CASE Pooled(w)
  <2>1. PICK p : p = [pool EXCEPT !.creating = @ - 1]
    OBVIOUS
  <2>2. PICK o : o = Offer(p, w, "failed")
    OBVIOUS
  <2>3. PICK q : q = [o EXCEPT !.alive = @ - 1]
    OBVIOUS
  <2>4. /\ Update(Replenish(q, keepStarting, cancelled), pool.alive - 1, vs)
        /\ workers[w].owner = Pool /\ phase' = phase
    BY <1>4, <1>6, <2>1, <2>2, <2>3 DEF CreationFails, Ended, Pooled
  <2>5. Follows(q, vs, w) /\ q.alive = pool.alive - 1
    BY <1>1, <1>2, <1>3, <1>5, <2>1, <2>2, <2>3, <2>4, CreationFailsFollows
  <2>6. PICK k \in BOOLEAN : k = keepStarting
    BY <1>2
  <2>7. Update(Replenish(q, k, cancelled), q.alive, vs) /\ (keepStarting' => keepStarting)
    BY <1>1, <2>4, <2>5, <2>6
  <2> QED BY <1>1, <1>5, <2>4, <2>5, <2>7, EndsCounts
<1>7. CASE ~Pooled(w)
  <2>1. PICK t : t = workers[w].owner
    OBVIOUS
  <2>2. /\ phase' = [phase EXCEPT ![t] = "refused"] /\ workers' = vs /\ pool' = pool
        /\ workers[w].owner # Pool
    BY <1>4, <1>7, <2>1 DEF CreationFails, Pooled
  <2>3. t \in Planned \ PoolTests /\ t \in Tests
    BY <1>2, <2>1, <2>2, TestSets DEF SessionsPlaced, SessionPlaced
  <2>4. PICK qh : qh = phase'
    OBVIOUS
  <2>5. qh[t] = "refused" /\ OneTest(phase, qh, t)
    <3>1. OneTest(phase, phase, t) /\ "refused" \in Phases /\ MovesTo(phase, qh, t, "refused")
      BY <2>2, <2>4 DEF OneTest, Phases, MovesTo
    <3> QED BY <1>2, <2>3, <3>1, PhaseStep
  <2>6. TestsPlaced(qh)
    <3>1. TestPlaced(t, qh[t])
      BY <2>3, <2>5 DEF TestPlaced
    <3> QED BY <1>2, <2>5, <3>1, PhasePlaced
  <2>7. PICK keeps : keeps = keepStarting'
    OBVIOUS
  <2>8. PICK cancels \in BOOLEAN : cancels = cancelled'
    BY <1>1, <1>2
  <2>9. Passed(phase, qh, t, keeps, cancels)
    BY <2>3, <2>5 DEF Passed, Answered, Begun, Phases
  <2>10. Unmoved(workers, vs, w, cancels)
    BY <1>5, <2>2, UnmovedStates
  <2>11. OneSession(workers, vs, w) /\ SessionsPlaced(vs)
    BY <1>2, <1>5, GoesOnFacts
  <2>12. vs = workers' /\ (keeps => keepStarting) /\ (cancelled => cancels)
    BY <1>1, <2>2, <2>7, <2>8
  <2> QED BY <2>2, <2>4, <2>5, <2>6, <2>7, <2>8, <2>9, <2>10, <2>11, <2>12, QuietCounts
<1> QED BY <1>6, <1>7

LEMMA ResetDoneCounts ==
    ASSUME Inv, Inv', CountInv, NEW w \in DOMAIN workers, ResetDone(w)
    PROVE  CountInv'
<1>1. PICK p : p = [pool EXCEPT !.resetting = @ - 1]
  OBVIOUS
<1>2. PICK q : q = pool'
  OBVIOUS
<1>3. PICK vs : vs = workers'
  OBVIOUS
<1>4. /\ workers[w].state = "resetting"
      /\ workers' = Left(w, "offered")
      /\ q = p \/ q = Offer(p, w, "reset")
      /\ phase' = phase /\ keepStarting' = keepStarting /\ cancelled' = cancelled
  BY <1>1, <1>2 DEF ResetDone, Left
<1>5. workers \in Seq(WorkerShape) /\ pool \in PoolShape
  BY StateShapes
<1>6. workers[w].owner = Pool /\ w \in Nat
  <2>1. WorkerConsistent(w)
    BY DEF Inv, WorkersConsistent
  <2> QED BY <1>4, <1>5, <2>1 DEF WorkerConsistent, Reusable, Pooled
<1>7. GoesOn(workers, vs, w) /\ vs[w].state = "offered"
  <2>1. "offered" \in States /\ vs = Left(w, "offered")
    BY <1>3, <1>4 DEF States
  <2> QED BY <1>5, <2>1, LeftGoesOn
<1>8. Follows(q, vs, w)
  BY <1>1, <1>4, <1>5, <1>6, <1>7, ResetFollows
<1> QED BY <1>2, <1>3, <1>4, <1>8, FollowsCounts

LEMMA ResetFailsCounts ==
    ASSUME Inv, Inv', CountInv, NEW w \in DOMAIN workers, ResetFails(w)
    PROVE  CountInv'
<1>1. PICK q : q = [pool EXCEPT !.resetting = @ - 1]
  OBVIOUS
<1>2. PICK vs : vs = Left(w, "quitting")
  OBVIOUS
<1>3. /\ workers[w].state = "resetting"
      /\ Update(Replenish(q, keepStarting, cancelled), pool.alive, vs)
      /\ phase' = phase /\ keepStarting' = keepStarting /\ cancelled' = cancelled
  BY <1>1, <1>2 DEF ResetFails, Left, executor
<1>4. workers \in Seq(WorkerShape) /\ pool \in PoolShape /\ keepStarting \in BOOLEAN
  BY StateShapes
<1>5. workers[w].owner = Pool /\ w \in Nat
  <2>1. WorkerConsistent(w)
    BY DEF Inv, WorkersConsistent
  <2> QED BY <1>3, <1>4, <2>1 DEF WorkerConsistent, Reusable, Pooled
<1>6. vs \in Seq(WorkerShape) /\ GoesOn(workers, vs, w) /\ vs[w].state = "quitting"
  <2>1. "quitting" \in States
    BY DEF States
  <2> QED BY <1>2, <1>4, <2>1, LeftGoesOn
<1>7. Follows(q, vs, w) /\ q.alive = pool.alive
  <2>1. q = q \/ q = Offer(q, w, "reset")
    OBVIOUS
  <2> QED BY <1>1, <1>3, <1>4, <1>5, <1>6, <2>1, ResetFollows
<1>8. PICK k \in BOOLEAN : k = keepStarting
  BY <1>4
<1>9. Update(Replenish(q, k, cancelled), q.alive, vs) /\ (keepStarting' => keepStarting)
  BY <1>3, <1>7, <1>8
<1> QED BY <1>3, <1>6, <1>7, <1>9, EndsCounts

LEMMA QuitsCounts ==
    ASSUME Inv, Inv', CountInv, NEW w \in DOMAIN workers, NEW ok, Quits(w, ok)
    PROVE  CountInv'
<1>1. PICK vs : vs = Left(w, "ended")
  OBVIOUS
<1>2. PICK k \in BOOLEAN : k = keepStarting'
  BY StateShapes
<1>3. /\ workers[w].state = "quitting" /\ phase' = phase /\ cancelled' = cancelled
      /\ IF Pooled(w)
         THEN Update(Ended(pool, k, cancelled), pool.alive - 1, vs)
         ELSE workers' = vs /\ pool' = pool
  BY <1>1, <1>2 DEF Quits, Left
<1>4. keepStarting' => keepStarting
  BY DEF Quits, StopOn
<1>5. workers \in Seq(WorkerShape) /\ pool \in PoolShape /\ cancelled \in BOOLEAN
  BY StateShapes
<1>6. /\ vs \in Seq(WorkerShape) /\ GoesOn(workers, vs, w) /\ vs[w].state = "ended"
      /\ vs[w].owner = workers[w].owner
  <2>1. "ended" \in States
    BY DEF States
  <2> QED BY <1>1, <1>5, <2>1, LeftGoesOn
<1>7. CASE Pooled(w)
  <2>1. PICK q : q = [pool EXCEPT !.alive = @ - 1]
    OBVIOUS
  <2>2. workers[w].owner = Pool
    BY <1>7 DEF Pooled
  <2>3. Follows(q, vs, w) /\ q.alive = pool.alive - 1
    BY <1>3, <1>5, <1>6, <2>1, <2>2, QuitsFollows
  <2>4. Update(Replenish(q, k, cancelled), q.alive, vs)
    BY <1>3, <1>7, <2>1, <2>3 DEF Ended
  <2> QED BY <1>3, <1>4, <1>6, <2>3, <2>4, EndsCounts
<1>8. CASE ~Pooled(w)
  <2>1. pool' = pool /\ workers[w].owner # Pool /\ workers' = vs
    BY <1>3, <1>8 DEF Pooled
  <2>2. Unmoved(workers, vs, w, cancelled)
    BY <1>5, <1>6, <2>1, UnmovedStates
  <2> QED BY <1>3, <1>4, <1>6, <2>1, <2>2, UntoldCounts
<1> QED BY <1>7, <1>8

\* What the pool is when the body of a test of its own is over.
Freed(p, reuse) ==
    IF reuse THEN [[p EXCEPT !.running = @ - 1] EXCEPT !.resetting = @ + 1]
             ELSE [p EXCEPT !.running = @ - 1]

LEMMA OverPool ==
    ASSUME NEW p \in PoolShape, NEW reuse \in BOOLEAN, NEW q, q = Freed(p, reuse)
    PROVE  /\ q \in PoolShape /\ q.idle = p.idle /\ q.creating = p.creating
           /\ q.alive = p.alive /\ q.waiting = p.waiting /\ q.upcoming = p.upcoming
           /\ q.upcomingAlways = p.upcomingAlways /\ q.closed = p.closed
           /\ q.running = p.running - 1
           /\ q.resetting = p.resetting + (IF reuse THEN 1 ELSE 0)
<1>1. CASE reuse
  <2>1. PICK r : r = [p EXCEPT !.running = @ - 1]
    OBVIOUS
  <2>2. /\ r \in PoolShape /\ r.idle = p.idle /\ r.creating = p.creating
        /\ r.alive = p.alive /\ r.waiting = p.waiting /\ r.upcoming = p.upcoming
        /\ r.upcomingAlways = p.upcomingAlways /\ r.closed = p.closed
        /\ r.running = p.running - 1 /\ r.resetting = p.resetting
    BY <2>1 DEF PoolShape
  <2>3. q = [r EXCEPT !.resetting = @ + 1]
    BY <1>1, <2>1 DEF Freed
  <2>4. /\ q \in PoolShape /\ q.idle = r.idle /\ q.creating = r.creating
        /\ q.alive = r.alive /\ q.waiting = r.waiting /\ q.upcoming = r.upcoming
        /\ q.upcomingAlways = r.upcomingAlways /\ q.closed = r.closed
        /\ q.running = r.running /\ q.resetting = r.resetting + 1
    BY <2>2, <2>3 DEF PoolShape
  <2> QED BY <1>1, <2>2, <2>4
<1>2. CASE ~reuse
  BY <1>2 DEF Freed, PoolShape
<1> QED BY <1>1, <1>2

LEMMA AfterBodyCounts ==
    ASSUME Inv, Inv', CountInv, NEW w \in DOMAIN workers, workers[w].state \in InTest,
           keepStarting' => keepStarting, NEW outcome \in Outcomes, AfterBody(w, outcome)
    PROVE  CountInv'
<1>1. /\ workers \in Seq(WorkerShape) /\ pool \in PoolShape
      /\ phase \in [Tests -> Phases] /\ phase' \in [Tests -> Phases]
      /\ keepStarting \in BOOLEAN /\ keepStarting' \in BOOLEAN /\ cancelled \in BOOLEAN
  BY StateShapes
<1>2. /\ Tallied(pool, workers, 0, phase, keepStarting, cancelled)
      /\ TestsPlaced(phase) /\ SessionsPlaced(workers)
  BY DEF CountInv
<1>3. PICK t : t = workers[w].test
  OBVIOUS
<1>4. /\ t \in Tests /\ phase[t] = "running"
      /\ workers[w].owner = Pool => t \in PoolTests
      /\ workers[w].owner # Pool => t \notin PoolTests
  <2>1. WorkerConsistent(w) /\ workers[w] \in WorkerShape /\ SessionPlaced(workers[w])
    BY <1>1, <1>2 DEF Inv, WorkersConsistent, SessionsPlaced
  <2>2. t # None /\ phase[t] = "running" /\ t \in Tests
    BY <1>3, <2>1 DEF WorkerConsistent, WorkerShape, InTest
  <2> QED BY <1>3, <2>1, <2>2 DEF SessionPlaced
<1>5. PICK reuse \in BOOLEAN :
         /\ phase' = [phase EXCEPT ![t] = "done"]
         /\ pool' = IF Pooled(w) THEN Freed(pool, reuse) ELSE pool
         /\ workers' = Over(w, IF reuse THEN "resetting" ELSE "quitting", outcome)
         /\ reuse => Pooled(w)
         /\ cancelled' = cancelled
  <2>1. PICK reuse : reuse = (/\ MayReuse(w, outcome)
                              /\ C!WantsReset(Counts(IF Pooled(w)
                                                     THEN [pool EXCEPT !.running = @ - 1]
                                                     ELSE pool),
                                              keepStarting', cancelled))
    OBVIOUS
  <2>2. reuse => Pooled(w)
    BY <2>1 DEF MayReuse
  <2>3. reuse \in BOOLEAN
    BY <2>1
  <2>4. /\ phase' = [phase EXCEPT ![t] = "done"] /\ cancelled' = cancelled
        /\ workers' = Over(w, IF reuse THEN "resetting" ELSE "quitting", outcome)
    BY <1>3, <2>1 DEF AfterBody, Over
  <2>5. CASE Pooled(w)
    <3>1. pool' = Freed(pool, reuse)
      BY <2>1, <2>5 DEF AfterBody, Freed
    <3> QED BY <2>2, <2>3, <2>4, <2>5, <3>1
  <2>6. CASE ~Pooled(w)
    <3>1. pool' = pool
      BY <2>1, <2>2, <2>6 DEF AfterBody
    <3> QED BY <2>2, <2>3, <2>4, <2>6, <3>1
  <2> QED BY <2>5, <2>6
<1>6. PICK x \in {"resetting", "quitting"} : x = IF reuse THEN "resetting" ELSE "quitting"
  OBVIOUS
<1>7. PICK vs : vs = Over(w, x, outcome)
  OBVIOUS
<1>8. PICK q : q = pool'
  OBVIOUS
<1>9. PICK qh : qh = phase'
  OBVIOUS
<1>10. /\ vs \in Seq(WorkerShape) /\ GoesOn(workers, vs, w)
       /\ vs[w].state = x /\ vs[w].owner = workers[w].owner
  <2>1. x \in States /\ outcome \in BodyOutcomes
    BY SettingsAssumption DEF States
  <2>2. /\ vs \in Seq(WorkerShape) /\ DOMAIN vs = DOMAIN workers
        /\ vs[w].state = x /\ vs[w].owner = workers[w].owner /\ vs[w].test = workers[w].test
        /\ vs[w].outcome = outcome
        /\ \A v \in DOMAIN workers : v # w => vs[v] = workers[v]
    BY <1>1, <1>7, <2>1, TestOver
  <2> QED BY <2>2, x # "checking" DEF GoesOn
<1>11. /\ q \in PoolShape /\ q.idle = pool.idle /\ q.creating = pool.creating
       /\ q.alive = pool.alive /\ q.waiting = pool.waiting /\ q.upcoming = pool.upcoming
       /\ q.upcomingAlways = pool.upcomingAlways /\ q.closed = pool.closed
       /\ q.running = pool.running - (IF Pooled(w) THEN 1 ELSE 0)
       /\ q.resetting = pool.resetting + (IF reuse THEN 1 ELSE 0)
  <2>1. CASE Pooled(w)
    <3>1. q = Freed(pool, reuse)
      BY <1>5, <1>8, <2>1
    <3>2. /\ q \in PoolShape /\ q.idle = pool.idle /\ q.creating = pool.creating
          /\ q.alive = pool.alive /\ q.waiting = pool.waiting /\ q.upcoming = pool.upcoming
          /\ q.upcomingAlways = pool.upcomingAlways /\ q.closed = pool.closed
          /\ q.running = pool.running - 1
          /\ q.resetting = pool.resetting + (IF reuse THEN 1 ELSE 0)
      <4>1. pool \in PoolShape /\ reuse \in BOOLEAN
        BY <1>1
      <4> QED BY ONLY <3>1, <4>1, OverPool
    <3> QED BY <2>1, <3>2
  <2>2. CASE ~Pooled(w)
    <3>1. q = pool /\ ~reuse /\ pool.running \in Int /\ pool.resetting \in Int
      BY <1>1, <1>5, <1>8, <2>2 DEF PoolShape
    <3> QED BY <1>1, <2>2, <3>1
  <2> QED BY <2>1, <2>2
<1>12. /\ SessionGain(workers, vs, w, Open) = 0 /\ SessionGain(workers, vs, w, InCreation) = 0
       /\ SessionGain(workers, vs, w, InReset) = (IF reuse THEN 1 ELSE 0)
       /\ SessionGain(workers, vs, w, InTest) = (IF Pooled(w) THEN -1 ELSE 0)
  <2>1. CASE Pooled(w)
    BY <1>6, <1>10, <2>1 DEF SessionGain, Pooled, Open, InCreation, InReset, InTest, States
  <2>2. CASE ~Pooled(w)
    BY <1>5, <1>10, <2>2 DEF SessionGain, Pooled
  <2> QED BY <2>1, <2>2
<1>13. Pooled(w) <=> t \in PoolTests
  BY <1>4 DEF Pooled
<1>14. BodyOver(pool, q, workers, vs, w, t)
  BY <1>11, <1>12, <1>13 DEF BodyOver
<1>15. PICK cancels \in BOOLEAN : cancels = cancelled
  BY <1>1
<1>16. PICK keeps \in BOOLEAN : keeps = keepStarting'
  BY <1>1
<1>17. SessionLeft(workers, vs, w, t, cancels)
  BY <1>12, <1>13 DEF SessionLeft
<1>18. qh \in [Tests -> Phases] /\ qh[t] = "done" /\ OneTest(phase, qh, t)
  <2>1. OneTest(phase, phase, t) /\ "done" \in Phases /\ MovesTo(phase, qh, t, "done")
    BY <1>5, <1>9 DEF OneTest, Phases, MovesTo
  <2> QED BY <1>1, <1>4, <2>1, PhaseStep
<1>19. TestsPlaced(qh)
  <2>1. TestPlaced(t, qh[t])
    BY <1>18 DEF TestPlaced
  <2> QED BY <1>2, <1>18, <2>1, PhasePlaced
<1>20. OneSession(workers, vs, w) /\ SessionsPlaced(vs)
  BY <1>2, <1>10, GoesOnFacts
<1>21. Counted(workers, 0, phase, keepStarting, cancelled)
  BY <1>1 DEF Counted
<1>22. (keeps => keepStarting) /\ (cancelled => cancels)
  BY <1>15, <1>16
<1>23. Tallied(q, vs, 0, qh, keeps, cancels)
  BY <1>2, <1>4, <1>10, <1>11, <1>14, <1>17, <1>18, <1>20, <1>21, <1>22, LeftTally
<1>24. /\ Tallied(pool', workers', 0, phase', keepStarting', cancelled')
       /\ workers' = vs
  BY <1>5, <1>6, <1>7, <1>8, <1>9, <1>15, <1>16, <1>23
<1> QED BY <1>9, <1>19, <1>20, <1>24 DEF CountInv

LEMMA BodyEndsCounts ==
    ASSUME Inv, Inv', CountInv, NEW w \in DOMAIN workers, BodyEnds(w)
    PROVE  CountInv'
<1>1. PICK outcome \in Outcomes : AfterBody(w, outcome) /\ StopOn(outcome # "passed", workers[w].test)
  BY DEF BodyEnds
<1>2. workers[w].state \in InTest
  BY DEF BodyEnds, InTest
<1>3. keepStarting' => keepStarting
  BY <1>1 DEF StopOn
<1> QED BY <1>1, <1>2, <1>3, AfterBodyCounts

LEMMA PagesCheckedCounts ==
    ASSUME Inv, Inv', CountInv, NEW w \in DOMAIN workers, PagesChecked(w)
    PROVE  CountInv'
<1>1. /\ workers[w].state = "checking" /\ AfterBody(w, "timedOut")
      /\ keepStarting' => keepStarting
  BY DEF PagesChecked
<1>2. "timedOut" \in Outcomes
  BY <1>1 DEF CountInv, SessionsPlaced, SessionPlaced
<1>3. workers[w].state \in InTest
  BY <1>1 DEF InTest
<1> QED BY <1>1, <1>2, <1>3, AfterBodyCounts

\* A suite's stream starts its next child.
LEMMA StartChildCounts ==
    ASSUME Inv, Inv', CountInv, NEW s \in Suites, StartChild(s)
    PROVE  CountInv'
<1>1. PICK n : n = Children[s][started[s] + 1]
  OBVIOUS
<1>2. /\ HasRoom(s) /\ started' = [started EXCEPT ![s] = @ + 1]
      /\ \/ /\ n \in Suites
            /\ UNCHANGED <<phase, woken, sessions, keepStarting, cancelled, record, board>>
         \/ /\ n \in Tests
            /\ Skip(n) \/ FailUnplannable(n) \/ RequestDedicated(n) \/ TakeOrWait(n)
  BY <1>1 DEF StartChild
<1>3. n \in Tests => phase[n] = "queued"
  BY <1>1, <1>2, NextChild
<1>4. CASE /\ n \in Tests
           /\ Skip(n) \/ FailUnplannable(n) \/ RequestDedicated(n) \/ TakeOrWait(n)
  BY <1>3, <1>4, SkipCounts, FailUnplannableCounts, RequestDedicatedCounts, TakeOrWaitCounts
<1>5. CASE UNCHANGED <<phase, woken, sessions, keepStarting, cancelled, record, board>>
  BY <1>5, UnchangedCounts DEF sessions
<1> QED BY <1>2, <1>4, <1>5

-----------------------------------------------------------------------------

LEMMA CountStepInv ==
    ASSUME Inv, Inv', CountInv, [Next]_vars
    PROVE  CountInv'
<1>1. ASSUME NEW s \in Suites, StartChild(s) \/ FinishSuite(s)
      PROVE  CountInv'
  BY <1>1, StartChildCounts, FinishSuiteCounts
<1>2. ASSUME NEW t \in Tests, StopsWaiting(t) \/ GetsDedicated(t) \/ IsCancelled(t)
      PROVE  CountInv'
  BY <1>2, StopsWaitingCounts, GetsDedicatedCounts, IsCancelledCounts
<1>3. ASSUME NEW w \in DOMAIN workers,
             Created(w) \/ CreationFails(w) \/ Release(w) \/ Dropped(w)
      PROVE  CountInv'
  BY <1>3, CreatedCounts, CreationFailsCounts, LeavesCounts
<1>4. ASSUME NEW w \in DOMAIN workers,
             BodyEnds(w) \/ TimesOut(w) \/ PagesChecked(w) \/ ResetDone(w) \/ ResetFails(w)
      PROVE  CountInv'
  BY <1>4, BodyEndsCounts, TimesOutCounts, PagesCheckedCounts, ResetDoneCounts, ResetFailsCounts
<1>5. ASSUME NEW w \in DOMAIN workers, NEW ok, Quits(w, ok)
      PROVE  CountInv'
  BY <1>5, QuitsCounts
<1>6. CASE Spawn
  BY <1>6, SpawnCounts
<1>7. CASE Cancel \/ UNCHANGED vars
  BY <1>7, CancelCounts
<1> QED BY <1>1, <1>2, <1>3, <1>4, <1>5, <1>6, <1>7 DEF Next, Progress, Terminating

-----------------------------------------------------------------------------
(* The initial state.                                                      *)

LEMMA AllQueued ==
    ASSUME NEW ph, ph = [t \in Tests |-> "queued"], NEW T \in SUBSET Tests
    PROVE  /\ CountTests(ph, T, {"queued"}) = Cardinality(T)
           /\ \A X : "queued" \notin X => CountTests(ph, T, X) = 0
<1>1. {u \in T : ph[u] \in {"queued"}} = T
  OBVIOUS
<1>2. ASSUME NEW X, "queued" \notin X PROVE {u \in T : ph[u] \in X} = {}
  BY <1>2
<1> QED BY <1>1, <1>2, FS_EmptySet DEF CountTests

LEMMA NewPoolCounts ==
    ASSUME NEW p, p = NewPool
    PROVE  /\ p \in Pools /\ p.idle = <<>> /\ p.alive = 0 /\ p.creating = 0 /\ p.resetting = 0
           /\ p.running = 0 /\ p.closed = FALSE
           /\ \A k \in C!Kinds :
                 /\ p.waiting[k] = 0 /\ p.upcoming[k] = Cardinality(PoolTestsOf(k))
                 /\ p.upcomingAlways[k] = Cardinality(PoolTestsOf(k) \intersect RunAlways)
<1>1. <<>> \in Queue
  BY DEF Queue
<1>2. ASSUME NEW S \in SUBSET Tests PROVE Cardinality(S) \in Nat
  BY FS_Subset, FS_CardinalityType, TestsAssumption
<1>3. ASSUME NEW k
      PROVE  /\ Cardinality(PoolTestsOf(k)) \in Nat
             /\ Cardinality(PoolTestsOf(k) \intersect RunAlways) \in Nat
  BY <1>2, TestSets
<1>4. /\ Upcoming \in C!Tally /\ UpcomingAlways \in C!Tally
      /\ \A k \in C!Kinds : /\ Upcoming[k] = Cardinality(PoolTestsOf(k))
                            /\ UpcomingAlways[k] = Cardinality(PoolTestsOf(k) \intersect RunAlways)
  BY <1>3 DEF Upcoming, UpcomingAlways, C!Tally, C!Kinds
<1>5. PICK old : old = C!NewPool
  OBVIOUS
<1>6. PICK waiting : waiting = [k \in C!Kinds |-> 0]
  OBVIOUS
<1>7. waiting \in C!Tally /\ \A k \in C!Kinds : waiting[k] = 0
  BY <1>6 DEF C!Tally
<1>8. /\ old \in [idle : [C!Sorts -> Int], creating : Nat, resetting : Nat, running : Nat,
                  alive : Nat, waiting : C!Tally, upcoming : C!Tally,
                  upcomingAlways : C!Tally, closed : BOOLEAN]
      /\ old.alive = 0 /\ old.creating = 0 /\ old.resetting = 0 /\ old.running = 0
      /\ old.closed = FALSE /\ old.waiting = waiting
      /\ old.upcoming = Upcoming /\ old.upcomingAlways = UpcomingAlways
  BY <1>4, <1>5, <1>6, <1>7 DEF C!NewPool
<1>9. p = [old EXCEPT !.idle = <<>>]
  BY <1>5 DEF NewPool
<1>10. /\ p \in Pools /\ p.idle = <<>> /\ p.alive = 0 /\ p.creating = 0 /\ p.resetting = 0
       /\ p.running = 0 /\ p.closed = FALSE
       /\ p.waiting = waiting /\ p.upcoming = Upcoming /\ p.upcomingAlways = UpcomingAlways
  BY <1>1, <1>8, <1>9 DEF Pools
<1> QED BY <1>4, <1>7, <1>10

LEMMA InitCounts ==
    ASSUME Init
    PROVE  CountInv
<1>1. PICK p : p = NewPool
  OBVIOUS
<1>2. PICK q : q = Replenish(p, TRUE, FALSE)
  OBVIOUS
<1>3. /\ pool = q /\ workers = [i \in 1 .. q.alive |-> Hired(Pool)]
      /\ phase = [t \in Tests |-> "queued"] /\ keepStarting = TRUE /\ cancelled = FALSE
  BY <1>1, <1>2 DEF Init
<1>4. /\ p \in Pools /\ p.idle = <<>> /\ p.alive = 0 /\ p.creating = 0 /\ p.resetting = 0
      /\ p.running = 0 /\ p.closed = FALSE
      /\ \A k \in C!Kinds :
            /\ p.waiting[k] = 0 /\ p.upcoming[k] = Cardinality(PoolTestsOf(k))
            /\ p.upcomingAlways[k] = Cardinality(PoolTestsOf(k) \intersect RunAlways)
  BY <1>1, NewPoolCounts
<1>5. PICK ws : ws = <<>>
  OBVIOUS
<1>6. ws \in Seq(WorkerShape) /\ Len(ws) = 0 /\ DOMAIN ws = {}
  BY <1>5
<1>7. PICK ph : ph = [t \in Tests |-> "queued"]
  OBVIOUS
<1>8. ph \in [Tests -> Phases] /\ TestsPlaced(ph)
  BY <1>7 DEF Phases, TestsPlaced, TestPlaced
<1>9. ASSUME NEW X PROVE CountSessions(ws, X) = 0
  <2>1. SessionsIn(ws, X) = {}
    BY <1>6 DEF SessionsIn
  <2> QED BY <2>1, FS_EmptySet DEF CountSessions
<1>10. PICK keep \in BOOLEAN : keep = TRUE
  OBVIOUS
<1>11. PICK cancel \in BOOLEAN : cancel = FALSE
  OBVIOUS
<1>12. PICK n \in Nat : n = 0
  OBVIOUS
<1>13. Tallied(p, ws, n, ph, keep, cancel)
  <2>1. ASSUME NEW T \in SUBSET Tests
        PROVE  /\ CountTests(ph, T, {"queued"}) = Cardinality(T)
               /\ CountTests(ph, T, {"running"}) = 0 /\ CountTests(ph, T, {"waiting"}) = 0
               /\ CountTests(ph, T, Begun) = 0 /\ CountTests(ph, T, Answered) = 0
    BY <1>7, AllQueued DEF Begun, Answered
  <2>2. /\ p.alive = CountSessions(ws, Open) + n /\ p.creating = CountSessions(ws, InCreation) + n
        /\ p.resetting >= CountSessions(ws, InReset) /\ p.resetting = CountSessions(ws, InReset)
        /\ p.running = CountSessions(ws, InTest)
    BY <1>4, <1>9, <1>12
  <2>3. p.running = CountTests(ph, PoolTests, {"running"})
    BY <1>4, <2>1, TestSets
  <2>4. ASSUME NEW k \in C!Kinds
        PROVE  /\ p.waiting[k] = CountTests(ph, PoolTestsOf(k), {"waiting"})
               /\ p.upcoming[k] = CountTests(ph, PoolTestsOf(k), {"queued"})
               /\ p.upcomingAlways[k] =
                      CountTests(ph, PoolTestsOf(k) \intersect RunAlways, {"queued"})
    BY <1>4, <2>1, TestSets
  <2>5. /\ Len(ws) + n <= CountTests(ph, Planned, Begun) + Spare
        /\ Len(ws) + n <= Unused(p) + CountTests(ph, Planned, Answered)
    <3>1. CountTests(ph, Planned, Begun) = 0 /\ CountTests(ph, Planned, Answered) = 0
      BY <2>1, TestSets
    <3>2. Unused(p) = 0
      <4>1. ASSUME NEW sort PROVE OfSort(p.idle, sort) = 0
        <5>1. p.idle \in Queue /\ DOMAIN p.idle = {}
          BY <1>4 DEF Queue
        <5> QED BY <5>1, SortedTickets
      <4> QED BY <1>4, <4>1 DEF Unused
    <3> QED BY <1>6, <1>12, <3>1, <3>2, SettingsAssumption
  <2> QED BY <1>4, <2>2, <2>3, <2>4, <2>5 DEF Tallied
<1>14. Counted(ws, n, ph, keep, cancel)
  BY <1>6, <1>8 DEF Counted
<1>15. PICK c \in BOOLEAN : c = FALSE
  OBVIOUS
<1>16. PICK k \in BOOLEAN : k = TRUE
  OBVIOUS
<1>17. PICK m : m = n + (q.alive - p.alive)
  OBVIOUS
<1>18. q.alive - p.alive \in Nat /\ Tallied(q, ws, m, ph, keep, cancel)
  <2>1. q = Replenish(p, k, c)
    BY <1>2, <1>15, <1>16
  <2> QED BY <1>13, <1>14, <1>17, <2>1, ReplenishTally
<1>19. m \in Nat /\ m = q.alive
  <2>1. q.alive \in Nat
    BY <1>18 DEF Tallied, Pools
  <2> QED BY <1>4, <1>12, <1>17, <1>18, <2>1
<1>20. PICK vs : vs = workers
  OBVIOUS
<1>21. /\ vs \in Seq(WorkerShape) /\ Joined(ws, vs, Pool, m)
  <2>1. /\ vs \in Seq(WorkerShape) /\ DOMAIN vs = 1 .. m
        /\ \A w \in 1 .. m : vs[w] = Hired(Pool)
    <3>1. vs = [i \in 1 .. m |-> Hired(Pool)]
      BY <1>3, <1>19, <1>20
    <3>2. Hired(Pool) \in WorkerShape
      BY HiredShape
    <3> QED BY ONLY <1>19, <3>1, <3>2
  <2> QED BY <1>6, <1>19, <2>1 DEF Joined
<1>22. Tallied(q, vs, 0, ph, keep, cancel)
  <2>1. Counted(ws, m, ph, keep, cancel)
    BY <1>14, <1>19 DEF Counted
  <2> QED BY <1>18, <1>21, <2>1, HireTally
<1>23. SessionsPlaced(vs)
  <2>1. SessionsPlaced(ws)
    BY <1>6 DEF SessionsPlaced
  <2>2. PICK owner \in {Pool} \union (Planned \ PoolTests) : owner = Pool
    OBVIOUS
  <2>3. Joined(ws, vs, owner, m)
    BY <1>21, <2>2
  <2> QED BY <1>6, <1>19, <2>1, <2>3, JoinedPlaced
<1>24. Tallied(pool, workers, 0, phase, keepStarting, cancelled)
  BY <1>3, <1>7, <1>10, <1>11, <1>20, <1>22
<1> QED BY <1>3, <1>7, <1>8, <1>20, <1>23, <1>24 DEF CountInv

-----------------------------------------------------------------------------
(* What the counters say of a run.                                         *)

\* What the progress board shows of tests.
Shown == {None, "running", "resetting", "quitting"}

SimpleInv ==
    /\ board \in [Tests -> Shown]
    /\ \A s \in Suites : started[s] <= Len(Children[s])

LEMMA TakeFromBoard ==
    ASSUME NEW t, NEW p, TakeFrom(t, p)
    PROVE  board' = board \/ board' = [board EXCEPT ![t] = "running"]
BY DEF TakeFrom, StartsBody, FailsToStart, NotStarted

LEMMA TestBoard ==
    ASSUME NEW t, \/ Skip(t) \/ FailUnplannable(t) \/ RequestDedicated(t) \/ TakeOrWait(t)
                  \/ StopsWaiting(t) \/ GetsDedicated(t) \/ IsCancelled(t)
    PROVE  board' = board \/ \E x \in Shown : board' = [board EXCEPT ![t] = x]
<1> USE DEF Shown
<1>1. CASE Skip(t) \/ FailUnplannable(t) \/ RequestDedicated(t)
  BY <1>1 DEF Skip, FailUnplannable, RequestDedicated, FailsToStart, NotStarted
<1>2. CASE TakeOrWait(t)
  <2>1. NotStarted(t) \/ \E p : TakeFrom(t, p)
    BY <1>2, Zenon DEF TakeOrWait
  <2> QED BY <2>1, TakeFromBoard DEF NotStarted
<1>3. CASE StopsWaiting(t)
  BY <1>3, TakeFromBoard DEF StopsWaiting, NotStarted
<1>4. CASE GetsDedicated(t)
  BY <1>4 DEF GetsDedicated, NotStarted, StartsBody, FailsToStart
<1>5. CASE IsCancelled(t)
  BY <1>5 DEF IsCancelled
<1> QED BY <1>1, <1>2, <1>3, <1>4, <1>5

LEMMA SessionBoard ==
    ASSUME NEW w, \/ Created(w) \/ CreationFails(w) \/ Release(w) \/ Dropped(w)
                  \/ BodyEnds(w) \/ TimesOut(w) \/ PagesChecked(w)
                  \/ ResetDone(w) \/ ResetFails(w) \/ \E ok : Quits(w, ok)
    PROVE  board' = board \/ \E u : \E x \in Shown : board' = [board EXCEPT ![u] = x]
<1> USE DEF Shown
<1>1. CASE Created(w) \/ CreationFails(w) \/ Release(w) \/ Dropped(w) \/ TimesOut(w)
  BY <1>1 DEF Created, CreationFails, Release, Dropped, TimesOut
<1>2. ASSUME NEW outcome, AfterBody(w, outcome)
      PROVE  \E u : \E x \in Shown : board' = [board EXCEPT ![u] = x]
  <2>1. PICK x \in {"resetting", "quitting"} : board' = [board EXCEPT ![workers[w].test] = x]
    BY <1>2 DEF AfterBody
  <2> QED BY <2>1
<1>3. CASE BodyEnds(w) \/ PagesChecked(w)
  BY <1>2, <1>3 DEF BodyEnds, PagesChecked
<1>4. CASE ResetDone(w) \/ ResetFails(w)
  BY <1>4 DEF ResetDone, ResetFails
<1>5. CASE \E ok : Quits(w, ok)
  BY <1>5 DEF Quits
<1> QED BY <1>1, <1>3, <1>4, <1>5

LEMMA BoardStep ==
    ASSUME board \in [Tests -> Shown], [Next]_vars
    PROVE  board' \in [Tests -> Shown]
<1>1. board' = board \/ \E u : \E x \in Shown : board' = [board EXCEPT ![u] = x]
  <2>1. ASSUME NEW s \in Suites, StartChild(s) \/ FinishSuite(s)
        PROVE  board' = board \/ \E u : \E x \in Shown : board' = [board EXCEPT ![u] = x]
    <3>1. CASE StartChild(s)
      <4>1. \/ board' = board
            \/ \E n : Skip(n) \/ FailUnplannable(n) \/ RequestDedicated(n) \/ TakeOrWait(n)
        BY <3>1, Zenon DEF StartChild
      <4> QED BY <4>1, TestBoard
    <3>2. CASE FinishSuite(s)
      BY <3>2 DEF FinishSuite
    <3> QED BY <2>1, <3>1, <3>2
  <2>2. ASSUME NEW t, StopsWaiting(t) \/ GetsDedicated(t) \/ IsCancelled(t)
        PROVE  board' = board \/ \E u : \E x \in Shown : board' = [board EXCEPT ![u] = x]
    BY <2>2, TestBoard
  <2>3. CASE Spawn \/ Cancel \/ UNCHANGED vars
    BY <2>3 DEF Spawn, Cancel, vars
  <2> QED BY <2>1, <2>2, <2>3, SessionBoard DEF Next, Progress, Terminating
<1> QED BY <1>1

\* Only a suite with room has another child started.
LEMMA ChildStarted ==
    ASSUME [Next]_vars
    PROVE  \/ started' = started
           \/ \E s \in Suites : HasRoom(s) /\ started' = [started EXCEPT ![s] = @ + 1]
<1>1. ASSUME NEW s \in Suites, StartChild(s) \/ FinishSuite(s)
      PROVE  started' = started \/ (HasRoom(s) /\ started' = [started EXCEPT ![s] = @ + 1])
  <2>1. CASE StartChild(s)
    BY <2>1, Zenon DEF StartChild
  <2>2. CASE FinishSuite(s)
    BY <2>2 DEF FinishSuite
  <2> QED BY <1>1, <2>1, <2>2
<1>2. ASSUME NEW t, StopsWaiting(t) \/ GetsDedicated(t) \/ IsCancelled(t)
      PROVE  started' = started
  BY <1>2 DEF StopsWaiting, GetsDedicated, IsCancelled
<1>3. ASSUME NEW w, \/ Created(w) \/ CreationFails(w) \/ Release(w) \/ Dropped(w)
                    \/ TimesOut(w) \/ ResetDone(w) \/ ResetFails(w)
      PROVE  started' = started
  BY <1>3 DEF Created, CreationFails, Release, Dropped, TimesOut, ResetDone, ResetFails, executor
<1>4. ASSUME NEW w, BodyEnds(w) \/ PagesChecked(w) \/ \E ok : Quits(w, ok)
      PROVE  started' = started
  BY <1>4 DEF BodyEnds, PagesChecked, AfterBody, Quits
<1>5. CASE Spawn \/ Cancel \/ UNCHANGED vars
  BY <1>5 DEF Spawn, Cancel, vars, executor
<1> QED BY <1>1, <1>2, <1>3, <1>4, <1>5 DEF Next, Progress, Terminating

LEMMA StartedStep ==
    ASSUME Inv, SimpleInv, [Next]_vars
    PROVE  \A s \in Suites : started'[s] <= Len(Children[s])
<1>1. \/ started' = started
      \/ \E s \in Suites : HasRoom(s) /\ started' = [started EXCEPT ![s] = @ + 1]
  BY ChildStarted
<1>2. /\ started \in [Suites -> Nat]
      /\ \A s \in Suites : started[s] <= Len(Children[s]) /\ Len(Children[s]) \in Nat
  BY TreeAssumption DEF Inv, Shape, SimpleInv
<1> QED BY <1>1, <1>2 DEF HasRoom

LEMMA InitSimple ==
    ASSUME Init
    PROVE  SimpleInv
<1>1. /\ board = [t \in Tests |-> None] /\ started = [s \in Suites |-> 0]
      /\ \A s \in Suites : Len(Children[s]) \in Nat
  BY TreeAssumption DEF Init
<1> QED BY <1>1 DEF SimpleInv, Shown

LEMMA SimpleStep ==
    ASSUME Inv, SimpleInv, [Next]_vars
    PROVE  SimpleInv'
<1>1. board' \in [Tests -> Shown]
  BY BoardStep DEF SimpleInv
<1>2. \A s \in Suites : started'[s] <= Len(Children[s])
  BY StartedStep
<1> QED BY <1>1, <1>2 DEF SimpleInv

\* A sequence of elements that are all in T.
LEMMA SequenceOf ==
    ASSUME NEW S, NEW T, NEW q \in Seq(S), \A i \in DOMAIN q : q[i] \in T
    PROVE  q \in Seq(T)
<1>1. Len(q) \in Nat /\ DOMAIN q = 1 .. Len(q) /\ q = [i \in 1 .. Len(q) |-> q[i]]
  OBVIOUS
<1>2. q \in [1 .. Len(q) -> T]
  BY <1>1
<1> QED BY <1>1, <1>2, SeqDef

LEMMA IdleType ==
    ASSUME Inv
    PROVE  pool.idle \in Seq([session : DOMAIN workers, sort : C!Sorts])
<1>1. pool.idle \in Queue
  BY DEF Inv, Shape, PoolShape
<1>2. ASSUME NEW i \in DOMAIN pool.idle
      PROVE  pool.idle[i] \in [session : DOMAIN workers, sort : C!Sorts]
  <2>1. pool.idle[i] \in Ticket
    <3>1. pool.idle \in Seq(Ticket)
      BY <1>1 DEF Queue, Ticket
    <3> QED BY <3>1, ElementOfSeq
  <2>2. pool.idle[i].session \in DOMAIN workers
    BY DEF Inv, TicketsConsistent
  <2> QED BY <2>1, <2>2 DEF Ticket
<1> QED BY <1>1, <1>2, SequenceOf DEF Queue

LEMMA WorkersType ==
    ASSUME Inv, CountInv
    PROVE  workers \in Seq([state : States, owner : {Pool} \union Tests,
                            test : {None} \union Tests, ran : Seq(Tests),
                            outcome : {None} \union Outcomes, baseline : BOOLEAN])
<1>1. workers \in Seq(WorkerShape)
  BY DEF Inv, Shape
<1>2. ASSUME NEW w \in DOMAIN workers
      PROVE  workers[w] \in [state : States, owner : {Pool} \union Tests,
                             test : {None} \union Tests, ran : Seq(Tests),
                             outcome : {None} \union Outcomes, baseline : BOOLEAN]
  <2>1. workers[w] \in WorkerShape
    BY <1>1
  <2>2. workers[w].outcome \in {None} \union Outcomes
    BY DEF CountInv, SessionsPlaced, SessionPlaced
  <2> QED BY <2>1, <2>2 DEF WorkerShape
<1> QED BY <1>1, <1>2, SequenceOf

LEMMA SessionsBound ==
    ASSUME Inv, CountInv
    PROVE  Len(workers) <= MaxSessions
<1> DEFINE B == {u \in Planned : phase[u] \in Begun}
<1>1. Len(workers) + 0 <= CountTests(phase, Planned, Begun) + Spare
  BY DEF CountInv, Tallied
<1>2. CountTests(phase, Planned, Begun) = Cardinality(B)
  BY DEF CountTests
<1>3. IsFiniteSet(Planned)
  BY TestsAssumption, FS_Subset, TestSets
<1>4. B \subseteq Planned
  OBVIOUS
<1> HIDE DEF B
<1>5. /\ Cardinality(B) <= Cardinality(Planned)
      /\ Cardinality(B) \in Nat /\ Cardinality(Planned) \in Nat
  BY <1>3, <1>4, FS_Subset, FS_CardinalityType
<1>6. Len(workers) \in Nat /\ MaxSessions = Cardinality(Planned) + Spare
  BY DEF Inv, Shape, MaxSessions, Planned
<1> QED BY <1>1, <1>2, <1>5, <1>6, SettingsAssumption

LEMMA InvTypeOK ==
    ASSUME Inv, CountInv, SimpleInv
    PROVE  TypeOK
<1>1. suite \in [Suites -> {"unstarted", "running", "done"}]
  BY DEF Inv, Shape
<1>2. \A s \in Suites : started[s] \in 0 .. Len(Children[s])
  <2>1. /\ started \in [Suites -> Nat]
        /\ \A s \in Suites : started[s] <= Len(Children[s]) /\ Len(Children[s]) \in Nat
    BY TreeAssumption DEF Inv, Shape, SimpleInv
  <2> QED BY <2>1
<1>3. phase \in [Tests -> {"queued", "waiting", "requested", "refused", "running", "done"}]
      /\ woken \subseteq Waiting
  BY DEF Inv, Shape, Phases
<1>4. pool \in [idle : Seq([session : DOMAIN workers, sort : C!Sorts]),
                creating : Nat, resetting : Nat, running : Nat, alive : Nat,
                waiting : C!Tally, upcoming : C!Tally, upcomingAlways : C!Tally,
                closed : BOOLEAN]
  <2>1. pool \in Pools
    BY DEF CountInv, Tallied
  <2> HIDE DEF Inv
  <2> QED BY <2>1, IdleType DEF Pools
<1>5. Range(requests) \subseteq {Close} \union DOMAIN workers
  BY DEF Inv, RequestsConsistent, Range
<1>6. keepStarting \in BOOLEAN /\ cancelled \in BOOLEAN
  BY DEF Inv, Shape
<1>7. ASSUME NEW t \in Tests
      PROVE  Range(record[t]) \subseteq BodyOutcomes \union {"panicked", "cancelled"}
  <2>1. record[t] \in Seq(Recorded)
    BY DEF Inv, Shape
  <2> QED BY <2>1 DEF Range, Recorded
<1>8. board \in [Tests -> {None, "running", "resetting", "quitting"}]
  BY DEF SimpleInv, Shown
<1> QED BY <1>1, <1>2, <1>3, <1>4, <1>5, <1>6, <1>7, <1>8, WorkersType, SessionsBound DEF TypeOK

LEMMA InvCountersMatch ==
    ASSUME Inv, CountInv, SimpleInv
    PROVE  CountersMatchSessions
<1>1. \A X : Cardinality(PoolSessions(X)) = CountSessions(workers, X)
  BY DEF PoolSessions, Pooled, CountSessions, SessionsIn
<1>2. Tallied(pool, workers, 0, phase, keepStarting, cancelled) /\ TestsPlaced(phase)
  BY DEF CountInv
<1>3. pool.alive \in Nat /\ pool.creating \in Nat
  BY <1>2 DEF Tallied, Pools
<1>4. /\ pool.alive = CountSessions(workers, Open)
      /\ pool.creating = CountSessions(workers, InCreation)
  <2>1. /\ CountSessions(workers, Open) \in Nat /\ CountSessions(workers, InCreation) \in Nat
    BY SessionsFinite DEF Inv, Shape
  <2>2. /\ pool.alive = CountSessions(workers, Open) + 0
        /\ pool.creating = CountSessions(workers, InCreation) + 0
    BY <1>2 DEF Tallied
  <2> QED BY <2>1, <2>2
<1>5. /\ pool.alive = Cardinality(PoolSessions(States \ {"ended"}))
      /\ pool.creating = Cardinality(PoolSessions({"requested", "creating"}))
  BY <1>1, <1>4 DEF Open, InCreation
<1>6. pool.running = Cardinality({t \in PoolTests : phase[t] = "running"})
  <2>1. {t \in PoolTests : phase[t] = "running"} = {u \in PoolTests : phase[u] \in {"running"}}
    OBVIOUS
  <2>2. pool.running = CountTests(phase, PoolTests, {"running"})
    BY <1>2 DEF Tallied
  <2> QED BY <2>1, <2>2 DEF CountTests
<1>7. ASSUME NEW k \in C!Kinds
      PROVE  pool.waiting[k] = Cardinality({t \in Waiting : Kind(t) = k})
  <2>1. {t \in Waiting : Kind(t) = k} = {u \in PoolTestsOf(k) : phase[u] \in {"waiting"}}
    BY <1>2, TestSets DEF Waiting, TestsPlaced, TestPlaced
  <2>2. pool.waiting[k] = CountTests(phase, PoolTestsOf(k), {"waiting"})
    BY <1>2 DEF Tallied
  <2> QED BY <2>1, <2>2 DEF CountTests
<1>8. ASSUME ~cancelled
      PROVE  /\ pool.resetting = Cardinality(PoolSessions({"resetting"}))
             /\ pool.running = Cardinality(PoolSessions({"running", "checking"}))
  <2>1. /\ pool.resetting = CountSessions(workers, InReset)
        /\ pool.running = CountSessions(workers, InTest)
    BY <1>2, <1>8 DEF Tallied
  <2> QED BY <1>1, <2>1 DEF InReset, InTest
<1>9. ASSUME ~cancelled PROVE UpcomingMatchesQueue
  <2> SUFFICES ASSUME NEW k \in C!Kinds
               PROVE  LET queued == {t \in PoolTestsOf(k) : phase[t] = "queued"}
                      IN  /\ keepStarting => pool.upcoming[k] = Cardinality(queued)
                          /\ pool.upcomingAlways[k] = Cardinality(queued \intersect RunAlways)
    BY DEF UpcomingMatchesQueue
  <2> DEFINE queued == {t \in PoolTestsOf(k) : phase[t] = "queued"}
  <2>1. /\ queued = {u \in PoolTestsOf(k) : phase[u] \in {"queued"}}
        /\ queued \intersect RunAlways =
               {u \in PoolTestsOf(k) \intersect RunAlways : phase[u] \in {"queued"}}
    OBVIOUS
  <2>2. /\ keepStarting => pool.upcoming[k] = CountTests(phase, PoolTestsOf(k), {"queued"})
        /\ pool.upcomingAlways[k] =
               CountTests(phase, PoolTestsOf(k) \intersect RunAlways, {"queued"})
    BY <1>2, <1>9 DEF Tallied
  <2> HIDE DEF queued
  <2>3. /\ keepStarting => pool.upcoming[k] = Cardinality(queued)
        /\ pool.upcomingAlways[k] = Cardinality(queued \intersect RunAlways)
    BY <2>1, <2>2 DEF CountTests
  <2> QED BY <2>3 DEF queued
<1> HIDE DEF Inv
<1> QED BY <1>5, <1>6, <1>7, <1>8, <1>9, InvTypeOK DEF CountersMatchSessions

-----------------------------------------------------------------------------
(* Theorems *)

\* Inv holds in every reachable state: it holds at the start, and every step of the executor, of
\* a worker and of the cancellation keeps it.
THEOREM Invariance == Spec => []Inv
<1>1. Init => Inv
  BY InitInv
<1>2. Inv /\ [Next]_vars => Inv'
  BY StepInv
<1> QED BY <1>1, <1>2, PTL DEF Spec

\* Tickets in the pool (session_pool.rs, take and deliver) are of sessions that wait for a test,
\* and no two of the same session, until the run is cancelled.
THEOREM TicketsStayLive == Spec => []TicketsAreLive
<1>1. Inv => TicketsAreLive
  BY InvTicketsAreLive
<1> QED BY <1>1, Invariance, PTL

\* Sessions are reused (serve_tests and claim_reset) within their limit only, after tests that were
\* recorded and did not time out only, and never for a test that needs a fresh session.
THEOREM ReuseIsSafe == Spec => []SessionsAreReusedSafely
<1>1. Inv => SessionsAreReusedSafely
  BY InvReusedSafely
<1> QED BY <1>1, Invariance, PTL

\* A test that waits for a session (take) is notified when there is one for it and when it may no
\* longer start.
THEOREM WakeupsAreNotLost == Spec => []NoLostWakeup
<1>1. Inv => NoLostWakeup
  BY DEF Inv
<1> QED BY <1>1, Invariance, PTL

\* Every test is recorded at most once and runs in one session at most; when the run is over, only
\* tests that did not run are missing, and only after a cancellation or a failure under fail-fast.
THEOREM TestsAreRecordedOnce == Spec => []RecordedOnce
<1>1. Inv => RecordedOnce
  BY InvRecordedOnce
<1> QED BY <1>1, Invariance, PTL

\* A test starts in a session (run_test) only while it may: not after a cancellation, and after a
\* failure that stopped the run only if it runs always.
THEOREM NoTestStartsAfterStop == Spec => NoStartAfterStop
<1>1. Inv /\ [Next]_vars =>
          [\A t \in Tests :
              phase[t] # "running" /\ phase'[t] = "running" => MayStart(t)]_vars
  BY StartsOnlyIfAllowed DEF Inv
<1> QED BY <1>1, Invariance, PTL DEF Spec, NoStartAfterStop

\* The counters of the pool (PoolState in session_pool.rs), which take, deliver, session_ended,
\* claim_reset and the tests adjust, are what they claim to count, whatever the suites, the
\* order of the steps and the failures, in a state of the right shape with no more sessions
\* than planned tests and spares.
THEOREM CountersAreRight == Spec => []CountersMatchSessions
<1>1. Init => CountInv /\ SimpleInv
  BY InitCounts, InitSimple
<1>2. Inv /\ Inv' /\ CountInv /\ SimpleInv /\ [Next]_vars => (CountInv /\ SimpleInv)'
  BY CountStepInv, SimpleStep
<1>3. Inv /\ CountInv /\ SimpleInv => CountersMatchSessions
  BY InvCountersMatch
<1> QED BY <1>1, <1>2, <1>3, Invariance, PTL DEF Spec
=============================================================================
