---------------------------- MODULE H2StepProofs ----------------------------
(* The two relays of an intercepted HTTP/2 connection, for any streams,    *)
(* windows, frame sizes, size of output and frames the endpoints send: the *)
(* inductive invariant, and the steps of a reader up to the point where it *)
(* takes flowMu to send what fits.                                         *)
EXTENDS H2Relay, FiniteSetTheorems, WellFoundedInduction, SequenceTheorems, TLAPS

Locking == {"enqueue", "window", "flush"}

(* What a reader may have to do for a frame of d, and the frames queued.   *)
Work(d) ==
  [op : {"data"}, s : Streams, len : Nat, end : BOOLEAN]
    \cup [op : {"enqueue"}, r : {d}, s : Streams, len : Nat, end : BOOLEAN]
    \cup [op : {"connection"}, r : {Peer(d)}, inc : Nat]
    \cup [op : {"flush"}, r : {Peer(d)}]
    \cup [op : {"window"}, r : {Peer(d)}, s : Streams \cup {0}, inc : Nat]
    \cup [op : {"initial"}, r : {Peer(d)}, val : Nat]
    \cup [op : {"max"}, r : {Peer(d)}, val : Nat \ {0}]
    \cup [op : {"forward"}]

Queued == [s : Streams, len : Nat, end : BOOLEAN, n : Nat]

RelayType ==
  [flowMu : Dirs \cup {"free"}, conn : Int, init : Int, win : [Streams \cup {0} -> Int],
   queue : [Streams -> Seq(Queued)], output : Seq(Queued), max : Nat \ {0}]

ReaderType(d) ==
  [pc : {"select", "done", "returned"}, todo : Seq(Work(d)), emit : Seq(Streams \cup {0}),
   cont : {<<>>} \cup ({"HEADERS", "PUSH_PROMISE"} \X Streams), read : Nat,
   ended : SUBSET Streams]

WriterType == [pc : {"run", "drain", "stuck", "gone"}, err : BOOLEAN]

LedgerType ==
  [granted : [Streams \cup {0} -> Int], used : [Streams \cup {0} -> Int],
   queued : [Streams -> Nat], sent : [Streams -> Nat]]

(* The relays, readers and books are what they seem.                       *)
H2TypeOK ==
  /\ relay \in [Dirs -> RelayType]
  /\ DOMAIN reader = Dirs /\ \A d \in Dirs : reader[d] \in ReaderType(d)
  /\ writer \in [Dirs -> WriterType]
  /\ ledger \in [Dirs -> LedgerType]

(* The order of the work: a payload and a change of all the windows come   *)
(* first, such a change is followed by a walk of all the buffers, and what *)
(* may fail comes last.                                                    *)
Ordered(todo) ==
  \A i \in DOMAIN todo :
    /\ todo[i].op = "data" => Len(todo) = 1
    /\ todo[i].op \in {"connection", "initial"} =>
         i = 1 /\ Len(todo) > 1 /\ todo[2].op = "flush"
    /\ todo[i].op = "window" /\ todo[i].s # 0 => i = 1
    /\ todo[i].op = "forward" => i = Len(todo)

(* A reader that has left its loop has left no work.                       *)
Left == \A d \in Dirs : reader[d].pc # "select" => reader[d].todo = <<>>

(* flowMu is held by the reader that emits, whose next frame fits.         *)
Locks ==
  \A d \in Dirs :
    /\ reader[d].emit # <<>> =>
         /\ reader[d].pc = "select" /\ reader[d].todo # <<>> /\ Next1(d).op \in Locking
         /\ relay[Next1(d).r].flowMu = d
         /\ Fits(relay[Next1(d).r], Head(reader[d].emit))
    /\ \A r \in Dirs : relay[r].flowMu = d => reader[d].emit # <<>> /\ Next1(d).r = r

(* What the reader of the other relay has read and not yet added.          *)
ConnOwed(r) ==
  LET p == reader[Peer(r)] IN
  IF p.todo # <<>> /\ Head(p.todo).op = "connection" THEN Head(p.todo).inc ELSE 0

StreamOwed(r, s) ==
  LET p == reader[Peer(r)] IN
  IF p.todo = <<>> \/ p.emit # <<>> THEN 0
  ELSE IF Head(p.todo).op = "window" /\ Head(p.todo).s = s THEN Head(p.todo).inc
  ELSE IF Head(p.todo).op = "initial" THEN Head(p.todo).val - relay[r].init
  ELSE 0

Books ==
  \A r \in Dirs :
    /\ relay[r].conn >= 0
    /\ relay[r].conn = ledger[r].granted[0] - ledger[r].used[0] - ConnOwed(r)
    /\ \A s \in Streams :
         relay[r].win[s] = ledger[r].granted[s] - ledger[r].used[s] - StreamOwed(r, s)

(* A walk of all buffers of r that has not begun.                          *)
FlushAhead(r) ==
  LET p == reader[Peer(r)] IN
  \E i \in DOMAIN p.todo : p.todo[i].op = "flush" /\ (i > 1 \/ p.emit = <<>>)

(* A frame that fits is still to be met by the walk under way, or by one   *)
(* that will begin.                                                        *)
Walked(r, s) ==
  /\ relay[r].flowMu # "free"
  /\ \E i \in DOMAIN reader[relay[r].flowMu].emit : reader[relay[r].flowMu].emit[i] = s

Woken == \A r \in Dirs, s \in Streams : Fits(relay[r], s) => FlushAhead(r) \/ Walked(r, s)

H2Inv ==
  /\ H2TypeOK
  /\ \A d \in Dirs : Ordered(reader[d].todo)
  /\ Left
  /\ Locks
  /\ Books
  /\ Woken
  /\ StreamOrder

-----------------------------------------------------------------------------
LEMMA Peers == \A d \in Dirs : Peer(d) \in Dirs /\ Peer(d) # d /\ Peer(Peer(d)) = d
  BY DEF Peer, Dirs

LEMMA Directions == \A d, r \in Dirs : r = d \/ r = Peer(d)
  BY DEF Peer, Dirs

(* The fields of a piece of work, by its kind.                             *)
LEMMA WorkFields ==
  ASSUME NEW d \in Dirs, NEW o \in Work(d)
  PROVE  /\ o.op \in {"data", "enqueue", "connection", "flush", "window", "initial", "max",
                      "forward"}
         /\ o.op = "data" => o.s \in Streams /\ o.len \in Nat /\ o.end \in BOOLEAN
         /\ o.op = "enqueue" =>
              o.r = d /\ o.s \in Streams /\ o.len \in Nat /\ o.end \in BOOLEAN
         /\ o.op \in {"connection", "flush", "window", "initial", "max"} => o.r = Peer(d)
         /\ o.op = "connection" => o.inc \in Nat
         /\ o.op = "window" => o.s \in Streams \cup {0} /\ o.inc \in Nat
         /\ o.op = "initial" => o.val \in Nat
         /\ o.op = "max" => o.val \in Nat \ {0}
  BY DEF Work

(* A set of indices has a least one.                                       *)
LEMMA LeastIndex ==
  ASSUME NEW T \in SUBSET Nat, T # {}
  PROVE  \E i \in T : \A j \in T : i <= j
<1>1. PICK i \in T : \A j \in T : ~(<<j, i>> \in OpToRel(<, Nat))
  BY NatLessThanWellFounded, WFMin, Zenon
<1>2. \A j \in T : ~(j < i)
  BY <1>1, Zenon DEF OpToRel
<1> QED BY <1>2

(* What is left of the walk q: it goes on with a buffer whose front fits,  *)
(* and has passed none.                                                    *)
StopsAt(rel, q, rest) ==
  /\ rest \in Seq(Streams \cup {0})
  /\ rest # <<>> => Fits(rel, Head(rest))
  /\ \A k \in DOMAIN q : Fits(rel, q[k]) =>
       rest # <<>> /\ \E i \in DOMAIN rest : rest[i] = q[k]

LEMMA WalkStops ==
  ASSUME NEW rel, NEW q \in Seq(Streams \cup {0})
  PROVE  StopsAt(rel, q, Walk(rel, q))
<1> DEFINE at == {i \in DOMAIN q : Fits(rel, q[i])}
<1>1. at \in SUBSET Nat
  BY LenProperties
<1>2. CASE at = {}
  <2>1. Walk(rel, q) = <<>>
    BY <1>2 DEF Walk
  <2> QED BY <2>1, <1>2 DEF StopsAt
<1>3. CASE at # {}
  <2> DEFINE m == CHOOSE i \in at : \A j \in at : i <= j
  <2>1. m \in at /\ \A j \in at : m <= j
    BY <1>1, <1>3, LeastIndex, Zenon
  <2>2. m \in 1 .. Len(q) /\ Len(q) \in Nat /\ DOMAIN q = 1 .. Len(q)
    BY <2>1, LenProperties
  <2>3. Walk(rel, q) = SubSeq(q, m, Len(q))
    BY <1>3, Zenon DEF Walk
  <2> HIDE DEF m
  <2>4. \A i \in m .. Len(q) : q[i] \in Streams \cup {0}
    BY <2>2, ElementOfSeq
  <2>5. /\ SubSeq(q, m, Len(q)) \in Seq(Streams \cup {0})
        /\ Len(SubSeq(q, m, Len(q))) = Len(q) - m + 1
        /\ \A i \in 1 .. Len(q) - m + 1 : SubSeq(q, m, Len(q))[i] = q[m + i - 1]
    BY <2>2, <2>4, SubSeqProperties
  <2>6. Head(SubSeq(q, m, Len(q))) = q[m]
    BY <2>2, HeadTailOfSubSeq
  <2>7. Fits(rel, q[m])
    BY <2>1
  <2>8. ASSUME NEW k \in DOMAIN q, Fits(rel, q[k])
        PROVE  /\ SubSeq(q, m, Len(q)) # <<>>
               /\ \E i \in DOMAIN SubSeq(q, m, Len(q)) : SubSeq(q, m, Len(q))[i] = q[k]
    <3>1. m <= k /\ k \in 1 .. Len(q)
      BY <2>1, <2>2, <2>8
    <3>2. k - m + 1 \in 1 .. Len(q) - m + 1 /\ m + (k - m + 1) - 1 = k
      BY <3>1, <2>2
    <3>3. DOMAIN SubSeq(q, m, Len(q)) = 1 .. Len(q) - m + 1
      BY <2>5, LenProperties
    <3>4. SubSeq(q, m, Len(q))[k - m + 1] = q[k]
      BY <3>2, <2>5
    <3>5. k - m + 1 \in DOMAIN SubSeq(q, m, Len(q))
      BY <3>2, <3>3
    <3>6. Len(SubSeq(q, m, Len(q))) # 0
      BY <2>2, <2>5
    <3> QED BY <3>4, <3>5, <3>6, EmptySeq, Zenon
  <2> QED BY <2>3, <2>5, <2>6, <2>7, <2>8, Zenon DEF StopsAt
<1> QED BY <1>2, <1>3

(* A walk of the map meets every buffer.                                   *)
LEMMA OrdersMeetAll ==
  ASSUME NEW q \in Orders
  PROVE  /\ q \in Seq(Streams \cup {0})
         /\ \A s \in Streams : \E i \in DOMAIN q : q[i] = s
<1> DEFINE n == Cardinality(Streams)
<1>1. IsFiniteSet(Streams) /\ n \in Nat
  BY H2Assumption, FS_CardinalityType
<1>2. q \in [1..n -> Streams] /\ \A i, j \in 1..n : q[i] = q[j] => i = j
  BY DEF Orders
<1>3. q \in Injection(1..n, Streams)
  BY <1>2 DEF Injection, IsInjective
<1>4. IsFiniteSet(1..n) /\ Cardinality(1..n) = n
  BY <1>1, FS_Interval
<1>5. q \in Surjection(1..n, Streams)
  BY <1>1, <1>3, <1>4, FS_Injection
<1>6. \A s \in Streams : \E i \in 1..n : q[i] = s
  BY <1>5 DEF Surjection
<1>7. q \in Seq(Streams \cup {0})
  <2>1. q \in [1..n -> Streams \cup {0}]
    BY <1>2
  <2> QED BY <1>1, <2>1, SeqDef
<1> QED BY <1>2, <1>6, <1>7

-----------------------------------------------------------------------------
(* Work that is done leaves the rest in order.                             *)
LEMMA OrderedTail ==
  ASSUME NEW d \in Dirs, NEW todo \in Seq(Work(d)), todo # <<>>, Ordered(todo)
  PROVE  Tail(todo) \in Seq(Work(d)) /\ Ordered(Tail(todo))
<1>1. /\ Tail(todo) \in Seq(Work(d)) /\ Len(Tail(todo)) = Len(todo) - 1
      /\ \A i \in 1 .. Len(Tail(todo)) : Tail(todo)[i] = todo[i + 1]
      /\ Len(todo) \in Nat \ {0} /\ DOMAIN todo = 1 .. Len(todo)
  BY HeadTailProperties, LenProperties, EmptySeq
<1>2. DOMAIN Tail(todo) = 1 .. Len(todo) - 1
  BY <1>1, LenProperties
<1>3. SUFFICES ASSUME NEW i \in 1 .. Len(todo) - 1
      PROVE  /\ Tail(todo)[i].op = "data" => FALSE
             /\ Tail(todo)[i].op \in {"connection", "initial"} => FALSE
             /\ Tail(todo)[i].op = "window" /\ Tail(todo)[i].s # 0 => FALSE
             /\ Tail(todo)[i].op = "forward" => i = Len(todo) - 1
  BY <1>1, <1>2, Zenon DEF Ordered
<1>4. Tail(todo)[i] = todo[i + 1] /\ i + 1 \in DOMAIN todo /\ i + 1 # 1 /\ Len(todo) # 1
  BY <1>1
<1>5. /\ todo[i + 1].op = "data" => Len(todo) = 1
      /\ todo[i + 1].op \in {"connection", "initial"} => i + 1 = 1
      /\ todo[i + 1].op = "window" /\ todo[i + 1].s # 0 => i + 1 = 1
      /\ todo[i + 1].op = "forward" => i + 1 = Len(todo)
  BY <1>4 DEF Ordered
<1>6. i + 1 = Len(todo) => i = Len(todo) - 1
  <2>1. Len(todo) \in Nat
    BY <1>1
  <2> HIDE <1>3
  <2> QED BY <2>1
<1> QED BY <1>4, <1>5, <1>6

(* A reader about to do something that concerns no window.                 *)
Quiet(todo) == todo = <<>> \/ Head(todo).op \in {"data", "enqueue", "forward", "max"}

(* A step of a reader that holds no lock and changes only its own work.    *)
LEMMA ReaderMoves ==
  ASSUME H2Inv, NEW d \in Dirs, NEW rd \in ReaderType(d),
         reader[d].emit = <<>>, rd.emit = <<>>,
         reader' = [reader EXCEPT ![d] = rd],
         UNCHANGED <<relay, ledger>>,
         writer' \in [Dirs -> WriterType],
         \A x \in Dirs : writer'[x].pc = "run" => writer[x].pc = "run",
         Ordered(rd.todo), rd.pc # "select" => rd.todo = <<>>,
         Quiet(reader[d].todo), Quiet(rd.todo),
         \A i \in DOMAIN reader[d].todo : reader[d].todo[i].op # "flush"
  PROVE  H2Inv'
<1> DEFINE p == Peer(d)
<1>1. p \in Dirs /\ p # d /\ Peer(p) = d /\ \A r \in Dirs : r = d \/ r = p
  BY Peers, Directions
<1>2. reader'[d] = rd /\ reader'[p] = reader[p] /\ DOMAIN reader' = Dirs
  BY <1>1 DEF H2Inv, H2TypeOK
<1> HIDE DEF p
<1>3. H2TypeOK'
  BY <1>1, <1>2 DEF H2Inv, H2TypeOK
<1>4. \A x \in Dirs : Ordered(reader'[x].todo)
  BY <1>1, <1>2 DEF H2Inv
<1>4a. Left'
  BY <1>1, <1>2 DEF H2Inv, Left
<1>5. \A r \in Dirs : relay[r].flowMu # d
  BY DEF H2Inv, Locks
<1>6. Locks'
  BY <1>1, <1>2, <1>5 DEF H2Inv, Locks, Next1
<1>7. \A r \in Dirs : ConnOwed(r)' = ConnOwed(r)
  BY <1>1, <1>2, Peers DEF ConnOwed, Quiet, p
<1>8. \A r \in Dirs, s \in Streams : StreamOwed(r, s)' = StreamOwed(r, s)
  BY <1>1, <1>2, Peers DEF StreamOwed, Quiet, p
<1>9. Books'
  BY <1>7, <1>8 DEF H2Inv, Books
<1>10. Woken'
  <2> SUFFICES ASSUME NEW r \in Dirs, NEW s \in Streams, Fits(relay[r], s)
               PROVE  FlushAhead(r)' \/ Walked(r, s)'
    BY DEF Woken
  <2>1. FlushAhead(r) \/ Walked(r, s)
    BY DEF H2Inv, Woken
  <2>2. CASE Walked(r, s)
    <3>1. relay[r].flowMu = p
      BY <1>1, <1>5, <2>2, ZenonT(40) DEF H2Inv, H2TypeOK, RelayType, Walked
    <3> QED BY <1>2, <2>2, <3>1 DEF Walked
  <2>3. CASE FlushAhead(r)
    <3>1. r # p
      BY <1>1, <2>3 DEF FlushAhead
    <3>2. reader'[Peer(r)] = reader[Peer(r)]
      BY <1>1, <1>2, <3>1 DEF p
    <3> QED BY <2>3, <3>2 DEF FlushAhead
  <2> QED BY <2>1, <2>2, <2>3
<1>11. StreamOrder'
  BY DEF H2Inv, StreamOrder
<1> QED BY <1>3, <1>4, <1>4a, <1>6, <1>9, <1>10, <1>11 DEF H2Inv

(* The cuts of a payload: all but the last have the greatest size.         *)
LEMMA CutSizes ==
  ASSUME NEW len \in Nat, NEW max \in Nat \ {0}
  PROVE  LET n == IF len = 0 THEN 1 ELSE (len + max - 1) \div max
         IN n \in Nat \ {0} /\ len - (n - 1) * max \in Nat
<1>1. CASE len = 0
  BY <1>1
<1>2. CASE len # 0
  <2> DEFINE n == (len + max - 1) \div max
             m == (len + max - 1) % max
  <2>1. n \in Int /\ m \in 0 .. max - 1 /\ len + max - 1 = max * n + m
    OBVIOUS
  <2> HIDE DEF n, m
  <2>2. n >= 1
    <3>1. CASE n <= 0
      <4>1. max * n <= 0
        BY <3>1, <2>1
      <4> QED BY <4>1, <2>1, <1>2
    <3> QED BY <3>1, <2>1
  <2>3. (n - 1) * max = max * n - max
    BY <2>1
  <2>4. len - (n - 1) * max \in Nat
    BY <2>1, <2>3
  <2> QED BY <1>2, <2>1, <2>2, <2>4 DEF n
<1> QED BY <1>1, <1>2

(* relay.data cuts a payload into frames for its own queue.                *)
LEMMA SplitDataInv ==
  ASSUME H2Inv, NEW d \in Dirs, SplitData(d)
  PROVE  H2Inv'
<1> DEFINE o == Next1(d)
           max == relay[d].max
           n == IF o.len = 0 THEN 1 ELSE (o.len + max - 1) \div max
           piece(i) == [op |-> "enqueue", r |-> d, s |-> o.s, end |-> o.end /\ i = n,
                        len |-> IF i < n THEN max ELSE o.len - (n - 1) * max]
           pieces == [i \in 1..n |-> piece(i)]
<1>1. /\ reader[d] \in ReaderType(d) /\ reader[d].todo \in Seq(Work(d))
      /\ reader[d].todo # <<>> /\ reader[d].emit = <<>> /\ o.op = "data"
      /\ max \in Nat \ {0} /\ DOMAIN reader = Dirs
  BY Zenon DEF H2Inv, H2TypeOK, ReaderType, RelayType, SplitData, HasWork
<1>2. o = reader[d].todo[1] /\ 1 \in DOMAIN reader[d].todo /\ o \in Work(d)
  BY <1>1, HeadTailProperties, LenProperties, EmptySeq DEF Next1
<1>3. o.s \in Streams /\ o.len \in Nat /\ o.end \in BOOLEAN
  BY <1>1, <1>2, WorkFields
<1>4. Len(reader[d].todo) = 1
  BY <1>1, <1>2 DEF H2Inv, Ordered
<1>5. Tail(reader[d].todo) = <<>>
  <2>1. Tail(reader[d].todo) \in Seq(Work(d)) /\ Len(Tail(reader[d].todo)) = 0
    BY <1>1, <1>4, HeadTailProperties
  <2> QED BY <2>1, EmptySeq, Zenon
<1>6. \A i \in DOMAIN reader[d].todo : reader[d].todo[i].op # "flush"
  BY <1>1, <1>2, <1>4, LenProperties
<1>7. n \in Nat \ {0} /\ o.len - (n - 1) * max \in Nat
  BY <1>1, <1>3, CutSizes, Zenon
<1> HIDE DEF n, o, max
<1>8. \A i \in 1..n : piece(i) \in Work(d) /\ piece(i).op = "enqueue"
  BY <1>1, <1>3, <1>7 DEF Work
<1>9. pieces \in Seq(Work(d)) /\ DOMAIN pieces = 1..n /\ pieces \o <<>> = pieces
  <2>1. pieces \in [1..n -> Work(d)]
    BY <1>8
  <2>2. pieces \in Seq(Work(d))
    BY <1>7, <2>1, SeqDef
  <2> QED BY <2>1, <2>2, ConcatEmptySeq
<1>10. Ordered(pieces)
  BY <1>8, <1>9 DEF Ordered
<1>11. Head(pieces).op = "enqueue"
  BY <1>7, <1>8, <1>9
<1> HIDE DEF pieces
<1>12. CASE o.len > 0 /\ Peer(d) \in broken
  <2> DEFINE rd == [reader[d] EXCEPT !.pc = "done", !.todo = <<>>]
  <2>1. reader' = [reader EXCEPT ![d] = rd]
    BY <1>1, <1>12, Zenon DEF SplitData, Fail, o
  <2>2. rd \in ReaderType(d) /\ rd.todo = <<>> /\ rd.emit = <<>>
    BY <1>1, EmptySeq, Zenon DEF ReaderType
  <2>3. Ordered(rd.todo) /\ Quiet(rd.todo) /\ Quiet(reader[d].todo)
    BY <1>1, <2>2 DEF Ordered, Quiet, o, Next1
  <2> HIDE DEF rd
  <2> QED BY <1>1, <1>6, <2>1, <2>2, <2>3, ReaderMoves, Zenon DEF SplitData, H2Inv, H2TypeOK
<1>13. CASE ~(o.len > 0 /\ Peer(d) \in broken)
  <2> DEFINE rd == [reader[d] EXCEPT !.todo = pieces]
  <2>1. reader' = [reader EXCEPT ![d] = rd]
    <3>1. reader' = [reader EXCEPT ![d].todo = pieces \o Tail(@)]
      BY <1>13, Zenon DEF SplitData, o, n, max, pieces
    <3>2. reader' = [reader EXCEPT ![d].todo = pieces \o Tail(reader[d].todo)]
      BY <3>1, <1>1
    <3> QED BY <1>1, <1>5, <1>9, <3>2, Zenon
  <2>2. rd \in ReaderType(d) /\ rd.todo = pieces /\ rd.emit = <<>> /\ rd.pc = "select"
    BY <1>1, <1>9, Zenon DEF ReaderType, SplitData, HasWork
  <2>3. Ordered(rd.todo) /\ Quiet(rd.todo) /\ Quiet(reader[d].todo)
    BY <1>1, <1>10, <1>11, <2>2 DEF Quiet, o, Next1
  <2> HIDE DEF rd
  <2> QED BY <1>1, <1>6, <2>1, <2>2, <2>3, ReaderMoves, Zenon DEF SplitData, H2Inv, H2TypeOK
<1> QED BY <1>12, <1>13

(* The steps that take no lock and change no window.                       *)
LEMMA OwnStepInv ==
  ASSUME H2Inv, NEW d \in Dirs,
         \/ Forward(d) \/ ReaderDone(d)
         \/ \E why \in {"read", "writerErr", "closing"} : SelectEnds(d, why)
  PROVE  H2Inv'
<1>1. /\ reader[d] \in ReaderType(d) /\ reader[d].todo \in Seq(Work(d)) /\ DOMAIN reader = Dirs
      /\ reader[d].emit \in Seq(Streams \cup {0})
      /\ writer \in [Dirs -> WriterType]
  BY DEF H2Inv, H2TypeOK, ReaderType
<1>2. CASE Forward(d)
  <2>1. reader[d].todo # <<>> /\ reader[d].emit = <<>> /\ Head(reader[d].todo).op = "forward"
    BY <1>2 DEF Forward, HasWork, Next1
  <2>2. Head(reader[d].todo) = reader[d].todo[1] /\ 1 \in DOMAIN reader[d].todo
    BY <1>1, <2>1, HeadTailProperties, LenProperties, EmptySeq
  <2>3. Len(reader[d].todo) = 1
    BY <2>1, <2>2, Zenon DEF H2Inv, Ordered
  <2>4. Tail(reader[d].todo) = <<>>
    <3>1. Tail(reader[d].todo) \in Seq(Work(d)) /\ Len(Tail(reader[d].todo)) = 0
      BY <1>1, <2>1, <2>3, HeadTailProperties
    <3> QED BY <3>1, EmptySeq, Zenon
  <2>5. \A i \in DOMAIN reader[d].todo : reader[d].todo[i].op # "flush"
    BY <1>1, <2>1, <2>2, <2>3, LenProperties
  <2> DEFINE rd == [reader[d] EXCEPT !.pc = IF d \in broken THEN "done" ELSE @, !.todo = <<>>]
  <2>6. reader' = [reader EXCEPT ![d] = rd]
    BY <1>1, <1>2, <2>4, Zenon DEF Forward, Fail, Done1, ReaderType
  <2>7. rd \in ReaderType(d) /\ rd.todo = <<>> /\ rd.emit = <<>>
    BY <1>1, <2>1, EmptySeq, Zenon DEF ReaderType
  <2>8. Ordered(rd.todo) /\ Quiet(rd.todo) /\ Quiet(reader[d].todo)
    BY <2>1, <2>7 DEF Ordered, Quiet
  <2> HIDE DEF rd
  <2> QED BY <1>1, <1>2, <2>1, <2>5, <2>6, <2>7, <2>8, ReaderMoves DEF Forward
<1>3. ASSUME NEW pc \in {"done", "returned"}, reader[d].todo = <<>>, reader[d].emit = <<>>,
             reader' = [reader EXCEPT ![d].pc = pc],
             writer' \in [Dirs -> WriterType],
             \A x \in Dirs : writer'[x].pc = "run" => writer[x].pc = "run",
             UNCHANGED <<relay, ledger>>
      PROVE  H2Inv'
  <2> DEFINE rd == [reader[d] EXCEPT !.pc = pc]
  <2>1. reader' = [reader EXCEPT ![d] = rd]
    BY <1>1, <1>3
  <2>2. rd \in ReaderType(d) /\ rd.todo = <<>> /\ rd.emit = <<>>
    BY <1>1, <1>3, Zenon DEF ReaderType
  <2>3. Ordered(rd.todo) /\ Quiet(rd.todo) /\ Quiet(reader[d].todo)
    BY <1>3, <2>2 DEF Ordered, Quiet
  <2>4. \A i \in DOMAIN reader[d].todo : reader[d].todo[i].op # "flush"
    BY <1>3
  <2> HIDE DEF rd
  <2> QED BY <1>1, <1>3, <2>1, <2>2, <2>3, <2>4, ReaderMoves, Zenon
<1>4. CASE ReaderDone(d)
  <2>1. reader[d].todo = <<>> /\ reader[d].emit = <<>>
    BY <1>4 DEF ReaderDone, H2Inv, Locks, Left
  <2>2. /\ writer' \in [Dirs -> WriterType]
        /\ \A x \in Dirs : writer'[x].pc = "run" => writer[x].pc = "run"
    BY <1>1, <1>4 DEF ReaderDone, WriterType
  <2> QED BY <1>3, <1>4, <2>1, <2>2 DEF ReaderDone
<1>5. CASE \E why \in {"read", "writerErr", "closing"} : SelectEnds(d, why)
  <2>1. PICK why \in {"read", "writerErr", "closing"} : SelectEnds(d, why)
    BY <1>5
  <2>2. reader[d].todo = <<>> /\ reader[d].emit = <<>>
    BY <2>1 DEF SelectEnds, H2Inv, Locks
  <2>3. /\ writer' \in [Dirs -> WriterType]
        /\ \A x \in Dirs : writer'[x].pc = "run" => writer[x].pc = "run"
    <3> DEFINE b == writer[d].err /\ why # "writerErr"
    <3>1. b \in BOOLEAN
      OBVIOUS
    <3>2. writer' = [writer EXCEPT ![d].err = b]
      BY <1>1, <2>1 DEF SelectEnds, WriterType
    <3> HIDE DEF b
    <3> QED BY <1>1, <3>1, <3>2 DEF WriterType
  <2> QED BY <1>3, <2>1, <2>2, <2>3 DEF SelectEnds
<1> QED BY <1>2, <1>4, <1>5

(* The work of a frame, and what the frame grants, are the same amounts.   *)
LEMMA FrameWorkGrants ==
  ASSUME NEW d \in Dirs, NEW f \in Frames, reader[d] \in ReaderType(d), MaySend(d, f)
  PROVE  LET w == FrameWork(d, f)
             at(op) == w # <<>> /\ Head(w).op = op
         IN /\ w \in Seq(Work(d)) /\ Ordered(w)
            /\ at("connection") <=> f.type = "WINDOW_UPDATE" /\ f.s = 0
            /\ at("connection") => Head(w).inc = f.inc
            /\ at("window") <=> f.type = "WINDOW_UPDATE" /\ f.s # 0
            /\ at("window") => Head(w).inc = f.inc /\ Head(w).s = f.s
            /\ at("initial") <=> f.type = "INITIAL_WINDOW_SIZE"
            /\ at("initial") => Head(w).val = f.val
<1> DEFINE w == FrameWork(d, f)
<1>1. ASSUME NEW x \in Work(d), w = <<x>>
      PROVE  /\ w \in Seq(Work(d)) /\ w # <<>> /\ Head(w) = x
             /\ x.op \notin {"connection", "initial"} => Ordered(w)
  BY <1>1 DEF Ordered
<1>2. CASE f.type = "DATA"
  <2>1. f.s \in Streams /\ f.len \in Nat /\ f.end \in BOOLEAN
    BY <1>2 DEF Frames
  <2>2. [op |-> "data", s |-> f.s, len |-> f.len, end |-> f.end] \in Work(d)
    BY <2>1 DEF Work
  <2>3. w = <<[op |-> "data", s |-> f.s, len |-> f.len, end |-> f.end]>>
    BY <1>2 DEF FrameWork
  <2> QED BY <1>1, <1>2, <2>2, <2>3
<1>3. ASSUME NEW b \in BOOLEAN, f.s \in Streams
      PROVE  Unmetered(d, f, b) \in Work(d) /\ Unmetered(d, f, b).op = "enqueue"
  BY <1>3 DEF Unmetered, Work
<1>4. CASE f.type \in {"HEADERS", "PUSH_PROMISE"} /\ f.ended
  <2>1. f.s \in Streams /\ f.end \in BOOLEAN
    BY <1>4 DEF Frames
  <2>2. w = <<Unmetered(d, f, f.end)>>
    BY <1>4 DEF FrameWork
  <2> QED BY <1>1, <1>3, <1>4, <2>1, <2>2
<1>5. CASE f.type \in {"HEADERS", "PUSH_PROMISE"} /\ ~f.ended
  <2>1. w = <<>>
    BY <1>5 DEF FrameWork
  <2>2. w \in Seq(Work(d)) /\ Ordered(w)
    BY <2>1 DEF Ordered
  <2> QED BY <1>5, <2>1, <2>2
<1>6. CASE f.type = "CONTINUATION" /\ f.ended
  <2> DEFINE b == reader[d].cont[1] = "HEADERS"
  <2>1. f.s \in Streams /\ b \in BOOLEAN
    BY <1>6 DEF Frames
  <2>2. w = <<Unmetered(d, f, b)>>
    BY <1>6 DEF FrameWork
  <2> HIDE DEF b
  <2> QED BY <1>1, <1>3, <1>6, <2>1, <2>2
<1>6a. CASE f.type = "CONTINUATION" /\ ~f.ended
  <2>1. w = <<>>
    BY <1>6a DEF FrameWork
  <2>2. w \in Seq(Work(d)) /\ Ordered(w)
    BY <2>1 DEF Ordered
  <2> QED BY <1>6a, <2>1, <2>2
<1>7. CASE f.type \in {"PRIORITY", "RST_STREAM"}
  <2>1. f.s \in Streams
    BY <1>7 DEF Frames
  <2>2. w = <<Unmetered(d, f, FALSE)>>
    BY <1>7, Zenon DEF FrameWork
  <2> QED BY <1>1, <1>3, <1>7, <2>1, <2>2, Zenon
<1>8. CASE f.type = "WINDOW_UPDATE"
  <2> DEFINE c == [op |-> "connection", r |-> Peer(d), inc |-> f.inc]
             l == [op |-> "flush", r |-> Peer(d)]
             x == [op |-> "window", r |-> Peer(d), s |-> f.s, inc |-> f.inc]
  <2>1. f.s \in Streams \cup {0} /\ f.inc \in Nat
    BY <1>8 DEF Frames
  <2>2. /\ c \in Work(d) /\ l \in Work(d) /\ x \in Work(d)
        /\ c.op = "connection" /\ c.inc = f.inc /\ l.op = "flush" /\ x.op = "window"
        /\ x.s = f.s /\ x.inc = f.inc
    BY <2>1 DEF Work
  <2>3. w = IF f.s = 0 THEN <<c, l, x>> ELSE <<x>>
    BY <1>8 DEF FrameWork
  <2> HIDE DEF c, l, x
  <2>5. CASE f.s # 0
    BY <1>1, <1>8, <2>2, <2>3, <2>5
  <2>6. CASE f.s = 0
    <3> HIDE DEF w
    <3>1. w = <<c, l, x>>
      BY <2>3, <2>6
    <3>2. w \in Seq(Work(d)) /\ w # <<>> /\ Head(w) = c
      BY <2>2, <3>1
    <3>3. Ordered(w)
      BY <2>2, <2>6, <3>1 DEF Ordered
    <3> QED BY <1>8, <2>2, <2>6, <3>2, <3>3 DEF w
  <2> QED BY <2>5, <2>6, Zenon
<1>9. CASE f.type = "INITIAL_WINDOW_SIZE"
  <2> DEFINE c == [op |-> "initial", r |-> Peer(d), val |-> f.val]
             l == [op |-> "flush", r |-> Peer(d)]
             x == [op |-> "forward"]
  <2>1. f.val \in Nat
    BY <1>9 DEF Frames
  <2>2. /\ c \in Work(d) /\ l \in Work(d) /\ x \in Work(d)
        /\ c.op = "initial" /\ c.val = f.val /\ l.op = "flush" /\ x.op = "forward"
    BY <2>1 DEF Work
  <2>3. w = <<c, l, x>>
    BY <1>9 DEF FrameWork
  <2> HIDE DEF w, c, l, x
  <2>4. w \in Seq(Work(d)) /\ w # <<>> /\ Head(w) = c
    BY <2>2, <2>3
  <2>5. Ordered(w)
    BY <2>2, <2>3 DEF Ordered
  <2> QED BY <1>9, <2>2, <2>4, <2>5 DEF w
<1>10. CASE f.type = "MAX_FRAME_SIZE"
  <2> DEFINE c == [op |-> "max", r |-> Peer(d), val |-> f.val]
             x == [op |-> "forward"]
  <2>1. f.val \in Nat \ {0}
    BY <1>10 DEF Frames
  <2>2. /\ c \in Work(d) /\ x \in Work(d)
        /\ c.op = "max" /\ x.op = "forward"
    BY <2>1 DEF Work
  <2>3. w = <<c, x>>
    BY <1>10 DEF FrameWork
  <2> HIDE DEF w, c, x
  <2>4. w \in Seq(Work(d)) /\ w # <<>> /\ Head(w) = c
    BY <2>2, <2>3
  <2>5. Ordered(w)
    BY <2>2, <2>3 DEF Ordered
  <2> QED BY <1>10, <2>2, <2>4, <2>5 DEF w
<1>11. CASE f.type \in {"PING", "GOAWAY", "SETTINGS_ACK"}
  <2>1. [op |-> "forward"] \in Work(d)
    BY DEF Work
  <2>2. w = <<[op |-> "forward"]>>
    BY <1>11 DEF FrameWork
  <2> QED BY <1>1, <1>11, <2>1, <2>2
<1>12. f.type \in {"DATA", "HEADERS", "PUSH_PROMISE", "CONTINUATION", "PRIORITY", "RST_STREAM",
                   "WINDOW_UPDATE", "INITIAL_WINDOW_SIZE", "MAX_FRAME_SIZE", "PING", "GOAWAY",
                   "SETTINGS_ACK"}
  BY DEF Frames
<1> QED
  BY <1>2, <1>4, <1>5, <1>6, <1>6a, <1>7, <1>8, <1>9, <1>10, <1>11, <1>12, Zenon

(* Reading a frame: its work is set, and what it grants is owed.           *)
LEMMA ReadFrameInv ==
  ASSUME H2Inv, NEW d \in Dirs, NEW f \in Frames, ReadFrame(d, f)
  PROVE  H2Inv'
<1> DEFINE p == Peer(d)
           w == FrameWork(d, f)
           rd == reader'[d]
           l == Grant(d, f)
           at(op) == w # <<>> /\ Head(w).op = op
<1>1. p \in Dirs /\ p # d /\ Peer(p) = d /\ \A r \in Dirs : r = d \/ r = p
  BY Peers, Directions
<1>2. /\ reader[d] \in ReaderType(d) /\ DOMAIN reader = Dirs /\ reader[p] \in ReaderType(p)
      /\ reader[d].todo = <<>> /\ reader[d].emit = <<>> /\ reader[d].pc = "select"
      /\ MaySend(d, f)
  BY <1>1 DEF H2Inv, H2TypeOK, Locks, ReadFrame
<1>3. /\ w \in Seq(Work(d)) /\ Ordered(w)
      /\ at("connection") <=> f.type = "WINDOW_UPDATE" /\ f.s = 0
      /\ at("connection") => Head(w).inc = f.inc
      /\ at("window") <=> f.type = "WINDOW_UPDATE" /\ f.s # 0
      /\ at("window") => Head(w).inc = f.inc /\ Head(w).s = f.s
      /\ at("initial") <=> f.type = "INITIAL_WINDOW_SIZE"
      /\ at("initial") => Head(w).val = f.val
  BY <1>2, FrameWorkGrants
<1> HIDE DEF w
<1>4. /\ rd \in ReaderType(d) /\ rd.todo = w /\ rd.emit = <<>> /\ rd.pc = "select"
      /\ reader'[p] = reader[p] /\ DOMAIN reader' = Dirs
  <2> DEFINE cont == OpenBlock(d, f)
             ended == IF Ends(f) THEN reader[d].ended \cup {f.s} ELSE reader[d].ended
  <2>1. cont \in {<<>>} \cup ({"HEADERS", "PUSH_PROMISE"} \X Streams)
    <3>1. reader[d].cont \in {<<>>} \cup ({"HEADERS", "PUSH_PROMISE"} \X Streams)
      BY <1>2 DEF ReaderType
    <3>2. CASE f.type \in {"HEADERS", "PUSH_PROMISE"} /\ ~f.ended
      <4>1. f.s \in Streams
        BY <3>2 DEF Frames
      <4>2. cont = <<f.type, f.s>>
        BY <3>2 DEF OpenBlock
      <4> QED BY <3>2, <4>1, <4>2
    <3>3. CASE f.type = "CONTINUATION" /\ ~f.ended
      BY <3>1, <3>3 DEF OpenBlock
    <3>4. CASE ~(f.type \in {"HEADERS", "PUSH_PROMISE", "CONTINUATION"} /\ ~f.ended)
      BY <3>4 DEF OpenBlock
    <3> QED BY <3>2, <3>3, <3>4
  <2>2. Ends(f) => f.s \in Streams
    BY DEF Frames, Ends
  <2>3. ended \in SUBSET Streams
    BY <1>2, <2>2 DEF ReaderType
  <2> DEFINE now == [reader[d] EXCEPT !.read = @ + 1, !.todo = w, !.cont = cont, !.ended = ended]
  <2>4. reader' = [reader EXCEPT ![d] = now]
    BY DEF ReadFrame, w
  <2> HIDE DEF cont, ended
  <2>5. now \in ReaderType(d) /\ now.todo = w /\ now.emit = <<>> /\ now.pc = "select"
    <3>1. reader[d].read + 1 \in Nat
      BY <1>2 DEF ReaderType
    <3> QED BY <1>2, <1>3, <2>1, <2>3, <3>1, Zenon DEF ReaderType
  <2> HIDE DEF now
  <2>7. rd = now
    BY <1>2, <2>4
  <2>6. reader'[p] = reader[p] /\ DOMAIN reader' = Dirs
    BY <1>1, <1>2 DEF ReadFrame
  <2> QED BY <2>5, <2>6, <2>7
<1>5. /\ ledger[p] \in LedgerType /\ ledger \in [Dirs -> LedgerType]
      /\ relay \in [Dirs -> RelayType] /\ relay[p].init \in Int
  BY <1>1, Zenon DEF H2Inv, H2TypeOK, RelayType
<1>6. /\ l \in LedgerType
      /\ l.used = ledger[p].used /\ l.queued = ledger[p].queued /\ l.sent = ledger[p].sent
      /\ \A s \in Streams \cup {0} :
           l.granted[s] = ledger[p].granted[s]
             + IF f.type = "WINDOW_UPDATE" /\ f.s = s THEN f.inc
               ELSE IF f.type = "INITIAL_WINDOW_SIZE" /\ s # 0 THEN f.val - relay[p].init
               ELSE 0
  <2>1. CASE f.type = "WINDOW_UPDATE"
    <3>1. f.s \in Streams \cup {0} /\ f.inc \in Nat
      BY <2>1 DEF Frames
    <3>2. l = [ledger[p] EXCEPT !.granted = [ledger[p].granted EXCEPT ![f.s] = @ + f.inc]]
      BY <2>1 DEF Grant
    <3> DEFINE g == [ledger[p].granted EXCEPT ![f.s] = @ + f.inc]
    <3>3. /\ g \in [Streams \cup {0} -> Int]
          /\ \A s \in Streams \cup {0} : g[s] = ledger[p].granted[s] + IF f.s = s THEN f.inc ELSE 0
      BY <3>1, <1>5 DEF LedgerType
    <3> HIDE DEF g
    <3>4. l = [ledger[p] EXCEPT !.granted = g]
      BY <3>2 DEF g
    <3> HIDE DEF l
    <3> QED BY <2>1, <3>3, <3>4, <1>5, Zenon DEF LedgerType
  <2>2. CASE f.type = "INITIAL_WINDOW_SIZE"
    <3>1. f.val \in Nat
      BY <2>2 DEF Frames
    <3>2. l = [ledger[p] EXCEPT !.granted = [s \in Streams \cup {0} |->
            IF s = 0 THEN ledger[p].granted[0]
                     ELSE ledger[p].granted[s] + f.val - relay[p].init]]
      BY <2>2 DEF Grant
    <3> DEFINE g == [s \in Streams \cup {0} |->
                       IF s = 0 THEN ledger[p].granted[0]
                                ELSE ledger[p].granted[s] + f.val - relay[p].init]
    <3>3. /\ g \in [Streams \cup {0} -> Int]
          /\ \A s \in Streams \cup {0} :
               g[s] = ledger[p].granted[s] + IF s # 0 THEN f.val - relay[p].init ELSE 0
      BY <3>1, <1>5 DEF LedgerType
    <3> HIDE DEF g
    <3>4. l = [ledger[p] EXCEPT !.granted = g]
      BY <3>2 DEF g
    <3> HIDE DEF l
    <3> QED BY <2>2, <3>3, <3>4, <1>5, Zenon DEF LedgerType
  <2>3. CASE f.type \notin {"WINDOW_UPDATE", "INITIAL_WINDOW_SIZE"}
    <3>1. l = ledger[p]
      BY <2>3 DEF Grant
    <3> QED BY <2>3, <3>1, <1>5 DEF LedgerType
  <2> QED BY <2>1, <2>2, <2>3
<1>7. /\ ledger' \in [Dirs -> LedgerType]
      /\ ledger'[d] = ledger[d] /\ ledger'[p] = l
  BY <1>1, <1>5, <1>6 DEF ReadFrame
<1> HIDE DEF l, rd
<1>8. relay' = relay /\ writer' = writer
  BY DEF ReadFrame
<1> HIDE DEF p
<1>9. H2TypeOK'
  BY <1>1, <1>4, <1>7, <1>8 DEF H2Inv, H2TypeOK, rd
<1>10. \A x \in Dirs : Ordered(reader'[x].todo)
  BY <1>1, <1>3, <1>4 DEF H2Inv, rd
<1>11. Left'
  BY <1>1, <1>4 DEF H2Inv, Left, rd
<1>12. \A r \in Dirs : relay[r].flowMu # d
  BY <1>2, SMTT(30) DEF H2Inv, Locks
<1>13. Locks'
  BY <1>1, <1>4, <1>8, <1>12, SMTT(30) DEF H2Inv, Locks, Next1, rd
<1>14. Books'
  <2>1. /\ ConnOwed(d)' = ConnOwed(d) /\ \A s \in Streams : StreamOwed(d, s)' = StreamOwed(d, s)
    BY <1>4, <1>8 DEF ConnOwed, StreamOwed, p
  <2>2. ConnOwed(p) = 0 /\ \A s \in Streams : StreamOwed(p, s) = 0
    BY <1>1, <1>2 DEF ConnOwed, StreamOwed
  <2>3. /\ ConnOwed(p)' = IF at("connection") THEN f.inc ELSE 0
        /\ \A s \in Streams : StreamOwed(p, s)' =
             IF at("window") /\ f.s = s THEN f.inc
             ELSE IF at("initial") THEN f.val - relay[p].init ELSE 0
    BY <1>1, <1>3, <1>4, <1>8 DEF ConnOwed, StreamOwed, rd
  <2>4. /\ relay[p].conn \in Int /\ relay[p].win \in [Streams \cup {0} -> Int]
        /\ ledger[p].granted \in [Streams \cup {0} -> Int]
        /\ ledger[p].used \in [Streams \cup {0} -> Int] /\ 0 \notin Streams
    BY <1>1, <1>5, H2Assumption, Zenon DEF RelayType, LedgerType
  <2>5. /\ f.type = "WINDOW_UPDATE" => f.inc \in Nat
        /\ f.type = "INITIAL_WINDOW_SIZE" => f.val \in Nat
    BY DEF Frames
  <2>6. /\ relay[p].conn = l.granted[0] - l.used[0] - ConnOwed(p)'
        /\ \A s \in Streams : relay[p].win[s] = l.granted[s] - l.used[s] - StreamOwed(p, s)'
    <3>1. /\ relay[p].conn = ledger[p].granted[0] - ledger[p].used[0]
          /\ \A s \in Streams : relay[p].win[s] = ledger[p].granted[s] - ledger[p].used[s]
      <4>1. /\ relay[p].conn = ledger[p].granted[0] - ledger[p].used[0] - 0
            /\ \A s \in Streams : relay[p].win[s] = ledger[p].granted[s] - ledger[p].used[s] - 0
        BY <1>1, <2>2 DEF H2Inv, Books
      <4> QED BY <4>1, <2>4
    <3>2. relay[p].conn = l.granted[0] - l.used[0] - ConnOwed(p)'
      BY <1>3, <1>6, <2>3, <2>4, <2>5, <3>1, SMTT(30)
    <3>3. ASSUME NEW s \in Streams
          PROVE  relay[p].win[s] = l.granted[s] - l.used[s] - StreamOwed(p, s)'
      <4> DEFINE x == IF f.type = "WINDOW_UPDATE" /\ f.s = s THEN f.inc
                      ELSE IF f.type = "INITIAL_WINDOW_SIZE" THEN f.val - relay[p].init ELSE 0
      <4>1. l.granted[s] = ledger[p].granted[s] + x /\ l.used[s] = ledger[p].used[s]
        BY <1>6, <2>4, SMTT(30)
      <4>2. StreamOwed(p, s)' = x
        <5>1. s # 0
          BY <2>4
        <5> HIDE DEF at
        <5>2. CASE at("window") /\ f.s = s
          BY <1>3, <2>3, <5>2, Zenon
        <5>3. CASE at("initial")
          BY <1>3, <2>3, <5>3, Zenon
        <5>4. CASE ~(at("window") /\ f.s = s) /\ ~at("initial")
          BY <1>3, <2>3, <5>1, <5>4, Zenon
        <5> QED BY <5>2, <5>3, <5>4, Zenon
      <4>3. x \in Int /\ ledger[p].granted[s] \in Int /\ ledger[p].used[s] \in Int
        BY <1>5, <2>4, <2>5
      <4> HIDE DEF x
      <4> QED BY <3>1, <4>1, <4>2, <4>3, SMTT(30)
    <3> QED BY <3>2, <3>3
  <2> QED BY <1>1, <1>7, <1>8, <2>1, <2>6, SMTT(30) DEF H2Inv, Books
<1>15. Woken'
  <2> SUFFICES ASSUME NEW r \in Dirs, NEW s \in Streams, Fits(relay[r], s)
               PROVE  FlushAhead(r)' \/ Walked(r, s)'
    BY <1>8 DEF Woken
  <2>1. FlushAhead(r) \/ Walked(r, s)
    BY DEF H2Inv, Woken
  <2>2. CASE Walked(r, s)
    <3>1. relay[r].flowMu = p
      BY <1>1, <1>12, <2>2 DEF H2Inv, H2TypeOK, RelayType, Walked
    <3> QED BY <1>4, <1>8, <2>2, <3>1 DEF Walked
  <2>3. CASE FlushAhead(r)
    <3>1. r # p
      BY <1>1, <1>2, <2>3 DEF FlushAhead
    <3>2. reader'[Peer(r)] = reader[Peer(r)]
      BY <1>1, <1>4, <3>1 DEF p
    <3> QED BY <2>3, <3>2 DEF FlushAhead
  <2> QED BY <2>1, <2>2, <2>3
<1>16. StreamOrder'
  <2>1. \A x \in Dirs : ledger'[x].queued = ledger[x].queued /\ ledger'[x].sent = ledger[x].sent
    BY <1>1, <1>6, <1>7
  <2> QED BY <1>8, <2>1 DEF H2Inv, StreamOrder
<1> QED BY <1>9, <1>10, <1>11, <1>13, <1>14, <1>15, <1>16 DEF H2Inv

(* The work after the first: no change of a window is among it.            *)
LEMMA TailOwes ==
  ASSUME NEW d \in Dirs, NEW todo \in Seq(Work(d)), todo # <<>>, Ordered(todo)
  PROVE  /\ Head(todo) = todo[1] /\ 1 \in DOMAIN todo /\ Head(todo) \in Work(d)
         /\ Tail(todo) # <<>> =>
              /\ Head(Tail(todo)).op \notin {"connection", "initial"}
              /\ Head(Tail(todo)).op = "window" => Head(Tail(todo)).s \notin Streams
         /\ \A i \in DOMAIN todo : i > 1 =>
              i - 1 \in DOMAIN Tail(todo) /\ Tail(todo)[i - 1] = todo[i]
         /\ Head(todo).op \in {"connection", "initial"} =>
              \E i \in DOMAIN Tail(todo) : Tail(todo)[i].op = "flush"
<1>1. /\ Tail(todo) \in Seq(Work(d)) /\ Len(Tail(todo)) = Len(todo) - 1
      /\ \A i \in 1 .. Len(Tail(todo)) : Tail(todo)[i] = todo[i + 1]
      /\ Len(todo) \in Nat \ {0} /\ DOMAIN todo = 1 .. Len(todo)
  BY HeadTailProperties, LenProperties, EmptySeq
<1>2. DOMAIN Tail(todo) = 1 .. Len(todo) - 1
  BY <1>1, LenProperties
<1>3. Head(todo) = todo[1] /\ 1 \in DOMAIN todo /\ Head(todo) \in Work(d)
  BY <1>1, HeadTailProperties
<1>4. ASSUME NEW i \in DOMAIN todo, i > 1
      PROVE  i - 1 \in DOMAIN Tail(todo) /\ Tail(todo)[i - 1] = todo[i]
  <2>1. i - 1 \in 1 .. Len(todo) - 1 /\ (i - 1) + 1 = i
    BY <1>1, <1>4
  <2> QED BY <1>1, <1>2, <2>1
<1>5. ASSUME Tail(todo) # <<>>
      PROVE  /\ Head(Tail(todo)).op \notin {"connection", "initial"}
             /\ Head(Tail(todo)).op = "window" => Head(Tail(todo)).s \notin Streams
  <2>1. Head(Tail(todo)) = Tail(todo)[1] /\ 1 \in DOMAIN Tail(todo)
    BY <1>1, <1>5, HeadTailProperties, LenProperties, EmptySeq
  <2>2. Ordered(Tail(todo))
    BY OrderedTail
  <2>3. 2 \in DOMAIN todo /\ Tail(todo)[1] = todo[2]
    BY <1>1, <1>2, <2>1
  <2>4. /\ todo[2].op \notin {"connection", "initial"}
        /\ todo[2].op = "window" => todo[2].s = 0
    BY <2>3 DEF Ordered
  <2> QED BY <2>1, <2>3, <2>4, H2Assumption
<1>6. ASSUME Head(todo).op \in {"connection", "initial"}
      PROVE  \E i \in DOMAIN Tail(todo) : Tail(todo)[i].op = "flush"
  <2>1. Len(todo) > 1 /\ todo[2].op = "flush"
    BY <1>3, <1>6 DEF Ordered
  <2>2. 2 \in DOMAIN todo /\ 2 > 1 /\ 2 - 1 = 1
    BY <1>1, <2>1
  <2> QED BY <1>4, <2>1, <2>2
<1> QED BY <1>3, <1>4, <1>5, <1>6

(* The fields of a relay that an update leaves and sets.                   *)
LEMMA RelayUpdates ==
  ASSUME NEW rel \in RelayType
  PROVE  /\ \A c \in Int : LET x == [rel EXCEPT !.conn = c] IN
              /\ x \in RelayType /\ x.conn = c /\ x.flowMu = rel.flowMu /\ x.queue = rel.queue
              /\ x.output = rel.output /\ x.win = rel.win /\ x.init = rel.init
         /\ \A i \in Int, w \in [Streams \cup {0} -> Int] :
              LET x == [rel EXCEPT !.init = i, !.win = w] IN
              /\ x \in RelayType /\ x.conn = rel.conn /\ x.flowMu = rel.flowMu
              /\ x.queue = rel.queue /\ x.output = rel.output /\ x.win = w
  BY Zenon DEF RelayType

(* The critical sections that only change a window or a limit.             *)
LEMMA AdjustInv ==
  ASSUME H2Inv, NEW d \in Dirs, Adjust(d)
  PROVE  H2Inv'
<1> DEFINE p == Peer(d)
           o == Next1(d)
           todo == reader[d].todo
           rel == relay'[p]
<1>1. p \in Dirs /\ p # d /\ Peer(p) = d /\ \A r \in Dirs : r = d \/ r = p
  BY Peers, Directions
<1>2. /\ reader[d] \in ReaderType(d) /\ DOMAIN reader = Dirs /\ todo \in Seq(Work(d))
      /\ todo # <<>> /\ reader[d].emit = <<>> /\ reader[d].pc = "select"
      /\ o.op \in {"connection", "initial", "max"} /\ Ordered(todo)
      /\ relay \in [Dirs -> RelayType] /\ relay[p] \in RelayType
  BY <1>1 DEF H2Inv, H2TypeOK, Adjust, HasWork, ReaderType
<1>3. /\ o = todo[1] /\ 1 \in DOMAIN todo /\ o \in Work(d)
      /\ Tail(todo) # <<>> =>
           /\ Head(Tail(todo)).op \notin {"connection", "initial"}
           /\ Head(Tail(todo)).op = "window" => Head(Tail(todo)).s \notin Streams
      /\ \A i \in DOMAIN todo : i > 1 => i - 1 \in DOMAIN Tail(todo) /\ Tail(todo)[i - 1] = todo[i]
      /\ o.op \in {"connection", "initial"} =>
           \E i \in DOMAIN Tail(todo) : Tail(todo)[i].op = "flush"
  BY <1>2, TailOwes, SMTT(30) DEF Next1
<1>4. /\ o.r = p
      /\ o.op = "connection" => o.inc \in Nat
      /\ o.op = "initial" => o.val \in Nat
      /\ o.op = "max" => o.val \in Nat \ {0}
  BY <1>2, <1>3, WorkFields, SMTT(30)
<1>5. Tail(todo) \in Seq(Work(d)) /\ Ordered(Tail(todo))
  BY <1>2, OrderedTail
<1>6. /\ reader'[d] = [reader[d] EXCEPT !.todo = Tail(todo)]
      /\ reader'[p] = reader[p] /\ DOMAIN reader' = Dirs
  BY <1>1, <1>2 DEF Adjust, Done1
<1>7. /\ reader'[d] \in ReaderType(d) /\ reader'[d].todo = Tail(todo)
      /\ reader'[d].emit = <<>> /\ reader'[d].pc = "select"
  BY <1>2, <1>5, <1>6, Zenon DEF ReaderType
<1>8. /\ writer' = writer /\ ledger' = ledger
      /\ o.op = "max" \/ relay[p].flowMu = "free"
  BY <1>4 DEF Adjust
<1>9. /\ relay' \in [Dirs -> RelayType] /\ relay'[d] = relay[d]
      /\ rel.flowMu = relay[p].flowMu
      /\ rel.queue = relay[p].queue /\ rel.output = relay[p].output
      /\ rel.conn = relay[p].conn + IF o.op = "connection" THEN o.inc ELSE 0
      /\ \A s \in Streams :
           rel.win[s] = relay[p].win[s] + IF o.op = "initial" THEN o.val - relay[p].init ELSE 0
      /\ o.op = "max" => rel.win = relay[p].win
  <2>0. ASSUME NEW x \in RelayType, relay' = [relay EXCEPT ![p] = x]
        PROVE  relay' \in [Dirs -> RelayType] /\ relay'[d] = relay[d] /\ rel = x
    BY <1>1, <1>2, <2>0
  <2>1. CASE o.op = "connection"
    <3> DEFINE x == [relay[p] EXCEPT !.conn = @ + o.inc]
    <3>1. relay' = [relay EXCEPT ![p] = [relay[p] EXCEPT !.conn = @ + o.inc]]
      BY <1>4, <2>1 DEF Adjust
    <3>2. /\ x \in RelayType /\ x.flowMu = relay[p].flowMu /\ x.queue = relay[p].queue
          /\ x.output = relay[p].output /\ x.conn = relay[p].conn + o.inc /\ x.win = relay[p].win
          /\ relay[p].win \in [Streams \cup {0} -> Int]
      <4>1. relay[p].conn + o.inc \in Int /\ relay[p].win \in [Streams \cup {0} -> Int]
        BY <1>2, <1>4, <2>1 DEF RelayType
      <4> HIDE DEF p, o
      <4> QED BY <1>2, <4>1, RelayUpdates, ZenonT(40)
    <3> HIDE DEF p, o, x, rel
    <3>3. relay' \in [Dirs -> RelayType] /\ relay'[d] = relay[d] /\ rel = x
      BY <2>0, <3>1, <3>2, Zenon DEF x
    <3> QED BY <2>1, <3>2, <3>3
  <2>2. CASE o.op = "max"
    <3> DEFINE x == [relay[p] EXCEPT !.max = o.val]
    <3>1. relay' = [relay EXCEPT ![p] = x]
      BY <1>4, <2>2 DEF Adjust
    <3>2. /\ x \in RelayType /\ x.flowMu = relay[p].flowMu /\ x.queue = relay[p].queue
          /\ x.output = relay[p].output /\ x.conn = relay[p].conn /\ x.win = relay[p].win
          /\ relay[p].win \in [Streams \cup {0} -> Int] /\ relay[p].conn \in Int
      BY <1>2, <1>4, <2>2, Zenon DEF RelayType
    <3> HIDE DEF p, o, x, rel
    <3>3. relay' \in [Dirs -> RelayType] /\ relay'[d] = relay[d] /\ rel = x
      BY <2>0, <3>1, <3>2, Zenon
    <3> QED BY <2>2, <3>2, <3>3
  <2>3. CASE o.op = "initial"
    <3> DEFINE w == [s \in Streams \cup {0} |-> relay[p].win[s] + o.val - relay[p].init]
    <3>1. relay' = [relay EXCEPT ![p] = [relay[p] EXCEPT !.init = o.val, !.win =
            [s \in DOMAIN @ |-> @[s] + o.val - relay[p].init]]]
      BY <1>4, <2>3 DEF Adjust
    <3>2. relay' = [relay EXCEPT ![p] = [relay[p] EXCEPT !.init = o.val, !.win = w]]
      BY <1>2, <3>1, Zenon DEF RelayType
    <3>3. relay[p].init \in Int /\ relay[p].win \in [Streams \cup {0} -> Int] /\ o.val \in Nat
      BY <1>2, <1>4, <2>3 DEF RelayType
    <3> HIDE DEF p, o
    <3>4. /\ w \in [Streams \cup {0} -> Int]
          /\ \A s \in Streams : w[s] = relay[p].win[s] + (o.val - relay[p].init)
      BY <3>3
    <3> HIDE DEF w
    <3> DEFINE x == [relay[p] EXCEPT !.init = o.val, !.win = w]
    <3>5. /\ x \in RelayType /\ x.flowMu = relay[p].flowMu /\ x.queue = relay[p].queue
          /\ x.output = relay[p].output /\ x.conn = relay[p].conn /\ x.win = w
          /\ relay[p].conn \in Int
      <4>1. relay[p].conn \in Int /\ o.val \in Int
        BY <1>2, <3>3 DEF RelayType
      <4>2. \A i \in Int, v \in [Streams \cup {0} -> Int] :
              LET y == [relay[p] EXCEPT !.init = i, !.win = v] IN
              /\ y \in RelayType /\ y.conn = relay[p].conn /\ y.flowMu = relay[p].flowMu
              /\ y.queue = relay[p].queue /\ y.output = relay[p].output /\ y.win = v
        BY <1>2, RelayUpdates, Zenon
      <4> HIDE <1>2
      <4> QED BY <3>4, <4>1, <4>2, Zenon
    <3> HIDE DEF x, rel
    <3>6. relay' \in [Dirs -> RelayType] /\ relay'[d] = relay[d] /\ rel = x
      BY <2>0, <3>2, <3>5, Zenon DEF x
    <3> QED BY <2>3, <3>4, <3>5, <3>6
  <2> QED BY <1>2, <2>1, <2>2, <2>3, Zenon
<1> HIDE DEF p, o, todo, rel
<1>10. H2TypeOK'
  BY <1>1, <1>6, <1>7, <1>8, <1>9, Zenon DEF H2Inv, H2TypeOK
<1>11. \A x \in Dirs : Ordered(reader'[x].todo)
  BY <1>1, <1>5, <1>6, <1>7, Zenon DEF H2Inv
<1>12. Left'
  BY <1>1, <1>6, <1>7, Zenon DEF H2Inv, Left
<1>13. \A r \in Dirs : relay[r].flowMu # d
  BY <1>2 DEF H2Inv, Locks
<1>14. \A s : relay[p].flowMu # "free" => (Fits(rel, s) <=> Fits(relay[p], s))
  <2>1. o.op = "max" => rel.conn = relay[p].conn
    BY <1>2, <1>9, SMTT(30) DEF RelayType
  <2> QED BY <1>8, <1>9, <2>1, SMTT(30) DEF Fits
<1>15. Locks'
  <2>1. \A r \in Dirs : relay'[r].flowMu = relay[r].flowMu
    BY <1>1, <1>9 DEF rel
  <2>2. reader[p].emit # <<>> =>
          /\ reader[p].pc = "select" /\ reader[p].todo # <<>> /\ Next1(p).op \in Locking
          /\ relay[Next1(p).r].flowMu = p /\ Fits(relay[Next1(p).r], Head(reader[p].emit))
    BY <1>1 DEF H2Inv, Locks
  <2>3. Next1(p)' = Next1(p) /\ p # "free"
    BY <1>1, <1>6 DEF Next1, Dirs
  <2>4. reader[p].emit # <<>> => Next1(p).r \in Dirs
    <3>1. ASSUME reader[p].emit # <<>> PROVE Next1(p) \in Work(p)
      <4>1. reader[p].todo \in Seq(Work(p)) /\ reader[p].todo # <<>>
        BY <1>1, <2>2, <3>1, SMTT(30) DEF H2Inv, H2TypeOK, ReaderType
      <4> QED BY <4>1, HeadTailProperties DEF Next1
    <3> QED BY <1>1, <2>2, <3>1, WorkFields, SMTT(30) DEF Locking
  <2>5. reader[p].emit # <<>> =>
          relay'[Next1(p).r].flowMu = p /\ Fits(relay'[Next1(p).r], Head(reader[p].emit))
    BY <1>1, <1>9, <1>14, <2>1, <2>2, <2>3, <2>4, SMTT(30) DEF rel
  <2>6. reader'[d].emit = <<>> /\ \A r \in Dirs : relay'[r].flowMu # d
    BY <1>7, <1>13, <2>1
  <2>7. /\ reader'[p].emit # <<>> =>
             /\ reader'[p].pc = "select" /\ reader'[p].todo # <<>> /\ Next1(p)'.op \in Locking
             /\ relay'[Next1(p)'.r].flowMu = p
             /\ Fits(relay'[Next1(p)'.r], Head(reader'[p].emit))
        /\ \A r \in Dirs : relay'[r].flowMu = p => reader'[p].emit # <<>> /\ Next1(p)'.r = r
    BY <1>1, <1>6, <2>1, <2>2, <2>3, <2>5, SMTT(30) DEF H2Inv, Locks
  <2> QED BY <1>1, <2>6, <2>7 DEF Locks
<1>16. Books'
  <2>1. /\ ConnOwed(d)' = ConnOwed(d) /\ \A s \in Streams : StreamOwed(d, s)' = StreamOwed(d, s)
    BY <1>6, <1>9 DEF ConnOwed, StreamOwed, p
  <2>2. /\ ConnOwed(p)' = 0 /\ \A s \in Streams : StreamOwed(p, s)' = 0
    BY <1>1, <1>3, <1>7, ZenonT(40) DEF ConnOwed, StreamOwed
  <2>3. /\ ConnOwed(p) = IF o.op = "connection" THEN o.inc ELSE 0
        /\ \A s \in Streams :
             StreamOwed(p, s) = IF o.op = "initial" THEN o.val - relay[p].init ELSE 0
    BY <1>1, <1>2, Zenon DEF ConnOwed, StreamOwed, o, todo, Next1
  <2>4. /\ relay[p].conn \in Int /\ relay[p].win \in [Streams \cup {0} -> Int]
        /\ relay[p].init \in Int /\ ledger[p].granted \in [Streams \cup {0} -> Int]
        /\ ledger[p].used \in [Streams \cup {0} -> Int]
    BY <1>1, ZenonT(40) DEF RelayType, LedgerType, H2Inv, H2TypeOK
  <2>5. /\ relay[p].conn >= 0
        /\ relay[p].conn = ledger[p].granted[0] - ledger[p].used[0] - ConnOwed(p)
        /\ \A s \in Streams :
             relay[p].win[s] = ledger[p].granted[s] - ledger[p].used[s] - StreamOwed(p, s)
    BY <1>1, SMTT(30) DEF H2Inv, Books
  <2>6. rel.conn >= 0 /\ rel.conn = ledger[p].granted[0] - ledger[p].used[0] - 0
    BY <1>4, <1>9, <2>3, <2>4, <2>5, SMTT(30)
  <2>7. ASSUME NEW s \in Streams
        PROVE  rel.win[s] = ledger[p].granted[s] - ledger[p].used[s] - 0
    BY <1>4, <1>9, <2>3, <2>4, <2>5, SMTT(30)
  <2> QED BY <1>1, <1>8, <1>9, <2>1, <2>2, <2>6, <2>7 DEF H2Inv, Books, rel
<1>17. Woken'
  <2> SUFFICES ASSUME NEW r \in Dirs, NEW s \in Streams, Fits(relay'[r], s)
               PROVE  FlushAhead(r)' \/ Walked(r, s)'
    BY DEF Woken
  <2>1. CASE r = d
    <3>1. FlushAhead(r) \/ Walked(r, s)
      BY <1>9, <2>1 DEF H2Inv, Woken
    <3>2. reader'[Peer(r)] = reader[Peer(r)] /\ relay'[r] = relay[r]
      BY <1>6, <1>9, <2>1, SMTT(30) DEF p
    <3>3. relay[r].flowMu # "free" => relay[r].flowMu = p
      BY <1>1, <1>2, <1>13, <2>1, SMTT(30) DEF RelayType
    <3> QED BY <1>6, <3>1, <3>2, <3>3, SMTT(30) DEF FlushAhead, Walked
  <2>2. CASE r = p /\ o.op \in {"connection", "initial"}
    BY <1>1, <1>3, <1>7, <2>2 DEF FlushAhead
  <2>3. CASE r = p /\ o.op = "max"
    <3>1. Fits(relay[p], s)
      <4>1. rel.conn = relay[p].conn
        BY <1>2, <1>9, <2>3 DEF RelayType
      <4> QED BY <1>9, <2>3, <4>1, SMTT(30) DEF Fits, rel
    <3>2. FlushAhead(p) \/ Walked(p, s)
      BY <1>1, <3>1, SMTT(30) DEF H2Inv, Woken
    <3>3. CASE FlushAhead(p)
      <4>1. PICK i \in DOMAIN todo : todo[i].op = "flush"
        BY <1>1, <3>3, SMTT(30) DEF FlushAhead, todo
      <4>2. i > 1
        BY <1>2, <1>3, <2>3, <4>1, LenProperties
      <4> QED BY <1>1, <1>3, <1>7, <2>3, <4>1, <4>2, SMTT(30) DEF FlushAhead
    <3>4. CASE Walked(p, s)
      <4>1. relay[p].flowMu = p
        BY <1>1, <1>2, <1>13, <3>4, SMTT(30) DEF RelayType, Walked
      <4> QED BY <1>6, <1>9, <2>3, <3>4, <4>1, SMTT(30) DEF Walked, rel
    <3> QED BY <3>2, <3>3, <3>4, SMTT(30)
  <2> QED BY <1>1, <1>2, <2>1, <2>2, <2>3
<1>18. StreamOrder'
  <2>1. \A r \in Dirs : relay'[r].queue = relay[r].queue /\ relay'[r].output = relay[r].output
    BY <1>1, <1>9 DEF rel
  <2> QED BY <1>8, <2>1 DEF H2Inv, StreamOrder
<1> QED BY <1>10, <1>11, <1>12, <1>15, <1>16, <1>17, <1>18 DEF H2Inv

-----------------------------------------------------------------------------
(* A frame that comes is the last of its queue.                            *)
LEMMA OrderAppend ==
  ASSUME NEW out \in Seq(Queued), NEW queue \in Seq(Queued), NEW came \in Nat,
         NEW sent \in Nat, NEW s \in Streams, NEW f \in Queued, f.s = s, f.n = came + 1,
         InOrder(out, queue, came, sent, s)
  PROVE  InOrder(out, Append(queue, f), came + 1, sent, s)
<1>1. /\ Len(Append(queue, f)) = Len(queue) + 1 /\ Len(queue) \in Nat
      /\ DOMAIN Append(queue, f) = 1 .. Len(queue) + 1 /\ DOMAIN queue = 1 .. Len(queue)
      /\ \A i \in 1 .. Len(queue) : Append(queue, f)[i] = queue[i]
      /\ Append(queue, f)[Len(queue) + 1] = f
  <2>1. Len(queue) \in Nat /\ DOMAIN queue = 1 .. Len(queue)
    BY LenProperties
  <2>2. /\ Len(Append(queue, f)) = Len(queue) + 1 /\ Append(queue, f) \in Seq(Queued)
        /\ \A i \in 1 .. Len(queue) : Append(queue, f)[i] = queue[i]
        /\ Append(queue, f)[Len(queue) + 1] = f
    BY AppendProperties
  <2>3. DOMAIN Append(queue, f) = 1 .. Len(queue) + 1
    BY <2>2, LenProperties
  <2> QED BY <2>1, <2>2, <2>3
<1>2. (came + 1) - (Len(queue) + 1) = came - Len(queue)
  BY <1>1
<1>3. ASSUME NEW i \in 1 .. Len(queue) + 1
      PROVE  Append(queue, f)[i].s = s /\ Append(queue, f)[i].n = (came - Len(queue)) + i
  <2>1. CASE i \in 1 .. Len(queue)
    BY <1>1, <2>1 DEF InOrder
  <2>2. CASE i = Len(queue) + 1
    <3>1. (came - Len(queue)) + (Len(queue) + 1) = came + 1
      BY <1>1
    <3> QED BY <1>1, <2>2, <3>1
  <2> QED BY <1>1, <2>1, <2>2
<1> QED BY <1>1, <1>2, <1>3, SMTT(30) DEF InOrder

(* The front of a queue goes to the end of output.                         *)
LEMMA OrderEmit ==
  ASSUME NEW out \in Seq(Queued), NEW queue \in Seq(Queued), NEW came \in Nat,
         NEW sent \in Nat, NEW s \in Streams, queue # <<>>,
         InOrder(out, queue, came, sent, s)
  PROVE  /\ InOrder(Append(out, Head(queue)), Tail(queue), came, sent, s)
         /\ Head(queue).s = s
<1> DEFINE f == Head(queue)
           rel == came - Len(queue)
           more == Append(out, f)
<1>1. /\ Len(queue) \in Nat \ {0} /\ DOMAIN queue = 1 .. Len(queue)
      /\ f = queue[1] /\ f \in Queued
      /\ Tail(queue) \in Seq(Queued) /\ Len(Tail(queue)) = Len(queue) - 1
      /\ \A i \in 1 .. Len(queue) - 1 : Tail(queue)[i] = queue[i + 1]
  BY HeadTailProperties, LenProperties, EmptySeq
<1>2. /\ DOMAIN Tail(queue) = 1 .. Len(queue) - 1 /\ came - Len(Tail(queue)) = rel + 1
      /\ rel \in Int
  BY <1>1, LenProperties
<1>3. /\ sent <= rel
      /\ \A i \in 1 .. Len(queue) : queue[i].s = s /\ queue[i].n = rel + i
      /\ {out[i].n : i \in {j \in DOMAIN out : out[j].s = s}} = sent + 1 .. rel
      /\ \A i, j \in DOMAIN out : i < j /\ out[i].s = s /\ out[j].s = s => out[i].n < out[j].n
  BY <1>1, Zenon DEF InOrder
<1>4. f.s = s /\ f.n = rel + 1
  BY <1>1, <1>3
<1>5. /\ Len(out) \in Nat /\ DOMAIN out = 1 .. Len(out) /\ DOMAIN more = 1 .. Len(out) + 1
      /\ more[Len(out) + 1] = f /\ \A i \in 1 .. Len(out) : more[i] = out[i]
  <2>1. f \in Queued
    BY <1>1
  <2> HIDE DEF f
  <2> QED BY <2>1, AppendProperties, LenProperties
<1> HIDE DEF f, rel, more
<1>6. \A i \in DOMAIN Tail(queue) : Tail(queue)[i].s = s /\ Tail(queue)[i].n = (rel + 1) + i
  <2> TAKE i \in DOMAIN Tail(queue)
  <2>1. Tail(queue)[i] = queue[i + 1] /\ i + 1 \in 1 .. Len(queue)
    BY <1>1, <1>2
  <2>2. rel + (i + 1) = (rel + 1) + i
    BY <1>2
  <2> QED BY <1>3, <2>1, <2>2
<1>7. {more[i].n : i \in {j \in DOMAIN more : more[j].s = s}} = sent + 1 .. rel + 1
  <2>1. {more[i].n : i \in {j \in DOMAIN more : more[j].s = s}}
          = {out[i].n : i \in {j \in DOMAIN out : out[j].s = s}} \cup {f.n}
    BY <1>4, <1>5
  <2>2. (sent + 1 .. rel) \cup {rel + 1} = sent + 1 .. rel + 1
    BY <1>2, <1>3
  <2> QED BY <1>3, <1>4, <2>1, <2>2, Zenon
<1>8. ASSUME NEW i \in DOMAIN more, NEW j \in DOMAIN more, i < j, more[i].s = s, more[j].s = s
      PROVE  more[i].n < more[j].n
  <2>1. i \in 1 .. Len(out)
    BY <1>5, <1>8
  <2>2. CASE j \in 1 .. Len(out)
    BY <1>3, <1>5, <1>8, <2>1, <2>2
  <2>3. CASE j = Len(out) + 1
    <3>1. out[i].n \in sent + 1 .. rel
      BY <1>3, <1>5, <1>8, <2>1
    <3>2. out[i].n < rel + 1
      BY <1>2, <3>1
    <3> QED BY <1>4, <1>5, <2>1, <2>3, <3>2
  <2> QED BY <1>5, <2>2, <2>3
<1>9. sent <= rel + 1
  BY <1>2, <1>3
<1> QED BY <1>2, <1>4, <1>6, <1>7, <1>8, <1>9, Zenon DEF InOrder, more, f

(* A frame of another stream at the end of output changes nothing.         *)
LEMMA OrderOther ==
  ASSUME NEW out \in Seq(Queued), NEW queue \in Seq(Queued), NEW came \in Nat,
         NEW sent \in Nat, NEW s \in Streams, NEW f \in Queued, f.s # s,
         InOrder(out, queue, came, sent, s)
  PROVE  InOrder(Append(out, f), queue, came, sent, s)
<1>1. /\ Len(out) \in Nat /\ DOMAIN out = 1 .. Len(out)
      /\ DOMAIN Append(out, f) = 1 .. Len(out) + 1
      /\ Append(out, f)[Len(out) + 1] = f /\ \A i \in 1 .. Len(out) : Append(out, f)[i] = out[i]
  BY AppendProperties, LenProperties
<1> DEFINE more == Append(out, f)
<1> HIDE DEF more
<1>2. \A j \in DOMAIN more : more[j].s = s => j \in DOMAIN out /\ more[j] = out[j]
  BY <1>1 DEF more
<1>3. \A j \in DOMAIN out : j \in DOMAIN more /\ more[j] = out[j]
  BY <1>1 DEF more
<1>4. {more[i].n : i \in {j \in DOMAIN more : more[j].s = s}}
        = {out[i].n : i \in {j \in DOMAIN out : out[j].s = s}}
  BY <1>2, <1>3
<1>5. \A i, j \in DOMAIN more :
        i < j /\ more[i].s = s /\ more[j].s = s => more[i].n < more[j].n
  BY <1>2 DEF InOrder
<1> QED BY <1>4, <1>5, Zenon DEF InOrder, more

(* The first of output is taken: if it is of the stream, it is its oldest. *)
LEMMA OrderTake ==
  ASSUME NEW out \in Seq(Queued), NEW queue \in Seq(Queued), NEW came \in Nat,
         NEW sent \in Nat, NEW s \in Streams, out # <<>>,
         InOrder(out, queue, came, sent, s)
  PROVE  InOrder(Tail(out), queue, came, IF Head(out).s = s THEN sent + 1 ELSE sent, s)
<1> DEFINE f == Head(out)
           rel == came - Len(queue)
           rest == Tail(out)
           Of(x) == {x[i].n : i \in {j \in DOMAIN x : x[j].s = s}}
<1>1. /\ Len(out) \in Nat \ {0} /\ DOMAIN out = 1 .. Len(out)
      /\ f = out[1] /\ f \in Queued
      /\ rest \in Seq(Queued) /\ Len(rest) = Len(out) - 1
      /\ \A i \in 1 .. Len(out) - 1 : rest[i] = out[i + 1]
  BY HeadTailProperties, LenProperties, EmptySeq
<1>1a. f.n \in Nat /\ 1 \in DOMAIN out
  BY <1>1 DEF Queued
<1>2. DOMAIN rest = 1 .. Len(out) - 1 /\ rel \in Int
  BY <1>1, LenProperties
<1>3. /\ sent <= rel
      /\ \A i \in DOMAIN queue : queue[i].s = s /\ queue[i].n = rel + i
      /\ Of(out) = sent + 1 .. rel
      /\ \A i, j \in DOMAIN out : i < j /\ out[i].s = s /\ out[j].s = s => out[i].n < out[j].n
  BY DEF InOrder
<1> HIDE DEF f, rel, rest
<1>4. \A i \in DOMAIN rest : i + 1 \in DOMAIN out /\ rest[i] = out[i + 1]
  BY <1>1, <1>2
<1>5. \A i \in DOMAIN out : i = 1 \/ (i - 1 \in DOMAIN rest /\ rest[i - 1] = out[i])
  <2> TAKE i \in DOMAIN out
  <2>1. CASE i # 1
    <3>1. i - 1 \in 1 .. Len(out) - 1 /\ (i - 1) + 1 = i
      BY <1>1, <2>1
    <3> QED BY <1>1, <1>2, <3>1
  <2> QED BY <2>1
<1>6. \A i, j \in DOMAIN rest : i < j /\ rest[i].s = s /\ rest[j].s = s => rest[i].n < rest[j].n
  <2> TAKE i, j \in DOMAIN rest
  <2>1. i < j => i + 1 < j + 1
    BY <1>2
  <2> QED BY <1>3, <1>4, <2>1
<1>7. CASE f.s # s
  <2>1. Of(rest) = Of(out)
    <3>1. ASSUME NEW x \in Of(rest) PROVE x \in Of(out)
      BY <1>4, <3>1
    <3>2. ASSUME NEW x \in Of(out) PROVE x \in Of(rest)
      BY <1>1, <1>5, <1>7, <3>2, SMTT(30)
    <3> QED BY <3>1, <3>2, Zenon
  <2> QED BY <1>3, <1>6, <1>7, <2>1, Zenon DEF InOrder, f, rest, rel
<1>8. CASE f.s = s
  <2>1. f.n \in Of(out)
    BY <1>1, <1>1a, <1>8, Zenon
  <2>2. \A x \in Of(out) : f.n <= x
    <3> SUFFICES ASSUME NEW j \in DOMAIN out, out[j].s = s PROVE f.n <= out[j].n
      OBVIOUS
    <3>1. CASE j = 1
      BY <1>1, <1>1a, <3>1
    <3>2. CASE j # 1
      <4>1. 1 < j /\ 1 \in DOMAIN out
        BY <1>1, <3>2
      <4>2. f.n < out[j].n
        BY <1>1, <1>3, <1>8, <4>1, SMTT(30)
      <4>3. out[j].n \in sent + 1 .. rel
        BY <1>3
      <4> QED BY <1>1a, <1>2, <4>2, <4>3
    <3> QED BY <3>1, <3>2
  <2>3. f.n = sent + 1 /\ sent + 1 <= rel
    <3>1. f.n \in sent + 1 .. rel /\ \A x \in sent + 1 .. rel : f.n <= x
      BY <1>3, <2>1, <2>2
    <3> QED BY <1>2, <3>1
  <2>4. Of(rest) = Of(out) \ {f.n}
    <3>1. ASSUME NEW x \in Of(rest) PROVE x \in Of(out) /\ x # f.n
      <4>1. PICK i \in DOMAIN rest : rest[i].s = s /\ rest[i].n = x
        BY <3>1
      <4>2. 1 < i + 1 /\ 1 \in DOMAIN out /\ i + 1 \in DOMAIN out /\ out[i + 1] = rest[i]
        BY <1>1, <1>2, <1>4
      <4>3. f.n < x
        BY <1>1, <1>3, <1>8, <4>1, <4>2, Zenon
      <4> QED BY <1>1a, <4>1, <4>2, <4>3
    <3>2. ASSUME NEW x \in Of(out), x # f.n PROVE x \in Of(rest)
      BY <1>1, <1>5, <3>2, SMTT(30)
    <3> QED BY <3>1, <3>2, Zenon
  <2>5. Of(rest) = (sent + 1) + 1 .. rel
    <3>1. (sent + 1 .. rel) \ {sent + 1} = (sent + 1) + 1 .. rel
      BY <1>2
    <3> QED BY <1>3, <2>3, <2>4, <3>1, Zenon
  <2> QED BY <1>3, <1>6, <1>8, <2>3, <2>5 DEF InOrder, f, rest, rel
<1> QED BY <1>7, <1>8

LEMMA RemoveFirst ==
  ASSUME NEW queue \in Seq(Queued), queue # <<>>
  PROVE  Remove(queue, 1) = Tail(queue) /\ Tail(queue) \in Seq(Queued)
<1>1. Len(queue) \in Nat \ {0} /\ \A i \in 1 .. Len(queue) : queue[i] \in Queued
  BY LenProperties, ElementOfSeq, EmptySeq
<1>2. SubSeq(queue, 1, 0) = <<>>
  <2>1. SubSeq(queue, 1, 0) \in Seq(Queued) /\ Len(SubSeq(queue, 1, 0)) = 0
    BY <1>1, SubSeqProperties
  <2> QED BY <2>1, EmptySeq
<1>3. Tail(queue) = SubSeq(queue, 2, Len(queue)) /\ Tail(queue) \in Seq(Queued)
  BY HeadTailProperties
<1>4. <<>> \o Tail(queue) = Tail(queue)
  BY <1>3, ConcatEmptySeq
<1> QED BY <1>2, <1>3, <1>4 DEF Remove

=============================================================================
