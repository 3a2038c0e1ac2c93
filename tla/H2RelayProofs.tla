--------------------------- MODULE H2RelayProofs ---------------------------
(* What the two relays of an intercepted HTTP/2 connection keep, for any   *)
(* streams, windows, frame sizes, size of output and frames the endpoints  *)
(* send: the order of each stream, the books of flow control, and no       *)
(* frame that could go is forgotten.                                       *)
EXTENDS H2StepProofs

(* The relays begin with empty queues and the windows of the protocol.     *)
LEMMA H2InitInv == H2Init => H2Inv
<1> SUFFICES ASSUME H2Init PROVE H2Inv
  OBVIOUS
<1> DEFINE rel == [flowMu |-> "free", conn |-> Window0, init |-> Window0,
                   win |-> [s \in Streams \cup {0} |-> Window0],
                   queue |-> [s \in Streams |-> <<>>], output |-> <<>>, max |-> MaxFrame0]
           rd == [pc |-> "select", todo |-> <<>>, emit |-> <<>>, cont |-> <<>>,
                  read |-> 0, ended |-> {}]
           l == [granted |-> [s \in Streams \cup {0} |-> Window0],
                 used |-> [s \in Streams \cup {0} |-> 0],
                 queued |-> [s \in Streams |-> 0], sent |-> [s \in Streams |-> 0]]
<1>1. /\ relay = [d \in Dirs |-> rel] /\ reader = [d \in Dirs |-> rd]
      /\ writer = [d \in Dirs |-> [pc |-> "run", err |-> FALSE]]
      /\ ledger = [d \in Dirs |-> l]
  BY DEF H2Init
<1>2. /\ rel \in RelayType /\ rel.flowMu = "free" /\ rel.conn = Window0 /\ rel.output = <<>>
      /\ \A s \in Streams : rel.win[s] = Window0 /\ rel.queue[s] = <<>>
  BY H2Assumption DEF RelayType
<1>3. rd.todo = <<>> /\ rd.emit = <<>> /\ rd.pc = "select" /\ \A d \in Dirs : rd \in ReaderType(d)
  BY DEF ReaderType
<1>4. /\ l \in LedgerType /\ l.granted[0] = Window0 /\ l.used[0] = 0
      /\ \A s \in Streams :
           l.granted[s] = Window0 /\ l.used[s] = 0 /\ l.queued[s] = 0 /\ l.sent[s] = 0
  BY H2Assumption DEF LedgerType
<1> HIDE DEF rel, rd, l
<1>5. H2TypeOK
  BY <1>1, <1>2, <1>3, <1>4 DEF H2TypeOK, WriterType
<1>6. Left /\ \A d \in Dirs : Ordered(reader[d].todo)
  BY <1>1, <1>3 DEF Left, Ordered
<1>7. Locks
  <2>1. "free" \notin Dirs
    BY DEF Dirs
  <2> QED BY <1>1, <1>2, <1>3, <2>1 DEF Locks
<1>8. Books
  <2>1. \A r \in Dirs : reader[Peer(r)] = rd
    BY <1>1, Peers
  <2>2. \A r \in Dirs : ConnOwed(r) = 0 /\ \A s \in Streams : StreamOwed(r, s) = 0
    BY <1>3, <2>1 DEF ConnOwed, StreamOwed
  <2>3. Window0 >= 0 /\ Window0 = Window0 - 0 - 0
    BY H2Assumption
  <2> QED BY <1>1, <1>2, <1>4, <2>2, <2>3 DEF Books
<1>9. Woken
  BY <1>1, <1>2, Zenon DEF Woken, Fits
<1>10. StreamOrder
  <2>1. ASSUME NEW s \in Streams PROVE InOrder(<<>>, <<>>, 0, 0, s)
    BY DEF InOrder
  <2> QED BY <1>1, <1>2, <1>4, <2>1 DEF StreamOrder
<1> QED BY <1>5, <1>6, <1>7, <1>8, <1>9, <1>10 DEF H2Inv

(* A reader that emits does so into one of the relays.                     *)
LEMMA EmitsIn ==
  ASSUME H2Inv
  PROVE  \A x \in Dirs : reader[x].emit # <<>> => Next1(x).r \in Dirs
<1> SUFFICES ASSUME NEW x \in Dirs, reader[x].emit # <<>> PROVE Next1(x).r \in Dirs
  OBVIOUS
<1>1. reader[x].todo \in Seq(Work(x)) /\ reader[x].todo # <<>> /\ Next1(x).op \in Locking
  BY DEF H2Inv, H2TypeOK, ReaderType, Locks
<1>2. Next1(x) \in Work(x)
  BY <1>1, HeadTailProperties DEF Next1
<1> QED BY <1>1, <1>2, WorkFields, Peers DEF Locking

(* The writer takes the first frame of output, and sends or drops it.      *)
LEMMA WriterTakeInv ==
  ASSUME H2Inv, NEW d \in Dirs, WriterTake(d)
  PROVE  H2Inv'
<1> DEFINE p == Peer(d)
           out == relay[d].output
           f == Head(out)
           rel == [relay[d] EXCEPT !.output = Tail(out)]
<1>1. p \in Dirs /\ p # d /\ \A x \in Dirs : x = d \/ x = p
  BY Peers, Directions
<1>2. /\ relay \in [Dirs -> RelayType] /\ relay[d] \in RelayType /\ out \in Seq(Queued)
      /\ out # <<>> /\ writer \in [Dirs -> WriterType]
      /\ ledger \in [Dirs -> LedgerType]
  BY Zenon DEF H2Inv, H2TypeOK, RelayType, WriterTake
<1>3. Tail(out) \in Seq(Queued) /\ f \in Queued /\ f.s \in Streams
  <2>1. Tail(out) \in Seq(Queued) /\ f \in Queued
    BY <1>2, HeadTailProperties
  <2> QED BY <2>1 DEF Queued
<1>4. relay' = [relay EXCEPT ![d] = rel] /\ reader' = reader
  BY <1>2 DEF WriterTake
<1> HIDE DEF out, f
<1>5. /\ rel \in RelayType /\ rel.flowMu = relay[d].flowMu /\ rel.conn = relay[d].conn
      /\ rel.win = relay[d].win /\ rel.init = relay[d].init /\ rel.queue = relay[d].queue
      /\ rel.output = Tail(out)
  BY <1>2, <1>3, Zenon DEF RelayType
<1> HIDE DEF rel, p
<1>6. relay' \in [Dirs -> RelayType] /\ relay'[d] = rel /\ relay'[p] = relay[p]
  BY <1>1, <1>2, <1>4, <1>5
<1>7. \A x \in Dirs : /\ relay'[x].flowMu = relay[x].flowMu /\ relay'[x].conn = relay[x].conn
                      /\ relay'[x].win = relay[x].win /\ relay'[x].init = relay[x].init
                      /\ relay'[x].queue = relay[x].queue
  BY <1>1, <1>5, <1>6
<1>8. \A x \in Dirs : \A s : Fits(relay'[x], s) <=> Fits(relay[x], s)
  BY <1>7 DEF Fits
<1>8a. Locks' /\ Woken' /\ Left' /\ \A x \in Dirs : Ordered(reader'[x].todo)
  <2>1. Locks'
    <3>1. \A x \in Dirs : reader[x].emit # <<>> => Next1(x).r \in Dirs
      BY EmitsIn
    <3>2. \A x \in Dirs : Next1(x)' = Next1(x) /\ reader'[x] = reader[x]
      BY <1>4, Zenon DEF Next1
    <3>3. ASSUME NEW x \in Dirs, reader[x].emit # <<>>
          PROVE  /\ reader[x].pc = "select" /\ reader[x].todo # <<>> /\ Next1(x).op \in Locking
                 /\ relay'[Next1(x).r].flowMu = x
                 /\ Fits(relay'[Next1(x).r], Head(reader[x].emit))
      <4>1. /\ reader[x].pc = "select" /\ reader[x].todo # <<>> /\ Next1(x).op \in Locking
            /\ relay[Next1(x).r].flowMu = x /\ Fits(relay[Next1(x).r], Head(reader[x].emit))
        BY <3>3, Zenon DEF H2Inv, Locks
      <4> QED BY <1>7, <1>8, <3>1, <3>3, <4>1, Zenon
    <3>4. ASSUME NEW x \in Dirs, NEW y \in Dirs, relay'[y].flowMu = x
          PROVE  reader[x].emit # <<>> /\ Next1(x).r = y
      <4>1. relay[y].flowMu = x
        BY <1>7, <3>4
      <4> QED BY <4>1, Zenon DEF H2Inv, Locks
    <3> QED BY <3>2, <3>3, <3>4 DEF Locks
  <2>2. Woken'
    BY <1>4, <1>7, <1>8 DEF H2Inv, Woken, FlushAhead, Walked
  <2> QED BY <1>4, <2>1, <2>2 DEF H2Inv, Left
<1>8b. \A x \in Dirs : /\ ConnOwed(x)' = ConnOwed(x)
                      /\ \A s \in Streams : StreamOwed(x, s)' = StreamOwed(x, s)
  BY <1>4, <1>7 DEF ConnOwed, StreamOwed
<1>9. CASE writer[d].pc = "run" /\ d \notin broken \cup stalled
  <2>1. writer' = writer /\ ledger' = [ledger EXCEPT ![d].sent[f.s] = @ + 1]
    BY <1>9 DEF WriterTake, f, out
  <2>2. /\ ledger' \in [Dirs -> LedgerType] /\ ledger'[p] = ledger[p]
        /\ ledger'[d].granted = ledger[d].granted /\ ledger'[d].used = ledger[d].used
        /\ ledger'[d].queued = ledger[d].queued
        /\ \A s \in Streams :
             ledger'[d].sent[s] = IF f.s = s THEN ledger[d].sent[s] + 1 ELSE ledger[d].sent[s]
    <3> DEFINE sent == [ledger[d].sent EXCEPT ![f.s] = @ + 1]
               l == [ledger[d] EXCEPT !.sent = sent]
    <3>1. ledger[d] \in LedgerType /\ ledger[d].sent \in [Streams -> Nat]
      BY <1>2, Zenon DEF LedgerType
    <3>2. ledger' = [ledger EXCEPT ![d] = l]
      BY <1>2, <2>1, <3>1
    <3>3. /\ sent \in [Streams -> Nat]
          /\ \A s \in Streams : sent[s] = IF f.s = s THEN ledger[d].sent[s] + 1 ELSE ledger[d].sent[s]
      BY <1>3, <3>1
    <3> HIDE DEF sent
    <3>4. /\ l \in LedgerType /\ l.granted = ledger[d].granted /\ l.used = ledger[d].used
          /\ l.queued = ledger[d].queued /\ l.sent = sent
      BY <3>1, <3>3 DEF LedgerType
    <3> HIDE DEF l
    <3>5. ledger' \in [Dirs -> LedgerType] /\ ledger'[d] = l /\ ledger'[p] = ledger[p]
      BY <1>1, <1>2, <3>2, <3>4
    <3> QED BY <3>3, <3>4, <3>5
  <2>3. StreamOrder'
    <3>1. ASSUME NEW s \in Streams
          PROVE  InOrder(relay'[d].output, relay'[d].queue[s], ledger'[d].queued[s],
                         ledger'[d].sent[s], s)
      <4>1. /\ relay[d].queue[s] \in Seq(Queued) /\ ledger[d].queued[s] \in Nat
            /\ ledger[d].sent[s] \in Nat
        BY <1>2 DEF RelayType, LedgerType
      <4>2. InOrder(out, relay[d].queue[s], ledger[d].queued[s], ledger[d].sent[s], s)
        BY <1>9 DEF H2Inv, StreamOrder, out
      <4>3. InOrder(Tail(out), relay[d].queue[s], ledger[d].queued[s],
                    IF f.s = s THEN ledger[d].sent[s] + 1 ELSE ledger[d].sent[s], s)
        BY <1>2, <4>1, <4>2, OrderTake DEF f
      <4> QED BY <1>5, <1>6, <2>2, <4>3, Zenon
    <3>2. ASSUME NEW s \in Streams, writer[p].pc = "run"
          PROVE  InOrder(relay'[p].output, relay'[p].queue[s], ledger'[p].queued[s],
                         ledger'[p].sent[s], s)
      BY <1>1, <1>6, <2>2, <3>2 DEF H2Inv, StreamOrder
    <3> QED BY <1>1, <2>1, <3>1, <3>2 DEF StreamOrder
  <2>4. Books'
    <3>1. \A x \in Dirs : ledger'[x].granted = ledger[x].granted /\ ledger'[x].used = ledger[x].used
      BY <1>1, <2>2
    <3> QED BY <1>7, <1>8b, <3>1 DEF H2Inv, Books
  <2>5. H2TypeOK'
    BY <1>4, <1>6, <2>1, <2>2, SMTT(30) DEF H2Inv, H2TypeOK
  <2> QED BY <1>8a, <2>3, <2>4, <2>5, SMTT(30) DEF H2Inv
<1>10. CASE ~(writer[d].pc = "run" /\ d \notin broken \cup stalled)
  <2>1. /\ ledger' = ledger
        /\ \/ writer' = [writer EXCEPT ![d] = [pc |-> "drain", err |-> @.err \/ @.pc = "run"]]
           \/ writer' = [writer EXCEPT ![d].pc = "stuck"]
    BY <1>10 DEF WriterTake
  <2>2. /\ writer' \in [Dirs -> WriterType]
        /\ writer'[d].pc # "run" /\ writer'[p] = writer[p]
    <3> DEFINE b == writer[d].err \/ writer[d].pc = "run"
    <3>1. b \in BOOLEAN
      OBVIOUS
    <3>2. \/ writer' = [writer EXCEPT ![d] = [pc |-> "drain", err |-> b]]
          \/ writer' = [writer EXCEPT ![d].pc = "stuck"]
      BY <1>2, <2>1
    <3> HIDE DEF b
    <3> QED BY <1>1, <1>2, <3>1, <3>2 DEF WriterType
  <2>3. StreamOrder'
    <3>1. ASSUME NEW s \in Streams, writer[p].pc = "run"
          PROVE  InOrder(relay'[p].output, relay'[p].queue[s], ledger'[p].queued[s],
                         ledger'[p].sent[s], s)
      BY <1>1, <1>6, <2>1, <3>1 DEF H2Inv, StreamOrder
    <3> QED BY <1>1, <2>2, <3>1 DEF StreamOrder
  <2>4. Books'
    BY <1>7, <1>8b, <2>1, Zenon DEF H2Inv, Books
  <2>5. H2TypeOK'
    BY <1>4, <1>6, <2>1, <2>2, Zenon DEF H2Inv, H2TypeOK
  <2> QED BY <1>8a, <2>3, <2>4, <2>5 DEF H2Inv
<1> QED BY <1>9, <1>10

(* A writer that was stuck goes on, to drop what comes.                    *)
LEMMA WriterFreedInv ==
  ASSUME H2Inv, NEW d \in Dirs, WriterFreed(d)
  PROVE  H2Inv'
<1>1. UNCHANGED <<relay, reader, ledger>>
  BY DEF WriterFreed
<1>2. writer \in [Dirs -> WriterType]
  BY DEF H2Inv, H2TypeOK
<1>3. writer' \in [Dirs -> WriterType] /\ \A x \in Dirs : writer'[x].pc = "run" => writer[x].pc = "run"
  BY <1>2 DEF WriterFreed, WriterType
<1>4. H2TypeOK'
  BY <1>1, <1>3, Zenon DEF H2Inv, H2TypeOK
<1>5. Locks' /\ Left' /\ \A x \in Dirs : Ordered(reader'[x].todo)
  BY <1>1, SMTT(30) DEF H2Inv, Locks, Left, Next1
<1>6. Books'
  BY <1>1, SMTT(30) DEF H2Inv, Books, ConnOwed, StreamOwed
<1>7. Woken'
  BY <1>1 DEF H2Inv, Woken, FlushAhead, Walked
<1>8. StreamOrder'
  BY <1>1, <1>3 DEF H2Inv, StreamOrder
<1> QED BY <1>4, <1>5, <1>6, <1>7, <1>8 DEF H2Inv

-----------------------------------------------------------------------------
(* A walk of all buffers of r that will begin after what reader d now does. *)
FlushLater(d, r) ==
  IF r = d THEN FlushAhead(r)
  ELSE \E i \in DOMAIN reader[d].todo : i > 1 /\ reader[d].todo[i].op = "flush"

(* Reader d goes on with its walk in relay r, which it left as rel: the    *)
(* books, the walk and the order are right for rel.                        *)
GoesOn(d, r, rel, q) ==
  /\ H2Inv
  /\ reader[d].pc = "select" /\ reader[d].todo # <<>>
  /\ Next1(d).op \in Locking /\ Next1(d).r = r
  /\ relay[r].flowMu \in {"free", d}
  /\ Continue(d, r, rel, q)
  /\ writer' = writer
  /\ ledger' \in [Dirs -> LedgerType] /\ ledger'[Peer(r)] = ledger[Peer(r)]
  /\ rel.init = relay[r].init /\ rel.conn >= 0
  /\ rel.conn = ledger'[r].granted[0] - ledger'[r].used[0] - ConnOwed(r)
  /\ \A s \in Streams : rel.win[s] = ledger'[r].granted[s] - ledger'[r].used[s]
                                         - (IF r = d THEN StreamOwed(r, s) ELSE 0)
  /\ \A s \in Streams : Fits(rel, s) => (\E i \in DOMAIN q : q[i] = s) \/ FlushLater(d, r)
  /\ \A s \in Streams : writer[r].pc = "run" =>
       InOrder(rel.output, rel.queue[s], ledger'[r].queued[s], ledger'[r].sent[s], s)

(* Then the rest follows from where the walk stops.                        *)
LEMMA ContinueInv ==
  ASSUME NEW d \in Dirs, NEW r \in Dirs, NEW rel \in RelayType,
         NEW q \in Seq(Streams \cup {0}), GoesOn(d, r, rel, q)
  PROVE  H2Inv'
<1>a. /\ H2Inv /\ reader[d].pc = "select" /\ reader[d].todo # <<>>
      /\ Next1(d).op \in Locking /\ Next1(d).r = r /\ relay[r].flowMu \in {"free", d}
  BY DEF GoesOn
<1>b. writer' = writer /\ ledger' \in [Dirs -> LedgerType] /\ ledger'[Peer(r)] = ledger[Peer(r)]
  BY DEF GoesOn
<1>c. rel.init = relay[r].init
  BY DEF GoesOn
<1>d. \A s \in Streams : Fits(rel, s) => (\E i \in DOMAIN q : q[i] = s) \/ FlushLater(d, r)
  BY DEF GoesOn
<1>e. \A s \in Streams : writer[r].pc = "run" =>
        InOrder(rel.output, rel.queue[s], ledger'[r].queued[s], ledger'[r].sent[s], s)
  BY DEF GoesOn
<1>f. /\ rel.conn >= 0
      /\ rel.conn = ledger'[r].granted[0] - ledger'[r].used[0] - ConnOwed(r)
      /\ \A s \in Streams : rel.win[s] = ledger'[r].granted[s] - ledger'[r].used[s]
                                             - (IF r = d THEN StreamOwed(r, s) ELSE 0)
  BY DEF GoesOn
<1> DEFINE p == Peer(d)
           r2 == Peer(r)
           todo == reader[d].todo
           o == Next1(d)
           rest == Walk(rel, q)
           mu == IF rest = <<>> THEN "free" ELSE d
           new == [rel EXCEPT !.flowMu = mu]
           left == IF rest = <<>> THEN Tail(todo) ELSE todo
<1>1. /\ p \in Dirs /\ p # d /\ Peer(p) = d /\ \A x \in Dirs : x = d \/ x = p
      /\ r2 \in Dirs /\ r2 # r /\ Peer(r2) = r /\ \A x \in Dirs : x = r \/ x = r2
      /\ d # "free" /\ p # "free"
  BY Peers, Directions DEF Dirs
<1>2. /\ reader[d] \in ReaderType(d) /\ DOMAIN reader = Dirs /\ todo \in Seq(Work(d))
      /\ Ordered(todo) /\ relay \in [Dirs -> RelayType]
  BY <1>a DEF H2Inv, H2TypeOK, ReaderType
<1>3. /\ o = todo[1] /\ 1 \in DOMAIN todo /\ o \in Work(d)
      /\ Tail(todo) # <<>> =>
           /\ Head(Tail(todo)).op \notin {"connection", "initial"}
           /\ Head(Tail(todo)).op = "window" => Head(Tail(todo)).s \notin Streams
      /\ \A i \in DOMAIN todo : i > 1 => i - 1 \in DOMAIN Tail(todo) /\ Tail(todo)[i - 1] = todo[i]
  BY <1>a, <1>2, TailOwes DEF Next1
<1>4. o.op = "enqueue" <=> r = d
  BY <1>a, <1>1, <1>3, WorkFields DEF Locking
<1>5. Tail(todo) \in Seq(Work(d)) /\ Ordered(Tail(todo))
  BY <1>a, <1>2, OrderedTail
<1>6. /\ rest \in Seq(Streams \cup {0})
      /\ rest # <<>> => Fits(rel, Head(rest))
      /\ \A k \in DOMAIN q : Fits(rel, q[k]) =>
           rest # <<>> /\ \E i \in DOMAIN rest : rest[i] = q[k]
  <2>1. StopsAt(rel, q, rest)
    BY WalkStops
  <2> HIDE DEF rest
  <2> QED BY <2>1 DEF StopsAt
<1> HIDE DEF rest
<1>7. mu \in {"free", d} /\ (mu = "free" <=> rest = <<>>)
  BY <1>1
<1>8. left \in Seq(Work(d)) /\ Ordered(left) /\ (rest # <<>> => left = todo)
  BY <1>2, <1>5
<1>9. /\ relay' = [relay EXCEPT ![r] = new]
      /\ reader' = [reader EXCEPT ![d] = [reader[d] EXCEPT !.emit = rest, !.todo = left]]
  BY DEF GoesOn, Continue, rest
<1> HIDE DEF mu, p, r2, todo, o
<1>10. /\ new \in RelayType /\ new.flowMu = mu /\ new.conn = rel.conn /\ new.win = rel.win
       /\ new.queue = rel.queue /\ new.output = rel.output /\ new.init = rel.init
  BY <1>1, <1>7, Zenon DEF RelayType
<1>11. \A s : Fits(new, s) <=> Fits(rel, s)
  BY <1>10 DEF Fits
<1> HIDE DEF new, left
<1>12. relay' \in [Dirs -> RelayType] /\ relay'[r] = new /\ relay'[r2] = relay[r2]
  BY <1>1, <1>2, <1>9, <1>10
<1>13. /\ reader'[d] \in ReaderType(d) /\ reader'[d].emit = rest /\ reader'[d].todo = left
       /\ reader'[d].pc = "select" /\ reader'[p] = reader[p] /\ DOMAIN reader' = Dirs
  BY <1>a, <1>1, <1>2, <1>6, <1>8, <1>9, Zenon DEF ReaderType
<1>14. H2TypeOK'
  BY <1>a, <1>b, <1>1, <1>12, <1>13, Zenon DEF H2Inv, H2TypeOK
<1>15. \A x \in Dirs : Ordered(reader'[x].todo)
  BY <1>a, <1>1, <1>8, <1>13 DEF H2Inv
<1>16. Left'
  BY <1>a, <1>1, <1>13 DEF H2Inv, Left
<1>17. relay[r2].flowMu # d
  BY <1>a, <1>1 DEF H2Inv, Locks, o
<1>18. Locks'
  <2>1. /\ rest # <<>> =>
             /\ reader'[d].pc = "select" /\ reader'[d].todo # <<>> /\ Next1(d)'.op \in Locking
             /\ relay'[Next1(d)'.r].flowMu = d
             /\ Fits(relay'[Next1(d)'.r], Head(rest))
        /\ \A x \in Dirs : relay'[x].flowMu = d => rest # <<>> /\ Next1(d)'.r = x
    <3>1. ASSUME rest # <<>> PROVE Next1(d)' = Next1(d) /\ reader'[d].todo # <<>>
      BY <1>a, <1>8, <1>13, <3>1 DEF Next1, todo
    <3>2. \A x \in Dirs : relay'[x].flowMu = d => rest # <<>> /\ x = r
      BY <1>1, <1>7, <1>10, <1>12, <1>17, SMTT(30)
    <3> QED BY <1>a, <1>6, <1>7, <1>10, <1>11, <1>12, <1>13, <3>1, <3>2, SMTT(30)
  <2>2. /\ reader[p].emit # <<>> =>
             /\ reader[p].pc = "select" /\ reader[p].todo # <<>> /\ Next1(p).op \in Locking
             /\ relay[Next1(p).r].flowMu = p
             /\ Fits(relay[Next1(p).r], Head(reader[p].emit))
        /\ \A x \in Dirs : relay[x].flowMu = p => reader[p].emit # <<>> /\ Next1(p).r = x
    BY <1>a, <1>1 DEF H2Inv, Locks
  <2>3. reader[p].emit # <<>> => Next1(p).r \in Dirs
    <3>1. ASSUME reader[p].emit # <<>> PROVE Next1(p) \in Work(p)
      <4>1. reader[p].todo \in Seq(Work(p)) /\ reader[p].todo # <<>>
        BY <1>a, <1>1, <2>2, <3>1 DEF H2Inv, H2TypeOK, ReaderType
      <4> QED BY <4>1, HeadTailProperties DEF Next1
    <3> QED BY <1>1, <2>2, <3>1, WorkFields DEF Locking
  <2>4. reader[p].emit # <<>> => Next1(p).r = r2
    BY <1>a, <1>1, <2>2, <2>3
  <2>5. Next1(p)' = Next1(p)
    BY <1>13 DEF Next1
  <2>6. \A x \in Dirs : relay'[x].flowMu = p => x = r2
    BY <1>1, <1>7, <1>10, <1>12
  <2>7. /\ reader'[p].emit # <<>> =>
             /\ reader'[p].pc = "select" /\ reader'[p].todo # <<>> /\ Next1(p)'.op \in Locking
             /\ relay'[Next1(p)'.r].flowMu = p
             /\ Fits(relay'[Next1(p)'.r], Head(reader'[p].emit))
        /\ \A x \in Dirs : relay'[x].flowMu = p => reader'[p].emit # <<>> /\ Next1(p)'.r = x
    BY <1>1, <1>12, <1>13, <2>2, <2>4, <2>5, <2>6, SMTT(30)
  <2> QED BY <1>1, <1>13, <2>1, <2>7 DEF Locks
<1>19. Books'
  <2>1. ConnOwed(p) = 0 /\ ConnOwed(p)' = 0 /\ \A s \in Streams : StreamOwed(p, s)' = 0
    <3>1. todo # <<>> /\ Head(todo).op \in Locking
      BY <1>a DEF todo, Next1
    <3>2. left # <<>> => Head(left).op \notin {"connection", "initial"}
      BY <1>3, <3>1 DEF left, Locking
    <3>3. ConnOwed(p) = 0 /\ ConnOwed(p)' = 0
      BY <1>1, <1>13, <3>1, <3>2 DEF ConnOwed, todo, Locking
    <3>4. ASSUME NEW s \in Streams PROVE StreamOwed(p, s)' = 0
      <4>1. CASE rest # <<>>
        BY <1>1, <1>13, <4>1 DEF StreamOwed
      <4>2. CASE rest = <<>>
        <5>1. left = Tail(todo)
          BY <4>2 DEF left
        <5> QED BY <1>1, <1>3, <1>13, <5>1 DEF StreamOwed
      <4> QED BY <4>1, <4>2
    <3> QED BY <3>3, <3>4
  <2>2. /\ ConnOwed(d)' = ConnOwed(d)
        /\ \A s \in Streams : StreamOwed(d, s)' = StreamOwed(d, s)
    <3>1. relay'[d].init = relay[d].init /\ reader'[Peer(d)] = reader[Peer(d)]
      BY <1>c, <1>1, <1>10, <1>12, <1>13 DEF p
    <3> QED BY <3>1 DEF ConnOwed, StreamOwed
  <2>4. /\ relay'[r].conn >= 0
        /\ relay'[r].conn = ledger'[r].granted[0] - ledger'[r].used[0] - ConnOwed(r)'
    BY <1>f, <1>1, <1>10, <1>12, <2>1, <2>2, SMTT(30)
  <2>5. ASSUME NEW s \in Streams
        PROVE  relay'[r].win[s] = ledger'[r].granted[s] - ledger'[r].used[s] - StreamOwed(r, s)'
    BY <1>f, <1>1, <1>10, <1>12, <2>1, <2>2
  <2>6. ConnOwed(r2)' = ConnOwed(r2)
    BY <1>1, <2>1, <2>2
  <2>7. ASSUME NEW s \in Streams PROVE StreamOwed(r2, s)' = StreamOwed(r2, s)
    <3>1. CASE r2 = d
      BY <2>2, <3>1
    <3>2. CASE r2 = p
      <4>1. Head(todo).op = "enqueue"
        BY <1>1, <1>4, <3>2 DEF o, todo, Next1
      <4>2. StreamOwed(p, s) = 0
        BY <1>1, <4>1 DEF StreamOwed, todo
      <4> QED BY <2>1, <3>2, <4>2
    <3> QED BY <1>1, <3>1, <3>2
  <2>8. /\ relay[r2].conn >= 0
        /\ relay[r2].conn = ledger[r2].granted[0] - ledger[r2].used[0] - ConnOwed(r2)
        /\ \A s \in Streams :
             relay[r2].win[s] = ledger[r2].granted[s] - ledger[r2].used[s] - StreamOwed(r2, s)
    BY <1>a, <1>1 DEF H2Inv, Books
  <2> QED BY <1>b, <1>1, <1>12, <2>4, <2>5, <2>6, <2>7, <2>8, SMTT(30) DEF Books, r2
<1>20. \A i \in DOMAIN todo : i > 1 /\ todo[i].op = "flush" =>
         \E k \in DOMAIN left : left[k].op = "flush" /\ (k > 1 \/ rest = <<>>)
  BY <1>3 DEF left
<1>21. Woken'
  <2>1. ASSUME NEW s \in Streams, Fits(relay'[r], s)
        PROVE  FlushAhead(r)' \/ Walked(r, s)'
    <3>1. Fits(rel, s)
      BY <1>11, <1>12, <2>1
    <3>2. CASE \E i \in DOMAIN q : q[i] = s
      <4>1. rest # <<>> /\ \E i \in DOMAIN rest : rest[i] = s
        BY <1>6, <3>1, <3>2
      <4>2. relay'[r].flowMu = d
        BY <1>7, <1>10, <1>12, <4>1
      <4> QED BY <1>1, <1>13, <4>1, <4>2 DEF Walked
    <3>3. CASE r = d /\ FlushAhead(r)
      BY <1>13, <3>3 DEF FlushAhead, p
    <3>4. CASE r # d /\ FlushLater(d, r)
      <4>1. Peer(r) = d
        BY <1>1, <3>4
      <4> QED BY <1>13, <1>20, <3>4, <4>1 DEF FlushLater, FlushAhead, todo
    <3> QED BY <1>d, <3>1, <3>2, <3>3, <3>4 DEF FlushLater
  <2>2. ASSUME NEW s \in Streams, Fits(relay'[r2], s)
        PROVE  FlushAhead(r2)' \/ Walked(r2, s)'
    <3>1. FlushAhead(r2) \/ Walked(r2, s)
      BY <1>a, <1>1, <1>12, <2>2, SMTT(30) DEF H2Inv, Woken
    <3>2. CASE Walked(r2, s)
      <4>1. relay[r2].flowMu = p
        BY <1>1, <1>2, <1>17, <3>2, SMTT(30) DEF RelayType, Walked
      <4> QED BY <1>12, <1>13, <3>2, <4>1 DEF Walked
    <3>3. CASE FlushAhead(r2) /\ r = p
      BY <1>1, <1>13, <3>3 DEF FlushAhead
    <3>4. CASE FlushAhead(r2) /\ r = d
      <4>1. PICK i \in DOMAIN todo : todo[i].op = "flush"
        BY <1>1, <3>4 DEF FlushAhead, todo
      <4>2. i > 1
        BY <1>2, <1>3, <1>4, <3>4, <4>1, LenProperties
      <4> QED BY <1>1, <1>13, <1>20, <3>4, <4>1, <4>2, SMTT(30) DEF FlushAhead
    <3> QED BY <1>1, <3>1, <3>2, <3>3, <3>4, SMTT(30)
  <2> QED BY <1>1, <2>1, <2>2 DEF Woken
<1>22. StreamOrder'
  <2>1. ASSUME NEW s \in Streams, writer[r].pc = "run"
        PROVE  InOrder(relay'[r].output, relay'[r].queue[s], ledger'[r].queued[s],
                       ledger'[r].sent[s], s)
    BY <1>e, <1>10, <1>12, <2>1, SMTT(30)
  <2>2. ASSUME NEW s \in Streams, writer[r2].pc = "run"
        PROVE  InOrder(relay'[r2].output, relay'[r2].queue[s], ledger'[r2].queued[s],
                       ledger'[r2].sent[s], s)
    BY <1>a, <1>b, <1>1, <1>12, <2>2 DEF H2Inv, StreamOrder, r2
  <2> QED BY <1>b, <1>1, <2>1, <2>2 DEF StreamOrder
<1> QED BY <1>14, <1>15, <1>16, <1>18, <1>19, <1>21, <1>22, SMTT(30) DEF H2Inv

(* Taking flowMu: a frame is queued, a stream's window raised, or all the  *)
(* buffers are walked.                                                     *)
LEMMA LockFlowInv ==
  ASSUME H2Inv, NEW d \in Dirs, LockFlow(d)
  PROVE  H2Inv'
<1> DEFINE p == Peer(d)
           o == Next1(d)
           todo == reader[d].todo
<1>1. p \in Dirs /\ p # d /\ Peer(p) = d /\ \A x \in Dirs : x = d \/ x = p
  BY Peers, Directions
<1>2. /\ reader[d] \in ReaderType(d) /\ todo \in Seq(Work(d)) /\ todo # <<>>
      /\ reader[d].emit = <<>> /\ reader[d].pc = "select" /\ o.op \in Locking
      /\ Ordered(todo) /\ relay \in [Dirs -> RelayType] /\ ledger \in [Dirs -> LedgerType]
      /\ relay[o.r].flowMu = "free" /\ writer' = writer
  BY Zenon DEF H2Inv, H2TypeOK, LockFlow, HasWork, ReaderType, Locking
<1>3. o = todo[1] /\ 1 \in DOMAIN todo /\ o \in Work(d) /\ o = Head(todo)
  BY <1>2, TailOwes DEF Next1
<1>4. \A r \in Dirs, s \in Streams : Fits(relay[r], s) /\ relay[r].flowMu = "free" => FlushAhead(r)
  BY DEF H2Inv, Woken, Walked
<1>4b. \A r \in Dirs :
         /\ relay[r].conn >= 0
         /\ relay[r].conn = ledger[r].granted[0] - ledger[r].used[0] - ConnOwed(r)
         /\ \A s \in Streams :
              relay[r].win[s] = ledger[r].granted[s] - ledger[r].used[s] - StreamOwed(r, s)
  BY DEF H2Inv, Books
<1>4c. \A r \in Dirs, s \in Streams : writer[r].pc = "run" =>
         InOrder(relay[r].output, relay[r].queue[s], ledger[r].queued[s], ledger[r].sent[s], s)
  BY DEF H2Inv, StreamOrder
<1>5. o.op # "flush" /\ FlushAhead(p) => FlushLater(d, p)
  <2> SUFFICES ASSUME o.op # "flush", FlushAhead(p) PROVE FlushLater(d, p)
    OBVIOUS
  <2>1. PICK i \in DOMAIN todo : todo[i].op = "flush"
    BY <1>1 DEF FlushAhead
  <2>2. i > 1
    BY <1>2, <1>3, <2>1, LenProperties
  <2> QED BY <1>1, <2>1, <2>2 DEF FlushLater
<1>6. CASE o.op = "enqueue"
  <2> DEFINE s == o.s
             n == ledger[d].queued[s] + 1
             f == [s |-> s, len |-> o.len, end |-> o.end, n |-> n]
             queue == [relay[d].queue EXCEPT ![s] = Append(@, f)]
             rel == [relay[d] EXCEPT !.queue = queue]
  <2>1. o.r = d /\ s \in Streams /\ o.len \in Nat /\ o.end \in BOOLEAN
    BY <1>3, <1>6, WorkFields
  <2>2. /\ relay[d] \in RelayType /\ relay[d].queue \in [Streams -> Seq(Queued)]
        /\ relay[d].output \in Seq(Queued) /\ relay[d].conn \in Int
        /\ ledger[d] \in LedgerType /\ ledger[d].queued \in [Streams -> Nat]
        /\ ledger[d].sent \in [Streams -> Nat]
    BY <1>2, Zenon DEF RelayType, LedgerType
  <2>3. n \in Nat /\ f \in Queued
    <3>1. n \in Nat
      BY <2>1, <2>2
    <3> HIDE DEF n, s, o
    <3> QED BY <2>1, <3>1 DEF Queued
  <2>4. /\ Continue(d, d, rel, <<s>>)
        /\ ledger' = [ledger EXCEPT ![d].queued[s] = n]
    BY <1>6, <2>1 DEF LockFlow
  <2>5. /\ queue \in [Streams -> Seq(Queued)] /\ queue[s] = Append(relay[d].queue[s], f)
        /\ \A t \in Streams : t # s => queue[t] = relay[d].queue[t]
    BY <2>1, <2>2, <2>3, AppendProperties, Zenon
  <2> HIDE DEF n, f, s, queue
  <2>6. /\ rel \in RelayType /\ rel.queue = queue /\ rel.conn = relay[d].conn
        /\ rel.win = relay[d].win /\ rel.init = relay[d].init /\ rel.output = relay[d].output
    BY <2>2, <2>5, Zenon DEF RelayType
  <2> HIDE DEF rel
  <2>7. /\ ledger' \in [Dirs -> LedgerType] /\ ledger'[p] = ledger[p]
        /\ ledger'[d].granted = ledger[d].granted /\ ledger'[d].used = ledger[d].used
        /\ ledger'[d].sent = ledger[d].sent /\ ledger'[d].queued[s] = n
        /\ \A t \in Streams : t # s => ledger'[d].queued[t] = ledger[d].queued[t]
    <3> DEFINE l == [ledger[d] EXCEPT !.queued = [ledger[d].queued EXCEPT ![s] = n]]
    <3>1. ledger' = [ledger EXCEPT ![d] = l]
      BY <1>2, <2>2, <2>4
    <3>2. /\ l \in LedgerType /\ l.granted = ledger[d].granted /\ l.used = ledger[d].used
          /\ l.sent = ledger[d].sent /\ l.queued = [ledger[d].queued EXCEPT ![s] = n]
      BY <2>1, <2>2, <2>3, Zenon DEF LedgerType, s
    <3> HIDE DEF l
    <3>3. ledger'[d] = l /\ ledger'[p] = ledger[p] /\ ledger' \in [Dirs -> LedgerType]
      BY <1>1, <1>2, <3>1, <3>2
    <3> QED BY <2>1, <2>2, <3>2, <3>3 DEF s
  <2>8. \A t \in Streams : Fits(rel, t) => (\E i \in DOMAIN <<s>> : <<s>>[i] = t) \/ FlushLater(d, d)
    <3> TAKE t \in Streams
    <3>1. CASE t = s
      BY <3>1
    <3>2. CASE t # s
      <4>1. Fits(rel, t) => Fits(relay[d], t)
        BY <2>5, <2>6, <3>2 DEF Fits
      <4> QED BY <1>2, <1>4, <2>1, <4>1, SMTT(30) DEF FlushLater
    <3> QED BY <3>1, <3>2
  <2>9. \A t \in Streams : writer[d].pc = "run" =>
          InOrder(rel.output, rel.queue[t], ledger'[d].queued[t], ledger'[d].sent[t], t)
    <3> TAKE t \in Streams
    <3>1. CASE t = s
      <4>1. f.s = s /\ f.n = ledger[d].queued[s] + 1 /\ s \in Streams
        BY <2>1 DEF f, n, s
      <4>2. writer[d].pc = "run" =>
              InOrder(relay[d].output, Append(relay[d].queue[s], f), n, ledger[d].sent[s], s)
        BY <1>4c, <2>2, <2>3, <4>1, OrderAppend, ZenonT(40) DEF n
      <4> QED BY <2>5, <2>6, <2>7, <3>1, <4>2, Zenon
    <3>2. CASE t # s
      BY <1>4c, <2>5, <2>6, <2>7, <3>2
    <3> QED BY <3>1, <3>2
  <2>10. <<s>> \in Seq(Streams \cup {0})
    BY <2>1 DEF s
  <2> HIDE DEF p
  <2>11. /\ rel.conn >= 0
         /\ rel.conn = ledger'[d].granted[0] - ledger'[d].used[0] - ConnOwed(d)
         /\ \A t \in Streams : rel.win[t] = ledger'[d].granted[t] - ledger'[d].used[t]
                                              - (IF d = d THEN StreamOwed(d, t) ELSE 0)
    BY <1>4b, <2>6, <2>7, SMTT(30)
  <2>12. GoesOn(d, d, rel, <<s>>)
    <3>1. /\ Continue(d, d, rel, <<s>>) /\ Next1(d).op \in Locking /\ Next1(d).r = d
          /\ relay[d].flowMu \in {"free", d}
      BY <1>2, <2>1, <2>4
    <3> QED BY <1>2, <2>6, <2>7, <2>8, <2>9, <2>11, <3>1, Zenon DEF GoesOn, p
  <2> QED BY <2>6, <2>10, <2>12, ContinueInv, Zenon
<1>7. CASE o.op = "window"
  <2> DEFINE s == o.s
             win == [relay[p].win EXCEPT ![s] = @ + o.inc]
             rel == [relay[p] EXCEPT !.win = win]
  <2>1. o.r = p /\ s \in Streams \cup {0} /\ o.inc \in Nat
    BY <1>3, <1>7, WorkFields
  <2>2. /\ relay[p] \in RelayType /\ relay[p].win \in [Streams \cup {0} -> Int]
        /\ ledger[p].granted \in [Streams \cup {0} -> Int]
        /\ ledger[p].used \in [Streams \cup {0} -> Int]
    BY <1>1, <1>2, Zenon DEF RelayType, LedgerType
  <2>3. Continue(d, p, rel, <<s>>) /\ ledger' = ledger
    BY <1>7, <2>1 DEF LockFlow
  <2>4. /\ win \in [Streams \cup {0} -> Int] /\ win[s] = relay[p].win[s] + o.inc
        /\ \A t \in Streams : t # s => win[t] = relay[p].win[t]
    BY <2>1, <2>2
  <2> HIDE DEF win, s
  <2>5. /\ rel \in RelayType /\ rel.queue = relay[p].queue /\ rel.conn = relay[p].conn
        /\ rel.win = win /\ rel.init = relay[p].init /\ rel.output = relay[p].output
    BY <2>2, <2>4, ZenonT(40) DEF RelayType
  <2> HIDE DEF rel, p
  <2>6. \A t \in Streams : StreamOwed(p, t) = IF t = s THEN o.inc ELSE 0
    BY <1>1, <1>2, <1>3, <1>7 DEF StreamOwed, s
  <2>7. \A t \in Streams : Fits(rel, t) => (\E i \in DOMAIN <<s>> : <<s>>[i] = t) \/ FlushLater(d, p)
    <3> TAKE t \in Streams
    <3>1. CASE t = s
      BY <3>1, SMTT(30)
    <3>2. CASE t # s
      <4>1. Fits(rel, t) => Fits(relay[p], t)
        BY <2>4, <2>5, <3>2, SMTT(30) DEF Fits
      <4> QED BY <1>1, <1>2, <1>4, <1>5, <1>7, <2>1, <4>1, SMTT(30)
    <3> QED BY <3>1, <3>2
  <2>8. \A t \in Streams : rel.win[t] = ledger'[p].granted[t] - ledger'[p].used[t]
                                          - (IF p = d THEN StreamOwed(p, t) ELSE 0)
    <3> TAKE t \in Streams
    <3>1. relay[p].win[t] = ledger[p].granted[t] - ledger[p].used[t] - IF t = s THEN o.inc ELSE 0
      BY <1>1, <1>4b, <2>6
    <3>2. rel.win[t] = relay[p].win[t] + IF t = s THEN o.inc ELSE 0
      BY <2>2, <2>4, <2>5
    <3>3. ledger[p].granted[t] \in Int /\ ledger[p].used[t] \in Int
      BY <2>2
    <3>4. rel.win[t] = ledger[p].granted[t] - ledger[p].used[t] - 0
      BY <2>1, <3>1, <3>2, <3>3
    <3> QED BY <1>1, <2>3, <3>4
  <2>9. <<s>> \in Seq(Streams \cup {0})
    BY <2>1, SMTT(30)
  <2>10. /\ rel.conn >= 0
         /\ rel.conn = ledger'[p].granted[0] - ledger'[p].used[0] - ConnOwed(p)
         /\ \A t \in Streams : writer[p].pc = "run" =>
              InOrder(rel.output, rel.queue[t], ledger'[p].queued[t], ledger'[p].sent[t], t)
         /\ ledger' \in [Dirs -> LedgerType] /\ ledger'[Peer(p)] = ledger[Peer(p)]
    BY <1>1, <1>2, <1>4b, <1>4c, <2>3, <2>5
  <2>11. GoesOn(d, p, rel, <<s>>)
    <3>1. /\ Continue(d, p, rel, <<s>>) /\ Next1(d).op \in Locking /\ Next1(d).r = p
          /\ relay[p].flowMu \in {"free", d}
      BY <1>2, <2>1, <2>3
    <3> QED BY <1>2, <2>5, <2>7, <2>8, <2>10, <3>1, ZenonT(40) DEF GoesOn
  <2> QED BY <1>1, <2>5, <2>9, <2>11, ContinueInv, Zenon
<1>8. CASE o.op = "flush"
  <2>1. o.r = p /\ relay[p] \in RelayType
    BY <1>1, <1>2, <1>3, <1>8, WorkFields
  <2>2. PICK q \in Orders : Continue(d, p, relay[p], q)
    BY <1>8, <2>1 DEF LockFlow
  <2>3. ledger' = ledger
    BY <1>8 DEF LockFlow
  <2>4. q \in Seq(Streams \cup {0}) /\ \A s \in Streams : \E i \in DOMAIN q : q[i] = s
    BY OrdersMeetAll
  <2> HIDE DEF p
  <2>5. \A s \in Streams : StreamOwed(p, s) = 0
    BY <1>1, <1>2, <1>3, <1>8, Zenon DEF StreamOwed
  <2>6. \A s \in Streams : relay[p].win[s] = ledger'[p].granted[s] - ledger'[p].used[s]
                                               - (IF p = d THEN StreamOwed(p, s) ELSE 0)
    BY <1>1, <1>4b, <2>3, <2>5, SMTT(30)
  <2>7. /\ relay[p].conn >= 0
        /\ relay[p].conn = ledger'[p].granted[0] - ledger'[p].used[0] - ConnOwed(p)
        /\ \A t \in Streams : writer[p].pc = "run" =>
             InOrder(relay[p].output, relay[p].queue[t], ledger'[p].queued[t],
                     ledger'[p].sent[t], t)
        /\ ledger' \in [Dirs -> LedgerType] /\ ledger'[Peer(p)] = ledger[Peer(p)]
    BY <1>1, <1>2, <1>4b, <1>4c, <2>3
  <2>8. GoesOn(d, p, relay[p], q)
    <3>1. /\ Next1(d).op \in Locking /\ Next1(d).r = p /\ relay[p].flowMu \in {"free", d}
      BY <1>2, <2>1
    <3> QED BY <1>2, <2>2, <2>4, <2>6, <2>7, <3>1, Zenon DEF GoesOn
  <2> QED BY <1>1, <2>1, <2>4, <2>8, ContinueInv, SMTT(30)
<1> QED BY <1>2, <1>6, <1>7, <1>8 DEF Locking

(* What is owed is a number.                                               *)
LEMMA OwedTypes ==
  ASSUME H2Inv, NEW r \in Dirs
  PROVE  ConnOwed(r) \in Int /\ \A s \in Streams : StreamOwed(r, s) \in Int
<1> DEFINE todo == reader[Peer(r)].todo
           h == Head(todo)
<1>1. relay[r].init \in Int /\ todo \in Seq(Work(Peer(r))) /\ Peer(r) \in Dirs
  BY Peers DEF H2Inv, H2TypeOK, RelayType, ReaderType
<1> HIDE DEF todo
<1>2. todo # <<>> => h \in Work(Peer(r))
  BY <1>1, HeadTailProperties
<1> HIDE DEF h
<1>3. /\ todo # <<>> /\ h.op = "connection" => h.inc \in Nat
      /\ todo # <<>> /\ h.op = "window" => h.inc \in Nat
      /\ todo # <<>> /\ h.op = "initial" => h.val \in Nat
  BY <1>1, <1>2, WorkFields, SMTT(30)
<1>4. ConnOwed(r) \in Int
  BY <1>3 DEF ConnOwed, todo, h
<1>5. ASSUME NEW s \in Streams PROVE StreamOwed(r, s) \in Int
  BY <1>1, <1>3 DEF StreamOwed, todo, h
<1> QED BY <1>4, <1>5

(* Reader d has moved f, the front of the queue of stream s, to output and *)
(* charged the windows for it, which makes rel of relay r.                 *)
Charged(d, r, s, f, rel) ==
  /\ H2Inv /\ d \in Dirs /\ r \in Dirs
  /\ reader[d].pc = "select" /\ reader[d].todo # <<>>
  /\ reader[d].emit # <<>> /\ Head(reader[d].emit) = s
  /\ Next1(d).op \in Locking /\ Next1(d).r = r /\ relay[r].flowMu = d
  /\ s \in Streams /\ relay[r].queue[s] # <<>> /\ f = Head(relay[r].queue[s])
  /\ f.len <= relay[r].conn
  /\ rel \in RelayType /\ rel.init = relay[r].init
  /\ rel.conn = relay[r].conn - f.len
  /\ rel.win = [relay[r].win EXCEPT ![s] = relay[r].win[s] - f.len]
  /\ rel.queue = [relay[r].queue EXCEPT ![s] = Tail(relay[r].queue[s])]
  /\ rel.output = Append(relay[r].output, f)
  /\ ledger' = [ledger EXCEPT ![r].used =
       [ledger[r].used EXCEPT ![s] = @ + f.len, ![0] = @ + f.len]]

LEMMA ChargedTypes ==
  ASSUME NEW d, NEW r, NEW s, NEW f, NEW rel, Charged(d, r, s, f, rel)
  PROVE  /\ relay[r].queue \in [Streams -> Seq(Queued)] /\ relay[r].output \in Seq(Queued)
         /\ relay[r].conn \in Int /\ relay[r].win \in [Streams \cup {0} -> Int]
         /\ ledger[r] \in LedgerType /\ ledger \in [Dirs -> LedgerType]
         /\ reader[d].emit \in Seq(Streams \cup {0})
         /\ f \in Queued /\ f.len \in Nat
<1>1. d \in Dirs /\ r \in Dirs /\ H2TypeOK
  BY DEF Charged, H2Inv
<1>2. relay[r] \in RelayType /\ reader[d] \in ReaderType(d) /\ ledger \in [Dirs -> LedgerType]
  BY <1>1 DEF H2TypeOK
<1>3. /\ relay[r].queue \in [Streams -> Seq(Queued)] /\ relay[r].output \in Seq(Queued)
      /\ relay[r].conn \in Int /\ relay[r].win \in [Streams \cup {0} -> Int]
  BY <1>2 DEF RelayType
<1>4. reader[d].emit \in Seq(Streams \cup {0})
  BY <1>2 DEF ReaderType
<1>5. f \in Queued
  <2>1. s \in Streams /\ relay[r].queue[s] # <<>> /\ f = Head(relay[r].queue[s])
    BY DEF Charged
  <2> QED BY <1>3, <2>1, HeadTailProperties, SMTT(30)
<1>6. f.len \in Nat
  BY <1>5 DEF Queued
<1> QED BY <1>1, <1>2, <1>3, <1>4, <1>5, <1>6, SMTT(30)

(* Only what was used of the two windows has changed in the books.         *)
LEMMA ChargedLedger ==
  ASSUME NEW d, NEW r, NEW s, NEW f, NEW rel, Charged(d, r, s, f, rel)
  PROVE  /\ ledger' \in [Dirs -> LedgerType] /\ ledger'[Peer(r)] = ledger[Peer(r)]
         /\ ledger'[r].granted = ledger[r].granted /\ ledger'[r].sent = ledger[r].sent
         /\ ledger'[r].queued = ledger[r].queued
         /\ ledger'[r].used[s] = ledger[r].used[s] + f.len
         /\ ledger'[r].used[0] = ledger[r].used[0] + f.len
         /\ \A t \in Streams : t # s => ledger'[r].used[t] = ledger[r].used[t]
<1> DEFINE used == [ledger[r].used EXCEPT ![s] = @ + f.len, ![0] = @ + f.len]
           l == [ledger[r] EXCEPT !.used = used]
<1>1. r \in Dirs /\ s \in Streams /\ ledger' = [ledger EXCEPT ![r].used = used]
  BY DEF Charged
<1>2. ledger \in [Dirs -> LedgerType] /\ ledger[r] \in LedgerType /\ f.len \in Nat
  BY ChargedTypes
<1>3. s # 0 /\ 0 \notin Streams /\ ledger[r].used \in [Streams \cup {0} -> Int]
  BY <1>1, <1>2, H2Assumption DEF LedgerType
<1>4. ledger' = [ledger EXCEPT ![r] = l]
  <2> HIDE DEF used
  <2> QED BY <1>1, <1>2 DEF l
<1>5. /\ used \in [Streams \cup {0} -> Int] /\ used[s] = ledger[r].used[s] + f.len
      /\ used[0] = ledger[r].used[0] + f.len
      /\ \A t \in Streams : t # s => used[t] = ledger[r].used[t]
  BY <1>1, <1>2, <1>3
<1> HIDE DEF used
<1>6. /\ l \in LedgerType /\ l.granted = ledger[r].granted /\ l.used = used
      /\ l.sent = ledger[r].sent /\ l.queued = ledger[r].queued
  BY <1>2, <1>5, SMTT(30) DEF LedgerType
<1> HIDE DEF l
<1>7. Peer(r) \in Dirs /\ Peer(r) # r
  BY <1>1, Peers
<1>8. ledger'[r] = l /\ ledger'[Peer(r)] = ledger[Peer(r)] /\ ledger' \in [Dirs -> LedgerType]
  BY <1>1, <1>2, <1>4, <1>6, <1>7
<1> QED BY <1>5, <1>6, <1>8

(* The books are right for rel.                                            *)
LEMMA ChargedBooks ==
  ASSUME NEW d, NEW r, NEW s, NEW f, NEW rel, Charged(d, r, s, f, rel)
  PROVE  /\ rel.conn >= 0
         /\ rel.conn = ledger'[r].granted[0] - ledger'[r].used[0] - ConnOwed(r)
         /\ \A t \in Streams : rel.win[t] = ledger'[r].granted[t] - ledger'[r].used[t]
                                              - (IF r = d THEN StreamOwed(r, t) ELSE 0)
<1>1. /\ H2Inv /\ d \in Dirs /\ r \in Dirs /\ s \in Streams /\ f.len <= relay[r].conn
      /\ reader[d].emit # <<>> /\ rel.conn = relay[r].conn - f.len
      /\ rel.win = [relay[r].win EXCEPT ![s] = relay[r].win[s] - f.len]
  BY DEF Charged
<1>2. /\ f.len \in Nat /\ relay[r].conn \in Int /\ relay[r].win \in [Streams \cup {0} -> Int]
      /\ ledger[r].granted \in [Streams \cup {0} -> Int]
      /\ ledger[r].used \in [Streams \cup {0} -> Int]
  BY ChargedTypes, Zenon DEF LedgerType
<1>3. /\ relay[r].conn = ledger[r].granted[0] - ledger[r].used[0] - ConnOwed(r)
      /\ \A t \in Streams :
           relay[r].win[t] = ledger[r].granted[t] - ledger[r].used[t] - StreamOwed(r, t)
  BY <1>1 DEF H2Inv, Books
<1>4. ConnOwed(r) \in Int /\ \A t \in Streams : StreamOwed(r, t) \in Int
  BY <1>1, OwedTypes, SMTT(30)
<1>5. /\ ledger'[r].granted = ledger[r].granted
      /\ ledger'[r].used[s] = ledger[r].used[s] + f.len
      /\ ledger'[r].used[0] = ledger[r].used[0] + f.len
      /\ \A t \in Streams : t # s => ledger'[r].used[t] = ledger[r].used[t]
  BY ChargedLedger, SMTT(30)
<1>6. rel.conn >= 0 /\ rel.conn = ledger'[r].granted[0] - ledger'[r].used[0] - ConnOwed(r)
  <2>1. ledger[r].granted[0] \in Int /\ ledger[r].used[0] \in Int
    BY <1>2, SMTT(30)
  <2>2. relay[r].conn - f.len
          = ledger[r].granted[0] - (ledger[r].used[0] + f.len) - ConnOwed(r)
    BY <1>2, <1>3, <1>4, <2>1, SMTT(30)
  <2>3. rel.conn >= 0
    BY <1>1, <1>2
  <2> QED BY <1>1, <1>5, <2>2, <2>3, SMTT(30)
<1>7. ASSUME NEW t \in Streams
      PROVE  rel.win[t] = ledger'[r].granted[t] - ledger'[r].used[t]
                            - (IF r = d THEN StreamOwed(r, t) ELSE 0)
  <2>1. StreamOwed(r, t) = IF r = d THEN StreamOwed(r, t) ELSE 0
    <3>1. CASE r # d
      <4>1. Peer(r) = d
        BY <1>1, <3>1, Peers, Directions
      <4> QED BY <1>1, <3>1, <4>1, SMTT(30) DEF StreamOwed
    <3> QED BY <3>1
  <2>2. rel.win[t] = ledger'[r].granted[t] - ledger'[r].used[t] - StreamOwed(r, t)
    <3>1. /\ relay[r].win[t] \in Int /\ ledger[r].granted[t] \in Int /\ ledger[r].used[t] \in Int
          /\ relay[r].win[t] = ledger[r].granted[t] - ledger[r].used[t] - StreamOwed(r, t)
          /\ StreamOwed(r, t) \in Int
      BY <1>2, <1>3, <1>4, SMTT(30)
    <3>2. CASE t = s
      <4>1. rel.win[t] = relay[r].win[t] - f.len
        BY <1>1, <1>2, <3>2, SMTT(30)
      <4> QED BY <1>2, <1>5, <3>1, <3>2, <4>1, SMTT(30)
    <3>3. CASE t # s
      <4>1. rel.win[t] = relay[r].win[t]
        BY <1>1, <1>2, <3>3, SMTT(30)
      <4> QED BY <1>5, <3>1, <3>3, <4>1, SMTT(30)
    <3> QED BY <3>2, <3>3, SMTT(30)
  <2> QED BY <2>1, <2>2
<1> QED BY <1>6, <1>7, SMTT(30)

(* A frame that fits under the new windows did so under the old ones.      *)
LEMMA ChargedWalk ==
  ASSUME NEW d, NEW r, NEW s, NEW f, NEW rel, Charged(d, r, s, f, rel),
         NEW t \in Streams, Fits(rel, t)
  PROVE  (\E i \in DOMAIN reader[d].emit : reader[d].emit[i] = t) \/ FlushLater(d, r)
<1>1. /\ H2Inv /\ d \in Dirs /\ r \in Dirs /\ s \in Streams /\ relay[r].flowMu = d
      /\ reader[d].emit # <<>> /\ Head(reader[d].emit) = s
      /\ rel.conn = relay[r].conn - f.len
      /\ rel.win = [relay[r].win EXCEPT ![s] = relay[r].win[s] - f.len]
      /\ rel.queue = [relay[r].queue EXCEPT ![s] = Tail(relay[r].queue[s])]
  BY DEF Charged
<1>2. /\ relay[r].queue \in [Streams -> Seq(Queued)] /\ relay[r].conn \in Int
      /\ relay[r].win \in [Streams \cup {0} -> Int]
      /\ reader[d].emit \in Seq(Streams \cup {0}) /\ f.len \in Nat
  BY ChargedTypes, Zenon
<1>3. CASE t = s
  <2>1. 1 \in DOMAIN reader[d].emit /\ reader[d].emit[1] = s
    BY <1>1, <1>2, HeadTailProperties, LenProperties, EmptySeq, SMTT(30)
  <2> QED BY <1>3, <2>1, SMTT(30)
<1>4. CASE t # s
  <2>1. rel.queue[t] = relay[r].queue[t] /\ rel.win[t] = relay[r].win[t]
    BY <1>1, <1>2, <1>4, SMTT(30)
  <2>2. /\ relay[r].queue[t] # <<>> /\ Head(relay[r].queue[t]).len <= relay[r].conn - f.len
        /\ Head(relay[r].queue[t]).len <= relay[r].win[t]
    BY <1>1, <2>1, Zenon DEF Fits
  <2>3. Head(relay[r].queue[t]).len \in Nat
    <3>1. Head(relay[r].queue[t]) \in Queued
      BY <1>2, <2>2, HeadTailProperties, SMTT(30)
    <3> QED BY <3>1, SMTT(30) DEF Queued
  <2>4. Head(relay[r].queue[t]).len <= relay[r].conn
    BY <1>2, <2>2, <2>3, SMTT(30)
  <2>5. Fits(relay[r], t)
    BY <2>2, <2>4, SMTT(30) DEF Fits
  <2>6. FlushAhead(r) \/ Walked(r, t)
    BY <1>1, <2>5, SMTT(30) DEF H2Inv, Woken
  <2>7. CASE Walked(r, t)
    BY <1>1, <2>7 DEF Walked
  <2>8. CASE FlushAhead(r) /\ r = d
    BY <2>8, SMTT(30) DEF FlushLater
  <2>9. CASE FlushAhead(r) /\ r # d
    <3>1. Peer(r) = d
      BY <1>1, <2>9, Peers, Directions, SMTT(30)
    <3> QED BY <1>1, <2>9, <3>1, SMTT(30) DEF FlushLater, FlushAhead
  <2> QED BY <2>6, <2>7, <2>8, <2>9, SMTT(30)
<1> QED BY <1>3, <1>4

(* f is the oldest frame of its stream in the queue.                       *)
LEMMA ChargedOrder ==
  ASSUME NEW d, NEW r, NEW s, NEW f, NEW rel, Charged(d, r, s, f, rel),
         NEW t \in Streams, writer[r].pc = "run"
  PROVE  InOrder(rel.output, rel.queue[t], ledger'[r].queued[t], ledger'[r].sent[t], t)
<1> DEFINE out == relay[r].output
           queue == relay[r].queue
           came == ledger[r].queued
           sent == ledger[r].sent
<1>1. /\ r \in Dirs /\ s \in Streams /\ queue[s] # <<>> /\ f = Head(queue[s])
      /\ rel.queue = [queue EXCEPT ![s] = Tail(queue[s])] /\ rel.output = Append(out, f)
  BY DEF Charged
<1>2. /\ queue \in [Streams -> Seq(Queued)] /\ out \in Seq(Queued) /\ f \in Queued
      /\ came \in [Streams -> Nat] /\ sent \in [Streams -> Nat]
  BY ChargedTypes, ZenonT(40) DEF LedgerType
<1>3. \A u \in Streams : InOrder(out, queue[u], came[u], sent[u], u)
  <2>1. H2Inv
    BY DEF Charged
  <2> QED BY <1>1, <2>1, SMTT(30) DEF H2Inv, StreamOrder
<1>4. ledger'[r].queued = came /\ ledger'[r].sent = sent
  BY ChargedLedger, SMTT(30)
<1> HIDE DEF out, queue, came, sent
<1>5. InOrder(Append(out, f), Tail(queue[s]), came[s], sent[s], s) /\ f.s = s
  <2>1. queue[s] \in Seq(Queued) /\ came[s] \in Nat /\ sent[s] \in Nat
        /\ InOrder(out, queue[s], came[s], sent[s], s)
    BY <1>1, <1>2, <1>3, SMTT(30)
  <2> QED BY <1>1, <1>2, <2>1, OrderEmit, SMTT(30)
<1>6. CASE t = s
  BY <1>1, <1>2, <1>4, <1>5, <1>6, SMTT(30)
<1>7. CASE t # s
  <2>1. queue[t] \in Seq(Queued) /\ came[t] \in Nat /\ sent[t] \in Nat /\ f.s # t
        /\ InOrder(out, queue[t], came[t], sent[t], t)
    BY <1>2, <1>3, <1>5, <1>7, SMTT(30)
  <2>2. InOrder(Append(out, f), queue[t], came[t], sent[t], t)
    BY <1>2, <2>1, OrderOther
  <2> QED BY <1>1, <1>2, <1>4, <1>7, <2>2, SMTT(30)
<1> QED BY <1>6, <1>7, SMTT(30)

(* emitEligibleFrames: a frame goes to output and the windows are charged. *)
LEMMA EmitInv ==
  ASSUME H2Inv, NEW d \in Dirs, Emit(d)
  PROVE  H2Inv'
<1>1. PICK r : r = Next1(d).r
  OBVIOUS
<1>2. PICK s : s = Head(reader[d].emit)
  OBVIOUS
<1> DEFINE rl == relay[r]
           queue == rl.queue[s]
           f == queue[1]
           out == Append(rl.output, f)
           conn == rl.conn - f.len
           win == [rl.win EXCEPT ![s] = rl.win[s] - f.len]
           queues == [rl.queue EXCEPT ![s] = Remove(queue, 1)]
           rel == [rl EXCEPT !.output = out, !.conn = conn, !.win = win, !.queue = queues]
<1>3. /\ reader[d].emit # <<>> /\ writer' = writer
      /\ Continue(d, r, rel, reader[d].emit)
      /\ ledger' = [ledger EXCEPT ![r].used =
           [ledger[r].used EXCEPT ![s] = @ + f.len, ![0] = @ + f.len]]
  BY <1>1, <1>2, ZenonT(30) DEF Emit, EmitNth
<1>4. /\ reader[d].pc = "select" /\ reader[d].todo # <<>> /\ Next1(d).op \in Locking
      /\ relay[r].flowMu = d /\ Fits(relay[r], s)
  BY <1>1, <1>2, <1>3, Zenon DEF H2Inv, Locks
<1>5. r \in Dirs
  BY <1>1, <1>3, EmitsIn, Zenon
<1>6. rl \in RelayType /\ reader[d] \in ReaderType(d)
  BY <1>5 DEF H2Inv, H2TypeOK
<1>7. /\ rl.queue \in [Streams -> Seq(Queued)] /\ rl.output \in Seq(Queued)
      /\ rl.conn \in Int /\ rl.win \in [Streams \cup {0} -> Int]
      /\ reader[d].emit \in Seq(Streams \cup {0})
  BY <1>6, Zenon DEF RelayType, ReaderType
<1>8. s \in Streams /\ queue # <<>> /\ Head(queue).len <= rl.conn
  BY <1>4 DEF Fits
<1> HIDE DEF rl
<1>9. queue \in Seq(Queued)
  BY <1>7, <1>8
<1>10. f = Head(queue) /\ f \in Queued /\ Remove(queue, 1) = Tail(queue)
       /\ Tail(queue) \in Seq(Queued)
  <2> HIDE DEF queue
  <2> QED BY <1>8, <1>9, HeadTailProperties, RemoveFirst
<1> HIDE DEF queue, f
<1>11. f.len \in Nat
  BY <1>10 DEF Queued
<1>12. /\ out \in Seq(Queued) /\ conn \in Int /\ win \in [Streams \cup {0} -> Int]
       /\ queues \in [Streams -> Seq(Queued)]
  <2>1. out \in Seq(Queued)
    BY <1>7, <1>10, AppendProperties
  <2>2. conn \in Int /\ win \in [Streams \cup {0} -> Int]
    BY <1>7, <1>8, <1>11
  <2>3. queues \in [Streams -> Seq(Queued)]
    BY <1>7, <1>8, <1>10, Zenon
  <2> QED BY <2>1, <2>2, <2>3
<1> HIDE DEF out, conn, win, queues
<1>13. /\ rel \in RelayType /\ rel.init = rl.init /\ rel.conn = conn /\ rel.win = win
       /\ rel.queue = queues /\ rel.output = out
  BY <1>6, <1>12, Zenon DEF RelayType, rl
<1> HIDE DEF rel
<1>14. Charged(d, r, s, f, rel)
  <2>1. /\ rel.conn = relay[r].conn - f.len
        /\ rel.win = [relay[r].win EXCEPT ![s] = relay[r].win[s] - f.len]
        /\ rel.queue = [relay[r].queue EXCEPT ![s] = Tail(relay[r].queue[s])]
        /\ rel.output = Append(relay[r].output, f) /\ rel.init = relay[r].init
    BY <1>10, <1>13, Zenon DEF conn, win, queues, out, queue, rl
  <2>2. relay[r].queue[s] # <<>> /\ f = Head(relay[r].queue[s]) /\ f.len <= relay[r].conn
    BY <1>8, <1>10, SMTT(30) DEF queue, rl
  <2> QED BY <1>1, <1>2, <1>3, <1>4, <1>5, <1>8, <1>13, <2>1, <2>2, Zenon DEF Charged
<1>15. /\ rel.conn >= 0
       /\ rel.conn = ledger'[r].granted[0] - ledger'[r].used[0] - ConnOwed(r)
       /\ \A t \in Streams : rel.win[t] = ledger'[r].granted[t] - ledger'[r].used[t]
                                            - (IF r = d THEN StreamOwed(r, t) ELSE 0)
  BY <1>14, ChargedBooks, SMTT(30)
<1>16. ledger' \in [Dirs -> LedgerType] /\ ledger'[Peer(r)] = ledger[Peer(r)]
  BY <1>14, ChargedLedger
<1>17. \A t \in Streams : Fits(rel, t) =>
         (\E i \in DOMAIN reader[d].emit : reader[d].emit[i] = t) \/ FlushLater(d, r)
  BY <1>14, ChargedWalk, SMTT(30)
<1>18. \A t \in Streams : writer[r].pc = "run" =>
         InOrder(rel.output, rel.queue[t], ledger'[r].queued[t], ledger'[r].sent[t], t)
  BY <1>14, ChargedOrder, SMTT(30)
<1>19. rel.init = relay[r].init /\ relay[r].flowMu \in {"free", d}
  BY <1>4, <1>13 DEF rl
<1>20. GoesOn(d, r, rel, reader[d].emit)
  BY <1>1, <1>3, <1>4, <1>15, <1>16, <1>17, <1>18, <1>19, Zenon DEF GoesOn
<1> QED BY <1>5, <1>7, <1>13, <1>20, ContinueInv

(* No step of Config.Proxy, of a reader or of a writer breaks the books.   *)
LEMMA H2NextInv == H2Inv /\ [H2Next]_h2Vars => H2Inv'
<1> SUFFICES ASSUME H2Inv, [H2Next]_h2Vars PROVE H2Inv'
  OBVIOUS
<1>1. ASSUME UNCHANGED <<relay, reader, writer, ledger>> PROVE H2Inv'
  <2>1. relay' = relay /\ reader' = reader /\ writer' = writer /\ ledger' = ledger
    BY <1>1
  <2>2. H2TypeOK' /\ Left' /\ \A d \in Dirs : Ordered(reader'[d].todo)
    BY <2>1, SMTT(30) DEF H2Inv, H2TypeOK, Left
  <2>3. Locks'
    BY <2>1, SMTT(30) DEF H2Inv, Locks, Next1
  <2>4. Books'
    BY <2>1, SMTT(30) DEF H2Inv, Books, ConnOwed, StreamOwed
  <2>5. Woken'
    BY <2>1 DEF H2Inv, Woken, FlushAhead, Walked
  <2>6. StreamOrder'
    BY <2>1 DEF H2Inv, StreamOrder
  <2> QED BY <2>2, <2>3, <2>4, <2>5, <2>6 DEF H2Inv
<1>2. CASE ProxyStep \/ CloseClosing \/ H2Over \/ UNCHANGED h2Vars
  BY <1>1, <1>2 DEF ProxyStep, Dial, ForwardPreface, ProxyReturn, CloseClosing, H2Over, h2Vars
<1>3. ASSUME NEW d \in Dirs, NEW f \in FramesOf[d], ReadFrame(d, f) PROVE H2Inv'
  BY <1>3, H2Assumption, ReadFrameInv
<1>4. ASSUME NEW d \in Dirs, Reset(d) PROVE H2Inv'
  BY <1>1, <1>4 DEF Reset
<1>5. ASSUME NEW d \in Dirs, SelectEnds(d, "read") PROVE H2Inv'
  BY <1>5, OwnStepInv
<1>6. ASSUME NEW d \in Dirs, ReaderStep(d) PROVE H2Inv'
  <2>1. CASE Forward(d) \/ ReaderDone(d) \/ SelectEnds(d, "writerErr") \/ SelectEnds(d, "closing")
    BY <2>1, OwnStepInv
  <2> QED BY <1>6, <2>1, SplitDataInv, AdjustInv, LockFlowInv, EmitInv, SMTT(30) DEF ReaderStep
<1>7. ASSUME NEW d \in Dirs, WriterTake(d) PROVE H2Inv'
  BY <1>7, WriterTakeInv
<1>8. ASSUME NEW d \in Dirs, Stall(d) PROVE H2Inv'
  BY <1>1, <1>8 DEF Stall
<1>9. ASSUME NEW d \in Dirs, WriterFreed(d) PROVE H2Inv'
  BY <1>9, WriterFreedInv
<1> QED BY <1>2, <1>3, <1>4, <1>5, <1>6, <1>7, <1>8, <1>9 DEF H2Next

(* The inductive invariant of the two relays.                              *)
THEOREM H2Invariant == H2Spec => []H2Inv
  BY H2InitInv, H2NextInv, PTL DEF H2Spec

(* Each stream's frames leave in the order they came, none lost or doubled, *)
(* whatever the windows of it and of the other streams do (outputBuffer,   *)
(* emitEligibleFrames).                                                    *)
THEOREM H2StreamOrder == H2Spec => []StreamOrder
<1>1. H2Inv => StreamOrder
  BY DEF H2Inv
<1> QED BY <1>1, H2Invariant, PTL

(* The windows are what was granted less what was released, but for what   *)
(* the reader of the other relay is about to add (emitEligibleFrames,      *)
(* updateWindow, updateInitialWindowSize).                                 *)
THEOREM H2FlowExact == H2Spec => []FlowExact
<1>1. ASSUME H2Inv PROVE FlowExact
  <2> SUFFICES ASSUME NEW r \in Dirs
               PROVE  /\ relay[r].conn >= 0
                      /\ ~Unapplied(r, {"connection"}) =>
                           relay[r].conn = ledger[r].granted[0] - ledger[r].used[0]
                      /\ \A s \in Streams :
                           (reader[Peer(r)].emit # <<>> \/ ~Unapplied(r, {"window", "initial"})) =>
                             relay[r].win[s] = ledger[r].granted[s] - ledger[r].used[s]
    BY DEF FlowExact
  <2> DEFINE todo == reader[Peer(r)].todo
  <2>1. todo \in Seq(Work(Peer(r)))
    BY <1>1, Peers DEF H2Inv, H2TypeOK, ReaderType
  <2>2. todo # <<>> => 1 \in DOMAIN todo /\ Head(todo) = todo[1]
    <3> HIDE DEF todo
    <3> QED BY <2>1, HeadTailProperties, LenProperties, EmptySeq
  <2>3. ledger[r].granted \in [Streams \cup {0} -> Int] /\ ledger[r].used \in [Streams \cup {0} -> Int]
    BY <1>1, Zenon DEF H2Inv, H2TypeOK, LedgerType
  <2>4. ~Unapplied(r, {"connection"}) => ConnOwed(r) = 0
    BY <2>2 DEF Unapplied, ConnOwed
  <2>5. \A s \in Streams :
          (reader[Peer(r)].emit # <<>> \/ ~Unapplied(r, {"window", "initial"})) =>
            StreamOwed(r, s) = 0
    BY <2>2 DEF Unapplied, StreamOwed
  <2>6. /\ relay[r].conn >= 0
        /\ relay[r].conn = ledger[r].granted[0] - ledger[r].used[0] - ConnOwed(r)
        /\ \A s \in Streams :
             relay[r].win[s] = ledger[r].granted[s] - ledger[r].used[s] - StreamOwed(r, s)
    BY <1>1 DEF H2Inv, Books
  <2>7. \A x, y \in Int : x - y - 0 = x - y
    BY SMTT(30)
  <2> QED BY <2>3, <2>4, <2>5, <2>6, <2>7, SMTT(30)
<1> QED BY <1>1, H2Invariant, PTL

(* When no one holds flowMu and no walk of the buffers is pending, no      *)
(* queued frame fits under its windows: none waits for a wake-up that has  *)
(* passed (updateWindow, sendQueuedFramesUnderWindowSize, enqueueFrame).   *)
THEOREM H2NoLostWakeup == H2Spec => []NoLostWakeup
<1>1. H2Inv => NoLostWakeup
  BY DEF H2Inv, NoLostWakeup, Woken, FlushAhead, Walked, Unapplied
<1> QED BY <1>1, H2Invariant, PTL

=============================================================================
