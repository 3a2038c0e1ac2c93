------------------------------ MODULE H2Relay ------------------------------
(***************************************************************************)
(* Config.Proxy and the two relays of an intercepted HTTP/2 connection     *)
(* (internal/martian/h2/h2.go, relay.go, queued_frames.go, processor.go).  *)
(*                                                                         *)
(* Relay d reads frames from one endpoint and writes them to the other.    *)
(* Its reader queues the frames of a stream under flowMu, and moves those  *)
(* that fit under the stream's and the connection's window into the        *)
(* bounded channel output; its writer takes them from there.  The windows  *)
(* of d are raised by the reader of the other relay, Peer(d), because the  *)
(* WINDOW_UPDATE and SETTINGS of d's destination arrive there.  The        *)
(* readers are the only holders of flowMu, and one that holds it may wait  *)
(* for room in output.                                                     *)
(*                                                                         *)
(* A buffer of a stream is made on first use with the initial window of    *)
(* that moment, and from then on follows its changes: the model has all    *)
(* the buffers from the start, which gives them the same windows.          *)
(***************************************************************************)
EXTENDS Integers, Sequences, FiniteSets

CONSTANTS Streams,      \* stream identifiers, 0 (the connection) excluded
          OutputSize,   \* outputChannelSize
          Window0,      \* defaultInitialWindowSize
          MaxFrame0,    \* initialMaxFrameSize
          FramesOf,     \* the frames an endpoint may send, for each relay
          MaxRead       \* bound: frames read from each endpoint

Dirs == {"cToS", "sToC"}

(* The frames that http2.Framer lets through; a SETTINGS_MAX_FRAME_SIZE of *)
(* the protocol is not 0.                                                  *)
Frames ==
  [type : {"DATA"}, s : Streams, len : Nat, end : BOOLEAN]
    \cup [type : {"HEADERS", "PUSH_PROMISE"}, s : Streams, end : BOOLEAN, ended : BOOLEAN]
    \cup [type : {"CONTINUATION"}, s : Streams, ended : BOOLEAN]
    \cup [type : {"PRIORITY", "RST_STREAM"}, s : Streams]
    \cup [type : {"WINDOW_UPDATE"}, s : Streams \cup {0}, inc : Nat]
    \cup [type : {"INITIAL_WINDOW_SIZE"}, val : Nat]
    \cup [type : {"MAX_FRAME_SIZE"}, val : Nat \ {0}]
    \cup [type : {"PING", "GOAWAY", "SETTINGS_ACK"}]

ASSUME H2Assumption ==
  /\ 0 \notin Streams /\ IsFiniteSet(Streams)
  /\ OutputSize \in Nat \ {0} /\ Window0 \in Nat /\ MaxFrame0 \in Nat \ {0}
  /\ FramesOf \in [Dirs -> SUBSET Frames] /\ MaxRead \in [Dirs -> Nat]

Peer(d) == IF d = "cToS" THEN "sToC" ELSE "cToS"

VARIABLES phase,    \* of Config.Proxy: "dial", "preface", "relay", "returned"
          closing,  \* the proxy's closing channel is closed
          broken,   \* destinations whose connection was reset
          stalled,  \* destinations that have stopped reading, for good
          relay,    \* flowMu and what it guards, output, maxFrameSize
          reader,   \* relayFrames' own goroutine
          writer,   \* the goroutine that empties output
          ledger    \* history: what was granted, queued and sent

h2Vars == <<phase, closing, broken, stalled, relay, reader, writer, ledger>>

H2Init ==
  /\ phase = "dial" /\ closing = FALSE /\ broken = {} /\ stalled = {}
  /\ relay = [d \in Dirs |->
       [flowMu |-> "free", conn |-> Window0, init |-> Window0,
        win |-> [s \in Streams \cup {0} |-> Window0],
        queue |-> [s \in Streams |-> <<>>], output |-> <<>>, max |-> MaxFrame0]]
  /\ reader = [d \in Dirs |->
       [pc |-> "select", todo |-> <<>>, emit |-> <<>>, cont |-> <<>>,
        read |-> 0, ended |-> {}]]
  /\ writer = [d \in Dirs |-> [pc |-> "run", err |-> FALSE]]
  /\ ledger = [d \in Dirs |->
       [granted |-> [s \in Streams \cup {0} |-> Window0],
        used |-> [s \in Streams \cup {0} |-> 0],
        queued |-> [s \in Streams |-> 0], sent |-> [s \in Streams |-> 0]]]

-----------------------------------------------------------------------------
(* tls.Dial, then forwardPreface: one Read of the client's preface.        *)
Dial ==
  /\ phase = "dial"
  /\ phase' \in {"preface", "returned"}
  /\ UNCHANGED <<closing, broken, stalled, relay, reader, writer, ledger>>

ForwardPreface ==
  /\ phase = "preface"
  /\ phase' \in {"relay", "returned"}
  /\ UNCHANGED <<closing, broken, stalled, relay, reader, writer, ledger>>

(* wg.Wait()                                                               *)
ProxyReturn ==
  /\ phase = "relay"
  /\ \A d \in Dirs : reader[d].pc = "returned"
  /\ phase' = "returned"
  /\ UNCHANGED <<closing, broken, stalled, relay, reader, writer, ledger>>

CloseClosing ==
  /\ phase = "relay" /\ ~closing
  /\ closing' = TRUE
  /\ UNCHANGED <<phase, broken, stalled, relay, reader, writer, ledger>>

(* One of the connections is reset: writes to it fail, and so do the reads *)
(* of the other relay.  Here and in Stall one endpoint is in trouble, a    *)
(* bound of the model.                                                     *)
Reset(d) ==
  /\ phase = "relay" /\ broken = {} /\ stalled \subseteq {d}
  /\ broken' = {d}
  /\ UNCHANGED <<phase, closing, stalled, relay, reader, writer, ledger>>

(* A write to the destination of d, under destMu, comes back.              *)
WriteReturns(d) == d \in broken \/ d \notin stalled

-----------------------------------------------------------------------------
(* A frame to be queued that flow control does not count: HEADERS,         *)
(* PUSH_PROMISE, PRIORITY, RST_STREAM.                                     *)
Unmetered(d, f, end) == [op |-> "enqueue", r |-> d, s |-> f.s, len |-> 0, end |-> end]

(* The work that processFrame does for a frame of d, in order.  A step of  *)
(* it is a call that takes a lock: r is the relay it acts on.              *)
FrameWork(d, f) ==
  CASE f.type = "DATA" ->
         <<[op |-> "data", s |-> f.s, len |-> f.len, end |-> f.end]>>
    [] f.type \in {"HEADERS", "PUSH_PROMISE"} ->
         IF f.ended THEN <<Unmetered(d, f, f.end)>> ELSE <<>>
    [] f.type = "CONTINUATION" ->
         IF f.ended THEN <<Unmetered(d, f, reader[d].cont[1] = "HEADERS")>> ELSE <<>>
    [] f.type \in {"PRIORITY", "RST_STREAM"} -> <<Unmetered(d, f, FALSE)>>
    [] f.type = "WINDOW_UPDATE" ->
         LET window == [op |-> "window", r |-> Peer(d), s |-> f.s, inc |-> f.inc]
         IN IF f.s = 0
            THEN <<[op |-> "connection", r |-> Peer(d), inc |-> f.inc],
                   [op |-> "flush", r |-> Peer(d)], window>>
            ELSE <<window>>
    [] f.type = "INITIAL_WINDOW_SIZE" ->
         <<[op |-> "initial", r |-> Peer(d), val |-> f.val],
           [op |-> "flush", r |-> Peer(d)], [op |-> "forward"]>>
    [] f.type = "MAX_FRAME_SIZE" ->
         <<[op |-> "max", r |-> Peer(d), val |-> f.val], [op |-> "forward"]>>
    [] f.type \in {"PING", "GOAWAY", "SETTINGS_ACK"} -> <<[op |-> "forward"]>>

(* What the endpoint may send next: no CONTINUATION unless a header block  *)
(* is open, nothing else while it is, and no DATA or HEADERS on a stream   *)
(* it has ended (http2.Framer and the peer's stream states enforce this).  *)
MaySend(d, f) ==
  /\ IF reader[d].cont = <<>> THEN f.type # "CONTINUATION"
     ELSE f.type = "CONTINUATION" /\ f.s = reader[d].cont[2]
  /\ f.type \in {"DATA", "HEADERS", "PUSH_PROMISE"} => f.s \notin reader[d].ended

Ends(f) == f.type = "RST_STREAM" \/ (f.type \in {"DATA", "HEADERS"} /\ f.end)

(* What a frame of d grants to the relay that sends to d's source.         *)
Grant(d, f) ==
  LET l == ledger[Peer(d)] IN
  CASE f.type = "WINDOW_UPDATE" -> [l EXCEPT !.granted = [l.granted EXCEPT ![f.s] = @ + f.inc]]
    [] f.type = "INITIAL_WINDOW_SIZE" ->
         [l EXCEPT !.granted = [s \in Streams \cup {0} |->
            IF s = 0 THEN l.granted[0]
                     ELSE l.granted[s] + f.val - relay[Peer(d)].init]]
    [] OTHER -> l

(* The header block that is open after frame f of d.                       *)
OpenBlock(d, f) ==
  CASE f.type \in {"HEADERS", "PUSH_PROMISE"} /\ ~f.ended -> <<f.type, f.s>>
    [] f.type = "CONTINUATION" /\ ~f.ended -> reader[d].cont
    [] OTHER -> <<>>

(* case <-frameReady: a frame was read, processFrame begins.               *)
ReadFrame(d, f) ==
  /\ phase = "relay"
  /\ reader[d].pc = "select" /\ reader[d].todo = <<>>
  /\ Peer(d) \notin broken
  /\ reader[d].read < MaxRead[d]
  /\ MaySend(d, f)
  /\ reader' = [reader EXCEPT ![d] =
       [reader[d] EXCEPT !.read = @ + 1,
                         !.todo = FrameWork(d, f),
                         !.cont = OpenBlock(d, f),
                         !.ended = IF Ends(f) THEN @ \cup {f.s} ELSE @]]
  /\ ledger' = [ledger EXCEPT ![Peer(d)] = Grant(d, f)]
  /\ UNCHANGED <<phase, closing, broken, stalled, relay, writer>>

(* The other ways out of the select: the end of the source or a read       *)
(* error, an error of the writer, closing.                                 *)
SelectEnds(d, why) ==
  /\ phase = "relay"
  /\ reader[d].pc = "select" /\ reader[d].todo = <<>>
  /\ \/ why = "read"
     \/ why = "writerErr" /\ writer[d].err
     \/ why = "closing" /\ closing
  /\ reader' = [reader EXCEPT ![d].pc = "done"]
  /\ writer' = [writer EXCEPT ![d].err = @ /\ why # "writerErr"]
  /\ UNCHANGED <<phase, closing, broken, stalled, relay, ledger>>

Next1(d) == Head(reader[d].todo)
HasWork(d, ops) ==
  reader[d].pc = "select" /\ reader[d].todo # <<>> /\ reader[d].emit = <<>>
    /\ Next1(d).op \in ops
Done1(d) == [reader EXCEPT ![d].todo = Tail(@)]

Fail(d) == [reader EXCEPT ![d].pc = "done", ![d].todo = <<>>]

(* A frame forwarded outside the queues.  An error ends the relay.         *)
Forward(d) ==
  /\ HasWork(d, {"forward"}) /\ WriteReturns(d)
  /\ reader' = IF d \in broken THEN Fail(d) ELSE Done1(d)
  /\ UNCHANGED <<phase, closing, broken, stalled, relay, writer, ledger>>

(* DATA: sendWindowUpdates of the peer relay, to the source of d, unless   *)
(* the payload is empty; then relay.data reads maxFrameSize once and cuts  *)
(* the payload.                                                            *)
SplitData(d) ==
  /\ HasWork(d, {"data"})
  /\ Next1(d).len > 0 => WriteReturns(Peer(d))
  /\ LET o == Next1(d)
         max == relay[d].max
         n == IF o.len = 0 THEN 1 ELSE (o.len + max - 1) \div max
         piece(i) == [op |-> "enqueue", r |-> d, s |-> o.s, end |-> o.end /\ i = n,
                      len |-> IF i < n THEN max ELSE o.len - (n - 1) * max]
     IN reader' = IF o.len > 0 /\ Peer(d) \in broken THEN Fail(d)
                  ELSE [reader EXCEPT ![d].todo =
                          [i \in 1..n |-> piece(i)] \o Tail(@)]
  /\ UNCHANGED <<phase, closing, broken, stalled, relay, writer, ledger>>

(* Critical sections that only change a window or a limit.                 *)
Adjust(d) ==
  /\ HasWork(d, {"connection", "initial", "max"})
  /\ LET o == Next1(d)
         rel == relay[o.r]
     IN /\ o.op = "max" \/ rel.flowMu = "free"
        /\ relay' = [relay EXCEPT ![o.r] =
             CASE o.op = "connection" -> [rel EXCEPT !.conn = @ + o.inc]
               [] o.op = "max" -> [rel EXCEPT !.max = o.val]
               [] o.op = "initial" ->
                    [rel EXCEPT !.init = o.val,
                                !.win = [s \in DOMAIN @ |-> @[s] + o.val - rel.init]]]
  /\ reader' = Done1(d)
  /\ UNCHANGED <<phase, closing, broken, stalled, writer, ledger>>

(* Mutant: the walk ends after one buffer.                                 *)
OrdersFirst == {<<s>> : s \in Streams}

(* The orders in which a walk of the map outputBuffers may go.             *)
Orders == {q \in [1..Cardinality(Streams) -> Streams] :
             \A i, j \in DOMAIN q : q[i] = q[j] => i = j}

(* Mutant: only the stream's window is looked at.                          *)
FitsStream(rel, s) ==
  /\ s \in Streams /\ rel.queue[s] # <<>>
  /\ Head(rel.queue[s]).len <= rel.win[s]

(* The front of the queue fits under both windows.                         *)
Fits(rel, s) ==
  /\ s \in Streams /\ rel.queue[s] # <<>>
  /\ LET len == Head(rel.queue[s]).len IN len <= rel.conn /\ len <= rel.win[s]

(* Where a walk over the buffers q stops: at the next frame to emit.       *)
Walk(rel, q) ==
  LET at == {i \in DOMAIN q : Fits(rel, q[i])}
  IN IF at = {} THEN <<>>
     ELSE SubSeq(q, CHOOSE i \in at : \A j \in at : i <= j, Len(q))

(* Reader d goes on with the walk q in relay r, now rel: it holds flowMu   *)
(* while there is a frame to emit, and unlocks when there is none.         *)
Continue(d, r, rel, q) ==
  LET rest == Walk(rel, q) IN
  /\ relay' = [relay EXCEPT ![r] =
       [rel EXCEPT !.flowMu = IF rest = <<>> THEN "free" ELSE d]]
  /\ reader' = [reader EXCEPT ![d] =
       [reader[d] EXCEPT !.emit = rest, !.todo = IF rest = <<>> THEN Tail(@) ELSE @]]

(* flowMu.Lock() and what precedes emitEligibleFrames: enqueueFrame and    *)
(* data, updateWindow, sendQueuedFramesUnderWindowSize (whose map is       *)
(* walked in any order).                                                   *)
LockFlow(d) ==
  /\ HasWork(d, {"enqueue", "window", "flush"})
  /\ LET o == Next1(d)
         r == o.r
         n == ledger[r].queued[o.s] + 1
         f == [s |-> o.s, len |-> o.len, end |-> o.end, n |-> n]
     IN /\ relay[r].flowMu = "free"
        /\ CASE o.op = "enqueue" ->
                  /\ Continue(d, r, [relay[r] EXCEPT !.queue[o.s] = Append(@, f)], <<o.s>>)
                  /\ ledger' = [ledger EXCEPT ![r].queued[o.s] = n]
             [] o.op = "window" ->
                  /\ Continue(d, r, [relay[r] EXCEPT !.win[o.s] = @ + o.inc], <<o.s>>)
                  /\ UNCHANGED ledger
             [] o.op = "flush" ->
                  /\ \E q \in Orders : Continue(d, r, relay[r], q)
                  /\ UNCHANGED ledger
  /\ UNCHANGED <<phase, closing, broken, stalled, writer>>

Remove(q, i) == SubSeq(q, 1, i - 1) \o SubSeq(q, i + 1, Len(q))

(* The i-th frame of the buffer being walked goes to output.               *)
EmitNth(d, i) ==
  LET r == Next1(d).r
      s == Head(reader[d].emit)
      f == relay[r].queue[s][i]
  IN /\ Len(relay[r].output) < OutputSize
     /\ Continue(d, r,
          [relay[r] EXCEPT !.output = Append(@, f), !.conn = @ - f.len,
                           !.win[s] = @ - f.len, !.queue[s] = Remove(@, i)],
          reader[d].emit)
     /\ ledger' = [ledger EXCEPT ![r].used =
          [ledger[r].used EXCEPT ![s] = @ + f.len, ![0] = @ + f.len]]
     /\ UNCHANGED <<phase, closing, broken, stalled, writer>>

(* Mutant: the latest frame of the stream first.                           *)
EmitLast(d) ==
  /\ reader[d].emit # <<>>
  /\ EmitNth(d, Len(relay[Next1(d).r].queue[Head(reader[d].emit)]))

(* emitEligibleFrames: output <- f, which waits for room with flowMu held, *)
(* then the windows are charged.                                           *)
Emit(d) == reader[d].emit # <<>> /\ EmitNth(d, 1)

-----------------------------------------------------------------------------
(* Mutant: the writer stops at its first error.                            *)
WriterTakeStops(d) ==
  /\ writer[d].pc = "run"
  /\ relay[d].output # <<>>
  /\ relay' = [relay EXCEPT ![d].output = Tail(@)]
  /\ \/ /\ d \notin broken \cup stalled
        /\ ledger' = [ledger EXCEPT ![d].sent[Head(relay[d].output).s] = @ + 1]
        /\ UNCHANGED writer
     \/ /\ d \in stalled \ broken
        /\ writer' = [writer EXCEPT ![d].pc = "stuck"]
        /\ UNCHANGED ledger
     \/ /\ d \in broken
        /\ writer' = [writer EXCEPT ![d] = [pc |-> "gone", err |-> TRUE]]
        /\ UNCHANGED ledger
  /\ UNCHANGED <<phase, closing, broken, stalled, reader>>

(* case f := <-r.output: it is sent, which may take for ever, or after a   *)
(* first error dropped.                                                    *)
WriterTake(d) ==
  /\ writer[d].pc \in {"run", "drain"}
  /\ relay[d].output # <<>>
  /\ relay' = [relay EXCEPT ![d].output = Tail(@)]
  /\ \/ /\ writer[d].pc = "run" /\ d \notin broken \cup stalled
        /\ ledger' = [ledger EXCEPT ![d].sent[Head(relay[d].output).s] = @ + 1]
        /\ UNCHANGED writer
     \/ /\ writer[d].pc = "run" /\ d \in stalled \ broken
        /\ writer' = [writer EXCEPT ![d].pc = "stuck"]
        /\ UNCHANGED ledger
     \/ /\ writer[d].pc = "drain" \/ d \in broken
        /\ writer' = [writer EXCEPT ![d] =
             [pc |-> "drain", err |-> @.err \/ @.pc = "run"]]
        /\ UNCHANGED ledger
  /\ UNCHANGED <<phase, closing, broken, stalled, reader>>

(* A reset ends the write that does not come back.                         *)
WriterFreed(d) ==
  /\ writer[d].pc = "stuck" /\ d \in broken
  /\ writer' = [writer EXCEPT ![d] = [pc |-> "drain", err |-> TRUE]]
  /\ UNCHANGED <<phase, closing, broken, stalled, relay, reader, ledger>>

(* The unbuffered readerDone: the writer may take it while output still    *)
(* holds frames.                                                           *)
ReaderDone(d) ==
  /\ reader[d].pc = "done"
  /\ writer[d].pc \in {"run", "drain"}
  /\ reader' = [reader EXCEPT ![d].pc = "returned"]
  /\ writer' = [writer EXCEPT ![d].pc = "gone"]
  /\ UNCHANGED <<phase, closing, broken, stalled, relay, ledger>>

(* A reader is at a write to the destination of d: that of d forwards a    *)
(* frame, or that of the other relay sends a WINDOW_UPDATE back.           *)
ReaderWrites(d) ==
  \/ HasWork(d, {"forward"})
  \/ HasWork(Peer(d), {"data"}) /\ Next1(Peer(d)).len > 0

(* The destination of d has stopped reading when it is written to; there   *)
(* is no deadline on a write.                                              *)
Stall(d) ==
  /\ phase = "relay" /\ stalled = {} /\ broken = {}
  /\ ReaderWrites(d) \/ (writer[d].pc = "run" /\ relay[d].output # <<>>)
  /\ stalled' = {d}
  /\ UNCHANGED <<phase, closing, broken, relay, reader, writer, ledger>>

H2Over ==
  /\ phase = "returned"
  /\ UNCHANGED h2Vars

ProxyStep == Dial \/ ForwardPreface \/ ProxyReturn

ReaderStep(d) ==
  \/ Forward(d) \/ SplitData(d) \/ Adjust(d) \/ LockFlow(d) \/ Emit(d)
  \/ SelectEnds(d, "writerErr") \/ SelectEnds(d, "closing") \/ ReaderDone(d)

H2Next ==
  \/ ProxyStep \/ CloseClosing \/ H2Over
  \/ \E d \in Dirs :
       \/ \E f \in FramesOf[d] : ReadFrame(d, f)
       \/ SelectEnds(d, "read") \/ Reset(d) \/ Stall(d)
       \/ ReaderStep(d) \/ WriterTake(d) \/ WriterFreed(d)

H2Spec == H2Init /\ [][H2Next]_h2Vars

(* Goroutines run: a reader with work to do, or with a ready case other    *)
(* than a frame in its select, goes on; so does a writer.  Nothing is      *)
(* assumed of the endpoints: an endpoint that does not stop reading takes  *)
(* what is written to it, but it may stop at any time, and then a write to *)
(* it comes back only when the connection is reset.                        *)
H2Fairness ==
  /\ WF_h2Vars(ProxyStep)
  /\ \A d \in Dirs : WF_h2Vars(ReaderStep(d)) /\ WF_h2Vars(WriterTake(d) \/ WriterFreed(d))

H2FairSpec == H2Spec /\ H2Fairness

-----------------------------------------------------------------------------
(* Of the frames of stream s that came, in their order, the first were     *)
(* sent, the next are in out, oldest first, and the last in queue.         *)
InOrder(out, queue, came, sent, s) ==
  LET released == came - Len(queue) IN
  /\ sent <= released
  /\ \A i \in DOMAIN queue : queue[i].s = s /\ queue[i].n = released + i
  /\ {out[i].n : i \in {j \in DOMAIN out : out[j].s = s}} = sent + 1 .. released
  /\ \A i, j \in DOMAIN out :
       i < j /\ out[i].s = s /\ out[j].s = s => out[i].n < out[j].n

(* Frames of one stream leave in the order they came, none is lost or      *)
(* doubled, whatever the windows do to them and to the other streams       *)
(* (relay.go, outputBuffer; queued_frames.go asks for this order).  A      *)
(* relay that has failed or ended drops what it holds.                     *)
StreamOrder ==
  \A d \in Dirs, s \in Streams :
    writer[d].pc = "run" =>
      InOrder(relay[d].output, relay[d].queue[s], ledger[d].queued[s], ledger[d].sent[s], s)

Unapplied(r, ops) ==
  \E i \in DOMAIN reader[Peer(r)].todo : reader[Peer(r)].todo[i].op \in ops

(* The windows are the books of flow control: but for a change that the    *)
(* other relay's reader is about to apply, a window is what the receiver   *)
(* has granted less what was released to it, and the connection's window   *)
(* is never overdrawn (emitEligibleFrames, updateWindow,                   *)
(* updateInitialWindowSize, which run in two goroutines).                  *)
FlowExact ==
  \A r \in Dirs :
    /\ relay[r].conn >= 0
    /\ ~Unapplied(r, {"connection"}) =>
         relay[r].conn = ledger[r].granted[0] - ledger[r].used[0]
    /\ \A s \in Streams :
         (reader[Peer(r)].emit # <<>> \/ ~Unapplied(r, {"window", "initial"})) =>
           relay[r].win[s] = ledger[r].granted[s] - ledger[r].used[s]

(* No wake-up is lost: when flowMu is free and no walk of the buffers is   *)
(* pending, no queued frame fits under its windows (every change of a      *)
(* window is followed by emitEligibleFrames, in updateWindow,              *)
(* updateInitialWindowSize and enqueueFrame).                              *)
NoLostWakeup ==
  \A r \in Dirs :
    (relay[r].flowMu = "free" /\ ~Unapplied(r, {"flush", "window"})) =>
      \A s \in Streams : ~Fits(relay[r], s)

(* Once the proxy is closing, Config.Proxy returns, as long as both        *)
(* endpoints read.  relayFrames says how its writer is kept so that no     *)
(* reader waits for ever on output; output is also filled by the reader of *)
(* the other relay.                                                        *)
ClosingReturns ==
  (closing /\ phase = "relay") ~> (phase = "returned" \/ stalled # {})

(* The reader of the other relay emits into an output no one empties.      *)
Orphaned(d) ==
  /\ reader[d].pc = "returned"
  /\ reader[Peer(d)].emit # <<>> /\ Next1(Peer(d)).r = d

(* A write to the destination of d, which has stopped reading, is waited   *)
(* for.                                                                    *)
Blocked(d) == ~WriteReturns(d) /\ (writer[d].pc = "stuck" \/ ReaderWrites(d))

(* A closing proxy returns unless one of two things keeps it: a relay that *)
(* ended while the other one's reader still releases its frames, or a      *)
(* write to an endpoint that no longer reads, which has no deadline and is *)
(* not given up on closing.  A write error, a reset, a full output and an  *)
(* endpoint that is silent do not (relayFrames).                           *)
ReturnsUnlessBlocked ==
  (closing /\ phase = "relay")
    ~> (phase = "returned" \/ \E d \in Dirs : Orphaned(d) \/ Blocked(d))
=============================================================================
