---------------------------- MODULE StreamProofs ----------------------------
(* What the parts of the proxy that carry a connection's bytes promise,    *)
(* for any number of chunks, callers and files: the CONNECT to an upstream *)
(* proxy, the tunnel, the log that is written meanwhile, and the PROXY     *)
(* header in front of a client's bytes.                                    *)
EXTENDS DialVia, Tunnel, RotatableFile, ProxyProtoConn, ProxyHeader, SequenceTheorems, TLAPS

-----------------------------------------------------------------------------
(* Where the caller is decides whether the connection is open, and an      *)
(* answer that has come is whole.                                          *)
DialInv ==
  /\ DialTypeOK
  /\ read <= AnswerLen
  /\ resCh \/ dpc = "ok" => read = AnswerLen
  /\ dpc = "dial" => conn = "none"
  /\ dpc \in {"write", "select", "ok"} => conn = "open"
  /\ dpc = "err" => conn # "open"

LEMMA DialInvNext == DialInv /\ [DialNext]_dialVars => DialInv'
<1> SUFFICES ASSUME DialInv, [DialNext]_dialVars PROVE DialInv'
  OBVIOUS
<1> USE DialViaAssumption DEF DialInv, DialTypeOK
<1>1. CASE Dialed \/ DialFailed
  BY <1>1 DEF Dialed, DialFailed
<1>2. CASE WriteDone \/ WriteFailed
  BY <1>2 DEF WriteDone, WriteFailed
<1>3. CASE SelectCtx
  BY <1>3 DEF SelectCtx
<1>4. CASE SelectErr
  BY <1>4, Zenon DEF SelectErr
<1>5. CASE SelectRes
  BY <1>5, Zenon DEF SelectRes
<1>6. CASE ReadChunk
  BY <1>6 DEF ReadChunk
<1>7. CASE ReaderDone
  BY <1>7 DEF ReaderDone
<1>8. CASE ReaderFailed
  BY <1>8 DEF ReaderFailed
<1>9. CASE CtxExpires
  BY <1>9 DEF CtxExpires
<1>12. CASE UpstreamEnds
  BY <1>12 DEF UpstreamEnds
<1>10. CASE UpstreamSends
  BY <1>10 DEF UpstreamSends
<1>11. CASE DialOver \/ UNCHANGED dialVars
  BY <1>11 DEF DialOver, dialVars
<1> QED
  BY <1>1, <1>2, <1>3, <1>4, <1>5, <1>6, <1>7, <1>8, <1>9, <1>10, <1>11, <1>12, Zenon
  DEF DialNext

(* HTTPProxyDialer.DialContextR leaves no connection open behind an error, *)
(* hands out none that is closed, and one it hands out has the whole       *)
(* answer read and nothing of what follows, however the answer is cut into *)
(* chunks.                                                                 *)
THEOREM DialConnHandedOver == DialSpec => []ConnHandedOver
<1>1. DialInit => DialInv
  <2>1. DialInit => up \in 0 .. MaxAnswer /\ read \in 0 .. MaxAnswer /\ read <= AnswerLen
    BY DialViaAssumption DEF DialInit
  <2>2. DialInit => ctxDone \in BOOLEAN /\ upEnds \in BOOLEAN /\ resCh \in BOOLEAN /\ errCh \in BOOLEAN
    BY Zenon DEF DialInit
  <2> QED BY <2>1, <2>2 DEF DialInit, DialInv, DialTypeOK
<1>2. DialInv => ConnHandedOver
  BY DEF DialInv, ConnHandedOver, ConnOwned, TunnelBytesLeft
<1> QED BY <1>1, <1>2, DialInvNext, PTL DEF DialSpec

-----------------------------------------------------------------------------
(* One direction of the tunnel, from its source s: the chunks its          *)
(* destination has got, those the copier holds and the one brw still has   *)
(* are, in this order, the ones taken off the connection (until the        *)
(* destination resets); a copier that has left has copied everything it    *)
(* took, and taken everything unless its deadline has passed.              *)
Buffered(s) == IF brw /\ s = "client" THEN 1 ELSE 0

Direction(s) ==
  /\ taken[s] <= sent[s] /\ Len(held[s]) <= taken[s]
  /\ \A i \in DOMAIN held[s] : held[s][i] = taken[s] - Len(held[s]) + i
  /\ \A i \in DOMAIN got[Other(s)] : got[Other(s)][i] = i
  /\ ~gone[Other(s)] => Len(got[Other(s)]) + Len(held[s]) + Buffered(s) = taken[s]
  /\ phase = "drain" => /\ tpc[s] = "copy" /\ held[s] = <<>> /\ taken[s] = Buffered(s)
                        /\ got[Other(s)] = <<>>
  /\ brw => phase = "drain"
  /\ tpc[s] # "copy" /\ ~gone[s] /\ ~gone[Other(s)] =>
       held[s] = <<>> /\ ((fin[s] /\ taken[s] = sent[s]) \/ ReadExpired(s))
  /\ eof[Other(s)] => tpc[s] = "done"

TunnelInv == TunnelTypeOK /\ \A s \in Sides : Direction(s)

LEMMA OtherSide ==
  /\ \A s \in Sides : Other(s) \in Sides /\ Other(s) # s /\ Other(Other(s)) = s
  /\ \A s, t \in Sides : t # s <=> t = Other(s)
  BY DEF Sides, Other

(* What a direction's state is typed as.                                   *)
LEMMA DirectionTypes ==
  ASSUME TunnelTypeOK, NEW s \in Sides
  PROVE  /\ sent[s] \in 0 .. MaxSent /\ taken[s] \in 0 .. MaxSent /\ MaxSent \in Nat
         /\ held[s] \in Seq(1 .. MaxSent) /\ got[s] \in Seq(1 .. MaxSent)
         /\ Len(held[s]) \in Nat /\ DOMAIN held[s] = 1 .. Len(held[s])
         /\ Len(got[s]) \in Nat /\ DOMAIN got[s] = 1 .. Len(got[s])
         /\ Buffered(s) \in 0 .. 1
  BY TunnelAssumption, LenProperties DEF TunnelTypeOK, Buffered

LEMMA TunnelInvInit == TunnelInit => TunnelInv
<1> SUFFICES ASSUME TunnelInit PROVE TunnelInv
  OBVIOUS
<1>1. \A s \in Sides : sent[s] = Buffered(s) /\ taken[s] = sent[s]
  BY DEF TunnelInit, Buffered
<1>2. Buffered("client") \in 0 .. 1 /\ Buffered("upstream") \in 0 .. 1
  BY DEF Buffered
<1>3. 0 \in 0 .. MaxSent /\ 1 \in 0 .. MaxSent
  BY TunnelAssumption
<1>4. sent \in [Sides -> 0 .. MaxSent] /\ taken \in [Sides -> 0 .. MaxSent]
  BY <1>3 DEF TunnelInit
<1>5. TunnelTypeOK
  BY <1>4 DEF TunnelInit, TunnelTypeOK
<1>6. ASSUME NEW s \in Sides PROVE Direction(s)
  <2>1. held[s] = <<>> /\ got[Other(s)] = <<>> /\ ~eof[Other(s)] /\ tpc[s] = "copy" /\ phase = "drain"
    BY OtherSide DEF TunnelInit
  <2>2. sent[s] = Buffered(s) /\ taken[s] = sent[s] /\ Buffered(s) \in 0 .. 1
    BY <1>1, <1>2 DEF Sides
  <2>3. Len(<<>>) = 0 /\ DOMAIN <<>> = {}
    OBVIOUS
  <2> QED BY <2>1, <2>2, <2>3 DEF Direction
<1> QED BY <1>5, <1>6 DEF TunnelInv

(* The two ends: what they send, or that they reset, leaves the copies.    *)
LEMMA EndsInv ==
  ASSUME TunnelInv, NEW s \in Sides,
         Send(s) \/ Fin(s) \/ Reset(s) \/ StopReading(s) \/ DeadlinePasses
  PROVE  TunnelInv'
<1>1. CASE Send(s)
  <2>1. TunnelTypeOK'
    BY <1>1, TunnelAssumption DEF TunnelInv, TunnelTypeOK, Send
  <2>2. ASSUME NEW t \in Sides PROVE Direction(t)'
    <3>1. /\ UNCHANGED <<fin, gone, taken, brw, held, got, eof, tpc, phase, stuck, shuts, deadline>>
          /\ sent'[t] = (IF t = s THEN sent[t] + 1 ELSE sent[t]) /\ ~fin[s]
          /\ sent[t] \in Nat /\ taken[t] \in Nat
      BY <1>1, TunnelAssumption DEF TunnelInv, TunnelTypeOK, Send
    <3>2. taken[t] <= sent[t]
      BY Zenon DEF TunnelInv, Direction
    <3>3. taken[t] <= sent'[t]
      BY <3>1, <3>2
    <3> QED BY <3>1, <3>3, Zenon DEF TunnelInv, Direction, Buffered, ReadExpired
  <2> QED BY <2>1, <2>2 DEF TunnelInv
<1>2. CASE Fin(s)
  <2>1. TunnelTypeOK'
    BY <1>2 DEF TunnelInv, TunnelTypeOK, Fin
  <2>2. ASSUME NEW t \in Sides PROVE Direction(t)'
    <3>1. UNCHANGED <<sent, gone, taken, brw, held, got, eof, tpc, phase, stuck, shuts, deadline>> /\ (fin[t] => fin'[t])
      BY <1>2 DEF TunnelInv, TunnelTypeOK, Fin
    <3> QED BY <3>1, ZenonT(40) DEF TunnelInv, Direction, Buffered, ReadExpired
  <2> QED BY <2>1, <2>2 DEF TunnelInv
<1>3. CASE Reset(s)
  <2>1. TunnelTypeOK'
    BY <1>3 DEF TunnelInv, TunnelTypeOK, Reset
  <2>2. ASSUME NEW t \in Sides PROVE Direction(t)'
    <3>1. /\ UNCHANGED <<sent, fin, taken, brw, held, got, eof, tpc, phase, shuts, deadline>>
          /\ \A r \in Sides : gone[r] => gone'[r]
      BY <1>3 DEF TunnelInv, TunnelTypeOK, Reset
    <3> QED BY <3>1, OtherSide, Zenon DEF TunnelInv, Direction, Buffered, ReadExpired
  <2> QED BY <2>1, <2>2 DEF TunnelInv
<1>4. CASE StopReading(s)
  <2>1. TunnelTypeOK'
    BY <1>4 DEF TunnelInv, TunnelTypeOK, StopReading
  <2>2. ASSUME NEW t \in Sides PROVE Direction(t)'
    <3>1. UNCHANGED <<sent, fin, gone, taken, brw, held, got, eof, tpc, phase, deadline>>
      BY <1>4 DEF StopReading
    <3> QED BY <3>1, Zenon DEF TunnelInv, Direction, Buffered, ReadExpired
  <2> QED BY <2>1, <2>2 DEF TunnelInv
<1>5. CASE DeadlinePasses
  <2>1. TunnelTypeOK'
    BY <1>5 DEF TunnelInv, TunnelTypeOK, DeadlinePasses
  <2>2. ASSUME NEW t \in Sides PROVE Direction(t)'
    <3>1. /\ UNCHANGED <<sent, fin, gone, taken, brw, held, got, eof, tpc, phase>>
          /\ ReadExpired(t) => ReadExpired(t)'
      BY <1>5 DEF DeadlinePasses, ReadExpired
    <3> QED BY <3>1, Zenon DEF TunnelInv, Direction, Buffered
  <2> QED BY <2>1, <2>2 DEF TunnelInv
<1> QED BY <1>1, <1>2, <1>3, <1>4, <1>5

LEMMA DrainInv ==
  ASSUME TunnelInv, DrainBuffer PROVE TunnelInv'
<1> DEFINE u == "upstream"
           q == IF brw THEN <<1>> ELSE <<>>
<1>1. /\ UNCHANGED <<sent, fin, gone, taken, held, eof, tpc, stuck, shuts, deadline>>
      /\ phase = "drain" /\ phase' = "copy" /\ brw' = FALSE
      /\ got' = [got EXCEPT ![u] = IF gone[u] THEN @ ELSE @ \o q]
  BY DEF DrainBuffer, Deliver
<1>2. /\ Direction("client") /\ Direction("upstream") /\ Other("client") = "upstream"
      /\ Other("upstream") = "client" /\ got \in [Sides -> Seq(1 .. MaxSent)] /\ u \in Sides
      /\ brw \in BOOLEAN
  BY DEF TunnelInv, TunnelTypeOK, Sides, Other
<1>3. got[u] = <<>> /\ taken["client"] = Buffered("client") /\ held["client"] = <<>>
      /\ taken["upstream"] = 0 /\ held["upstream"] = <<>> /\ got["client"] = <<>>
      /\ tpc["client"] = "copy" /\ tpc["upstream"] = "copy"
  BY <1>1, <1>2 DEF Direction, Buffered
<1>4. 1 \in 1 .. MaxSent
  BY TunnelAssumption
<1>5. q \in Seq(1 .. MaxSent) /\ <<>> \o q = q
  <2>1. <<1>> \in Seq(1 .. MaxSent) /\ <<>> \in Seq(1 .. MaxSent)
    BY <1>4
  <2>2. q \in Seq(1 .. MaxSent)
    BY <2>1, Zenon
  <2> HIDE DEF q
  <2> QED BY <2>2, ConcatEmptySeq
<1>6. got'[u] = (IF gone[u] THEN <<>> ELSE q) /\ got'["client"] = <<>>
  BY <1>1, <1>2, <1>3, <1>5 DEF Sides
<1>7. TunnelTypeOK'
  <2>1. got' \in [Sides -> Seq(1 .. MaxSent)]
    <3>1. (IF gone[u] THEN got[u] ELSE got[u] \o q) \in Seq(1 .. MaxSent)
      BY <1>2, <1>3, <1>5
    <3> QED BY <1>1, <1>2, <3>1
  <2> QED BY <1>1, <2>1, Zenon DEF TunnelInv, TunnelTypeOK
<1>8. Direction("client")'
  <2>1. Len(q) = Buffered("client") /\ \A i \in DOMAIN q : q[i] = i
    BY DEF Buffered
  <2>2. Len(<<>>) = 0 /\ DOMAIN <<>> = {} /\ Buffered("client") \in Nat
    BY DEF Buffered
  <2>3. Buffered("client")' = 0
    BY <1>1 DEF Buffered
  <2> HIDE DEF q, u
  <2> QED BY <1>1, <1>2, <1>3, <1>6, <2>1, <2>2, <2>3 DEF Direction, u
<1>9. Direction("upstream")'
  <2>1. Buffered("upstream")' = 0 /\ Buffered("upstream") = 0
    BY <1>1 DEF Buffered
  <2> HIDE DEF q, u
  <2> QED BY <1>1, <1>2, <1>3, <1>6, <2>1 DEF Direction
<1> QED BY <1>7, <1>8, <1>9 DEF TunnelInv, Sides

(* A direction is as it was when nothing it is made of has changed.        *)
LEMMA SameDirection ==
  ASSUME NEW t \in Sides, Direction(t),
         sent'[t] = sent[t], taken'[t] = taken[t], held'[t] = held[t], tpc'[t] = tpc[t],
         fin' = fin, gone' = gone, brw' = brw, phase' = phase, deadline' = deadline,
         got'[Other(t)] = got[Other(t)], eof'[Other(t)] = eof[Other(t)]
  PROVE  Direction(t)'
  BY Zenon DEF Direction, Buffered, ReadExpired

LEMMA ReadInv ==
  ASSUME TunnelInv, NEW s \in Sides, CopyRead(s) PROVE TunnelInv'
<1>1. PICK n \in (taken[s] + 1) .. sent[s] :
        /\ held' = [held EXCEPT ![s] = [i \in 1 .. (n - taken[s]) |-> taken[s] + i]]
        /\ taken' = [taken EXCEPT ![s] = n]
  BY Zenon DEF CopyRead
<1>2. /\ UNCHANGED <<sent, fin, gone, brw, got, eof, tpc, phase, stuck, shuts, deadline>>
      /\ phase = "copy" /\ tpc[s] = "copy" /\ held[s] = <<>>
  BY DEF CopyRead
<1>3. /\ sent[s] \in 0 .. MaxSent /\ taken[s] \in 0 .. MaxSent /\ MaxSent \in Nat
      /\ Len(got[Other(s)]) \in Nat /\ Buffered(s) \in 0 .. 1 /\ Direction(s)
  BY DirectionTypes, OtherSide DEF TunnelInv
<1> DEFINE q == [i \in 1 .. (n - taken[s]) |-> taken[s] + i]
<1>4. n \in 0 .. MaxSent /\ n - taken[s] \in Nat /\ n <= sent[s] /\ n > taken[s]
  BY <1>1, <1>3
<1>5. q \in Seq(1 .. MaxSent) /\ Len(q) = n - taken[s] /\ DOMAIN q = 1 .. (n - taken[s])
  <2>1. \A i \in 1 .. (n - taken[s]) : taken[s] + i \in 1 .. MaxSent
    BY <1>3, <1>4
  <2>2. q \in [1 .. (n - taken[s]) -> 1 .. MaxSent]
    BY <2>1
  <2> DEFINE k == n - taken[s]
  <2>3. k \in Nat /\ q \in [1 .. k -> 1 .. MaxSent]
    BY <1>4, <2>2
  <2> HIDE DEF k, q
  <2>4. q \in Seq(1 .. MaxSent) /\ DOMAIN q = 1 .. k
    BY <2>3, SeqDef, Zenon
  <2>5. Len(q) = k
    BY <2>3, <2>4, LenProperties
  <2> QED BY <2>4, <2>5 DEF k
<1>6. \A i \in DOMAIN q : q[i] = taken[s] + i
  OBVIOUS
<1> HIDE DEF q
<1>7. held' = [held EXCEPT ![s] = q]
  BY <1>1 DEF q
<1>8. TunnelTypeOK'
  <2>1. held' \in [Sides -> Seq(1 .. MaxSent)] /\ taken' \in [Sides -> 0 .. MaxSent]
    BY <1>1, <1>4, <1>5, <1>7, ZenonT(40) DEF TunnelInv, TunnelTypeOK
  <2> QED BY <1>2, <2>1 DEF TunnelInv, TunnelTypeOK
<1>9. Direction(s)'
  <2>1. taken'[s] = n /\ held'[s] = q
    BY <1>1, <1>7 DEF TunnelInv, TunnelTypeOK
  <2>2. \A i \in DOMAIN q : q[i] = n - Len(q) + i
    BY <1>3, <1>4, <1>5, <1>6
  <2>3. Buffered(s)' = Buffered(s)
    BY <1>2 DEF Buffered
  <2>4. Len(got[Other(s)]) + 0 + Buffered(s) = taken[s] =>
          Len(got[Other(s)]) + Len(q) + Buffered(s) = n
    <3> DEFINE g == Len(got[Other(s)])
               b == Buffered(s)
    <3>1. g \in Nat /\ b \in Nat /\ taken[s] \in Nat /\ n \in Nat /\ Len(q) = n - taken[s]
      BY <1>3, <1>4, <1>5
    <3> HIDE DEF g, b
    <3>2. g + 0 + b = taken[s] => g + Len(q) + b = n
      BY <3>1, SMTT(30)
    <3> QED BY <3>2 DEF g, b
  <2>5. /\ ~gone[Other(s)] => Len(got[Other(s)]) + 0 + Buffered(s) = taken[s]
        /\ \A i \in DOMAIN got[Other(s)] : got[Other(s)][i] = i
        /\ brw => phase = "drain"
        /\ eof[Other(s)] => tpc[s] = "done"
    BY <1>2, <1>3 DEF Direction
  <2>6. n <= sent[s] /\ Len(q) <= n
    BY <1>3, <1>4, <1>5, SMTT(30)
  <2>7. ~eof[Other(s)]
    BY <1>2, <2>5, SMTT(30)
  <2> QED BY <1>2, <2>1, <2>2, <2>3, <2>4, <2>5, <2>6, <2>7 DEF Direction
<1>10. ASSUME NEW t \in Sides, t # s PROVE Direction(t)'
  <2>1. taken'[t] = taken[t] /\ held'[t] = held[t]
    BY <1>1, <1>7, <1>10 DEF TunnelInv, TunnelTypeOK
  <2> QED BY <1>2, <2>1, SameDirection, Zenon DEF TunnelInv
<1> QED BY <1>8, <1>9, <1>10 DEF TunnelInv

LEMMA WriteInv ==
  ASSUME TunnelInv, NEW s \in Sides, CopyWrite(s) PROVE TunnelInv'
<1> DEFINE o == Other(s)
           g == got[o]
           h == held[s]
<1>1. /\ UNCHANGED <<sent, fin, gone, taken, brw, eof, tpc, phase, stuck, shuts, deadline>>
      /\ got' = [got EXCEPT ![o] = g \o h] /\ held' = [held EXCEPT ![s] = <<>>]
      /\ phase = "copy" /\ tpc[s] = "copy" /\ ~gone[o]
  BY DEF CopyWrite, Deliver
<1>2. /\ o \in Sides /\ o # s /\ g \in Seq(1 .. MaxSent) /\ h \in Seq(1 .. MaxSent)
      /\ Len(g) \in Nat /\ Len(h) \in Nat /\ DOMAIN g = 1 .. Len(g) /\ DOMAIN h = 1 .. Len(h)
      /\ taken[s] \in Nat /\ sent[s] \in Nat /\ Buffered(s) = 0
  <2>1. ~brw
    BY <1>1, Zenon DEF TunnelInv, Direction
  <2> QED BY <2>1, TunnelAssumption, DirectionTypes, OtherSide DEF TunnelInv, Buffered
<1>3. /\ taken[s] = Len(g) + Len(h)
      /\ \A i \in 1 .. Len(g) : g[i] = i
      /\ \A i \in 1 .. Len(h) : h[i] = taken[s] - Len(h) + i
  <2>1. Direction(s)
    BY DEF TunnelInv
  <2>2. /\ Len(g) + Len(h) + Buffered(s) = taken[s]
        /\ \A i \in DOMAIN g : g[i] = i
        /\ \A i \in DOMAIN h : h[i] = taken[s] - Len(h) + i
    BY <1>1, <2>1, Zenon DEF Direction
  <2>3. Len(g) \in Nat /\ Len(h) \in Nat /\ taken[s] \in Nat /\ Buffered(s) = 0
        /\ DOMAIN g = 1 .. Len(g) /\ DOMAIN h = 1 .. Len(h)
    BY <1>2
  <2> HIDE DEF g, h
  <2>4. taken[s] = Len(g) + Len(h)
    BY <2>2, <2>3
  <2> QED BY <2>2, <2>3, <2>4
<1> HIDE DEF g, h
<1>4. /\ g \o h \in Seq(1 .. MaxSent) /\ Len(g \o h) = Len(g) + Len(h)
      /\ DOMAIN (g \o h) = 1 .. Len(g) + Len(h)
      /\ \A i \in 1 .. Len(g) + Len(h) : (g \o h)[i] = IF i <= Len(g) THEN g[i] ELSE h[i - Len(g)]
  BY <1>2, ConcatProperties, LenProperties
<1>5. \A i \in DOMAIN (g \o h) : (g \o h)[i] = i
  <2> SUFFICES ASSUME NEW i \in 1 .. Len(g) + Len(h) PROVE (g \o h)[i] = i
    BY <1>4
  <2>1. CASE i <= Len(g)
    BY <1>2, <1>3, <1>4, <2>1
  <2>2. CASE i > Len(g)
    <3>1. i - Len(g) \in 1 .. Len(h) /\ ~(i <= Len(g))
      BY <1>2, <2>2
    <3>2. h[i - Len(g)] = taken[s] - Len(h) + (i - Len(g))
      BY <1>3, <3>1
    <3>3. (g \o h)[i] = h[i - Len(g)]
      BY <1>4, <3>1
    <3> QED BY <1>2, <1>3, <3>2, <3>3
  <2> QED BY <1>2, <2>1, <2>2
<1>6. TunnelTypeOK'
  BY <1>1, <1>2, <1>4, SMTT(30) DEF TunnelInv, TunnelTypeOK
<1>7. Direction(s)'
  <2>1. got'[o] = g \o h /\ held'[s] = <<>>
    BY <1>1, <1>2 DEF TunnelInv, TunnelTypeOK
  <2>2. Len(<<>>) = 0 /\ DOMAIN <<>> = {} /\ Buffered(s)' = 0
    BY <1>1, <1>2 DEF Buffered
  <2>3. Direction(s)
    BY DEF TunnelInv
  <2>4. Len(g \o h) + 0 + 0 = taken[s] /\ 0 <= taken[s] /\ Other(s) = o
    BY <1>2, <1>3, <1>4
  <2> HIDE DEF o
  <2> QED BY <1>1, <1>5, <2>1, <2>2, <2>3, <2>4, Zenon DEF Direction
<1>8. ASSUME NEW t \in Sides, t # s PROVE Direction(t)'
  <2>1. Other(t) = s
    BY <1>8, OtherSide
  <2>2. got'[s] = got[s] /\ held'[t] = held[t]
    BY <1>1, <1>2, <1>8 DEF TunnelInv, TunnelTypeOK
  <2> QED BY <1>1, <2>1, <2>2, SameDirection DEF TunnelInv
<1> QED BY <1>6, <1>7, <1>8 DEF TunnelInv

LEMMA EndInv ==
  ASSUME TunnelInv, NEW s \in Sides, CopyEnd(s) \/ CloseWrite(s) PROVE TunnelInv'
<1>1. CASE CopyEnd(s)
  <2>1. /\ UNCHANGED <<sent, fin, gone, taken, brw, held, got, eof, phase, stuck, shuts, deadline>>
        /\ phase = "copy" /\ tpc[s] = "copy" /\ tpc' = [tpc EXCEPT ![s] = "closeWrite"]
        /\ \/ held[s] = <<>> /\ ((fin[s] /\ taken[s] = sent[s]) \/ ReadExpired(s))
           \/ gone[s] \/ gone[Other(s)]
    BY <1>1 DEF CopyEnd
  <2>2. TunnelTypeOK'
    BY <2>1, SMTT(30) DEF TunnelInv, TunnelTypeOK
  <2>3. Direction(s)'
    <3>1. Direction(s) /\ tpc'[s] = "closeWrite" /\ Buffered(s)' = Buffered(s)
          /\ ReadExpired(s)' = ReadExpired(s)
      BY <2>1 DEF TunnelInv, TunnelTypeOK, Buffered, ReadExpired
    <3> QED BY <2>1, <3>1, Zenon DEF Direction
  <2>4. ASSUME NEW t \in Sides, t # s PROVE Direction(t)'
    <3>1. tpc'[t] = tpc[t]
      BY <2>1, <2>4 DEF TunnelInv, TunnelTypeOK
    <3> QED BY <2>1, <3>1, SameDirection, Zenon DEF TunnelInv
  <2> QED BY <2>2, <2>3, <2>4 DEF TunnelInv
<1>2. CASE CloseWrite(s)
  <2>1. /\ UNCHANGED <<sent, fin, gone, taken, brw, held, got, phase, stuck, shuts, deadline>>
        /\ eof' = [eof EXCEPT ![Other(s)] = Other(s) = "client" \/ shuts]
        /\ tpc[s] = "closeWrite" /\ tpc' = [tpc EXCEPT ![s] = "done"]
    BY <1>2 DEF CloseWrite
  <2>2. TunnelTypeOK'
    BY <2>1, Zenon DEF TunnelInv, TunnelTypeOK
  <2>3. Direction(s)'
    <3>1. Direction(s) /\ tpc'[s] = "done" /\ Buffered(s)' = Buffered(s)
          /\ ReadExpired(s)' = ReadExpired(s)
      BY <2>1, SMTT(30) DEF TunnelInv, TunnelTypeOK, Buffered, ReadExpired
    <3> QED BY <2>1, <3>1, Zenon DEF Direction
  <2>4. ASSUME NEW t \in Sides, t # s PROVE Direction(t)'
    <3>1. tpc'[t] = tpc[t] /\ eof'[Other(t)] = eof[Other(t)]
      BY <2>1, <2>4, OtherSide, ZenonT(40) DEF TunnelInv, TunnelTypeOK
    <3> QED BY <2>1, <3>1, SameDirection, Zenon DEF TunnelInv
  <2> QED BY <2>2, <2>3, <2>4 DEF TunnelInv
<1> QED BY <1>1, <1>2

LEMMA TunnelInvNext == TunnelInv /\ [TunnelNext]_tunnelVars => TunnelInv'
<1> SUFFICES ASSUME TunnelInv, [TunnelNext]_tunnelVars PROVE TunnelInv'
  OBVIOUS
<1>1. CASE (\E s \in Sides : Send(s) \/ Fin(s) \/ Reset(s) \/ StopReading(s)) \/ DeadlinePasses
  BY <1>1, EndsInv DEF Sides
<1>2. CASE DrainBuffer
  BY <1>2, DrainInv
<1>3. CASE \E s \in Sides : Copier(s)
  BY <1>3, ReadInv, WriteInv, EndInv DEF Copier
<1>4. CASE BicopyReturns
  <2>1. /\ UNCHANGED <<sent, fin, gone, taken, brw, held, got, tpc, stuck, shuts, deadline>>
        /\ \A s \in Sides : tpc[s] = "done"
        /\ phase = "copy" /\ phase' = "over" /\ eof' = [s \in Sides |-> TRUE]
    BY <1>4 DEF BicopyReturns
  <2>2. TunnelTypeOK'
    BY <2>1 DEF TunnelInv, TunnelTypeOK
  <2>3. ASSUME NEW s \in Sides PROVE Direction(s)'
    <3>1. Direction(s) /\ Buffered(s)' = Buffered(s) /\ ReadExpired(s)' = ReadExpired(s)
      BY <2>1 DEF TunnelInv, Buffered, ReadExpired
    <3> QED BY <2>1, <3>1, Zenon DEF Direction
  <2> QED BY <2>2, <2>3 DEF TunnelInv
<1>5. CASE TunnelOver \/ UNCHANGED tunnelVars
  <2>1. UNCHANGED tunnelVars
    BY <1>5 DEF TunnelOver
  <2>2. TunnelTypeOK'
    BY <2>1 DEF tunnelVars, TunnelInv, TunnelTypeOK
  <2>3. \A s \in Sides : Direction(s)'
    BY <2>1, SameDirection, Zenon DEF tunnelVars, TunnelInv
  <2> QED BY <2>2, <2>3 DEF TunnelInv
<1> QED BY <1>1, <1>2, <1>3, <1>4, <1>5 DEF TunnelNext

(* drainBuffer and bicopy keep the bytes: each side receives what the      *)
(* other sent, in order and without a gap, and when our write side towards *)
(* it is closed it has all of it, unless a side reset its connection or    *)
(* the read deadline of the request has passed on the client's.            *)
THEOREM TunnelBytesKept == TunnelSpec => []BytesKept
<1>1. TunnelInv => BytesKept
  <2> SUFFICES ASSUME TunnelInv, NEW s \in Sides
               PROVE  /\ got[s] = FirstChunks(Len(got[s]))
                      /\ eof[s] /\ ~gone["client"] /\ ~gone["upstream"] =>
                           /\ Len(got[s]) = taken[Other(s)]
                           /\ \/ fin[Other(s)] /\ Len(got[s]) = sent[Other(s)]
                              \/ ReadExpired(Other(s))
    BY DEF BytesKept, InOrder, EofMeansComplete
  <2> DEFINE t == Other(s)
  <2>1. /\ Direction(t) /\ Other(t) = s /\ t \in Sides
        /\ got[s] \in Seq(1 .. MaxSent) /\ Len(got[s]) \in Nat /\ DOMAIN got[s] = 1 .. Len(got[s])
        /\ taken[t] \in Nat /\ sent[t] \in Nat
    BY OtherSide, DirectionTypes DEF TunnelInv
  <2> HIDE DEF t
  <2>2. got[s] = FirstChunks(Len(got[s]))
    <3>1. got[s] = [i \in 1 .. Len(got[s]) |-> got[s][i]]
      BY <2>1, LenProperties, SMTT(30)
    <3>2. \A i \in 1 .. Len(got[s]) : got[s][i] = i
      BY <2>1 DEF Direction
    <3> QED BY <3>1, <3>2 DEF FirstChunks
  <2>3. ASSUME eof[s], ~gone["client"], ~gone["upstream"]
        PROVE  /\ Len(got[s]) = taken[t]
               /\ (fin[t] /\ Len(got[s]) = sent[t]) \/ ReadExpired(t)
    <3>1. tpc[t] = "done" /\ ~gone[s] /\ ~gone[t]
      BY <2>1, <2>3, SMTT(30) DEF Direction, Sides
    <3>2. /\ held[t] = <<>> /\ phase # "drain"
          /\ (fin[t] /\ taken[t] = sent[t]) \/ ReadExpired(t)
      BY <2>1, <3>1, SMTT(30) DEF Direction
    <3>3. Buffered(t) = 0
      BY <2>1, <3>2, Zenon DEF Direction, Buffered
    <3>4. Len(got[s]) + Len(<<>>) + 0 = taken[t]
      BY <2>1, <3>1, <3>2, <3>3 DEF Direction
    <3> QED BY <2>1, <3>2, <3>4
  <2> QED BY <2>2, <2>3, Zenon DEF t
<1> QED BY <1>1, TunnelInvInit, TunnelInvNext, PTL DEF TunnelSpec

-----------------------------------------------------------------------------
LogTypeOK ==
  /\ opened \in 1 .. MaxFiles /\ current \in 1 .. opened /\ closedF \subseteq 1 .. opened
  /\ timer \in [1 .. MaxFiles -> 0 .. Grace]
  /\ wpc \in [LogWriters -> {"idle", "write"}] /\ wfile \in [LogWriters -> 1 .. opened]
  /\ opc \in [AllReopeners -> {"idle", "swap", "gone"}] /\ ofile \in [AllReopeners -> 1 .. opened]
  /\ lost = 0

Swapping == {r \in AllReopeners : opc[r] = "swap"}

(* The timer of the current file is off, and so is that of a file about to *)
(* replace it, which no one else has; before Close, the current file and   *)
(* those being written to are open.                                        *)
LogInv ==
  /\ LogTypeOK /\ LogKept
  /\ timer[current] = 0 /\ \A f \in opened + 1 .. MaxFiles : timer[f] = 0
  /\ \A r \in Swapping : timer[ofile[r]] = 0 /\ ofile[r] # current /\ ofile[r] \notin closedF
  /\ \A r, q \in Swapping : r # q => ofile[r] # ofile[q]
  /\ cpc = "no" => /\ current \notin closedF
                   /\ \A w \in LogWriters : wpc[w] = "write" => wfile[w] \notin closedF

LEMMA LogInvInit == LogInit => LogInv
<1> SUFFICES ASSUME LogInit PROVE LogInv
  OBVIOUS
<1>1. 1 \in 1 .. MaxFiles /\ 0 \in 0 .. Grace /\ 1 \in 1 .. 1
  BY RotatableFileAssumption
<1>2. LogTypeOK
  BY <1>1 DEF LogInit, LogTypeOK
<1>3. 1 .. opened = {1} /\ \A f \in opened + 1 .. MaxFiles : f \in 1 .. MaxFiles
  BY <1>1, RotatableFileAssumption, SMTT(30) DEF LogInit
<1> QED BY <1>1, <1>2, <1>3 DEF LogInit, LogInv, LogKept, Swapping

(* Reopen has opened the next file.                                        *)
LEMMA OpenFileInv ==
  ASSUME LogInv, NEW r \in AllReopeners, opc[r] = "idle", OpenFile(r),
         UNCHANGED <<current, closedF, timer, wpc, wfile, lost, cpc>>
  PROVE  LogInv'
<1> DEFINE n == opened + 1
<1>1. /\ opened \in Nat /\ n \in 1 .. MaxFiles /\ n \notin 1 .. opened /\ MaxFiles \in Nat
      /\ 1 .. n = 1 .. opened \cup {n} /\ n \in opened + 1 .. MaxFiles /\ opened' = n
      /\ n + 1 .. MaxFiles \subseteq opened + 1 .. MaxFiles
  BY RotatableFileAssumption DEF LogInv, LogTypeOK, OpenFile
<1>2. ofile' = [ofile EXCEPT ![r] = n] /\ opc' = [opc EXCEPT ![r] = "swap"]
  BY DEF OpenFile
<1> HIDE DEF n
<1>3. LogTypeOK'
  <2>1. ofile' \in [AllReopeners -> 1 .. n] /\ wfile' \in [LogWriters -> 1 .. n]
    BY <1>1, <1>2 DEF LogInv, LogTypeOK
  <2> QED BY <1>1, <1>2, <2>1 DEF LogInv, LogTypeOK
<1>4. Swapping' = Swapping \cup {r} /\ r \notin Swapping
  BY <1>2 DEF LogInv, LogTypeOK, Swapping
<1>5. /\ ofile'[r] = n /\ timer[n] = 0 /\ n # current /\ n \notin closedF
      /\ \A q \in Swapping : ofile'[q] = ofile[q] /\ ofile[q] # n /\ q \in AllReopeners
  BY <1>1, <1>2, <1>4 DEF LogInv, LogTypeOK, Swapping
<1>6. LogKept'
  <2> SUFFICES ASSUME NEW f \in 1 .. n \ closedF
               PROVE  f = current \/ timer[f] > 0 \/ \E q \in Swapping' : ofile'[q] = f
    BY <1>1, <1>3, SMTT(30) DEF LogKept, LogTypeOK, Swapping
  <2>1. CASE f = n
    BY <1>4, <1>5, <2>1, SMTT(30)
  <2>2. CASE f \in 1 .. opened
    BY <1>4, <1>5, <2>2, SMTT(30) DEF LogInv, LogKept, Swapping
  <2> QED BY <1>1, <2>1, <2>2
<1> QED BY <1>1, <1>3, <1>4, <1>5, <1>6 DEF LogInv

LEMMA SwapFileInv ==
  ASSUME LogInv, NEW r \in AllReopeners, SwapFile(r)
  PROVE  LogInv'
<1> DEFINE n == ofile[r]
<1>1. /\ UNCHANGED <<opened, closedF, wpc, wfile, lost, ofile, cpc>> /\ opc[r] = "swap"
      /\ opc' = [opc EXCEPT ![r] = "idle"] /\ current' = n
      /\ timer' = [timer EXCEPT ![current] = Grace]
  BY Zenon DEF SwapFile
<1>2. /\ r \in Swapping /\ timer[n] = 0 /\ n # current /\ n \notin closedF /\ n \in 1 .. opened
      /\ current \in 1 .. opened /\ 1 .. opened \subseteq 1 .. MaxFiles /\ Grace \in 0 .. Grace /\ Grace > 0
      /\ \A f \in opened + 1 .. MaxFiles : f \in 1 .. MaxFiles /\ f # current
  BY <1>1, RotatableFileAssumption DEF LogInv, LogTypeOK, Swapping
<1>3. \A f \in 1 .. MaxFiles : timer'[f] = IF f = current THEN Grace ELSE timer[f]
  BY <1>1, <1>2 DEF LogInv, LogTypeOK
<1>4. Swapping' = Swapping \ {r}
  BY <1>1, SMTT(30) DEF LogInv, LogTypeOK, Swapping
<1>5. LogTypeOK'
  BY <1>1, <1>2, SMTT(30) DEF LogInv, LogTypeOK
<1>6. \A q \in Swapping' : timer'[ofile[q]] = 0 /\ ofile[q] # n /\ ofile[q] \notin closedF
  <2> SUFFICES ASSUME NEW q \in Swapping, q # r
               PROVE  timer'[ofile[q]] = 0 /\ ofile[q] # n /\ ofile[q] \notin closedF
    BY <1>4
  <2>1. ofile[q] \in 1 .. MaxFiles
    BY <1>2 DEF LogInv, LogTypeOK, Swapping
  <2> QED BY <1>2, <1>3, <2>1 DEF LogInv
<1>7. LogKept'
  <2> SUFFICES ASSUME NEW f \in 1 .. opened \ closedF
               PROVE  f = n \/ timer'[f] > 0 \/ \E q \in Swapping' : ofile[q] = f
    BY <1>1, <1>5, SMTT(30) DEF LogKept, LogTypeOK, Swapping
  <2>1. f \in 1 .. MaxFiles /\ (f = current \/ timer[f] > 0 \/ \E q \in Swapping : ofile[q] = f)
    BY <1>2, SMTT(30) DEF LogInv, LogKept, Swapping
  <2> QED BY <1>2, <1>3, <1>4, <2>1
<1>8. timer'[current'] = 0 /\ \A f \in opened + 1 .. MaxFiles : timer'[f] = 0
  BY <1>1, <1>2, <1>3, ZenonT(40) DEF LogInv
<1>9. \A q, p \in Swapping' : q # p => ofile[q] # ofile[p]
  BY <1>4, ZenonT(40) DEF LogInv
<1>10. cpc = "no" => \A w \in LogWriters : wpc[w] = "write" => wfile[w] \notin closedF
  BY ZenonT(40) DEF LogInv
<1> HIDE DEF n
<1> QED BY <1>1, <1>2, <1>5, <1>6, <1>7, <1>8, <1>9, <1>10, ZenonT(40) DEF LogInv

(* A unit of time passes while no one writes.                              *)
LEMMA GraceTickInv == ASSUME LogInv, GraceTick PROVE LogInv'
<1> DEFINE due == {f \in 1 .. MaxFiles : timer[f] = 1}
<1>1. /\ UNCHANGED <<current, opened, wpc, wfile, lost, opc, ofile, cpc>>
      /\ \A w \in LogWriters : wpc[w] = "idle"
      /\ timer' = [f \in 1 .. MaxFiles |-> IF timer[f] > 0 THEN timer[f] - 1 ELSE 0]
      /\ closedF' = closedF \cup due
  BY DEF GraceTick
<1>2. /\ 1 .. opened \subseteq 1 .. MaxFiles /\ current \in 1 .. MaxFiles
      /\ \A f \in 1 .. MaxFiles : timer[f] \in Nat /\ timer[f] <= Grace
      /\ \A f \in opened + 1 .. MaxFiles : f \in 1 .. MaxFiles /\ timer[f] = 0
      /\ \A f \in 1 .. MaxFiles : f \in 1 .. opened \/ f \in opened + 1 .. MaxFiles
      /\ Grace \in Nat
  BY RotatableFileAssumption DEF LogInv, LogTypeOK
<1>3. due \subseteq 1 .. opened
  BY <1>2
<1>4. /\ \A f \in 1 .. MaxFiles : timer[f] = 0 => timer'[f] = 0
      /\ \A f \in 1 .. MaxFiles : timer[f] > 0 => timer'[f] > 0 \/ f \in due
      /\ timer' \in [1 .. MaxFiles -> 0 .. Grace]
  BY <1>1, <1>2
<1> HIDE DEF due
<1>5. LogTypeOK'
  BY <1>1, <1>3, <1>4, SMTT(30) DEF LogInv, LogTypeOK
<1>6. /\ current \notin due /\ Swapping' = Swapping
      /\ \A r \in Swapping : ofile[r] \in 1 .. MaxFiles /\ ofile[r] \notin due
  BY <1>1, <1>2, SMTT(30) DEF due, LogInv, LogTypeOK, Swapping
<1>7. LogKept'
  BY <1>1, <1>2, <1>4, Zenon DEF LogInv, LogKept
<1> QED BY <1>1, <1>2, <1>4, <1>5, <1>6, <1>7 DEF LogInv

LEMMA LogInvNext == LogInv /\ [LogNext]_logVars => LogInv'
<1> SUFFICES ASSUME LogInv, [LogNext]_logVars PROVE LogInv'
  OBVIOUS
<1>1. ASSUME UNCHANGED <<current, opened, closedF, timer, wpc, wfile, lost, ofile, cpc>>,
             opc' = opc \/ (opc[Hup] = "idle" /\ opc' = [opc EXCEPT ![Hup] = "gone"])
      PROVE  LogInv'
  <2>1. opc' \in [AllReopeners -> {"idle", "swap", "gone"}] /\ Swapping' = Swapping
    BY <1>1, SMTT(30) DEF LogInv, LogTypeOK, Swapping
  <2>2. LogKept'
    BY <1>1, <2>1 DEF LogInv, LogKept, Swapping
  <2> QED BY <1>1, <2>1, <2>2 DEF LogInv, LogTypeOK
<1>2. CASE SIGHUP
  BY <1>1, <1>2 DEF SIGHUP
<1>3. CASE TakeSignal
  <2>1. Hup \in AllReopeners /\ opc[Hup] = "idle"
    BY <1>3 DEF TakeSignal, AllReopeners
  <2>2. CASE OpenFile(Hup)
    BY <1>3, <2>1, <2>2, OpenFileInv DEF TakeSignal
  <2>3. CASE ~OpenFile(Hup)
    BY <1>1, <1>3, <2>1, <2>3, SMTT(30) DEF TakeSignal
  <2> QED BY <2>2, <2>3
<1>4. CASE GraceTick
  BY <1>4, GraceTickInv
<1>5. CASE CloseSend
  <2>1. LogTypeOK' /\ LogKept' /\ Swapping' = Swapping
    BY <1>5, SMTT(30) DEF CloseSend, LogInv, LogTypeOK, LogKept, Swapping
  <2> QED BY <1>5, <2>1, SMTT(30) DEF CloseSend, LogInv
<1>6. CASE CloseFile
  <2>1. LogTypeOK' /\ LogKept' /\ Swapping' = Swapping
    BY <1>6, SMTT(30) DEF CloseFile, LogInv, LogTypeOK, LogKept, Swapping
  <2> QED BY <1>6, <2>1, Zenon DEF CloseFile, LogInv
<1>7. ASSUME NEW w \in LogWriters, LoadFile(w) PROVE LogInv'
  <2>1. LogTypeOK'
    BY <1>7, SMTT(30) DEF LoadFile, LogInv, LogTypeOK
  <2>2. LogKept' /\ Swapping' = Swapping
    BY <1>7 DEF LoadFile, LogInv, LogKept, Swapping
  <2>3. cpc' = "no" => \A v \in LogWriters : wpc'[v] = "write" => wfile'[v] \notin closedF'
    BY <1>7, SMTT(30) DEF LoadFile, LogInv, LogTypeOK
  <2> QED BY <1>7, <2>1, <2>2, <2>3, Zenon DEF LoadFile, LogInv
<1>8. ASSUME NEW w \in LogWriters, WriteLine(w) PROVE LogInv'
  <2>1. lost' = 0
    BY <1>8, SMTT(30) DEF WriteLine, LogInv, LogTypeOK
  <2>2. LogTypeOK'
    BY <1>8, <2>1, SMTT(30) DEF WriteLine, LogInv, LogTypeOK
  <2>3. LogKept' /\ Swapping' = Swapping
    BY <1>8, <2>1, SMTT(30) DEF WriteLine, LogInv, LogKept, Swapping
  <2>4. cpc' = "no" => \A v \in LogWriters : wpc'[v] = "write" => wfile'[v] \notin closedF'
    BY <1>8 DEF WriteLine, LogInv, LogTypeOK
  <2> QED BY <1>8, <2>2, <2>3, <2>4 DEF WriteLine, LogInv
<1>9. ASSUME NEW r \in Reopeners, Reopen(r) PROVE LogInv'
  <2>1. r \in AllReopeners
    BY DEF AllReopeners
  <2> QED BY <1>9, <2>1, OpenFileInv DEF Reopen
<1>10. ASSUME NEW r \in AllReopeners, SwapFile(r) PROVE LogInv'
  BY <1>10, SwapFileInv
<1>11. CASE UNCHANGED logVars
  BY <1>1, <1>11, SMTT(30) DEF logVars
<1> QED BY <1>2, <1>3, <1>4, <1>5, <1>6, <1>7, <1>8, <1>9, <1>10, <1>11, SMTT(30) DEF LogNext

(* RotatableFile loses no line before Close and leaks no file, however     *)
(* many rotations, by SIGHUP or by callers of Reopen, run at once and      *)
(* however many goroutines log.                                            *)
THEOREM RotationLogKept == LogSpec => []LogKept
<1>1. LogInv => LogKept
  BY DEF LogInv
<1> QED BY <1>1, LogInvInit, LogInvNext, PTL DEF LogSpec

-----------------------------------------------------------------------------
(* The header of a PROXY protocol connection is read once and before       *)
(* anything else, for any number of callers and any length of header.      *)

Places == {"idle", "lock", "check", "select", "use"}
Errors == {"nil", "timeout", "malformed"}

ProtoTypes ==
  /\ offN \in Nat /\ appN \in Nat
  /\ headerErr \in Errors /\ goroRes \in {"none", "ok", "malformed"}
  /\ ppc \in [Callers -> Places] /\ saw \in [Callers -> Errors]

(* headerMu is held from Lock to the outcome.                              *)
MuHeld == \A k \in Callers : ppc[k] \in {"check", "select"} => headerMu = k

(* The goroutine is started once, by the one who then waits for it, and    *)
(* has a result only when it has ended.                                    *)
OneReader ==
  /\ \A k \in Callers : ppc[k] = "select" => ~isHeaderRead /\ goro # "none"
  /\ goro # "none" => isHeaderRead \/ \E k \in Callers : ppc[k] = "select"
  /\ goroRes # "none" => goro = "ended"

(* The outcome is nil exactly when the goroutine found a header, and then  *)
(* what was taken off the connection since is the application's.           *)
HeaderTaken ==
  /\ goroRes = "ok" => bad = 0 /\ offN = HeaderLen + appN
  /\ hasHeader => isHeaderRead /\ goroRes = "ok"
  /\ isHeaderRead /\ headerErr = "nil" => hasHeader
  /\ appN > 0 => hasHeader

ProtoInv == ProtoTypes /\ MuHeld /\ OneReader /\ HeaderTaken /\ OutcomeShared

(* A new connection.                                                       *)
LEMMA ProtoInitInv == ProtoInit => ProtoInv
<1> SUFFICES ASSUME ProtoInit PROVE ProtoInv
  OBVIOUS
<1>1. \A k \in Callers : ppc[k] = "idle"
  BY DEF ProtoInit
<1>2. ProtoTypes
  BY DEF ProtoInit, ProtoTypes, Places, Errors
<1> QED BY <1>1, <1>2 DEF ProtoInit, ProtoInv, MuHeld, OneReader, HeaderTaken, OutcomeShared

(* What At does to the places of the callers.                              *)
LEMMA AtMoves ==
  ASSUME ProtoTypes, NEW k \in Callers, NEW from, NEW to \in Places, At(k, from, to)
  PROVE  /\ ppc[k] = from /\ ppc' \in [Callers -> Places] /\ ppc'[k] = to
         /\ \A j \in Callers \ {k} : ppc'[j] = ppc[j]
  BY SMTT(30) DEF ProtoTypes, At

(* A step that touches neither the callers nor the outcome, and does not   *)
(* end the goroutine.                                                      *)
LEMMA OutsideStep ==
  ASSUME ProtoInv,
         UNCHANGED <<bad, isHeaderRead, headerErr, hasHeader, headerMu, goro, goroRes,
                     ppc, saw, appN, offN>>
  PROVE  ProtoInv'
  BY SMTT(30) DEF ProtoInv, ProtoTypes, MuHeld, OneReader, HeaderTaken, OutcomeShared

(* Every step of the callers, of the goroutine and of the peer keeps it.   *)
LEMMA ProtoNextInv == ProtoInv /\ [ProtoNext]_protoVars => ProtoInv'
<1> SUFFICES ASSUME ProtoInv, [ProtoNext]_protoVars PROVE ProtoInv'
  OBVIOUS
<1> USE DEF Places, Errors
<1>1. CASE PeerSends \/ PeerCloses \/ ConnClosed
  BY <1>1, OutsideStep, SMTT(30) DEF PeerSends, PeerCloses, ConnClosed
<1>2. CASE GoroReads
  <2>1. goroRes # "ok" /\ offN' \in Nat
    BY <1>2 DEF GoroReads, ProtoInv, ProtoTypes, OneReader
  <2>2. HeaderTaken' /\ ProtoTypes'
    BY <1>2, <2>1 DEF GoroReads, ProtoInv, ProtoTypes, HeaderTaken
  <2> QED BY <1>2, <2>2 DEF GoroReads, ProtoInv, MuHeld, OneReader, OutcomeShared
<1>3. CASE GoroEnds
  <2>1. appN = 0 /\ ~hasHeader
    BY <1>3 DEF GoroEnds, ProtoInv, ProtoTypes, OneReader, HeaderTaken
  <2>2. goroRes' = "ok" => bad = 0 /\ offN = HeaderLen
    BY <1>3 DEF GoroEnds
  <2>3. HeaderTaken'
    BY <1>3, <2>1, <2>2, ProxyProtoAssumption DEF GoroEnds, ProtoInv, HeaderTaken
  <2>4. OneReader'
    BY <1>3 DEF GoroEnds, ProtoInv, OneReader
  <2> QED BY <1>3, <2>3, <2>4 DEF GoroEnds, ProtoInv, ProtoTypes, MuHeld, OutcomeShared
<1> USE DEF ProtoInv
<1>4. ASSUME NEW k \in Callers, Call(k) PROVE ProtoInv'
  <2> DEFINE to == IF isHeaderRead THEN "use" ELSE "lock"
  <2>1. /\ ppc[k] = "idle" /\ ppc' \in [Callers -> Places] /\ ppc'[k] = to
        /\ \A j \in Callers \ {k} : ppc'[j] = ppc[j]
    <3>1. to \in Places /\ At(k, "idle", to)
      BY <1>4 DEF Call
    <3> QED BY <3>1, AtMoves
  <2>2. /\ saw' \in [Callers -> Errors]
        /\ \A j \in Callers \ {k} : saw'[j] = saw[j]
        /\ isHeaderRead => saw'[k] = headerErr
    BY <1>4, SMTT(30) DEF Call, ProtoTypes
  <2>3. ProtoTypes' /\ MuHeld' /\ OneReader' /\ HeaderTaken'
    BY <1>4, <2>1, <2>2, SMTT(30) DEF Call, ProtoTypes, MuHeld, OneReader, HeaderTaken
  <2>4. OutcomeShared'
    BY <1>4, <2>1, <2>2 DEF Call, OutcomeShared, HeaderTaken
  <2> QED BY <2>3, <2>4
<1>5. ASSUME NEW k \in Callers, Lock(k) PROVE ProtoInv'
  <2>1. /\ ppc[k] = "lock" /\ ppc' \in [Callers -> Places] /\ ppc'[k] = "check"
        /\ \A j \in Callers \ {k} : ppc'[j] = ppc[j]
    BY <1>5, AtMoves, SMTT(30) DEF Lock
  <2>2. MuHeld'
    BY <1>5, <2>1, ProxyProtoAssumption, SMTT(30) DEF Lock, MuHeld
  <2>3. ProtoTypes' /\ OneReader' /\ HeaderTaken' /\ OutcomeShared'
    BY <1>5, <2>1 DEF Lock, ProtoTypes, OneReader, HeaderTaken, OutcomeShared
  <2> QED BY <2>2, <2>3
<1>6. ASSUME NEW k \in Callers, FoundRead(k) PROVE ProtoInv'
  <2>1. /\ ppc[k] = "check" /\ ppc' \in [Callers -> Places] /\ ppc'[k] = "use"
        /\ \A j \in Callers \ {k} : ppc'[j] = ppc[j]
    BY <1>6, AtMoves DEF FoundRead
  <2>2. /\ saw' \in [Callers -> Errors] /\ saw'[k] = headerErr
        /\ \A j \in Callers \ {k} : saw'[j] = saw[j]
    BY <1>6 DEF FoundRead, ProtoTypes
  <2>3. MuHeld'
    BY <1>6, <2>1, SMTT(30) DEF FoundRead, MuHeld
  <2>4. ProtoTypes' /\ OneReader' /\ HeaderTaken'
    BY <1>6, <2>1, <2>2, SMTT(30) DEF FoundRead, ProtoTypes, OneReader, HeaderTaken
  <2>5. OutcomeShared'
    BY <1>6, <2>1, <2>2 DEF FoundRead, OutcomeShared, HeaderTaken
  <2> QED BY <2>3, <2>4, <2>5
<1>7. ASSUME NEW k \in Callers, StartRead(k) PROVE ProtoInv'
  <2>1. /\ ppc[k] = "check" /\ ppc' \in [Callers -> Places] /\ ppc'[k] = "select"
        /\ \A j \in Callers \ {k} : ppc'[j] = ppc[j]
    BY <1>7, AtMoves DEF StartRead
  <2>2. goro = "none"
    BY <1>7, <2>1, SMTT(30) DEF StartRead, MuHeld, OneReader
  <2>3. ProtoTypes' /\ MuHeld' /\ HeaderTaken' /\ OutcomeShared'
    BY <1>7, <2>1 DEF StartRead, ProtoTypes, MuHeld, HeaderTaken, OutcomeShared
  <2>4. OneReader'
    BY <1>7, <2>1, <2>2 DEF StartRead, OneReader
  <2> QED BY <2>3, <2>4
<1>8. ASSUME NEW k \in Callers, NEW e \in Errors, At(k, "select", "use"), Outcome(k, e),
             e = "nil" => goroRes = "ok", hasHeader' <=> (e = "nil"),
             UNCHANGED <<bad, offN, goro, goroRes, appN>>
      PROVE  ProtoInv'
  <2>1. /\ ppc[k] = "select" /\ ppc' \in [Callers -> Places] /\ ppc'[k] = "use"
        /\ \A j \in Callers \ {k} : ppc'[j] = ppc[j]
    BY <1>8, AtMoves
  <2>2. /\ saw' \in [Callers -> Errors] /\ saw'[k] = e
        /\ \A j \in Callers \ {k} : saw'[j] = saw[j]
    BY <1>8 DEF Outcome, ProtoTypes
  <2>3. ~isHeaderRead /\ ~hasHeader /\ goro # "none"
    BY <2>1 DEF OneReader, HeaderTaken
  <2>4. \A j \in Callers \ {k} : ppc[j] \notin {"check", "select", "use"}
    BY <2>1, <2>3, SMTT(30) DEF MuHeld, OutcomeShared
  <2>5. ProtoTypes' /\ MuHeld'
    BY <1>8, <2>1, <2>2, <2>4 DEF Outcome, ProtoTypes, MuHeld
  <2>6. OneReader'
    BY <1>8, <2>1, <2>4 DEF Outcome, OneReader
  <2>7. HeaderTaken'
    BY <1>8, <2>3 DEF Outcome, ProtoTypes, HeaderTaken
  <2>8. OutcomeShared'
    BY <1>8, <2>1, <2>2, <2>4 DEF Outcome, OutcomeShared
  <2> QED BY <2>5, <2>6, <2>7, <2>8
<1>9. ASSUME NEW k \in Callers, TimedOut(k) PROVE ProtoInv'
  <2>1. ppc[k] = "select" /\ ~hasHeader
    BY <1>9 DEF TimedOut, At, OneReader, HeaderTaken
  <2>2. hasHeader' <=> ("timeout" = "nil")
    BY <1>9, <2>1 DEF TimedOut
  <2> QED BY <1>8, <1>9, <2>2 DEF TimedOut
<1>10. ASSUME NEW k \in Callers, GotResult(k) PROVE ProtoInv'
  <2> DEFINE e == IF goroRes = "ok" THEN "nil" ELSE goroRes
  <2>1. e \in Errors /\ (e = "nil" => goroRes = "ok") /\ (hasHeader' <=> (e = "nil"))
    BY <1>10, ZenonT(40) DEF GotResult, ProtoTypes
  <2> HIDE DEF e
  <2>2. At(k, "select", "use") /\ Outcome(k, e) /\ UNCHANGED <<bad, offN, goro, goroRes, appN>>
    BY <1>10 DEF GotResult, e
  <2> QED BY <1>8, <2>1, <2>2
<1>11. ASSUME NEW k \in Callers, AppReads(k) PROVE ProtoInv'
  <2>1. /\ ppc[k] = "use" /\ ppc' \in [Callers -> Places] /\ ppc'[k] = "idle"
        /\ \A j \in Callers \ {k} : ppc'[j] = ppc[j]
    BY <1>11, AtMoves DEF AppReads
  <2>2. hasHeader /\ goroRes = "ok"
    BY <1>11, <2>1, ZenonT(40) DEF AppReads, OutcomeShared, HeaderTaken
  <2>3. ProtoTypes' /\ HeaderTaken'
    BY <1>11, <2>1, <2>2, ProxyProtoAssumption, SMTT(30) DEF AppReads, ProtoTypes, HeaderTaken
  <2>4. MuHeld' /\ OneReader' /\ OutcomeShared'
    BY <1>11, <2>1, ZenonT(40) DEF AppReads, MuHeld, OneReader, OutcomeShared
  <2> QED BY <2>3, <2>4, SMTT(30)
<1>12. ASSUME NEW k \in Callers, Used(k) PROVE ProtoInv'
  <2>1. /\ ppc[k] = "use" /\ ppc' \in [Callers -> Places] /\ ppc'[k] = "idle"
        /\ \A j \in Callers \ {k} : ppc'[j] = ppc[j]
    BY <1>12, AtMoves, SMTT(30) DEF Used
  <2> QED
    BY <1>12, <2>1, Zenon DEF Used, ProtoTypes, MuHeld, OneReader, HeaderTaken, OutcomeShared
<1>13. CASE UNCHANGED protoVars
  BY <1>13, OutsideStep DEF protoVars
<1> QED
  BY <1>1, <1>2, <1>3, <1>4, <1>5, <1>6, <1>7, <1>9, <1>10, <1>11, <1>12, <1>13, Zenon
     DEF ProtoNext, Caller

(* HeaderFirst holds for any number of goroutines that use the connection  *)
(* (proxyproto/net.go): one header is read, all calls see its outcome, and *)
(* the application gets what follows it.                                   *)
THEOREM HeaderFirstAlways == ProtoSpec => []HeaderFirst
<1>1. ProtoInv => HeaderFirst
  <2> SUFFICES ASSUME ProtoInv PROVE AppAfterHeader
    BY DEF ProtoInv, HeaderFirst
  <2> QED BY DEF ProtoInv, HeaderTaken, AppAfterHeader
<1> QED BY <1>1, ProtoInitInv, ProtoNextInv, PTL DEF ProtoSpec

-----------------------------------------------------------------------------
(* The lists of the model, with their indices as numbers.                  *)
LEMMA TLVShape ==
  ASSUME NEW q \in TLVLists
  PROVE  /\ q \in Seq([type : Nat, at : Nat, len : Nat]) /\ Len(q) \in Nat
         /\ DOMAIN q = 1 .. Len(q)
         /\ \A i \in 1 .. Len(q) : /\ q[i] \in [type : Nat, at : Nat, len : Nat]
                                   /\ Past(q[i]) \in Nat /\ q[i].at + 3 <= Past(q[i])
         /\ Len(q) > 0 => q[1].at = 0
         /\ \A i, j \in 1 .. Len(q) : i < j => Past(q[i]) <= q[j].at
         /\ \A i \in 1 .. Len(q) : i + 1 \in 1 .. Len(q) => Past(q[i]) = q[i + 1].at
<1>1. q \in Seq([type : Nat, at : Nat, len : Nat])
  BY HeaderAssumption
<1>2. Len(q) \in Nat /\ DOMAIN q = 1 .. Len(q)
  BY <1>1
<1>3. ASSUME NEW i \in 1 .. Len(q)
      PROVE  /\ q[i] \in [type : Nat, at : Nat, len : Nat]
             /\ Past(q[i]) \in Nat /\ q[i].at + 3 <= Past(q[i])
  <2>1. q[i] \in [type : Nat, at : Nat, len : Nat]
    BY <1>1, ElementOfSeq, Zenon
  <2> QED
    BY <2>1, SMTT(30) DEF Past
<1>4. Len(q) > 0 => q # <<>>
  BY <1>1
<1>5. /\ q # <<>> => q[1].at = 0
      /\ \A i, j \in 1 .. Len(q) : i < j => Past(q[i]) <= q[j].at
      /\ \A i \in 1 .. Len(q) : i + 1 \in 1 .. Len(q) => Past(q[i]) = q[i + 1].at
  BY HeaderAssumption, <1>2, Zenon
<1> QED
  BY <1>1, <1>2, <1>3, <1>4, <1>5, Zenon

(* The bytes of a TLV are where it begins: no other TLV covers them.       *)
LEMMA ByteHere ==
  ASSUME NEW q \in TLVLists, NEW i \in 1 .. Len(q), NEW p \in Nat,
         q[i].at < p, p <= Past(q[i])
  PROVE  ByteAt(q, p) = CASE p = q[i].at + 2 -> q[i].len \div 256
                          [] p = q[i].at + 3 -> q[i].len % 256
                          [] OTHER -> q[i].type
<1> DEFINE j == CHOOSE x \in DOMAIN q : q[x].at < p /\ p <= Past(q[x])
<1>1. i \in DOMAIN q /\ DOMAIN q = 1 .. Len(q) /\ Len(q) \in Nat
  BY TLVShape
<1>2. j \in DOMAIN q /\ q[j].at < p /\ p <= Past(q[j])
  BY <1>1, Zenon
<1>3. ASSUME NEW k \in 1 .. Len(q), q[k].at < p, p <= Past(q[k]) PROVE k = i
  <2>1. \A x, y \in 1 .. Len(q) : x < y => Past(q[x]) <= q[y].at
    BY TLVShape, Zenon
  <2>2. q[i].at \in Nat /\ q[k].at \in Nat /\ Past(q[i]) \in Nat /\ Past(q[k]) \in Nat
    <3>1. q[i] \in [type : Nat, at : Nat, len : Nat] /\ q[k] \in [type : Nat, at : Nat, len : Nat]
      BY TLVShape, Zenon
    <3>2. Past(q[i]) \in Nat /\ Past(q[k]) \in Nat
      BY TLVShape, Zenon
    <3> QED
      BY <3>1, <3>2
  <2>3. i < k => Past(q[i]) <= q[k].at
    BY <2>1, Zenon
  <2>4. k < i => Past(q[k]) <= q[i].at
    BY <2>1, Zenon
  <2> QED
    BY <2>2, <2>3, <2>4, <1>3, <1>1
<1>4. j = i
  <2> HIDE DEF j
  <2> QED
    BY <1>1, <1>2, <1>3, Zenon
<1> QED
  BY <1>4, Zenon DEF ByteAt

(* As many bytes as the last TLV ends at.                                  *)
LEMMA EncodeShape ==
  ASSUME NEW q \in TLVLists
  PROVE  /\ EncodedLen(q) \in Nat /\ Len(Encode(q)) = EncodedLen(q)
         /\ Encode(q) \in Seq({ByteAt(q, p) : p \in 1 .. EncodedLen(q)})
         /\ \A p \in 1 .. EncodedLen(q) : Encode(q)[p] = ByteAt(q, p)
<1>1. EncodedLen(q) \in Nat
  <2>1. CASE q = <<>>
    BY <2>1 DEF EncodedLen
  <2>2. CASE q # <<>>
    <3>1. q \in Seq([type : Nat, at : Nat, len : Nat])
      BY TLVShape, Zenon
    <3>2. Len(q) \in 1 .. Len(q)
      BY <3>1, <2>2
    <3>3. Past(q[Len(q)]) \in Nat
      BY <3>2, TLVShape, Zenon
    <3> QED
      BY <3>3, <2>2, Zenon DEF EncodedLen
  <2> QED
    BY <2>1, <2>2
<1> DEFINE n == EncodedLen(q)
           S == {ByteAt(q, p) : p \in 1 .. n}
<1>2. \A p \in 1 .. n : ByteAt(q, p) \in S
  BY Zenon
<1> HIDE DEF n, S
<1>3. n \in Nat
  BY <1>1 DEF n
<1>4. Encode(q) = [p \in 1 .. n |-> ByteAt(q, p)]
  BY Zenon DEF Encode, n
<1>5. Encode(q) \in Seq(S) /\ Len(Encode(q)) = n
  BY <1>2, <1>3, <1>4
<1>6. \A p \in 1 .. n : Encode(q)[p] = ByteAt(q, p)
  BY <1>4, Zenon
<1> QED
  BY <1>3, <1>5, <1>6, Zenon DEF n, S

(* Two bytes hold the length.                                              *)
LEMMA TwoBytes ==
  ASSUME NEW n \in Nat
  PROVE  n \div 256 \in Nat /\ n % 256 \in Nat /\ (n \div 256) * 256 + (n % 256) = n
OBVIOUS

(* The bytes from o to e are a TLV of n bytes.                             *)
HoldsTLV(raw, o, e, ty, n) ==
  /\ o \in Nat /\ n \in Nat /\ ty \in Nat /\ e = o + 3 + n
  /\ \A p \in Nat : o < p /\ p <= e =>
       raw[p] = CASE p = o + 2 -> n \div 256 [] p = o + 3 -> n % 256 [] OTHER -> ty

(* What is read there.                                                     *)
EndAt(raw, o) == o + 3 + raw[o + 2] * 256 + raw[o + 3]

ReadsTLV(raw, o, e, ty, n) ==
  /\ raw[o + 1] = ty
  /\ EndAt(raw, o) = e
  /\ SubSeq(raw, o + 3 + 1, e) = [k \in 1 .. n |-> ty]

LEMMA ReadBytes ==
  ASSUME NEW raw, NEW o, NEW e, NEW ty, NEW n, HoldsTLV(raw, o, e, ty, n)
  PROVE  ReadsTLV(raw, o, e, ty, n)
<1> o \in Nat /\ n \in Nat /\ ty \in Nat /\ e = o + 3 + n
  BY DEF HoldsTLV
<1>1. /\ o + 1 \in Nat /\ o < o + 1 /\ o + 1 <= e /\ o + 1 # o + 2 /\ o + 1 # o + 3
      /\ o + 2 \in Nat /\ o < o + 2 /\ o + 2 <= e
      /\ o + 3 \in Nat /\ o < o + 3 /\ o + 3 <= e /\ o + 3 # o + 2
  OBVIOUS
<1>2. raw[o + 1] = ty
  BY <1>1, Zenon DEF HoldsTLV
<1>3. raw[o + 2] = n \div 256
  BY <1>1, Zenon DEF HoldsTLV
<1>4. raw[o + 3] = n % 256
  BY <1>1, Zenon DEF HoldsTLV
<1>5. o + 3 + raw[o + 2] * 256 + raw[o + 3] = e
  <2> DEFINE d == n \div 256
             m == n % 256
  <2>1. d \in Nat /\ m \in Nat /\ d * 256 + m = n /\ raw[o + 2] = d /\ raw[o + 3] = m
    <3>1. d \in Nat /\ m \in Nat /\ d * 256 + m = n
      BY TwoBytes
    <3> QED
      BY <3>1, <1>3, <1>4
  <2> HIDE DEF d, m
  <2>2. o + 3 + d * 256 + m = e
    BY <2>1
  <2> QED
    BY <2>1, <2>2, Zenon
<1>6. ASSUME NEW p \in o + 4 .. e PROVE raw[p] = ty
  <2>1. p \in Nat /\ o < p /\ p <= e /\ p # o + 2 /\ p # o + 3
    OBVIOUS
  <2> QED
    BY <2>1, Zenon DEF HoldsTLV
<1>7. SubSeq(raw, o + 3 + 1, e) = [k \in 1 .. n |-> ty]
  <2> DEFINE b == o + 3 + 1
             s == SubSeq(raw, b, e)
             r == [k \in 1 .. n |-> ty]
  <2>1. \A p \in b .. e : raw[p] = ty
    <3>1. b = o + 4
      OBVIOUS
    <3> QED
      BY <3>1, <1>6, Zenon
  <2>2. b \in Int /\ e \in Int /\ e = b + n - 1
    OBVIOUS
  <2>3. r \in Seq(Nat) /\ Len(r) = n /\ \A k \in 1 .. n : r[k] = ty
    BY SMTT(30)
  <2> HIDE DEF b, r
  <2>4. /\ s \in Seq(Nat) /\ Len(s) = IF b <= e THEN e - b + 1 ELSE 0
        /\ \A k \in 1 .. e - b + 1 : s[k] = raw[b + k - 1]
    BY <2>1, <2>2, SubSeqProperties, SMTT(30)
  <2> HIDE DEF s
  <2>5. Len(s) = n
    BY <2>2, <2>4
  <2>6. ASSUME NEW k \in 1 .. n PROVE s[k] = ty
    <3>1. k \in 1 .. e - b + 1 /\ b + k - 1 \in b .. e
      BY <2>2
    <3> QED
      BY <3>1, <2>1, <2>4, Zenon
  <2>7. s = r
    BY <2>3, <2>4, <2>5, <2>6, SeqEqual
  <2> QED
    BY <2>7 DEF s, r, b
<1> QED
  BY <1>2, <1>5, <1>7, Zenon DEF ReadsTLV, EndAt

(* What a turn of ParseTLVs reads where a TLV begins.                      *)
LEMMA ReadTLV ==
  ASSUME NEW q \in TLVLists, NEW i \in 1 .. Len(q), Past(q[i]) <= EncodedLen(q),
         NEW o, o = q[i].at
  PROVE  ReadsTLV(Encode(q), o, Past(q[i]), q[i].type, q[i].len)
<1>1. q[i] \in [type : Nat, at : Nat, len : Nat]
  BY TLVShape, Zenon
<1>2. o \in Nat /\ q[i].len \in Nat /\ q[i].type \in Nat /\ Past(q[i]) = o + 3 + q[i].len
  BY <1>1 DEF Past
<1>3. ASSUME NEW p \in Nat, o < p, p <= Past(q[i])
      PROVE  Encode(q)[p] = CASE p = o + 2 -> q[i].len \div 256
                              [] p = o + 3 -> q[i].len % 256
                              [] OTHER -> q[i].type
  <2>1. ByteAt(q, p) = CASE p = q[i].at + 2 -> q[i].len \div 256
                          [] p = q[i].at + 3 -> q[i].len % 256
                          [] OTHER -> q[i].type
    BY <1>3, ByteHere, ZenonT(40)
  <2>2. EncodedLen(q) \in Nat
    BY EncodeShape, Zenon
  <2>3. p \in 1 .. EncodedLen(q)
    BY <2>2, <1>2, <1>3
  <2>4. Encode(q)[p] = ByteAt(q, p)
    BY <2>3, EncodeShape, Zenon
  <2> QED
    BY <2>1, <2>4, Zenon
<1>4. HoldsTLV(Encode(q), o, Past(q[i]), q[i].type, q[i].len)
  BY <1>2, <1>3, Zenon DEF HoldsTLV
<1> QED
  BY <1>4, ReadBytes, Zenon

-----------------------------------------------------------------------------
(* ParseTLVs has taken the first k of the list: it is then where the next  *)
(* one begins, and after the second at or beyond the end.                  *)
Taken(q, c, k) ==
  /\ k \in 0 .. Seen(q)
  /\ c.offset \in Nat
  /\ k = 0 => c.offset = 0
  /\ k = 1 => c.offset = Past(q[1])
  /\ k = 2 => EncodedLen(q) <= c.offset
  /\ c.map = {Entry(q[i]) : i \in 1 .. k}

LEMMA PastIs ==
  ASSUME NEW t \in [type : Nat, at : Nat, len : Nat]
  PROVE  t.at \in Nat /\ t.len \in Nat /\ Past(t) = t.at + 3 + t.len
BY DEF Past

LEMMA OnePast ==
  ASSUME NEW l \in Nat, NEW p, p = 0 + 3 + l
  PROVE  /\ p \in Nat /\ p <= p /\ p <= p + 3
         /\ l > 0 => 0 + 3 < p
         /\ l = 0 => p <= 0 + 3
OBVIOUS

LEMMA TwoPast ==
  ASSUME NEW l1 \in Nat, NEW l2 \in Nat,
         NEW p1, p1 = 0 + 3 + l1, NEW p2, p2 = p1 + 3 + l2
  PROVE  /\ p1 \in Nat /\ p2 \in Nat /\ 0 + 3 < p2
         /\ p1 <= p2 /\ p2 <= p2
         /\ l2 > 0 => p1 + 3 < p2
         /\ l2 = 0 => p2 <= p1 + 3
BY SMTT(30)

(* The loop comes to all of them, or to all but an empty last one.         *)
LEMMA SeenIs ==
  ASSUME NEW q \in TLVLists
  PROVE  /\ Seen(q) \in Nat /\ Len(q) \in Nat /\ Seen(q) <= Len(q)
         /\ \/ Seen(q) = Len(q) /\ (Len(q) > 0 => q[Len(q)].len > 0)
            \/ Seen(q) + 1 = Len(q) /\ q[Len(q)].len = 0
<1>1. q \in Seq([type : Nat, at : Nat, len : Nat]) /\ Len(q) \in Nat
  BY TLVShape, Zenon
<1>2. CASE q = <<>>
  <2>1. Seen(q) = Len(q) /\ Len(q) = 0
    BY <1>2 DEF Seen
  <2> QED
    BY <2>1
<1>3. CASE q # <<>>
  <2>1. Len(q) \in 1 .. Len(q) /\ Len(q) > 0
    BY <1>1, <1>3
  <2>2. q[Len(q)].len \in Nat
    <3>1. q[Len(q)] \in [type : Nat, at : Nat, len : Nat]
      BY <2>1, TLVShape, Zenon
    <3> QED
      BY <3>1
  <2>3. Seen(q) = IF q[Len(q)].len = 0 THEN Len(q) - 1 ELSE Len(q)
    BY <1>3, Zenon DEF Seen
  <2> QED
    BY <2>1, <2>2, <2>3, <1>1
<1> QED
  BY <1>2, <1>3

LEMMA TakenAt ==
  ASSUME NEW q \in TLVLists, Short(q), NEW c, NEW k, Taken(q, c, k)
  PROVE  /\ k = Seen(q) => EncodedLen(q) <= c.offset + 3
         /\ k < Seen(q) => /\ c.offset = q[k + 1].at
                           /\ Past(q[k + 1]) <= EncodedLen(q)
                           /\ c.offset + 3 < EncodedLen(q)
<1>1. q \in Seq([type : Nat, at : Nat, len : Nat]) /\ Len(q) \in Nat
  BY TLVShape, Zenon
<1>2. Len(q) <= 2 /\ k \in 0 .. Seen(q) /\ c.offset \in Nat
  BY Zenon DEF Short, Taken
<1>s. /\ Seen(q) \in Nat
      /\ \/ Seen(q) = Len(q) /\ (Len(q) > 0 => q[Len(q)].len > 0)
         \/ Seen(q) + 1 = Len(q) /\ q[Len(q)].len = 0
  BY SeenIs, Zenon
<1>3. Len(q) = 0 \/ Len(q) = 1 \/ Len(q) = 2
  <2>1. Len(q) \in Nat
    BY TLVShape, Zenon
  <2>2. ASSUME NEW n \in Nat, n <= 2 PROVE n = 0 \/ n = 1 \/ n = 2
    BY <2>2, SMTT(30)
  <2> QED
    BY <2>1, <2>2, <1>2, Zenon
<1>4. CASE Len(q) = 0
  <2>1. EncodedLen(q) = 0
    BY <1>1, <1>4 DEF EncodedLen
  <2>2. Seen(q) = 0 /\ ~(k < Seen(q)) /\ 0 <= c.offset + 3
    BY <1>2, <1>s, <1>4
  <2> QED
    BY <2>1, <2>2, Zenon
<1>5. CASE Len(q) = 1
  <2>1. q # <<>> /\ 1 \in 1 .. Len(q)
    BY <1>5, <1>1
  <2>2. EncodedLen(q) = Past(q[1])
    BY <2>1, <1>5 DEF EncodedLen
  <2>3. q[1] \in [type : Nat, at : Nat, len : Nat] /\ q[1].at = 0
    <3>1. q[1] \in [type : Nat, at : Nat, len : Nat]
      BY <2>1, TLVShape, Zenon
    <3>2. Len(q) > 0
      BY <1>5
    <3> QED
      BY <3>1, <3>2, TLVShape, Zenon
  <2>4. q[1].len \in Nat /\ Past(q[1]) = 0 + 3 + q[1].len
    BY <2>3, PastIs, Zenon
  <2>5. /\ Past(q[1]) <= Past(q[1]) /\ Past(q[1]) <= Past(q[1]) + 3
        /\ q[1].len > 0 => 0 + 3 < Past(q[1])
        /\ q[1].len = 0 => Past(q[1]) <= 0 + 3
    BY <2>4, OnePast, Zenon
  <2>6. (k = 0 => c.offset = 0) /\ (k = 1 => c.offset = Past(q[1]))
    BY Zenon DEF Taken
  <2>7. \/ Seen(q) = 1 /\ k = 1 /\ ~(k < Seen(q))
        \/ Seen(q) = 1 /\ k = 0 /\ k # Seen(q) /\ q[1].len > 0
        \/ Seen(q) = 0 /\ k = 0 /\ ~(k < Seen(q)) /\ q[1].len = 0
    BY <1>2, <1>s, <1>5
  <2>8. 0 + 1 = 1
    OBVIOUS
  <2> QED
    BY <2>2, <2>3, <2>5, <2>6, <2>7, <2>8, Zenon
<1>6. CASE Len(q) = 2
  <2>1. q # <<>> /\ 1 \in 1 .. Len(q) /\ 2 \in 1 .. Len(q) /\ 1 + 1 \in 1 .. Len(q) /\ 1 + 1 = 2
    BY <1>6, <1>1
  <2>2. EncodedLen(q) = Past(q[2])
    BY <2>1, <1>6 DEF EncodedLen
  <2>3. q[1] \in [type : Nat, at : Nat, len : Nat] /\ q[2] \in [type : Nat, at : Nat, len : Nat]
    BY <2>1, TLVShape, Zenon
  <2>4. q[1].at = 0
    <3>1. Len(q) > 0
      BY <1>6
    <3> QED
      BY <3>1, TLVShape, Zenon
  <2>5. Past(q[1]) = q[2].at
    BY <2>1, TLVShape, Zenon
  <2>6. /\ q[1].len \in Nat /\ Past(q[1]) = 0 + 3 + q[1].len
        /\ q[2].len \in Nat /\ Past(q[2]) = Past(q[1]) + 3 + q[2].len
    BY <2>3, <2>4, <2>5, PastIs, Zenon
  <2>7. /\ 0 + 3 < Past(q[2]) /\ Past(q[1]) <= Past(q[2]) /\ Past(q[2]) <= Past(q[2])
        /\ q[2].len > 0 => Past(q[1]) + 3 < Past(q[2])
        /\ q[2].len = 0 => Past(q[2]) <= Past(q[1]) + 3
    BY <2>6, TwoPast, Zenon
  <2>8. /\ k = 0 => c.offset = 0
        /\ k = 1 => c.offset = Past(q[1])
        /\ k = 2 => EncodedLen(q) <= c.offset
    BY Zenon DEF Taken
  <2>9. EncodedLen(q) \in Nat
    BY EncodeShape, Zenon
  <2>10. CASE k = 0
    <3>1. k # Seen(q) /\ 0 + 1 = 1
      BY <2>10, <1>2, <1>s, <1>6
    <3> QED
      BY <3>1, <2>2, <2>4, <2>7, <2>8, <2>10, Zenon
  <2>11. CASE k = 1
    <3>1. (k = Seen(q) => q[2].len = 0) /\ (k < Seen(q) => q[2].len > 0)
      BY <2>11, <1>2, <1>s, <1>6
    <3> QED
      BY <3>1, <2>1, <2>2, <2>5, <2>7, <2>8, <2>11, Zenon
  <2>12. CASE k = 2
    <3>1. ~(k < Seen(q))
      BY <2>12, <1>2, <1>s, <1>6
    <3>2. EncodedLen(q) <= c.offset + 3
      BY <2>8, <2>9, <2>12, <1>2
    <3> QED
      BY <3>1, <3>2, Zenon
  <2>13. k = 0 \/ k = 1 \/ k = 2
    BY <1>2, <1>s, <1>6
  <2> QED
    BY <2>10, <2>11, <2>12, <2>13, Zenon
<1> QED
  BY <1>3, <1>4, <1>5, <1>6, Zenon

(* A turn of the loop: it stops with the last TLV taken, and takes the     *)
(* next one otherwise.                                                     *)
Turned(c, raw, end) ==
  [offset |-> c.offset + end,
   map |-> {m \in c.map : m[1] # raw[c.offset + 1]}
             \cup {<<raw[c.offset + 1], SubSeq(raw, c.offset + 3 + 1, end)>>}]

LEMMA TakesNext ==
  ASSUME NEW q \in TLVLists, Short(q), NEW c, NEW k, Taken(q, c, k), k < Seen(q),
         NEW end, end = EndAt(Encode(q), c.offset)
  PROVE  end <= EncodedLen(q) /\ Taken(q, Turned(c, Encode(q), end), k + 1)
<1> DEFINE o == c.offset
           raw == Encode(q)
           t == q[k + 1]
<1>1. /\ Len(q) \in Nat /\ Len(q) <= 2 /\ k \in 0 .. Seen(q) /\ o \in Nat
      /\ Seen(q) \in Nat /\ Seen(q) <= Len(q)
  BY SeenIs, Zenon DEF Short, Taken
<1>2. k + 1 \in 1 .. Len(q) /\ k \in Nat
  BY <1>1
<1>3. o = t.at /\ Past(t) <= EncodedLen(q)
  BY TakenAt, Zenon
<1>4. ReadsTLV(raw, o, Past(t), t.type, t.len)
  BY <1>2, <1>3, ReadTLV, Zenon
<1>5. end = Past(t) /\ raw[o + 1] = t.type
      /\ SubSeq(raw, o + 3 + 1, end) = [j \in 1 .. t.len |-> t.type]
  <2>1. end = Past(t)
    BY <1>4, Zenon DEF ReadsTLV
  <2> QED
    BY <2>1, <1>4, Zenon DEF ReadsTLV
<1>6. Past(t) \in Nat /\ EncodedLen(q) \in Nat
  BY <1>2, TLVShape, EncodeShape, ZenonT(40)
<1> DEFINE d == Turned(c, raw, end)
<1>7. d.offset = o + end /\ d.map = {m \in c.map : m[1] # t.type} \cup {Entry(t)}
  BY <1>5, Zenon DEF Turned, Entry
<1>8. d.map = {Entry(q[i]) : i \in 1 .. k + 1}
  <2>1. c.map = {Entry(q[i]) : i \in 1 .. k}
    BY Zenon DEF Taken
  <2>2. \A i \in 1 .. k : q[i].type # t.type
    <3>1. DOMAIN q = 1 .. Len(q)
      BY TLVShape, Zenon
    <3>2. \A i \in 1 .. k : i \in 1 .. Len(q) /\ i # k + 1
      BY <1>1
    <3> QED
      BY <3>1, <3>2, <1>2, Zenon DEF Short
  <2>3. \A i \in 1 .. k : Entry(q[i])[1] = q[i].type
    BY DEF Entry
  <2>4. {m \in c.map : m[1] # t.type} = c.map
    <3>1. \A m \in c.map : m[1] # t.type
      BY <2>1, <2>2, <2>3, Zenon
    <3> QED
      BY <3>1, Zenon
  <2>5. \A i : i \in 1 .. k + 1 <=> i \in 1 .. k \/ i = k + 1
    BY <1>2
  <2>6. {Entry(q[i]) : i \in 1 .. k + 1} = {Entry(q[i]) : i \in 1 .. k} \cup {Entry(t)}
    BY <2>5, Zenon
  <2> QED
    BY <1>7, <2>1, <2>4, <2>6, Zenon
<1>9. k + 1 \in 0 .. Seen(q) /\ d.offset \in Nat /\ end <= EncodedLen(q)
  <2>1. end \in Nat /\ end <= EncodedLen(q)
    BY <1>3, <1>5, <1>6, Zenon
  <2>2. k + 1 \in 0 .. Seen(q)
    BY <1>1, <1>2
  <2>3. ASSUME NEW x \in Nat, NEW y \in Nat PROVE x + y \in Nat
    BY <2>3
  <2>4. d.offset \in Nat
    BY <2>1, <2>3, <1>1, <1>7, ZenonT(40)
  <2> QED
    BY <2>1, <2>2, <2>4, Zenon
<1>10. k + 1 = 1 => d.offset = Past(q[1])
  <2> SUFFICES ASSUME k + 1 = 1 PROVE d.offset = Past(q[1])
    OBVIOUS
  <2>1. k = 0
    BY <1>2
  <2>2. o = 0
    BY <2>1, Zenon DEF Taken
  <2>3. end = Past(q[1])
    BY <1>5, ZenonT(40)
  <2>4. end \in Nat
    BY <1>5, <1>6, Zenon
  <2>5. ASSUME NEW x \in Nat PROVE 0 + x = x
    BY <2>5
  <2>6. d.offset = 0 + end
    BY <2>2, <1>7, Zenon
  <2> HIDE DEF d, o
  <2> QED
    BY <2>3, <2>4, <2>5, <2>6, Zenon
<1>11. k + 1 = 2 => EncodedLen(q) <= d.offset
  <2> SUFFICES ASSUME k + 1 = 2 PROVE EncodedLen(q) <= d.offset
    OBVIOUS
  <2>1. Len(q) = 2
    <3>1. ASSUME NEW n \in Nat, n <= 2, 2 \in 1 .. n PROVE n = 2
      BY <3>1
    <3>2. 2 \in 1 .. Len(q)
      BY <1>2, Zenon
    <3> QED
      BY <3>1, <3>2, <1>1, Zenon
  <2>2. EncodedLen(q) = Past(q[2])
    <3>1. q # <<>>
      <4>1. Len(<<>>) # 2
        OBVIOUS
      <4> QED
        BY <2>1, <4>1, Zenon
    <3> QED
      BY <2>1, <3>1 DEF EncodedLen
  <2>3. EncodedLen(q) = end
    BY <2>2, <1>5, Zenon
  <2>4. ASSUME NEW x \in Nat, NEW y \in Nat PROVE y <= x + y
    BY <2>4
  <2> QED
    BY <2>3, <2>4, <1>1, <1>6, <1>7, Zenon
<1>12. k + 1 # 0
  BY <1>2
<1> HIDE DEF d
<1>13. Taken(q, d, k + 1)
  BY <1>8, <1>9, <1>10, <1>11, <1>12, Zenon DEF Taken
<1> QED
  BY <1>9, <1>13, Zenon DEF d

-----------------------------------------------------------------------------
(* What follows the addresses is the TLVs.                                 *)
LEMMA AfterAddresses ==
  ASSUME NEW S, NEW a \in Seq(S), NEW b \in Seq(S)
  PROVE  SubSeq(a \o b, Len(a) + 1, Len(a \o b)) = b
<1> DEFINE ab == a \o b
           m == Len(a)
           n == Len(b)
<1>1. m \in Nat /\ n \in Nat
  OBVIOUS
<1>2. /\ ab \in Seq(S) /\ Len(ab) = m + n
      /\ \A i \in 1 .. m + n : ab[i] = IF i <= m THEN a[i] ELSE b[i - m]
  BY ConcatProperties, Zenon
<1>3. \A i \in 1 .. n : b[i] \in S
  BY ElementOfSeq, Zenon
<1> HIDE DEF ab, m, n
<1>4. ASSUME NEW i \in 1 .. n PROVE ab[m + 1 + i - 1] = b[i]
  <2>1. m + 1 + i - 1 \in 1 .. m + n /\ ~(m + 1 + i - 1 <= m) /\ (m + 1 + i - 1) - m = i
    BY <1>1
  <2> QED
    BY <2>1, <1>2, Zenon
<1>5. \A i \in m + 1 .. m + n : ab[i] \in S
  <2> SUFFICES ASSUME NEW i \in m + 1 .. m + n PROVE ab[i] \in S
    OBVIOUS
  <2>1. i - m \in 1 .. n /\ m + 1 + (i - m) - 1 = i
    BY <1>1
  <2> QED
    BY <2>1, <1>3, <1>4, Zenon
<1>6. m + 1 \in Int /\ m + n \in Int
  BY <1>1
<1> DEFINE x == m + 1
           y == m + n
           s == SubSeq(ab, x, y)
<1> HIDE DEF x, y
<1>7. /\ s \in Seq(S) /\ Len(s) = IF x <= y THEN y - x + 1 ELSE 0
      /\ \A i \in 1 .. y - x + 1 : s[i] = ab[x + i - 1]
  <2>1. x \in Int /\ y \in Int /\ \A i \in x .. y : ab[i] \in S
    BY <1>5, <1>6, Zenon DEF x, y
  <2> QED
    BY <2>1, SubSeqProperties
<1> HIDE DEF s
<1>8. y - x + 1 = n /\ (IF x <= y THEN y - x + 1 ELSE 0) = n
  BY <1>1 DEF x, y
<1>9. Len(s) = n /\ \A i \in 1 .. n : s[i] = b[i]
  BY <1>4, <1>7, <1>8, Zenon DEF x
<1>10. s = b
  BY <1>7, <1>9, SeqEqual DEF n
<1> QED
  BY <1>10, <1>2, Zenon DEF s, x, y, ab, m, n

LEMMA WholeSeq ==
  ASSUME NEW S, NEW t \in Seq(S)
  PROVE  SubSeq(t, 1, Len(t)) = t
<1> DEFINE n == Len(t)
           u == SubSeq(t, 1, n)
<1>1. n \in Nat /\ 1 \in Int /\ n \in Int /\ \A i \in 1 .. n : t[i] \in S
  BY ElementOfSeq
<1> HIDE DEF n
<1>2. /\ u \in Seq(S) /\ Len(u) = IF 1 <= n THEN n - 1 + 1 ELSE 0
      /\ \A i \in 1 .. n - 1 + 1 : u[i] = t[1 + i - 1]
  BY <1>1, SubSeqProperties
<1> HIDE DEF u
<1>3. Len(u) = n /\ \A i \in 1 .. n : u[i] = t[i]
  BY <1>1, <1>2
<1>4. u = t
  BY <1>2, <1>3, SeqEqual DEF n
<1> QED
  BY <1>4, Zenon DEF u, n

LEMMA TrailingShape ==
  ASSUME NEW w \in V2Wires
  PROVE  /\ Len(Trailing(w)) = w.addr + EncodedLen(w.list)
         /\ w.addr \in Nat /\ EncodedLen(w.list) \in Nat /\ Len(Trailing(w)) \in Nat
         /\ SubSeq(Trailing(w), w.addr + 1, Len(Trailing(w))) = Encode(w.list)
         /\ SubSeq(Trailing(w), 1, Len(Trailing(w))) = Trailing(w)
<1>1. w.addr \in Nat /\ w.list \in TLVLists
  BY DEF V2Wires
<1> DEFINE n == w.addr
           q == w.list
           a == [i \in 1 .. n |-> 0]
           B == {ByteAt(q, p) : p \in 1 .. EncodedLen(q)}
           S == {0} \cup B
<1>2. EncodedLen(q) \in Nat /\ Len(Encode(q)) = EncodedLen(q) /\ Encode(q) \in Seq(B)
  BY <1>1, EncodeShape, Zenon
<1> HIDE DEF B
<1>3. Encode(q) \in Seq(S)
  BY <1>2
<1> HIDE DEF n, q
<1>4. a \in Seq(S) /\ Len(a) = n
  BY <1>1 DEF n
<1> HIDE DEF a, S
<1>5. Trailing(w) = a \o Encode(q)
  BY Zenon DEF Trailing, a, n, q
<1>6. Len(Trailing(w)) = n + EncodedLen(q)
  BY <1>2, <1>3, <1>4, <1>5, ConcatProperties, Zenon
<1>7. SubSeq(Trailing(w), n + 1, Len(Trailing(w))) = Encode(q)
  BY <1>3, <1>4, <1>5, AfterAddresses, Zenon
<1>8. n \in Nat
  BY <1>1 DEF n
<1>9. Len(Trailing(w)) \in Nat
  BY <1>2, <1>6, <1>8
<1>10. Trailing(w) \in Seq(S)
  BY <1>3, <1>4, <1>5, ConcatProperties, Zenon
<1>11. SubSeq(Trailing(w), 1, Len(Trailing(w))) = Trailing(w)
  BY <1>10, WholeSeq, Zenon
<1> QED
  BY <1>2, <1>6, <1>7, <1>8, <1>9, <1>11, Zenon DEF n, q

-----------------------------------------------------------------------------
(* What ReadHeader returns. *)
HeaderOf(w) == IF w.arrives < 13 \/ w.v = 0 THEN Failed(13)
               ELSE IF w.v = 2 THEN readV2Header(w) ELSE readV1Header(w)

ReadExactly(w, h) ==
  IF HeaderLength(w) <= w.arrives /\ ~Unsupported(w)
  THEN /\ h.ok /\ h.used = HeaderLength(w)
       /\ h.local = Local(w) /\ h.addrs = Addressed(w)
       /\ w.v = 2 => h.raw = IF Addressed(w) THEN Encode(w.list) ELSE Trailing(w)
  ELSE ~h.ok

LEMMA V2Exact ==
  ASSUME NEW w \in V2Wires, WellFormed(w)
  PROVE  ReadExactly(w, HeaderOf(w))
<1> DEFINE tr == Trailing(w)
           l == Len(tr)
           offset == CASE w.cmd = "PROXY" /\ w.family = "ip4" -> 12
                       [] w.cmd = "PROXY" /\ w.family = "ip6" -> 36
                       [] OTHER -> 0
<1>1. w.v = 2 /\ w.arrives \in Nat /\ ~(w.v = 1)
  <2>1. w.v = 2 /\ w.arrives \in Arrives
    BY DEF V2Wires
  <2>2. ~(w.v = 1)
    BY <2>1
  <2> QED
    BY <2>1, <2>2, HeaderAssumption, Zenon
<1>2. /\ w.two
      /\ \/ w.cmd = "LOCAL"
         \/ w.cmd = "PROXY" /\ w.family = "ip4" /\ w.addr = 12
         \/ w.cmd = "PROXY" /\ w.family = "ip6" /\ w.addr = 36
         \/ w.cmd = "PROXY" /\ w.family = "unix" /\ w.addr = 216
         \/ w.cmd = "PROXY" /\ w.family = "unspec"
  BY <1>1, Zenon DEF WellFormed
<1> DEFINE ip == w.cmd = "PROXY" /\ w.family \in {"ip4", "ip6"}
<1>3. /\ Unsupported(w) <=> l > 2048 \/ (w.cmd = "PROXY" /\ (w.family = "unix" \/ l = 0))
      /\ Local(w) = (w.cmd = "LOCAL")
      /\ Addressed(w) = ip
  <2>1. Unsupported(w) <=> l > 2048 \/ (w.cmd = "PROXY" /\ (w.family = "unix" \/ l = 0))
    BY <1>1, SMT DEF Unsupported
  <2> QED
    BY <2>1, <1>1, Zenon DEF Local, Addressed
<1>4. /\ l = w.addr + EncodedLen(w.list) /\ w.addr \in Nat /\ EncodedLen(w.list) \in Nat /\ l \in Nat
      /\ SubSeq(tr, w.addr + 1, l) = Encode(w.list) /\ SubSeq(tr, 1, l) = tr
  BY TrailingShape, Zenon
<1>5. HeaderLength(w) = 16 + l
  BY <1>1 DEF HeaderLength
<1>6. readV2Header(w) =
        IF w.arrives < 16 \/ ~w.two \/ l > 2048 THEN Failed(16)
        ELSE IF w.arrives < 16 + l THEN Failed(w.arrives)
        ELSE IF w.cmd = "PROXY" /\ (l = 0 \/ l < offset \/ w.family = "unix") THEN Failed(16 + l)
        ELSE Parsed(16 + l, w.cmd = "LOCAL", offset > 0, SubSeq(tr, offset + 1, l))
  BY Zenon DEF readV2Header
<1>a. (offset = w.addr /\ offset > 0 /\ ip) \/ (offset = 0 /\ ~ip)
  <2>1. \/ offset = w.addr /\ offset > 0 /\ w.cmd = "PROXY" /\ w.family \in {"ip4", "ip6"}
        \/ offset = 0 /\ ~(w.cmd = "PROXY" /\ w.family \in {"ip4", "ip6"})
    BY <1>2
  <2> QED
    BY <2>1, Zenon
<1> HIDE DEF tr, l, offset, ip
<1>7. CASE 16 + l <= w.arrives /\ ~Unsupported(w)
  <2>1. ~(w.arrives < 13 \/ w.v = 0) /\ ~(w.arrives < 16) /\ ~(l > 2048) /\ ~(w.arrives < 16 + l)
    <3>1. ~(l > 2048)
      BY <1>3, <1>7, SMT
    <3> QED
      BY <3>1, <1>1, <1>4, <1>7, SMTT(30)
  <2>2. ~(w.cmd = "PROXY" /\ (l = 0 \/ l < offset \/ w.family = "unix"))
    <3>1. ~(l < offset)
      BY <1>a, <1>4
    <3> QED
      BY <3>1, <1>3, <1>7, SMT
  <2>3. HeaderOf(w) = Parsed(16 + l, w.cmd = "LOCAL", offset > 0, SubSeq(tr, offset + 1, l))
    <3>1. HeaderOf(w) = readV2Header(w)
      BY <2>1, <1>1 DEF HeaderOf
    <3>2. ~(w.arrives < 16 \/ ~w.two \/ l > 2048)
      BY <2>1, <1>2
    <3> QED
      BY <3>1, <3>2, <2>1, <2>2, <1>6
  <2>4. /\ (offset > 0) = Addressed(w)
        /\ SubSeq(tr, offset + 1, l) = IF Addressed(w) THEN Encode(w.list) ELSE tr
    <3>1. CASE offset = w.addr /\ offset > 0 /\ ip
      BY <3>1, <1>3, <1>4, Zenon
    <3>2. CASE offset = 0 /\ ~ip
      <4>1. offset + 1 = 1 /\ (offset > 0) = FALSE /\ Addressed(w) = FALSE
        BY <3>2, <1>3
      <4> QED
        BY <4>1, <3>2, <1>3, <1>4, Zenon
    <3> QED
      BY <1>a, <3>1, <3>2, Zenon
  <2>6. /\ HeaderOf(w).ok /\ HeaderOf(w).used = 16 + l
        /\ HeaderOf(w).local = (w.cmd = "LOCAL") /\ HeaderOf(w).addrs = (offset > 0)
        /\ HeaderOf(w).raw = SubSeq(tr, offset + 1, l)
    <3> DEFINE n == 16 + l
               x == w.cmd = "LOCAL"
               y == offset > 0
               z == SubSeq(tr, offset + 1, l)
    <3>1. HeaderOf(w) = Parsed(n, x, y, z)
      BY <2>3
    <3> HIDE DEF n, x, y, z
    <3>2. /\ HeaderOf(w).ok /\ HeaderOf(w).used = n
          /\ HeaderOf(w).local = x /\ HeaderOf(w).addrs = y /\ HeaderOf(w).raw = z
      BY <3>1 DEF Parsed
    <3> QED
      BY <3>2, Zenon DEF n, x, y, z
  <2>7. HeaderOf(w).local = Local(w) /\ HeaderOf(w).addrs = Addressed(w)
    BY <2>4, <2>6, <1>3, Zenon
  <2>8. HeaderOf(w).raw = IF Addressed(w) THEN Encode(w.list) ELSE Trailing(w)
    BY <2>4, <2>6, Zenon DEF tr
  <2> QED
    BY <2>6, <2>7, <2>8, <1>5, <1>7, Zenon DEF ReadExactly
<1>8. CASE ~(16 + l <= w.arrives /\ ~Unsupported(w))
  <2>2. \E n : HeaderOf(w) = Failed(n)
    <3>1. HeaderOf(w) = Failed(13) \/ HeaderOf(w) = readV2Header(w)
      BY <1>1, Zenon DEF HeaderOf
    <3>2. CASE Unsupported(w)
      <4>1. l > 2048 \/ (w.cmd = "PROXY" /\ (w.family = "unix" \/ l = 0))
        BY <3>2, <1>3, SMT
      <4>2. readV2Header(w) \in {Failed(16), Failed(w.arrives), Failed(16 + l)}
        BY <4>1, <1>6, SMTT(30)
      <4> QED
        BY <4>2, <3>1, Zenon
    <3>3. CASE ~(16 + l <= w.arrives)
      <4>1. w.arrives < 16 + l
        BY <1>1, <1>4, <3>3, SMTT(30)
      <4>2. readV2Header(w) \in {Failed(16), Failed(w.arrives)}
        BY <4>1, <1>6, SMTT(30)
      <4> QED
        BY <4>2, <3>1, Zenon
    <3> QED
      BY <1>8, <3>2, <3>3, Zenon
  <2>3. ~HeaderOf(w).ok
    BY <2>2 DEF Failed
  <2> QED
    BY <2>3, <1>5, <1>8, Zenon DEF ReadExactly
<1> QED
  BY <1>7, <1>8

LEMMA MinIs ==
  ASSUME NEW S, NEW n \in Nat, n \in S, \A p \in S : p \in Nat /\ n <= p
  PROVE  Min(S) = n
<1> DEFINE m == CHOOSE x \in S : \A y \in S : x =< y
<1>1. m \in S /\ \A y \in S : m =< y
  <2>1. \A y \in S : n =< y
    OBVIOUS
  <2> QED
    BY <2>1, Zenon
<1> HIDE DEF m
<1>2. m = n
  BY <1>1
<1> QED
  BY <1>2, Zenon DEF Min, m

(* A line's CRLF is found where it is, if it comes in time.                *)
LEMMA FindsCRLF ==
  ASSUME NEW w, NEW idx \in Nat, w.len \in Nat, w.arrives \in Nat, idx <= w.len, w.len <= 107
  PROVE  /\ idx < w.len /\ w.len <= w.arrives => readUntilCRLF(w, idx) = w.len
         /\ w.arrives < w.len => readUntilCRLF(w, idx) = 0
<1> DEFINE len == w.len
           found == {p \in Ends(w) : p > idx /\ p <= 107 /\ p <= w.arrives}
<1>1. len \in Ends(w) /\ \A p \in Ends(w) : p = len \/ p = len + 2
  BY DEF Ends
<1>2. ASSUME idx < w.len, w.len <= w.arrives PROVE readUntilCRLF(w, idx) = w.len
  <2>1. len \in found
    BY <1>1, <1>2
  <2>2. \A p \in found : p \in Nat /\ len <= p
    BY <1>1
  <2> HIDE DEF found
  <2>3. Min(found) = len
    BY <2>1, <2>2, MinIs
  <2>4. found # {}
    BY <2>1, Zenon
  <2> QED
    BY <2>3, <2>4, Zenon DEF readUntilCRLF, found
<1>3. ASSUME w.arrives < w.len PROVE readUntilCRLF(w, idx) = 0
  <2>1. found = {}
    BY <1>1, <1>3
  <2> QED
    BY <2>1, Zenon DEF readUntilCRLF
<1> QED
  BY <1>2, <1>3

(* A TCP6 line too short for the bytes read at once: what is read ends     *)
(* behind it, if at all.                                                   *)
LEMMA ShortTCP6 ==
  ASSUME NEW w \in V1Wires, w.proto = "TCP6", w.len \in Nat, w.arrives \in Nat, w.len < 24
  PROVE  ~readV1Header(w).ok
<1> DEFINE found == {p \in Ends(w) : p > 24 /\ p <= 107 /\ p <= w.arrives}
           end == IF 24 \in Ends(w) THEN 24 ELSE readUntilCRLF(w, 24)
<1>1. \A p \in Ends(w) : p = w.len \/ p = w.len + 2
  BY DEF Ends
<1>2. readUntilCRLF(w, 24) = IF found = {} THEN 0 ELSE Min(found)
  BY Zenon DEF readUntilCRLF
<1>3. found # {} => Min(found) = w.len + 2
  <2>1. \A p \in found : p \in Nat /\ w.len + 2 <= p /\ p = w.len + 2
    BY <1>1
  <2>2. w.len + 2 \in Nat
    OBVIOUS
  <2> HIDE DEF found
  <2>3. found # {} => w.len + 2 \in found
    BY <2>1, Zenon
  <2> QED
    BY <2>1, <2>2, <2>3, MinIs, Zenon
<1> HIDE DEF found
<1>4. end # w.len \/ end = 0
  <2>1. w.len + 2 # w.len /\ 24 # w.len
    OBVIOUS
  <2> QED
    BY <2>1, <1>2, <1>3, Zenon
<1>5. readV1Header(w) =
        IF w.arrives < 24 THEN Failed(24)
        ELSE IF end = 0 THEN Failed(107) ELSE parseV1Header(w, end)
  BY DEF readV1Header
<1> HIDE DEF end
<1>6. end # w.len => parseV1Header(w, end) = Failed(end)
  BY Zenon DEF parseV1Header
<1>7. \A n : ~Failed(n).ok
  BY DEF Failed
<1> QED
  BY <1>4, <1>5, <1>6, <1>7, Zenon

LEMMA V1Long ==
  ASSUME NEW w \in V1Wires, WellFormed(w), ~Unsupported(w)
  PROVE  ReadExactly(w, HeaderOf(w))
<1> DEFINE idx == CASE w.proto = "TCP4" -> 32 [] w.proto = "TCP6" -> 24 [] OTHER -> 13
           end == IF idx \in Ends(w) /\ w.proto # "UNKNOWN" THEN idx ELSE readUntilCRLF(w, idx)
<1>1. w.v = 1 /\ w.arrives \in Nat /\ w.len \in Nat
  <2>1. w.v = 1 /\ w.arrives \in Arrives /\ w.len \in Lines
    BY DEF V1Wires
  <2> QED
    BY <2>1, HeaderAssumption, Zenon
<1>2. /\ w.len <= 107
      /\ \/ w.proto = "UNKNOWN" /\ w.len >= 15
         \/ w.proto = "TCP4" /\ w.fields = "four" /\ w.len >= 32
         \/ w.proto = "TCP6" /\ w.fields = "four" /\ w.len >= 22
  BY <1>1 DEF WellFormed
<1>3. HeaderLength(w) = w.len /\ ~(w.v = 2) /\ ~(w.v = 0)
  BY <1>1 DEF HeaderLength
<1>u. /\ Unsupported(w) <=> w.proto = "TCP6" /\ w.len < 24
      /\ Local(w) = (w.proto = "UNKNOWN") /\ Addressed(w) = (w.proto # "UNKNOWN")
  BY <1>1, Zenon DEF Unsupported, Local, Addressed
<1>4. idx \in Nat /\ 13 <= idx /\ idx <= w.len /\ w.proto # "OTHER" /\ (w.proto = "UNKNOWN" => idx < w.len)
  BY <1>1, <1>2, <1>u
<1>5. readV1Header(w) =
        IF w.proto = "OTHER" \/ w.arrives < idx THEN Failed(idx)
        ELSE IF end = 0 THEN Failed(107)
        ELSE IF w.proto = "UNKNOWN" THEN Parsed(end, TRUE, FALSE, <<>>)
        ELSE parseV1Header(w, end)
  BY Zenon DEF readV1Header
<1>6. w.len \in Ends(w) /\ \A p \in Ends(w) : p = w.len \/ p = w.len + 2
  BY DEF Ends
<1> HIDE DEF idx
<1>7. CASE w.len <= w.arrives
  <2>1. end = w.len
    <3>1. CASE idx \in Ends(w) /\ w.proto # "UNKNOWN"
      <4>1. end = idx
        BY <3>1, Zenon
      <4>2. idx = w.len
        <5>1. idx = w.len \/ idx = w.len + 2
          BY <3>1, <1>6, Zenon
        <5> QED
          BY <5>1, <1>1, <1>4
      <4> QED
        BY <4>1, <4>2, Zenon
    <3>2. CASE ~(idx \in Ends(w) /\ w.proto # "UNKNOWN")
      <4>1. end = readUntilCRLF(w, idx)
        BY <3>2, Zenon
      <4>2. idx # w.len
        BY <3>2, <1>4, <1>6, <1>1
      <4>3. idx < w.len
        BY <4>2, <1>1, <1>4
      <4>4. readUntilCRLF(w, idx) = w.len
        BY <4>3, <1>1, <1>2, <1>4, <1>7, FindsCRLF, Zenon
      <4> QED
        BY <4>1, <4>4, Zenon
    <3> QED
      BY <3>1, <3>2
  <2> HIDE DEF end
  <2>2. ~(w.arrives < 13) /\ ~(w.arrives < idx) /\ end # 0
    BY <2>1, <1>1, <1>4, <1>7
  <2>3. HeaderOf(w) = readV1Header(w)
    BY <2>2, <1>3 DEF HeaderOf
  <2>4. readV1Header(w) = IF w.proto = "UNKNOWN" THEN Parsed(w.len, TRUE, FALSE, <<>>)
                          ELSE parseV1Header(w, w.len)
    BY <2>1, <2>2, <1>4, <1>5, Zenon
  <2>5. w.proto # "UNKNOWN" => parseV1Header(w, w.len) = Parsed(w.len, FALSE, TRUE, <<>>)
    BY <1>2, Zenon DEF parseV1Header
  <2>6. HeaderOf(w) = Parsed(w.len, w.proto = "UNKNOWN", w.proto # "UNKNOWN", <<>>)
    BY <2>3, <2>4, <2>5, Zenon
  <2>7. /\ HeaderOf(w).ok /\ HeaderOf(w).used = w.len
        /\ HeaderOf(w).local = (w.proto = "UNKNOWN") /\ HeaderOf(w).addrs = (w.proto # "UNKNOWN")
    BY <2>6 DEF Parsed
  <2> QED
    BY <2>7, <1>3, <1>7, <1>u, Zenon DEF ReadExactly
<1>8. CASE ~(w.len <= w.arrives)
  <2>1. w.arrives < w.len
    BY <1>1, <1>8
  <2>2. readUntilCRLF(w, idx) = 0
    BY <2>1, <1>1, <1>2, <1>4, FindsCRLF, Zenon
  <2>3. HeaderOf(w) = Failed(13) \/ HeaderOf(w) = readV1Header(w)
    BY <1>3, Zenon DEF HeaderOf
  <2>4. readV1Header(w) = Failed(idx) \/ readV1Header(w) = Failed(107)
    <3>1. CASE w.arrives < idx
      BY <3>1, <1>5, Zenon
    <3>2. CASE ~(w.arrives < idx)
      <4>1. idx # w.len /\ idx # w.len + 2
        BY <3>2, <2>1, <1>1, <1>4
      <4>2. idx \notin Ends(w)
        BY <4>1, <1>6, Zenon
      <4>3. end = 0
        BY <4>2, <2>2, Zenon
      <4> QED
        BY <4>3, <1>5, Zenon
    <3> QED
      BY <3>1, <3>2
  <2>5. ~HeaderOf(w).ok
    <3>1. \A n : ~Failed(n).ok
      BY DEF Failed
    <3> QED
      BY <2>3, <2>4, <3>1, Zenon
  <2> QED
    BY <2>5, <1>3, <1>8, Zenon DEF ReadExactly
<1> QED
  BY <1>7, <1>8

LEMMA V1Exact ==
  ASSUME NEW w \in V1Wires, WellFormed(w)
  PROVE  ReadExactly(w, HeaderOf(w))
<1>1. CASE ~Unsupported(w)
  BY <1>1, V1Long, Zenon
<1>2. CASE Unsupported(w)
  <2>1. w.v = 1 /\ w.arrives \in Nat /\ w.len \in Nat
    <3>1. w.v = 1 /\ w.arrives \in Arrives /\ w.len \in Lines
      BY DEF V1Wires
    <3> QED
      BY <3>1, HeaderAssumption, Zenon
  <2>2. w.proto = "TCP6" /\ w.len < 24
    BY <2>1, <1>2, Zenon DEF Unsupported
  <2>3. ~readV1Header(w).ok /\ ~(w.v = 2)
    BY <2>1, <2>2, ShortTCP6
  <2>4. ~Failed(13).ok
    BY DEF Failed
  <2>5. ~HeaderOf(w).ok
    BY <2>3, <2>4, Zenon DEF HeaderOf
  <2> QED
    BY <2>5, <1>2, Zenon DEF ReadExactly
<1> QED
  BY <1>1, <1>2

-----------------------------------------------------------------------------
(* What was read is a function of the wire, and ParseTLVs is in the middle *)
(* of a short list or done with all of it.                                 *)
HeaderInv ==
  /\ wire \in V1Wires \cup V2Wires \cup [v : {0}, arrives : Arrives]
  /\ hdr # <<>> => hdr = HeaderOf(wire)
  /\ hdr = <<>> => cursor = [offset |-> 0, map |-> {}] /\ tlvs = <<>>
  /\ tlvs # <<>> => wire \in V2Wires
  /\ hdr # <<>> /\ wire \in V2Wires /\ hdr.raw = Encode(wire.list) /\ Short(wire.list) =>
       /\ \E k \in 0 .. Seen(wire.list) : Taken(wire.list, cursor, k)
       /\ tlvs # <<>> => tlvs[1] = {Entry(wire.list[i]) : i \in 1 .. Seen(wire.list)}

LEMMA HeaderInvInit == HeaderInit => HeaderInv
  BY Zenon DEF HeaderInit, HeaderInv

LEMMA TakenNone ==
  ASSUME NEW q \in TLVLists
  PROVE  Taken(q, [offset |-> 0, map |-> {}], 0) /\ 0 \in 0 .. Seen(q)
<1>1. Seen(q) \in Nat
  BY SeenIs, Zenon
<1>2. 0 \in 0 .. Seen(q)
  BY <1>1
<1>3. {Entry(q[i]) : i \in 1 .. 0} = {}
  OBVIOUS
<1> QED
  BY <1>2, <1>3 DEF Taken

(* What a turn of the loop does to what is taken.                          *)
LEMMA TurnTakes ==
  ASSUME NEW q \in TLVLists, Short(q), NEW k, Taken(q, cursor, k), hdr.raw = Encode(q), ParseTLVs
  PROVE  \/ k = Seen(q) /\ tlvs' = <<cursor.map>> /\ cursor' = cursor
         \/ k + 1 \in 0 .. Seen(q) /\ Taken(q, cursor', k + 1) /\ tlvs' = tlvs
<1> DEFINE raw == Encode(q)
           o == cursor.offset
           end == EndAt(raw, o)
<1>1. Len(raw) = EncodedLen(q) /\ EncodedLen(q) \in Nat
  BY EncodeShape, Zenon
<1>2. IF ~(o + 3 < Len(raw)) THEN tlvs' = <<cursor.map>> /\ UNCHANGED cursor
      ELSE IF end > Len(raw) THEN tlvs' = <<{<<>>}>> /\ UNCHANGED cursor
      ELSE cursor' = Turned(cursor, raw, end) /\ UNCHANGED tlvs
  <2>1. LET h == hdr.raw IN
        IF ~(o + 3 < Len(h)) THEN tlvs' = <<cursor.map>> /\ UNCHANGED cursor
        ELSE IF EndAt(h, o) > Len(h) THEN tlvs' = <<{<<>>}>> /\ UNCHANGED cursor
        ELSE cursor' = Turned(cursor, h, EndAt(h, o)) /\ UNCHANGED tlvs
    BY Zenon DEF ParseTLVs, EndAt, Turned
  <2> QED
    BY <2>1, ZenonT(40)
<1>3. Seen(q) \in Nat /\ k \in 0 .. Seen(q) /\ o \in Nat /\ Len(q) \in Nat /\ Seen(q) <= Len(q)
  BY SeenIs, Zenon DEF Taken
<1>4. CASE k = Seen(q)
  <2>1. EncodedLen(q) <= o + 3
    BY <1>4, TakenAt, Zenon
  <2> HIDE DEF o, raw, end
  <2>2. ~(o + 3 < Len(raw))
    BY <2>1, <1>1, <1>3
  <2> QED
    BY <2>2, <1>2, <1>4, Zenon
<1>5. CASE k < Seen(q)
  <2>1. o + 3 < EncodedLen(q)
    BY <1>5, TakenAt, Zenon
  <2>2. end <= EncodedLen(q) /\ Taken(q, Turned(cursor, raw, end), k + 1)
    BY <1>5, TakesNext, Zenon
  <2>3. end \in Int /\ k + 1 \in 0 .. Seen(q)
    <3>1. k + 1 \in 1 .. Len(q)
      BY <1>3, <1>5
    <3>2. o = q[k + 1].at /\ Past(q[k + 1]) <= EncodedLen(q)
      BY <1>5, TakenAt, Zenon
    <3>3. end = Past(q[k + 1])
      BY <3>1, <3>2, ReadTLV, Zenon DEF ReadsTLV
    <3>4. Past(q[k + 1]) \in Nat
      BY <3>1, TLVShape, Zenon
    <3>5. k + 1 \in 0 .. Seen(q)
      BY <1>3, <1>5
    <3> HIDE DEF end
    <3> QED
      BY <3>5, <3>3, <3>4
  <2> HIDE DEF o, raw, end
  <2>4. o + 3 < Len(raw) /\ ~(end > Len(raw))
    BY <2>1, <2>2, <2>3, <1>1, SMTT(30)
  <2>5. cursor' = Turned(cursor, raw, end) /\ tlvs' = tlvs
    BY <2>4, <1>2, Zenon
  <2> QED
    BY <2>2, <2>3, <2>5, Zenon
<1>6. k = Seen(q) \/ k < Seen(q)
  BY <1>3
<1> QED
  BY <1>4, <1>5, <1>6

LEMMA HeaderInvNext == HeaderInv /\ [HeaderNext]_headerVars => HeaderInv'
<1> SUFFICES ASSUME HeaderInv, [HeaderNext]_headerVars PROVE HeaderInv'
  OBVIOUS
<1>1. CASE ReadHeader
  <2>1. /\ hdr = <<>> /\ hdr' = HeaderOf(wire) /\ wire' = wire
        /\ cursor' = cursor /\ tlvs' = tlvs
    BY <1>1, Zenon DEF ReadHeader, HeaderOf
  <2>2. /\ wire \in V1Wires \cup V2Wires \cup [v : {0}, arrives : Arrives]
        /\ cursor = [offset |-> 0, map |-> {}] /\ tlvs = <<>>
    BY <2>1, Zenon DEF HeaderInv
  <2>3. ASSUME wire \in V2Wires PROVE \E k \in 0 .. Seen(wire.list) : Taken(wire.list, cursor, k)
    <3>1. wire.list \in TLVLists
      BY <2>3 DEF V2Wires
    <3> QED
      BY <3>1, <2>2, TakenNone, Zenon
  <2>4. hdr' # <<>> => hdr' = HeaderOf(wire')
    BY <2>1, Zenon
  <2> QED
    BY <2>1, <2>2, <2>3, <2>4, Zenon DEF HeaderInv
<1>2. CASE ParseTLVs
  <2>1. hdr # <<>> /\ tlvs = <<>> /\ wire' = wire /\ hdr' = hdr
    BY <1>2, ZenonT(40) DEF ParseTLVs
  <2>2. ASSUME wire \in V2Wires, hdr.raw = Encode(wire.list), Short(wire.list)
        PROVE  /\ \E k \in 0 .. Seen(wire.list) : Taken(wire.list, cursor', k)
               /\ tlvs' # <<>> => tlvs'[1] = {Entry(wire.list[i]) : i \in 1 .. Seen(wire.list)}
    <3> DEFINE q == wire.list
    <3>1. q \in TLVLists
      BY <2>2 DEF V2Wires
    <3>2. PICK k \in 0 .. Seen(q) : Taken(q, cursor, k)
      BY <2>1, <2>2, Zenon DEF HeaderInv
    <3>3. \/ k = Seen(q) /\ tlvs' = <<cursor.map>> /\ cursor' = cursor
          \/ k + 1 \in 0 .. Seen(q) /\ Taken(q, cursor', k + 1) /\ tlvs' = tlvs
      BY <1>2, <2>2, <3>1, <3>2, TurnTakes, Zenon
    <3>4. CASE k = Seen(q) /\ tlvs' = <<cursor.map>> /\ cursor' = cursor
      <4>1. cursor.map = {Entry(q[i]) : i \in 1 .. k}
        BY <3>2, Zenon DEF Taken
      <4>3. cursor.map = {Entry(q[i]) : i \in 1 .. Seen(q)}
        BY <4>1, <3>4, Zenon
      <4>4. tlvs'[1] = cursor.map
        BY <3>4
      <4> QED
        BY <4>3, <4>4, <3>2, <3>4, Zenon
    <3>5. CASE k + 1 \in 0 .. Seen(q) /\ Taken(q, cursor', k + 1) /\ tlvs' = tlvs
      BY <3>5, <2>1, Zenon
    <3> QED
      BY <3>3, <3>4, <3>5, Zenon
  <2>3. wire \in V2Wires
    <3>1. wire.v = 2
      BY <1>2, Zenon DEF ParseTLVs
    <3>2. wire \notin V1Wires /\ wire \notin [v : {0}, arrives : Arrives]
      BY <3>1 DEF V1Wires
    <3> QED
      BY <3>2, Zenon DEF HeaderInv
  <2> QED
    BY <2>1, <2>2, <2>3, Zenon DEF HeaderInv
<1>3. CASE UNCHANGED headerVars
  BY <1>3, Zenon DEF headerVars, HeaderInv
<1> QED
  BY <1>1, <1>2, <1>3 DEF HeaderNext

(* HeaderInvariant (ReadHeader, proxyproto/proxy.go:72, and the loop of    *)
(* ParseTLVs, :51): the header is what ReadHeader makes of the wire, and   *)
(* of a short list of TLVs the first ones are in the map at every turn.    *)
THEOREM HeaderInvariant == HeaderSpec => []HeaderInv
<1> QED
  BY HeaderInvInit, HeaderInvNext, PTL DEF HeaderSpec

LEMMA HeaderInvExact == HeaderInv => HeaderExact
<1> SUFFICES ASSUME HeaderInv, hdr # <<>>, WellFormed(wire) PROVE
      IF HeaderLength(wire) <= wire.arrives /\ ~Unsupported(wire)
      THEN /\ hdr.ok /\ hdr.used = HeaderLength(wire)
           /\ hdr.local = Local(wire) /\ hdr.addrs = Addressed(wire)
           /\ RemoteAddr = "nil" <=> ~Local(wire) /\ ~Addressed(wire)
           /\ wire.v = 2 => hdr.raw = IF Addressed(wire) THEN Encode(wire.list) ELSE Trailing(wire)
           /\ tlvs # <<>> /\ (Addressed(wire) \/ wire.addr = 0) => TLVsParsed
      ELSE ~hdr.ok
  BY Zenon DEF HeaderExact
<1>1. wire \in V1Wires \/ wire \in V2Wires
  <2>1. wire \in [v : {0}, arrives : Arrives] => ~WellFormed(wire)
    BY DEF WellFormed
  <2> QED
    BY <2>1, Zenon DEF HeaderInv
<1>2. ReadExactly(wire, hdr)
  BY <1>1, V1Exact, V2Exact, Zenon DEF HeaderInv
<1> SUFFICES ASSUME HeaderLength(wire) <= wire.arrives, ~Unsupported(wire)
             PROVE  /\ RemoteAddr = "nil" <=> ~Local(wire) /\ ~Addressed(wire)
                    /\ tlvs # <<>> /\ (Addressed(wire) \/ wire.addr = 0) => TLVsParsed
  BY <1>2, Zenon DEF ReadExactly
<1>3. RemoteAddr = "nil" <=> ~Local(wire) /\ ~Addressed(wire)
  <2>1. hdr.ok /\ hdr.local = Local(wire) /\ hdr.addrs = Addressed(wire)
    BY <1>2, Zenon DEF ReadExactly
  <2>2. "conn" # "nil" /\ "header" # "nil"
    OBVIOUS
  <2> QED
    BY <2>1, <2>2, Zenon DEF RemoteAddr
<1>4. ASSUME tlvs # <<>>, Addressed(wire) \/ wire.addr = 0 PROVE TLVsParsed
  <2>1. wire \in V2Wires
    BY <1>4, Zenon DEF HeaderInv
  <2>2. wire.v = 2
    BY <2>1 DEF V2Wires
  <2>3. hdr.raw = IF Addressed(wire) THEN Encode(wire.list) ELSE Trailing(wire)
    BY <2>2, <1>2, Zenon DEF ReadExactly
  <2>4. wire.addr = 0 => Trailing(wire) = Encode(wire.list)
    <3>1. 0 + 1 = 1
      OBVIOUS
    <3> QED
      BY <3>1, <2>1, TrailingShape, Zenon
  <2>5. hdr.raw = Encode(wire.list)
    BY <2>3, <2>4, <1>4, Zenon
  <2> QED
    BY <2>1, <2>5, <1>4, Zenon DEF HeaderInv, TLVsParsed
<1> QED
  BY <1>3, <1>4, Zenon

(* HeadersAreReadExactly (proxyproto/proxy.go:72 ReadHeader): for lines,   *)
(* deliveries and TLVs of any length, a header of the protocol that        *)
(* arrives in full takes exactly its bytes, and is refused only if it is   *)
(* of a kind the code does not support; RemoteAddr answers nil after a     *)
(* PROXY command of the family unspec and after no other; of the TLVs, two *)
(* at most, all but an empty last one are in the map ParseTLVs returns;    *)
(* a header that is cut is refused.                                        *)
THEOREM HeadersAreReadExactly == HeaderSpec => []HeaderExact
<1> QED
  BY HeaderInvariant, HeaderInvExact, PTL
=============================================================================
