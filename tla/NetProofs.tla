----------------------------- MODULE NetProofs -----------------------------
(* What is counted of connections is true, for any number of connections,  *)
(* dials, listeners and goroutines: the gauge of conntrack, the metrics of *)
(* the dialer and of the listeners, and the tokens of the rate limit.      *)
EXTENDS Net, ConnTrack, RateLimit, FiniteSetTheorems, TLAPS

-----------------------------------------------------------------------------
(* OnClose runs once, inside Close, and the gauge of active connections is *)
(* exact, for any number of connections and of goroutines closing them.    *)

Counted == {c \in Conns : ~Uncounted(c)}
Opened  == {c \in Conns : under[c] # "none"}

(* Subsets of a finite set, which is all that the counting below uses.     *)
LEMMA SubsetsFinite == IsFiniteSet(Counted) /\ IsFiniteSet(Opened)
  BY ConnTrackAssumption, FS_Subset DEF Counted, Opened

(* No connection has been opened yet.                                      *)
LEMMA TrackInitInv == TrackInit => TrackInv
<1> SUFFICES ASSUME TrackInit PROVE TrackInv
  OBVIOUS
<1>1. TrackTypeOK
  BY DEF TrackInit, TrackTypeOK
<1>2. OnCloseInsideClose /\ OnceInv
  BY DEF TrackInit, OnCloseInsideClose, OnceInv
<1>3. ActiveExact
  <2>1. {c \in Conns : ~Uncounted(c)} = {} /\ {c \in Conns : under[c] # "none"} = {}
    BY DEF TrackInit, Uncounted
  <2> QED
    BY <2>1, FS_EmptySet DEF TrackInit, ActiveExact
<1> QED
  BY <1>1, <1>2, <1>3 DEF TrackInv

(* A new connection adds one to both counts.                               *)
LEMMA OpenInv ==
  ASSUME TrackInv, NEW c \in Conns, Open(c)
  PROVE  TrackInv'
<1> USE DEF Open
<1>1. TrackTypeOK'
  BY DEF TrackInv, TrackTypeOK
<1>2. OnCloseInsideClose' /\ OnceInv'
  BY DEF TrackInv, TrackTypeOK, OnCloseInsideClose, OnceInv
<1>3. ActiveExact'
  <2>1. Counted' = Counted \cup {c} /\ c \notin Counted
    BY DEF TrackInv, TrackTypeOK, OnceInv, Counted, Uncounted
  <2>2. Opened' = Opened \cup {c} /\ c \notin Opened
    BY DEF TrackInv, TrackTypeOK, Opened
  <2>3. active = Cardinality(Counted) /\ total = Cardinality(Opened)
    BY DEF TrackInv, ActiveExact, Counted, Opened
  <2>4. Cardinality(Counted') = active + 1 /\ Cardinality(Opened') = total + 1
    BY <2>1, <2>2, <2>3, SubsetsFinite, FS_AddElement, Zenon
  <2> QED
    BY <2>4 DEF ActiveExact, Counted, Opened
<1> QED
  BY <1>1, <1>2, <1>3 DEF TrackInv

(* onClose takes one from the count of active connections: its own.        *)
LEMMA OnCloseInv ==
  ASSUME TrackInv, NEW k \in Closers, OnClose(k)
  PROVE  TrackInv'
<1> DEFINE c == kconn[k]
<1>1. c \in Conns /\ under[c] = "closed" /\ once[c] = "running"
  BY DEF OnClose, TrackInv, TrackTypeOK, OnceInv
<1>2. Counted' = Counted \ {c} /\ c \in Counted
  BY <1>1 DEF OnClose, TrackInv, TrackTypeOK, Counted, Uncounted
<1>3. Opened' = Opened
  BY DEF OnClose, Opened
<1>4. active = Cardinality(Counted) /\ total = Cardinality(Opened)
  BY DEF TrackInv, ActiveExact, Counted, Opened
<1>5. Cardinality(Counted) \in Nat /\ Cardinality(Counted') = active - 1
  BY <1>2, <1>4, SubsetsFinite, FS_RemoveElement, FS_CardinalityType
<1>6. active - 1 \in Nat
  <2>1. IsFiniteSet(Counted')
    BY <1>2, SubsetsFinite, FS_RemoveElement
  <2> QED
    BY <2>1, <1>5, FS_CardinalityType
<1>7. TrackTypeOK'
  BY <1>6 DEF OnClose, TrackInv, TrackTypeOK
<1>8. OnCloseInsideClose' /\ OnceInv'
  BY <1>1 DEF OnClose, TrackInv, TrackTypeOK, OnCloseInsideClose, OnceInv
<1>9. ActiveExact'
  BY <1>3, <1>4, <1>5 DEF OnClose, ActiveExact, Counted, Opened
<1> QED
  BY <1>7, <1>8, <1>9 DEF TrackInv

(* The other steps of Close leave both counts alone.                       *)
LEMMA CloseStepInv ==
  ASSUME TrackInv, NEW k \in Closers,
         \/ CloseUnderlying(k) \/ OnceFirst(k) \/ OnceOther(k) \/ CloseReturned(k)
         \/ \E c \in Conns : CallClose(k, c)
  PROVE  TrackInv'
<1> USE DEF CloseUnderlying, OnceFirst, OnceOther, CloseReturned, CallClose
<1>1. TrackTypeOK'
  BY DEF TrackInv, TrackTypeOK
<1>2. OnCloseInsideClose'
  BY DEF TrackInv, TrackTypeOK, OnCloseInsideClose, OnceInv
<1>3. OnceInv'
  BY DEF TrackInv, TrackTypeOK, OnCloseInsideClose, OnceInv
<1>4. Counted' = Counted /\ Opened' = Opened
  BY DEF TrackInv, TrackTypeOK, OnceInv, OnCloseInsideClose, Counted, Opened, Uncounted
<1>5. ActiveExact'
  BY <1>4 DEF TrackInv, ActiveExact, Counted, Opened
<1> QED
  BY <1>1, <1>2, <1>3, <1>5 DEF TrackInv

(* The invariant holds of every reachable state.                           *)
THEOREM TrackInvariant == TrackSpec => []TrackInv
<1>1. TrackInit => TrackInv
  BY TrackInitInv
<1>2. TrackInv /\ [TrackNext]_trackVars => TrackInv'
  <2> SUFFICES ASSUME TrackInv, [TrackNext]_trackVars PROVE TrackInv'
    OBVIOUS
  <2>1. CASE UNCHANGED trackVars
    BY <2>1 DEF trackVars, TrackInv, TrackTypeOK, OnCloseInsideClose, ActiveExact, OnceInv,
                Uncounted
  <2>2. CASE TrackNext
    BY <2>2, OpenInv, OnCloseInv, CloseStepInv DEF TrackNext, CloseStep
  <2> QED
    BY <2>1, <2>2
<1> QED
  BY <1>1, <1>2, PTL DEF TrackSpec

(* What the doc of Builder.OnClose says of closeListener.Close.            *)
THEOREM OnCloseOnceInsideClose == TrackSpec => []OnCloseInsideClose
  BY TrackInvariant, PTL DEF TrackInv

(* The gauges of net_metrics.go count the connections that are open.       *)
THEOREM ActiveGaugeExact == TrackSpec => []ActiveExact
  BY TrackInvariant, PTL DEF TrackInv

-----------------------------------------------------------------------------
(* The shared rate limit holds for any number of connections, any limits   *)
(* and any time.                                                           *)

(* What the bucket has left, and what it has promised to the sleepers,     *)
(* both measured against the bytes moved.  Numbering the bytes in the      *)
(* order of their reservations makes the order of the waking irrelevant:   *)
(* every byte that passed has a number the bucket had already filled up to.*)
LimitInv ==
  /\ dir \in {"rx", "tx"}
  /\ clock \in Nat /\ tokens \in Int /\ moved \in Nat
  /\ sleep \in [LimitedConns -> [lo : Nat, hi : Nat, until : Int]]
  /\ \A n \in free : n > DefaultMaxBurst
  /\ Rate > 0 =>
       /\ tokens + moved <= Burst + Filled
       /\ \A b \in passed : b \in 1..(Burst + Filled)
       /\ \A c \in LimitedConns : sleep[c] # Awake =>
            1 <= sleep[c].lo /\ sleep[c].hi <= Burst + sleep[c].until

(* newRateLimiter never goes below the default.                            *)
LEMMA LimitTypes ==
  ASSUME dir \in {"rx", "tx"}
  PROVE  Rate \in Nat /\ Burst \in Nat /\ DefaultMaxBurst <= Burst
  BY LimitAssumption DEF Rate, bandwidth, Burst, newRateLimiter

(* The bucket starts full and nothing has moved.                           *)
LEMMA LimitInitInv == LimitInit => LimitInv
<1> SUFFICES ASSUME LimitInit PROVE LimitInv
  OBVIOUS
<1>1. Rate \in Nat /\ Burst \in Nat
  BY LimitTypes DEF LimitInit
<1>2. Filled = 0
  BY <1>1 DEF LimitInit, Filled
<1> QED
  BY <1>1, <1>2 DEF LimitInit, LimitInv, Awake

(* One unit of time brings Rate tokens; nothing promised gets worse. *)
LEMMA FilledGrows ==
  ASSUME LimitInv, clock' = clock + 1, dir' = dir
  PROVE  Filled \in Nat /\ Filled' \in Nat /\ Filled' = Filled + Rate
<1>1. Rate \in Nat /\ clock \in Nat
  BY LimitTypes DEF LimitInv
<1>2. Rate' = Rate
  BY DEF Rate, bandwidth
<1>3. Rate * (clock + 1) = Rate * clock + Rate
  BY <1>1, SMT
<1>4. Rate * clock \in Nat
  BY <1>1, SMT
<1> QED
  BY <1>1, <1>2, <1>3, <1>4 DEF Filled

(* Time, a call that moves bytes and a call that wakes up keep the books.  *)
LEMMA LimitNextInv == LimitInv /\ [LimitNext]_limitVars => LimitInv'
<1> SUFFICES ASSUME LimitInv, [LimitNext]_limitVars PROVE LimitInv'
  OBVIOUS
<1>t. Rate \in Nat /\ Burst \in Nat /\ DefaultMaxBurst <= Burst /\ clock \in Nat
  BY LimitTypes DEF LimitInv
<1>f. Filled \in Nat
  BY <1>t, SMT DEF Filled
<1>d. dir' = dir
  BY DEF LimitNext, Elapse, Wake, Move, MoveFree, limitVars
<1>r. Rate' = Rate /\ Burst' = Burst
  BY <1>d DEF Rate, bandwidth, Burst, newRateLimiter
<1>1. CASE Elapse
  <2>1. Filled' \in Nat /\ Filled' = Filled + Rate
    BY <1>1, FilledGrows DEF Elapse
  <2>2. tokens' <= tokens + Rate /\ tokens' \in Int
    BY <1>1, <1>t DEF Elapse, LimitInv
  <2> QED
    BY <1>1, <1>t, <1>f, <1>r, <2>1, <2>2 DEF Elapse, LimitInv
<1>2. ASSUME NEW c \in LimitedConns, Wake(c) PROVE LimitInv'
  <2>1. Filled' = Filled
    BY <1>2, <1>r DEF Filled, Wake
  <2>2. sleep' \in [LimitedConns -> [lo : Nat, hi : Nat, until : Int]]
    BY <1>2 DEF Wake, LimitInv, Awake
  <2>3. ASSUME Rate > 0, NEW b \in passed' PROVE b \in 1..(Burst + Filled)
    BY <1>2, <1>t, <1>f, <2>3 DEF Wake, LimitInv
  <2>4. ASSUME Rate > 0, NEW k \in LimitedConns, sleep'[k] # Awake
        PROVE  1 <= sleep'[k].lo /\ sleep'[k].hi <= Burst + sleep'[k].until
    BY <1>2, <2>4 DEF Wake, LimitInv
  <2> QED
    BY <1>2, <1>r, <2>1, <2>2, <2>3, <2>4 DEF Wake, LimitInv, Awake
<1>3. ASSUME NEW c \in LimitedConns, NEW n \in 1..MaxChunk, Move(c, n) PROVE LimitInv'
  <2>0. n \in Nat /\ (Rate > 0 => n <= Burst)
    BY <1>3, <1>t, LimitAssumption DEF Move
  <2>1. Filled' = Filled
    BY <1>3, <1>r DEF Filled, Move
  <2>2. CASE Rate = 0
    BY <1>3, <1>r, <2>0, <2>2 DEF Move, LimitInv
  <2>3. CASE Rate > 0 /\ n <= tokens
    <3>1. tokens' = tokens - n /\ sleep' = sleep /\ moved' = moved + n
      BY <1>3, <1>t, <2>0, <2>3 DEF Move
    <3>2. passed' = passed \cup (moved + 1)..(moved + n)
      BY <1>3, <1>t, <2>0, <2>3 DEF Move
    <3>3. \A b \in passed' : b \in 1..(Burst + Filled)
      BY <1>t, <1>f, <2>0, <2>3, <3>2 DEF LimitInv
    <3> QED
      BY <1>3, <1>t, <1>f, <1>r, <2>0, <2>1, <2>3, <3>1, <3>3 DEF Move, LimitInv
  <2>4. CASE Rate > 0 /\ ~(n <= tokens)
    <3> DEFINE rec == [lo |-> moved + 1, hi |-> moved + n, until |-> Filled + (n - tokens)]
    <3>1. tokens' = tokens - n /\ passed' = passed /\ moved' = moved + n
      BY <1>3, <1>t, <2>0, <2>4 DEF Move
    <3>2. sleep' = [sleep EXCEPT ![c] = rec]
      BY <1>3, <1>t, <2>0, <2>4 DEF Move
    <3>3. rec \in [lo : Nat, hi : Nat, until : Int]
      BY <1>f, <2>0 DEF LimitInv
    <3>4. 1 <= rec.lo /\ rec.hi <= Burst + rec.until
      BY <1>t, <1>f, <2>0, <2>4 DEF LimitInv
    <3> HIDE DEF rec
    <3>5. sleep' \in [LimitedConns -> [lo : Nat, hi : Nat, until : Int]]
      BY <3>2, <3>3 DEF LimitInv
    <3>6. ASSUME NEW k \in LimitedConns, sleep'[k] # Awake
          PROVE  1 <= sleep'[k].lo /\ sleep'[k].hi <= Burst + sleep'[k].until
      BY <2>4, <3>2, <3>4, <3>6 DEF LimitInv
    <3>7. tokens' + moved' <= Burst + Filled
      BY <1>t, <1>f, <2>0, <2>4, <3>1 DEF LimitInv
    <3> QED
      BY <1>3, <1>r, <2>0, <2>1, <2>4, <3>1, <3>5, <3>6, <3>7 DEF Move, LimitInv, Awake
  <2> QED
    BY <1>t, <2>2, <2>3, <2>4
<1>4. CASE UNCHANGED limitVars
  BY <1>4, <1>r DEF LimitInv, limitVars, Filled, Awake
<1>5. ASSUME NEW c \in LimitedConns, NEW n \in 1..MaxChunk, MoveFree(c, n) PROVE LimitInv'
  <2>1. Filled' = Filled
    BY <1>5, <1>r DEF Filled, MoveFree
  <2>2. n > DefaultMaxBurst
    BY <1>5, <1>t, LimitAssumption DEF MoveFree
  <2> QED
    BY <1>5, <1>r, <2>1, <2>2 DEF MoveFree, LimitInv, Awake
<1> QED
  BY <1>1, <1>2, <1>3, <1>4, <1>5 DEF LimitNext

(* The invariant bounds what passed: a set of distinct positive numbers    *)
(* none of which exceeds one burst plus what the time has brought.         *)
LEMMA LimitInvHolds == LimitInv => RateHeld
<1> SUFFICES ASSUME LimitInv, Rate > 0
             PROVE  Cardinality(passed) <= Burst + Rate * clock
  BY DEF RateHeld, Rate, bandwidth, LimitInv
<1>t. Rate \in Nat /\ Burst \in Nat /\ clock \in Nat
  BY LimitTypes DEF LimitInv
<1>f. Filled \in Nat
  BY <1>t, SMT DEF Filled
<1>1. passed \subseteq 1..(Burst + Filled)
  BY DEF LimitInv
<1>2. IsFiniteSet(1..(Burst + Filled)) /\ Cardinality(1..(Burst + Filled)) = Burst + Filled
  <2> DEFINE top == Burst + Filled
  <2>1. 1 \in Int /\ top \in Int /\ top >= 0
    BY <1>t, <1>f
  <2> HIDE DEF top
  <2>2. IsFiniteSet(1..top) /\ Cardinality(1..top) = IF 1 > top THEN 0 ELSE top - 1 + 1
    BY <2>1, FS_Interval
  <2>3. IsFiniteSet(1..top) /\ Cardinality(1..top) = top
    BY <2>1, <2>2
  <2> QED
    BY <2>3 DEF top
<1>3. Cardinality(passed) <= Burst + Filled
  BY <1>1, <1>2, FS_Subset, Zenon
<1> QED
  BY <1>3 DEF Filled

(* RateHeldAlways: for every number of connections, every limit and every  *)
(* chunk size, the calls that returned (Conn.Read and Conn.Write of        *)
(* ratelimit/conn.go) have moved no more than one burst plus the bandwidth *)
(* times the time, not counting calls larger than defaultMaxBurstSize.     *)
THEOREM RateHeldAlways == LimitSpec => []RateHeld
<1>1. LimitInit => LimitInv
  BY LimitInitInv
<1>2. LimitInv /\ [LimitNext]_limitVars => LimitInv'
  BY LimitNextInv
<1>3. LimitInv => RateHeld
  BY LimitInvHolds
<1> QED
  BY <1>1, <1>2, <1>3, PTL DEF LimitSpec

-----------------------------------------------------------------------------
(* The dialer: its states, and what a dial knows of its attempts.          *)
Addresses == Wanted \cup {Redirect(a) : a \in Wanted}
DialStates ==
  [pc : {"idle", "dialing", "backoff", "connected", "refused", "open", "error", "closed"},
   want : Wanted, track : BOOLEAN, addr : Addresses, tries : 0 .. attempts, cancelled : BOOLEAN]
NetMetrics == {"retries", "errors", "dialed", "active"}

DialerInv ==
  /\ dial \in [Dials -> DialStates]
  /\ netCount \in [NetMetrics -> [Labels -> Int]]
  /\ \A d \in Dials : /\ dial[d].pc = "idle" => dial[d].tries = 0
                      /\ dial[d].pc # "idle" => dial[d].tries > 0
                      /\ dial[d].pc = "backoff" => dial[d].tries < attempts
  /\ DialsAccounted

LEMMA AttemptsType == attempts \in Nat /\ attempts >= 1
  BY NetAssumption DEF attempts

LEMMA HostsLabelled == \A a \in Addresses : addr2Host(a) \in Labels
  BY DEF Addresses, Labels

LEMMA DialsFinite ==
  ASSUME NEW l
  PROVE  /\ \A pcs : IsFiniteSet(Tracked(l, pcs)) /\ Cardinality(Tracked(l, pcs)) \in Nat
         /\ IsFiniteSet(Retried(l)) /\ Cardinality(Retried(l)) \in Nat
<1>1. ASSUME NEW pcs PROVE IsFiniteSet(Tracked(l, pcs))
  <2>1. Tracked(l, pcs) \subseteq Dials
    BY DEF Tracked, DialsAt
  <2> QED BY <2>1, NetAssumption, FS_Subset
<1>2. IsFiniteSet(Retried(l))
  <2>1. IsFiniteSet(1 .. attempts)
    BY AttemptsType, FS_Interval
  <2>2. IsFiniteSet(Dials \X (1 .. attempts))
    BY <2>1, NetAssumption, FS_Product, Zenon
  <2>3. Retried(l) \subseteq Dials \X (1 .. attempts)
    BY DEF Retried
  <2> QED BY <2>2, <2>3, FS_Subset
<1> QED BY <1>1, <1>2, FS_CardinalityType

(* A step of one dial: the sets that are counted change by that dial.      *)
LEMMA RetriedStep ==
  ASSUME dial \in [Dials -> DialStates], NEW d \in Dials, NEW r \in DialStates,
         dial' = [dial EXCEPT ![d] = r], NEW l
  PROVE  /\ \A a \in Dials \X (1 .. attempts) :
              a \in Retried(l)' <=> IF a[1] = d THEN addr2Host(r.addr) = l /\ a[2] < r.tries
                                    ELSE a \in Retried(l)
         /\ Retried(l)' \subseteq Dials \X (1 .. attempts)
<1>1. \A a \in Dials \X (1 .. attempts) : a[1] \in Dials /\ dial'[a[1]] = IF a[1] = d THEN r ELSE dial[a[1]]
  OBVIOUS
<1> QED BY <1>1 DEF Retried

(* The steps of a dial that has not returned leave what is counted.        *)
LEMMA QuietStep ==
  ASSUME DialerInv, NEW d \in Dials, NEW r \in DialStates, dial' = [dial EXCEPT ![d] = r],
         netCount' = netCount,
         {dial[d].pc, r.pc} \cap {"open", "closed", "error"} = {},
         \/ r.tries = dial[d].tries /\ r.addr = dial[d].addr
         \/ r.tries = 1 /\ dial[d].tries = 0,
         r.pc # "idle" /\ r.tries > 0, r.pc = "backoff" => r.tries < attempts
  PROVE  DialerInv'
<1>1. dial \in [Dials -> DialStates] /\ dial' \in [Dials -> DialStates] /\ dial'[d] = r
      /\ \A e \in Dials : e # d => dial'[e] = dial[e]
  BY DEF DialerInv
<1>2. \A l : \A pcs \in SUBSET {"open", "closed", "error"} : Tracked(l, pcs)' = Tracked(l, pcs)
  <2> SUFFICES ASSUME NEW l, NEW pcs \in SUBSET {"open", "closed", "error"}
               PROVE  Tracked(l, pcs)' = Tracked(l, pcs)
    OBVIOUS
  <2>1. d \notin Tracked(l, pcs) /\ r.pc \notin pcs
    BY Zenon DEF Tracked, DialsAt
  <2> QED BY <1>1, <2>1 DEF Tracked, DialsAt
<1>3. \A l : Retried(l)' = Retried(l)
  <2> SUFFICES ASSUME NEW l PROVE Retried(l)' = Retried(l)
    OBVIOUS
  <2>1. \A a \in Dials \X (1 .. attempts) :
          a[1] = d => (addr2Host(r.addr) = l /\ a[2] < r.tries <=> a \in Retried(l))
    <3> SUFFICES ASSUME NEW a \in Dials \X (1 .. attempts), a[1] = d
                 PROVE  addr2Host(r.addr) = l /\ a[2] < r.tries <=> a \in Retried(l)
      OBVIOUS
    <3>1. a[2] \in Nat /\ a[2] >= 1
      BY AttemptsType
    <3> QED BY <3>1 DEF Retried
  <2> QED BY <1>1, <2>1, RetriedStep DEF Retried
<1>4. DialsAccounted'
  <2>1. \A e \in Dials : dial'[e].tries <= attempts
    BY <1>1, AttemptsType DEF DialStates
  <2> QED BY <1>2, <1>3, <2>1 DEF DialerInv, DialsAccounted
<1> QED BY <1>1, <1>4 DEF DialerInv

(* Retry: one more attempt at the dial's host, counted under its label.    *)
LEMMA RetryAccounted ==
  ASSUME DialerInv, NEW d \in Dials, Retry(d)
  PROVE  DialerInv'
<1>0. PICK h : h = addr2Host(dial[d].addr)
  OBVIOUS
<1> DEFINE r == [dial[d] EXCEPT !.pc = "dialing", !.tries = dial[d].tries + 1]
<1>1. dial \in [Dials -> DialStates] /\ netCount \in [NetMetrics -> [Labels -> Int]]
  BY DEF DialerInv
<1>2. dial[d] \in DialStates /\ dial[d].pc = "backoff" /\ dial[d].tries \in 1 .. attempts - 1
  BY <1>1, AttemptsType DEF DialerInv, DialStates, Retry
<1>3. h \in Labels
  BY <1>0, <1>2, HostsLabelled DEF DialStates
<1>4. r \in DialStates /\ r.pc = "dialing" /\ r.tries = dial[d].tries + 1 /\ r.addr = dial[d].addr
  <2>1. dial[d].tries + 1 \in 0 .. attempts
    BY <1>2, AttemptsType
  <2> QED BY <1>2, <2>1, Zenon DEF DialStates
<1>5. dial' = [dial EXCEPT ![d] = r]
  BY DEF Retry
<1>6. /\ netCount' \in [NetMetrics -> [Labels -> Int]]
      /\ netCount'.active = netCount.active /\ netCount'.dialed = netCount.dialed
      /\ netCount'.errors = netCount.errors
      /\ netCount'.retries = [netCount.retries EXCEPT ![h] = netCount.retries[h] + 1]
  <2>1. netCount.retries \in [Labels -> Int]
    BY <1>1 DEF NetMetrics
  <2>2. [netCount.retries EXCEPT ![h] = netCount.retries[h] + 1] \in [Labels -> Int]
    BY <1>3, <2>1
  <2>3. netCount' = [netCount EXCEPT !["retries"] = [netCount.retries EXCEPT ![h] = netCount.retries[h] + 1]]
    BY <1>0 DEF Retry, Inc, Plus
  <2> QED BY <1>1, <2>2, <2>3 DEF NetMetrics
<1> HIDE DEF r
<1>7. dial' \in [Dials -> DialStates] /\ dial'[d] = r /\ \A e \in Dials : e # d => dial'[e] = dial[e]
  BY <1>1, <1>4, <1>5
<1>8. ASSUME NEW l
      PROVE  /\ Tracked(l, {"open"})' = Tracked(l, {"open"})
             /\ Tracked(l, {"open", "closed"})' = Tracked(l, {"open", "closed"})
             /\ Tracked(l, {"error"})' = Tracked(l, {"error"})
  BY <1>2, <1>4, <1>7 DEF Tracked, DialsAt
<1>9. ASSUME NEW l \in Labels, l # h PROVE Retried(l)' = Retried(l)
  BY <1>0, <1>7, <1>4, <1>9 DEF Retried
<1>10. Retried(h)' = Retried(h) \cup {<<d, dial[d].tries>>} /\ <<d, dial[d].tries>> \notin Retried(h)
  <2>1. <<d, dial[d].tries>> \in Dials \X (1 .. attempts)
    BY <1>2, AttemptsType
  <2>2. <<d, dial[d].tries>> \notin Retried(h)
    BY <1>2 DEF Retried
  <2>3. ASSUME NEW a \in Dials \X (1 .. attempts)
        PROVE  a \in Retried(h)' <=> a \in Retried(h) \/ a = <<d, dial[d].tries>>
    <3>1. a = <<a[1], a[2]>> /\ a[1] \in Dials /\ a[2] \in 1 .. attempts
      OBVIOUS
    <3>2. CASE a[1] = d
      <4>1. a \in Retried(h)' <=> a[2] < dial[d].tries + 1
        BY <1>0, <1>7, <1>4, <3>2 DEF Retried
      <4>2. a \in Retried(h) <=> a[2] < dial[d].tries
        BY <1>0, <3>2 DEF Retried
      <4>3. a[2] < dial[d].tries + 1 <=> a[2] < dial[d].tries \/ a[2] = dial[d].tries
        BY <1>2, <3>1, AttemptsType
      <4> QED BY <4>1, <4>2, <4>3, <3>1, <3>2
    <3>3. CASE a[1] # d
      <4>1. dial'[a[1]] = dial[a[1]] /\ a # <<d, dial[d].tries>>
        BY <1>7, <3>1, <3>3
      <4> QED BY <4>1 DEF Retried
    <3> QED BY <3>2, <3>3
  <2>4. Retried(h)' \subseteq Dials \X (1 .. attempts) /\ Retried(h) \subseteq Dials \X (1 .. attempts)
    BY DEF Retried
  <2> QED BY <2>1, <2>2, <2>3, <2>4
<1>11. Cardinality(Retried(h)') = Cardinality(Retried(h)) + 1
  BY <1>10, DialsFinite, FS_AddElement, Zenon
<1>12. DialsAccounted'
  <2>1. \A e \in Dials : dial'[e].tries <= attempts
    BY <1>7, AttemptsType DEF DialStates
  <2>2. netCount.retries \in [Labels -> Int]
    BY <1>1 DEF NetMetrics
  <2>3. ASSUME NEW l \in Labels PROVE netCount'.retries[l] = Cardinality(Retried(l)')
    <3>1. netCount.retries[l] = Cardinality(Retried(l))
      BY DEF DialerInv, DialsAccounted
    <3>2. CASE l = h
      <4>1. netCount'.retries[h] = netCount.retries[h] + 1
        BY <1>3, <1>6, <2>2
      <4> QED BY <3>1, <3>2, <4>1, <1>11
    <3>3. CASE l # h
      BY <3>1, <3>3, <1>6, <1>9, <2>2
    <3> QED BY <3>2, <3>3
  <2>4. ASSUME NEW l \in Labels
        PROVE  /\ netCount'.active[l] = Cardinality(Tracked(l, {"open"})')
               /\ netCount'.dialed[l] = Cardinality(Tracked(l, {"open", "closed"})')
               /\ netCount'.errors[l] = Cardinality(Tracked(l, {"error"})')
    BY <1>6, <1>8 DEF DialerInv, DialsAccounted
  <2> QED BY <2>1, <2>3, <2>4 DEF DialsAccounted
<1>13. \A e \in Dials : /\ dial'[e].pc = "idle" => dial'[e].tries = 0
                        /\ dial'[e].pc # "idle" => dial'[e].tries > 0
                        /\ dial'[e].pc = "backoff" => dial'[e].tries < attempts
  <2>1. r.tries > 0
    BY <1>2, <1>4, AttemptsType
  <2> QED BY <1>4, <1>7, <2>1 DEF DialerInv
<1> QED BY <1>6, <1>7, <1>12, <1>13 DEF DialerInv

(* A dial that changes nothing but its pc moves between the counted sets.  *)
Moves(d, r, l, pcs) ==
  IF addr2Host(r.addr) # l \/ ~r.track \/ (r.pc \in pcs <=> dial[d].pc \in pcs) THEN 0
  ELSE IF r.pc \in pcs THEN 1 ELSE -1

LEMMA MoveAccounted ==
  ASSUME DialerInv, NEW d \in Dials, NEW r \in DialStates, dial' = [dial EXCEPT ![d] = r],
         r.addr = dial[d].addr, r.track = dial[d].track, r.tries = dial[d].tries,
         dial[d].pc # "idle", r.pc \notin {"idle", "backoff"},
         netCount' \in [NetMetrics -> [Labels -> Int]], netCount'.retries = netCount.retries,
         \A l \in Labels :
           /\ netCount'.active[l] = netCount.active[l] + Moves(d, r, l, {"open"})
           /\ netCount'.dialed[l] = netCount.dialed[l] + Moves(d, r, l, {"open", "closed"})
           /\ netCount'.errors[l] = netCount.errors[l] + Moves(d, r, l, {"error"})
  PROVE  DialerInv'
<1>1. dial \in [Dials -> DialStates] /\ dial' \in [Dials -> DialStates] /\ dial'[d] = r
      /\ \A e \in Dials : e # d => dial'[e] = dial[e]
  BY DEF DialerInv
<1>2. ASSUME NEW l \in Labels
      PROVE  /\ netCount'.active[l] = Cardinality(Tracked(l, {"open"})')
             /\ netCount'.dialed[l] = Cardinality(Tracked(l, {"open", "closed"})')
             /\ netCount'.errors[l] = Cardinality(Tracked(l, {"error"})')
             /\ netCount'.retries[l] = Cardinality(Retried(l)')
  <2>0. \A e \in Dials : dial'[e] = IF e = d THEN r ELSE dial[e]
    BY <1>1
  <2>1. ASSUME NEW pcs
        PROVE  Cardinality(Tracked(l, pcs)') = Cardinality(Tracked(l, pcs)) + Moves(d, r, l, pcs)
    <3> DEFINE T == Tracked(l, pcs)
               same == addr2Host(r.addr) # l \/ ~r.track \/ (r.pc \in pcs <=> dial[d].pc \in pcs)
    <3>1. IsFiniteSet(T) /\ Cardinality(T) \in Nat
      BY DialsFinite, Zenon
    <3>2. CASE same
      <4>1. Tracked(l, pcs)' = T
        BY <2>0, <3>2 DEF Tracked, DialsAt
      <4> QED BY <4>1, <3>1, <3>2 DEF Moves
    <3>3. CASE ~same /\ r.pc \in pcs
      <4>1. Tracked(l, pcs)' = T \cup {d} /\ d \notin T
        BY <2>0, <3>3 DEF Tracked, DialsAt
      <4>2. Cardinality(T \cup {d}) = Cardinality(T) + 1
        BY <3>1, <4>1, FS_AddElement, Zenon
      <4> QED BY <4>1, <4>2, <3>1, <3>3 DEF Moves
    <3>4. CASE ~same /\ r.pc \notin pcs
      <4>1. Tracked(l, pcs)' = T \ {d} /\ d \in T
        BY <2>0, <3>4 DEF Tracked, DialsAt
      <4>2. Cardinality(T \ {d}) = Cardinality(T) - 1
        BY <3>1, <4>1, FS_RemoveElement, Zenon
      <4> QED BY <4>1, <4>2, <3>1, <3>4 DEF Moves
    <3> QED BY <3>2, <3>3, <3>4
  <2>2. Retried(l)' = Retried(l)
    BY <2>0 DEF Retried
  <2> QED BY <2>1, <2>2 DEF DialerInv, DialsAccounted
<1>3. DialsAccounted'
  <2>1. \A e \in Dials : dial'[e].tries <= attempts
    BY <1>1, AttemptsType DEF DialStates
  <2> QED BY <1>2, <2>1 DEF DialsAccounted
<1>4. \A e \in Dials : /\ dial'[e].pc = "idle" => dial'[e].tries = 0
                       /\ dial'[e].pc # "idle" => dial'[e].tries > 0
                       /\ dial'[e].pc = "backoff" => dial'[e].tries < attempts
  BY <1>1 DEF DialerInv
<1> QED BY <1>1, <1>3, <1>4 DEF DialerInv

(* The metrics of the dialer count integers.                               *)
LEMMA CountStep ==
  ASSUME NEW c \in [NetMetrics -> [Labels -> Int]], NEW m \in NetMetrics, NEW h \in Labels
  PROVE  /\ Plus(c[m], h) \in [Labels -> Int] /\ Minus(c[m], h) \in [Labels -> Int]
         /\ \A l \in Labels : /\ Plus(c[m], h)[l] = c[m][l] + IF l = h THEN 1 ELSE 0
                              /\ Minus(c[m], h)[l] = c[m][l] - IF l = h THEN 1 ELSE 0
<1>1. c[m] \in [Labels -> Int]
  OBVIOUS
<1> QED BY <1>1 DEF Plus, Minus

LEMMA CloseAccounted ==
  ASSUME DialerInv, NEW d \in Dials, CloseConn(d)
  PROVE  DialerInv'
<1>0. PICK h : h = addr2Host(dial[d].addr)
  OBVIOUS
<1> DEFINE r == [dial[d] EXCEPT !.pc = "closed"]
<1>1. dial \in [Dials -> DialStates] /\ netCount \in [NetMetrics -> [Labels -> Int]]
      /\ dial[d].pc = "open" /\ dial' = [dial EXCEPT ![d] = r]
  BY DEF DialerInv, CloseConn
<1>2. dial[d] \in DialStates /\ dial[d].track \in BOOLEAN /\ h \in Labels
  BY <1>0, <1>1, HostsLabelled DEF DialStates
<1>3. r \in DialStates /\ r.pc = "closed" /\ r.addr = dial[d].addr /\ r.track = dial[d].track
      /\ r.tries = dial[d].tries
  BY <1>1, <1>2 DEF DialStates
<1> HIDE DEF r
<1>4. \A l \in Labels : /\ Moves(d, r, l, {"open"}) = IF l = h /\ r.track THEN -1 ELSE 0
                        /\ Moves(d, r, l, {"open", "closed"}) = 0
                        /\ Moves(d, r, l, {"error"}) = 0
  BY <1>0, <1>1, <1>3 DEF Moves
<1>5. /\ netCount' \in [NetMetrics -> [Labels -> Int]]
      /\ netCount'.retries = netCount.retries /\ netCount'.dialed = netCount.dialed
      /\ netCount'.errors = netCount.errors
      /\ \A l \in Labels : netCount'.active[l] = netCount.active[l] + IF l = h /\ r.track THEN -1 ELSE 0
  <2>1. CASE ~r.track
    <3>1. netCount' = netCount
      BY <1>3, <2>1 DEF CloseConn
    <3>2. netCount.active \in [Labels -> Int]
      BY <1>1 DEF NetMetrics
    <3> QED BY <1>1, <2>1, <3>1, <3>2
  <2>2. CASE r.track
    <3>1. netCount' = [netCount EXCEPT !["active"] = Minus(netCount.active, h)]
      BY <1>0, <1>3, <2>2 DEF CloseConn
    <3>2. Minus(netCount.active, h) \in [Labels -> Int] /\ netCount.active \in [Labels -> Int]
          /\ \A l \in Labels : Minus(netCount.active, h)[l] = netCount.active[l] - IF l = h THEN 1 ELSE 0
      BY <1>1, <1>2, CountStep DEF NetMetrics
    <3>3. netCount'.active = Minus(netCount.active, h) /\ netCount' \in [NetMetrics -> [Labels -> Int]]
          /\ netCount'.retries = netCount.retries /\ netCount'.dialed = netCount.dialed
          /\ netCount'.errors = netCount.errors
      BY <1>1, <3>1, <3>2 DEF NetMetrics
    <3> QED BY <2>2, <3>2, <3>3
  <2> QED BY <1>2, <1>3, <2>1, <2>2
<1>6. netCount.dialed \in [Labels -> Int] /\ netCount.errors \in [Labels -> Int]
  BY <1>1 DEF NetMetrics
<1>7. \A l \in Labels :
        /\ netCount'.active[l] = netCount.active[l] + Moves(d, r, l, {"open"})
        /\ netCount'.dialed[l] = netCount.dialed[l] + Moves(d, r, l, {"open", "closed"})
        /\ netCount'.errors[l] = netCount.errors[l] + Moves(d, r, l, {"error"})
  BY <1>4, <1>5, <1>6, SMTT(30)
<1> QED BY <1>1, <1>3, <1>5, <1>7, MoveAccounted, Zenon

LEMMA ReturnAccounted ==
  ASSUME DialerInv, NEW d \in Dials, DialReturns(d)
  PROVE  DialerInv'
<1>0. PICK h : h = addr2Host(dial[d].addr)
  OBVIOUS
<1> DEFINE r == [dial[d] EXCEPT !.pc = IF dial[d].pc = "connected" THEN "open" ELSE "error"]
<1>1. dial \in [Dials -> DialStates] /\ netCount \in [NetMetrics -> [Labels -> Int]]
      /\ dial[d].pc \in {"connected", "refused"} /\ dial' = [dial EXCEPT ![d] = r]
  BY DEF DialerInv, DialReturns
<1>2. dial[d] \in DialStates /\ dial[d].track \in BOOLEAN /\ h \in Labels
  BY <1>0, <1>1, HostsLabelled DEF DialStates
<1>3. r \in DialStates /\ r.pc = (IF dial[d].pc = "connected" THEN "open" ELSE "error")
      /\ r.addr = dial[d].addr /\ r.track = dial[d].track /\ r.tries = dial[d].tries
  BY <1>1, <1>2 DEF DialStates
<1> HIDE DEF r
<1>4. \A l \in Labels :
        /\ Moves(d, r, l, {"open"}) = IF l = h /\ r.track /\ r.pc = "open" THEN 1 ELSE 0
        /\ Moves(d, r, l, {"open", "closed"}) = IF l = h /\ r.track /\ r.pc = "open" THEN 1 ELSE 0
        /\ Moves(d, r, l, {"error"}) = IF l = h /\ r.track /\ r.pc = "error" THEN 1 ELSE 0
  BY <1>0, <1>1, <1>3 DEF Moves
<1>5. netCount.active \in [Labels -> Int] /\ netCount.dialed \in [Labels -> Int]
      /\ netCount.errors \in [Labels -> Int]
  BY <1>1, SMTT(30) DEF NetMetrics
<1>6. /\ netCount' \in [NetMetrics -> [Labels -> Int]] /\ netCount'.retries = netCount.retries
      /\ \A l \in Labels :
           /\ netCount'.active[l] = netCount.active[l] + IF l = h /\ r.track /\ r.pc = "open" THEN 1 ELSE 0
           /\ netCount'.dialed[l] = netCount.dialed[l] + IF l = h /\ r.track /\ r.pc = "open" THEN 1 ELSE 0
           /\ netCount'.errors[l] = netCount.errors[l] + IF l = h /\ r.track /\ r.pc = "error" THEN 1 ELSE 0
  <2>1. CASE ~r.track
    <3>1. netCount' = netCount
      BY <1>3, <2>1 DEF DialReturns
    <3> QED BY <1>1, <1>5, <2>1, <3>1
  <2>2. CASE r.track /\ dial[d].pc = "refused"
    <3>1. netCount' = [netCount EXCEPT !["errors"] = Plus(netCount.errors, h)]
      BY <1>0, <1>3, <2>2 DEF DialReturns, Inc
    <3>2. Plus(netCount.errors, h) \in [Labels -> Int]
          /\ \A l \in Labels : Plus(netCount.errors, h)[l] = netCount.errors[l] + IF l = h THEN 1 ELSE 0
      BY <1>1, <1>2, CountStep DEF NetMetrics
    <3>3. netCount'.errors = Plus(netCount.errors, h) /\ netCount' \in [NetMetrics -> [Labels -> Int]]
          /\ netCount'.retries = netCount.retries /\ netCount'.dialed = netCount.dialed
          /\ netCount'.active = netCount.active
      BY <1>1, <3>1, <3>2 DEF NetMetrics
    <3>4. r.pc = "error" /\ r.pc # "open"
      BY <1>3, <2>2
    <3> QED BY <1>5, <2>2, <3>2, <3>3, <3>4
  <2>3. CASE r.track /\ dial[d].pc = "connected"
    <3>1. netCount' = [netCount EXCEPT !["dialed"] = Plus(netCount.dialed, h),
                                       !["active"] = Plus(netCount.active, h)]
      BY <1>0, <1>3, <2>3 DEF DialReturns
    <3>2. Plus(netCount.active, h) \in [Labels -> Int]
          /\ \A l \in Labels : Plus(netCount.active, h)[l] = netCount.active[l] + IF l = h THEN 1 ELSE 0
      BY <1>1, <1>2, CountStep DEF NetMetrics
    <3>3. Plus(netCount.dialed, h) \in [Labels -> Int]
          /\ \A l \in Labels : Plus(netCount.dialed, h)[l] = netCount.dialed[l] + IF l = h THEN 1 ELSE 0
      BY <1>1, <1>2, CountStep DEF NetMetrics
    <3>4. netCount'.active = Plus(netCount.active, h) /\ netCount' \in [NetMetrics -> [Labels -> Int]]
          /\ netCount'.retries = netCount.retries /\ netCount'.errors = netCount.errors
          /\ netCount'.dialed = Plus(netCount.dialed, h)
      BY <1>1, <3>1, <3>2, <3>3 DEF NetMetrics
    <3>5. r.pc = "open" /\ r.pc # "error"
      BY <1>3, <2>3
    <3> QED BY <1>5, <2>3, <3>2, <3>3, <3>4, <3>5
  <2> QED BY <1>1, <1>2, <1>3, <2>1, <2>2, <2>3
<1>7. \A l \in Labels :
        /\ netCount'.active[l] = netCount.active[l] + Moves(d, r, l, {"open"})
        /\ netCount'.dialed[l] = netCount.dialed[l] + Moves(d, r, l, {"open", "closed"})
        /\ netCount'.errors[l] = netCount.errors[l] + Moves(d, r, l, {"error"})
  BY <1>4, <1>6
<1>8. dial[d].pc # "idle" /\ r.pc \notin {"idle", "backoff"}
  BY <1>1, <1>3
<1> QED BY <1>1, <1>3, <1>6, <1>7, <1>8, MoveAccounted, Zenon

LEMMA DialerStep ==
  ASSUME DialerInv, DialerNext
  PROVE  DialerInv'
<1>0. dial \in [Dials -> DialStates]
  BY DEF DialerInv
<1>1. ASSUME NEW d \in Dials, DialContext(d) PROVE DialerInv'
  <2> DEFINE r == [dial[d] EXCEPT !.pc = "dialing", !.tries = 1, !.addr = Redirect(dial[d].want)]
  <2>1. dial[d] \in DialStates /\ dial[d].pc = "idle" /\ dial[d].tries = 0 /\ dial[d].want \in Wanted
    BY <1>0, <1>1 DEF DialContext, DialerInv, DialStates
  <2>2. Redirect(dial[d].want) \in Addresses /\ 1 \in 0 .. attempts
    BY <2>1, AttemptsType DEF Addresses
  <2>3. r \in DialStates /\ r.pc = "dialing" /\ r.tries = 1
    BY <2>1, <2>2, Zenon DEF DialStates
  <2>4. dial' = [dial EXCEPT ![d] = r] /\ netCount' = netCount
    BY <1>1 DEF DialContext
  <2>5. {dial[d].pc, r.pc} \cap {"open", "closed", "error"} = {} /\ r.pc # "idle" /\ r.pc # "backoff"
        /\ r.tries > 0 /\ r.tries = 1 /\ dial[d].tries = 0
    BY <2>1, <2>3
  <2> HIDE DEF r
  <2> QED BY <2>3, <2>4, <2>5, QuietStep, Zenon
<1>2. ASSUME NEW d \in Dials, Cancel(d) PROVE DialerInv'
  <2> DEFINE r == [dial[d] EXCEPT !.cancelled = TRUE]
  <2>1. dial[d] \in DialStates /\ dial[d].pc \in {"dialing", "backoff"} /\ dial[d].tries > 0
        /\ (dial[d].pc = "backoff" => dial[d].tries < attempts)
    BY <1>0, <1>2 DEF Cancel, DialerInv
  <2>2. r \in DialStates /\ r.pc = dial[d].pc /\ r.tries = dial[d].tries /\ r.addr = dial[d].addr
    BY <2>1, Zenon DEF DialStates
  <2>3. dial' = [dial EXCEPT ![d] = r] /\ netCount' = netCount
    BY <1>2 DEF Cancel
  <2> HIDE DEF r
  <2> QED BY <2>1, <2>2, <2>3, QuietStep, Zenon
<1>3. ASSUME NEW d \in Dials, Connects(d) PROVE DialerInv'
  <2> DEFINE r == [dial[d] EXCEPT !.pc = "connected"]
  <2>1. dial[d] \in DialStates /\ dial[d].pc = "dialing" /\ dial[d].tries > 0
    BY <1>0, <1>3 DEF Connects, DialerInv
  <2>2. r \in DialStates /\ r.pc = "connected" /\ r.tries = dial[d].tries /\ r.addr = dial[d].addr
    BY <2>1 DEF DialStates
  <2>3. dial' = [dial EXCEPT ![d] = r] /\ netCount' = netCount
    BY <1>3 DEF Connects
  <2> HIDE DEF r
  <2> QED BY <2>1, <2>2, <2>3, QuietStep, Zenon
<1>4. ASSUME NEW d \in Dials, AttemptFails(d) PROVE DialerInv'
  <2> DEFINE r == [dial[d] EXCEPT !.pc = IF dial[d].tries < attempts THEN "backoff" ELSE "refused"]
  <2>1. dial[d] \in DialStates /\ dial[d].pc = "dialing" /\ dial[d].tries > 0
    BY <1>0, <1>4 DEF AttemptFails, DialerInv
  <2>2. r \in DialStates /\ r.tries = dial[d].tries /\ r.addr = dial[d].addr
        /\ r.pc = IF dial[d].tries < attempts THEN "backoff" ELSE "refused"
    BY <2>1 DEF DialStates
  <2>3. dial' = [dial EXCEPT ![d] = r] /\ netCount' = netCount
    BY <1>4 DEF AttemptFails
  <2>4. r.pc \in {"backoff", "refused"} /\ (r.pc = "backoff" => r.tries < attempts)
    BY <2>2
  <2> HIDE DEF r
  <2> QED BY <2>1, <2>2, <2>3, <2>4, QuietStep, Zenon
<1> QED BY <1>1, <1>2, <1>3, <1>4, RetryAccounted, ReturnAccounted, CloseAccounted DEF DialerNext

-----------------------------------------------------------------------------
(* The listeners and the connections they accepted.                        *)
ListenMetrics == {"errors", "accepted", "active"}
PeersOf(n) == {c \in Peers : peerOpen[c] /\ ListenerNames[peer[c]] = n}

ListenInv ==
  /\ listened \in 0 .. Len(ListenerNames)
  /\ bound \in [ListenerIds -> {"new", "bound", "closed"}]
  /\ peer \in [Peers -> {0} \cup ListenerIds]
  /\ peerOpen \in [Peers -> BOOLEAN]
  /\ lisCount \in [ListenMetrics -> [NameLabels -> Int]]
  /\ \A i \in ListenerIds : i > listened => bound[i] = "new"
  /\ \A c \in Peers : peerOpen[c] => peer[c] # 0
  /\ ListenersAccounted

LEMMA PeersFinite ==
  ASSUME NEW n PROVE IsFiniteSet(PeersOf(n)) /\ Cardinality(PeersOf(n)) \in Nat
<1>1. PeersOf(n) \subseteq Peers
  BY DEF PeersOf
<1> QED BY <1>1, NetAssumption, FS_Subset, FS_CardinalityType

(* Accept and ClosePeer move one connection in or out of its name's gauge. *)
LEMMA AcceptAccounted ==
  ASSUME ListenInv, NEW i \in ListenerIds, NEW c \in Peers, Accept(i, c)
  PROVE  ListenInv'
<1>0. PICK h : h = ListenerNames[i]
  OBVIOUS
<1>1. /\ peer \in [Peers -> {0} \cup ListenerIds] /\ peerOpen \in [Peers -> BOOLEAN]
      /\ lisCount \in [ListenMetrics -> [NameLabels -> Int]] /\ h \in NameLabels
      /\ lisCount.active \in [NameLabels -> Int] /\ lisCount.accepted \in [NameLabels -> Int]
  BY <1>0 DEF ListenInv, NameLabels, ListenMetrics
<1>2. i # 0 /\ peer[c] = 0 /\ ~peerOpen[c]
  BY NetAssumption DEF ListenInv, Accept, ListenerIds
<1>3. /\ peer' \in [Peers -> {0} \cup ListenerIds] /\ peerOpen' \in [Peers -> BOOLEAN]
      /\ peer'[c] = i /\ peerOpen'[c]
      /\ \A e \in Peers : e # c => peer'[e] = peer[e] /\ peerOpen'[e] = peerOpen[e]
  BY <1>1 DEF Accept
<1>4. /\ Plus(lisCount.active, h) \in [NameLabels -> Int] /\ Plus(lisCount.accepted, h) \in [NameLabels -> Int]
      /\ \A n \in NameLabels : Plus(lisCount.active, h)[n] = lisCount.active[n] + IF n = h THEN 1 ELSE 0
  BY <1>1 DEF Plus
<1>5. lisCount' \in [ListenMetrics -> [NameLabels -> Int]] /\ lisCount'.active = Plus(lisCount.active, h)
  <2>1. lisCount' = [lisCount EXCEPT !["accepted"] = Plus(lisCount.accepted, h),
                                     !["active"] = Plus(lisCount.active, h)]
    BY <1>0 DEF Accept
  <2> QED BY <1>1, <1>4, <2>1 DEF ListenMetrics
<1>6. ASSUME NEW n \in NameLabels PROVE lisCount'.active[n] = Cardinality(PeersOf(n)')
  <2>1. lisCount.active[n] = Cardinality(PeersOf(n))
    BY DEF ListenInv, ListenersAccounted, PeersOf
  <2>2. CASE n = h
    <3>1. PeersOf(n)' = PeersOf(n) \cup {c} /\ c \notin PeersOf(n)
      BY <1>0, <1>2, <1>3, <2>2 DEF PeersOf
    <3>2. Cardinality(PeersOf(n) \cup {c}) = Cardinality(PeersOf(n)) + 1
      BY <3>1, PeersFinite, FS_AddElement, Zenon
    <3> QED BY <1>4, <1>5, <2>1, <2>2, <3>1, <3>2, SMTT(30)
  <2>3. CASE n # h
    <3>1. PeersOf(n)' = PeersOf(n)
      BY <1>0, <1>2, <1>3, <2>3 DEF PeersOf
    <3>2. lisCount.active[n] \in Int
      BY <1>1
    <3> QED BY <1>4, <1>5, <2>1, <2>3, <3>1, <3>2
  <2> QED BY <2>2, <2>3
<1>7. ListenersAccounted'
  BY <1>6, Zenon DEF Accept, ListenersAccounted, PeersOf
<1>8. \A e \in Peers : peerOpen'[e] => peer'[e] # 0
  BY <1>2, <1>3 DEF ListenInv
<1>9. UNCHANGED <<listened, bound>>
  BY DEF Accept
<1> QED BY <1>3, <1>5, <1>7, <1>8, <1>9 DEF ListenInv

LEMMA ClosePeerAccounted ==
  ASSUME ListenInv, NEW c \in Peers, ClosePeer(c)
  PROVE  ListenInv'
<1>0. PICK h : h = ListenerNames[peer[c]]
  OBVIOUS
<1>1. /\ peer \in [Peers -> {0} \cup ListenerIds] /\ peerOpen \in [Peers -> BOOLEAN]
      /\ lisCount \in [ListenMetrics -> [NameLabels -> Int]]
      /\ lisCount.active \in [NameLabels -> Int]
  BY DEF ListenInv, ListenMetrics
<1>2. peerOpen[c] /\ peer[c] \in ListenerIds
  BY DEF ListenInv, ClosePeer
<1>3. h \in NameLabels
  BY <1>0, <1>2 DEF NameLabels
<1>4. /\ peerOpen' \in [Peers -> BOOLEAN] /\ ~peerOpen'[c] /\ peer' = peer
      /\ \A e \in Peers : e # c => peerOpen'[e] = peerOpen[e]
  BY <1>1 DEF ClosePeer
<1>5. /\ Minus(lisCount.active, h) \in [NameLabels -> Int]
      /\ \A n \in NameLabels : Minus(lisCount.active, h)[n] = lisCount.active[n] - IF n = h THEN 1 ELSE 0
  BY <1>1, <1>3 DEF Minus
<1>6. lisCount' \in [ListenMetrics -> [NameLabels -> Int]] /\ lisCount'.active = Minus(lisCount.active, h)
  <2>1. lisCount' = [lisCount EXCEPT !["active"] = Minus(lisCount.active, h)]
    BY <1>0 DEF ClosePeer
  <2> QED BY <1>1, <1>5, <2>1 DEF ListenMetrics
<1>7. ASSUME NEW n \in NameLabels PROVE lisCount'.active[n] = Cardinality(PeersOf(n)')
  <2>1. lisCount.active[n] = Cardinality(PeersOf(n))
    BY DEF ListenInv, ListenersAccounted, PeersOf
  <2>2. CASE n = h
    <3>1. PeersOf(n)' = PeersOf(n) \ {c} /\ c \in PeersOf(n)
      BY <1>0, <1>2, <1>4, <2>2 DEF PeersOf
    <3>2. Cardinality(PeersOf(n) \ {c}) = Cardinality(PeersOf(n)) - 1
      BY <3>1, PeersFinite, FS_RemoveElement, SMTT(30)
    <3> QED BY <1>5, <1>6, <2>1, <2>2, <3>1, <3>2, SMTT(30)
  <2>3. CASE n # h
    <3>1. PeersOf(n)' = PeersOf(n)
      BY <1>0, <1>2, <1>4, <2>3 DEF PeersOf
    <3>2. lisCount.active[n] \in Int
      BY <1>1
    <3> QED BY <1>5, <1>6, <2>1, <2>3, <3>1, <3>2
  <2> QED BY <2>2, <2>3
<1>8. ListenersAccounted'
  BY <1>7 DEF ClosePeer, ListenInv, ListenersAccounted, PeersOf
<1>9. UNCHANGED <<listened, bound>>
  BY DEF ClosePeer
<1>10. \A e \in Peers : peerOpen'[e] => peer'[e] # 0
  BY <1>4 DEF ListenInv
<1> QED BY <1>1, <1>4, <1>6, <1>8, <1>9, <1>10 DEF ListenInv

LEMMA ListenStep ==
  ASSUME ListenInv, ListenNext
  PROVE  ListenInv'
<1>0. listened \in Nat /\ Len(ListenerNames) \in Nat /\ listened <= Len(ListenerNames)
      /\ bound \in [ListenerIds -> {"new", "bound", "closed"}]
  BY NetAssumption DEF ListenInv
<1>1. CASE Binds
  <2>1. listened' \in 0 .. Len(ListenerNames) /\ listened' = listened + 1
    BY <1>0, <1>1 DEF Binds
  <2>2. /\ bound' \in [ListenerIds -> {"new", "bound", "closed"}]
        /\ \A i \in ListenerIds : i # listened + 1 => bound'[i] = bound[i]
    BY <1>0, <1>1, Zenon DEF Binds
  <2>3. \A i \in ListenerIds : i > listened' => bound'[i] = "new"
    BY <1>0, <2>1, <2>2, NetAssumption DEF ListenInv, ListenerIds
  <2>4. UNCHANGED <<peer, peerOpen, lisCount>> /\ lpc' = "opening"
    BY <1>1 DEF Binds
  <2>5. ListenersAccounted'
    BY <2>4 DEF ListenInv, ListenersAccounted
  <2> QED BY <2>1, <2>2, <2>3, <2>4, <2>5 DEF ListenInv
<1>2. CASE BindFails
  <2>1. /\ bound' = [i \in ListenerIds |-> IF i <= listened THEN "closed" ELSE bound[i]]
        /\ UNCHANGED <<listened, peer, peerOpen, lisCount>>
    BY <1>2 DEF BindFails
  <2>2. bound' \in [ListenerIds -> {"new", "bound", "closed"}]
    BY <1>0, <2>1
  <2>3. \A i \in ListenerIds : i \in Nat /\ (i > listened => bound'[i] = "new")
                               /\ (i <= listened => bound'[i] = "closed")
    BY <1>0, <2>1, NetAssumption DEF ListenInv, ListenerIds
  <2>4. \A i \in ListenerIds : bound'[i] # "bound"
    BY <1>0, <2>3
  <2>5. ListenersAccounted'
    BY <2>1, <2>4 DEF ListenInv, ListenersAccounted
  <2> QED BY <2>1, <2>2, <2>3, <2>5 DEF ListenInv
<1>3. CASE ListenReturns
  <2>1. UNCHANGED <<listened, bound, peer, peerOpen, lisCount>> /\ lpc' = "all"
    BY <1>3 DEF ListenReturns
  <2>2. ListenersAccounted'
    BY <2>1 DEF ListenInv, ListenersAccounted
  <2> QED BY <2>1, <2>2 DEF ListenInv
<1>4. ASSUME NEW i \in ListenerIds, AcceptFails(i) PROVE ListenInv'
  <2>1. UNCHANGED <<listened, lpc, bound, peer, peerOpen>>
        /\ lisCount' = [lisCount EXCEPT !["errors"] = Plus(lisCount.errors, ListenerNames[i])]
    BY <1>4, SMTT(30) DEF AcceptFails
  <2>2. lisCount \in [ListenMetrics -> [NameLabels -> Int]] /\ lisCount.errors \in [NameLabels -> Int]
        /\ ListenerNames[i] \in NameLabels
    BY SMTT(30) DEF ListenInv, ListenMetrics, NameLabels
  <2>3. Plus(lisCount.errors, ListenerNames[i]) \in [NameLabels -> Int]
    BY <2>2 DEF Plus
  <2>4. lisCount' \in [ListenMetrics -> [NameLabels -> Int]] /\ lisCount'.active = lisCount.active
    BY <2>1, <2>2, <2>3 DEF ListenMetrics
  <2>5. ListenersAccounted'
    BY <2>1, <2>4 DEF ListenInv, ListenersAccounted
  <2> QED BY <2>1, <2>4, <2>5 DEF ListenInv
<1>5. ASSUME NEW i \in ListenerIds, CloseListener(i) PROVE ListenInv'
  <2>1. UNCHANGED <<listened, lpc, peer, peerOpen, lisCount>> /\ lpc = "all"
        /\ bound' = [bound EXCEPT ![i] = "closed"] /\ bound[i] = "bound"
    BY <1>5 DEF CloseListener
  <2>2. bound' \in [ListenerIds -> {"new", "bound", "closed"}]
        /\ \A j \in ListenerIds : j > listened => bound'[j] = "new"
    BY <1>0, <2>1 DEF ListenInv
  <2>3. ListenersAccounted'
    BY <2>1 DEF ListenInv, ListenersAccounted
  <2> QED BY <2>1, <2>2, <2>3 DEF ListenInv
<1> QED BY <1>1, <1>2, <1>3, <1>4, <1>5, AcceptAccounted, ClosePeerAccounted DEF ListenNext

LEMMA DialerBegin == DialerInit => DialerInv
<1> SUFFICES ASSUME DialerInit PROVE DialerInv
  OBVIOUS
<1>1. PICK want \in [Dials -> Wanted], track \in [Dials -> BOOLEAN] :
        dial = [d \in Dials |-> [pc |-> "idle", want |-> want[d], track |-> track[d],
                                 addr |-> want[d], tries |-> 0, cancelled |-> FALSE]]
  BY Zenon DEF DialerInit
<1>2. 0 \in 0 .. attempts
  BY AttemptsType
<1>3. dial \in [Dials -> DialStates]
  BY <1>1, <1>2 DEF DialStates, Addresses
<1>4. \A d \in Dials : dial[d].pc = "idle" /\ dial[d].tries = 0
  BY <1>1
<1>5. netCount \in [NetMetrics -> [Labels -> Int]]
      /\ \A m \in NetMetrics : \A l \in Labels : netCount[m][l] = 0
  BY DEF DialerInit, NetMetrics
<1>6. ASSUME NEW l \in Labels
      PROVE  /\ Tracked(l, {"open"}) = {} /\ Tracked(l, {"open", "closed"}) = {}
             /\ Tracked(l, {"error"}) = {} /\ Retried(l) = {}
  BY <1>4, AttemptsType DEF Tracked, DialsAt, Retried
<1>7. Cardinality({}) = 0
  BY FS_EmptySet
<1>8. DialsAccounted
  <2>1. \A l \in Labels : /\ netCount.active[l] = 0 /\ netCount.dialed[l] = 0
                          /\ netCount.errors[l] = 0 /\ netCount.retries[l] = 0
    BY <1>5 DEF NetMetrics
  <2>2. \A d \in Dials : dial[d].tries <= attempts
    BY <1>4, AttemptsType
  <2> QED BY <1>6, <1>7, <2>1, <2>2, Zenon DEF DialsAccounted
<1> QED BY <1>3, <1>4, <1>5, <1>8 DEF DialerInv

LEMMA ListenBegin == ListenInit => ListenInv
<1> SUFFICES ASSUME ListenInit PROVE ListenInv
  OBVIOUS
<1>1. /\ bound \in [ListenerIds -> {"new", "bound", "closed"}] /\ peer \in [Peers -> {0} \cup ListenerIds]
      /\ peerOpen \in [Peers -> BOOLEAN] /\ \A c \in Peers : ~peerOpen[c]
      /\ \A i \in ListenerIds : bound[i] = "new"
  BY DEF ListenInit
<1>2. listened \in 0 .. Len(ListenerNames)
  BY NetAssumption DEF ListenInit
<1>3. lisCount \in [ListenMetrics -> [NameLabels -> Int]] /\ \A n \in NameLabels : lisCount.active[n] = 0
  BY DEF ListenInit, ListenMetrics
<1>4. \A n \in NameLabels : {c \in Peers : peerOpen[c] /\ ListenerNames[peer[c]] = n} = {}
  BY <1>1
<1>5. ListenersAccounted
  BY <1>1, <1>3, <1>4, FS_EmptySet, Zenon DEF ListenersAccounted
<1> QED BY <1>1, <1>2, <1>3, <1>5 DEF ListenInv

(* NetIsAccounted (Dialer.DialContext, MultiListener.Listen and            *)
(* Listener.Accept with their OnClose closures): for any set of dials and  *)
(* connections, any redirects, any number of attempts and any listeners,   *)
(* the metrics of every host and every listener name count exactly the     *)
(* dials, retries and connections there are, and a Listen that failed      *)
(* leaves no listener open.                                                *)
THEOREM NetIsAccounted == NetSpec => []NetAccounted
<1> DEFINE Inv == DialerInv /\ ListenInv
<1>1. DialerInit /\ ListenInit => Inv
  BY DialerBegin, ListenBegin
<1>2. ASSUME Inv, [NetNext]_netVars PROVE Inv'
  <2>1. CASE DialerNext /\ UNCHANGED listenVars
    <3>1. ListenInv'
      BY <1>2, <2>1 DEF ListenInv, ListenersAccounted, listenVars
    <3> QED BY <1>2, <2>1, <3>1, DialerStep
  <2>2. ASSUME UNCHANGED dialerVars PROVE DialerInv'
    <3>1. dial' = dial /\ netCount' = netCount
      BY <2>2, SMTT(30) DEF dialerVars
    <3>2. ASSUME NEW l
          PROVE  /\ Tracked(l, {"open"})' = Tracked(l, {"open"}) /\ Retried(l)' = Retried(l)
                 /\ Tracked(l, {"open", "closed"})' = Tracked(l, {"open", "closed"})
                 /\ Tracked(l, {"error"})' = Tracked(l, {"error"})
      BY <3>1 DEF Tracked, DialsAt, Retried
    <3>3. DialsAccounted'
      BY <1>2, <3>1, <3>2 DEF DialerInv, DialsAccounted
    <3> QED BY <1>2, <3>1, <3>3 DEF DialerInv
  <2>3. CASE ListenNext /\ UNCHANGED dialerVars
    BY <1>2, <2>2, <2>3, ListenStep
  <2>4. CASE UNCHANGED netVars
    <3>1. ListenInv'
      BY <1>2, <2>4 DEF ListenInv, ListenersAccounted, netVars, listenVars
    <3> QED BY <2>2, <2>4, <3>1 DEF netVars
  <2> QED BY <1>2, <2>1, <2>3, <2>4 DEF NetNext
<1>3. Inv => NetAccounted
  BY DEF DialerInv, ListenInv, NetAccounted
<1> HIDE DEF Inv
<1> QED BY <1>1, <1>2, <1>3, PTL DEF NetSpec

=============================================================================
