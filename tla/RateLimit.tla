----------------------------- MODULE RateLimit -----------------------------
(* ratelimit/: the token buckets that all connections of a listener share. *)
(* A call reads or writes first and then sleeps until the bucket would     *)
(* cover it, so bytes are in the air before they are paid for.  The two    *)
(* directions share nothing: a behaviour is that of one of them.           *)
(* golang.org/x/time/rate is modelled from its use: a reservation takes    *)
(* its tokens at once, below zero if need be, and waits for the deficit.   *)
EXTENDS Integers, FiniteSets

CONSTANTS
  LimitedConns,     \* connections of the listener
  ReadLimit,        \* ListenerConfig.ReadLimit, bytes per unit of time, 0 for none
  WriteLimit,       \* ListenerConfig.WriteLimit
  DefaultMaxBurst,  \* defaultMaxBurstSize
  BurstShare,       \* the burst is a 64th of the bandwidth from there on
  MaxChunk,         \* the most one Read or Write moves
  MaxBytes, MaxTime \* bounds

ASSUME LimitAssumption ==
  /\ ReadLimit \in Nat /\ WriteLimit \in Nat /\ DefaultMaxBurst \in Nat
  /\ BurstShare \in Nat \ {0} /\ MaxChunk \in Nat

VARIABLES
  dir,     \* "tx" or "rx"
  clock,
  tokens,  \* of the direction's rate.Limiter
  moved,   \* bytes read or written so far that are paid for; each has its number
  passed,  \* the numbers of the bytes whose call returned
  free,    \* history: the sizes of the calls that the limiter refused
  sleep    \* per connection: [lo, hi, until], the bytes lo..hi of the call in WaitN

limitVars == <<dir, clock, tokens, moved, passed, free, sleep>>

(* Mutant: each limit on the wrong direction. *)
bandwidthSwapped(d) == IF d = "tx" THEN WriteLimit ELSE ReadLimit

(* NewListener: what the peer may read is what this side may send. *)
bandwidth(d) == IF d = "tx" THEN ReadLimit ELSE WriteLimit

newRateLimiter(b) ==
  IF b \div BurstShare < DefaultMaxBurst THEN DefaultMaxBurst ELSE b \div BurstShare

Rate == bandwidth(dir)
Burst == newRateLimiter(Rate)

(* The tokens the time so far has brought: what WaitN's deadlines count in. *)
Filled == Rate * clock

Awake == [lo |-> 1, hi |-> 0, until |-> 0]

LimitInit ==
  /\ dir \in {"rx", "tx"}
  /\ clock = 0 /\ tokens = Burst
  /\ moved = 0 /\ passed = {} /\ free = {}
  /\ sleep = [c \in LimitedConns |-> Awake]

(* The bucket fills with the time, up to the burst. *)
Elapse ==
  /\ clock < MaxTime
  /\ clock' = clock + 1
  /\ tokens' = IF tokens + Rate < Burst THEN tokens + Rate ELSE Burst
  /\ UNCHANGED <<dir, moved, passed, free, sleep>>

(* Conn.Read, Conn.Write: n bytes move, and then WaitN.  Without a limiter *)
(* the call returns.                                                       *)
Move(c, n) ==
  /\ sleep[c] = Awake /\ moved + n <= MaxBytes
  /\ Rate = 0 \/ n <= Burst
  /\ moved' = moved + n
  /\ LET bytes == (moved + 1)..(moved + n)
     IN IF Rate = 0
        THEN passed' = passed \cup bytes /\ UNCHANGED <<tokens, sleep>>
        ELSE /\ tokens' = tokens - n
             /\ IF n <= tokens
                THEN passed' = passed \cup bytes /\ UNCHANGED sleep
                ELSE /\ UNCHANGED passed
                     /\ sleep' = [sleep EXCEPT ![c] =
                          [lo |-> moved + 1, hi |-> moved + n,
                           until |-> Filled + (n - tokens)]]
  /\ UNCHANGED <<dir, clock, free>>

(* WaitN refuses more than the burst; its error is dropped, the call       *)
(* returns and nobody pays for its bytes.                                  *)
MoveFree(c, n) ==
  /\ sleep[c] = Awake
  /\ Rate > 0 /\ n > Burst
  /\ free' = free \cup {n}
  /\ UNCHANGED <<dir, clock, tokens, moved, passed, sleep>>

(* WaitN returns once its time has come, in whatever order they wake. *)
Wake(c) ==
  /\ sleep[c] # Awake /\ Filled >= sleep[c].until
  /\ passed' = passed \cup (sleep[c].lo)..(sleep[c].hi)
  /\ sleep' = [sleep EXCEPT ![c] = Awake]
  /\ UNCHANGED <<dir, clock, tokens, moved, free>>

LimitNext ==
  \/ Elapse
  \/ \E c \in LimitedConns : Wake(c) \/ \E n \in 1..MaxChunk : Move(c, n) \/ MoveFree(c, n)

LimitSpec == LimitInit /\ [][LimitNext]_limitVars

-----------------------------------------------------------------------------
(* RateHeld (ratelimit/conn.go:21, ratelimit/listener.go:21): however many *)
(* connections share the listener's limit and in whatever order their      *)
(* calls wake up, the bytes of all the calls that returned stay within one *)
(* burst plus the bandwidth times the time: for ReadLimit what the peers   *)
(* are sent, for WriteLimit what they send.  Not counted is a call that    *)
(* moves more than the burst, for which nothing is paid; that is only one  *)
(* larger than defaultMaxBurstSize, whatever the limit (ratelimit.go:13:   *)
(* "Must be bigger than the biggest request").                             *)
RateHeld ==
  LET limit == IF dir = "tx" THEN ReadLimit ELSE WriteLimit
  IN limit > 0 => /\ Cardinality(passed) <= Burst + limit * clock
                  /\ \A n \in free : n > DefaultMaxBurst

=============================================================================
