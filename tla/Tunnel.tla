------------------------------- MODULE Tunnel -------------------------------
(***************************************************************************)
(* The tunnel of a CONNECT or of a 101 response: drainBuffer and bicopy    *)
(* (internal/martian/copy.go, closewriter.go), between the response that   *)
(* opens it and the deferred Close of both connections.                    *)
(*                                                                         *)
(* Two copier goroutines share the two connections: each reads one and     *)
(* writes the other, and when its copy ends it closes the write side of    *)
(* its destination (FIN), which must not disturb the other direction.      *)
(*                                                                         *)
(* The data is the sequence of chunks a side has sent, numbered 1, 2, ...  *)
(* A side is "client" or "upstream".                                       *)
(***************************************************************************)
EXTENDS Integers, Sequences

CONSTANTS MaxSent   \* bound on the chunks a side sends

ASSUME TunnelAssumption == MaxSent \in Nat \ {0}

Sides == {"client", "upstream"}
Other(s) == IF s = "client" THEN "upstream" ELSE "client"

VARIABLES sent,    \* per side: how many chunks it has sent
          fin,     \* per side: it has shut its sending side
          gone,    \* per side: it has reset the connection
          taken,   \* per side: how many of its chunks are off the connection
          brw,     \* the client's first chunk was read with the request
          held,    \* per copier, named for its source: chunks in its buffer
          got,     \* per side: the chunks it has received
          eof,     \* per side: our write side towards it is closed
          tpc,     \* per copier: "copy", "closeWrite" or "done"
          phase,   \* "drain", "copy", "over"
          stuck,   \* per side: it has stopped reading and its buffers are full
          shuts,   \* asCloseWriter finds a CloseWrite on the upstream connection
          deadline \* the client's read deadline: "none", "set" or "passed"

tunnelVars == <<sent, fin, gone, taken, brw, held, got, eof, tpc, phase, stuck, shuts, deadline>>

TunnelTypeOK ==
  /\ sent \in [Sides -> 0 .. MaxSent] /\ taken \in [Sides -> 0 .. MaxSent]
  /\ fin \in [Sides -> BOOLEAN] /\ gone \in [Sides -> BOOLEAN] /\ eof \in [Sides -> BOOLEAN]
  /\ brw \in BOOLEAN
  /\ held \in [Sides -> Seq(1 .. MaxSent)]
  /\ got \in [Sides -> Seq(1 .. MaxSent)]
  /\ tpc \in [Sides -> {"copy", "closeWrite", "done"}]
  /\ phase \in {"drain", "copy", "over"}
  /\ stuck \in [Sides -> BOOLEAN] /\ shuts \in BOOLEAN
  /\ deadline \in {"none", "set", "passed"}

(* The response is written.  The client may have sent its first chunk with *)
(* the request, so that it is in the buffer of brw already.  With a        *)
(* ReadTimeout the deadline readRequest has put on the client's connection *)
(* for the whole request is still there: nothing resets it.                *)
TunnelInit ==
  /\ deadline \in {"none", "set"}
  /\ stuck = [s \in Sides |-> FALSE]
  /\ shuts \in BOOLEAN
  /\ brw \in BOOLEAN
  /\ sent = [s \in Sides |-> IF s = "client" /\ brw THEN 1 ELSE 0]
  /\ taken = sent
  /\ fin = [s \in Sides |-> FALSE]
  /\ gone = [s \in Sides |-> FALSE]
  /\ held = [s \in Sides |-> <<>>]
  /\ got = [s \in Sides |-> <<>>]
  /\ eof = [s \in Sides |-> FALSE]
  /\ tpc = [s \in Sides |-> "copy"]
  /\ phase = "drain"

-----------------------------------------------------------------------------
(* The two ends.  A side sends, shuts its sending side, or resets: a write *)
(* to it that was held up fails.                                           *)
Send(s) ==
  /\ sent[s] < MaxSent /\ ~fin[s] /\ ~gone[s] /\ phase # "over"
  /\ sent' = [sent EXCEPT ![s] = @ + 1]
  /\ UNCHANGED <<fin, gone, taken, brw, held, got, eof, tpc, phase, stuck, shuts, deadline>>

Fin(s) ==
  /\ ~fin[s] /\ ~gone[s]
  /\ fin' = [fin EXCEPT ![s] = TRUE]
  /\ UNCHANGED <<sent, gone, taken, brw, held, got, eof, tpc, phase, stuck, shuts, deadline>>

Reset(s) ==
  /\ ~gone[s] /\ phase # "over"
  /\ gone' = [gone EXCEPT ![s] = TRUE]
  /\ stuck' = [stuck EXCEPT ![s] = FALSE]
  /\ UNCHANGED <<sent, fin, taken, brw, held, got, eof, tpc, phase, shuts, deadline>>

(* It stops reading, which shows at a write to it: what is written no      *)
(* longer leaves our side.  No write of the tunnel has a deadline.         *)
StopReading(s) ==
  /\ ~stuck[s] /\ ~gone[s]
  /\ held[Other(s)] # <<>> \/ (s = "upstream" /\ brw)
  /\ stuck' = [stuck EXCEPT ![s] = TRUE]
  /\ UNCHANGED <<sent, fin, gone, taken, brw, held, got, eof, tpc, phase, shuts, deadline>>

(* The time ReadTimeout gave the request is over, before its copier is.    *)
DeadlinePasses ==
  /\ deadline = "set" /\ phase = "copy" /\ tpc["client"] = "copy"
  /\ deadline' = "passed"
  /\ UNCHANGED <<sent, fin, gone, taken, brw, held, got, eof, tpc, phase, stuck, shuts>>

(* A read of the connection of s fails with a timeout, whatever there is   *)
(* to read.                                                                *)
ReadExpired(s) == s = "client" /\ deadline = "passed"

-----------------------------------------------------------------------------
(* A side that is there receives the chunks in q.                          *)
Deliver(s, q) == got' = [got EXCEPT ![s] = IF gone[s] THEN @ ELSE @ \o q]

(* drainBuffer writes what brw holds to upstream; the error of that Write  *)
(* is not looked at.  The copiers start after it.                          *)
DrainBuffer ==
  /\ phase = "drain"
  /\ ~(brw /\ stuck["upstream"])
  /\ Deliver("upstream", IF brw THEN <<1>> ELSE <<>>)
  /\ phase' = "copy"
  /\ brw' = FALSE
  /\ UNCHANGED <<sent, fin, gone, taken, held, eof, tpc, stuck, shuts, deadline>>

(* io.CopyBuffer reads what there is, a part of it or all,                 *)
CopyRead(s) ==
  /\ phase = "copy" /\ tpc[s] = "copy" /\ held[s] = <<>>
  /\ ~gone[s] /\ ~ReadExpired(s) /\ taken[s] < sent[s]
  /\ \E n \in (taken[s] + 1) .. sent[s] :
       /\ held' = [held EXCEPT ![s] = [i \in 1 .. (n - taken[s]) |-> taken[s] + i]]
       /\ taken' = [taken EXCEPT ![s] = n]
  /\ UNCHANGED <<sent, fin, gone, brw, got, eof, tpc, phase, stuck, shuts, deadline>>

(* and writes it before it reads again.                                    *)
CopyWrite(s) ==
  /\ phase = "copy" /\ tpc[s] = "copy" /\ held[s] # <<>>
  /\ ~gone[Other(s)] /\ ~stuck[Other(s)]
  /\ Deliver(Other(s), held[s])
  /\ held' = [held EXCEPT ![s] = <<>>]
  /\ UNCHANGED <<sent, fin, gone, taken, brw, eof, tpc, phase, stuck, shuts, deadline>>

(* EOF once everything is read, a read error (of a reset, or because the   *)
(* deadline has passed), or a write error.                                 *)
CopyEnd(s) ==
  /\ phase = "copy" /\ tpc[s] = "copy"
  /\ \/ held[s] = <<>> /\ fin[s] /\ taken[s] = sent[s]
     \/ held[s] = <<>> /\ (gone[s] \/ ReadExpired(s))
     \/ held[s] # <<>> /\ gone[Other(s)]
  /\ tpc' = [tpc EXCEPT ![s] = "closeWrite"]
  /\ UNCHANGED <<sent, fin, gone, taken, brw, held, got, eof, phase, stuck, shuts, deadline>>

(* Mutant: the copier does not close the write side of its destination.    *)
CloseWriteForgotten(s) ==
  /\ tpc[s] = "closeWrite"
  /\ tpc' = [tpc EXCEPT ![s] = "done"]
  /\ UNCHANGED <<sent, fin, gone, taken, brw, held, got, eof, phase, stuck, shuts, deadline>>

(* asCloseWriter finds CloseWrite on TCP, TLS and wrapped connections, so  *)
(* on the client's; the body a 101 came with may have none, which is       *)
(* logged, as is its error.  Then donec.                                   *)
CloseWrite(s) ==
  /\ tpc[s] = "closeWrite"
  /\ eof' = [eof EXCEPT ![Other(s)] = Other(s) = "client" \/ shuts]
  /\ tpc' = [tpc EXCEPT ![s] = "done"]
  /\ UNCHANGED <<sent, fin, gone, taken, brw, held, got, phase, stuck, shuts, deadline>>

(* Mutant: bicopy returns at the first of the two.                         *)
BicopyReturnsFirst ==
  /\ phase = "copy"
  /\ \E s \in Sides : tpc[s] = "done"
  /\ phase' = "over"
  /\ eof' = [s \in Sides |-> TRUE]
  /\ UNCHANGED <<sent, fin, gone, taken, brw, held, got, tpc, stuck, shuts, deadline>>

(* bicopy has received from donec twice; tunnel returns and both           *)
(* connections are closed.                                                 *)
BicopyReturns ==
  /\ phase = "copy"
  /\ \A s \in Sides : tpc[s] = "done"
  /\ phase' = "over"
  /\ eof' = [s \in Sides |-> TRUE]
  /\ UNCHANGED <<sent, fin, gone, taken, brw, held, got, tpc, stuck, shuts, deadline>>

TunnelOver == phase = "over" /\ UNCHANGED tunnelVars

Copier(s) == CopyRead(s) \/ CopyWrite(s) \/ CopyEnd(s) \/ CloseWrite(s)

TunnelNext ==
  \/ \E s \in Sides : Send(s) \/ Fin(s) \/ Reset(s) \/ StopReading(s)
  \/ DeadlinePasses
  \/ DrainBuffer
  \/ \E s \in Sides : Copier(s)
  \/ BicopyReturns
  \/ TunnelOver

TunnelSpec == TunnelInit /\ [][TunnelNext]_tunnelVars

(* Our goroutines run; a write goes on as long as its reader reads.  The   *)
(* client may stay for ever; the upstream ends its side some time after it *)
(* has been told that the client is done.                                  *)
TunnelFairness ==
  /\ WF_tunnelVars(DrainBuffer)
  /\ WF_tunnelVars(BicopyReturns)
  /\ \A s \in Sides : WF_tunnelVars(Copier(s))
  /\ WF_tunnelVars(eof["upstream"] /\ Fin("upstream"))

TunnelFairSpec == TunnelSpec /\ TunnelFairness

-----------------------------------------------------------------------------
FirstChunks(n) == [i \in 1 .. n |-> i]

(* Each side receives what the other sent, in order, without a gap, a      *)
(* repetition or a loss in the middle, starting with what was buffered     *)
(* with the request.                                                       *)
InOrder == \A s \in Sides : got[s] = FirstChunks(Len(got[s]))

(* When our write side towards s is closed, s has everything that was read *)
(* from the other side, and that is everything it sent before its FIN,     *)
(* unless one of the two reset its connection: the end of one direction    *)
(* never truncates the other.  The one other exception is the client's     *)
(* direction when the read deadline of its request passes in the tunnel    *)
(* (proxy_conn.go:121 and :287): upstream is then told the end of a client *)
(* that has not finished.  The upstream's direction is never cut by it.    *)
EofMeansComplete ==
  \A s \in Sides :
    eof[s] /\ ~gone["client"] /\ ~gone["upstream"] =>
      /\ Len(got[s]) = taken[Other(s)]
      /\ (fin[Other(s)] /\ Len(got[s]) = sent[Other(s)]) \/ ReadExpired(Other(s))

(* The end of the client's data reaches upstream, which can then finish:   *)
(* the tunnel ends though the upstream never closes of its own accord.  So *)
(* does the deadline.  What may keep it is a side that no longer reads, or *)
(* an upstream connection that has no CloseWrite.                          *)
TunnelEnds ==
  (fin["client"] \/ gone["client"] \/ deadline = "passed") ~>
    (phase = "over" \/ stuck["client"] \/ stuck["upstream"] \/ ~shuts)

(* What a side sends and then ends with a FIN arrives, if no one resets,   *)
(* the other side goes on reading and the deadline does not cut it off.    *)
(* An upstream that stops reading before drainBuffer has written to it     *)
(* holds up its own direction too: the copiers start after it.             *)
Delivered ==
  \A s \in Sides :
    fin[s] ~> \/ Len(got[Other(s)]) = sent[s]
              \/ gone["client"] \/ gone["upstream"]
              \/ stuck[Other(s)] \/ ReadExpired(s)
              \/ phase = "drain" /\ stuck["upstream"]

(* bicopy keeps the bytes of both directions: InOrder and EofMeansComplete *)
(* (internal/martian/copy.go).                                             *)
BytesKept == InOrder /\ EofMeansComplete

(* A tunnel whose client is done, or whose deadline has passed, comes to   *)
(* its end with everything delivered: TunnelEnds and Delivered.            *)
TunnelFinishes == TunnelEnds /\ Delivered

=============================================================================
