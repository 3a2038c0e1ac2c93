--------------------------- MODULE ProxyProtoConn ---------------------------
(***************************************************************************)
(* proxyproto.Conn (proxyproto/net.go): a connection on which a PROXY      *)
(* protocol header comes before anything else.  The first caller of Read,  *)
(* Write, RemoteAddr, LocalAddr or HeaderContext reads it, with a timeout, *)
(* in a goroutine of its own; the others wait on headerMu and find the     *)
(* outcome.                                                                *)
(*                                                                         *)
(* The peer sends HeaderLen chunks of header, or something that is no      *)
(* header from chunk Bad on, and then data.                                *)
(***************************************************************************)
EXTENDS Integers

CONSTANTS Callers,     \* goroutines that use the connection
          HeaderLen,   \* chunks of a header
          MaxPeer,     \* bound on the chunks the peer sends
          Timeout      \* readHeaderTimeout > 0

NoCaller == "none"

ASSUME ProxyProtoAssumption ==
  /\ HeaderLen \in Nat \ {0} /\ MaxPeer \in Nat /\ HeaderLen <= MaxPeer
  /\ Timeout \in BOOLEAN /\ NoCaller \notin Callers

VARIABLES bad,       \* the first chunk that is no header; 0 if it is well formed
          sentN,     \* chunks the peer has sent
          peerGone,  \* the peer has closed
          offN,      \* chunks taken off the connection
          sock,      \* "open" or "closed"
          isHeaderRead, headerErr, hasHeader,
          headerMu,  \* who holds the mutex, NoCaller if no one does
          goro,      \* the goroutine: "none", "reading" or "ended"
          goroRes,   \* what it put in resCh: "none", "ok" or "malformed"
          ppc,       \* per caller: "idle", "lock", "check", "select" or "use"
          saw,       \* per caller: the error the last call returned to it
          appN       \* chunks the application has read

protoVars == <<bad, sentN, peerGone, offN, sock, isHeaderRead, headerErr, hasHeader,
               headerMu, goro, goroRes, ppc, saw, appN>>

ProtoTypeOK ==
  /\ bad \in 0 .. HeaderLen /\ sentN \in 0 .. MaxPeer /\ offN \in 0 .. MaxPeer
  /\ peerGone \in BOOLEAN /\ sock \in {"open", "closed"}
  /\ isHeaderRead \in BOOLEAN /\ hasHeader \in BOOLEAN
  /\ headerErr \in {"nil", "timeout", "malformed"}
  /\ headerMu \in Callers \cup {NoCaller}
  /\ goro \in {"none", "reading", "ended"} /\ goroRes \in {"none", "ok", "malformed"}
  /\ ppc \in [Callers -> {"idle", "lock", "check", "select", "use"}]
  /\ saw \in [Callers -> {"nil", "timeout", "malformed"}]
  /\ appN \in 0 .. MaxPeer

ProtoInit ==
  /\ bad \in 0 .. HeaderLen
  /\ sentN = 0 /\ peerGone = FALSE /\ offN = 0 /\ sock = "open"
  /\ isHeaderRead = FALSE /\ headerErr = "nil" /\ hasHeader = FALSE
  /\ headerMu = NoCaller
  /\ goro = "none" /\ goroRes = "none"
  /\ ppc = [k \in Callers |-> "idle"]
  /\ saw = [k \in Callers |-> "nil"]
  /\ appN = 0

At(k, from, to) == ppc[k] = from /\ ppc' = [ppc EXCEPT ![k] = to]

-----------------------------------------------------------------------------
(* The peer                                                                *)
PeerSends ==
  /\ ~peerGone /\ sock = "open" /\ sentN < MaxPeer
  /\ sentN' = sentN + 1
  /\ UNCHANGED <<bad, peerGone, offN, sock, isHeaderRead, headerErr, hasHeader,
                 headerMu, goro, goroRes, ppc, saw, appN>>

PeerCloses ==
  /\ ~peerGone
  /\ peerGone' = TRUE
  /\ UNCHANGED <<bad, sentN, offN, sock, isHeaderRead, headerErr, hasHeader,
                 headerMu, goro, goroRes, ppc, saw, appN>>

-----------------------------------------------------------------------------
(* readHeaderContext                                                       *)

(* if c.isHeaderRead.Load() { return c.headerErr }                         *)
Call(k) ==
  /\ At(k, "idle", IF isHeaderRead THEN "use" ELSE "lock")
  /\ saw' = IF isHeaderRead THEN [saw EXCEPT ![k] = headerErr] ELSE saw
  /\ UNCHANGED <<bad, sentN, peerGone, offN, sock, isHeaderRead, headerErr,
                 hasHeader, headerMu, goro, goroRes, appN>>

Lock(k) ==
  /\ At(k, "lock", "check")
  /\ headerMu = NoCaller
  /\ headerMu' = k
  /\ UNCHANGED <<bad, sentN, peerGone, offN, sock, isHeaderRead, headerErr,
                 hasHeader, goro, goroRes, saw, appN>>

(* The second look, under the mutex; or the goroutine is started.          *)
FoundRead(k) ==
  /\ At(k, "check", "use")
  /\ isHeaderRead
  /\ saw' = [saw EXCEPT ![k] = headerErr]
  /\ headerMu' = NoCaller
  /\ UNCHANGED <<bad, sentN, peerGone, offN, sock, isHeaderRead, headerErr,
                 hasHeader, goro, goroRes, appN>>

StartRead(k) ==
  /\ At(k, "check", "select")
  /\ ~isHeaderRead
  /\ goro' = "reading"
  /\ UNCHANGED <<bad, sentN, peerGone, offN, sock, isHeaderRead, headerErr,
                 hasHeader, headerMu, goroRes, saw, appN>>

(* The outcome is stored, the mutex released and the error returned.       *)
Outcome(k, e) ==
  /\ headerErr' = e
  /\ isHeaderRead' = TRUE
  /\ headerMu' = NoCaller
  /\ saw' = [saw EXCEPT ![k] = e]

(* Mutant: the timeout leaves the connection, and with it the goroutine.   *)
TimedOutOpen(k) ==
  /\ At(k, "select", "use")
  /\ Timeout
  /\ Outcome(k, "timeout")
  /\ UNCHANGED <<bad, sentN, peerGone, offN, sock, hasHeader, goro, goroRes, appN>>

(* ctx.Done(): the connection is closed, which ends the goroutine.         *)
TimedOut(k) ==
  /\ At(k, "select", "use")
  /\ Timeout
  /\ sock' = "closed"
  /\ Outcome(k, "timeout")
  /\ UNCHANGED <<bad, sentN, peerGone, offN, hasHeader, goro, goroRes, appN>>

(* Mutant: the flag is set and the error is lost.                          *)
GotResultNoErr(k) ==
  /\ At(k, "select", "use")
  /\ goroRes # "none"
  /\ hasHeader' = (goroRes = "ok")
  /\ Outcome(k, "nil")
  /\ UNCHANGED <<bad, sentN, peerGone, offN, sock, goro, goroRes, appN>>

(* <-resCh: header or error, whichever ReadHeader returned.                *)
GotResult(k) ==
  /\ At(k, "select", "use")
  /\ goroRes # "none"
  /\ hasHeader' = (goroRes = "ok")
  /\ Outcome(k, IF goroRes = "ok" THEN "nil" ELSE goroRes)
  /\ UNCHANGED <<bad, sentN, peerGone, offN, sock, goro, goroRes, appN>>

-----------------------------------------------------------------------------
(* The goroutine: ReadHeader reads chunk by chunk up to the end of the     *)
(* header, or up to the chunk that cannot be one.                          *)
GoroReads ==
  /\ goro = "reading" /\ sock = "open"
  /\ offN < sentN /\ offN < HeaderLen /\ (bad = 0 \/ offN < bad)
  /\ offN' = offN + 1
  /\ UNCHANGED <<bad, sentN, peerGone, sock, isHeaderRead, headerErr, hasHeader,
                 headerMu, goro, goroRes, ppc, saw, appN>>

GoroEnds ==
  /\ goro = "reading"
  /\ \/ offN = HeaderLen /\ bad = 0 /\ goroRes' = "ok"
     \/ /\ \/ bad > 0 /\ offN = bad
           \/ sock = "closed"
           \/ peerGone /\ offN = sentN /\ ~(offN = HeaderLen /\ bad = 0)
        /\ goroRes' = "malformed"
  /\ goro' = "ended"
  /\ UNCHANGED <<bad, sentN, peerGone, offN, sock, isHeaderRead, headerErr,
                 hasHeader, headerMu, ppc, saw, appN>>

-----------------------------------------------------------------------------
(* Read goes on to the connection when there was no error; so does Write,  *)
(* and the address calls answer.                                           *)
AppReads(k) ==
  /\ At(k, "use", "idle")
  /\ saw[k] = "nil" /\ sock = "open" /\ offN < sentN
  /\ offN' = offN + 1
  /\ appN' = appN + 1
  /\ UNCHANGED <<bad, sentN, peerGone, sock, isHeaderRead, headerErr, hasHeader,
                 headerMu, goro, goroRes, saw>>

Used(k) ==
  /\ At(k, "use", "idle")
  /\ UNCHANGED <<bad, sentN, peerGone, offN, sock, isHeaderRead, headerErr,
                 hasHeader, headerMu, goro, goroRes, saw, appN>>

(* The owner closes the connection, in the middle of a call or after it.   *)
ConnClosed ==
  /\ sock = "open"
  /\ sock' = "closed"
  /\ UNCHANGED <<bad, sentN, peerGone, offN, isHeaderRead, headerErr, hasHeader,
                 headerMu, goro, goroRes, ppc, saw, appN>>

Caller(k) ==
  \/ Lock(k) \/ FoundRead(k) \/ StartRead(k) \/ TimedOut(k) \/ GotResult(k)
  \/ AppReads(k) \/ Used(k)

ProtoNext ==
  \/ PeerSends \/ PeerCloses \/ ConnClosed
  \/ GoroReads \/ GoroEnds
  \/ \E k \in Callers : Call(k) \/ Caller(k)

ProtoSpec == ProtoInit /\ [][ProtoNext]_protoVars

(* Goroutines run, and with a timeout the select ends.  The mutex is fair  *)
(* to one who waits (Go's starvation mode).                                *)
ProtoFairness ==
  /\ WF_protoVars(GoroReads \/ GoroEnds)
  /\ \A k \in Callers :
       /\ SF_protoVars(Lock(k))
       /\ WF_protoVars(Caller(k))

-----------------------------------------------------------------------------
(* The application reads only what follows a whole, well-formed header,    *)
(* and the goroutine takes nothing of it.                                  *)
AppAfterHeader == appN > 0 => bad = 0 /\ hasHeader /\ offN = HeaderLen + appN

(* Every call after the first gets the outcome of the first, and nil means *)
(* that there is a header to answer from.                                  *)
OutcomeShared ==
  \A k \in Callers : ppc[k] = "use" =>
    /\ isHeaderRead
    /\ saw[k] = headerErr
    /\ saw[k] = "nil" => hasHeader

(* With a timeout no call hangs, whatever the peer does or does not send.  *)
CallsReturn == \A k \in Callers : ppc[k] = "lock" ~> ppc[k] \in {"use", "idle"}

(* The goroutine that reads the header ends too: the timeout closes the    *)
(* connection under it.                                                    *)
GoroutineEnds == goro = "reading" ~> goro = "ended"

(* What stands between a caller and the client's bytes is one header, read *)
(* once: AppAfterHeader and OutcomeShared (proxyproto/net.go).             *)
HeaderFirst == AppAfterHeader /\ OutcomeShared

(* Reading the header ends, for the callers and for the goroutine:         *)
(* CallsReturn and GoroutineEnds (proxyproto/net.go).                      *)
HeaderReadEnds == CallsReturn /\ GoroutineEnds

=============================================================================
