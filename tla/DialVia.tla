------------------------------ MODULE DialVia ------------------------------
(***************************************************************************)
(* HTTPProxyDialer.DialContextR (dialvia/http.go): dial an upstream HTTP   *)
(* proxy, send it a CONNECT, and wait for the answer, for the context or   *)
(* for an error, whichever comes first.  A goroutine of its own reads the  *)
(* answer.                                                                 *)
(*                                                                         *)
(* The upstream sends the answer in AnswerLen chunks and, once it has      *)
(* agreed, bytes of the tunnel right behind it.  The connection is handed  *)
(* over with those bytes unread.                                           *)
(***************************************************************************)
EXTENDS Integers

CONSTANTS HTTPS,      \* the proxy URL is https: the first write is a handshake
          AnswerLen,  \* chunks of the answer
          MaxAnswer   \* bound on the chunks the upstream sends, answer included

ASSUME DialViaAssumption ==
  /\ HTTPS \in BOOLEAN
  /\ AnswerLen \in Nat \ {0} /\ MaxAnswer \in Nat /\ AnswerLen <= MaxAnswer

VARIABLES ctxDone,   \* the context is cancelled, or ConnectTimeout has passed
          dpc,       \* the caller: "dial", "write", "select", "ok" or "err"
          conn,      \* the connection: "none", "open" or "closed"
          up,        \* chunks the upstream has sent; it may stop anywhere
          upEnds,    \* the upstream has closed its side
          read,      \* chunks the reader has taken off the connection
          rpc,       \* the reader goroutine: "none", "reading" or "ended"
          resCh,     \* the buffered channel resCh holds the response
          errCh      \* the buffered channel errCh holds an error

dialVars == <<ctxDone, dpc, conn, up, upEnds, read, rpc, resCh, errCh>>

DialTypeOK ==
  /\ ctxDone \in BOOLEAN
  /\ dpc \in {"dial", "write", "select", "ok", "err"}
  /\ conn \in {"none", "open", "closed"}
  /\ up \in 0 .. MaxAnswer /\ read \in 0 .. MaxAnswer /\ upEnds \in BOOLEAN
  /\ rpc \in {"none", "reading", "ended"}
  /\ resCh \in BOOLEAN /\ errCh \in BOOLEAN

DialInit ==
  /\ ctxDone = FALSE
  /\ dpc = "dial"
  /\ conn = "none"
  /\ up = 0 /\ upEnds = FALSE /\ read = 0
  /\ rpc = "none" /\ resCh = FALSE /\ errCh = FALSE

-----------------------------------------------------------------------------
(* The caller                                                              *)

(* d.dial returns, with an error if the context is done.                   *)
Dialed ==
  /\ dpc = "dial"
  /\ dpc' = "write"
  /\ conn' = "open"
  /\ UNCHANGED <<ctxDone, up, upEnds, read, rpc, resCh, errCh>>

DialFailed ==
  /\ dpc = "dial"
  /\ dpc' = "err"
  /\ UNCHANGED <<ctxDone, conn, up, upEnds, read, rpc, resCh, errCh>>

(* req.Write and Flush.  The context is not looked at.  Over TLS this is   *)
(* where the handshake takes place, so it waits for the upstream.          *)
WriteDone ==
  /\ dpc = "write"
  /\ HTTPS => ~upEnds
  /\ dpc' = "select"
  /\ rpc' = "reading"
  /\ UNCHANGED <<ctxDone, conn, up, upEnds, read, resCh, errCh>>

(* Mutant: the connection is not closed when the request cannot be sent.   *)
WriteFailedOpen ==
  /\ dpc = "write"
  /\ dpc' = "err"
  /\ UNCHANGED <<ctxDone, conn, up, upEnds, read, rpc, resCh, errCh>>

WriteFailed ==
  /\ dpc = "write"
  /\ dpc' = "err"
  /\ conn' = "closed"
  /\ UNCHANGED <<ctxDone, up, upEnds, read, rpc, resCh, errCh>>

(* The three cases of the select; a ready one is chosen freely.            *)
SelectCtx ==
  /\ dpc = "select" /\ ctxDone
  /\ dpc' = "err"
  /\ conn' = "closed"
  /\ UNCHANGED <<ctxDone, up, upEnds, read, rpc, resCh, errCh>>

SelectErr ==
  /\ dpc = "select" /\ errCh
  /\ dpc' = "err"
  /\ conn' = "closed"
  /\ errCh' = FALSE
  /\ UNCHANGED <<ctxDone, up, upEnds, read, rpc, resCh>>

SelectRes ==
  /\ dpc = "select" /\ resCh
  /\ dpc' = "ok"
  /\ resCh' = FALSE
  /\ UNCHANGED <<ctxDone, conn, up, upEnds, read, rpc, errCh>>

-----------------------------------------------------------------------------
(* The reader                                                              *)

(* http.ReadResponse through byteReader: no more than it asks for.         *)
ReadChunk ==
  /\ rpc = "reading" /\ conn = "open" /\ read < AnswerLen
  /\ read < up
  /\ read' = read + 1
  /\ UNCHANGED <<ctxDone, dpc, conn, up, upEnds, rpc, resCh, errCh>>

ReaderDone ==
  /\ rpc = "reading" /\ read >= AnswerLen
  /\ rpc' = "ended"
  /\ resCh' = TRUE
  /\ UNCHANGED <<ctxDone, dpc, conn, up, upEnds, read, errCh>>

(* Mutant: errCh has no buffer, and after the select no one receives.      *)
ReaderFailedUnbuffered ==
  /\ rpc = "reading"
  /\ read > 0 \/ conn = "closed" \/ (upEnds /\ read = up)
  /\ dpc = "select"
  /\ rpc' = "ended"
  /\ errCh' = TRUE
  /\ UNCHANGED <<ctxDone, dpc, conn, up, upEnds, read, resCh>>

(* What has been read is not a response, or the upstream has closed, or we *)
(* have: the channel has room for one, so the goroutine never waits for a  *)
(* caller that is gone.                                                    *)
ReaderFailed ==
  /\ rpc = "reading"
  /\ read > 0 \/ conn = "closed" \/ (upEnds /\ read = up)
  /\ rpc' = "ended"
  /\ errCh' = TRUE
  /\ UNCHANGED <<ctxDone, dpc, conn, up, upEnds, read, resCh>>

-----------------------------------------------------------------------------
CtxExpires ==
  /\ ~ctxDone
  /\ ctxDone' = TRUE
  /\ UNCHANGED <<dpc, conn, up, upEnds, read, rpc, resCh, errCh>>

UpstreamSends ==
  /\ dpc \in {"select", "ok"} /\ conn = "open" /\ ~upEnds
  /\ up < MaxAnswer
  /\ up' = up + 1
  /\ UNCHANGED <<ctxDone, dpc, conn, upEnds, read, rpc, resCh, errCh>>

UpstreamEnds ==
  /\ conn = "open" /\ ~upEnds
  /\ upEnds' = TRUE
  /\ UNCHANGED <<ctxDone, dpc, conn, up, read, rpc, resCh, errCh>>

DialOver == dpc \in {"ok", "err"} /\ UNCHANGED dialVars

DialNext ==
  \/ Dialed \/ DialFailed \/ WriteDone \/ WriteFailed
  \/ SelectCtx \/ SelectErr \/ SelectRes
  \/ ReadChunk \/ ReaderDone \/ ReaderFailed
  \/ CtxExpires \/ UpstreamSends \/ UpstreamEnds
  \/ DialOver

DialSpec == DialInit /\ [][DialNext]_dialVars

(* The two goroutines run; dial returns once its context is done; a write  *)
(* to a socket ends, one that is a handshake only if the upstream plays    *)
(* its part or closes.  The timer of ConnectTimeout fires.                 *)
DialFairness ==
  /\ WF_dialVars(ctxDone /\ (Dialed \/ DialFailed))
  /\ WF_dialVars((~HTTPS \/ upEnds) /\ (WriteDone \/ WriteFailed))
  /\ WF_dialVars(SelectCtx \/ SelectErr \/ SelectRes)
  /\ WF_dialVars(ReadChunk \/ ReaderDone \/ ReaderFailed)
  /\ WF_dialVars(CtxExpires)

DialFairSpec == DialSpec /\ DialFairness

-----------------------------------------------------------------------------
(* An error never leaves the connection open, and a success never hands    *)
(* out one that a late expiry of the context has closed.                   *)
ConnOwned ==
  /\ dpc = "err" => conn # "open"
  /\ dpc = "ok" => conn = "open"

(* The reader takes nothing but the answer, and all of it before the       *)
(* connection is handed out: the tunnel begins with what the upstream      *)
(* sends behind the answer.                                                *)
TunnelBytesLeft == read <= AnswerLen /\ (dpc = "ok" => read = AnswerLen)

(* The reader goroutine ends, also when the caller left on the context.    *)
ReaderEnds == dpc \in {"ok", "err"} ~> rpc \in {"none", "ended"}

(* ConnectTimeout is "the maximum amount of time to connect to upstream"   *)
(* (internal/martian/proxy.go): once it has passed the dial returns.       *)
ConnectTimeoutBinds == ctxDone ~> dpc \in {"ok", "err"}

(* The connection DialContextR hands out, and what is left on it:          *)
(* ConnOwned and TunnelBytesLeft (dialvia/http.go).                        *)
ConnHandedOver == ConnOwned /\ TunnelBytesLeft

(* Both goroutines of a CONNECT end, the caller's at the timeout at the    *)
(* latest: ReaderEnds and ConnectTimeoutBinds (dialvia/http.go).           *)
ConnectEnds == ReaderEnds /\ ConnectTimeoutBinds

=============================================================================
