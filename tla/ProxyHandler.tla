---------------------------- MODULE ProxyHandler ----------------------------
(***************************************************************************)
(* The proxy as an http.Handler (internal/martian/proxy_handler.go,        *)
(* flush.go): one call of ServeHTTP.  net/http owns the connection; the    *)
(* handler tells it that a response is broken by panicking with            *)
(* ErrAbortHandler, and takes the connection over with Hijack.             *)
(*                                                                         *)
(* An exchange is a record: proto, the protocol of the client; method;     *)
(* stream, how the response is flushed; body, the bytes of the response;   *)
(* announced and trailers, those upstream announces and those it sends;    *)
(* fails, upstream breaks off before the end.  Bytes are "r" and "n", for  *)
(* CR and LF.                                                              *)
(***************************************************************************)
EXTENDS Integers, Sequences, FiniteSets

CONSTANT Exchanges

Bytes == {"r", "n"}

ASSUME HandlerAssumption ==
  \A e \in Exchanges :
    e.body \in Seq(Bytes) /\ IsFiniteSet(e.announced) /\ IsFiniteSet(e.trailers)

VARIABLES ex,          \* the exchange
          hpc,         \* where ServeHTTP is
          reading,     \* the body being copied: "upstream" or "own" (an error)
          copied,      \* bytes read from it
          last,        \* patternFlushWriter.last
          hup,         \* res.Body or crw is open
          reqBody,     \* the body of the request is open
          client,      \* the client is there
          hgauge,      \* traced requests minus traced responses
          wire         \* what the client got: body, flushed bytes, trailers, end

exVars == <<ex, hpc, reading, copied, last, hup, reqBody, client, hgauge, wire>>

HandlerInit ==
  /\ ex \in Exchanges
  /\ hpc = "serve" /\ reading = "upstream" /\ copied = 0 /\ last = "0"
  /\ hup = FALSE /\ reqBody = TRUE /\ client = TRUE /\ hgauge = 0
  /\ wire = [body |-> <<>>, flushed |-> 0, trailers |-> {}, end |-> "none"]

-----------------------------------------------------------------------------
(* ServeHTTP clones the request; handleRequest traces it.                  *)
ServeHTTP ==
  /\ hpc = "serve"
  /\ hpc' = "modify" /\ hgauge' = hgauge + 1
  /\ UNCHANGED <<ex, reading, copied, last, hup, reqBody, client, wire>>

(* writeErrorResponse: a response with a body of our own.                  *)
WriteError == hpc' = "header" /\ reading' = "own"

(* modifyRequest                                                           *)
HModifyRequest ==
  /\ hpc = "modify"
  /\ \/ WriteError
     \/ hpc' = "upstream" /\ UNCHANGED reading
  /\ UNCHANGED <<ex, copied, last, hup, reqBody, client, hgauge, wire>>

(* Connect and handleConnectRequest, or roundTrip and handleRequest.  A    *)
(* CONNECT that failed may have a connection, and so may one that was      *)
(* refused; the deferred calls close it.                                   *)
AskUpstream ==
  /\ hpc = "upstream"
  /\ \/ WriteError /\ hup' \in {FALSE, ex.method = "CONNECT"}
     \/ WriteError /\ hup' = TRUE    \* modifyResponse
     \/ hpc' = "header" /\ UNCHANGED reading /\ hup' = TRUE
     \/ hpc' = "hijack" /\ UNCHANGED reading /\ hup' = TRUE
  /\ UNCHANGED <<ex, copied, last, reqBody, client, hgauge, wire>>

-----------------------------------------------------------------------------
(* panic(http.ErrAbortHandler): the server breaks the connection or resets *)
(* the stream.  Deferred calls run either way.                             *)
Unwind(end) == hpc' = "unwind" /\ wire' = [wire EXCEPT !.end = end]

(* A 101 whose body cannot be written to; nothing is traced.               *)
NotAConnection ==
  /\ hpc = "hijack" /\ ex.method # "CONNECT"
  /\ Unwind("aborted")
  /\ UNCHANGED <<ex, reading, copied, last, hup, reqBody, client, hgauge>>

(* tunnel.  handleRequest has made every request but CONNECT an HTTP/1.1   *)
(* one, so that an upgrade asks an HTTP/2 stream for Hijack and fails.     *)
(* An HTTP/1 client gets the answer through proxyConn.writeResponse, which *)
(* traces it too.                                                          *)
CanHijack == ex.proto = 1

TunnelFails ==
  /\ hpc = "hijack"
  /\ hgauge' \in IF CanHijack THEN {hgauge - 1, hgauge - 2} ELSE {hgauge - 1}
  /\ Unwind("aborted")
  /\ UNCHANGED <<ex, reading, copied, last, hup, reqBody, client>>

TunnelRuns ==
  /\ hpc = "hijack"
  /\ CanHijack \/ ex.method = "CONNECT"
  /\ hpc' = "bicopy"
  /\ hgauge' = IF CanHijack THEN hgauge - 1 ELSE hgauge
  /\ UNCHANGED <<ex, reading, copied, last, hup, reqBody, client, wire>>

(* bicopy, see module Tunnel; h2Writer flushes after every write.          *)
TunnelEnded ==
  /\ hpc = "bicopy"
  /\ hgauge' = hgauge - 1
  /\ Unwind("tunnel")
  /\ UNCHANGED <<ex, reading, copied, last, hup, reqBody, client>>

-----------------------------------------------------------------------------
(* writeResponse                                                           *)

(* copyHeader, addTrailerHeader, WriteHeader, Flush.                       *)
WriteHeader ==
  /\ hpc = "header"
  /\ hpc' = "copy"
  /\ UNCHANGED <<ex, reading, copied, last, hup, reqBody, client, hgauge, wire>>

Pattern == IF ex.stream = "sse" THEN <<"n", "n">> ELSE <<"r", "n">>
Body == IF reading = "own" THEN <<"r">> ELSE ex.body
Streams == reading = "upstream" /\ ex.stream # "plain"

(* Mutant: only this Write is looked at.                                   *)
FlushesInside(p) == \E i \in 1 .. Len(p) - 1 : SubSeq(p, i, i + 1) = Pattern

(* patternFlushWriter.Write: the pattern is in p or across its beginning.  *)
Flushes(p) ==
  \/ last = Pattern[1] /\ p[1] = Pattern[2]
  \/ \E i \in 1 .. Len(p) - 1 : SubSeq(p, i, i + 1) = Pattern

(* io.CopyBuffer reads some bytes and writes them.                         *)
CopySome ==
  /\ hpc = "copy" /\ client
  /\ \E n \in copied + 1 .. Len(Body) :
       LET p == SubSeq(Body, copied + 1, n) IN
       /\ copied' = n /\ last' = p[Len(p)]
       /\ wire' = [wire EXCEPT !.body = @ \o p,
                               !.flushed = IF Streams /\ Flushes(p) THEN n ELSE @]
  /\ UNCHANGED <<ex, hpc, reading, hup, reqBody, client, hgauge>>

Broken == ~client \/ (reading = "upstream" /\ ex.fails)

(* Mutant: the error is logged and the handler returns.                    *)
CopyFailedReturns ==
  /\ hpc = "copy" /\ Broken
  /\ hgauge' = hgauge - 1
  /\ Unwind("complete")
  /\ UNCHANGED <<ex, reading, copied, last, hup, reqBody, client>>

(* The read or the write fails: trace and panic.                           *)
CopyFailed ==
  /\ hpc = "copy" /\ Broken
  /\ hgauge' = hgauge - 1
  /\ Unwind("aborted")
  /\ UNCHANGED <<ex, reading, copied, last, hup, reqBody, client>>

(* res.Trailer now has the announced keys and those that came.  If that is *)
(* as many, they are set under their names, and the server sends those     *)
(* announced; otherwise with TrailerPrefix, and it sends them all.         *)
SentTrailers ==
  IF reading = "own" THEN {}
  ELSE IF Cardinality(ex.announced \cup ex.trailers) = Cardinality(ex.announced)
       THEN ex.trailers \cap ex.announced ELSE ex.trailers

(* EOF.  res.Body.Close before the trailers are read; return.              *)
CopyDone ==
  /\ hpc = "copy" /\ copied = Len(Body) /\ ~Broken
  /\ hgauge' = hgauge - 1
  /\ hup' = (hup /\ reading = "own")
  /\ hpc' = "unwind"
  /\ wire' = [wire EXCEPT !.end = "complete", !.trailers = SentTrailers]
  /\ UNCHANGED <<ex, reading, copied, last, reqBody, client>>

-----------------------------------------------------------------------------
(* The deferred Close of res.Body, crw, the hijacked connection and the    *)
(* body of the request.                                                    *)
ServeReturns ==
  /\ hpc = "unwind"
  /\ hpc' = "done" /\ hup' = FALSE /\ reqBody' = FALSE
  /\ UNCHANGED <<ex, reading, copied, last, client, hgauge, wire>>

ClientLeaves ==
  /\ client /\ client' = FALSE
  /\ UNCHANGED <<ex, hpc, reading, copied, last, hup, reqBody, hgauge, wire>>

HandlerOver == hpc = "done" /\ UNCHANGED exVars

HandlerNext ==
  \/ ServeHTTP \/ HModifyRequest \/ AskUpstream
  \/ NotAConnection \/ TunnelFails \/ TunnelRuns \/ TunnelEnded
  \/ WriteHeader \/ CopySome \/ CopyFailed \/ CopyDone
  \/ ServeReturns \/ ClientLeaves \/ HandlerOver

HandlerSpec == HandlerInit /\ [][HandlerNext]_exVars

-----------------------------------------------------------------------------
(* A response that ends as a whole one is whole: every byte and every      *)
(* trailer of upstream's response, announced or not, has been given to the *)
(* server (writeResponse panics when the copy fails), and it was traced    *)
(* once; and whatever way ServeHTTP ends, upstream and the body of the     *)
(* request are released.                                                   *)
WholeOrAborted ==
  /\ wire.end = "complete" =>
       /\ wire.body = Body
       /\ reading = "upstream" => ~ex.fails /\ wire.trailers = ex.trailers
  /\ hpc = "done" => /\ ~hup /\ ~reqBody
                     /\ wire.end = "complete" => hgauge = 0

(* Whenever the handler waits for more of an event stream or of chunks,    *)
(* what ends in an event or a line has been flushed to the client, however *)
(* upstream's bytes were cut into reads (patternFlushWriter.Write).        *)
EventsFlushed ==
  hpc = "copy" /\ Streams =>
    \A i \in 1 .. Len(wire.body) - 1 :
      SubSeq(wire.body, i, i + 1) = Pattern => wire.flushed >= i + 1

=============================================================================
