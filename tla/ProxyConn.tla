----------------------------- MODULE ProxyConn -----------------------------
(***************************************************************************)
(* One client connection of martian.Proxy in detail: handleLoop from the   *)
(* TLS handshake on, and proxyConn.handle with its MITM, CONNECT, upgrade  *)
(* and plain paths (internal/martian/proxy_conn.go, proxy_connect.go).     *)
(*                                                                         *)
(* The state is what these functions share across requests: the read and   *)
(* write deadlines left on the connection, the body of the last request,   *)
(* the upstream connection, the in-flight gauge fed by ProxyTrace, and the *)
(* count of consecutive errors.  Other goroutines act on it too: Shutdown  *)
(* or Close set closing, Close cuts the connection, the client leaves.     *)
(*                                                                         *)
(* AbsPC maps a state to that of a handler of module Proxy.                *)
(***************************************************************************)
EXTENDS Integers, FiniteSets

CONSTANTS Configs,      \* the configurations, and clients, to consider
          Conn          \* the name of the connection

(* methods: what the client may send; timeouts: those that are not zero;   *)
(* mitm: MITMConfig is set (MITMFilter still decides); h2: H2Config is     *)
(* set, so that a MITM client may negotiate h2; modifiersFail: the request *)
(* and response modifiers may refuse; connectBody: the client may give a   *)
(* CONNECT a Content-Length or Transfer-Encoding; maxRequests: bound on    *)
(* the requests the client sends.                                          *)
ASSUME ConnAssumption ==
  Configs \subseteq [methods       : SUBSET {"GET", "HEAD", "CONNECT"},
                     timeouts      : SUBSET {"idle", "read", "header", "write", "tls"},
                     mitm          : BOOLEAN,
                     h2            : BOOLEAN,
                     modifiersFail : BOOLEAN,
                     connectBody   : BOOLEAN,
                     maxRequests   : Nat]

VARIABLES config,    \* the configuration of the proxy, never changed
          closing,   \* closeCh is closed
          sock,      \* the connection: "open", or "closed" on our side
          peer,      \* the client: "here", or "gone" (EOF, reset)
          pc,        \* where the handler is
          req,       \* the request being handled: method, and its Close flag
          body,      \* how the unread part of its body is framed, or "none"
          outer,     \* the handle of a CONNECT around this one has a body to close
          lost,      \* bytes behind a CONNECT were read as a body of it
          res,       \* the response: status, Close flag, method of res.Request
          caller,    \* who called writeResponse: handle, handleMITM or tunnel
          upstream,  \* the upstream connection or response body is open
          ret,       \* how handle ended: "nil", "errClose" ("dropped" and
                     \* "tunneled" are errClose too) or "err", any other error
          errorsN,   \* consecutive errors
          rdl,       \* read deadline: "none", "idle", "header" or "whole"
          wdl,       \* a write deadline is set
          gauge,     \* per method: http_requests_in_flight
          refused,   \* history, per method: requests answered with the refusal
                     \* of the transport's own CONNECT
          nread      \* requests read

envVars   == <<config, closing, sock, peer>>
bodyVars  == <<body, outer, lost>>
reqVars   == <<req, bodyVars, nread>>
resVars   == <<res, caller>>
retVars   == <<ret, errorsN>>
deadlines == <<rdl, wdl>>
traced    == <<gauge, refused>>
connVars  == <<envVars, pc, reqVars, resVars, upstream, retVars, deadlines, traced>>

Methods       == config.methods
Timeouts      == config.timeouts
MITM          == config.mitm
H2            == config.h2
ModifiersFail == config.modifiersFail
ConnectBody   == config.connectBody
MaxRequests   == config.maxRequests

maxConsecutiveErrors == 5

Labels    == {"GET", "HEAD", "CONNECT"}
Framings  == {"none", "length", "chunked"}
Requests  == [method : Methods, close : BOOLEAN]
Responses == [status : {"200", "101", "reject", "error", "other"},
              close  : BOOLEAN,
              method : Methods \cup {"CONNECT"}]

(* The places of the handler between the request and the write.            *)
Handling == {"modify", "mitm", "connect", "roundtrip", "respond"}

ConnTypeOK ==
  /\ config \in Configs
  /\ closing \in BOOLEAN /\ sock \in {"open", "closed"} /\ peer \in {"here", "gone"}
  /\ pc \in Handling \cup {"handshake", "start", "peek", "header", "parsed", "write",
                           "mitmPeek", "mitmHandshake", "h2", "tunnel",
                           "return", "closeBody", "exit", "done"}
  /\ req \in Requests /\ res \in Responses
  /\ body \in Framings /\ outer \in BOOLEAN /\ lost \in BOOLEAN
  /\ caller \in {"handle", "handleMITM", "tunnel"}
  /\ upstream \in BOOLEAN
  /\ ret \in {"nil", "errClose", "dropped", "tunneled", "err"}
  /\ errorsN \in 0 .. maxConsecutiveErrors
  /\ rdl \in {"none", "idle", "header", "whole"} /\ wdl \in BOOLEAN
  /\ gauge \in [Labels -> -MaxRequests .. MaxRequests]
  /\ refused \in [Labels -> 0 .. MaxRequests]
  /\ nread \in 0 .. MaxRequests

ConnInit ==
  /\ config \in Configs
  /\ closing = FALSE /\ sock = "open" /\ peer = "here"
  /\ pc = "handshake"
  /\ req \in Requests /\ body = "none" /\ outer = FALSE /\ lost = FALSE
  /\ res = [status |-> "other", close |-> FALSE, method |-> req.method]
  /\ caller = "handle" /\ upstream = FALSE
  /\ ret = "nil" /\ errorsN = 0
  /\ rdl = "none" /\ wdl = FALSE
  /\ gauge = [m \in Labels |-> 0] /\ refused = gauge
  /\ nread = 0

Alive == sock = "open" /\ peer = "here"

-----------------------------------------------------------------------------
(* maybeHandshakeTLS; a plain connection passes at once.                   *)
Handshake(ok) ==
  /\ pc = "handshake"
  /\ pc' = IF ok THEN "start" ELSE "exit"
  /\ UNCHANGED <<envVars, reqVars, resVars, upstream, retVars, deadlines, traced>>

-----------------------------------------------------------------------------
(* readRequest                                                             *)

(* The first of the timeouts that is set, else none.                       *)
idleDeadline ==
  CASE "idle" \in Timeouts -> "idle"
    [] "read" \in Timeouts -> "whole"
    [] OTHER -> "none"

hdrDeadline ==
  CASE "header" \in Timeouts -> "header"
    [] "read" \in Timeouts -> "whole"
    [] OTHER -> "none"

wholeReqDeadline == IF "read" \in Timeouts THEN "whole" ELSE "none"

(* Mutant: the wait for a request has no deadline.                         *)
StartReadNoDeadline ==
  /\ pc = "start"
  /\ pc' = "peek"
  /\ rdl' = "none"
  /\ UNCHANGED <<envVars, reqVars, resVars, upstream, retVars, wdl, traced>>

StartRead ==
  /\ pc = "start"
  /\ pc' = "peek"
  /\ rdl' = idleDeadline
  /\ UNCHANGED <<envVars, reqVars, resVars, upstream, retVars, wdl, traced>>

(* req.Body.Close reads what is left of a body, but for one whose length   *)
(* is known when the request asks to close the connection (net/http).      *)
ReadsOn == body # "none" /\ ~(body = "length" /\ req.close)

(* Peek(1) returns: from the connection, or from what is buffered unless a *)
(* failed read of a body has used that up.                                 *)
Peeked ==
  /\ pc = "peek"
  /\ Alive \/ ~ReadsOn
  /\ pc' = "header"
  /\ rdl' = hdrDeadline
  /\ UNCHANGED <<envVars, reqVars, resVars, upstream, retVars, wdl, traced>>

(* What http.ReadRequest returns; traceReadRequest.                        *)
NewRequest ==
  /\ pc = "header"
  /\ nread < MaxRequests
  /\ nread' = nread + 1
  /\ req' \in Requests
  /\ body' \in IF req'.method = "CONNECT" /\ ~ConnectBody THEN {"none"} ELSE Framings
  /\ gauge' = [gauge EXCEPT ![req'.method] = @ + 1]
  /\ pc' = "parsed"
  /\ UNCHANGED <<envVars, outer, lost, resVars, upstream, retVars, wdl, refused>>

(* Mutant: the deadline is only adjusted when there is a ReadTimeout.      *)
RequestReadKeepsDeadline ==
  NewRequest /\ rdl' = IF "read" \in Timeouts THEN wholeReqDeadline ELSE rdl

(* The read deadline is adjusted when the two differ.  Of a CONNECT only   *)
(* ContentLength is changed: its Body is the one its header declares,      *)
(* although what follows is not part of it.                                *)
RequestRead ==
  NewRequest /\ rdl' = IF hdrDeadline # wholeReqDeadline THEN wholeReqDeadline ELSE rdl

(* EOF, a deadline, a closed connection, bad syntax: errClose.             *)
ReadFailed ==
  /\ pc \in {"peek", "header"}
  /\ ret' = "errClose"
  /\ pc' = "exit"
  /\ UNCHANGED <<envVars, reqVars, resVars, upstream, errorsN, deadlines, traced>>

-----------------------------------------------------------------------------
(* handle                                                                  *)

(* handle returns: its deferred calls are still to be made.                *)
Return(r) ==
  /\ pc' = "return"
  /\ ret' = r

(* Mutant: handle does not ask closing().                                  *)
CheckClosingDropped ==
  /\ pc = "parsed"
  /\ pc' = "modify" /\ UNCHANGED ret
  /\ UNCHANGED <<envVars, reqVars, resVars, upstream, errorsN, deadlines, traced>>

CheckClosing ==
  /\ pc = "parsed"
  /\ IF closing THEN Return("dropped") ELSE pc' = "modify" /\ UNCHANGED ret
  /\ UNCHANGED <<envVars, reqVars, resVars, upstream, errorsN, deadlines, traced>>

(* A response for f to write.  Its Request is the one being handled, or    *)
(* the transport's own CONNECT for one made by OnProxyConnectResponse.     *)
Respond(f, status, close, method) ==
  /\ pc' = "respond"
  /\ caller' = f
  /\ res' = [status |-> status, close |-> close, method |-> method]

(* writeErrorResponse with an error of ours; errors of the modifiers are   *)
(* put in a header.                                                        *)
RespondError == Respond("handle", "error", req.close, req.method)

(* modifyRequest or modifyResponse returned an error.                      *)
Refused == ModifiersFail /\ RespondError

ModifyRequest ==
  /\ pc = "modify"
  /\ \/ Refused
     \/ /\ UNCHANGED resVars
        /\ \/ req.method = "CONNECT" /\ MITM /\ pc' = "mitm"
           \/ req.method = "CONNECT" /\ pc' = "connect"
           \/ req.method # "CONNECT" /\ pc' = "roundtrip"
  /\ UNCHANGED <<envVars, reqVars, upstream, retVars, deadlines, traced>>

(* The round trip fails, with an error of its own or with the answer of an *)
(* upstream proxy that refused the transport's CONNECT; or it returns a    *)
(* response.  Then modifyResponse may fail, a 101 becomes a tunnel if its  *)
(* body can be written to, and anything else is written.                   *)
RoundTrip ==
  /\ pc = "roundtrip"
  /\ body' \in {"none", body}
  /\ \/ RespondError /\ UNCHANGED <<upstream, ret>>
     \/ Respond("handle", "reject", FALSE, "CONNECT") /\ UNCHANGED <<upstream, ret>>
     \/ /\ upstream' = TRUE
        /\ \/ Refused /\ UNCHANGED ret
           \/ \E c \in BOOLEAN : Respond("handle", "other", c, req.method) /\ UNCHANGED ret
           \/ Respond("tunnel", "101", FALSE, req.method) /\ UNCHANGED ret
           \/ Return("dropped") /\ UNCHANGED resVars
  /\ UNCHANGED <<envVars, req, outer, lost, nread, errorsN, deadlines, traced>>

-----------------------------------------------------------------------------
(* handleMITM                                                              *)

MITMConnect ==
  /\ pc = "mitm"
  /\ Refused \/ Respond("handleMITM", "200", FALSE, "CONNECT")
  /\ UNCHANGED <<envVars, reqVars, upstream, retVars, deadlines, traced>>

(* handle is called for what the client says after the CONNECT; that of    *)
(* the CONNECT, with its Body on the same reader, returns after it.        *)
HandleAgain ==
  /\ pc' = "start"
  /\ IF ReadsOn THEN outer' = TRUE ELSE UNCHANGED outer
  /\ body' = "none"
  /\ UNCHANGED <<lost, ret>>

(* Peek(1) for the first byte of what the client says after the 200.  22   *)
(* starts a TLS handshake; otherwise handle is called on the same stream.  *)
MITMPeeked ==
  /\ pc = "mitmPeek"
  /\ \/ HandleAgain
     \/ pc' = "mitmHandshake" /\ UNCHANGED <<bodyVars, ret>>
     \/ Return("errClose") /\ UNCHANGED bodyVars
  /\ UNCHANGED <<envVars, req, nread, resVars, upstream, errorsN, deadlines, traced>>

(* After the handshake handle is called on the TLS connection, unless the  *)
(* client speaks HTTP/2.                                                   *)
MITMHandshake ==
  /\ pc = "mitmHandshake"
  /\ \/ HandleAgain
     \/ H2 /\ pc' = "h2" /\ UNCHANGED <<bodyVars, ret>>
     \/ Return("errClose") /\ UNCHANGED bodyVars
  /\ UNCHANGED <<envVars, req, nread, resVars, upstream, errorsN, deadlines, traced>>

(* h2.Config.Proxy is over.  An error that isCloseable ends the connection *)
(* like errClose.                                                          *)
H2Over ==
  /\ pc = "h2"
  /\ \E r \in {"nil", "errClose", "err"} : Return(r)
  /\ UNCHANGED <<envVars, reqVars, resVars, upstream, errorsN, deadlines, traced>>

-----------------------------------------------------------------------------
(* handleConnectRequest, Proxy.Connect                                     *)

(* What connect can return: dialled directly or through SOCKS5, or through *)
(* an HTTP proxy, whose refusal comes with the connection still open.      *)
ConnectFailed   == [res |-> "none", conn |-> FALSE, err |-> TRUE]
ConnectOK       == [res |-> "200", conn |-> TRUE, err |-> FALSE]
ConnectRejected == [res |-> "reject", conn |-> TRUE, err |-> FALSE]
connectResults  == {ConnectFailed, ConnectOK, ConnectRejected}

(* With X-Martian-Terminate-Tls a TLS handshake follows on any connection. *)
terminateTLS(o) == IF o.conn THEN {o, [o EXCEPT !.err = TRUE]} ELSE {o}

Connect == UNION {terminateTLS(o) : o \in connectResults}

(* crw and res.Body are closed when handleConnectRequest returns, by the   *)
(* deferred calls, whether or not there was an error.                      *)
ConnectReturned ==
  /\ pc = "connect"
  /\ \E o \in Connect :
       /\ upstream' = o.conn
       /\ \/ IF o.err THEN RespondError ELSE Refused
          \/ ~o.err /\ o.res = "200" /\ Respond("tunnel", "200", FALSE, "CONNECT")
          \/ /\ ~o.err /\ o.res = "reject"
             /\ \E c \in BOOLEAN : Respond("handle", "reject", c, "CONNECT")
  /\ UNCHANGED <<envVars, reqVars, retVars, deadlines, traced>>

-----------------------------------------------------------------------------
(* writeResponse                                                           *)

isConnectOK == res.method = "CONNECT" /\ res.status = "200"

(* req.Close of the request the response belongs to; the transport's own   *)
(* CONNECT never has it set.                                               *)
reqClose == res.method = req.method /\ req.close

StartWrite ==
  /\ pc = "respond"
  /\ wdl' = ("write" \in Timeouts)
  /\ res' = [res EXCEPT !.close = closing \/ (~isConnectOK /\ (@ \/ reqClose))]
  /\ pc' = "write"
  /\ UNCHANGED <<envVars, reqVars, caller, upstream, retVars, rdl, traced>>

(* Mutant: the response is traced by the caller as well.                   *)
TraceWroteTwice == gauge' = [gauge EXCEPT ![res.method] = @ - 2] /\ UNCHANGED refused

(* traceWroteResponse: the gauge goes down, for the method of res.Request. *)
TraceWrote ==
  /\ gauge' = [gauge EXCEPT ![res.method] = @ - 1]
  /\ refused' = IF res.method = req.method THEN refused
                ELSE [refused EXCEPT ![req.method] = @ + 1]

(* The deferred SetWriteDeadline clears the deadline on every path.        *)
WriteFailed ==
  /\ pc = "write"
  /\ TraceWrote
  /\ wdl' = FALSE
  /\ Return("errClose")
  /\ UNCHANGED <<envVars, reqVars, resVars, upstream, errorsN, rdl>>

(* Flushed.  errClose when the response said so, also to handleMITM and    *)
(* tunnel; nil lets handle return, MITM peek, or the tunnel start.  The    *)
(* buffered bytes drainBuffer sends first are those Buffered() counted, so *)
(* its Peek cannot fail.                                                   *)
Written ==
  /\ pc = "write"
  /\ Alive
  /\ TraceWrote
  /\ wdl' = FALSE
  /\ \/ res.close /\ Return("errClose")
     \/ ~res.close /\ caller = "handle" /\ Return("nil")
     \/ ~res.close /\ caller = "handleMITM" /\ pc' = "mitmPeek" /\ UNCHANGED ret
     \/ ~res.close /\ caller = "tunnel" /\ pc' = "tunnel" /\ UNCHANGED ret
  /\ UNCHANGED <<envVars, reqVars, resVars, upstream, errorsN, rdl>>

(* Both copies of bicopy are over; tunnel traces the response once more.   *)
TunnelOver ==
  /\ pc = "tunnel"
  /\ TraceWrote
  /\ Return("tunneled")
  /\ UNCHANGED <<envVars, reqVars, resVars, upstream, errorsN, deadlines>>

-----------------------------------------------------------------------------
(* The deferred calls of handle, then the loop of handleLoop.              *)

errorsN1 == IF ret = "nil" THEN 0 ELSE errorsN + 1

(* handleLoop calls handle again.                                          *)
Again == ret = "nil" \/ (ret = "err" /\ errorsN1 < maxConsecutiveErrors)

(* Mutant: the deferred close is forgotten when handle fails.              *)
CloseUpstreamOnSuccess ==
  /\ pc = "return"
  /\ upstream' = (upstream /\ ret # "nil")
  /\ pc' = "closeBody"
  /\ UNCHANGED <<envVars, reqVars, resVars, retVars, deadlines, traced>>

(* res.Body.Close and crw.Close, deferred last.                            *)
CloseUpstream ==
  /\ pc = "return"
  /\ upstream' = FALSE
  /\ pc' = "closeBody"
  /\ UNCHANGED <<envVars, reqVars, resVars, retVars, deadlines, traced>>

(* What the Close of a body that is waited for reads: the rest of it, or,  *)
(* for a CONNECT, what follows in the stream.                              *)
Follows == outer \/ req.method = "CONNECT"

(* Mutant: the body of the request is not closed.                          *)
HandleReturnedBodyOpen ==
  /\ pc = "closeBody"
  /\ outer' = FALSE
  /\ errorsN' = IF ret \in {"nil", "err"} THEN errorsN1 ELSE errorsN
  /\ pc' = IF Again THEN "start" ELSE "exit"
  /\ UNCHANGED <<envVars, req, body, lost, nread, resVars, upstream, ret, deadlines, traced>>

(* req.Body.Close, of this handle and of those around it; its error is not *)
(* looked at.  The reading of a body may fail, with some of it read.       *)
HandleReturned ==
  /\ pc = "closeBody"
  /\ outer' = FALSE
  /\ \/ /\ ~ReadsOn /\ ~outer
        /\ body' = (IF req.method = "CONNECT" THEN "none" ELSE body)
        /\ UNCHANGED lost
     \/ /\ ReadsOn \/ outer
        /\ body' = (IF ReadsOn \/ req.method = "CONNECT" THEN "none" ELSE body)
        /\ IF Follows THEN lost' = TRUE ELSE UNCHANGED lost
     \/ /\ ReadsOn \/ outer
        /\ ~Alive \/ rdl # "none"
        /\ body' = (IF req.method = "CONNECT" THEN "none" ELSE body)
        /\ UNCHANGED lost \/ (Follows /\ lost' = TRUE)
  /\ errorsN' = IF ret \in {"nil", "err"} THEN errorsN1 ELSE errorsN
  /\ pc' = IF Again THEN "start" ELSE "exit"
  /\ UNCHANGED <<envVars, req, nread, resVars, upstream, ret, deadlines, traced>>

(* The deferred conn.Close of handleLoop.                                  *)
CloseConn ==
  /\ pc = "exit"
  /\ sock' = "closed"
  /\ pc' = "done"
  /\ UNCHANGED <<config, closing, peer, reqVars, resVars, upstream, retVars, deadlines, traced>>

-----------------------------------------------------------------------------
(* Shutdown or Close elsewhere; the walk of Close reaches this connection; *)
(* the client goes away.                                                   *)
StartClosing ==
  /\ ~closing
  /\ closing' = TRUE
  /\ UNCHANGED <<config, sock, peer, pc, reqVars, resVars, upstream, retVars, deadlines, traced>>

CutConn ==
  /\ closing /\ sock = "open"
  /\ sock' = "closed"
  /\ UNCHANGED <<config, closing, peer, pc, reqVars, resVars, upstream, retVars, deadlines, traced>>

PeerLeaves ==
  /\ peer = "here"
  /\ peer' = "gone"
  /\ UNCHANGED <<config, closing, sock, pc, reqVars, resVars, upstream, retVars, deadlines, traced>>

ConnOver == pc = "done" /\ UNCHANGED connVars

ConnHandler ==
  \/ \E ok \in BOOLEAN : Handshake(ok)
  \/ StartRead \/ Peeked \/ RequestRead \/ ReadFailed
  \/ CheckClosing \/ ModifyRequest \/ RoundTrip
  \/ MITMConnect \/ MITMPeeked \/ MITMHandshake \/ H2Over
  \/ ConnectReturned
  \/ StartWrite \/ WriteFailed \/ Written \/ TunnelOver
  \/ CloseUpstream \/ HandleReturned \/ CloseConn

ConnNext == ConnHandler \/ StartClosing \/ CutConn \/ PeerLeaves \/ ConnOver

ConnSpec == ConnInit /\ [][ConnNext]_connVars

-----------------------------------------------------------------------------
(* Fairness.  The handler's own steps are taken.  A read ends when it has  *)
(* a deadline or the connection is gone, a write and a handshake when the  *)
(* timeout is set or the connection is gone.  Nothing is assumed of the    *)
(* upstream: not that a dial, a handshake with it or a round trip ends,    *)
(* nor that the body of its response goes on.  Nor of tunnels and HTTP/2   *)
(* sessions.                                                               *)
OwnStep ==
  \/ StartRead \/ CheckClosing \/ ModifyRequest \/ MITMConnect \/ StartWrite
  \/ CloseUpstream \/ CloseConn
  \/ ~ReadsOn /\ ~outer /\ HandleReturned

ReadBounded == rdl # "none" \/ ~Alive

(* writeResponse relays the body of an answer as it comes; the deadline is *)
(* for the writes to the client, of which there is none while it stalls.   *)
Relays ==
  pc = "write" /\ upstream /\ res.status \in {"other", "reject"} /\ res.method # "HEAD"

AwaitsUpstream == pc \in {"roundtrip", "connect"} \/ Relays

ConnFairness ==
  /\ WF_connVars(OwnStep)
  /\ WF_connVars(ReadBounded /\ (Peeked \/ RequestRead \/ ReadFailed \/ MITMPeeked
                                 \/ HandleReturned))
  /\ WF_connVars(("tls" \in Timeouts \/ ~Alive) /\ \E ok \in BOOLEAN : Handshake(ok))
  /\ WF_connVars(("tls" \in Timeouts \/ ReadBounded) /\ MITMHandshake)
  /\ WF_connVars((wdl \/ ~Alive) /\ ~Relays /\ (Written \/ WriteFailed))

ConnFairSpec == ConnSpec /\ ConnFairness

-----------------------------------------------------------------------------
(* The handler of module Proxy this state stands for.  After the 200 of a  *)
(* MITM the handler is reading again, whatever it reads.                   *)
AbsPC ==
  CASE pc \in {"start", "peek", "header", "mitmPeek", "mitmHandshake", "h2"} -> "reading"
    [] pc \in Handling -> "handling"
    [] pc = "write" /\ res.close -> "writeClose"
    [] pc = "write" /\ ~res.close -> IF caller = "tunnel" THEN "writeTunnel" ELSE "writeKeep"
    [] pc \in {"return", "closeBody"} -> IF Again THEN "reading" ELSE "exit"
    [] pc = "done" -> "closed"
    [] OTHER -> pc

P == INSTANCE Proxy WITH
  Conns <- {Conn}, Listeners <- {}, NoConn <- "none",
  closeCh <- closing, connsMu <- "free", conns <- {Conn}, connsWg <- 1,
  cpc <- [c \in {Conn} |-> AbsPC], sock <- [c \in {Conn} |-> sock],
  lopen <- <<>>, spc <- <<>>, sconn <- <<>>,
  sd <- "idle", cl <- "idle", cltodo <- {}

(* The code of handle, with MITM, CONNECT, upgrades and errors, is a       *)
(* handler as module Proxy describes it: what is proved there of           *)
(* Shutdown and Close holds of it.                                         *)
ImplementsHandler == [][P!Handler(Conn)]_AbsPC

(* The requests of a method being served: from traceReadRequest until the  *)
(* response is written or the tunnel is over.                              *)
BeingServed(m) ==
  IF m = req.method /\ pc \in Handling \cup {"parsed", "write", "tunnel"} THEN 1 ELSE 0

(* What the gauge of a label is off by.  A refusal of the transport's own  *)
(* CONNECT is traced under CONNECT, whatever the request was.              *)
Mislabelled(m) == IF m = "CONNECT" THEN -(refused["GET"] + refused["HEAD"]) ELSE refused[m]

NotTraced(m) == IF m = req.method /\ ret = "dropped" THEN 1 ELSE 0

TracedTwice(m) ==
  IF m = req.method /\ (pc = "tunnel" \/ ret = "tunneled") THEN 1 ELSE 0

(* The gauge of every label is at all times the number of its requests     *)
(* that are being served, as its help text (middleware/prometheus.go:71)   *)
(* has it, but for three leaks, none of which is ever made good: a refused *)
(* transport CONNECT, once for each, leaves the request's label one too    *)
(* high and CONNECT one too low; a request that is dropped without an      *)
(* answer leaves its label one too high; a tunnel, traced as written when  *)
(* it starts and again when it is over, one too low.  No failure, retry or *)
(* close in between adds a fourth.                                         *)
GaugePerLabel ==
  \A m \in Labels :
    gauge[m] = BeingServed(m) + Mislabelled(m) + NotTraced(m) - TracedTwice(m)

(* The deferred calls release the upstream side on every path, before the  *)
(* handler can block on the client again for the rest of a body.           *)
UpstreamReleased == upstream => pc \in {"respond", "write", "tunnel", "return"}

(* Without a ReadTimeout (the default) a request is parsed from where the  *)
(* one before it ended: handle closes the body on every path, and when the *)
(* reading of it fails the connection has no more bytes to give.  There    *)
(* are two exceptions.  The body of a request with Content-Length and      *)
(* Connection: close is left unread, and if the transport's CONNECT for it *)
(* is refused the connection is kept: the refusal answers another request, *)
(* whose Close is not set.  And the Close of a CONNECT's body, of which    *)
(* its Content-Length is to be ignored (proxy_connect.go:42), reads what   *)
(* follows in the stream.                                                  *)
RequestBoundary ==
  "read" \notin Timeouts /\ pc = "header" =>
    /\ body # "none" =>
         body = "length" /\ req.close /\ req.method # "CONNECT" /\ res.method = "CONNECT"
    /\ lost => ConnectBody

(* What outlives the exchange that a timer was set for is not cut by it:   *)
(* while a connection is intercepted or tunneled, or the rest of a body is *)
(* read, no deadline of the wait for the request, of its header or of a    *)
(* response is pending.  That of a ReadTimeout is: it is the one readRequest *)
(* left on the connection, and ends them all.                              *)
Sessions == {"mitmPeek", "mitmHandshake", "h2", "tunnel"}

SessionDeadlines ==
  pc \in Sessions \cup {"return", "closeBody"} =>
    ~wdl /\ rdl = IF "read" \in Timeouts THEN "whole" ELSE "none"

(* With the read, write and TLS timeouts set, a closing proxy gets rid of  *)
(* every connection, whatever the client does, unless it is a tunnel or an *)
(* HTTP/2 session, or waits for the upstream for ever: in a round trip, in *)
(* a CONNECT, or for the rest of the body of a response.  None of these    *)
(* three has a timeout by default (ResponseHeaderTimeout is 0, terminateTLS *)
(* hands over no context, WriteTimeout is for the client).                 *)
ClosingFinishes ==
  closing /\ {"read", "write", "tls"} \subseteq Timeouts
    ~> (pc \in {"tunnel", "h2", "done"} \/ []AwaitsUpstream)

(* The help text of the gauge: "Current number of HTTP requests being      *)
(* served" (middleware/prometheus.go).  A number of requests is not        *)
(* negative; the refusal of a transport's CONNECT is traced as the answer  *)
(* to a CONNECT, which nobody counted.                                     *)
GaugeNotNegative == \A m \in Labels : gauge[m] >= 0

(* The comment of isHeaderOnlySpec: "Any response to a HEAD request" ends  *)
(* with its header.  The code asks the method of res.Request.              *)
HeadHasNoBody == pc = "write" /\ req.method = "HEAD" => res.method = "HEAD"

=============================================================================
