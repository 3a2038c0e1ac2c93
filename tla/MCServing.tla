----------------------------- MODULE MCServing -----------------------------
(* The ways a request is looked at while it is served: the exchange on a   *)
(* connection of the proxy's own, as ProxyConn has it, or as the handler   *)
(* of an http.Server; what the modifiers make of the request and of the    *)
(* answer; what the log reads of both; the certificate an intercepted one  *)
(* is served with.  A behaviour is one of them; what belongs to the others *)
(* stays as it begins.                                                     *)
EXTENDS MCProxyConn, ProxyHandler, MCPipeline, MCHTTPLog, CertCache

VARIABLE served   \* "conn", "handler", "pipeline", "log" or "cert"

servingVars == <<served, connVars, exVars, pipeVars, entryVars, certVars>>

BodiesUpTo(n) == UNION {[1 .. k -> {"r", "n"}] : k \in 0 .. n}

Exchange(p, m, s, b, a, t, f) ==
  [proto |-> p, method |-> m, stream |-> s, body |-> b, announced |-> a,
   trailers |-> t, fails |-> f]

(* Bodies of up to four bytes for the flushing; any trailers, announced or *)
(* not; every protocol and method.                                         *)
MCExchanges ==
  {Exchange(1, "GET", s, b, {}, {}, f) :
     s \in {"sse", "chunk"}, b \in BodiesUpTo(4), f \in BOOLEAN}
  \cup {Exchange(1, "GET", "plain", <<"r">>, a, t, f) :
     a \in SUBSET {"x", "y"}, t \in SUBSET {"x", "y"}, f \in BOOLEAN}
  \cup {Exchange(p, m, "plain", <<>>, {}, {}, FALSE) :
     p \in {1, 2}, m \in {"GET", "CONNECT"}}

PipeRests ==
  /\ cfg = "none" /\ first = "none" /\ msg = "none" /\ where = "none"
  /\ via = Direct /\ forwards = 0 /\ answer = "none"

(* A client that names a host names another than the CONNECT's. *)
CertBegins ==
  /\ CertInit
  /\ \A s \in Handshakes : shake[s].sni # shake[s].connect
  /\ served = "cert" \/ \A s \in Handshakes :
       shake[s].sni = "" /\ shake[s].connect = CHOOSE h \in HostNames : TRUE

LogBegins ==
  /\ EntryInit
  /\ served = "log" \/ (mode = "none" /\ entry = Entry("GET", 200, "none", "body", 0, FALSE))

ServingInit ==
  /\ served \in {"conn", "handler", "pipeline", "log", "cert"}
  /\ ConnInit
  /\ served = "conn" \/ (config = Default /\ req = [method |-> "GET", close |-> FALSE])
  /\ HandlerInit
  /\ served = "handler" \/ ex = Exchange(1, "GET", "plain", <<>>, {}, {}, FALSE)
  /\ IF served = "pipeline" THEN PipeInit ELSE PipeRests
  /\ LogBegins
  /\ CertBegins

(* A handshake may be the last one. *)
CertsOver == served = "cert" /\ UNCHANGED servingVars

ServingNext ==
  \/ served = "conn" /\ ConnNext /\ UNCHANGED <<served, exVars, pipeVars, entryVars, certVars>>
  \/ served = "handler" /\ HandlerNext /\ UNCHANGED <<served, connVars, pipeVars, entryVars, certVars>>
  \/ served = "pipeline" /\ PipeNext /\ UNCHANGED <<served, connVars, exVars, entryVars, certVars>>
  \/ served = "log" /\ EntryNext /\ UNCHANGED <<served, connVars, exVars, pipeVars, certVars>>
  \/ served = "cert" /\ CertNext /\ UNCHANGED <<served, connVars, exVars, pipeVars, entryVars>>
  \/ CertsOver

ServingSpec == ServingInit /\ [][ServingNext]_servingVars /\ ConnFairness

=============================================================================
