----------------------------- MODULE MCStreams -----------------------------
(* The parts that look after a connection: its accounting and the listener *)
(* or dialer it comes from, the PROXY header in front of a client's bytes, *)
(* the CONNECT to an upstream proxy, the tunnel, the gRPC messages in an   *)
(* HTTP/2 stream, the rate limit it is served with, and the log its        *)
(* handler writes to.  A behaviour is that of one part; the others rest in *)
(* a state in which none of their goroutines has anything to do.           *)
EXTENDS Tunnel, DialVia, ProxyProtoConn, ConnTrack, MCNet, RateLimit, RotatableFile,
        MCProxyHeader, MCGRPC

VARIABLE part

Parts == {"tunnel", "dial", "proto", "track", "dialer", "listen", "limit",
          "log", "header", "grpc"}

(* The variables of the parts, in three groups. *)
bytesVars == <<tunnelVars, dialVars, protoVars>>
ownVars == <<trackVars, dialerVars, listenVars>>
aroundVars == <<limitVars, logVars, headerVars, grpcVars>>
streamsVars == <<part, bytesVars, ownVars, aroundVars>>

TunnelRests ==
  /\ phase = "over" /\ brw = FALSE
  /\ sent = [s \in Sides |-> 0] /\ taken = sent
  /\ fin = [s \in Sides |-> TRUE] /\ eof = fin /\ gone = [s \in Sides |-> FALSE]
  /\ held = [s \in Sides |-> <<>>] /\ got = held
  /\ tpc = [s \in Sides |-> "done"]
  /\ deadline = "none" /\ stuck = gone /\ shuts = TRUE

DialRests ==
  /\ ctxDone = TRUE /\ dpc = "err" /\ conn = "none"
  /\ up = 0 /\ upEnds = FALSE /\ read = 0
  /\ rpc = "none" /\ resCh = FALSE /\ errCh = FALSE

OneOf(f, S) == f = [x \in DOMAIN f |-> CHOOSE y \in S : TRUE]

(* The parts other than the tunnel and the dial rest as they begin: where  *)
(* Init leaves a choice, in one of its states.                             *)
StreamsInit ==
  /\ part \in Parts
  /\ IF part = "tunnel" THEN TunnelInit ELSE TunnelRests
  /\ IF part = "dial" THEN DialInit ELSE DialRests
  /\ ProtoInit /\ (part = "proto" \/ bad = 0)
  /\ TrackInit /\ (part = "track" \/ OneOf(kconn, Conns))
  /\ DialerInit
  /\ part = "dialer" \/ dial = [d \in Dials |-> [pc |-> "idle", want |-> CHOOSE a \in Wanted : TRUE,
        track |-> TRUE, addr |-> CHOOSE a \in Wanted : TRUE, tries |-> 0, cancelled |-> FALSE]]
  /\ ListenInit
  /\ LimitInit /\ (part = "limit" \/ dir = "rx")
  /\ LogInit
  /\ IF part = "header" THEN HeaderInit ELSE wire = [v |-> 0] /\ hdr = <<>> /\ cursor = <<>> /\ tlvs = <<>>
  /\ GRPCInit /\ (part = "grpc" \/ msgs = <<>>)

(* Nothing waits in these parts: they may stop anywhere. *)
MayStop == part \in Parts \ {"tunnel", "dial", "proto", "track"} /\ UNCHANGED streamsVars

StreamsNext ==
  \/ part = "tunnel" /\ TunnelNext /\ UNCHANGED <<part, dialVars, protoVars, ownVars, aroundVars>>
  \/ part = "dial" /\ DialNext /\ UNCHANGED <<part, tunnelVars, protoVars, ownVars, aroundVars>>
  \/ part = "proto" /\ ProtoNext /\ UNCHANGED <<part, tunnelVars, dialVars, ownVars, aroundVars>>
  \/ part = "track" /\ TrackNext /\ UNCHANGED <<part, dialerVars, listenVars, bytesVars, aroundVars>>
  \/ part = "dialer" /\ DialerNext /\ UNCHANGED <<part, trackVars, listenVars, bytesVars, aroundVars>>
  \/ part = "listen" /\ ListenNext /\ UNCHANGED <<part, trackVars, dialerVars, bytesVars, aroundVars>>
  \/ part = "limit" /\ LimitNext /\ UNCHANGED <<part, logVars, headerVars, grpcVars, bytesVars, ownVars>>
  \/ part = "log" /\ LogNext /\ UNCHANGED <<part, limitVars, headerVars, grpcVars, bytesVars, ownVars>>
  \/ part = "header" /\ HeaderNext /\ UNCHANGED <<part, limitVars, logVars, grpcVars, bytesVars, ownVars>>
  \/ part = "grpc" /\ GRPCNext /\ UNCHANGED <<part, limitVars, logVars, headerVars, bytesVars, ownVars>>
  \/ MayStop

StreamsSpec ==
  /\ StreamsInit /\ [][StreamsNext]_streamsVars
  /\ TunnelFairness /\ DialFairness /\ ProtoFairness

=============================================================================
