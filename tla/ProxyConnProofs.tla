--------------------------- MODULE ProxyConnProofs --------------------------
(* What the code of handle and handleLoop keeps, for every configuration,  *)
(* every sequence of requests and every moment at which the proxy starts   *)
(* to close, the connection is cut or the client leaves; that it is a      *)
(* handler of module Proxy; and, in the last section, which certificate an *)
(* intercepted connection is served with.                                  *)
EXTENDS ProxyConn, CertCache, TLAPS

Places == Handling \cup {"handshake", "start", "peek", "header", "parsed", "write",
                         "mitmPeek", "mitmHandshake", "h2", "tunnel",
                         "return", "closeBody", "exit", "done"}

(* The places where the deadline of the whole request is in force.         *)
InRequest == Handling \cup {"parsed", "write", "mitmPeek", "mitmHandshake", "h2", "tunnel",
                            "return", "closeBody"}

ConnTypes ==
  /\ config \in Configs /\ pc \in Places
  /\ sock \in {"open", "closed"} /\ peer \in {"here", "gone"}
  /\ body \in Framings /\ upstream \in BOOLEAN
  /\ caller \in {"handle", "handleMITM", "tunnel"}

(* The request and the response are what they are declared to be.          *)
AnyStatus == {"200", "101", "reject", "error", "other"}
AnyResponse == [status : AnyStatus, close : BOOLEAN, method : Labels]

MessageTypes ==
  /\ closing \in BOOLEAN
  /\ req \in [method : Labels, close : BOOLEAN]
  /\ res \in AnyResponse

(* handleMITM writes its response with nothing open upstream.              *)
UpstreamInv ==
  /\ UpstreamReleased
  /\ caller = "handleMITM" /\ pc \in {"respond", "write"} => ~upstream

(* A deadline goes with what it was set for.                               *)
DeadlinesInv ==
  /\ wdl => pc = "write"
  /\ pc = "header" => rdl = hdrDeadline
  /\ pc \in InRequest => rdl = wholeReqDeadline

(* Which request a response answers: the one being handled, but for the    *)
(* refusal of the transport's CONNECT.  A connection is kept for another   *)
(* request after one that asks to close it only when that was a CONNECT.   *)
AnswerInv ==
  /\ pc \in {"mitm", "connect", "mitmPeek", "mitmHandshake", "h2"} => req.method = "CONNECT"
  /\ pc \in {"respond", "write"} =>
       /\ res.method \in {req.method, "CONNECT"}
       /\ caller # "handle" => res.method = req.method
       /\ caller = "handleMITM" => req.method = "CONNECT"
  /\ pc \in Sessions => res.method = req.method
  /\ pc = "write" /\ ~res.close /\ req.close => res.method = "CONNECT"
  /\ pc \in {"return", "closeBody"} /\ ret \in {"nil", "err"} /\ req.close
       => res.method = "CONNECT"

(* The body that the refusal of the transport's CONNECT leaves unread.     *)
LeftByRefusal ==
  body = "length" /\ req.close /\ req.method # "CONNECT" /\ res.method = "CONNECT"

(* A body left unread when handle is called again is such a one or is on a *)
(* connection that is gone, provided no ReadTimeout can end the reading.   *)
BodyInv ==
  /\ pc = "handshake" => body = "none"
  /\ "read" \notin Timeouts /\ pc \in {"start", "peek"} =>
       body = "none" \/ LeftByRefusal \/ (~Alive /\ ReadsOn)
  /\ "read" \notin Timeouts /\ pc = "header" => body = "none" \/ LeftByRefusal

(* Only a CONNECT with a body that it declares makes one be read for it.   *)
LostInv ==
  /\ ~ConnectBody => ~outer /\ ~lost
  /\ ~ConnectBody /\ pc \in InRequest /\ req.method = "CONNECT" => body = "none"

ConnInv ==
  ConnTypes /\ MessageTypes /\ UpstreamInv /\ DeadlinesInv /\ AnswerInv /\ BodyInv /\ LostInv

(* What the client can send, in any configuration.                         *)
LEMMA RequestsTyped ==
  config \in Configs => Requests \subseteq [method : Labels, close : BOOLEAN]
  BY ConnAssumption DEF Requests, Methods, Labels

(* handleLoop starts with nothing read and nothing open.                   *)
LEMMA ConnInitInv == ConnInit => ConnInv
<1> SUFFICES ASSUME ConnInit PROVE ConnInv
  OBVIOUS
<1>1. MessageTypes
  BY RequestsTyped, Zenon DEF ConnInit, MessageTypes, AnyResponse, AnyStatus
<1>2. ConnTypes /\ UpstreamInv /\ BodyInv
  BY Zenon DEF ConnInit, ConnTypes, UpstreamInv, UpstreamReleased, BodyInv, Places, Handling,
         Framings
<1>3. DeadlinesInv /\ AnswerInv /\ LostInv
  BY Zenon DEF ConnInit, DeadlinesInv, AnswerInv, LostInv, InRequest, Handling, Sessions
<1> QED BY <1>1, <1>2, <1>3 DEF ConnInv

(* What connect returns has a connection or not.                           *)
LEMMA ConnectTypes == \A o \in Connect : o.conn \in BOOLEAN
<1> DEFINE R == [res : {"none", "200", "reject"}, conn : BOOLEAN, err : BOOLEAN]
<1>1. connectResults \subseteq R
  BY DEF connectResults, ConnectFailed, ConnectOK, ConnectRejected
<1>2. \A o \in R : terminateTLS(o) \subseteq R
  BY Zenon DEF terminateTLS
<1>3. SUFFICES ASSUME NEW x \in Connect PROVE x \in R
  OBVIOUS
<1>4. PICK T \in {terminateTLS(o) : o \in connectResults} : x \in T
  BY DEF Connect
<1> QED BY <1>1, <1>2, <1>4

(* Every place stays a place, every flag a flag.                           *)
LEMMA ConnTypesStep == ConnTypes /\ [ConnNext]_connVars => ConnTypes'
<1> SUFFICES ASSUME ConnTypes, [ConnNext]_connVars PROVE ConnTypes'
  OBVIOUS
<1> USE DEF ConnTypes, Places, Handling, envVars, reqVars, bodyVars, resVars, retVars, deadlines
<1>1. CASE \E ok \in BOOLEAN : Handshake(ok)
  BY <1>1 DEF Handshake
<1>2. CASE StartRead \/ Peeked \/ RequestRead \/ ReadFailed
  BY <1>2 DEF StartRead, Peeked, RequestRead, NewRequest, ReadFailed, Framings
<1>3. CASE CheckClosing \/ MITMPeeked \/ MITMHandshake \/ H2Over
  BY <1>3 DEF CheckClosing, MITMPeeked, MITMHandshake, HandleAgain, H2Over, Return, Framings
<1>4. CASE ModifyRequest \/ MITMConnect
  BY <1>4 DEF ModifyRequest, MITMConnect, Refused, RespondError, Respond
<1>5. CASE RoundTrip
  BY <1>5 DEF RoundTrip, Refused, RespondError, Respond, Return, Framings
<1>6. CASE ConnectReturned
  BY <1>6, ConnectTypes DEF ConnectReturned, Refused, RespondError, Respond
<1>7. CASE StartWrite \/ WriteFailed \/ Written \/ TunnelOver
  BY <1>7 DEF StartWrite, WriteFailed, Written, TunnelOver, Return
<1>8. CASE CloseUpstream \/ HandleReturned \/ CloseConn
  BY <1>8 DEF CloseUpstream, HandleReturned, CloseConn, Framings
<1>9. CASE StartClosing \/ CutConn \/ PeerLeaves
  BY <1>9 DEF StartClosing, CutConn, PeerLeaves
<1>10. CASE UNCHANGED connVars
  BY <1>10 DEF connVars
<1> QED BY <1>1, <1>2, <1>3, <1>4, <1>5, <1>6, <1>7, <1>8, <1>9, <1>10
        DEF ConnNext, ConnHandler, ConnOver

(* Respond makes a response.                                               *)
LEMMA RespondTyped ==
  \A f, st, c, m :
    st \in AnyStatus /\ c \in BOOLEAN /\ m \in Labels /\ Respond(f, st, c, m)
      => res' \in AnyResponse
  BY DEF Respond, AnyResponse

(* The messages keep their shape; writeResponse only sets a Close flag.    *)
LEMMA MessageStep == ConnTypes /\ MessageTypes /\ [ConnNext]_connVars => MessageTypes'
<1> SUFFICES ASSUME ConnTypes, MessageTypes, [ConnNext]_connVars PROVE MessageTypes'
  OBVIOUS
<1> USE DEF MessageTypes, envVars, reqVars, bodyVars, resVars, retVars, deadlines
<1>1. CASE \E ok \in BOOLEAN : Handshake(ok)
  BY <1>1 DEF Handshake
<1>2. CASE StartRead \/ Peeked \/ ReadFailed
  BY <1>2 DEF StartRead, Peeked, ReadFailed
<1>3. CASE RequestRead
  BY <1>3, RequestsTyped DEF RequestRead, NewRequest, ConnTypes
<1>4. CASE CheckClosing \/ MITMPeeked \/ MITMHandshake \/ H2Over
  BY <1>4 DEF CheckClosing, MITMPeeked, MITMHandshake, H2Over, Return
<1>5. RespondError => res' \in AnyResponse
  BY RespondTyped DEF RespondError, AnyStatus
<1>6. CASE ModifyRequest \/ MITMConnect
  <2>1. res' = res \/ RespondError \/ Respond("handleMITM", "200", FALSE, "CONNECT")
    BY <1>6, Zenon DEF ModifyRequest, MITMConnect, Refused
  <2>2. res' \in AnyResponse
    BY <1>5, <2>1, RespondTyped, Zenon DEF AnyStatus, Labels
  <2> QED BY <1>6, <2>2, Zenon DEF ModifyRequest, MITMConnect
<1>7. CASE RoundTrip
  <2>1. \/ res' = res \/ RespondError
        \/ Respond("handle", "reject", FALSE, "CONNECT")
        \/ \E c \in BOOLEAN : Respond("handle", "other", c, req.method)
        \/ Respond("tunnel", "101", FALSE, req.method)
    BY <1>7, Zenon DEF RoundTrip, Refused
  <2>2. res' \in AnyResponse
    BY <1>5, <2>1, RespondTyped, Zenon DEF AnyStatus, Labels
  <2> QED BY <1>7, <2>2 DEF RoundTrip
<1>8. CASE ConnectReturned
  <2>1. \/ RespondError \/ Respond("tunnel", "200", FALSE, "CONNECT")
        \/ \E c \in BOOLEAN : Respond("handle", "reject", c, "CONNECT")
    BY <1>8, Zenon DEF ConnectReturned, Refused
  <2>2. res' \in AnyResponse
    BY <1>5, <2>1, RespondTyped, Zenon DEF AnyStatus, Labels
  <2> QED BY <1>8, <2>2 DEF ConnectReturned
<1>9. CASE StartWrite
  BY <1>9 DEF StartWrite, isConnectOK, reqClose, AnyResponse
<1>10. CASE WriteFailed \/ Written \/ TunnelOver
  BY <1>10 DEF WriteFailed, Written, TunnelOver, Return
<1>11. CASE CloseUpstream \/ HandleReturned \/ CloseConn
  BY <1>11 DEF CloseUpstream, HandleReturned, CloseConn
<1>12. CASE StartClosing \/ CutConn \/ PeerLeaves
  BY <1>12, Zenon DEF StartClosing, CutConn, PeerLeaves
<1>13. CASE UNCHANGED connVars
  BY <1>13 DEF connVars
<1> QED BY <1>1, <1>2, <1>3, <1>4, <1>6, <1>7, <1>8, <1>9, <1>10, <1>11, <1>12, <1>13
        DEF ConnNext, ConnHandler, ConnOver

(* What is open upstream is closed before the client is waited for.        *)
LEMMA UpstreamStep == ConnTypes /\ UpstreamInv /\ [ConnNext]_connVars => UpstreamInv'
<1> SUFFICES ASSUME ConnTypes, UpstreamInv, [ConnNext]_connVars PROVE UpstreamInv'
  OBVIOUS
<1> USE DEF UpstreamInv, UpstreamReleased, envVars, reqVars, bodyVars, resVars, retVars, deadlines
<1>1. CASE \E ok \in BOOLEAN : Handshake(ok)
  BY <1>1 DEF Handshake
<1>2. CASE StartRead \/ Peeked \/ ReadFailed
  BY <1>2 DEF StartRead, Peeked, ReadFailed
<1>3. CASE RequestRead
  BY <1>3 DEF RequestRead, NewRequest
<1>4. CASE CheckClosing \/ MITMPeeked \/ MITMHandshake \/ H2Over
  BY <1>4 DEF CheckClosing, MITMPeeked, MITMHandshake, H2Over, Return
<1>5. CASE ModifyRequest \/ MITMConnect
  BY <1>5 DEF ModifyRequest, MITMConnect, Refused, RespondError, Respond
<1>6. CASE RoundTrip
  BY <1>6 DEF RoundTrip, Refused, RespondError, Respond, Return
<1>7. CASE ConnectReturned
  BY <1>7 DEF ConnectReturned, Refused, RespondError, Respond
<1>8. CASE StartWrite \/ WriteFailed \/ Written \/ TunnelOver
  BY <1>8 DEF StartWrite, WriteFailed, Written, TunnelOver, Return
<1>9. CASE CloseUpstream \/ HandleReturned \/ CloseConn
  BY <1>9 DEF CloseUpstream, HandleReturned, CloseConn
<1>10. CASE StartClosing \/ CutConn \/ PeerLeaves
  BY <1>10 DEF StartClosing, CutConn, PeerLeaves
<1>11. CASE UNCHANGED connVars
  BY <1>11 DEF connVars
<1> QED BY <1>1, <1>2, <1>3, <1>4, <1>5, <1>6, <1>7, <1>8, <1>9, <1>10, <1>11
        DEF ConnNext, ConnHandler, ConnOver

(* The configuration is never changed.                                     *)
LEMMA ConfigKept == [ConnNext]_connVars => config' = config
<1> SUFFICES ASSUME [ConnNext]_connVars PROVE config' = config
  OBVIOUS
<1> USE DEF envVars
<1>1. CASE ConnHandler
  BY <1>1, Zenon DEF ConnHandler, Handshake, StartRead, Peeked, RequestRead, NewRequest, ReadFailed,
              CheckClosing, ModifyRequest, RoundTrip, MITMConnect, MITMPeeked, MITMHandshake,
              H2Over, ConnectReturned, StartWrite, WriteFailed, Written, TunnelOver,
              CloseUpstream, HandleReturned, CloseConn
<1>2. CASE StartClosing \/ CutConn \/ PeerLeaves \/ ConnOver \/ UNCHANGED connVars
  BY <1>2 DEF StartClosing, CutConn, PeerLeaves, ConnOver, connVars
<1> QED BY <1>1, <1>2 DEF ConnNext

LEMMA TimeoutsKept ==
  [ConnNext]_connVars =>
    Timeouts' = Timeouts /\ hdrDeadline' = hdrDeadline /\ wholeReqDeadline' = wholeReqDeadline
  BY ConfigKept DEF Timeouts, hdrDeadline, wholeReqDeadline

(* readRequest sets the read deadline three times, writeResponse the write *)
(* deadline twice.                                                         *)
LEMMA DeadlinesStep == DeadlinesInv /\ [ConnNext]_connVars => DeadlinesInv'
<1> SUFFICES ASSUME DeadlinesInv, [ConnNext]_connVars PROVE DeadlinesInv'
  OBVIOUS
<1>0. hdrDeadline' = hdrDeadline /\ wholeReqDeadline' = wholeReqDeadline
  BY TimeoutsKept
<1> USE <1>0 DEF DeadlinesInv, InRequest, Handling, envVars, reqVars, bodyVars, resVars, retVars, deadlines
<1>1. CASE \E ok \in BOOLEAN : Handshake(ok)
  BY <1>1 DEF Handshake
<1>2. CASE StartRead \/ ReadFailed
  BY <1>2 DEF StartRead, ReadFailed
<1>3. CASE Peeked
  BY <1>3 DEF Peeked
<1>4. CASE RequestRead
  BY <1>4 DEF RequestRead, NewRequest
<1>5. CASE CheckClosing \/ H2Over
  BY <1>5 DEF CheckClosing, H2Over, Return
<1>6. CASE MITMPeeked \/ MITMHandshake
  BY <1>6 DEF MITMPeeked, MITMHandshake, HandleAgain, Return
<1>7. CASE ModifyRequest \/ MITMConnect
  BY <1>7 DEF ModifyRequest, MITMConnect, Refused, RespondError, Respond
<1>8. CASE RoundTrip
  BY <1>8 DEF RoundTrip, Refused, RespondError, Respond, Return
<1>9. CASE ConnectReturned
  BY <1>9 DEF ConnectReturned, Refused, RespondError, Respond
<1>10. CASE StartWrite
  BY <1>10 DEF StartWrite
<1>11. CASE WriteFailed \/ Written \/ TunnelOver
  BY <1>11 DEF WriteFailed, Written, TunnelOver, Return
<1>12. CASE CloseUpstream \/ CloseConn
  BY <1>12 DEF CloseUpstream, CloseConn
<1>13. CASE HandleReturned
  BY <1>13 DEF HandleReturned
<1>14. CASE StartClosing \/ CutConn \/ PeerLeaves
  BY <1>14 DEF StartClosing, CutConn, PeerLeaves
<1>15. CASE UNCHANGED connVars
  BY <1>15 DEF connVars
<1> QED BY <1>1, <1>2, <1>3, <1>4, <1>5, <1>6, <1>7, <1>8, <1>9, <1>10, <1>11, <1>12, <1>13,
           <1>14, <1>15
        DEF ConnNext, ConnHandler, ConnOver

(* A response goes with the request it answers.                            *)
LEMMA AnswerStep ==
  ConnTypes /\ MessageTypes /\ AnswerInv /\ [ConnNext]_connVars => AnswerInv'
<1> SUFFICES ASSUME ConnTypes, MessageTypes, AnswerInv, [ConnNext]_connVars PROVE AnswerInv'
  OBVIOUS
<1> USE DEF AnswerInv, Sessions, envVars, reqVars, bodyVars, resVars, retVars, deadlines
<1>1. CASE \E ok \in BOOLEAN : Handshake(ok)
  BY <1>1 DEF Handshake
<1>2. CASE StartRead \/ ReadFailed
  BY <1>2 DEF StartRead, ReadFailed
<1>3. CASE Peeked
  BY <1>3 DEF Peeked
<1>4. CASE RequestRead
  BY <1>4 DEF RequestRead, NewRequest
<1>5. CASE CheckClosing \/ H2Over
  BY <1>5 DEF CheckClosing, H2Over, Return
<1>6. CASE MITMPeeked \/ MITMHandshake
  BY <1>6 DEF MITMPeeked, MITMHandshake, HandleAgain, Return
<1>7. CASE ModifyRequest \/ MITMConnect
  BY <1>7 DEF ModifyRequest, MITMConnect, Refused, RespondError, Respond
<1>8. CASE RoundTrip
  BY <1>8 DEF RoundTrip, Refused, RespondError, Respond, Return
<1>9. CASE ConnectReturned
  BY <1>9 DEF ConnectReturned, Refused, RespondError, Respond
<1>10. CASE StartWrite
  BY <1>10 DEF StartWrite, isConnectOK, reqClose, MessageTypes, AnyResponse
<1>11. CASE WriteFailed \/ Written \/ TunnelOver
  BY <1>11 DEF WriteFailed, Written, TunnelOver, Return
<1>12. CASE CloseUpstream \/ CloseConn
  BY <1>12 DEF CloseUpstream, CloseConn
<1>13. CASE HandleReturned
  BY <1>13 DEF HandleReturned
<1>14. CASE StartClosing \/ CutConn \/ PeerLeaves
  BY <1>14 DEF StartClosing, CutConn, PeerLeaves
<1>15. CASE UNCHANGED connVars
  BY <1>15 DEF connVars
<1> QED BY <1>1, <1>2, <1>3, <1>4, <1>5, <1>6, <1>7, <1>8, <1>9, <1>10, <1>11, <1>12, <1>13,
           <1>14, <1>15
        DEF ConnNext, ConnHandler, ConnOver

(* Where the unread part of a body can be.                                 *)
LEMMA BodyStep ==
  ConnTypes /\ DeadlinesInv /\ AnswerInv /\ BodyInv /\ [ConnNext]_connVars => BodyInv'
<1> SUFFICES ASSUME ConnTypes, DeadlinesInv, AnswerInv, BodyInv, [ConnNext]_connVars
             PROVE  BodyInv'
  OBVIOUS
<1>0. Timeouts' = Timeouts
  BY TimeoutsKept
<1> USE <1>0 DEF BodyInv, LeftByRefusal, ReadsOn, Alive, envVars, reqVars, bodyVars, resVars, retVars, deadlines
<1>1. CASE \E ok \in BOOLEAN : Handshake(ok)
  BY <1>1 DEF Handshake
<1>2. CASE StartRead \/ ReadFailed
  BY <1>2 DEF StartRead, ReadFailed
<1>3. CASE Peeked
  BY <1>3 DEF Peeked
<1>4. CASE RequestRead
  BY <1>4 DEF RequestRead, NewRequest
<1>5. CASE CheckClosing \/ H2Over
  BY <1>5 DEF CheckClosing, H2Over, Return
<1>6. CASE MITMPeeked \/ MITMHandshake
  BY <1>6 DEF MITMPeeked, MITMHandshake, HandleAgain, Return
<1>7. CASE ModifyRequest \/ MITMConnect
  BY <1>7 DEF ModifyRequest, MITMConnect, Refused, RespondError, Respond
<1>8. CASE RoundTrip
  BY <1>8 DEF RoundTrip, Refused, RespondError, Respond, Return
<1>9. CASE ConnectReturned
  BY <1>9 DEF ConnectReturned, Refused, RespondError, Respond
<1>10. CASE StartWrite
  BY <1>10 DEF StartWrite
<1>11. CASE WriteFailed \/ Written \/ TunnelOver
  BY <1>11 DEF WriteFailed, Written, TunnelOver, Return
<1>12. CASE CloseUpstream \/ CloseConn
  BY <1>12 DEF CloseUpstream, CloseConn
<1>13. CASE HandleReturned
  BY <1>13 DEF HandleReturned, Again, DeadlinesInv, AnswerInv, InRequest, wholeReqDeadline, ConnTypes, Framings
<1>14. CASE StartClosing \/ CutConn \/ PeerLeaves
  BY <1>14 DEF StartClosing, CutConn, PeerLeaves
<1>15. CASE UNCHANGED connVars
  BY <1>15 DEF connVars
<1> QED BY <1>1, <1>2, <1>3, <1>4, <1>5, <1>6, <1>7, <1>8, <1>9, <1>10, <1>11, <1>12, <1>13,
           <1>14, <1>15
        DEF ConnNext, ConnHandler, ConnOver

(* Who reads what follows a CONNECT.                                       *)
LEMMA LostStep == ConnTypes /\ AnswerInv /\ LostInv /\ [ConnNext]_connVars => LostInv'
<1> SUFFICES ASSUME ConnTypes, AnswerInv, LostInv, [ConnNext]_connVars PROVE LostInv'
  OBVIOUS
<1>0. ConnectBody' = ConnectBody
  BY ConfigKept DEF ConnectBody
<1> USE <1>0 DEF LostInv, InRequest, Handling, envVars, reqVars, bodyVars, resVars, retVars, deadlines
<1>1. CASE \E ok \in BOOLEAN : Handshake(ok)
  BY <1>1 DEF Handshake
<1>2. CASE StartRead \/ ReadFailed
  BY <1>2 DEF StartRead, ReadFailed
<1>3. CASE Peeked
  BY <1>3 DEF Peeked
<1>4. CASE RequestRead
  BY <1>4 DEF RequestRead, NewRequest
<1>5. CASE CheckClosing \/ H2Over
  BY <1>5 DEF CheckClosing, H2Over, Return
<1>6. CASE MITMPeeked \/ MITMHandshake
  <2>1. ASSUME ~ConnectBody, HandleAgain PROVE LostInv'
    <3>1. ~ReadsOn /\ ~outer /\ ~lost
      BY <1>6, <2>1 DEF MITMPeeked, MITMHandshake, ReadsOn, AnswerInv
    <3> QED BY <2>1, <3>1 DEF HandleAgain
  <2>2. ASSUME ~HandleAgain PROVE UNCHANGED <<outer, lost, body, req>> /\ pc \in InRequest
    BY <1>6, <2>2 DEF MITMPeeked, MITMHandshake
  <2>3. CASE ConnectBody
    BY <1>0, <2>3 DEF LostInv
  <2> QED BY <1>0, <2>1, <2>2, <2>3 DEF LostInv
<1>7. CASE ModifyRequest \/ MITMConnect
  BY <1>7 DEF ModifyRequest, MITMConnect, Refused, RespondError, Respond
<1>8. CASE RoundTrip
  BY <1>8 DEF RoundTrip, Refused, RespondError, Respond, Return
<1>9. CASE ConnectReturned
  BY <1>9 DEF ConnectReturned, Refused, RespondError, Respond
<1>10. CASE StartWrite
  BY <1>10 DEF StartWrite
<1>11. CASE WriteFailed \/ Written \/ TunnelOver
  BY <1>11 DEF WriteFailed, Written, TunnelOver, Return
<1>12. CASE CloseUpstream \/ CloseConn
  BY <1>12 DEF CloseUpstream, CloseConn
<1>13. CASE HandleReturned
  <2>1. ASSUME ~ConnectBody PROVE ~outer' /\ ~lost'
    <3>1. ~outer /\ ~lost
      BY <2>1
    <3>2. ReadsOn => ~Follows
      BY <1>13, <2>1, <3>1 DEF HandleReturned, ReadsOn, Follows
    <3> QED BY <1>13, <3>1, <3>2 DEF HandleReturned
  <2>2. pc' \in {"start", "exit"}
    BY <1>13 DEF HandleReturned
  <2> QED BY <2>1, <2>2
<1>14. CASE StartClosing \/ CutConn \/ PeerLeaves
  BY <1>14 DEF StartClosing, CutConn, PeerLeaves
<1>15. CASE UNCHANGED connVars
  BY <1>15 DEF connVars
<1> QED BY <1>1, <1>2, <1>3, <1>4, <1>5, <1>6, <1>7, <1>8, <1>9, <1>10, <1>11, <1>12, <1>13,
           <1>14, <1>15
        DEF ConnNext, ConnHandler, ConnOver

(* The invariant of a connection.                                          *)
THEOREM ConnInvariant == ConnSpec => []ConnInv
<1>1. ConnInv /\ [ConnNext]_connVars => ConnInv'
  BY ConnTypesStep, MessageStep, UpstreamStep, DeadlinesStep, AnswerStep, BodyStep, LostStep
     DEF ConnInv
<1> QED BY <1>1, ConnInitInv, PTL DEF ConnSpec

(* Whatever fails and whoever closes, handle leaves nothing open upstream  *)
(* when it blocks on the client: for every configuration.                  *)
THEOREM UpstreamReleasedAlways == ConnSpec => []UpstreamReleased
  BY ConnInvariant, PTL DEF ConnInv, UpstreamInv

LEMMA ConnInvBoundary == ConnInv => RequestBoundary
  BY Zenon DEF ConnInv, BodyInv, LostInv, LeftByRefusal, RequestBoundary

(* Without a ReadTimeout no request is parsed from the bytes of an unread  *)
(* body, over any number of requests on the connection, but for the body   *)
(* that a refused transport CONNECT leaves behind with Connection: close;  *)
(* and nothing but a body declared by a CONNECT is read for too long.      *)
THEOREM RequestBoundaryAlways == ConnSpec => []RequestBoundary
  BY ConnInvariant, ConnInvBoundary, PTL

LEMMA ConnInvSessions == ConnInv => SessionDeadlines
  BY Zenon DEF ConnInv, DeadlinesInv, SessionDeadlines, Sessions, InRequest, wholeReqDeadline

(* Whatever the timeouts, an interception, an HTTP/2 session or a tunnel   *)
(* is never under a deadline other than that of a ReadTimeout.             *)
THEOREM SessionDeadlinesAlways == ConnSpec => []SessionDeadlines
  BY ConnInvariant, ConnInvSessions, PTL

-----------------------------------------------------------------------------
(* The detailed handler implements that of module Proxy.                   *)

(* A step that leaves closing and the socket alone and takes the handler   *)
(* from one abstract place to another is a move of module Proxy.           *)
LEMMA MoveMaps ==
  ASSUME NEW from, NEW to, AbsPC = from, AbsPC' = to, UNCHANGED <<closing, sock>>
  PROVE  P!Move(Conn, from, to)
  BY DEF P!Move, P!Goto, P!serveVars, P!stopVars

(* A step that leaves closing, the socket and what AbsPC reads alone.      *)
LEMMA EnvMaps == StartClosing \/ CutConn \/ PeerLeaves \/ UNCHANGED connVars => AbsPC' = AbsPC
  BY DEF StartClosing, CutConn, PeerLeaves, connVars, envVars, reqVars, resVars, retVars,
         AbsPC, Again, errorsN1

(* Every step of the code of handle and handleLoop is a step of the        *)
(* handler of module Proxy, or one it does not see.                        *)
LEMMA HandlerMaps == MessageTypes /\ ConnHandler => P!Handler(Conn) \/ AbsPC' = AbsPC
<1> SUFFICES ASSUME MessageTypes, ConnHandler PROVE P!Handler(Conn) \/ AbsPC' = AbsPC
  OBVIOUS
<1> USE DEF envVars, reqVars, bodyVars, resVars, retVars, deadlines, Return
<1>1. CASE \E ok \in BOOLEAN : Handshake(ok)
  <2>1. AbsPC = "handshake" /\ AbsPC' \in {"reading", "exit"} /\ UNCHANGED <<closing, sock>>
    BY <1>1 DEF Handshake, AbsPC, Handling
  <2> QED BY <2>1, MoveMaps DEF P!Handler, P!HandshakeDone, P!HandshakeFailed
<1>2. CASE StartRead \/ Peeked
  BY <1>2 DEF StartRead, Peeked, AbsPC, Handling
<1>3. CASE RequestRead
  <2>1. AbsPC = "reading" /\ AbsPC' = "parsed" /\ UNCHANGED <<closing, sock>>
    BY <1>3 DEF RequestRead, NewRequest, AbsPC, Handling
  <2> QED BY <2>1, MoveMaps DEF P!Handler, P!RequestRead
<1>4. CASE ReadFailed \/ MITMPeeked \/ MITMHandshake \/ H2Over
  <2>1. AbsPC = "reading" /\ AbsPC' \in {"reading", "exit"} /\ UNCHANGED <<closing, sock>>
    BY <1>4 DEF ReadFailed, MITMPeeked, MITMHandshake, HandleAgain, H2Over, AbsPC, Handling
  <2> QED BY <2>1, MoveMaps DEF P!Handler, P!ReadFailed
<1>5. CASE CheckClosing
  <2>1. AbsPC = "parsed" /\ UNCHANGED <<closing, sock>>
    BY <1>5 DEF CheckClosing, AbsPC, Handling
  <2>2. AbsPC' = IF closing THEN "exit" ELSE "handling"
    BY <1>5 DEF CheckClosing, AbsPC, Again, Handling
  <2> QED BY <2>1, <2>2, MoveMaps DEF P!Handler, P!CheckClosingAfterRead
<1>6. CASE ModifyRequest \/ MITMConnect \/ ConnectReturned
  BY <1>6 DEF ModifyRequest, MITMConnect, ConnectReturned, Refused, RespondError, Respond,
              AbsPC, Handling
<1>7. CASE RoundTrip
  <2>1. AbsPC = "handling" /\ UNCHANGED <<closing, sock>>
    BY <1>7 DEF RoundTrip, AbsPC, Handling
  <2>2. pc' = "respond" \/ (pc' = "return" /\ ret' = "dropped")
    BY <1>7 DEF RoundTrip, Refused, RespondError, Respond
  <2>3. AbsPC' \in {"handling", "exit"}
    BY <2>2 DEF AbsPC, Again, Handling
  <2> QED BY <2>1, <2>3, MoveMaps DEF P!Handler, P!HandleReturned
<1>8. CASE StartWrite
  <2>1. AbsPC = "handling" /\ UNCHANGED <<closing, sock>>
    BY <1>8 DEF StartWrite, AbsPC, Handling
  <2>2. pc' = "write" /\ (closing => res'.close)
    BY <1>8 DEF StartWrite, MessageTypes, AnyResponse
  <2>3. AbsPC' \in IF closing THEN {"writeClose"} ELSE {"writeKeep", "writeClose", "writeTunnel"}
    BY <2>2 DEF AbsPC, Handling
  <2> QED BY <2>1, <2>3, MoveMaps DEF P!Handler, P!StartWrite
<1>9. CASE WriteFailed
  <2>1. AbsPC \in {"writeKeep", "writeClose", "writeTunnel"} /\ UNCHANGED <<closing, sock>>
    BY <1>9 DEF WriteFailed, AbsPC, Handling
  <2>2. AbsPC' = "exit"
    BY <1>9 DEF WriteFailed, AbsPC, Again, Handling
  <2> QED BY <2>1, <2>2, MoveMaps DEF P!Handler, P!WriteFailed
<1>10. CASE Written
  <2>1. UNCHANGED <<closing, sock>> /\ sock = "open"
    BY <1>10 DEF Written, Alive
  <2>2. \/ AbsPC = "writeClose" /\ AbsPC' = "exit"
        \/ AbsPC = "writeKeep" /\ AbsPC' = "reading"
        \/ AbsPC = "writeTunnel" /\ AbsPC' = "tunnel"
    BY <1>10 DEF Written, AbsPC, Again, Handling
  <2> QED BY <2>1, <2>2, MoveMaps DEF P!Handler, P!Written
<1>11. CASE TunnelOver
  <2>1. AbsPC = "tunnel" /\ AbsPC' = "exit" /\ UNCHANGED <<closing, sock>>
    BY <1>11 DEF TunnelOver, AbsPC, Again, Handling
  <2> QED BY <2>1, MoveMaps DEF P!Handler, P!TunnelDone
<1>12. CASE CloseUpstream \/ HandleReturned
  BY <1>12 DEF CloseUpstream, HandleReturned, AbsPC, Again, errorsN1, Handling
<1>13. CASE CloseConn
  <2>1. AbsPC = "exit" /\ AbsPC' = "closed"
    BY <1>13 DEF CloseConn, AbsPC, Handling
  <2>2. closing' = closing /\ sock' = "closed"
    BY <1>13 DEF CloseConn
  <2>3. P!CloseConn(Conn)
    BY <2>1, <2>2, Zenon DEF P!CloseConn, P!Goto, P!serveVars, P!stopVars
  <2> QED BY <2>3 DEF P!Handler
<1> QED BY <1>1, <1>2, <1>3, <1>4, <1>5, <1>6, <1>7, <1>8, <1>9, <1>10, <1>11, <1>12, <1>13
        DEF ConnHandler

(* For every configuration handle, with MITM, CONNECT, upgrades and        *)
(* errors, is a handler of module Proxy, of which ProxyProofs proves what  *)
(* Shutdown and Close promise.                                             *)
THEOREM HandlerImplemented == ConnSpec => ImplementsHandler
<1>1. ConnInv /\ [ConnNext]_connVars => [P!Handler(Conn)]_AbsPC
  BY HandlerMaps, EnvMaps DEF ConnNext, ConnOver, ConnInv
<1> QED BY <1>1, ConnInvariant, PTL DEF ConnSpec, ImplementsHandler

-----------------------------------------------------------------------------
(* The gauge.  GaugeInv says at every place what the request being handled *)
(* adds to its label: handle has counted it until the response is traced,  *)
(* and the ways out of handle leave their mark in ret.                     *)
GaugeTypes == gauge \in [Labels -> Int] /\ refused \in [Labels -> Int]

After == {"return", "closeBody", "exit", "done"}

Left == IF ret = "dropped" THEN 1 ELSE IF ret = "tunneled" THEN -1 ELSE 0

Own == IF pc \in Handling \cup {"parsed", "write"} THEN 1 ELSE IF pc \in After THEN Left ELSE 0

GaugeInv ==
  /\ ret \in {"dropped", "tunneled"} => pc \in After
  /\ \A m \in Labels : gauge[m] = Mislabelled(m) + (IF m = req.method THEN Own ELSE 0)

(* Who counts: readRequest up, traceWroteResponse down, nobody else.       *)
LEMMA CountedBy ==
  ASSUME [ConnNext]_connVars
  PROVE  RequestRead \/ WriteFailed \/ Written \/ TunnelOver \/ UNCHANGED <<gauge, refused, req>>
  BY Zenon DEF ConnNext, ConnHandler, ConnOver, connVars, traced, reqVars, Handshake, StartRead,
         Peeked, ReadFailed, CheckClosing, ModifyRequest, RoundTrip, MITMConnect, MITMPeeked,
         MITMHandshake, H2Over, ConnectReturned, StartWrite, CloseUpstream, HandleReturned,
         CloseConn, StartClosing, CutConn, PeerLeaves

(* One up for the label of the request that was read.                      *)
LEMMA CountedUp ==
  ASSUME GaugeTypes, MessageTypes, MessageTypes', RequestRead
  PROVE  /\ GaugeTypes'
         /\ \A m \in Labels : gauge'[m] = gauge[m] + (IF m = req'.method THEN 1 ELSE 0)
         /\ \A m \in Labels : Mislabelled(m)' = Mislabelled(m)
<1>1. req'.method \in Labels
  BY DEF MessageTypes
<1>2. gauge' = [gauge EXCEPT ![req'.method] = gauge[req'.method] + 1] /\ refused' = refused
  BY Zenon DEF RequestRead, NewRequest
<1> QED BY <1>1, <1>2 DEF GaugeTypes, Mislabelled

(* One down for the label of the request the response belongs to.  If that *)
(* is not the one being handled, both labels are off.                      *)
LEMMA CountedDown ==
  ASSUME GaugeTypes, MessageTypes, TraceWrote, res.method \in {req.method, "CONNECT"}
  PROVE  /\ GaugeTypes'
         /\ \A m \in Labels :
              gauge'[m] - Mislabelled(m)' = gauge[m] - Mislabelled(m) - (IF m = req.method THEN 1 ELSE 0)
<1>1. req.method \in Labels /\ res.method \in Labels
  BY DEF MessageTypes, AnyResponse
<1>2. gauge' = [gauge EXCEPT ![res.method] = gauge[res.method] - 1]
  BY Zenon DEF TraceWrote
<1>3. CASE res.method = req.method
  <2>1. refused' = refused
    BY <1>3 DEF TraceWrote
  <2>2. \A m \in Labels : Mislabelled(m)' = Mislabelled(m) /\ Mislabelled(m) \in Int
    BY <2>1 DEF GaugeTypes, Mislabelled, Labels
  <2> QED BY <1>1, <1>2, <1>3, <2>1, <2>2 DEF GaugeTypes
<1>4. CASE res.method # req.method
  <2>1. refused' = [refused EXCEPT ![req.method] = refused[req.method] + 1]
    BY <1>4, Zenon DEF TraceWrote
  <2>2. res.method = "CONNECT" /\ req.method \in {"GET", "HEAD"}
    BY <1>1, <1>4 DEF Labels
  <2> QED BY <1>2, <2>1, <2>2 DEF GaugeTypes, Mislabelled, Labels
<1> QED BY <1>3, <1>4

(* What is on the gauge follows the handler from place to place.           *)
LEMMA GaugeStep ==
  ConnInv /\ ConnInv' /\ GaugeTypes /\ GaugeInv /\ [ConnNext]_connVars => GaugeTypes' /\ GaugeInv'
<1> SUFFICES ASSUME ConnInv, ConnInv', GaugeTypes, GaugeInv, [ConnNext]_connVars
             PROVE  GaugeTypes' /\ GaugeInv'
  OBVIOUS
<1>0. MessageTypes /\ MessageTypes' /\ AnswerInv
  BY DEF ConnInv
<1>t. req.method \in Labels /\ \A m \in Labels : Mislabelled(m) \in Int /\ gauge[m] \in Int
  BY <1>0 DEF MessageTypes, GaugeTypes, Mislabelled, Labels
<1>1. CASE RequestRead
  <2>1. /\ GaugeTypes'
        /\ \A m \in Labels : gauge'[m] = gauge[m] + (IF m = req'.method THEN 1 ELSE 0)
        /\ \A m \in Labels : Mislabelled(m)' = Mislabelled(m)
    BY <1>0, <1>1, CountedUp, Zenon
  <2>2. pc = "header" /\ pc' = "parsed" /\ ret' = ret
    BY <1>1 DEF RequestRead, NewRequest, retVars
  <2>3. Own = 0 /\ Own' = 1
    BY <2>2 DEF Own, After, Handling
  <2> QED BY <1>t, <2>1, <2>2, <2>3 DEF GaugeInv, After
<1>2. CASE WriteFailed \/ Written \/ TunnelOver
  <2>1. TraceWrote /\ req' = req /\ pc \in {"write", "tunnel"}
    BY <1>2 DEF WriteFailed, Written, TunnelOver, reqVars
  <2>2. /\ GaugeTypes'
        /\ \A m \in Labels :
             gauge'[m] - Mislabelled(m)' = gauge[m] - Mislabelled(m) - (IF m = req.method THEN 1 ELSE 0)
    BY <1>0, <2>1, CountedDown DEF AnswerInv, Sessions
  <2>3. \A m \in Labels : gauge'[m] \in Int /\ Mislabelled(m)' \in Int
    BY <2>2 DEF GaugeTypes, Mislabelled, Labels
  <2>4. Own' = Own - 1 /\ Own \in Int
    <3>1. CASE WriteFailed \/ Written
      <4>1. ret \notin {"dropped", "tunneled"} /\ pc = "write"
        BY <3>1 DEF WriteFailed, Written, GaugeInv, After
      <4>2. pc' \in {"mitmPeek", "tunnel"} \/ (pc' = "return" /\ ret' \in {"nil", "errClose"})
        BY <3>1 DEF WriteFailed, Written, Return
      <4> QED BY <4>1, <4>2 DEF Own, Left, After, Handling
    <3>2. CASE TunnelOver
      <4>1. pc = "tunnel" /\ pc' = "return" /\ ret' = "tunneled"
        BY <3>2 DEF TunnelOver, Return
      <4> QED BY <4>1 DEF Own, Left, After, Handling
    <3> QED BY <1>2, <3>1, <3>2
  <2>5. ret' \in {"dropped", "tunneled"} => pc' \in After
    BY <1>2 DEF WriteFailed, Written, TunnelOver, Return, GaugeInv, After
  <2> QED BY <1>t, <2>1, <2>2, <2>3, <2>4, <2>5 DEF GaugeInv
<1>3. ASSUME UNCHANGED <<gauge, refused, req>>, Own' = Own,
             ret' \in {"dropped", "tunneled"} => pc' \in After
      PROVE  GaugeTypes' /\ GaugeInv'
  BY <1>3, Zenon DEF GaugeTypes, GaugeInv, Mislabelled
<1>4. ASSUME ~(RequestRead \/ WriteFailed \/ Written \/ TunnelOver)
      PROVE  Own' = Own /\ (ret' \in {"dropped", "tunneled"} => pc' \in After)
  <2> USE DEF GaugeInv, Own, Left, After, Handling, retVars
  <2>1. CASE \E ok \in BOOLEAN : Handshake(ok)
    BY <2>1 DEF Handshake
  <2>2. CASE StartRead \/ Peeked \/ ReadFailed
    BY <2>2 DEF StartRead, Peeked, ReadFailed
  <2>3. CASE CheckClosing \/ H2Over
    BY <2>3 DEF CheckClosing, H2Over, Return
  <2>4. CASE MITMPeeked \/ MITMHandshake
    BY <2>4 DEF MITMPeeked, MITMHandshake, HandleAgain, Return
  <2>5. CASE ModifyRequest \/ MITMConnect
    BY <2>5 DEF ModifyRequest, MITMConnect, Refused, RespondError, Respond
  <2>6. CASE RoundTrip
    BY <2>6 DEF RoundTrip, Refused, RespondError, Respond, Return
  <2>7. CASE ConnectReturned
    BY <2>7 DEF ConnectReturned, Refused, RespondError, Respond
  <2>8. CASE StartWrite
    BY <2>8 DEF StartWrite
  <2>9. CASE CloseUpstream \/ CloseConn
    BY <2>9 DEF CloseUpstream, CloseConn
  <2>10. CASE HandleReturned
    <3>1. pc = "closeBody" /\ ret' = ret /\ pc' = IF Again THEN "start" ELSE "exit"
      BY <2>10 DEF HandleReturned
    <3>2. Again => ret \in {"nil", "err"}
      BY DEF Again
    <3> QED BY <3>1, <3>2
  <2>11. CASE StartClosing \/ CutConn \/ PeerLeaves
    BY <2>11 DEF StartClosing, CutConn, PeerLeaves
  <2>12. CASE UNCHANGED connVars
    BY <2>12 DEF connVars
  <2> QED BY <2>1, <2>2, <2>3, <2>4, <2>5, <2>6, <2>7, <2>8, <2>9, <2>10, <2>11, <2>12, <1>4
          DEF ConnNext, ConnHandler, ConnOver
<1> QED BY <1>1, <1>2, <1>3, <1>4, CountedBy

LEMMA GaugeBegin == ConnInit => GaugeTypes /\ GaugeInv
<1> SUFFICES ASSUME ConnInit PROVE GaugeTypes /\ GaugeInv
  OBVIOUS
<1>1. GaugeTypes /\ \A m \in Labels : gauge[m] = 0 /\ refused[m] = 0
  BY DEF ConnInit, GaugeTypes
<1>2. \A m \in Labels : Mislabelled(m) = 0
  BY <1>1 DEF Mislabelled, Labels
<1>3. pc = "handshake" /\ ret = "nil"
  BY DEF ConnInit
<1>4. Own = 0
  BY <1>3 DEF Own, After, Handling
<1> QED BY <1>1, <1>2, <1>3, <1>4 DEF GaugeInv

LEMMA GaugeExact == GaugeTypes /\ GaugeInv => GaugePerLabel
<1> SUFFICES ASSUME GaugeTypes, GaugeInv, NEW m \in Labels
             PROVE  gauge[m] = BeingServed(m) + Mislabelled(m) + NotTraced(m) - TracedTwice(m)
  BY DEF GaugePerLabel
<1>1. Mislabelled(m) \in Int
  BY DEF GaugeTypes, Mislabelled, Labels
<1>2. (IF m = req.method THEN Own ELSE 0) = BeingServed(m) + NotTraced(m) - TracedTwice(m)
  BY DEF GaugeInv, Own, Left, After, Handling, BeingServed, NotTraced, TracedTwice
<1>3. gauge[m] = Mislabelled(m) + (IF m = req.method THEN Own ELSE 0)
  BY DEF GaugeInv
<1>4. BeingServed(m) \in Int /\ NotTraced(m) \in Int /\ TracedTwice(m) \in Int
  BY DEF BeingServed, NotTraced, TracedTwice
<1> QED BY <1>1, <1>2, <1>3, <1>4

(* GaugePerLabelAlways (handle, readRequest, writeResponse and tunnel with *)
(* ProxyTrace): for every configuration and any sequence of requests,      *)
(* errors and interruptions, the in-flight gauge of every method counts    *)
(* the requests being served, off by one for each refused transport        *)
(* CONNECT, for a dropped request and for a tunnel, and by nothing else.   *)
THEOREM GaugePerLabelAlways == ConnSpec => []GaugePerLabel
<1>1. ConnInv /\ ConnInv' /\ GaugeTypes /\ GaugeInv /\ [ConnNext]_connVars
        => GaugeTypes' /\ GaugeInv'
  BY GaugeStep
<1> QED BY <1>1, ConnInvariant, GaugeBegin, GaugeExact, PTL DEF ConnSpec

-----------------------------------------------------------------------------
(* The certificate a handshake is served with is the right one, for any    *)
(* set of handshakes and hosts, any validity and any life of the cache.    *)
(* The argument does not need to know what the cache holds beyond its      *)
(* type: whatever it gives is verified before it is used.                  *)
Certificates == [host : HostNames, from : Int, to : Int]
CacheEntries == {NoCert} \cup [cert : Certificates, added : Int]
HandshakeStates ==
  [pc : {"idle", "get", "verify", "make", "add", "served", "failed"},
   connect : HostNames, sni : HostNames \cup {""}, key : HostNames \cup {""},
   cert : {NoCert} \cup Certificates, began : Int]

CertTypeOK ==
  /\ moment \in Int
  /\ certs \in [HostNames -> CacheEntries]
  /\ shake \in [Handshakes -> HandshakeStates]

KeyOf(r) == IF r.sni = "" THEN r.connect ELSE r.sni

(* What a handshake r knows at time m: its key from GetCertificate on,     *)
(* that what it is about to verify is a certificate, and that what it has  *)
(* made, or been served with, is for its host and in force.                *)
Knows(r, m) ==
  /\ r.pc # "idle" => r.key \in HostNames /\ r.key = KeyOf(r) /\ r.began <= m
  /\ r.pc \in {"verify", "add", "served"} => r.cert \in Certificates
  /\ r.pc \in {"add", "served"} =>
       r.cert.host = r.key /\ r.cert.from <= m /\ r.cert.to >= r.began

CertInv == CertTypeOK /\ \A s \in Handshakes : Knows(shake[s], moment)

(* The types of the fields that are compared.                              *)
LEMMA FieldTypes ==
  /\ \A r \in HandshakeStates : r.began \in Int /\ KeyOf(r) \in HostNames
  /\ \A c \in Certificates : c.from \in Int /\ c.to \in Int
<1>1. \A r \in HandshakeStates : r.began \in Int /\ KeyOf(r) \in HostNames
  BY Zenon DEF HandshakeStates, KeyOf
<1>2. \A c \in Certificates : c.from \in Int /\ c.to \in Int
  BY DEF Certificates
<1> QED BY <1>1, <1>2

(* Nothing is served when the process starts.                              *)
LEMMA CertInitInv == CertInit => CertInv
<1> SUFFICES ASSUME CertInit PROVE CertInv
  OBVIOUS
<1>0. 0 \in Int
  OBVIOUS
<1>1. moment \in Int /\ certs \in [HostNames -> CacheEntries]
  <2>1. NoCert \in CacheEntries
    BY DEF CacheEntries
  <2>2. moment = 0 /\ certs = [h \in HostNames |-> NoCert]
    BY Zenon DEF CertInit
  <2> QED BY <2>1, <2>2
<1>2. PICK connect \in [Handshakes -> HostNames], sni \in [Handshakes -> HostNames \cup {""}] :
        shake = [s \in Handshakes |-> [pc |-> "idle", connect |-> connect[s], sni |-> sni[s],
                                       key |-> "", cert |-> NoCert, began |-> 0]]
  BY Zenon DEF CertInit
<1>3. shake \in [Handshakes -> HandshakeStates]
  <2>1. ASSUME NEW c \in HostNames, NEW n \in HostNames \cup {""}
        PROVE  [pc |-> "idle", connect |-> c, sni |-> n, key |-> "", cert |-> NoCert, began |-> 0]
                 \in HandshakeStates
    <3>1. NoCert \in {NoCert} \cup Certificates /\ "" \in HostNames \cup {""}
      BY Zenon
    <3>2. \A x \in {NoCert} \cup Certificates, k \in HostNames \cup {""}, b \in Int :
            [pc |-> "idle", connect |-> c, sni |-> n, key |-> k, cert |-> x, began |-> b]
              \in HandshakeStates
      BY Zenon DEF HandshakeStates
    <3> QED BY <1>0, <3>1, <3>2, Zenon
  <2> QED BY <1>2, <2>1, Zenon
<1>4. \A s \in Handshakes : shake[s].pc = "idle"
  BY <1>2, Zenon
<1> QED BY <1>1, <1>3, <1>4, Zenon DEF CertInv, CertTypeOK, Knows

(* A step of one handshake, at a moment, to a state that knows enough,     *)
(* keeps the invariant.                                                    *)
LEMMA HandshakeStep ==
  ASSUME CertInv, NEW s \in Handshakes, NEW r \in HandshakeStates, Knows(r, moment),
         shake' = [shake EXCEPT ![s] = r], moment' = moment,
         certs' \in [HostNames -> CacheEntries]
  PROVE  CertInv'
<1>1. CertTypeOK'
  BY DEF CertInv, CertTypeOK
<1>2. \A t \in Handshakes : shake'[t] = IF t = s THEN r ELSE shake[t]
  BY DEF CertInv, CertTypeOK
<1>3. \A t \in Handshakes : Knows(shake'[t], moment')
  BY <1>2 DEF CertInv
<1> QED BY <1>1, <1>3 DEF CertInv

(* Every step of Config.cert, the cache's own choices among them, keeps    *)
(* the invariant.                                                          *)
LEMMA CertNextInv == CertInv /\ [CertNext]_certVars => CertInv'
<1> SUFFICES ASSUME CertInv, [CertNext]_certVars PROVE CertInv'
  OBVIOUS
<1>t. moment \in Int /\ certs \in [HostNames -> CacheEntries]
      /\ \A s \in Handshakes : shake[s] \in HandshakeStates /\ Knows(shake[s], moment)
  BY DEF CertInv, CertTypeOK
<1>1. CASE PassTime
  <2>1. \A s \in Handshakes : Knows(shake[s], moment + 1)
    BY <1>t, FieldTypes DEF Knows
  <2> QED BY <1>1, <1>t, <2>1, SMTT(30) DEF PassTime, CertInv, CertTypeOK
<1>2. ASSUME NEW s \in Handshakes, GetCertificate(s) PROVE CertInv'
  <2> DEFINE r == [shake[s] EXCEPT !.pc = "get", !.began = moment, !.key = KeyOf(shake[s])]
  <2>0. r \in HandshakeStates /\ KeyOf(r) = KeyOf(shake[s])
    BY <1>t, FieldTypes, Zenon DEF HandshakeStates, KeyOf
  <2>1. r \in HandshakeStates /\ Knows(r, moment)
    <3>1. r.pc = "get" /\ r.began = moment /\ r.key = KeyOf(shake[s])
      BY <1>t, Zenon DEF HandshakeStates
    <3> QED BY <1>t, <2>0, <3>1, FieldTypes DEF Knows
  <2>2. shake' = [shake EXCEPT ![s] = r] /\ moment' = moment /\ certs' = certs
    BY <1>2 DEF GetCertificate, KeyOf
  <2> QED BY <1>t, <2>1, <2>2, HandshakeStep, Zenon
<1>3. ASSUME NEW s \in Handshakes, CacheGet(s) PROVE CertInv'
  <2> DEFINE e == certs[shake[s].key]
             hit == e # NoCert /\ moment < e.added + CacheTTL
             r == [shake[s] EXCEPT !.pc = IF hit THEN "verify" ELSE "make",
                                   !.cert = IF hit THEN e.cert ELSE NoCert]
  <2>1. hit => e.cert \in Certificates
    BY <1>3, <1>t DEF CacheGet, Knows, CacheEntries
  <2>2. r \in HandshakeStates /\ Knows(r, moment)
    BY <1>3, <1>t, <2>1, ZenonT(40) DEF CacheGet, HandshakeStates, Knows, KeyOf
  <2>3. shake' = [shake EXCEPT ![s] = r] /\ moment' = moment /\ certs' = certs
    BY <1>3 DEF CacheGet
  <2> QED BY <1>t, <2>2, <2>3, HandshakeStep, Zenon
<1>4. ASSUME NEW s \in Handshakes, CacheVerify(s) PROVE CertInv'
  <2> DEFINE ok == Verifies(shake[s].cert, shake[s].key)
             r == [shake[s] EXCEPT !.pc = IF ok THEN "served" ELSE "make"]
  <2>1. ok => /\ shake[s].cert.host = shake[s].key
              /\ shake[s].cert.from <= moment /\ shake[s].cert.to >= shake[s].began
    BY <1>4, <1>t, FieldTypes DEF CacheVerify, Verifies, Knows
  <2>2. r \in HandshakeStates /\ Knows(r, moment)
    BY <1>4, <1>t, <2>1, ZenonT(40) DEF CacheVerify, HandshakeStates, Knows, KeyOf
  <2>3. shake' = [shake EXCEPT ![s] = r] /\ moment' = moment /\ certs' = certs
    BY <1>4 DEF CacheVerify
  <2> QED BY <1>t, <2>2, <2>3, HandshakeStep, Zenon
<1>5. ASSUME NEW s \in Handshakes, MakeCert(s) PROVE CertInv'
  <2> DEFINE c == [host |-> shake[s].key, from |-> moment - Validity, to |-> moment + Validity]
             r == [shake[s] EXCEPT !.pc = "add", !.cert = c]
  <2>1. c \in Certificates /\ c.from <= moment /\ c.to >= shake[s].began
    <3>1. shake[s].key \in HostNames /\ shake[s].began <= moment /\ shake[s].began \in Int
      BY <1>5, <1>t, FieldTypes DEF MakeCert, Knows
    <3> QED BY <1>t, <3>1, CertAssumption DEF Certificates
  <2>2. r \in HandshakeStates /\ Knows(r, moment)
    BY <1>5, <1>t, <2>1, Zenon DEF MakeCert, HandshakeStates, Knows, KeyOf
  <2>3. shake' = [shake EXCEPT ![s] = r] /\ moment' = moment /\ certs' = certs
    BY <1>5 DEF MakeCert
  <2> QED BY <1>t, <2>2, <2>3, HandshakeStep, Zenon
<1>6. ASSUME NEW s \in Handshakes, MakeFails(s) PROVE CertInv'
  <2> DEFINE r == [shake[s] EXCEPT !.pc = "failed", !.cert = NoCert]
  <2>1. r \in HandshakeStates /\ Knows(r, moment)
    BY <1>6, <1>t, Zenon DEF MakeFails, HandshakeStates, Knows, KeyOf
  <2>2. shake' = [shake EXCEPT ![s] = r] /\ moment' = moment /\ certs' = certs
    BY <1>6 DEF MakeFails
  <2> QED BY <1>t, <2>1, <2>2, HandshakeStep, Zenon
<1>7. ASSUME NEW s \in Handshakes, CacheAdd(s) PROVE CertInv'
  <2> DEFINE r == [shake[s] EXCEPT !.pc = "served"]
  <2>1. r \in HandshakeStates /\ Knows(r, moment)
    BY <1>7, <1>t, ZenonT(40) DEF CacheAdd, HandshakeStates, Knows, KeyOf
  <2>2. [cert |-> shake[s].cert, added |-> moment] \in CacheEntries
    BY <1>7, <1>t DEF CacheAdd, CacheEntries, Knows
  <2>3. certs' \in [HostNames -> CacheEntries]
    BY <1>7, <1>t, <2>2 DEF CacheAdd, CacheEntries
  <2>4. shake' = [shake EXCEPT ![s] = r] /\ moment' = moment
    BY <1>7 DEF CacheAdd
  <2> QED BY <2>1, <2>3, <2>4, HandshakeStep, Zenon
<1>8. CASE UNCHANGED certVars
  BY <1>8 DEF certVars, CertInv, CertTypeOK
<1> QED BY <1>1, <1>2, <1>3, <1>4, <1>5, <1>6, <1>7, <1>8 DEF CertNext

(* CertServed holds of any number of concurrent handshakes, whatever the   *)
(* cache evicts and however the time passes between the steps of cert.     *)
THEOREM CertServedAlways == CertSpec => []CertServed
<1>1. CertInv => CertServed
  BY Zenon DEF CertInv, Knows, KeyOf, CertServed
<1> QED BY <1>1, CertInitInv, CertNextInv, PTL DEF CertSpec

=============================================================================
