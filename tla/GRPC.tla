------------------------------- MODULE GRPC -------------------------------
(* internal/martian/h2/grpc: one direction of a gRPC stream.  The adapter  *)
(* collects the DATA frames of the peer, cut anywhere, into messages, the  *)
(* processor sees whole messages, and the emitter sends each on in a frame *)
(* of its own, with the compression the adapter found.  The processor is   *)
(* one that forwards what it is given.                                     *)
EXTENDS Naturals, Sequences

CONSTANTS
  MessageLists,   \* what the peer sends: sequences of [at, len, compressed, sound]
  Prefix          \* bytes before a message: its flag and length, 5 in the code

VARIABLES
  msgs,      \* the messages of this stream
  grpc,      \* a.enabled, from the content-type of the headers
  encoding,  \* a.encoding: "identity", a codec, or "none" before the headers
  framed,    \* bytes of the messages the peer has sent
  peerEnd,   \* it has ended the stream,
  emptyEnd,  \* in a DATA frame that has no bytes
  adapter,   \* [state, taken, length, compressed]: the interpreter of Data
  looping,   \* it is in the loop of Data
  out,       \* the DATA frames the sink was given: [msg, len, flag, end]
  rawOut,    \* the bytes of the DATA frames passed on as they are, and
  rawEnd,    \* whether their stream ended
  failed     \* a handler returned an error: the relay ends

grpcVars == <<msgs, grpc, encoding, framed, peerEnd, emptyEnd, adapter, looping, out,
              rawOut, rawEnd, failed>>

(* The messages are one behind the other in the bytes of the stream: at is *)
(* where the prefix of one begins.                                         *)
Behind(m) == m.at + Prefix + m.len

ASSUME GRPCAssumption ==
  /\ Prefix \in Nat \ {0}
  /\ \A q \in MessageLists :
       /\ q \in Seq([at : Nat, len : Nat, compressed : BOOLEAN, sound : BOOLEAN])
       /\ q # <<>> => q[1].at = 0
       /\ \A i, j \in DOMAIN q : i < j => Behind(q[i]) <= q[j].at
       /\ \A i \in DOMAIN q : i + 1 \in DOMAIN q => Behind(q[i]) = q[i + 1].at

(* The bytes of the first k messages, and of all of them.                  *)
EndOf(k) == IF k = 0 THEN 0 ELSE Behind(msgs[k])
Whole == EndOf(Len(msgs))

GRPCInit ==
  /\ msgs \in MessageLists
  /\ grpc = FALSE /\ encoding = "none"
  /\ framed = 0 /\ peerEnd = FALSE /\ emptyEnd = FALSE
  /\ adapter = [state |-> "metadata", taken |-> 0, length |-> 0, compressed |-> FALSE]
  /\ looping = FALSE
  /\ out = <<>> /\ rawOut = 0 /\ rawEnd = FALSE /\ failed = FALSE

(* adapter.Header: the content-type turns the stream into a gRPC one, an   *)
(* encoding nobody knows is an error.                                      *)
Header(isGrpc, enc) ==
  /\ encoding = "none"
  /\ grpc' = isGrpc
  /\ encoding' = IF isGrpc THEN enc ELSE "identity"
  /\ failed' = (isGrpc /\ enc = "unknown")
  /\ UNCHANGED <<msgs, framed, peerEnd, emptyEnd, adapter, looping, out, rawOut, rawEnd>>

-----------------------------------------------------------------------------
(* emitter.Message writes a frame with a flag, the one of the adapter, a   *)
(* length and the contents of message msg, or of none (msg 0): each entry  *)
(* is a message to the one who reads it.                                   *)
Message(a, msg, end) ==
  [msg |-> msg, len |-> IF msg = 0 THEN 0 ELSE msgs[msg].len, flag |-> a.compressed, end |-> end]

(* The message whose prefix begins at byte p, if one does.                 *)
MessageAt(p) == CHOOSE i \in DOMAIN msgs : msgs[i].at = p

(* Mutant: a message of an ended frame ends the stream.                    *)
EndsHereAnyway(left) == peerEnd

(* Only the last message of the last frame ends the stream.                *)
EndsHere(left) == peerEnd /\ left = 0

(* adapter.Data: a stream that is not gRPC goes to the sink as it came; the *)
(* bytes of one that is are added to the buffer, and the loop begins.      *)
Data(n, end) ==
  /\ encoding # "none" /\ ~failed /\ ~peerEnd /\ ~looping
  /\ framed + n <= Whole /\ (end => framed + n = Whole)
  /\ framed' = framed + n /\ peerEnd' = end /\ emptyEnd' = (end /\ n = 0)
  /\ looping' = grpc
  /\ IF grpc THEN UNCHANGED <<rawOut, rawEnd>> ELSE rawOut' = rawOut + n /\ rawEnd' = end
  /\ UNCHANGED <<msgs, grpc, encoding, adapter, out, failed>>

(* A turn of the loop.  InBuffer are the bytes from adapter.taken on; the  *)
(* loop is left when they do not suffice, and at its end when there are    *)
(* none.                                                                   *)
InBuffer == framed - adapter.taken

ReadMetadata ==
  /\ looping /\ adapter.state = "metadata"
  /\ out' = IF peerEnd /\ InBuffer = 0 THEN Append(out, Message(adapter, 0, TRUE)) ELSE out
  /\ IF InBuffer < Prefix THEN looping' = FALSE /\ UNCHANGED adapter
     ELSE LET m == msgs[MessageAt(adapter.taken)]
          IN /\ adapter' = [state |-> "data", taken |-> adapter.taken + Prefix,
                            length |-> m.len, compressed |-> m.compressed]
             /\ looping' = (InBuffer # Prefix)
  /\ UNCHANGED <<msgs, grpc, encoding, framed, peerEnd, emptyEnd, rawOut, rawEnd, failed>>

ReadMessageData ==
  /\ looping /\ adapter.state = "data"
  /\ LET i == MessageAt(adapter.taken - Prefix)
         left == InBuffer - adapter.length
         unpacks == adapter.compressed /\ encoding # "identity"
     IN IF left < 0 \/ (unpacks /\ ~msgs[i].sound)
        THEN looping' = FALSE /\ failed' = (left >= 0) /\ UNCHANGED <<adapter, out>>
        ELSE /\ adapter' = [adapter EXCEPT !.state = "metadata", !.taken = @ + adapter.length]
             /\ out' = Append(out, Message(adapter, i, EndsHere(left)))
             /\ looping' = (left # 0)
             /\ UNCHANGED failed
  /\ UNCHANGED <<msgs, grpc, encoding, framed, peerEnd, emptyEnd, rawOut, rawEnd>>

GRPCNext ==
  \/ \E isGrpc \in BOOLEAN, enc \in {"identity", "gzip", "unknown"} : Header(isGrpc, enc)
  \/ \E n \in 0..Whole, end \in BOOLEAN : Data(n, end)
  \/ ReadMetadata \/ ReadMessageData

GRPCSpec == GRPCInit /\ [][GRPCNext]_grpcVars

-----------------------------------------------------------------------------
(* What the reader of the sink gets beyond the messages of the peer.       *)
Extra == IF emptyEnd THEN 1 ELSE 0

(* MessagesWhole (adapter.Data and emitter.Message,                        *)
(* internal/martian/h2/grpc/grpc.go:174 and :285): however the peer's      *)
(* frames cut its messages, they go out whole, in order, once, each with   *)
(* its own compression, and nothing follows the end.  When the peer has    *)
(* ended the stream without an error all of them are out and the end too,  *)
(* and nothing else is, except where the end came in a DATA frame with no  *)
(* bytes: emitter.Message then writes a prefix (grpc.go:314), and the      *)
(* other side reads one empty message that nobody has sent.                *)
MessagesWhole ==
  /\ \A i \in DOMAIN out :
       \/ /\ i <= Len(msgs) /\ out[i].msg = i
          /\ out[i].len = msgs[i].len /\ out[i].flag = msgs[i].compressed
       \/ i > Len(msgs) /\ out[i].len = 0 /\ out[i].end /\ emptyEnd
  /\ \A i \in DOMAIN out : out[i].end => peerEnd /\ i = Len(out)
  /\ peerEnd /\ ~looping /\ ~failed =>
       IF grpc THEN Len(out) = Len(msgs) + Extra /\ Len(out) > 0 /\ out[Len(out)].end
       ELSE rawOut = Whole /\ rawEnd

=============================================================================
