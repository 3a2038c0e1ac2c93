------------------------------ MODULE HTTPLog ------------------------------
(* httplog, middleware/logger.go and internal/martian/messageview: the log *)
(* of requests and answers, a modifier of the answer that runs before it   *)
(* is sent.  With --log-http body it reads the bodies of both messages and *)
(* puts a copy in their place.  What the log says is left out; what is     *)
(* read, what replaces it and what the client then gets is not.            *)
EXTENDS Naturals, Sequences

CONSTANTS
  LogEntries   \* exchanges: [method, status, req, res, n, fails]

(* req is the body of the request when the answer is modified: "none",     *)
(* "spent" (the transport has read and closed it), "stream" (the client's  *)
(* side of an HTTP/2 CONNECT), or, of a request that a modifier refused    *)
(* and that was not sent on, still with the client, who sends the rest     *)
(* ("sending") or waits for the answer first ("waits").  res "body" is the *)
(* answer's body of n chunks, which may then fail, "conn" the connection a *)
(* 101 came with, "tunnel" that of a CONNECT, which is no body.            *)
ASSUME HTTPLogAssumption ==
  \A e \in LogEntries :
    /\ e.n \in Nat /\ e.status \in Nat /\ e.fails \in BOOLEAN
    /\ e.req \in {"none", "spent", "stream", "sending", "waits"} /\ e.res \in {"body", "conn", "tunnel"}
    /\ e.res = "tunnel" => e.method = "CONNECT" /\ e.status \div 100 = 2

VARIABLES
  entry,    \* the exchange
  mode,     \* LogHTTPMode
  logPc,    \* "modify", "request", "response", "send", "held" or "over"
  taken,    \* chunks read off res.Body as it came
  snap,     \* the in-memory copy in its place, or NoSnap
  written,  \* chunks the client got
  ending    \* what it met then: "", "end" or "cut"

entryVars == <<entry, mode, logPc, taken, snap, written, ending>>

LogModes == {"none", "short-url", "url", "headers", "body", "errors"}
NoSnap == <<0>>
Chunks(e) == [i \in 1..e.n |-> i]

EntryInit ==
  /\ entry \in LogEntries /\ mode \in LogModes
  /\ logPc = "modify" /\ taken = <<>> /\ snap = NoSnap
  /\ written = <<>> /\ ending = ""

(* LogFunc: errors logs those of the server, the URL modes one line. *)
Dumps ==
  CASE mode = "errors" -> entry.status >= 500
    [] OTHER -> mode \in {"headers", "body"}

LogResponse ==
  /\ logPc = "modify"
  /\ logPc' = IF Dumps THEN "request" ELSE "send"
  /\ UNCHANGED <<entry, mode, taken, snap, written, ending>>

SkipBody == mode # "body" \/ (entry.method = "CONNECT" /\ entry.status \div 100 = 2)

(* A client that sends its body only after it has the answer, as a stream  *)
(* does.                                                                   *)
Waits == entry.req \in {"stream", "waits"}

(* SnapshotRequest, io.ReadAll of the request's body: one that was sent    *)
(* already is empty, or refuses to be read; the rest of one that was not   *)
(* is read from the client.  An error, also that of a read deadline, ends  *)
(* the dump.  A client that waits for its answer is waited for.            *)
SnapshotRequest ==
  /\ logPc = "request"
  /\ \/ (SkipBody \/ ~Waits) /\ logPc' = "response"
     \/ ~SkipBody /\ entry.req \in {"spent", "sending"} /\ logPc' = "send"
     \/ ~SkipBody /\ Waits /\ logPc' = "held"
  /\ UNCHANGED <<entry, mode, taken, snap, written, ending>>

(* SnapshotResponse, io.ReadAll: the next chunk. *)
ReadAll ==
  /\ logPc = "response" /\ ~SkipBody /\ entry.res # "tunnel"
  /\ Len(taken) < entry.n
  /\ taken' = Append(taken, Len(taken) + 1)
  /\ UNCHANGED <<entry, mode, logPc, snap, written, ending>>

(* Mutant: the copy is not put in the place of the body. *)
SnapshotResponseReads ==
  /\ logPc = "response"
  /\ SkipBody \/ entry.res = "tunnel" \/ Len(taken) = entry.n
  /\ logPc' = "send"
  /\ UNCHANGED <<entry, mode, taken, snap, written, ending>>

(* At the end of the body its copy replaces it; an error leaves it as it   *)
(* is, with what was read gone.                                            *)
SnapshotResponse ==
  /\ logPc = "response"
  /\ SkipBody \/ entry.res = "tunnel" \/ Len(taken) = entry.n
  /\ snap' = IF SkipBody \/ entry.fails THEN snap
             ELSE IF entry.res = "tunnel" THEN <<>> ELSE taken
  /\ logPc' = "send"
  /\ UNCHANGED <<entry, mode, taken, written, ending>>

-----------------------------------------------------------------------------
(* handleUpgradeResponse: a 101 whose body is no longer a connection. *)
UpgradeRefused ==
  /\ logPc = "send" /\ entry.res = "conn" /\ snap # NoSnap
  /\ logPc' = "over" /\ ending' = "cut"
  /\ UNCHANGED <<entry, mode, taken, snap, written>>

(* writeResponse and tunnel: what is left of the body, or the connection.  *)
Left ==
  IF snap # NoSnap /\ entry.res = "body" THEN snap
  ELSE SubSeq(Chunks(entry), Len(taken) + 1, entry.n)

WriteChunk ==
  /\ logPc = "send" /\ (entry.res = "conn" => snap = NoSnap)
  /\ Len(written) < Len(Left)
  /\ written' = Append(written, Left[Len(written) + 1])
  /\ UNCHANGED <<entry, mode, logPc, taken, snap, ending>>

WriteEnds ==
  /\ logPc = "send" /\ (entry.res = "conn" => snap = NoSnap)
  /\ Len(written) = Len(Left)
  /\ logPc' = "over" /\ ending' = IF entry.fails THEN "cut" ELSE "end"
  /\ UNCHANGED <<entry, mode, taken, snap, written>>

(* The client gives up, or the deadline of a ReadTimeout ends the wait for *)
(* its body: that is an error again.                                       *)
ClientGivesUp ==
  /\ logPc = "held"
  /\ logPc' = "over" /\ ending' = "cut"
  /\ UNCHANGED <<entry, mode, taken, snap, written>>

WaitEnds ==
  /\ logPc = "held" /\ entry.req = "waits"
  /\ logPc' = "send"
  /\ UNCHANGED <<entry, mode, taken, snap, written, ending>>

EntryOver == logPc = "over" /\ UNCHANGED entryVars

EntryNext ==
  \/ LogResponse \/ SnapshotRequest \/ ReadAll \/ SnapshotResponse
  \/ UpgradeRefused \/ WriteChunk \/ WriteEnds
  \/ ClientGivesUp \/ WaitEnds \/ EntryOver

EntrySpec == EntryInit /\ [][EntryNext]_entryVars

-----------------------------------------------------------------------------
(* SnapshotNoOp: "This method is semantically a no-op" (SnapshotRequest    *)
(* and SnapshotResponse, internal/martian/messageview/messageview.go:75    *)
(* and :144): whatever is logged, the client gets what it would have got.  *)
SnapshotNoOp ==
  logPc = "over" =>
    written = Chunks(entry) /\ ending = IF entry.fails THEN "cut" ELSE "end"

(* The log reads a body that does not end, that its client sends after the *)
(* answer, or that was a connection.                                       *)
ReadsInVain ==
  mode = "body" /\ (entry.fails \/ entry.res = "conn" \/ (Waits /\ entry.res = "body"))

(* LogTransparent (Logger.ModifyResponse, httplog's dump): SnapshotNoOp in *)
(* every mode that does not read bodies, and in the one that does for      *)
(* whatever body ends: an answer with a sound body, a tunnel, the answer   *)
(* to a request that was refused with its body unread.  The exceptions are *)
(* those of ReadsInVain: with bodies logged, a refused client that waits   *)
(* for its 403 or 407 before it sends the body (proxy_conn.go:337,         *)
(* messageview.go:113) does not get it before it gives up or a deadline    *)
(* passes.                                                                 *)
LogTransparent == ReadsInVain \/ SnapshotNoOp

=============================================================================
