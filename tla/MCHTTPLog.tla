----------------------------- MODULE MCHTTPLog -----------------------------
(* Answers of up to two chunks, refusals of requests whose body is unread, *)
(* refused and opened tunnels, upgrades.                                   *)
EXTENDS HTTPLog

Entry(m, s, q, r, n, f) ==
  [method |-> m, status |-> s, req |-> q, res |-> r, n |-> n, fails |-> f]

(* The exchanges of plain connections: answers and upgrades. *)
MCPlainLogEntries ==
  {Entry("GET", s, q, "body", n, f) :
     s \in {200, 502}, q \in {"none", "spent"}, n \in 0..2, f \in BOOLEAN}
  \cup {Entry("GET", 101, "none", "conn", n, FALSE) : n \in 0..2}

MCLogEntries ==
  MCPlainLogEntries
  \cup {Entry("GET", 407, q, "body", n, FALSE) : q \in {"sending", "waits"}, n \in 0..2}
  \cup {Entry("CONNECT", 200, q, "tunnel", 2, f) : q \in {"none", "stream"}, f \in BOOLEAN}
  \cup {Entry("CONNECT", 502, q, "body", n, FALSE) : q \in {"none", "stream", "waits"}, n \in 0..1}
=============================================================================
