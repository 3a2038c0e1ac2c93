----------------------------- MODULE Modifiers -----------------------------
(***************************************************************************)
(* Request and response modifiers and the groups they run in:              *)
(* internal/martian/fifo, internal/martian/httpspec, internal/martian/     *)
(* header, header/header.go and the http.Header calls they use.            *)
(*                                                                         *)
(* A header is a function from the names present to their lines.  A line   *)
(* is a value that matters to the code: for Connection the set of names    *)
(* it lists, for Via the tags it lists, for Content-Length its numbers.    *)
(* A message is a record with a field hdr; what a modifier returns is a    *)
(* message and an error.                                                   *)
(***************************************************************************)
EXTENDS Integers, Sequences, FiniteSets

(* http.Header: Get is the first line of a header.                         *)
Del(h, k) == [n \in DOMAIN h \ {k} |-> h[n]]
With(h, k, lines) == [n \in DOMAIN h \cup {k} |-> IF n = k THEN lines ELSE h[n]]
Set(h, k, v) == With(h, k, <<v>>)
Add(h, k, v) == With(h, k, IF k \in DOMAIN h THEN Append(h[k], v) ELSE <<v>>)
Get(h, k, missing) == IF k \in DOMAIN h THEN h[k][1] ELSE missing
NoHeaders == [n \in {} |-> <<>>]

NoErr == "nil"
Ok(m) == [msg |-> m, err |-> NoErr]
Failed(m, e) == [msg |-> m, err |-> e]
WithHdr(m, h) == Ok([m EXCEPT !.hdr = h])

-----------------------------------------------------------------------------
(* hopbyhop_modifier.go                                                    *)
HopByHopHeaders ==
  {"Connection", "Keep-Alive", "Proxy-Authenticate", "Proxy-Authorization",
   "Proxy-Connection", "Te", "Trailer", "Transfer-Encoding", "Upgrade"}

Lines(h, k) == IF k \in DOMAIN h THEN h[k] ELSE <<>>
Elements(lines) == UNION {lines[i] : i \in DOMAIN lines}

(* Mutant: only the fixed list.                                            *)
RemoveHopByHopFixed(h) == [n \in DOMAIN h \ HopByHopHeaders |-> h[n]]

(* The names listed by every line of Connection, then the fixed list.      *)
RemoveHopByHop(h) ==
  [n \in DOMAIN h \ (Elements(Lines(h, "Connection")) \cup HopByHopHeaders) |-> h[n]]

HopByHop(m) == WithHdr(m, RemoveHopByHop(m.hdr))

(* forwarded_modifier.go: the address of the client is appended to the     *)
(* first X-Forwarded-For line, the others are kept if present.             *)
Forwarded(m) ==
  LET default(h, k) == IF Get(h, k, "") = "" THEN Set(h, k, "own") ELSE h
      h3 == default(default(default(m.hdr, "X-Forwarded-Proto"), "X-Forwarded-Host"),
                    "X-Forwarded-Url")
      xff == Get(h3, "X-Forwarded-For", <<>>) \o <<m.remote>>
  IN IF m.method = "CONNECT" THEN Ok(m) ELSE WithHdr(m, Set(h3, "X-Forwarded-For", xff))

(* framing_modifier.go                                                     *)
BadFraming(m) ==
  LET h == m.hdr
      lengths == Elements(Lines(h, "Content-Length"))
      te == Lines(h, "Transfer-Encoding")
      h1 == IF lengths = {} THEN h ELSE Set(h, "Content-Length", lengths)
  IN IF Cardinality(lengths) > 1 THEN Failed(m, "framing")
     ELSE IF te = <<>> THEN WithHdr(m, h1)
     ELSE IF te[Len(te)] # "chunked" THEN Failed([m EXCEPT !.hdr = h1], "framing")
     ELSE WithHdr(m, Del(h1, "Content-Length"))

(* Mutant: the tag is looked for at the end of the line only.              *)
ViaLast(m, tag) ==
  LET via == Get(m.hdr, "Via", <<>>) IN
  IF via # <<>> /\ via[Len(via)] = tag THEN Failed([m EXCEPT !.close = TRUE], "loop")
  ELSE WithHdr(m, Set(m.hdr, "Via", Append(via, tag)))

(* via_modifier.go: loop detection, then the own tag.  Both look at the    *)
(* first Via line, which replaces all of them.                             *)
Via(m, tag) ==
  LET via == Get(m.hdr, "Via", <<>>) IN
  IF \E i \in DOMAIN via : via[i] = tag
  THEN Failed([m EXCEPT !.close = TRUE], "loop")
  ELSE WithHdr(m, Set(m.hdr, "Via", Append(via, tag)))

-----------------------------------------------------------------------------
(* header/header.go: a rule of --header, --connect-header and              *)
(* --response-header; prefixes are given as the names they match.          *)
ApplyRule(h, rule) ==
  CASE rule.action = "Remove" -> Del(h, rule.name)
    [] rule.action = "RemoveByPrefix" -> [n \in DOMAIN h \ rule.names |-> h[n]]
    [] rule.action = "Empty" -> Set(h, rule.name, "")
    [] rule.action = "Add" -> Add(h, rule.name, rule.value)

ApplyRules(h, rules) ==
  LET after[i \in 0..Len(rules)] ==
        IF i = 0 THEN h ELSE ApplyRule(after[i - 1], rules[i])
  IN after[Len(rules)]

-----------------------------------------------------------------------------
(* fifo: a group is the sequence of its modifiers, here their names; a     *)
(* modifier that is a group itself stands in it with its own modifiers, as *)
(* Group.ToImmutable inlines a group with the same error mode, and no      *)
(* group of this program aggregates errors.                                *)
ToImmutable(before, group, after) == before \o group \o after

(* httpspec.NewStack: the request side runs the checks of the protocol     *)
(* before the inner group, the response side the other way round.          *)
RequestStack(inner) == ToImmutable(<<"hopByHop", "forwarded", "framing", "via">>, inner, <<>>)
ResponseStack(inner) == ToImmutable(<<>>, inner, <<"hopByHop">>)
=============================================================================
