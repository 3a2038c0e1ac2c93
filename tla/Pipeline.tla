------------------------------ MODULE Pipeline ------------------------------
(***************************************************************************)
(* What HTTPProxy makes of a request before it is sent (http_proxy.go,     *)
(* http_proxy_errors.go, middleware/basic_auth.go, credentials.go,         *)
(* ruleset/regexp.go, pac/proxy.go, command/run/run.go): authentication    *)
(* and denial, the modifiers, the upstream proxy and its credentials, and  *)
(* the response for an error.                                              *)
(*                                                                         *)
(* A configuration is a record; hosts are the set of what the rules tell   *)
(* apart; a matcher is the set of hosts that match it.                     *)
(***************************************************************************)
EXTENDS Modifiers

CONSTANTS PipeConfigs,   \* configurations of the proxy
          PipeRequests,  \* requests clients send
          Failures,      \* what a round trip may fail with: sets of error types
          ViaTags        \* what proxies call themselves in Via

VARIABLES cfg,        \* the configuration
          first,      \* the request as the client sent it
          msg,        \* the request as it is now
          where,      \* "received", "forwarded" or "answered"
          via,        \* the upstream proxy it was forwarded to
          forwards,   \* how often this proxy has forwarded it
          answer      \* the response

(* A request has the fields the modifiers look at; a Via line is a list of *)
(* tags; the rules are lists of the four kinds there are.                  *)
IsRequest(m) == {"method", "url", "remote", "hdr", "close"} \subseteq DOMAIN m

ViaLines == Seq(Seq(ViaTags)) \ {<<>>}

IsRules(rules) ==
  /\ Len(rules) \in Nat /\ DOMAIN rules = 1 .. Len(rules)
  /\ \A i \in DOMAIN rules :
       /\ rules[i].action \in {"Remove", "RemoveByPrefix", "Empty", "Add"}
       /\ rules[i].action = "Add" /\ rules[i].name = "Via" => rules[i].value \in Seq(ViaTags)

ASSUME PipeAssumption ==
  /\ \A m \in PipeRequests :
       IsRequest(m) /\ ("Via" \in DOMAIN m.hdr => m.hdr["Via"] \in ViaLines)
  /\ \A c \in PipeConfigs :
       /\ c.tag \in ViaTags
       /\ IsRules(c.rules) /\ IsRules(c.connectRules) /\ IsRules(c.responseRules)
  /\ "other" \in ViaTags

pipeVars == <<cfg, first, msg, where, via, forwards, answer>>

(* ruleset: a list of items, each a set of hosts, some excluding; without  *)
(* an including item there is no matcher.                                  *)
NewRegexpMatcher(items) ==
  LET of(exclude) == UNION {i.hosts : i \in {j \in items : j.exclude = exclude}}
  IN IF \A i \in items : i.exclude THEN [err |-> TRUE, hosts |-> {}]
     ELSE [err |-> FALSE, hosts |-> of(FALSE) \ of(TRUE)]

(* NewCredentialsMatcher: a table per kind of entry; "*" and "0" are the   *)
(* wildcards; a second entry for the same key is an error.                 *)
CredentialKind(c) ==
  CASE c.host = "*" /\ c.port = "0" -> "global"
    [] c.host = "*" /\ c.port # "0" -> "port"
    [] c.host # "*" /\ c.port = "0" -> "host"
    [] OTHER -> "hostport"

CredentialsValid(cs) ==
  \A i, j \in DOMAIN cs :
    (cs[i].host = cs[j].host /\ cs[i].port = cs[j].port) => i = j

Entries(cs, kind, host, port) ==
  {cs[i].user : i \in {j \in DOMAIN cs :
     /\ CredentialKind(cs[j]) = kind
     /\ kind \in {"hostport", "host"} => cs[j].host = host
     /\ kind \in {"hostport", "port"} => cs[j].port = port}}

(* Match: the exact entry, then the port's, the host's and the global one. *)
MatchOrder == <<"hostport", "port", "host", "global">>

Match(cs, host, port) ==
  LET hits == {k \in DOMAIN MatchOrder : Entries(cs, MatchOrder[k], host, port) # {}}
  IN IF hits = {} THEN "none"
     ELSE CHOOSE u \in Entries(cs, MatchOrder[CHOOSE k \in hits : \A l \in hits : k <= l],
                               host, port) : TRUE

(* MatchURL: the port of the scheme when the URL has none.                 *)
MatchURL(cs, url) ==
  LET port == IF url.port # "" THEN url.port
              ELSE CASE url.scheme = "http" -> "80"
                     [] url.scheme = "https" -> "443"
                     [] OTHER -> ""
  IN IF port = "" THEN "none" ELSE Match(cs, url.host, port)

-----------------------------------------------------------------------------
(* middleware/basic_auth.go: Authorization-like values are abstracted to   *)
(* "good" and "bad", where bad is another user, another password, another  *)
(* scheme, or text that does not decode.                                   *)
AuthenticatedRequest(m) == Get(m.hdr, "Proxy-Authorization", "") = "good"

IsLocalhost(host) == host = "localhost"

(* The checks, if configured.                                              *)
Checks(c) ==
  (IF c.basicAuth THEN <<"basicAuth">> ELSE <<>>)
    \o (IF c.localhost = "deny" THEN <<"denyLocalhost">> ELSE <<>>)
    \o (IF c.denied # {} THEN <<"denyDomains">> ELSE <<>>)

Stack == RequestStack(<<"rules", "setBasicAuth", "setEmptyUserAgent">>)

(* Mutant: the checks after the stack.                                     *)
MiddlewareStackFirst(c) == ToImmutable(<<>>, Stack, Checks(c))

(* middlewareStack, request side.                                          *)
MiddlewareStack(c) == ToImmutable(Checks(c), Stack, <<>>)

(* configureHeadersModifiers: CONNECT has rules of its own.                *)
Rules(c, m) == IF m.method = "CONNECT" THEN c.connectRules ELSE c.rules

SetBasicAuth(c, m) ==
  LET user == MatchURL(c.creds, m.url) IN
  IF Get(m.hdr, "Authorization", "") = "" /\ user # "none"
  THEN Set(m.hdr, "Authorization", user) ELSE m.hdr

SetEmptyUserAgent(h) == IF "User-Agent" \in DOMAIN h THEN h ELSE Set(h, "User-Agent", "")

(* One modifier on a message.                                              *)
ModifyOne(c, mod, m) ==
  CASE mod = "basicAuth" ->
         IF AuthenticatedRequest(m) THEN Ok(m) ELSE Failed(m, "auth")
    [] mod = "denyLocalhost" ->
         IF IsLocalhost(m.url.host) THEN Failed(m, "deny") ELSE Ok(m)
    [] mod = "denyDomains" ->
         IF m.url.host \in c.denied THEN Failed(m, "deny") ELSE Ok(m)
    [] mod = "hopByHop" -> HopByHop(m)
    [] mod = "forwarded" -> Forwarded(m)
    [] mod = "framing" -> BadFraming(m)
    [] mod = "via" -> Via(m, c.tag)
    [] mod = "rules" -> WithHdr(m, ApplyRules(m.hdr, Rules(c, m)))
    [] mod = "setBasicAuth" -> WithHdr(m, SetBasicAuth(c, m))
    [] mod = "setEmptyUserAgent" -> WithHdr(m, SetEmptyUserAgent(m.hdr))
    [] mod = "responseRules" -> WithHdr(m, ApplyRules(m.hdr, c.responseRules))
    [] mod = "none" -> Ok(m)

(* fifo: group.ModifyRequest and ModifyResponse.  A modifier runs if those *)
(* before it made no error.                                                *)
ModifyNext(c, mod, r) == IF r.err # NoErr THEN r ELSE ModifyOne(c, mod, r.msg)

Modify(c, mods, m) ==
  LET after[i \in 0 .. Len(mods)] ==
        IF i = 0 THEN Ok(m) ELSE ModifyNext(c, mods[i], after[i - 1])
  IN after[Len(mods)]

-----------------------------------------------------------------------------
(* pac: First of the answer's list; an empty answer and an unknown mode    *)
(* are DIRECT.                                                             *)
Direct == "direct"
Modes == {"PROXY", "HTTP", "HTTPS", "SOCKS", "SOCKS4", "SOCKS5"}

PacFirst(list) ==
  IF list = <<>> THEN [err |-> FALSE, url |-> Direct]
  ELSE LET p == list[1] IN
       CASE p.mode \in {"", "DIRECT"} -> [err |-> FALSE, url |-> Direct]
         [] p.mode \notin {"", "DIRECT"} /\ ~p.hostport -> [err |-> TRUE, url |-> Direct]
         [] OTHER -> [err |-> FALSE,
                      url |-> IF p.mode \in Modes THEN p.mode ELSE Direct]

(* The proxy function that configureProxy chooses.                         *)
ProxyFunc(c, m) ==
  CASE c.upstream = "func" -> [err |-> FALSE, url |-> "func"]
    [] c.upstream = "url" -> [err |-> FALSE, url |-> "url"]
    [] c.upstream = "pac" -> PacFirst(c.pac)
    [] c.upstream = "none" -> [err |-> FALSE, url |-> Direct]

(* directDomains and directLocalhost around it.                            *)
ProxyURL(c, m) ==
  IF \/ c.localhost = "direct" /\ IsLocalhost(m.url.host)
     \/ m.url.host \in c.direct
  THEN [err |-> FALSE, url |-> Direct]
  ELSE ProxyFunc(c, m)

-----------------------------------------------------------------------------
(* errorResponse: the first handler that knows a type the error wraps.     *)
Handlers ==
  <<[type |-> "net_timeout", code |-> 504], [type |-> "net", code |-> 502],
    [type |-> "tls_record_header", code |-> 502], [type |-> "tls_certificate", code |-> 502],
    [type |-> "tls_ech", code |-> 502], [type |-> "tls_alert", code |-> 502],
    [type |-> "loop", code |-> 400], [type |-> "auth", code |-> 407],
    [type |-> "deny", code |-> 403], [type |-> "status_text", code |-> 503]>>

Handles(h, m, types) ==
  h.type \in types /\ (h.type = "status_text" => m.url.scheme = "https")

ErrorResponse(m, types) ==
  LET at == {i \in DOMAIN Handlers : Handles(Handlers[i], m, types)}
      code == IF at = {} THEN 500
              ELSE Handlers[CHOOSE i \in at : \A j \in at : i <= j].code
      hdr == IF code = 407 THEN Set(NoHeaders, "Proxy-Authenticate", "Basic") ELSE NoHeaders
  IN [code |-> code, hdr |-> Set(hdr, "X-Forwarder-Error", "text")]

(* middlewareStack, response side; CONNECT responses have no rules.  The   *)
(* method is that of the response's own request.                           *)
ModifyResponse(c, method, r) ==
  LET inner == <<IF method = "CONNECT" THEN "none" ELSE "responseRules">>
  IN Modify(c, ResponseStack(inner), r).msg

Answer(method, r) ==
  /\ where' = "answered"
  /\ answer' = ModifyResponse(cfg, method, r)

(* writeErrorResponse: the answer of an upstream proxy to a CONNECT, the   *)
(* client's or the transport's own, is passed on; other errors become a    *)
(* response; both are modified.                                            *)
AnswerError(types) ==
  IF "connect" \in types
  THEN Answer("CONNECT", [code |-> 502, hdr |-> Set(NoHeaders, "Proxy-Authenticate", "up")])
  ELSE Answer(msg'.method, ErrorResponse(msg', types))

PipeInit ==
  /\ cfg \in {c \in PipeConfigs : CredentialsValid(c.creds)}
  /\ first \in PipeRequests
  /\ msg = first
  /\ where = "received" /\ via = Direct /\ forwards = 0
  /\ answer = [code |-> 0, hdr |-> NoHeaders]

UpgradeType(h) ==
  IF "Upgrade" \in Elements(Lines(h, "Connection")) THEN Get(h, "Upgrade", "") ELSE ""

(* handle looks for an upgrade only after it has let CONNECT go its way.   *)
ReqUpType(m) == IF m.method = "CONNECT" THEN "" ELSE UpgradeType(m.hdr)

(* handle: modifyRequest, an error is answered; the headers of an upgrade  *)
(* are put back; the request is sent to the proxy ProxyURL names.          *)
HandleRequest ==
  /\ where = "received"
  /\ LET r == Modify(cfg, MiddlewareStack(cfg), msg)
         up == ReqUpType(msg)
         hdr == IF up = "" THEN r.msg.hdr
                ELSE Set(Set(r.msg.hdr, "Connection", {"Upgrade"}), "Upgrade", up)
         to == ProxyURL(cfg, r.msg)
     IN IF r.err # NoErr
        THEN /\ msg' = r.msg
             /\ AnswerError({r.err})
             /\ UNCHANGED <<via, forwards>>
        ELSE /\ msg' = [r.msg EXCEPT !.hdr = hdr]
             /\ IF to.err THEN AnswerError({"pac"}) /\ UNCHANGED <<via, forwards>>
                ELSE /\ where' = "forwarded"
                     /\ via' = to.url /\ forwards' = forwards + 1
                     /\ UNCHANGED answer
  /\ UNCHANGED <<cfg, first>>

(* The round trip fails, or the origin answers.                            *)
RoundTripFails(types) ==
  /\ where = "forwarded"
  /\ UNCHANGED <<cfg, first, msg, via, forwards>>
  /\ AnswerError(types)

PipeRoundTrip ==
  /\ where = "forwarded"
  /\ UNCHANGED <<cfg, first, msg, via, forwards>>
  /\ Answer(msg.method,
            [code |-> 200,
             hdr |-> Set(Set(NoHeaders, "Connection", {"X-Hop"}), "X-Hop", "v")])

(* Some proxy on the way sends the request back here: it has added itself  *)
(* to Via, at the end of the line or with a line of its own, and the       *)
(* client's side authenticates for it.                                     *)
ComesBack ==
  /\ where = "forwarded" /\ forwards < 2
  /\ \E line \in BOOLEAN :
       LET own == Lines(msg.hdr, "Via")
           lines == IF own = <<>> THEN <<<<"other">>>>
                    ELSE IF line THEN Append(own, <<"other">>)
                    ELSE <<Append(own[1], "other")>>
       IN msg' = [msg EXCEPT !.hdr = Set(With(@, "Via", lines), "Proxy-Authorization", "good")]
  /\ where' = "received"
  /\ UNCHANGED <<cfg, first, via, forwards, answer>>

PipeOver == where = "answered" /\ UNCHANGED pipeVars

PipeNext ==
  \/ HandleRequest \/ PipeRoundTrip \/ ComesBack \/ PipeOver
  \/ \E types \in Failures : RoundTripFails(types)

PipeSpec == PipeInit /\ [][PipeNext]_pipeVars

-----------------------------------------------------------------------------
Permitted(c, m) ==
  /\ c.basicAuth => AuthenticatedRequest(m)
  /\ c.localhost = "deny" => ~IsLocalhost(m.url.host)
  /\ m.url.host \notin c.denied

(* A request that is not authenticated or goes to a denied host is never   *)
(* forwarded, is answered as such whatever else is wrong with it, and no   *)
(* modifier has touched it (middlewareStack puts the checks before the     *)
(* httpspec stack).                                                        *)
GuardsFirst ==
  /\ where = "forwarded" => Permitted(cfg, first)
  /\ where = "answered" /\ ~Permitted(cfg, first) =>
       /\ answer.code = IF cfg.basicAuth /\ ~AuthenticatedRequest(first) THEN 407 ELSE 403
       /\ msg = first

AddedBy(c, m) ==
  {r.name : r \in {Rules(c, m)[i] : i \in {j \in DOMAIN Rules(c, m) :
                     Rules(c, m)[j].action \in {"Empty", "Add"}}}}
    \cup {"Via", "X-Forwarded-For", "X-Forwarded-Proto", "X-Forwarded-Host",
          "X-Forwarded-Url", "Authorization", "User-Agent"}
    \cup (IF ReqUpType(m) = "" THEN {} ELSE {"Connection", "Upgrade"})

Takes(rule, name) ==
  \/ rule.action \in {"Remove", "Empty"} /\ rule.name = name
  \/ rule.action = "RemoveByPrefix" /\ name \in rule.names

(* What the client said is for this hop only, Proxy-Authorization first of *)
(* all, is not sent on; nor does a hop-by-hop header of a response reach   *)
(* the client (the hop-by-hop modifier between the two modifier groups).   *)
(* A rule for responses runs before that modifier: one that takes away     *)
(* Connection hides what it lists.                                         *)
HopHeadersStay ==
  /\ where = "forwarded" =>
       \A n \in DOMAIN msg.hdr :
         n \in HopByHopHeaders \cup Elements(Lines(first.hdr, "Connection")) =>
           n \in AddedBy(cfg, first)
  /\ where = "answered" =>
       /\ DOMAIN answer.hdr \cap HopByHopHeaders = {}
       /\ \/ answer.code # 200 \/ "X-Hop" \notin DOMAIN answer.hdr
          \/ /\ first.method # "CONNECT"
             /\ \E i \in DOMAIN cfg.responseRules : Takes(cfg.responseRules[i], "Connection")

(* The rules for requests leave Via to the modifier: none takes it away,   *)
(* or sets Connection, in which Via could be listed.                       *)
KeepsVia(rules) ==
  \A i \in DOMAIN rules :
    /\ ~Takes(rules[i], "Via")
    /\ rules[i].action \in {"Empty", "Add"} => rules[i].name # "Connection"

(* A request that comes back to this proxy is refused: it is forwarded     *)
(* once (ViaModifier.ModifyRequest, whatever others add to Via), unless    *)
(* the rules have removed the tag that would tell.                         *)
LoopRefused == forwards > 1 => ~KeepsVia(Rules(cfg, first))

=============================================================================
