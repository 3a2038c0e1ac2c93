----------------------------- MODULE MCPipeline -----------------------------
(* Configurations and requests that make every modifier act.               *)
EXTENDS Pipeline, TLC

Matcher(in, out) ==
  NewRegexpMatcher({[hosts |-> in, exclude |-> FALSE], [hosts |-> out, exclude |-> TRUE]}).hosts

MCPipeConfigs ==
  {[basicAuth |-> a, localhost |-> l, denied |-> d, direct |-> Matcher({"direct"}, {}),
    rules |-> r, connectRules |-> <<>>, responseRules |-> r,
    creds |-> <<[host |-> "*", port |-> "443", user |-> "ofPort"],
                [host |-> "site", port |-> "0", user |-> "ofHost"]>>,
    upstream |-> u[1], pac |-> u[2], tag |-> "own"] :
     a \in BOOLEAN, l \in {"deny", "allow", "direct"}, d \in {{}, Matcher({"denied", "site"}, {"site"})},
     r \in {<<>>, <<[action |-> "Remove", name |-> "X-Custom"],
                    [action |-> "Add", name |-> "Te", value |-> "v"]>>,
             <<[action |-> "RemoveByPrefix", names |-> {"Via", "Connection"}]>>},
     u \in {<<"none", <<>>>>, <<"url", <<>>>>, <<"pac", <<>>>>,
            <<"pac", <<[mode |-> "SOCKS5", hostport |-> FALSE]>>>>}}

MCHeaders ==
  {"X-Custom" :> <<"v">> @@ "Keep-Alive" :> <<"v">> @@ auth @@ conn @@ len :
     auth \in {<<>>, "Proxy-Authorization" :> <<"good">>, "Proxy-Authorization" :> <<"bad">>},
     conn \in {<<>>, "Connection" :> <<{"X-Custom", "X-Forwarded-Host", "Via"}>>,
               "Connection" :> <<{"X-Custom"}, {"Upgrade"}>> @@ "Upgrade" :> <<"websocket">>},
     len \in {<<>>, "Content-Length" :> <<{1}, {2}>>, "Via" :> <<<<"client">>, <<"x">>>>}}

MCPipeRequests ==
  {[method |-> m, url |-> [scheme |-> "https", host |-> h, port |-> "443"],
    remote |-> "peer", hdr |-> hdr, close |-> FALSE] :
     m \in {"GET", "CONNECT"}, h \in {"localhost", "denied", "direct", "site"},
     hdr \in MCHeaders}

MCFailures == {{"net"}, {"net_timeout", "loop"}, {"tls_alert"}, {"connect"},
               {"status_text"}, {"other"}}
=============================================================================
