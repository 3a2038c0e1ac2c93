----------------------------- MODULE MCRunGroup -----------------------------
(* The process of command/run: one proxy, an API server and the API on a   *)
(* Unix socket.                                                            *)
EXTENDS RunGroup

MCProxies == {"proxy"}
MCServers == {"api"}
MCUnixSockets == {"unix"}
MCNone == {}
=============================================================================
