----------------------------- MODULE MCCommand -----------------------------
(* The process with everything on, with as little as it can have, and as   *)
(* command/run.Metrics starts it, without running it.                      *)
EXTENDS Command

MCProxies == {"proxy"}
MCServers == {"api"}
MCUnixSockets == {"unix"}

Flags == {"logFile", "dns", "pac", "keyLog", "mitm", "https", "api", "container", "dryRun"}
With(set) == [f \in Flags |-> f \in set]

MCCommands == {With(Flags \ {"dryRun"}), With({}), With({"api", "dryRun", "logFile"})}
=============================================================================
