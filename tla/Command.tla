------------------------------ MODULE Command ------------------------------
(***************************************************************************)
(* "forwarder run" from its flags to its end (command/run/run.go): runE    *)
(* builds the transport, the proxy and the API server one after the other  *)
(* and returns early when a part cannot be built; then it runs the group   *)
(* of module RunGroup; its deferred calls come last.                       *)
(*                                                                         *)
(* A step of the construction is a record: err, it may return an error;    *)
(* metrics, what it registers, and must, that a name registered twice      *)
(* panics instead of returning an error; opens, the listeners and files it *)
(* opens; defers, what is closed from here on when runE returns.           *)
(***************************************************************************)
EXTENDS RunGroup, Sequences

CONSTANT Commands   \* the configurations, records of flags

VARIABLES cmd,        \* the configuration
          stage,      \* "starting", "running", "returning", "returned", "killed" or "panicked"
          at,         \* the step of the construction that is next
          metrics,    \* what is registered with promReg, and the API's mux
          open,       \* listeners and files that are open
          deferred    \* what the deferred calls of runE will close

commandVars == <<cmd, stage, at, metrics, open, deferred>>
processVars == <<commandVars, groupVars>>

Step == [err |-> FALSE, metrics |-> {}, must |-> TRUE, opens |-> {}, defers |-> {}]
MayFail == [Step EXCEPT !.err = TRUE]
Registers(names) == [Step EXCEPT !.metrics = names]
TryRegisters(names) == [Registers(names) EXCEPT !.must = FALSE]
When(flag, steps) == IF flag THEN steps ELSE <<>>

-----------------------------------------------------------------------------
(* TLSClientConfig.ConfigureTLSConfig: the CAs, and the key log file.      *)
ConfigureTLSConfig(c, file) ==
  <<MayFail>> \o When(c.keyLog, <<[MayFail EXCEPT !.opens = {file}]>>)

(* NewHTTPTransport, with the metrics of its Dialer on a registry.         *)
NewHTTPTransport(c, file, names) == ConfigureTLSConfig(c, file) \o <<Registers(names)>>

DialerMetrics ==
  {"dialer_retries_total", "dialer_errors_total", "dialer_cx_total", "dialer_cx_active"}

(* Mutant: the transport for the PAC file has the metrics of the other.    *)
PACRegistered(c) ==
  NewHTTPTransport(c, "pacKeyLog", DialerMetrics) \o <<MayFail, MayFail, MayFail>>

(* ReadURLString with a transport whose registry is discarded,             *)
(* NewProxyResolverPool, and a call of the script.                         *)
PAC(c) == NewHTTPTransport(c, "pacKeyLog", {}) \o <<MayFail, MayFail, MayFail>>

(* registerErrorsMetric, the logger, the flags, the DNS servers, PAC,      *)
(* credentials and the domain lists.                                       *)
Prepare(c) ==
  <<[Step EXCEPT !.defers = {"log"}]>>
    \o <<TryRegisters({"errors_total"}), MayFail>>
    \o When(c.dns, <<MayFail>>)
    \o When(c.pac, PAC(c))
    \o <<MayFail, MayFail>>

(* newMartianMITMConfig: load or make the CA, parse it, the cache.         *)
MITM == <<MayFail, Registers({"mitm_cache"})>>

(* HTTPProxy.listen with its one Listener, whose metrics come after the    *)
(* socket.                                                                 *)
Listen ==
  <<[MayFail EXCEPT !.opens = {"proxy"}],
    Registers({"listener_errors_total", "listener_cx_total", "listener_cx_active"})>>

RequestMetrics ==
  {"http_requests_in_flight", "http_requests_total", "http_request_duration_seconds"}

(* NewHTTPProxy: newHTTPProxy with Validate, its metrics, configureProxy   *)
(* with MITM and the middleware; configureHTTPS; the localhost aliases;    *)
(* listen.  Then p.Close is deferred.                                      *)
NewHTTPProxy(c) ==
  <<MayFail, Registers({"proxy_errors_total"})>>
    \o When(c.mitm, MITM) \o <<Registers(RequestMetrics)>>
    \o When(c.https, <<MayFail>>) \o <<MayFail>>
    \o (Listen \o <<[Step EXCEPT !.defers = {"proxy"}]>>)

(* The metrics of the process, and the endpoints of NewAPIHandler.         *)
Endpoints(c) ==
  {"/metrics", "/healthz", "/readyz", "/debug/pprof/", "/version", "/configz"}
    \cup (IF c.pac THEN {"/pac"} ELSE {}) \cup (IF c.mitm THEN {"/cacert"} ELSE {})

ProcessMetrics(c) ==
  <<TryRegisters({"gomemlimit", "gomaxprocs", "process", "go", "version"}),
    Registers(Endpoints(c))>>

(* NewHTTPServer: Validate and the certificate, the middleware with a      *)
(* registry of its own, listen.  Then a.Close is deferred.                 *)
NewHTTPServer ==
  <<MayFail, [MayFail EXCEPT !.opens = {"api"}], [Step EXCEPT !.defers = {"api"}]>>

(* runE                                                                    *)
Steps(c) ==
  Prepare(c) \o NewHTTPTransport(c, "keyLog", DialerMetrics) \o NewHTTPProxy(c)
    \o ProcessMetrics(c) \o When(c.api, NewHTTPServer)

-----------------------------------------------------------------------------
CommandInit ==
  /\ GroupInit
  /\ cmd \in Commands
  /\ stage = "starting" /\ at = 1
  /\ metrics = {} /\ open = (IF cmd.logFile THEN {"log"} ELSE {}) /\ deferred = {}

Now == Steps(cmd)[at]
Starting == stage = "starting" /\ at <= Len(Steps(cmd))

StepDone ==
  /\ Starting
  /\ stage' = IF Now.metrics \cap metrics = {} THEN stage
              ELSE IF Now.must THEN "panicked" ELSE "returning"
  /\ at' = at + 1
  /\ metrics' = metrics \cup Now.metrics
  /\ open' = open \cup Now.opens
  /\ deferred' = deferred \cup Now.defers
  /\ UNCHANGED <<cmd, groupVars>>

(* return err                                                              *)
StepFails ==
  /\ Starting /\ Now.err
  /\ stage' = "returning"
  /\ UNCHANGED <<cmd, at, metrics, open, deferred, groupVars>>

DryRun ==
  /\ stage = "starting" /\ at > Len(Steps(cmd)) /\ cmd.dryRun
  /\ stage' = "returning"
  /\ UNCHANGED <<cmd, at, metrics, open, deferred, groupVars>>

(* The functions that were added to the group; the others are as if they   *)
(* had returned.                                                           *)
Added == {"proxy"} \cup (IF cmd.api THEN {"api"} ELSE {})
                   \cup (IF cmd.container THEN {"unix"} ELSE {})

GroupRun ==
  /\ stage = "starting" /\ at > Len(Steps(cmd)) /\ ~cmd.dryRun
  /\ stage' = "running"
  /\ returned' = Funcs \ Added
  /\ serve' = [f \in Funcs |-> IF f \in Added THEN "serving" ELSE "closed"]
  /\ listening' = [f \in Funcs |-> f \in Added]
  /\ watcher' = [f \in Funcs |-> IF f \in Added THEN "wait" ELSE "done"]
  /\ UNCHANGED <<cmd, at, metrics, open, deferred>>
  /\ UNCHANGED <<groupDone, notify, expired, busy, funcErr, groupErr, process, signals>>

(* No one is registered for signals while the parts are built.             *)
SignalWhileStarting ==
  /\ stage = "starting" /\ process = "running" /\ signals < MaxSignals
  /\ signals' = signals + 1 /\ process' = "killed" /\ stage' = "killed"
  /\ UNCHANGED <<cmd, at, metrics, open, deferred>>
  /\ UNCHANGED <<groupDone, notify, watcher, expired, serve, listening, busy, funcErr,
                 returned, groupErr>>

GroupStep ==
  /\ stage = "running" /\ GroupNext
  /\ UNCHANGED commandVars

RunReturned ==
  /\ stage = "running" /\ process = "ended"
  /\ stage' = "returning"
  /\ UNCHANGED <<cmd, at, metrics, open, deferred, groupVars>>

(* The deferred calls.                                                     *)
Deferred ==
  /\ stage = "returning"
  /\ stage' = "returned"
  /\ open' = open \ deferred
  /\ UNCHANGED <<cmd, at, metrics, deferred, groupVars>>

CommandOver == stage \in {"returned", "killed", "panicked"} /\ UNCHANGED processVars

CommandNext ==
  \/ StepDone \/ StepFails \/ DryRun \/ GroupRun \/ SignalWhileStarting
  \/ GroupStep \/ RunReturned \/ Deferred \/ CommandOver

CommandSpec == CommandInit /\ [][CommandNext]_processVars

(* The construction goes on: what it reads and dials has timeouts.         *)
CommandFairness ==
  /\ GroupFairness
  /\ WF_processVars(StepDone \/ StepFails \/ DryRun \/ GroupRun)
  /\ WF_processVars(RunReturned) /\ WF_processVars(Deferred)

CommandFairSpec == CommandSpec /\ CommandFairness

-----------------------------------------------------------------------------
(* However far the construction got, and whatever ended the group: once    *)
(* runE has returned, the sockets it opened and the log file are closed,   *)
(* and no part of it registers a metric that another part has, which would *)
(* panic (only the key log files stay open, until the process exits).      *)
CommandClean ==
  /\ stage # "panicked"
  /\ stage = "returned" /\ process # "killed" => open \subseteq {"keyLog", "pacKeyLog"}

(* A signal ends the process at once only while its parts are built, or    *)
(* when it comes in an orderly shutdown that has begun and after the group *)
(* gave its registration back (runctx.Group.RunContext).                   *)
KilledInGaps == stage # "killed" => KilledOnlyInGap

(* How the process ended says why: NilMeansSignal and KilledInGaps.        *)
OutcomeExplained == NilMeansSignal /\ KilledInGaps

(* Told to stop, the command returns from wherever it is, its deferred     *)
(* calls done: the group ends, and the commands around it do too.          *)
CommandReturns == groupDone ~> (stage = "returned" \/ process = "killed")

=============================================================================
