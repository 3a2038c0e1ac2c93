---------------------------- MODULE MCLifecycle ----------------------------
(* How the process comes up, runs and stops: the command with its group of *)
(* functions, and the one of these that runs the proxy, in detail.  A      *)
(* behaviour is one of the two; the other is over.                         *)
EXTENDS HTTPProxyRun, MCCommand

VARIABLE level   \* "command" or "proxy"

lifecycleVars == <<level, allVars, processVars>>

CommandRests ==
  /\ stage = "killed" /\ at = 1 /\ cmd = With({})
  /\ metrics = {} /\ open = {} /\ deferred = {}
  /\ process = "killed" /\ signals = 1
  /\ groupDone = FALSE /\ notify = TRUE
  /\ watcher = [f \in Funcs |-> "wait"] /\ serve = [f \in Funcs |-> "serving"]
  /\ expired = [f \in Funcs |-> FALSE] /\ listening = expired
  /\ busy = [f \in Funcs |-> 0] /\ funcErr = [f \in Funcs |-> "none"]
  /\ returned = {} /\ groupErr = "none"

RunRests ==
  /\ closeCh = TRUE /\ connsMu = "free" /\ conns = {} /\ connsWg = 0
  /\ cpc = [c \in Conns |-> "none"] /\ sock = [c \in Conns |-> "closed"]
  /\ lopen = [l \in Listeners |-> FALSE] /\ spc = [l \in Listeners |-> "errClosed"]
  /\ sconn = [l \in Listeners |-> NoConn]
  /\ sd = "nil" /\ cl = "idle" /\ cltodo = {}
  /\ ctxDone = TRUE /\ rpc = "returned" /\ ltodo = {}
  /\ gerr = "canceled" /\ running = FALSE

LifecycleInit ==
  \/ level = "command" /\ CommandInit /\ RunRests
  \/ level = "proxy" /\ RunInit /\ CommandRests

LifecycleNext ==
  \/ level = "command" /\ CommandNext /\ UNCHANGED <<level, allVars>>
  \/ level = "proxy" /\ RunNext /\ UNCHANGED <<level, processVars>>

LifecycleSpec ==
  /\ LifecycleInit /\ [][LifecycleNext]_lifecycleVars
  /\ RunFairness /\ CommandFairness

=============================================================================
