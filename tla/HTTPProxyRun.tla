---------------------------- MODULE HTTPProxyRun ----------------------------
(***************************************************************************)
(* HTTPProxy.run (http_proxy.go): one goroutine per listener in            *)
(* proxy.Serve, and one that waits for the context and then stops the      *)
(* proxy: listeners first, Shutdown with the deadline of shutdownContext,  *)
(* Close when the deadline passes.  run returns when all of them have.     *)
(*                                                                         *)
(* The proxy is module Proxy; here run decides when its Shutdown and Close *)
(* are called.                                                             *)
(***************************************************************************)
EXTENDS Proxy

VARIABLES ctxDone,  \* the context passed to run is cancelled
          rpc,      \* where the stopping goroutine is
          ltodo,    \* the listeners HTTPProxy.Close has still to close
          gerr,     \* the first error of the errgroup
          running   \* g.Wait has not returned

runVars == <<ctxDone, rpc, ltodo, gerr, running>>
allVars == <<vars, runVars>>

RunTypeOK ==
  /\ TypeOK
  /\ ctxDone \in BOOLEAN
  /\ rpc \in {"wait", "listeners", "shutdown", "close", "returned"}
  /\ ltodo \subseteq Listeners
  /\ gerr \in {"none", "canceled", "serve"}
  /\ running \in BOOLEAN

RunInit ==
  /\ Init
  /\ ctxDone = FALSE
  /\ rpc = "wait"
  /\ ltodo = {}
  /\ gerr = "none"
  /\ running = TRUE

(* errgroup keeps the first error only.                                    *)
GroupError(e) == gerr' = IF gerr = "none" THEN e ELSE gerr

(* A signal, or the failure of another function of runctx.Group.           *)
CancelCtx ==
  /\ ~ctxDone
  /\ ctxDone' = TRUE
  /\ UNCHANGED <<vars, rpc, ltodo, gerr, running>>

(* Mutant: run does not close its listeners.                               *)
CtxDoneKeepsListeners ==
  /\ rpc = "wait"
  /\ ctxDone
  /\ rpc' = "listeners"
  /\ ltodo' = {}
  /\ UNCHANGED <<vars, ctxDone, gerr, running>>

CtxDone ==
  /\ rpc = "wait"
  /\ ctxDone
  /\ rpc' = "listeners"
  /\ ltodo' = Listeners
  /\ UNCHANGED <<vars, ctxDone, gerr, running>>

(* hp.Close closes every listener; closing one twice only logs an error.   *)
RunCloseListener(l) ==
  /\ rpc = "listeners"
  /\ l \in ltodo
  /\ ltodo' = ltodo \ {l}
  /\ lopen' = [lopen EXCEPT ![l] = FALSE]
  /\ UNCHANGED <<spc, sconn, handlerVars, stopVars, ctxDone, rpc, gerr, running>>

(* Mutant: Shutdown is called before the listeners are closed.             *)
RunShutdownFirst ==
  /\ rpc = "listeners"
  /\ ShutdownLock
  /\ rpc' = "shutdown"
  /\ UNCHANGED <<ctxDone, ltodo, gerr, running>>

RunShutdown ==
  /\ rpc = "listeners"
  /\ ltodo = {}
  /\ ShutdownLock
  /\ rpc' = "shutdown"
  /\ UNCHANGED <<ctxDone, ltodo, gerr, running>>

(* proxy.Shutdown runs; ctx is that of shutdownContext: it ends after      *)
(* ShutdownTimeout or at a second signal.                                  *)
RunDraining ==
  /\ rpc = "shutdown"
  /\ ShutdownDrained \/ ShutdownBusy \/ ShutdownExpired \/ ShutdownTimer
  /\ UNCHANGED runVars

(* Mutant: the error of Shutdown is logged and that is all.                *)
RunCloseForgotten ==
  /\ rpc = "shutdown"
  /\ sd = "err"
  /\ rpc' = "close"
  /\ cl' = "done"
  /\ UNCHANGED <<ctxDone, ltodo, gerr, running, closeCh, connsMu, sd, cltodo,
                 handlerVars, serveVars>>

RunClose ==
  /\ rpc = "shutdown"
  /\ sd = "err"
  /\ CloseLock
  /\ rpc' = "close"
  /\ UNCHANGED <<ctxDone, ltodo, gerr, running>>

RunClosing ==
  /\ rpc = "close"
  /\ (\E c \in Conns : CloseOne(c)) \/ CloseReturn
  /\ UNCHANGED runVars

(* CloseIdleConnections, and the goroutine returns ctx.Err().              *)
RunStopped ==
  /\ \/ rpc = "shutdown" /\ sd = "nil"
     \/ rpc = "close" /\ cl = "done"
  /\ rpc' = "returned"
  /\ GroupError("canceled")
  /\ UNCHANGED <<vars, ctxDone, ltodo, running>>

(* The goroutine of listener l: net.ErrClosed counts as success.           *)
RunServe(l) ==
  \/ /\ ServeCheck(l) \/ (\E c \in Conns : Accept(l, c)) \/ AcceptTemporary(l)
        \/ BackoffOver(l) \/ AcceptClosed(l) \/ SpawnHandler(l)
     /\ UNCHANGED runVars
  \/ /\ AcceptFailed(l)
     /\ GroupError("serve")
     /\ UNCHANGED <<ctxDone, rpc, ltodo, running>>

RunHandler(c) == Handler(c) /\ UNCHANGED runVars

(* g.Wait(): there is no shared context, so it waits for all of them, also *)
(* after one has failed.                                                   *)
RunWait ==
  /\ running
  /\ rpc = "returned"
  /\ \A l \in Listeners : spc[l] \in Returned
  /\ running' = FALSE
  /\ UNCHANGED <<vars, ctxDone, rpc, ltodo, gerr>>

RunOver ==
  /\ ~running
  /\ \A c \in Conns : cpc[c] \in {"none", "done"}
  /\ UNCHANGED allVars

RunNext ==
  \/ CancelCtx \/ CtxDone
  \/ \E l \in Listeners : RunCloseListener(l) \/ RunServe(l)
  \/ \E c \in Conns : RunHandler(c)
  \/ RunShutdown \/ RunDraining \/ RunClose \/ RunClosing \/ RunStopped
  \/ RunWait \/ RunOver

(* The goroutines of run and Serve take their steps, RemoteAddr is bounded *)
(* by the header timeout, and the context of shutdownContext ends: it      *)
(* stays done once it is, and select does not favour the timer for ever.   *)
(* No handler, client or upstream is assumed to do anything.               *)
RunFairness ==
  /\ WF_allVars(CtxDone)
  /\ WF_allVars(\E l \in Listeners : RunCloseListener(l))
  /\ WF_allVars(RunShutdown)
  /\ WF_allVars(RunDraining)
  /\ SF_allVars(RunDraining /\ ShutdownExpired)
  /\ WF_allVars(RunClose) /\ WF_allVars(RunClosing)
  /\ WF_allVars(RunStopped) /\ WF_allVars(RunWait)
  /\ \A l \in Listeners :
       WF_allVars((ServeCheck(l) \/ BackoffOver(l) \/ AcceptClosed(l) \/ SpawnHandler(l))
                  /\ UNCHANGED runVars)

RunSpec == RunInit /\ [][RunNext]_allVars

RunFairSpec == RunSpec /\ RunFairness

-----------------------------------------------------------------------------
(* What run has done by the time it is at each of its steps, which is what *)
(* the properties below rest on.                                           *)
RunInv ==
  /\ RunTypeOK
  /\ rpc \in {"wait", "listeners"} => sd = "idle" /\ cl = "idle"
  /\ rpc = "shutdown" => sd # "idle" /\ cl = "idle"
  /\ rpc = "close" => cl \in {"iter", "done"}
  /\ rpc = "returned" => sd = "nil" \/ cl = "done"
  /\ rpc = "listeners" => \A l \in Listeners : l \in ltodo \/ ~lopen[l]
  /\ rpc \in {"shutdown", "close", "returned"} => \A l \in Listeners : ~lopen[l]
  /\ ~running => rpc = "returned" /\ \A l \in Listeners : spc[l] \in Returned

(* When run has returned, every listener is closed, no accept loop runs,   *)
(* and a handler that is still serving works on a closed connection.       *)
RunLeavesNothingOpen ==
  ~running =>
    /\ \A l \in Listeners : ~lopen[l] /\ spc[l] \in Returned
    /\ \A c \in Conns : cpc[c] \in Serving => sock[c] = "closed"

(* The listeners are closed before the drain starts ("Close listeners      *)
(* first to prevent new connections", http_proxy.go): no connection is     *)
(* accepted while Shutdown drains, or after.                               *)
NoAcceptWhileDraining ==
  [][sd # "idle" => \A c \in Conns : cpc[c] = "none" => cpc'[c] = "none"]_allVars

(* Once its context is cancelled run returns, whatever clients, upstreams  *)
(* and handlers do.                                                        *)
RunReturns == ctxDone ~> ~running

=============================================================================
