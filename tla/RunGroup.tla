------------------------------ MODULE RunGroup ------------------------------
(***************************************************************************)
(* The process: a runctx.Group that runs the proxy (HTTPProxy.run or       *)
(* runHTTPHandler), API servers (HTTPServer.Run) and the API on a Unix     *)
(* socket (httpx.ServeUnixSocket), and stops them on a signal or when one  *)
(* of them fails.                                                          *)
(*                                                                         *)
(* Each function has a goroutine that serves and one, the watcher, that    *)
(* waits for the context and then shuts the server down.  HTTPProxy waits  *)
(* for both; the other two return as soon as serving has ended.            *)
(***************************************************************************)
EXTENDS Integers

CONSTANTS Proxies, Servers, UnixSockets,   \* the functions of the group
          MaxBusy,                         \* bound on requests in flight
          MaxSignals                       \* bound on signals received

Funcs == Proxies \cup Servers \cup UnixSockets

ASSUME RunGroupAssumption ==
  /\ MaxBusy \in Nat \ {0} /\ MaxSignals \in Nat
  /\ Proxies \cap Servers = {} /\ UnixSockets \cap (Proxies \cup Servers) = {}

VARIABLES groupDone,    \* the group's context is done
          notify,     \* the group is registered for signals
          watcher,    \* per function: "wait", "woken", "draining" or "done"
          expired,    \* per function: its shutdownContext is done
          serve,      \* per function: "serving", "closed" or "failed"
          listening,  \* per function: its listener is open
          busy,       \* per function: requests in flight
          funcErr,    \* per function: first error of its own errgroup
          returned,   \* functions that have returned
          groupErr,   \* first error of the group
          process,    \* "running", "ended" (RunContext returned) or "killed"
          signals     \* signals received

groupVars == <<groupDone, notify, watcher, expired, serve, listening, busy,
               funcErr, returned, groupErr, process, signals>>

Errors == {"none", "canceled", "err"}

GroupTypeOK ==
  /\ groupDone \in BOOLEAN /\ notify \in BOOLEAN
  /\ watcher \in [Funcs -> {"wait", "woken", "draining", "done"}]
  /\ expired \in [Funcs -> BOOLEAN] /\ listening \in [Funcs -> BOOLEAN]
  /\ serve \in [Funcs -> {"serving", "closed", "failed"}]
  /\ busy \in [Funcs -> 0 .. MaxBusy]
  /\ funcErr \in [Funcs -> Errors] /\ groupErr \in Errors
  /\ returned \subseteq Funcs
  /\ process \in {"running", "ended", "killed"}
  /\ signals \in 0 .. MaxSignals

GroupInit ==
  /\ groupDone = FALSE
  /\ notify = TRUE
  /\ watcher = [f \in Funcs |-> "wait"]
  /\ expired = [f \in Funcs |-> FALSE]
  /\ serve = [f \in Funcs |-> "serving"]
  /\ listening = [f \in Funcs |-> TRUE]
  /\ busy = [f \in Funcs |-> 0]
  /\ funcErr = [f \in Funcs |-> "none"]
  /\ returned = {}
  /\ groupErr = "none"
  /\ process = "running"
  /\ signals = 0

Set(fn, f, v) == fn' = [fn EXCEPT ![f] = v]

(* errgroup keeps the first error.                                         *)
First(old, new) == IF old = "none" THEN new ELSE old

-----------------------------------------------------------------------------
(* Clients                                                                 *)

Request(f) ==
  /\ serve[f] = "serving" /\ listening[f] /\ busy[f] < MaxBusy
  /\ Set(busy, f, busy[f] + 1)
  /\ UNCHANGED <<groupDone, notify, watcher, expired, serve, listening, funcErr,
                 returned, groupErr, process, signals>>

RequestDone(f) ==
  /\ busy[f] > 0
  /\ Set(busy, f, busy[f] - 1)
  /\ UNCHANGED <<groupDone, notify, watcher, expired, serve, listening, funcErr,
                 returned, groupErr, process, signals>>

-----------------------------------------------------------------------------
(* The serving goroutine                                                   *)

(* Serve returns net.ErrClosed or http.ErrServerClosed, which is no error. *)
ServeClosed(f) ==
  /\ serve[f] = "serving" /\ ~listening[f]
  /\ Set(serve, f, "closed")
  /\ UNCHANGED <<groupDone, notify, watcher, expired, listening, busy, funcErr,
                 returned, groupErr, process, signals>>

(* Accept fails.  In HTTPProxy the error waits in the errgroup, which has  *)
(* no context of its own to cancel.                                        *)
ServeFails(f) ==
  /\ serve[f] = "serving" /\ listening[f]
  /\ Set(serve, f, "failed")
  /\ Set(funcErr, f, First(funcErr[f], "err"))
  /\ UNCHANGED <<groupDone, notify, watcher, expired, listening, busy, returned,
                 groupErr, process, signals>>

-----------------------------------------------------------------------------
(* The watcher                                                             *)

(* HTTPProxy.run closes its listeners before it asks for a shutdown        *)
(* context; ServeUnixSocket closes the server and is done.                 *)
Wakes(f) ==
  /\ watcher[f] = "wait" /\ groupDone
  /\ Set(watcher, f, IF f \in UnixSockets THEN "done" ELSE "woken")
  /\ Set(listening, f, f \in Servers /\ listening[f])
  /\ Set(busy, f, IF f \in UnixSockets THEN 0 ELSE busy[f])
  /\ UNCHANGED <<groupDone, notify, expired, serve, funcErr, returned, groupErr,
                 process, signals>>

(* Mutant: Shutdown leaves the listeners to someone else.                  *)
DrainsListening(f) ==
  /\ watcher[f] = "woken"
  /\ Set(watcher, f, "draining")
  /\ UNCHANGED <<groupDone, notify, expired, serve, listening, busy, funcErr,
                 returned, groupErr, process, signals>>

(* shutdownContext registers for the signals, and Shutdown closes the      *)
(* listeners that are left and polls.                                      *)
Drains(f) ==
  /\ watcher[f] = "woken"
  /\ Set(watcher, f, "draining")
  /\ Set(listening, f, FALSE)
  /\ UNCHANGED <<groupDone, notify, expired, serve, busy, funcErr, returned,
                 groupErr, process, signals>>

(* HTTPProxy returns ctx.Err() from the watcher; HTTPServer drops it.      *)
WatcherErr(f) ==
  IF f \in Proxies THEN First(funcErr[f], "canceled") ELSE funcErr[f]

Drained(f) ==
  /\ watcher[f] = "draining" /\ busy[f] = 0
  /\ Set(watcher, f, "done")
  /\ Set(funcErr, f, WatcherErr(f))
  /\ UNCHANGED <<groupDone, notify, expired, serve, listening, busy, returned,
                 groupErr, process, signals>>

(* Mutant: after a failed Shutdown the server is not closed.               *)
DrainExpiresOpen(f) ==
  /\ watcher[f] = "draining" /\ expired[f]
  /\ Set(watcher, f, "done")
  /\ Set(funcErr, f, WatcherErr(f))
  /\ UNCHANGED <<groupDone, notify, expired, serve, listening, busy, returned,
                 groupErr, process, signals>>

(* Shutdown returns the context's error; Close cuts what is left.          *)
DrainExpires(f) ==
  /\ watcher[f] = "draining" /\ expired[f]
  /\ Set(watcher, f, "done")
  /\ Set(busy, f, 0)
  /\ Set(funcErr, f, WatcherErr(f))
  /\ UNCHANGED <<groupDone, notify, expired, serve, listening, returned,
                 groupErr, process, signals>>

ShutdownTimeout(f) ==
  /\ watcher[f] = "draining" /\ ~expired[f]
  /\ Set(expired, f, TRUE)
  /\ UNCHANGED <<groupDone, notify, watcher, serve, listening, busy, funcErr,
                 returned, groupErr, process, signals>>

-----------------------------------------------------------------------------
(* The group                                                               *)

(* A function returns, and its error, if it is the first, cancels the      *)
(* context of the others.                                                  *)
FuncReturns(f) ==
  /\ f \notin returned
  /\ serve[f] # "serving"
  /\ f \in Proxies => watcher[f] = "done"
  /\ returned' = returned \cup {f}
  /\ groupErr' = First(groupErr, funcErr[f])
  /\ groupDone' = (groupDone \/ funcErr[f] # "none")
  /\ UNCHANGED <<notify, watcher, expired, serve, listening, busy, funcErr,
                 process, signals>>

(* Mutant: the registration is given back at once, as by a misplaced defer.*)
UnregisterSignalsEarly ==
  /\ notify
  /\ notify' = FALSE
  /\ UNCHANGED <<groupDone, watcher, expired, serve, listening, busy, funcErr,
                 returned, groupErr, process, signals>>

UnregisterSignals ==
  /\ notify /\ groupDone
  /\ notify' = FALSE
  /\ UNCHANGED <<groupDone, watcher, expired, serve, listening, busy, funcErr,
                 returned, groupErr, process, signals>>

(* A signal goes to everyone who is registered, the group and every        *)
(* shutdown context; if no one is, it kills the process.                   *)
Signal ==
  /\ signals < MaxSignals
  /\ signals' = signals + 1
  /\ groupDone' = (groupDone \/ notify)
  /\ expired' = [f \in Funcs |-> expired[f] \/ watcher[f] = "draining"]
  /\ process' = IF notify \/ \E f \in Funcs : watcher[f] = "draining"
                THEN process ELSE "killed"
  /\ UNCHANGED <<notify, watcher, serve, listening, busy, funcErr, returned,
                 groupErr>>

(* eg.Wait returns when every function and the goroutine that unregisters  *)
(* have.                                                                   *)
GroupReturns ==
  /\ returned = Funcs /\ ~notify
  /\ process' = "ended"
  /\ UNCHANGED <<groupDone, notify, watcher, expired, serve, listening, busy,
                 funcErr, returned, groupErr, signals>>

Func(f) ==
  \/ Request(f) \/ RequestDone(f)
  \/ ServeClosed(f) \/ ServeFails(f)
  \/ Wakes(f) \/ Drains(f) \/ Drained(f) \/ DrainExpires(f)
  \/ ShutdownTimeout(f)
  \/ FuncReturns(f)

GroupOver == process # "running" /\ UNCHANGED groupVars

GroupNext ==
  \/ process = "running" /\ \E f \in Funcs : Func(f)
  \/ process = "running" /\ (UnregisterSignals \/ Signal \/ GroupReturns)
  \/ GroupOver

GroupSpec == GroupInit /\ [][GroupNext]_groupVars

(* Goroutines that can run do, and the shutdown timer fires.  Clients need *)
(* not finish their requests.                                              *)
GroupFairness ==
  /\ \A f \in Funcs :
       /\ WF_groupVars(process = "running" /\ ServeClosed(f))
       /\ WF_groupVars(process = "running" /\ (Wakes(f) \/ Drains(f) \/ Drained(f) \/ DrainExpires(f)))
       /\ WF_groupVars(process = "running" /\ ShutdownTimeout(f))
       /\ WF_groupVars(process = "running" /\ FuncReturns(f))
  /\ WF_groupVars(process = "running" /\ UnregisterSignals)
  /\ WF_groupVars(process = "running" /\ GroupReturns)

GroupFairSpec == GroupSpec /\ GroupFairness

-----------------------------------------------------------------------------
(* RunContext returns with no request of the proxy in flight: each was     *)
(* served or cut.                                                          *)
ProxyDrained == process = "ended" => \A p \in Proxies : busy[p] = 0

(* RunContext returns nil, and the command succeeds, only when a signal    *)
(* asked the process to stop.                                              *)
NilMeansSignal ==
  process = "ended" /\ groupErr # "err" => signals > 0

(* The first signal starts the orderly shutdown, unless one has begun      *)
(* because a function failed: only a signal that comes once the group has  *)
(* given its registration back can kill the process.                       *)
KilledOnlyInGap ==
  process = "killed" => groupDone /\ (signals > 1 \/ groupErr = "err")

(* Once the context is done the process ends: no function waits for ever.  *)
GroupEnds == groupDone ~> process # "running"

(* The flag shutdown-timeout (bind/flag.go) is "the maximum amount of time *)
(* to wait for the server to drain connections before closing": HTTPServer *)
(* returns while requests are in flight only when the time is up.          *)
ServerDrainAwaited ==
  \A s \in Servers : s \in returned /\ serve[s] = "closed" /\ busy[s] > 0 => expired[s]

=============================================================================
