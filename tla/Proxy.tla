------------------------------- MODULE Proxy -------------------------------
(***************************************************************************)
(* The life cycle of martian.Proxy (internal/martian/proxy.go): the accept *)
(* loop Serve, one handleLoop goroutine per accepted connection, and the   *)
(* two ways to stop, Shutdown (drain) and Close (cut).                     *)
(*                                                                         *)
(* They share closeCh, the map conns, the counter connsWg and the mutex    *)
(* connsMu.  Shutdown keeps connsMu for the whole time it polls connsWg,   *)
(* so a connection accepted meanwhile cannot register, and a handler that  *)
(* leaves must give its count back before it asks for the mutex.           *)
(*                                                                         *)
(* What a handler does with a request is kept to what the life cycle       *)
(* depends on; module ProxyConn has the detail and implements this one.    *)
(***************************************************************************)
EXTENDS Integers, FiniteSets

CONSTANTS Conns,      \* the connections clients open, each used once
          Listeners,  \* the listeners passed to Serve
          NoConn      \* Serve holds no connection

ASSUME ConnsAssumption == IsFiniteSet(Conns) /\ NoConn \notin Conns

VARIABLES closeCh,   \* closeCh has been closed: the proxy is closing
          connsMu,   \* holder of the mutex: "free", "shutdown" or "close"
          conns,     \* the map conns, as a set
          connsWg,   \* the atomic counter of handlers
          cpc,       \* per connection: where its handler is
          sock,      \* per connection: "open" or "closed" on our side
          lopen,     \* per listener: is it open
          spc,       \* per listener: where its Serve is
          sconn,     \* per listener: connection between Accept and go handleLoop
          sd,        \* the caller of Shutdown
          cl,        \* the caller of Close
          cltodo     \* the connections Close has still to close

handlerVars == <<conns, connsWg, cpc, sock>>
serveVars   == <<lopen, spc, sconn>>
stopVars    == <<closeCh, connsMu, sd, cl, cltodo>>
vars        == <<handlerVars, serveVars, stopVars>>

(* Handler states after the closing check of handleLoop and before its     *)
(* deferred calls: the connection is being served.                         *)
Serving == {"handshake", "reading", "parsed", "handling",
            "writeKeep", "writeClose", "writeTunnel", "tunnel"}

(* The handler is counted in connsWg.                                      *)
Counted == Serving \cup {"registered", "exit", "closed"}

HandlerPC == Counted \cup {"none", "accepted", "spawned", "left", "done"}

Returned == {"nil", "errClosed", "err"}

TypeOK ==
  /\ closeCh \in BOOLEAN
  /\ connsMu \in {"free", "shutdown", "close"}
  /\ conns \subseteq Conns
  /\ connsWg \in Nat
  /\ cpc \in [Conns -> HandlerPC]
  /\ sock \in [Conns -> {"open", "closed"}]
  /\ lopen \in [Listeners -> BOOLEAN]
  /\ spc \in [Listeners -> {"check", "accept", "addr", "backoff"} \cup Returned]
  /\ sconn \in [Listeners -> Conns \cup {NoConn}]
  /\ sd \in {"idle", "poll", "wait", "nil", "err"}
  /\ cl \in {"idle", "iter", "done"}
  /\ cltodo \subseteq Conns

Init ==
  /\ closeCh = FALSE
  /\ connsMu = "free"
  /\ conns = {}
  /\ connsWg = 0
  /\ cpc = [c \in Conns |-> "none"]
  /\ sock = [c \in Conns |-> "closed"]
  /\ lopen = [l \in Listeners |-> TRUE]
  /\ spc = [l \in Listeners |-> "check"]
  /\ sconn = [l \in Listeners |-> NoConn]
  /\ sd = "idle"
  /\ cl = "idle"
  /\ cltodo = {}

-----------------------------------------------------------------------------
(* Serve(l)                                                                *)

(* Serve returns r; the deferred l.Close closes the listener.              *)
ServeReturn(l, r) ==
  /\ spc' = [spc EXCEPT ![l] = r]
  /\ lopen' = [lopen EXCEPT ![l] = FALSE]

(* The closing check at the head of the accept loop.                       *)
ServeCheck(l) ==
  /\ spc[l] = "check"
  /\ IF closeCh
     THEN ServeReturn(l, "nil")
     ELSE spc' = [spc EXCEPT ![l] = "accept"] /\ UNCHANGED lopen
  /\ UNCHANGED <<sconn, handlerVars, stopVars>>

Accept(l, c) ==
  /\ spc[l] = "accept"
  /\ lopen[l]
  /\ cpc[c] = "none"
  /\ spc' = [spc EXCEPT ![l] = "addr"]
  /\ sconn' = [sconn EXCEPT ![l] = c]
  /\ cpc' = [cpc EXCEPT ![c] = "accepted"]
  /\ sock' = [sock EXCEPT ![c] = "open"]
  /\ UNCHANGED <<lopen, conns, connsWg, stopVars>>

(* A temporary error: sleep with an exponential back-off, then retry.      *)
AcceptTemporary(l) ==
  /\ spc[l] = "accept"
  /\ lopen[l]
  /\ spc' = [spc EXCEPT ![l] = "backoff"]
  /\ UNCHANGED <<lopen, sconn, handlerVars, stopVars>>

BackoffOver(l) ==
  /\ spc[l] = "backoff"
  /\ spc' = [spc EXCEPT ![l] = "check"]
  /\ UNCHANGED <<lopen, sconn, handlerVars, stopVars>>

(* Accept on a closed listener returns net.ErrClosed.                      *)
AcceptClosed(l) ==
  /\ spc[l] = "accept"
  /\ ~lopen[l]
  /\ ServeReturn(l, "errClosed")
  /\ UNCHANGED <<sconn, handlerVars, stopVars>>

AcceptFailed(l) ==
  /\ spc[l] = "accept"
  /\ lopen[l]
  /\ ServeReturn(l, "err")
  /\ UNCHANGED <<sconn, handlerVars, stopVars>>

(* conn.RemoteAddr() is evaluated for the log line.  Behind the PROXY      *)
(* protocol it waits for the client's header, so the accept loop can stay  *)
(* here for a while before it starts the handler.                          *)
SpawnHandler(l) ==
  /\ spc[l] = "addr"
  /\ cpc' = [cpc EXCEPT ![sconn[l]] = "spawned"]
  /\ spc' = [spc EXCEPT ![l] = "check"]
  /\ sconn' = [sconn EXCEPT ![l] = NoConn]
  /\ UNCHANGED <<lopen, conns, connsWg, sock, stopVars>>

(* The owner of the listener closes it (HTTPProxy.Close).                  *)
CloseListener(l) ==
  /\ lopen[l]
  /\ lopen' = [lopen EXCEPT ![l] = FALSE]
  /\ UNCHANGED <<spc, sconn, handlerVars, stopVars>>

-----------------------------------------------------------------------------
(* handleLoop(c)                                                           *)

Goto(c, from, to) ==
  /\ cpc[c] = from
  /\ cpc' = [cpc EXCEPT ![c] = to]

(* A step of the handler that touches nothing but its own state.           *)
Move(c, from, to) ==
  /\ Goto(c, from, to)
  /\ UNCHANGED <<conns, connsWg, sock, serveVars, stopVars>>

(* Mutant: the connection is counted but not put in the map.               *)
RegisterUntracked(c) ==
  /\ connsMu = "free"
  /\ Goto(c, "spawned", "registered")
  /\ connsWg' = connsWg + 1
  /\ UNCHANGED <<conns, sock, serveVars, stopVars>>

(* Lock; conns[conn]; connsWg.Add(1); Unlock.                              *)
Register(c) ==
  /\ connsMu = "free"
  /\ Goto(c, "spawned", "registered")
  /\ conns' = conns \cup {c}
  /\ connsWg' = connsWg + 1
  /\ UNCHANGED <<sock, serveVars, stopVars>>

(* Mutant: no check once registered.                                       *)
CheckClosingDropped(c) == Move(c, "registered", "handshake")

(* if p.closing() return, with the three deferred calls in place.          *)
CheckClosing(c) ==
  Move(c, "registered", IF closeCh THEN "exit" ELSE "handshake")

(* maybeHandshakeTLS: a plain connection has nothing to do here.           *)
HandshakeDone(c)   == Move(c, "handshake", "reading")
HandshakeFailed(c) == Move(c, "handshake", "exit")

(* readRequest returns a request (possibly one already buffered, possibly  *)
(* the first one under MITM, after its handshake) ...                      *)
RequestRead(c) == Move(c, "reading", "parsed")

(* ... or an error: EOF, a deadline, a closed connection, bad syntax.      *)
ReadFailed(c) == Move(c, "reading", "exit")

(* handle checks closing() again once the request is there.                *)
CheckClosingAfterRead(c) ==
  Move(c, "parsed", IF closeCh THEN "exit" ELSE "handling")

(* The round trip, the CONNECT or a refusal ends with a response to write. *)
(* writeResponse asks closing() first: a closing proxy marks the response  *)
(* Connection: close, and a tunnel response is no exception.               *)
StartWrite(c) ==
  \E w \in IF closeCh THEN {"writeClose"}
           ELSE {"writeKeep", "writeClose", "writeTunnel"} :
    Move(c, "handling", w)

(* A 101 response whose body cannot be written to is not passed on.        *)
HandleReturned(c) == Move(c, "handling", "exit")

(* The response is written and flushed; only an open connection takes it.  *)
Written(c) ==
  /\ sock[c] = "open"
  /\ \/ Move(c, "writeKeep", "reading")
     \/ Move(c, "writeClose", "exit")
     \/ Move(c, "writeTunnel", "tunnel")

WriteFailed(c) ==
  \E w \in {"writeKeep", "writeClose", "writeTunnel"} : Move(c, w, "exit")

(* Both directions of the tunnel are over.                                 *)
TunnelDone(c) == Move(c, "tunnel", "exit")

(* The deferred calls, last deferred first: conn.Close,                    *)
CloseConn(c) ==
  /\ Goto(c, "exit", "closed")
  /\ sock' = [sock EXCEPT ![c] = "closed"]
  /\ UNCHANGED <<conns, connsWg, serveVars, stopVars>>

(* Mutant: the count is given back under connsMu, with the deletion.       *)
LeaveWgLocked(c) ==
  /\ connsMu = "free"
  /\ Goto(c, "closed", "left")
  /\ connsWg' = connsWg - 1
  /\ UNCHANGED <<conns, sock, serveVars, stopVars>>

(* connsWg.Add(-1), which needs no lock,                                   *)
LeaveWg(c) ==
  /\ Goto(c, "closed", "left")
  /\ connsWg' = connsWg - 1
  /\ UNCHANGED <<conns, sock, serveVars, stopVars>>

(* and the deletion from conns, which does.                                *)
Unregister(c) ==
  /\ connsMu = "free"
  /\ Goto(c, "left", "done")
  /\ conns' = conns \ {c}
  /\ UNCHANGED <<connsWg, sock, serveVars, stopVars>>

-----------------------------------------------------------------------------
(* Shutdown(ctx) and Close()                                               *)

(* Lock, closeOnce: the mutex is kept until Shutdown returns.              *)
ShutdownLock ==
  /\ sd = "idle"
  /\ connsMu = "free"
  /\ sd' = "poll"
  /\ connsMu' = "shutdown"
  /\ closeCh' = TRUE
  /\ UNCHANGED <<cl, cltodo, handlerVars, serveVars>>

(* Shutdown returns r; the deferred Unlock frees the mutex.                *)
ShutdownReturn(r) ==
  /\ sd' = r
  /\ connsMu' = "free"
  /\ UNCHANGED <<closeCh, cl, cltodo, handlerVars, serveVars>>

(* One turn of the poll loop reads connsWg without more ado.               *)
ShutdownDrained ==
  /\ sd = "poll"
  /\ connsWg = 0
  /\ ShutdownReturn("nil")

ShutdownBusy ==
  /\ sd = "poll"
  /\ connsWg # 0
  /\ sd' = "wait"
  /\ UNCHANGED <<closeCh, connsMu, cl, cltodo, handlerVars, serveVars>>

(* The select between ctx.Done() and the timer: connsWg may have become 0  *)
(* since it was read, and an expired context still wins.                   *)
ShutdownExpired ==
  /\ sd = "wait"
  /\ ShutdownReturn("err")

ShutdownTimer ==
  /\ sd = "wait"
  /\ sd' = "poll"
  /\ UNCHANGED <<closeCh, connsMu, cl, cltodo, handlerVars, serveVars>>

CloseLock ==
  /\ cl = "idle"
  /\ connsMu = "free"
  /\ cl' = "iter"
  /\ connsMu' = "close"
  /\ closeCh' = TRUE
  /\ cltodo' = conns
  /\ UNCHANGED <<sd, handlerVars, serveVars>>

(* for conn := range p.conns, in any order.                                *)
CloseOne(c) ==
  /\ cl = "iter"
  /\ c \in cltodo
  /\ cltodo' = cltodo \ {c}
  /\ sock' = [sock EXCEPT ![c] = "closed"]
  /\ UNCHANGED <<closeCh, connsMu, sd, cl, conns, connsWg, cpc, serveVars>>

CloseReturn ==
  /\ cl = "iter"
  /\ cltodo = {}
  /\ cl' = "done"
  /\ connsMu' = "free"
  /\ UNCHANGED <<closeCh, sd, cltodo, handlerVars, serveVars>>

-----------------------------------------------------------------------------
Handler(c) ==
  \/ Register(c) \/ CheckClosing(c)
  \/ HandshakeDone(c) \/ HandshakeFailed(c)
  \/ RequestRead(c) \/ ReadFailed(c) \/ CheckClosingAfterRead(c)
  \/ StartWrite(c) \/ HandleReturned(c)
  \/ Written(c) \/ WriteFailed(c) \/ TunnelDone(c)
  \/ CloseConn(c) \/ LeaveWg(c) \/ Unregister(c)

Serve(l) ==
  \/ ServeCheck(l)
  \/ \E c \in Conns : Accept(l, c)
  \/ AcceptTemporary(l) \/ BackoffOver(l)
  \/ AcceptClosed(l) \/ AcceptFailed(l)
  \/ SpawnHandler(l)

Shutdown ==
  \/ ShutdownLock
  \/ ShutdownDrained \/ ShutdownBusy
  \/ ShutdownExpired \/ ShutdownTimer

Close == CloseLock \/ (\E c \in Conns : CloseOne(c)) \/ CloseReturn

(* Everything has stopped: the one state the proxy may rest in.            *)
Stopped ==
  /\ sd \in {"nil", "err"}
  /\ cl = "done"
  /\ \A l \in Listeners : spc[l] \in Returned
  /\ \A c \in Conns : cpc[c] \in {"none", "done"}
  /\ UNCHANGED vars

Next ==
  \/ \E c \in Conns : Handler(c)
  \/ \E l \in Listeners : Serve(l) \/ CloseListener(l)
  \/ Shutdown
  \/ Close
  \/ Stopped

Spec == Init /\ [][Next]_vars

-----------------------------------------------------------------------------
(* Fairness.  The steps of our own goroutines are taken when they can be;  *)
(* Go mutexes do not starve a waiter.  A blocked read, handshake or write  *)
(* ends because the server sets a timeout (or the peer acts); so does the  *)
(* read of the rest of a body, which can delay CloseConn.  An upstream     *)
(* exchange ends because the transport bounds it, a tunnel because its     *)
(* peers close it, RemoteAddr because of the header timeout.  Nothing      *)
(* forces a client to send, a context to expire, or anyone to call         *)
(* Shutdown or Close.                                                      *)
HandlerFairness(c) ==
  /\ WF_vars(Register(c))
  /\ WF_vars(CheckClosing(c))
  /\ WF_vars(HandshakeDone(c) \/ HandshakeFailed(c))
  /\ WF_vars(RequestRead(c) \/ ReadFailed(c))
  /\ WF_vars(CheckClosingAfterRead(c))
  /\ WF_vars(StartWrite(c) \/ HandleReturned(c))
  /\ WF_vars(Written(c) \/ WriteFailed(c))
  /\ WF_vars(TunnelDone(c))
  /\ WF_vars(CloseConn(c))
  /\ WF_vars(LeaveWg(c))
  /\ WF_vars(Unregister(c))

ServeFairness(l) ==
  /\ WF_vars(ServeCheck(l))
  /\ WF_vars(BackoffOver(l))
  /\ WF_vars(AcceptClosed(l))
  /\ WF_vars(SpawnHandler(l))

CloseFairness == WF_vars((\E c \in Conns : CloseOne(c)) \/ CloseReturn)

Fairness ==
  /\ \A c \in Conns : HandlerFairness(c)
  /\ \A l \in Listeners : ServeFairness(l)
  /\ WF_vars(ShutdownDrained \/ ShutdownBusy)
  /\ WF_vars(ShutdownTimer)
  /\ CloseFairness

FairSpec == Spec /\ Fairness

-----------------------------------------------------------------------------
(* connsWg is the number of handlers between their registration and their  *)
(* deferred connsWg.Add(-1), on every path through handleLoop.             *)
WgCounts == connsWg = Cardinality({c \in Conns : cpc[c] \in Counted})

(* Once Shutdown has returned nil no connection is served, then or later:  *)
(* a connection accepted while Shutdown held connsMu is not counted, and   *)
(* must leave by the closing check that follows its registration.          *)
DrainedMeansIdle ==
  sd = "nil" => \A c \in Conns : cpc[c] \notin Serving

(* Once Close has returned, every connection still being served has been   *)
(* closed under its handler: none was missed by the walk over conns, and   *)
(* none registered after the walk is served.                               *)
CloseReachesAll ==
  cl = "done" => \A c \in Conns : cpc[c] \in Serving => sock[c] = "closed"

(* A connection an active handler works on is in conns, where Close finds  *)
(* it, and a handler that is gone leaves nothing behind in the map.        *)
ConnsTracked ==
  \A c \in Conns : c \in conns <=> cpc[c] \in Counted \cup {"left"}

(* Who holds the mutex, what a closing caller has already done, and which  *)
(* connections are between Accept and go handleLoop: what the five         *)
(* properties above need to be preserved by every step.                    *)
StopInv ==
  /\ connsMu = "shutdown" <=> sd \in {"poll", "wait"}
  /\ connsMu = "close" <=> cl = "iter"
  /\ sd # "idle" \/ cl # "idle" => closeCh
  /\ cl = "iter" => \A c \in Conns : cpc[c] \in Serving => c \in cltodo \/ sock[c] = "closed"
  /\ \A l \in Listeners : spc[l] = "addr" => sconn[l] \in Conns /\ cpc[sconn[l]] = "accepted"
  /\ \A k, l \in Listeners : k # l /\ spc[k] = "addr" /\ spc[l] = "addr" => sconn[k] # sconn[l]

(* The inductive invariant of the life cycle.                              *)
IInv ==
  /\ TypeOK /\ WgCounts /\ ConnsTracked
  /\ DrainedMeansIdle /\ CloseReachesAll /\ StopInv

(* Shutdown without a deadline returns once the handlers finish: a leaving *)
(* handler gives its count back without the mutex that Shutdown holds.     *)
ShutdownReturns == sd = "poll" ~> sd \in {"nil", "err"}

(* After the proxy starts closing, by Shutdown or Close, the handler of    *)
(* every connection it has accepted runs to its end.                       *)
HandlersFinish ==
  \A c \in Conns : (closeCh /\ cpc[c] # "none") ~> cpc[c] = "done"

(* A proxy told to stop comes to its end, from handlers to Shutdown:       *)
(* ShutdownReturns and HandlersFinish.                                     *)
ProxyFinishes == ShutdownReturns /\ HandlersFinish

=============================================================================
