---------------------------- MODULE ProxyProofs ----------------------------
(***************************************************************************)
(* The proxy's life, for any finite set of connections and any set of      *)
(* listeners: that of module Proxy, and HTTPProxy.run, which implements it *)
(* and decides when Shutdown and Close are called.  The last section is    *)
(* the proxy served by an http.Server: what ServeHTTP promises of every    *)
(* exchange.                                                               *)
(***************************************************************************)
EXTENDS HTTPProxyRun, ProxyHandler, FiniteSetTheorems, SequenceTheorems, TLAPS

(* Module Proxy.  The argument is the inductive invariant IInv; one lemma  *)
(* covers every step of a handler that stays counted in connsWg, the other *)
(* actions have a step of their own.                                       *)
InWg == {c \in Conns : cpc[c] \in Counted}

(* The handlers counted in connsWg are finitely many, so their number is a *)
(* natural number.                                                         *)
LEMMA InWgFinite ==
  IsFiniteSet(InWg) /\ Cardinality(InWg) \in Nat
<1>1. InWg \in SUBSET Conns
  BY DEF InWg
<1>2. IsFiniteSet(InWg)
  BY <1>1, ConnsAssumption, FS_Subset
<1> QED
  BY <1>2, FS_CardinalityType

(* Init establishes the invariant: no handler, no lock, nothing closed.    *)
LEMMA InitInv == Init => IInv
<1> SUFFICES ASSUME Init PROVE IInv
  OBVIOUS
<1>1. TypeOK
  BY Zenon DEF Init, TypeOK, HandlerPC
<1>2. {c \in Conns : cpc[c] \in Counted} = {}
  BY DEF Init, Counted, Serving
<1>3. WgCounts
  BY <1>2, FS_EmptySet DEF Init, WgCounts
<1>4. ConnsTracked /\ DrainedMeansIdle /\ CloseReachesAll /\ StopInv
  BY DEF Init, ConnsTracked, DrainedMeansIdle, CloseReachesAll, StopInv, Counted, Serving
<1> QED
  BY <1>1, <1>3, <1>4 DEF IInv

(* A step of a handler inside handleLoop keeps the invariant: it stays     *)
(* counted, and it enters Serving only while the proxy is not closing.     *)
LEMMA MoveInv ==
  ASSUME IInv, NEW c \in Conns, NEW from \in Counted, NEW to \in Counted,
         Move(c, from, to), to \in Serving => from \in Serving \/ ~closeCh
  PROVE  IInv'
<1> USE DEF Move, Goto, handlerVars, serveVars, stopVars
<1>1. TypeOK'
  BY DEF IInv, TypeOK, HandlerPC
<1>2. {d \in Conns : cpc'[d] \in Counted} = {d \in Conns : cpc[d] \in Counted}
  BY DEF IInv, TypeOK
<1>3. WgCounts'
  BY <1>2 DEF IInv, WgCounts
<1>4. ConnsTracked'
  BY DEF IInv, TypeOK, ConnsTracked
<1>5. DrainedMeansIdle' /\ CloseReachesAll'
  BY DEF IInv, TypeOK, DrainedMeansIdle, CloseReachesAll, StopInv
<1>6. StopInv'
  <2>1. from # "accepted"
    BY DEF Counted, Serving
  <2> QED
    BY <2>1 DEF IInv, TypeOK, StopInv
<1> QED
  BY <1>1, <1>3, <1>4, <1>5, <1>6 DEF IInv

(* A step that leaves the handlers and the stopping callers alone keeps    *)
(* the invariant, whatever Serve does with its listener.                   *)
LEMMA ServeInv ==
  ASSUME IInv, TypeOK', UNCHANGED <<handlerVars, stopVars, sconn>>,
         \A l \in Listeners : spc'[l] = "addr" => spc[l] = "addr"
  PROVE  IInv'
<1> USE DEF handlerVars, stopVars
<1>1. WgCounts' /\ ConnsTracked' /\ DrainedMeansIdle' /\ CloseReachesAll'
  BY DEF IInv, WgCounts, ConnsTracked, DrainedMeansIdle, CloseReachesAll
<1>2. StopInv'
  BY DEF IInv, StopInv
<1> QED
  BY <1>1, <1>2 DEF IInv

(* A step of Shutdown or Close that leaves handlers and Serve alone keeps  *)
(* everything but the facts about the stopping callers themselves.         *)
LEMMA CallerInv ==
  ASSUME IInv, UNCHANGED <<conns, connsWg, cpc, serveVars>>,
         sock' \in [Conns -> {"open", "closed"}],
         closeCh' \in BOOLEAN, connsMu' \in {"free", "shutdown", "close"},
         sd' \in {"idle", "poll", "wait", "nil", "err"},
         cl' \in {"idle", "iter", "done"}, cltodo' \subseteq Conns
  PROVE  TypeOK' /\ WgCounts' /\ ConnsTracked'
BY DEF IInv, TypeOK, WgCounts, ConnsTracked, serveVars

(* The actions of Serve and of the owner of its listener.                  *)
LEMMA ServeStepInv ==
  ASSUME IInv, NEW l \in Listeners, Serve(l) \/ CloseListener(l)
  PROVE  IInv'
<1> USE DEF handlerVars, stopVars, ServeReturn, Returned
<1>1. CASE ServeCheck(l) \/ AcceptTemporary(l) \/ BackoffOver(l)
           \/ AcceptClosed(l) \/ AcceptFailed(l) \/ CloseListener(l)
  <2>1. TypeOK'
    BY <1>1, ZenonT(40) DEF IInv, TypeOK, ServeCheck, AcceptTemporary, BackoffOver,
                AcceptClosed, AcceptFailed, CloseListener
  <2>2. \A k \in Listeners : spc'[k] = "addr" => spc[k] = "addr"
    BY <1>1 DEF IInv, TypeOK, ServeCheck, AcceptTemporary, BackoffOver,
                AcceptClosed, AcceptFailed, CloseListener
  <2>3. UNCHANGED <<handlerVars, stopVars, sconn>>
    BY <1>1 DEF ServeCheck, AcceptTemporary, BackoffOver,
                AcceptClosed, AcceptFailed, CloseListener
  <2> QED
    BY <2>1, <2>2, <2>3, ServeInv
<1>2. ASSUME NEW c \in Conns, Accept(l, c)
      PROVE  IInv'
  <2> USE <1>2 DEF Accept
  <2>1. TypeOK'
    BY DEF IInv, TypeOK, HandlerPC
  <2>2. {d \in Conns : cpc'[d] \in Counted} = {d \in Conns : cpc[d] \in Counted}
    BY DEF IInv, TypeOK, Counted, Serving
  <2>3. WgCounts' /\ ConnsTracked'
    BY <2>2, Zenon DEF IInv, TypeOK, WgCounts, ConnsTracked, Counted, Serving
  <2>4. DrainedMeansIdle' /\ CloseReachesAll'
    BY DEF IInv, TypeOK, DrainedMeansIdle, CloseReachesAll, Serving
  <2>5. StopInv'
    BY DEF IInv, TypeOK, StopInv, Serving
  <2> QED
    BY <2>1, <2>3, <2>4, <2>5 DEF IInv
<1>3. CASE SpawnHandler(l)
  <2> USE <1>3 DEF SpawnHandler
  <2> DEFINE c == sconn[l]
  <2>0. c \in Conns /\ cpc[c] = "accepted"
    BY DEF IInv, StopInv
  <2>1. TypeOK'
    BY <2>0 DEF IInv, TypeOK, HandlerPC
  <2>2. {d \in Conns : cpc'[d] \in Counted} = {d \in Conns : cpc[d] \in Counted}
    BY <2>0 DEF IInv, TypeOK, Counted, Serving
  <2>3. WgCounts' /\ ConnsTracked'
    BY <2>0, <2>2 DEF IInv, TypeOK, WgCounts, ConnsTracked, Counted, Serving
  <2>4. DrainedMeansIdle' /\ CloseReachesAll'
    BY <2>0 DEF IInv, TypeOK, DrainedMeansIdle, CloseReachesAll, Serving
  <2>5. StopInv'
    BY <2>0 DEF IInv, TypeOK, StopInv, Serving
  <2> QED
    BY <2>1, <2>3, <2>4, <2>5 DEF IInv
<1> QED
  BY <1>1, <1>2, <1>3 DEF Serve

(* The actions of a handler.                                               *)
LEMMA HandlerStepInv ==
  ASSUME IInv, NEW c \in Conns, Handler(c)
  PROVE  IInv'
<1> USE DEF Goto, handlerVars, serveVars, stopVars
<1>1. CASE Register(c)
  <2> USE <1>1 DEF Register
  <2>1. TypeOK'
    BY DEF IInv, TypeOK, HandlerPC, Counted
  <2>2. InWg' = InWg \cup {c} /\ c \notin InWg
    BY DEF IInv, TypeOK, InWg, Counted, Serving
  <2>3. Cardinality(InWg') = Cardinality(InWg) + 1
    BY <2>2, InWgFinite, FS_AddElement
  <2>4. WgCounts'
    BY <2>3, InWgFinite DEF IInv, WgCounts, InWg
  <2>5. ConnsTracked'
    BY DEF IInv, TypeOK, ConnsTracked, Counted
  <2>6. DrainedMeansIdle' /\ CloseReachesAll' /\ StopInv'
    BY DEF IInv, TypeOK, DrainedMeansIdle, CloseReachesAll, StopInv, Serving
  <2> QED
    BY <2>1, <2>4, <2>5, <2>6 DEF IInv
<1>2. CASE CheckClosing(c)
  <2>1. CASE closeCh
    BY <1>2, <2>1, MoveInv DEF CheckClosing, Counted, Serving
  <2>2. CASE ~closeCh
    BY <1>2, <2>2, MoveInv DEF CheckClosing, Counted, Serving
  <2> QED
    BY <2>1, <2>2
<1>3. CASE HandshakeDone(c)
  BY <1>3, MoveInv DEF HandshakeDone, Counted, Serving
<1>4. CASE HandshakeFailed(c)
  BY <1>4, MoveInv DEF HandshakeFailed, Counted, Serving
<1>5. CASE RequestRead(c)
  BY <1>5, MoveInv DEF RequestRead, Counted, Serving
<1>6. CASE ReadFailed(c)
  BY <1>6, MoveInv DEF ReadFailed, Counted, Serving
<1>7. CASE CheckClosingAfterRead(c)
  <2>1. CASE closeCh
    BY <1>7, <2>1, MoveInv DEF CheckClosingAfterRead, Counted, Serving
  <2>2. CASE ~closeCh
    BY <1>7, <2>2, MoveInv DEF CheckClosingAfterRead, Counted, Serving
  <2> QED
    BY <2>1, <2>2
<1>8. CASE StartWrite(c)
  <2>1. PICK w \in {"writeKeep", "writeClose", "writeTunnel"} : Move(c, "handling", w)
    BY <1>8 DEF StartWrite
  <2> QED
    BY <2>1, MoveInv DEF Counted, Serving
<1>9. CASE HandleReturned(c)
  <2>1. PICK to \in {"reading", "exit"} : Move(c, "handling", to)
    BY <1>9 DEF HandleReturned
  <2> QED
    BY <2>1, MoveInv DEF Counted, Serving
<1>10. CASE Written(c)
  BY <1>10, MoveInv DEF Written, Counted, Serving
<1>11. CASE WriteFailed(c)
  <2>1. PICK w \in {"writeKeep", "writeClose", "writeTunnel"} : Move(c, w, "exit")
    BY <1>11 DEF WriteFailed
  <2> QED
    BY <2>1, MoveInv DEF Counted, Serving
<1>12. CASE TunnelDone(c)
  BY <1>12, MoveInv DEF TunnelDone, Counted, Serving
<1>13. CASE CloseConn(c)
  <2> USE <1>13 DEF CloseConn
  <2>1. TypeOK'
    BY DEF IInv, TypeOK, HandlerPC, Counted
  <2>2. {d \in Conns : cpc'[d] \in Counted} = {d \in Conns : cpc[d] \in Counted}
    BY DEF IInv, TypeOK, Counted
  <2>3. WgCounts' /\ ConnsTracked'
    BY <2>2, Zenon DEF IInv, TypeOK, WgCounts, ConnsTracked, Counted
  <2>4. DrainedMeansIdle' /\ CloseReachesAll' /\ StopInv'
    BY DEF IInv, TypeOK, DrainedMeansIdle, CloseReachesAll, StopInv, Serving
  <2> QED
    BY <2>1, <2>3, <2>4 DEF IInv
<1>14. CASE LeaveWg(c)
  <2> USE <1>14 DEF LeaveWg
  <2>1. InWg' = InWg \ {c} /\ c \in InWg
    BY DEF IInv, TypeOK, InWg, Counted, Serving
  <2>2. Cardinality(InWg') = Cardinality(InWg) - 1
    BY <2>1, InWgFinite, FS_RemoveElement, SMTT(30)
  <2>3. WgCounts'
    BY <2>2, InWgFinite DEF IInv, WgCounts, InWg
  <2>4. connsWg' \in Nat
    <3>1. InWg # {}
      BY <2>1
    <3>2. Cardinality(InWg) # 0
      BY <3>1, InWgFinite, FS_EmptySet
    <3> QED
      BY <3>2, InWgFinite DEF IInv, WgCounts, InWg
  <2>5. TypeOK'
    BY <2>4 DEF IInv, TypeOK, HandlerPC
  <2>6. ConnsTracked'
    BY DEF IInv, TypeOK, ConnsTracked, Counted
  <2>7. DrainedMeansIdle' /\ CloseReachesAll' /\ StopInv'
    BY DEF IInv, TypeOK, DrainedMeansIdle, CloseReachesAll, StopInv, Serving
  <2> QED
    BY <2>3, <2>5, <2>6, <2>7 DEF IInv
<1>15. CASE Unregister(c)
  <2> USE <1>15 DEF Unregister
  <2>1. TypeOK'
    BY DEF IInv, TypeOK, HandlerPC
  <2>2. {d \in Conns : cpc'[d] \in Counted} = {d \in Conns : cpc[d] \in Counted}
    BY DEF IInv, TypeOK, Counted, Serving
  <2>3. WgCounts' /\ ConnsTracked'
    BY <2>2 DEF IInv, TypeOK, WgCounts, ConnsTracked, Counted, Serving
  <2>4. DrainedMeansIdle' /\ CloseReachesAll' /\ StopInv'
    BY DEF IInv, TypeOK, DrainedMeansIdle, CloseReachesAll, StopInv, Serving
  <2> QED
    BY <2>1, <2>3, <2>4 DEF IInv
<1> QED
  BY <1>1, <1>2, <1>3, <1>4, <1>5, <1>6, <1>7, <1>8, <1>9, <1>10, <1>11,
     <1>12, <1>13, <1>14, <1>15, SMTT(30) DEF Handler

(* The actions of Shutdown.  The one that matters: it returns nil only     *)
(* when connsWg is 0, and then no handler is counted.                      *)
LEMMA ShutdownStepInv ==
  ASSUME IInv, Shutdown
  PROVE  IInv'
<1> USE DEF handlerVars, ShutdownReturn
<1>1. TypeOK' /\ WgCounts' /\ ConnsTracked'
  <2>1. UNCHANGED <<conns, connsWg, cpc, sock, serveVars, cltodo, cl>>
    BY DEF Shutdown, ShutdownLock, ShutdownDrained, ShutdownBusy, ShutdownExpired, ShutdownTimer
  <2>2. /\ closeCh' \in BOOLEAN
        /\ connsMu' \in {"free", "shutdown", "close"}
        /\ sd' \in {"idle", "poll", "wait", "nil", "err"}
    BY Zenon DEF IInv, TypeOK, Shutdown, ShutdownLock, ShutdownDrained, ShutdownBusy,
           ShutdownExpired, ShutdownTimer
  <2> QED
    BY <2>1, <2>2, CallerInv DEF IInv, TypeOK
<1>2. DrainedMeansIdle'
  <2>1. CASE ShutdownDrained
    <3>1. InWg = {}
      BY <2>1, InWgFinite, FS_EmptySet DEF ShutdownDrained, IInv, WgCounts, InWg
    <3> QED
      BY <2>1, <3>1 DEF ShutdownDrained, DrainedMeansIdle, InWg, Counted
  <2>2. CASE ~ShutdownDrained
    BY <2>2 DEF IInv, DrainedMeansIdle, Shutdown, ShutdownLock, ShutdownBusy,
                ShutdownExpired, ShutdownTimer
  <2> QED
    BY <2>1, <2>2
<1>3. CloseReachesAll'
  BY DEF IInv, CloseReachesAll, Shutdown, ShutdownLock, ShutdownDrained, ShutdownBusy,
         ShutdownExpired, ShutdownTimer
<1>4. StopInv'
  BY DEF IInv, TypeOK, StopInv, Shutdown, ShutdownLock, ShutdownDrained, ShutdownBusy,
         ShutdownExpired, ShutdownTimer, serveVars
<1> QED
  BY <1>1, <1>2, <1>3, <1>4 DEF IInv

(* The actions of Close.  Every connection that is served when Close takes *)
(* the mutex is in its list, and none joins while it holds the mutex.      *)
LEMMA CloseStepInv ==
  ASSUME IInv, Close
  PROVE  IInv'
<1> USE DEF handlerVars, serveVars
<1>1. CASE CloseLock
  <2> USE <1>1 DEF CloseLock
  <2>1. TypeOK' /\ WgCounts' /\ ConnsTracked'
    BY CallerInv DEF IInv, TypeOK
  <2>2. DrainedMeansIdle' /\ CloseReachesAll'
    BY DEF IInv, DrainedMeansIdle, CloseReachesAll
  <2>3. StopInv'
    BY DEF IInv, TypeOK, StopInv, ConnsTracked, Counted
  <2> QED
    BY <2>1, <2>2, <2>3 DEF IInv
<1>2. ASSUME NEW c \in Conns, CloseOne(c)
      PROVE  IInv'
  <2> USE <1>2 DEF CloseOne
  <2>1. TypeOK' /\ WgCounts' /\ ConnsTracked'
    BY CallerInv DEF IInv, TypeOK
  <2>2. DrainedMeansIdle' /\ CloseReachesAll'
    BY DEF IInv, TypeOK, DrainedMeansIdle, CloseReachesAll
  <2>3. StopInv'
    BY DEF IInv, TypeOK, StopInv
  <2> QED
    BY <2>1, <2>2, <2>3, SMTT(30) DEF IInv
<1>3. CASE CloseReturn
  <2> USE <1>3 DEF CloseReturn
  <2>1. TypeOK' /\ WgCounts' /\ ConnsTracked'
    BY CallerInv DEF IInv, TypeOK
  <2>2. DrainedMeansIdle' /\ CloseReachesAll'
    BY DEF IInv, DrainedMeansIdle, CloseReachesAll, StopInv
  <2>3. StopInv'
    BY DEF IInv, TypeOK, StopInv
  <2> QED
    BY <2>1, <2>2, <2>3 DEF IInv
<1> QED
  BY <1>1, <1>2, <1>3 DEF Close

(* Every step of the proxy keeps the invariant: the closing check, the     *)
(* mutex and the order of the deferred calls do, on every interleaving.    *)
LEMMA ProxyStepInv ==
  ASSUME IInv, [Next]_vars
  PROVE  IInv'
<1>1. CASE \E c \in Conns : Handler(c)
  BY <1>1, HandlerStepInv
<1>2. CASE \E l \in Listeners : Serve(l) \/ CloseListener(l)
  BY <1>2, ServeStepInv
<1>3. CASE Shutdown
  BY <1>3, ShutdownStepInv
<1>4. CASE Close
  BY <1>4, CloseStepInv
<1>5. CASE UNCHANGED vars
  BY <1>5 DEF vars, handlerVars, serveVars, stopVars, IInv, TypeOK, WgCounts,
              ConnsTracked, DrainedMeansIdle, CloseReachesAll, StopInv
<1> QED
  BY <1>1, <1>2, <1>3, <1>4, <1>5 DEF Next, Stopped

(* IInv holds of every reachable state of the proxy.                       *)
THEOREM ProxyInvariant == Spec => []IInv
<1>1. Init => IInv
  BY InitInv
<1>2. IInv /\ [Next]_vars => IInv'
  BY ProxyStepInv
<1> QED
  BY <1>1, <1>2, PTL DEF Spec

(* The variables of the life cycle have their types; connsWg in particular *)
(* never goes below zero.                                                  *)
THEOREM ProxyTypes == Spec => []TypeOK
<1>1. IInv => TypeOK
  BY DEF IInv
<1> QED
  BY <1>1, ProxyInvariant, PTL

(* A nil result of Shutdown is truthful, then and ever after: no           *)
(* connection is being served (Shutdown, handleLoop).                      *)
THEOREM ShutdownNilMeansIdle == Spec => []DrainedMeansIdle
<1>1. IInv => DrainedMeansIdle
  BY DEF IInv
<1> QED
  BY <1>1, ProxyInvariant, PTL

(* Close leaves no connection open under a serving handler.                *)
THEOREM CloseCutsAll == Spec => []CloseReachesAll
<1>1. IInv => CloseReachesAll
  BY DEF IInv
<1> QED
  BY <1>1, ProxyInvariant, PTL

(* connsWg and conns agree with the handlers there are.                    *)
THEOREM BookkeepingExact == Spec => [](WgCounts /\ ConnsTracked)
<1>1. IInv => WgCounts /\ ConnsTracked
  BY DEF IInv
<1> QED
  BY <1>1, ProxyInvariant, PTL

-----------------------------------------------------------------------------
(* HTTPProxyRun implements Proxy: the invariants of Proxy hold here too,   *)
(* and with RunInv they give what run promises when it returns.            *)

(* Every step of run is a step of Proxy, or leaves the proxy alone.        *)
(* Closing a listener that is closed already changes nothing.              *)
LEMMA RunStepIsProxyStep ==
  ASSUME lopen \in [Listeners -> BOOLEAN], [RunNext]_allVars
  PROVE  [Next]_vars
<1>1. CASE CancelCtx \/ CtxDone \/ RunStopped \/ RunWait \/ RunOver \/ UNCHANGED allVars
  BY <1>1 DEF CancelCtx, CtxDone, RunStopped, RunWait, RunOver, allVars
<1>2. ASSUME NEW l \in Listeners, RunCloseListener(l)
      PROVE  [Next]_vars
  <2>1. CASE lopen[l]
    BY <1>2, <2>1, Zenon DEF RunCloseListener, CloseListener, Next
  <2>2. CASE ~lopen[l]
    <3>1. lopen' = lopen
      BY <1>2, <2>2 DEF RunCloseListener
    <3> QED
      BY <1>2, <3>1 DEF RunCloseListener, vars, serveVars
  <2> QED
    BY <2>1, <2>2
<1>3. ASSUME NEW l \in Listeners, RunServe(l)
      PROVE  [Next]_vars
  BY <1>3 DEF RunServe, Serve, Next
<1>4. ASSUME NEW c \in Conns, RunHandler(c)
      PROVE  [Next]_vars
  BY <1>4 DEF RunHandler, Next
<1>5. CASE RunShutdown \/ RunDraining
  BY <1>5 DEF RunShutdown, RunDraining, Shutdown, Next
<1>6. CASE RunClose \/ RunClosing
  BY <1>6 DEF RunClose, RunClosing, Close, Next
<1> QED
  BY <1>1, <1>2, <1>3, <1>4, <1>5, <1>6 DEF RunNext

(* The inductive step of Proxy's invariant, for the steps of run.          *)
LEMMA RunStepIInv ==
  ASSUME IInv, [RunNext]_allVars
  PROVE  [Next]_vars /\ IInv'
<1>1. [Next]_vars
  BY RunStepIsProxyStep DEF IInv, TypeOK
<1> QED
  BY <1>1, ProxyStepInv

(* RunInv is preserved, the types of the proxy's variables being so.       *)
LEMMA RunStepInv ==
  ASSUME TypeOK', RunInv, [RunNext]_allVars
  PROVE  RunInv'
<1> USE DEF RunInv, runVars, RunTypeOK
<1>1. CASE CancelCtx
  BY <1>1 DEF CancelCtx, vars, serveVars, stopVars
<1>2. CASE CtxDone
  BY <1>2 DEF CtxDone, vars, serveVars, stopVars
<1>3. ASSUME NEW l \in Listeners, RunCloseListener(l)
      PROVE  RunInv'
  BY <1>3, SMTT(30) DEF RunCloseListener, TypeOK, stopVars
<1>4. ASSUME NEW l \in Listeners, RunServe(l)
      PROVE  RunInv'
  BY <1>4, SMTT(30) DEF RunServe, ServeCheck, Accept, AcceptTemporary, BackoffOver, AcceptClosed,
              AcceptFailed, SpawnHandler, ServeReturn, GroupError, TypeOK, stopVars, Returned
<1>5. ASSUME NEW c \in Conns, RunHandler(c)
      PROVE  RunInv'
  <2>1. UNCHANGED <<serveVars, stopVars, runVars>>
    BY <1>5, SMTT(30) DEF RunHandler, Handler, Register, CheckClosing, HandshakeDone, HandshakeFailed,
                RequestRead, ReadFailed, CheckClosingAfterRead, StartWrite, HandleReturned,
                Written, WriteFailed, TunnelDone, CloseConn, LeaveWg, Unregister, Move
  <2> QED
    BY <2>1, SMTT(30) DEF serveVars, stopVars
<1>6. CASE RunShutdown
  BY <1>6 DEF RunShutdown, ShutdownLock, serveVars
<1>7. CASE RunDraining
  BY <1>7 DEF RunDraining, ShutdownDrained, ShutdownBusy, ShutdownExpired, ShutdownTimer,
              ShutdownReturn, serveVars
<1>8. CASE RunClose
  BY <1>8 DEF RunClose, CloseLock, serveVars
<1>9. CASE RunClosing
  BY <1>9 DEF RunClosing, CloseOne, CloseReturn, serveVars
<1>10. CASE RunStopped
  BY <1>10 DEF RunStopped, GroupError, vars, serveVars, stopVars
<1>11. CASE RunWait
  BY <1>11, Zenon DEF RunWait, vars, serveVars, stopVars
<1>12. CASE RunOver \/ UNCHANGED allVars
  BY <1>12 DEF RunOver, allVars, vars, serveVars, stopVars
<1> QED
  BY <1>1, <1>2, <1>3, <1>4, <1>5, <1>6, <1>7, <1>8, <1>9, <1>10, <1>11, <1>12, Zenon DEF RunNext

(* The two invariants hold of every reachable state of run.                *)
THEOREM RunInvariant == RunSpec => [](IInv /\ RunInv)
<1>1. RunInit => IInv /\ RunInv
  <2>1. RunInit => IInv
    BY InitInv DEF RunInit
  <2>2. RunInit => RunInv
    BY <2>1, Zenon DEF RunInit, RunInv, RunTypeOK, Init, IInv
  <2> QED
    BY <2>1, <2>2
<1>2. IInv /\ RunInv /\ [RunNext]_allVars => (IInv /\ RunInv)'
  BY RunStepIInv, RunStepInv DEF IInv
<1> QED
  BY <1>1, <1>2, PTL DEF RunSpec

(* HTTPProxy.run uses the proxy only in ways that module Proxy allows.     *)
THEOREM RunImplementsProxy == RunSpec => Spec
<1>1. RunInit => Init
  BY DEF RunInit
<1>2. IInv /\ [RunNext]_allVars => [Next]_vars
  BY RunStepIInv
<1> QED
  BY <1>1, <1>2, RunInvariant, PTL DEF RunSpec, Spec

(* run returns only when nothing is left open: by the drain if Shutdown    *)
(* returned nil, by Close otherwise.                                       *)
THEOREM RunReturnIsClean == RunSpec => []RunLeavesNothingOpen
<1>1. IInv /\ RunInv => RunLeavesNothingOpen
  BY DEF IInv, RunInv, DrainedMeansIdle, CloseReachesAll, RunLeavesNothingOpen
<1> QED
  BY <1>1, RunInvariant, PTL

(* hp.Close runs before proxy.Shutdown, so by then no listener is open and *)
(* Serve accepts nothing.                                                  *)
THEOREM NoAcceptAfterShutdown == RunSpec => NoAcceptWhileDraining
<1> DEFINE A == sd # "idle" => \A c \in Conns : cpc[c] = "none" => cpc'[c] = "none"
<1>1. IInv /\ RunInv /\ [RunNext]_allVars => [A]_allVars
  <2> SUFFICES ASSUME IInv, RunInv, [RunNext]_allVars, sd # "idle",
                      NEW c \in Conns, cpc[c] = "none"
               PROVE  cpc'[c] = "none"
    OBVIOUS
  <2>1. \A l \in Listeners : ~lopen[l]
    BY SMTT(30) DEF RunInv, RunTypeOK
  <2>2. ASSUME NEW l \in Listeners, RunServe(l)
        PROVE  cpc'[c] = "none"
    BY <2>1, <2>2, SMTT(30) DEF RunServe, ServeCheck, Accept, AcceptTemporary, BackoffOver, AcceptClosed,
                      AcceptFailed, SpawnHandler, handlerVars, IInv, TypeOK, StopInv
  <2>3. ASSUME NEW d \in Conns, RunHandler(d)
        PROVE  cpc'[c] = "none"
    BY <2>3 DEF RunHandler, Handler, Register, CheckClosing, HandshakeDone, HandshakeFailed,
                RequestRead, ReadFailed, CheckClosingAfterRead, StartWrite, HandleReturned,
                Written, WriteFailed, TunnelDone, CloseConn, LeaveWg, Unregister, Move, Goto,
                IInv, TypeOK
  <2>4. CASE CancelCtx \/ CtxDone \/ RunStopped \/ RunWait \/ RunOver \/ UNCHANGED allVars
    BY <2>4 DEF CancelCtx, CtxDone, RunStopped, RunWait, RunOver, allVars, vars, handlerVars
  <2>5. CASE RunShutdown \/ RunDraining
    BY <2>5 DEF RunShutdown, RunDraining, ShutdownLock, ShutdownDrained, ShutdownBusy,
                ShutdownExpired, ShutdownTimer, ShutdownReturn, handlerVars
  <2>6. CASE RunClose \/ RunClosing
    BY <2>6 DEF RunClose, RunClosing, CloseLock, CloseOne, CloseReturn, handlerVars
  <2>7. ASSUME NEW l \in Listeners, RunCloseListener(l)
        PROVE  cpc'[c] = "none"
    BY <2>7 DEF RunCloseListener, handlerVars
  <2> QED
    BY <2>2, <2>3, <2>4, <2>5, <2>6, <2>7 DEF RunNext
<1> QED
  BY <1>1, RunInvariant, PTL DEF RunSpec, NoAcceptWhileDraining

-----------------------------------------------------------------------------
AllTrailers == UNION {e.trailers : e \in Exchanges}
WireType == [body : Seq(Bytes), flushed : Nat, trailers : SUBSET AllTrailers,
             end : {"none", "aborted", "tunnel", "complete"}]

(* The client has what was copied; patternFlushWriter knows the last byte, *)
(* and has flushed every pattern among those copied; a response is given   *)
(* an end once, and traced with it.                                        *)
Copied ==
  /\ copied \in 0 .. Len(Body) /\ wire.body = SubSeq(Body, 1, copied)
  /\ copied > 0 => last = Body[copied]
  /\ Streams => \A i \in 1 .. copied - 1 :
       Body[i] = Pattern[1] /\ Body[i + 1] = Pattern[2] => wire.flushed >= i + 1

Ended ==
  /\ hpc \notin {"copy", "unwind", "done"} => copied = 0
  /\ wire.end # "none" => hpc \in {"unwind", "done"}
  /\ hpc = "serve" => hgauge = 0
  /\ hpc \in {"modify", "upstream", "header", "copy", "hijack"} => hgauge = 1
  /\ wire.end = "complete" =>
       /\ copied = Len(Body) /\ hgauge = 0
       /\ reading = "upstream" => ~ex.fails /\ wire.trailers = ex.trailers
  /\ hpc = "done" => ~hup /\ ~reqBody

HandlerInv ==
  /\ ex \in Exchanges /\ reading \in {"upstream", "own"} /\ wire \in WireType
  /\ Copied /\ Ended

LEMMA BodyType ==
  ASSUME ex \in Exchanges
  PROVE  Body \in Seq(Bytes) /\ Len(Body) \in Nat /\ DOMAIN Body = 1 .. Len(Body)
<1>1. <<"r">> \in Seq(Bytes) /\ ex.body \in Seq(Bytes)
  BY HandlerAssumption DEF Bytes
<1>2. Body \in Seq(Bytes)
  BY <1>1 DEF Body
<1> QED BY <1>2, LenProperties

(* The first n of the bytes of q, for any n.                               *)
LEMMA FirstBytes ==
  ASSUME NEW q \in Seq(Bytes), NEW n \in 0 .. Len(q)
  PROVE  /\ SubSeq(q, 1, n) \in Seq(Bytes) /\ Len(SubSeq(q, 1, n)) = n
         /\ \A i \in 1 .. n : SubSeq(q, 1, n)[i] = q[i]
<1>1. Len(q) \in Nat /\ \A i \in 1 .. n : q[i] \in Bytes
  BY ElementOfSeq, LenProperties
<1>2. /\ SubSeq(q, 1, n) \in Seq(Bytes)
      /\ Len(SubSeq(q, 1, n)) = (IF 1 <= n THEN n - 1 + 1 ELSE 0)
      /\ \A i \in 1 .. n - 1 + 1 : SubSeq(q, 1, n)[i] = q[1 + i - 1]
  BY <1>1, SubSeqProperties, SMTT(30)
<1> QED BY <1>1, <1>2

(* Two bytes of q are the pattern.                                         *)
LEMMA PatternAt ==
  ASSUME NEW q \in Seq(Bytes), NEW i \in 1 .. Len(q) - 1
  PROVE  SubSeq(q, i, i + 1) = Pattern <=> q[i] = Pattern[1] /\ q[i + 1] = Pattern[2]
<1> DEFINE t == SubSeq(q, i, i + 1)
           a == Pattern[1]
           b == Pattern[2]
<1>1. Pattern = <<a, b>> /\ a \in Bytes /\ b \in Bytes
  BY DEF Pattern, Bytes
<1>2. Len(q) \in Nat /\ i \in Nat /\ i + 1 \in Nat /\ i + 1 <= Len(q) /\ i >= 1
  BY LenProperties
<1>3. \A k \in i .. i + 1 : q[k] \in Bytes
  BY <1>2, ElementOfSeq
<1>4. /\ t \in Seq(Bytes) /\ Len(t) = 2
      /\ \A k \in 1 .. 2 : t[k] = q[i + k - 1]
  <2>1. /\ t \in Seq(Bytes) /\ Len(t) = (IF i <= i + 1 THEN i + 1 - i + 1 ELSE 0)
        /\ \A k \in 1 .. i + 1 - i + 1 : t[k] = q[i + k - 1]
    BY <1>2, <1>3, SubSeqProperties
  <2> HIDE DEF t
  <2> QED BY <1>2, <2>1
<1> HIDE DEF t, a, b
<1>5. t[1] = q[i] /\ t[2] = q[i + 1]
  BY <1>2, <1>4
<1>6. <<a, b>> \in Seq(Bytes) /\ Len(<<a, b>>) = 2 /\ <<a, b>>[1] = a /\ <<a, b>>[2] = b
  BY <1>1
<1>7. t[1] = a /\ t[2] = b => t = <<a, b>>
  <2> SUFFICES ASSUME t[1] = a, t[2] = b PROVE t = <<a, b>>
    OBVIOUS
  <2>1. \A k \in 1 .. 2 : t[k] = <<a, b>>[k]
    BY <1>6
  <2> QED BY <1>4, <1>6, <2>1, SeqEqual
<1>8. t = <<a, b>> => t[1] = a /\ t[2] = b
  BY <1>6
<1> QED BY <1>1, <1>5, <1>7, <1>8, Zenon DEF t, a, b

(* Trailers are sent whether they were announced or not.                   *)
LEMMA TrailersSent ==
  ASSUME ex \in Exchanges, reading = "upstream"
  PROVE  SentTrailers = ex.trailers
<1> DEFINE A == ex.announced
           T == ex.trailers
<1>1. IsFiniteSet(A) /\ IsFiniteSet(T)
  BY HandlerAssumption
<1>2. CASE Cardinality(A \cup T) = Cardinality(A)
  <2>1. IsFiniteSet(A \cup T)
    BY <1>1, FS_Union, Zenon
  <2>2. A = A \cup T
    BY <1>2, <2>1, FS_Subset
  <2> QED BY <1>2, <2>2 DEF SentTrailers
<1>3. CASE Cardinality(A \cup T) # Cardinality(A)
  BY <1>3 DEF SentTrailers
<1> QED BY <1>2, <1>3

(* A Write of patternFlushWriter: what it completes is flushed.            *)
LEMMA CopySomeInv == ASSUME HandlerInv, CopySome PROVE HandlerInv'
<1> DEFINE B == Body
<1>1. PICK n \in copied + 1 .. Len(Body) :
        LET p == SubSeq(Body, copied + 1, n) IN
          /\ copied' = n /\ last' = p[Len(p)]
          /\ wire' = [wire EXCEPT !.body = @ \o p,
                                  !.flushed = IF Streams /\ Flushes(p) THEN n ELSE @]
  BY Zenon DEF CopySome
<1> DEFINE p == SubSeq(B, copied + 1, n)
           w == SubSeq(B, 1, copied)
           now == Streams /\ Flushes(p)
<1>2. /\ UNCHANGED <<ex, hpc, reading, hup, reqBody, client, hgauge>> /\ hpc = "copy"
      /\ Body' = B /\ Streams' = Streams /\ Pattern' = Pattern
  BY DEF CopySome, Body, Streams, Pattern
<1>3. /\ B \in Seq(Bytes) /\ Len(B) \in Nat /\ copied \in Nat /\ n \in Nat /\ copied < n /\ n <= Len(B)
      /\ copied \in 0 .. Len(B) /\ n \in 0 .. Len(B) /\ wire \in WireType /\ wire.body = w
      /\ wire.flushed \in Nat
  BY <1>1, BodyType, SMTT(30) DEF HandlerInv, Copied, WireType
<1>4. copied' = n /\ last' = p[Len(p)]
      /\ wire' = [wire EXCEPT !.body = w \o p, !.flushed = IF now THEN n ELSE wire.flushed]
  BY <1>1, <1>3
<1>5. B = Body
  OBVIOUS
<1> HIDE DEF B
<1>6. /\ p \in Seq(Bytes) /\ Len(p) = n - copied
      /\ \A i \in 1 .. n - copied : p[i] = B[copied + i]
  <2>1. \A i \in copied + 1 .. n : B[i] \in Bytes
    BY <1>3, ElementOfSeq
  <2>2. copied + 1 \in Int /\ n \in Int /\ copied + 1 <= n
    BY <1>3
  <2>3. /\ p \in Seq(Bytes) /\ Len(p) = n - (copied + 1) + 1
        /\ \A i \in 1 .. n - (copied + 1) + 1 : p[i] = B[copied + 1 + i - 1]
    BY <2>1, <2>2, SubSeqProperties
  <2>4. n - (copied + 1) + 1 = n - copied
    BY <1>3
  <2> HIDE DEF p
  <2>5. ASSUME NEW i \in 1 .. n - copied PROVE p[i] = B[copied + i]
    <3>1. copied + 1 + i - 1 = copied + i
      BY <1>3
    <3> QED BY <2>3, <2>4, <3>1
  <2> QED BY <2>3, <2>4, <2>5
<1>7. w \in Seq(Bytes) /\ Len(w) = copied /\ \A i \in 1 .. copied : w[i] = B[i]
  BY <1>3, FirstBytes
<1> HIDE DEF p, w, now
<1>8. w \o p \in Seq(Bytes) /\ w \o p = SubSeq(B, 1, n)
  <2>1. /\ w \o p \in Seq(Bytes) /\ Len(w \o p) = copied + (n - copied)
        /\ \A i \in 1 .. copied + (n - copied) :
             (w \o p)[i] = IF i <= copied THEN w[i] ELSE p[i - copied]
    <3>1. /\ w \o p \in Seq(Bytes) /\ Len(w \o p) = Len(w) + Len(p)
          /\ \A i \in 1 .. Len(w) + Len(p) :
               (w \o p)[i] = IF i <= Len(w) THEN w[i] ELSE p[i - Len(w)]
      BY <1>6, <1>7, ConcatProperties, Zenon
    <3>2. Len(w) = copied /\ Len(p) = n - copied
      BY <1>6, <1>7
    <3> QED BY <3>1, <3>2
  <2>2. copied + (n - copied) = n
    BY <1>3
  <2>3. SubSeq(B, 1, n) \in Seq(Bytes) /\ Len(SubSeq(B, 1, n)) = n
        /\ \A i \in 1 .. n : SubSeq(B, 1, n)[i] = B[i]
    BY <1>3, FirstBytes
  <2>4. \A i \in 1 .. n : (w \o p)[i] = B[i]
    <3> SUFFICES ASSUME NEW i \in 1 .. n PROVE (w \o p)[i] = B[i]
      BY Zenon
    <3>1. CASE i <= copied
      BY <1>3, <1>7, <2>1, <2>2, <3>1
    <3>2. CASE i > copied
      <4>1. i - copied \in 1 .. n - copied /\ copied + (i - copied) = i /\ ~(i <= copied)
        BY <1>3, <3>2
      <4> QED BY <1>6, <2>1, <2>2, <4>1
    <3>3. i <= copied \/ i > copied
      BY <1>3
    <3> QED BY <3>1, <3>2, <3>3, Zenon
  <2>5. Len(w \o p) = n
    BY <2>1, <2>2
  <2> QED BY <2>1, <2>3, <2>4, <2>5, SeqEqual, SMTT(30)
<1>9. /\ wire' \in WireType /\ wire'.body = SubSeq(B, 1, n) /\ wire'.end = wire.end
      /\ wire'.trailers = wire.trailers
      /\ wire'.flushed = IF now THEN n ELSE wire.flushed
  BY <1>3, <1>4, <1>8, Zenon DEF WireType
<1>10. last' = B[n]
  <2>1. n - copied \in 1 .. n - copied /\ copied + (n - copied) = n
    BY <1>3
  <2> QED BY <1>4, <1>6, <2>1
<1>11. ASSUME Streams, NEW i \in 1 .. n - 1, B[i] = Pattern[1], B[i + 1] = Pattern[2]
       PROVE  wire'.flushed >= i + 1
  <2>0. i \in Nat /\ i >= 1 /\ i + 1 <= n
    BY <1>3
  <2>1. CASE i < copied
    <3>1. wire.flushed >= i + 1
      BY <1>3, <1>5, <1>11, <2>0, <2>1 DEF HandlerInv, Copied
    <3> QED BY <1>3, <1>9, <2>0, <3>1, SMTT(30)
  <2>2. CASE i = copied
    <3>1. last = Pattern[1]
      BY <1>5, <1>11, <2>0, <2>2 DEF HandlerInv, Copied
    <3>2. p[1] = B[copied + 1]
      BY <1>3, <1>6
    <3>3. now
      BY <1>11, <2>2, <3>1, <3>2, SMTT(30) DEF now, Flushes
    <3> QED BY <1>3, <1>9, <2>0, <3>3
  <2>3. CASE i > copied
    <3> DEFINE k == i - copied
    <3>1. k \in 1 .. Len(p) - 1 /\ k \in 1 .. n - copied /\ k + 1 \in 1 .. n - copied
          /\ copied + k = i /\ copied + (k + 1) = i + 1
      BY <1>3, <1>6, <2>0, <2>3
    <3>2. p[k] = B[i] /\ p[k + 1] = B[i + 1]
      BY <1>6, <3>1
    <3> HIDE DEF k
    <3>3. SubSeq(p, k, k + 1) = Pattern
      BY <1>6, <1>11, <3>1, <3>2, PatternAt, SMTT(30)
    <3>4. now
      BY <1>11, <3>1, <3>3 DEF now, Flushes
    <3> QED BY <1>3, <1>9, <2>0, <3>4
  <2> QED BY <1>3, <2>0, <2>1, <2>2, <2>3, SMTT(30)
<1>12. Copied'
  BY <1>2, <1>3, <1>4, <1>9, <1>10, <1>11, SMTT(30) DEF Copied
<1>13. Ended'
  BY <1>2, <1>9 DEF HandlerInv, Ended
<1> QED BY <1>2, <1>9, <1>12, <1>13 DEF HandlerInv

(* The exchange is as it was, and so is what has been copied of it.        *)
LEMMA CopiedKept ==
  ASSUME HandlerInv, ex' = ex, reading' = reading, copied' = copied, last' = last,
         wire' \in WireType, wire'.body = wire.body, wire'.flushed = wire.flushed
  PROVE  ex' \in Exchanges /\ reading' \in {"upstream", "own"} /\ Copied' /\ Body' = Body
<1>1. Body' = Body /\ Streams' = Streams /\ Pattern' = Pattern
  BY DEF Body, Streams, Pattern
<1> QED BY <1>1 DEF HandlerInv, Copied

(* Nothing has been copied, of whichever body.                             *)
LEMMA NothingCopied ==
  ASSUME HandlerInv, copied = 0, ex' = ex, reading' \in {"upstream", "own"},
         copied' = copied, last' = last, wire' = wire
  PROVE  ex' \in Exchanges /\ Copied'
<1>1. ex' \in Exchanges
  BY DEF HandlerInv
<1>2. Body' \in Seq(Bytes) /\ Len(Body') \in Nat
  <2>1. <<"r">> \in Seq(Bytes) /\ ex'.body \in Seq(Bytes)
    BY <1>1, HandlerAssumption DEF Bytes
  <2>2. Body' \in Seq(Bytes)
    BY <2>1 DEF Body
  <2> QED BY <2>2, LenProperties
<1>3. SubSeq(Body, 1, 0) = <<>> /\ SubSeq(Body', 1, 0) = <<>>
  BY SubSeqEmpty
<1>4. wire.body = <<>>
  BY <1>3 DEF HandlerInv, Copied
<1> QED BY <1>1, <1>2, <1>3, <1>4 DEF Copied

LEMMA HandlerInvNext == HandlerInv /\ [HandlerNext]_exVars => HandlerInv'
<1> SUFFICES ASSUME HandlerInv, [HandlerNext]_exVars PROVE HandlerInv'
  OBVIOUS
<1>1. ASSUME ex' = ex, reading' = reading, copied' = copied, last' = last, wire' = wire, Ended'
      PROVE  HandlerInv'
  <2>1. wire' \in WireType
    BY <1>1 DEF HandlerInv
  <2> QED BY <1>1, <2>1, CopiedKept DEF HandlerInv
<1>2. ASSUME NEW e \in {"aborted", "tunnel"}, wire' = [wire EXCEPT !.end = e], hpc' = "unwind",
             ex' = ex, reading' = reading, copied' = copied, last' = last
      PROVE  HandlerInv'
  <2>1. /\ wire' \in WireType /\ wire'.body = wire.body /\ wire'.flushed = wire.flushed
        /\ wire'.end = e
    BY <1>2 DEF HandlerInv, WireType
  <2>2. Ended'
    BY <1>2, <2>1 DEF Ended
  <2> QED BY <1>2, <2>1, <2>2, CopiedKept DEF HandlerInv
<1>3. CASE ServeHTTP
  <2>1. Ended'
    BY <1>3 DEF ServeHTTP, HandlerInv, Ended
  <2> QED BY <1>1, <1>3, <2>1 DEF ServeHTTP
<1>4. CASE HModifyRequest \/ AskUpstream
  <2>1. /\ hpc \in {"modify", "upstream"} /\ hpc' \in {"upstream", "header", "hijack"}
        /\ reading' \in {"upstream", "own"}
        /\ UNCHANGED <<ex, copied, last, reqBody, client, hgauge, wire>>
    BY <1>4, Zenon DEF HModifyRequest, AskUpstream, WriteError, HandlerInv
  <2>2. copied = 0 /\ Ended'
    BY <2>1 DEF HandlerInv, Ended
  <2>3. ex' \in Exchanges /\ Copied'
    BY <2>1, <2>2, NothingCopied
  <2> QED BY <2>1, <2>2, <2>3 DEF HandlerInv
<1>5. CASE NotAConnection \/ TunnelFails
  BY <1>2, <1>5 DEF NotAConnection, TunnelFails, Unwind
<1>6. CASE TunnelRuns
  <2>1. Ended'
    BY <1>6 DEF TunnelRuns, HandlerInv, Ended
  <2> QED BY <1>1, <1>6, <2>1 DEF TunnelRuns
<1>7. CASE TunnelEnded
  BY <1>2, <1>7 DEF TunnelEnded, Unwind
<1>8. CASE WriteHeader
  <2>1. Ended'
    BY <1>8 DEF WriteHeader, HandlerInv, Ended
  <2> QED BY <1>1, <1>8, <2>1 DEF WriteHeader
<1>9. CASE CopySome
  BY <1>9, CopySomeInv
<1>10. CASE CopyFailed
  BY <1>2, <1>10 DEF CopyFailed, Unwind
<1>11. CASE CopyDone
  <2>1. /\ hpc = "copy" /\ copied = Len(Body) /\ ~Broken /\ hpc' = "unwind" /\ hgauge' = hgauge - 1
        /\ wire' = [wire EXCEPT !.end = "complete", !.trailers = SentTrailers]
        /\ UNCHANGED <<ex, reading, copied, last, reqBody, client>>
    BY <1>11 DEF CopyDone
  <2>2. SentTrailers \subseteq AllTrailers
    <3>1. ex \in Exchanges /\ reading \in {"upstream", "own"}
      BY DEF HandlerInv
    <3>2. CASE reading = "own"
      BY <3>2 DEF SentTrailers
    <3>3. CASE reading = "upstream"
      BY <3>1, <3>3, TrailersSent DEF AllTrailers
    <3> QED BY <3>1, <3>2, <3>3
  <2>3. /\ wire' \in WireType /\ wire'.body = wire.body /\ wire'.flushed = wire.flushed
        /\ wire'.end = "complete" /\ wire'.trailers = SentTrailers
    BY <2>1, <2>2, Zenon DEF HandlerInv, WireType
  <2>4. ex' \in Exchanges /\ reading' \in {"upstream", "own"} /\ Copied' /\ Body' = Body
    BY <2>1, <2>3, CopiedKept
  <2>5. hgauge' = 0
    BY <2>1 DEF HandlerInv, Ended
  <2>6. reading = "upstream" => ~ex.fails /\ SentTrailers = ex.trailers
    BY <2>1, TrailersSent DEF HandlerInv, Broken
  <2>7. Ended'
    BY <2>1, <2>3, <2>4, <2>5, <2>6, Zenon DEF Ended
  <2> QED BY <2>3, <2>4, <2>7 DEF HandlerInv
<1>12. CASE ServeReturns
  <2>1. Body' = Body
    BY <1>12 DEF ServeReturns, Body
  <2>2. Ended'
    BY <1>12, <2>1 DEF ServeReturns, HandlerInv, Ended
  <2> QED BY <1>1, <1>12, <2>2 DEF ServeReturns
<1>13. CASE ClientLeaves \/ HandlerOver \/ UNCHANGED exVars
  <2>1. UNCHANGED <<ex, hpc, reading, copied, last, hup, reqBody, hgauge, wire>>
    BY <1>13 DEF ClientLeaves, HandlerOver, exVars
  <2>2. Body' = Body
    BY <2>1 DEF Body
  <2>3. Ended'
    BY <2>1, <2>2 DEF HandlerInv, Ended
  <2> QED BY <1>1, <2>1, <2>3
<1> QED BY <1>3, <1>4, <1>5, <1>6, <1>7, <1>8, <1>9, <1>10, <1>11, <1>12, <1>13, SMTT(30) DEF HandlerNext

(* One call of ServeHTTP keeps its invariant, for every exchange.          *)
THEOREM HandlerInvariant == HandlerSpec => []HandlerInv
<1>1. HandlerInit => HandlerInv
  <2> SUFFICES ASSUME HandlerInit PROVE HandlerInv
    OBVIOUS
  <2>1. Len(Body) \in Nat /\ SubSeq(Body, 1, 0) = <<>>
    BY BodyType, SubSeqEmpty, SMTT(30) DEF HandlerInit
  <2>2. wire \in WireType /\ wire.body = <<>> /\ wire.end = "none"
    BY DEF HandlerInit, WireType
  <2>3. Copied
    BY <2>1, <2>2 DEF HandlerInit, Copied
  <2> QED BY <2>2, <2>3 DEF HandlerInit, HandlerInv, Ended
<1> QED BY <1>1, HandlerInvNext, PTL DEF HandlerSpec

(* ServeHTTP ends a response as a whole one only when the client was given *)
(* all of it, trailers included, and releases upstream whatever happens,   *)
(* for every exchange.                                                     *)
THEOREM HandlerWholeOrAborted == HandlerSpec => []WholeOrAborted
<1>1. HandlerInv => WholeOrAborted
  <2> SUFFICES ASSUME HandlerInv PROVE WholeOrAborted
    OBVIOUS
  <2>1. copied = Len(Body) => wire.body = Body
    BY BodyType, SubSeqFull DEF HandlerInv, Copied
  <2> QED BY <2>1 DEF HandlerInv, Ended, WholeOrAborted
<1> QED BY <1>1, HandlerInvariant, PTL

(* patternFlushWriter leaves no event or line unflushed, however the body  *)
(* is cut into writes, for bodies of any length.                           *)
THEOREM HandlerEventsFlushed == HandlerSpec => []EventsFlushed
<1>1. HandlerInv => EventsFlushed
  <2> SUFFICES ASSUME HandlerInv, Streams, NEW i \in 1 .. Len(wire.body) - 1,
                      SubSeq(wire.body, i, i + 1) = Pattern
               PROVE  wire.flushed >= i + 1
    BY DEF EventsFlushed
  <2>1. /\ Body \in Seq(Bytes) /\ Len(Body) \in Nat /\ copied \in 0 .. Len(Body)
        /\ wire.body = SubSeq(Body, 1, copied)
    BY BodyType DEF HandlerInv, Copied
  <2>2. wire.body \in Seq(Bytes) /\ Len(wire.body) = copied
        /\ \A k \in 1 .. copied : wire.body[k] = Body[k]
    BY <2>1, FirstBytes
  <2>3. i \in 1 .. copied - 1 /\ i \in 1 .. copied /\ i + 1 \in 1 .. copied
    BY <2>1, <2>2
  <2>4. Body[i] = Pattern[1] /\ Body[i + 1] = Pattern[2]
    BY <2>2, <2>3, PatternAt
  <2> QED BY <2>3, <2>4 DEF HandlerInv, Copied
<1> QED BY <1>1, HandlerInvariant, PTL

=============================================================================
