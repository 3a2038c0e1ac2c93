------------------------------- MODULE Net -------------------------------
(* net.go and net_metrics.go: the dialer that every outgoing connection is *)
(* made with (redirect, retry, per-host metrics, OnClose) and the set of   *)
(* listeners a proxy opens together (all of them or none), with their      *)
(* metrics.  Dials and accepted connections run concurrently; the metrics  *)
(* they share outlive them.  A connection that is closed more than once is *)
(* ConnTrack's business: here it is closed once.                           *)
EXTENDS Integers, Sequences, FiniteSets, FiniteSetsExt

CONSTANTS
  Dials,          \* calls of Dialer.DialContext
  Wanted,         \* the addresses they may ask for: [host, port]
  NoPort,         \* the port of an address net.SplitHostPort refuses
  Loopback,       \* the hosts addr2Host folds into "localhost"
  Redirects,      \* the --connect-to list: a sequence of [src, dst], "" wild
  Attempts,       \* DialRetryConfig.Attempts
  ListenerNames,  \* the names in ListenerConfigs, in order
  Peers,          \* connections the listeners may accept
  MaxAcceptErrors \* bound on failing Accepts

ASSUME NetAssumption ==
  /\ IsFiniteSet(Dials) /\ IsFiniteSet(Peers)
  /\ Attempts \in Nat /\ MaxAcceptErrors \in Nat
  /\ Len(ListenerNames) \in Nat /\ DOMAIN ListenerNames = 1 .. Len(ListenerNames)

VARIABLES
  dial,       \* per dial: [pc, want, track, addr, tries, cancelled]
  netCount,   \* dialerMetrics: [retries, errors, dialed, active], per host label
  listened,   \* MultiListener.Listen: the number of listeners opened so far,
              \* "failed" or "all" in lpc
  lpc,
  bound,      \* per listener: "new", "bound", "closed"
  peer,       \* per connection: the listener that accepted it, 0 before
  peerOpen,   \* and whether it is still open
  lisCount    \* listenerMetrics: [errors, accepted, active], per name

dialerVars == <<dial, netCount>>
listenVars == <<listened, lpc, bound, peer, peerOpen, lisCount>>
netVars == <<dialerVars, listenVars>>

-----------------------------------------------------------------------------
(* DialRedirectFromHostPortPairs: the first pair that matches, whose empty *)
(* destination fields keep what was asked for.                             *)
Matches(pair, a) ==
  /\ pair.src.host \in {"", a.host}
  /\ pair.src.port \in {"", a.port}

Redirect(a) ==
  LET hits == {i \in DOMAIN Redirects : Matches(Redirects[i], a)}
      dst == Redirects[Min(hits)].dst
  IN IF a.port = NoPort \/ hits = {} THEN a
     ELSE [host |-> IF dst.host = "" THEN a.host ELSE dst.host,
           port |-> IF dst.port = "" THEN a.port ELSE dst.port]

addr2Host(a) ==
  IF a.port = NoPort THEN "unknown"
  ELSE IF a.host \in Loopback THEN "localhost" ELSE a.host

Labels == {addr2Host(a) : a \in Wanted} \cup {addr2Host(Redirect(a)) : a \in Wanted}

Plus(count, l) == [count EXCEPT ![l] = @ + 1]
Minus(count, l) == [count EXCEPT ![l] = @ - 1]
Inc(metric, a) == [netCount EXCEPT ![metric] = Plus(netCount[metric], addr2Host(a))]

(* dialContext makes at least one attempt. *)
attempts == IF Attempts = 0 THEN 1 ELSE Attempts

DialerInit ==
  /\ \E want \in [Dials -> Wanted], track \in [Dials -> BOOLEAN] :
       dial = [d \in Dials |-> [pc |-> "idle", want |-> want[d], track |-> track[d],
                                addr |-> want[d], tries |-> 0, cancelled |-> FALSE]]
  /\ netCount = [m \in {"retries", "errors", "dialed", "active"} |-> [l \in Labels |-> 0]]

DialContext(d) ==
  /\ dial[d].pc = "idle"
  /\ dial' = [dial EXCEPT ![d] = [dial[d] EXCEPT !.pc = "dialing", !.tries = 1,
                                                 !.addr = Redirect(dial[d].want)]]
  /\ UNCHANGED netCount

(* The caller's context ends: its deadline passed, or its client left. *)
Cancel(d) ==
  /\ dial[d].pc \in {"dialing", "backoff"} /\ ~dial[d].cancelled
  /\ dial' = [dial EXCEPT ![d] = [dial[d] EXCEPT !.cancelled = TRUE]]
  /\ UNCHANGED netCount

(* net.Dialer connects, which it does for no context that is over. *)
Connects(d) ==
  /\ dial[d].pc = "dialing"
  /\ ~dial[d].cancelled /\ dial[d].addr.port # NoPort
  /\ dial' = [dial EXCEPT ![d] = [dial[d] EXCEPT !.pc = "connected"]]
  /\ UNCHANGED netCount

(* An attempt fails: the next one follows a sleep, whatever the context. *)
AttemptFails(d) ==
  /\ dial[d].pc = "dialing"
  /\ dial' = [dial EXCEPT ![d] = [dial[d] EXCEPT
                             !.pc = IF dial[d].tries < attempts THEN "backoff" ELSE "refused"]]
  /\ UNCHANGED netCount

Retry(d) ==
  /\ dial[d].pc = "backoff"
  /\ dial' = [dial EXCEPT ![d] = [dial[d] EXCEPT !.pc = "dialing", !.tries = dial[d].tries + 1]]
  /\ netCount' = Inc("retries", dial[d].addr)

(* DialContext after dialContext: an untracked dial is in no metric. *)
DialReturns(d) ==
  /\ dial[d].pc \in {"connected", "refused"}
  /\ dial' = [dial EXCEPT ![d] = [dial[d] EXCEPT
                             !.pc = IF dial[d].pc = "connected" THEN "open" ELSE "error"]]
  /\ netCount' =
       IF ~dial[d].track THEN netCount
       ELSE LET l == addr2Host(dial[d].addr) IN
            IF dial[d].pc = "refused" THEN Inc("errors", dial[d].addr)
            ELSE [netCount EXCEPT !["dialed"] = Plus(netCount.dialed, l),
                                  !["active"] = Plus(netCount.active, l)]

(* Mutant: OnClose captures the address that was asked for. *)
CloseConnWanted(d) ==
  /\ dial[d].pc = "open"
  /\ dial' = [dial EXCEPT ![d] = [dial[d] EXCEPT !.pc = "closed"]]
  /\ netCount' = IF ~dial[d].track THEN netCount
                 ELSE [netCount EXCEPT !["active"] = Minus(netCount.active, addr2Host(dial[d].want))]

(* The OnClose closure of DialContext, with the address it dialed. *)
CloseConn(d) ==
  /\ dial[d].pc = "open"
  /\ dial' = [dial EXCEPT ![d] = [dial[d] EXCEPT !.pc = "closed"]]
  /\ netCount' = IF ~dial[d].track THEN netCount
                 ELSE [netCount EXCEPT !["active"] = Minus(netCount.active, addr2Host(dial[d].addr))]

DialerNext ==
  \E d \in Dials :
    \/ DialContext(d) \/ Cancel(d) \/ Connects(d) \/ AttemptFails(d)
    \/ Retry(d) \/ DialReturns(d) \/ CloseConn(d)

-----------------------------------------------------------------------------
ListenerIds == DOMAIN ListenerNames

NameLabels == {ListenerNames[i] : i \in ListenerIds}

ListenInit ==
  /\ listened = 0 /\ lpc = "opening"
  /\ bound = [i \in ListenerIds |-> "new"]
  /\ peer = [c \in Peers |-> 0] /\ peerOpen = [c \in Peers |-> FALSE]
  /\ lisCount = [m \in {"errors", "accepted", "active"} |-> [n \in NameLabels |-> 0]]

(* MultiListener.Listen: the next listener binds its address. *)
Binds ==
  /\ lpc = "opening" /\ listened < Len(ListenerNames)
  /\ bound' = [bound EXCEPT ![listened + 1] = "bound"]
  /\ listened' = listened + 1
  /\ UNCHANGED <<lpc, peer, peerOpen, lisCount>>

(* It does not (the address is taken): those opened so far are closed. *)
BindFails ==
  /\ lpc = "opening" /\ listened < Len(ListenerNames)
  /\ lpc' = "failed"
  /\ bound' = [i \in ListenerIds |-> IF i <= listened THEN "closed" ELSE bound[i]]
  /\ UNCHANGED <<listened, peer, peerOpen, lisCount>>

ListenReturns ==
  /\ lpc = "opening" /\ listened = Len(ListenerNames)
  /\ lpc' = "all"
  /\ UNCHANGED <<listened, bound, peer, peerOpen, lisCount>>

(* Listener.Accept; the kernel completes connections while Listen still    *)
(* opens the others, but nothing accepts them before it returned.          *)
Accept(i, c) ==
  /\ lpc = "all" /\ bound[i] = "bound" /\ peer[c] = 0
  /\ peer' = [peer EXCEPT ![c] = i]
  /\ peerOpen' = [peerOpen EXCEPT ![c] = TRUE]
  /\ lisCount' = LET n == ListenerNames[i] IN
       [lisCount EXCEPT !["accepted"] = Plus(lisCount.accepted, n),
                        !["active"] = Plus(lisCount.active, n)]
  /\ UNCHANGED <<listened, lpc, bound>>

(* A failing Accept counts, the one that reports the closed listener too. *)
AcceptFails(i) ==
  /\ lpc = "all" /\ lisCount.errors[ListenerNames[i]] < MaxAcceptErrors
  /\ lisCount' = [lisCount EXCEPT !["errors"] = Plus(lisCount.errors, ListenerNames[i])]
  /\ UNCHANGED <<listened, lpc, bound, peer, peerOpen>>

CloseListener(i) ==
  /\ lpc = "all" /\ bound[i] = "bound"
  /\ bound' = [bound EXCEPT ![i] = "closed"]
  /\ UNCHANGED <<listened, lpc, peer, peerOpen, lisCount>>

(* The OnClose of an accepted connection, which may outlive its listener. *)
ClosePeer(c) ==
  /\ peerOpen[c]
  /\ peerOpen' = [peerOpen EXCEPT ![c] = FALSE]
  /\ lisCount' = [lisCount EXCEPT !["active"] = Minus(lisCount.active, ListenerNames[peer[c]])]
  /\ UNCHANGED <<listened, lpc, bound, peer>>

ListenNext ==
  \/ Binds \/ BindFails \/ ListenReturns
  \/ \E i \in ListenerIds : AcceptFails(i) \/ CloseListener(i) \/ \E c \in Peers : Accept(i, c)
  \/ \E c \in Peers : ClosePeer(c)

NetNext ==
  \/ DialerNext /\ UNCHANGED listenVars
  \/ ListenNext /\ UNCHANGED dialerVars

NetSpec == DialerInit /\ ListenInit /\ [][NetNext]_netVars

-----------------------------------------------------------------------------
DialsAt(l, pcs) == {d \in Dials : addr2Host(dial[d].addr) = l /\ dial[d].pc \in pcs}
Tracked(l, pcs) == {d \in DialsAt(l, pcs) : dial[d].track}

(* The attempts after the first, of any dial to a host.                    *)
Retried(l) ==
  {a \in Dials \X (1 .. attempts) : addr2Host(dial[a[1]].addr) = l /\ a[2] < dial[a[1]].tries}

(* DialsAccounted (Dialer.DialContext, net.go:144, and dialerMetrics): at  *)
(* any moment, however dials, retries, cancellations and closes interleave,*)
(* and whichever host a redirect led to, a host's gauge counts its open    *)
(* tracked connections, its counters the tracked dials that succeeded and  *)
(* failed, and its retries every attempt but the first of each dial; no    *)
(* dial makes more attempts than configured.                               *)
DialsAccounted ==
  /\ \A d \in Dials : dial[d].tries <= attempts
  /\ \A l \in Labels :
       /\ netCount.active[l] = Cardinality(Tracked(l, {"open"}))
       /\ netCount.dialed[l] = Cardinality(Tracked(l, {"open", "closed"}))
       /\ netCount.errors[l] = Cardinality(Tracked(l, {"error"}))
       /\ netCount.retries[l] = Cardinality(Retried(l))

(* ListenersAccounted (MultiListener.Listen, net.go:245, Listener.Accept): *)
(* when Listen fails, none of the listeners it opened stays open; when it  *)
(* returned them, the gauge of a name counts the connections accepted      *)
(* under it that are open, also those that outlive their listener.         *)
ListenersAccounted ==
  /\ lpc = "failed" => \A i \in ListenerIds : bound[i] # "bound"
  /\ \A n \in NameLabels :
       lisCount.active[n] =
         Cardinality({c \in Peers : peerOpen[c] /\ ListenerNames[peer[c]] = n})

(* What the metrics say of connections is true at any moment, whichever    *)
(* way they were opened: DialsAccounted and ListenersAccounted.            *)
NetAccounted == DialsAccounted /\ ListenersAccounted

=============================================================================
