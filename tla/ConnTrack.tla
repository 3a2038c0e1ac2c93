----------------------------- MODULE ConnTrack -----------------------------
(***************************************************************************)
(* conntrack.Builder as Listener.Accept and Dialer.DialContext use it      *)
(* (conntrack/conntrack.go, net.go, net_metrics.go): every connection that *)
(* is accepted or dialled is counted in a gauge, and is wrapped so that    *)
(* the first Close gives the count back.                                   *)
(*                                                                         *)
(* A connection is closed by several goroutines: by the deferred Close of  *)
(* its handler, by Proxy.Close, by the TLS layer above it.                 *)
(***************************************************************************)
EXTENDS Integers, FiniteSets

CONSTANTS Conns,    \* connections, each opened once
          Closers   \* goroutines that call Close, as often as they like

ASSUME ConnTrackAssumption == IsFiniteSet(Conns)

VARIABLES under,    \* the underlying connection: "none", "open" or "closed"
          once,     \* closeListener.once: "fresh", "running" or "done"
          kpc,      \* where a call of Close is
          kconn,    \* the connection it closes
          active,   \* listener_cx_active, dialer_cx_active
          total     \* listener_cx_total, dialer_cx_total

trackVars == <<under, once, kpc, kconn, active, total>>

TrackTypeOK ==
  /\ under \in [Conns -> {"none", "open", "closed"}]
  /\ once \in [Conns -> {"fresh", "running", "done"}]
  /\ kpc \in [Closers -> {"idle", "close", "once", "onClose", "returned"}]
  /\ kconn \in [Closers -> Conns]
  /\ active \in Nat
  /\ total \in Nat

TrackInit ==
  /\ under = [c \in Conns |-> "none"]
  /\ once = [c \in Conns |-> "fresh"]
  /\ kpc = [k \in Closers |-> "idle"]
  /\ kconn \in [Closers -> Conns]
  /\ active = 0
  /\ total = 0

(* Accept or a dial succeeded: metrics.accept (or dial), then Build.  No   *)
(* one else has the connection yet.                                        *)
Open(c) ==
  /\ under[c] = "none"
  /\ under' = [under EXCEPT ![c] = "open"]
  /\ active' = active + 1
  /\ total' = total + 1
  /\ UNCHANGED <<once, kpc, kconn>>

(* Someone who has the connection calls Close.                             *)
CallClose(k, c) ==
  /\ kpc[k] = "idle"
  /\ under[c] # "none"
  /\ kpc' = [kpc EXCEPT ![k] = "close"]
  /\ kconn' = [kconn EXCEPT ![k] = c]
  /\ UNCHANGED <<under, once, active, total>>

(* Mutant: the callback comes first.                                       *)
CloseUnderlyingLater(k) ==
  /\ kpc[k] = "close"
  /\ kpc' = [kpc EXCEPT ![k] = "once"]
  /\ UNCHANGED <<under, once, kconn, active, total>>

(* err := c.close()                                                        *)
CloseUnderlying(k) ==
  /\ kpc[k] = "close"
  /\ kpc' = [kpc EXCEPT ![k] = "once"]
  /\ under' = [under EXCEPT ![kconn[k]] = "closed"]
  /\ UNCHANGED <<once, kconn, active, total>>

(* Mutant: every Close calls onClose.                                      *)
OnceFirstAlways(k) ==
  /\ kpc[k] = "once"
  /\ once' = [once EXCEPT ![kconn[k]] = "running"]
  /\ kpc' = [kpc EXCEPT ![k] = "onClose"]
  /\ UNCHANGED <<under, kconn, active, total>>

(* c.once.Do(c.onClose): the first caller runs the function,               *)
OnceFirst(k) ==
  /\ kpc[k] = "once"
  /\ once[kconn[k]] = "fresh"
  /\ once' = [once EXCEPT ![kconn[k]] = "running"]
  /\ kpc' = [kpc EXCEPT ![k] = "onClose"]
  /\ UNCHANGED <<under, kconn, active, total>>

(* the others wait until it has run.                                       *)
OnceOther(k) ==
  /\ kpc[k] = "once"
  /\ once[kconn[k]] = "done"
  /\ kpc' = [kpc EXCEPT ![k] = "returned"]
  /\ UNCHANGED <<under, once, kconn, active, total>>

(* metrics.close()                                                         *)
OnClose(k) ==
  /\ kpc[k] = "onClose"
  /\ active' = active - 1
  /\ once' = [once EXCEPT ![kconn[k]] = "done"]
  /\ kpc' = [kpc EXCEPT ![k] = "returned"]
  /\ UNCHANGED <<under, kconn, total>>

CloseReturned(k) ==
  /\ kpc[k] = "returned"
  /\ kpc' = [kpc EXCEPT ![k] = "idle"]
  /\ UNCHANGED <<under, once, kconn, active, total>>

CloseStep(k) ==
  CloseUnderlying(k) \/ OnceFirst(k) \/ OnceOther(k) \/ OnClose(k) \/ CloseReturned(k)

TrackNext ==
  \/ \E c \in Conns : Open(c)
  \/ \E k \in Closers : CloseStep(k) \/ \E c \in Conns : CallClose(k, c)

TrackSpec == TrackInit /\ [][TrackNext]_trackVars

(* A Close that has been called takes its steps.                           *)
TrackFairSpec == TrackSpec /\ \A k \in Closers : WF_trackVars(CloseStep(k))

-----------------------------------------------------------------------------
(* "OnClose is called after the underlying connection is closed and before *)
(* the Close method returns", for every caller of Close and not only the   *)
(* one that runs it (doc of Builder.OnClose).                              *)
OnCloseInsideClose ==
  /\ \A c \in Conns : once[c] # "fresh" => under[c] = "closed"
  /\ \A k \in Closers : kpc[k] = "returned" => once[kconn[k]] = "done"

(* The gauge is the number of connections that are open or still being     *)
(* closed, however often and by however many goroutines they are closed:   *)
(* "OnClose is called at most once".                                       *)
Uncounted(c) == under[c] = "none" \/ once[c] = "done"

ActiveExact ==
  /\ active = Cardinality({c \in Conns : ~Uncounted(c)})
  /\ total = Cardinality({c \in Conns : under[c] # "none"})

(* The one goroutine inside once.Do is the one that will end it, and Close *)
(* is only called on a connection that was opened.                         *)
OnceInv ==
  /\ \A c \in Conns : under[c] = "none" => once[c] = "fresh"
  /\ \A k \in Closers : kpc[k] # "idle" => under[kconn[k]] # "none"
  /\ \A k \in Closers : kpc[k] \in {"once", "onClose"} => under[kconn[k]] = "closed"
  /\ \A k \in Closers : kpc[k] = "onClose" => once[kconn[k]] = "running"
  /\ \A j, k \in Closers : j # k /\ kpc[j] = "onClose" /\ kpc[k] = "onClose"
                             => kconn[j] # kconn[k]

(* The inductive invariant.                                                *)
TrackInv == TrackTypeOK /\ OnCloseInsideClose /\ ActiveExact /\ OnceInv

(* Every Close returns: a caller that waits in once.Do is not left there.  *)
CloseReturns == \A k \in Closers : kpc[k] = "close" ~> kpc[k] = "idle"

=============================================================================
