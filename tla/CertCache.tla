----------------------------- MODULE CertCache -----------------------------
(* internal/martian/mitm: the certificates made up for intercepted hosts.  *)
(* Every handshake asks its Config for one; the cache is shared and        *)
(* forgets, the certificates expire, and nothing stops two handshakes from *)
(* making one for the same host at once.                                   *)
EXTENDS Integers

CONSTANTS
  Handshakes,    \* TLS handshakes with intercepted clients
  HostNames,     \* host names, without port
  CacheTTL,      \* MITMConfig.CacheTTL
  Validity,      \* MITMConfig.Validity, to either side of the moment
  CAExpires,     \* the NotAfter of the certificate of the authority
  LastMoment     \* bound on the clock

ASSUME CertAssumption ==
  Validity \in Int /\ Validity > 0 /\ CacheTTL \in Int /\ CAExpires \in Int /\ LastMoment \in Int

VARIABLES
  moment,   \* the clock
  certs,    \* the cache: per host the certificate and when it was added, or <<>>
  shake     \* per handshake: [pc, connect, sni, key, cert, began]

certVars == <<moment, certs, shake>>

NoCert == <<>>
Cached == {h \in HostNames : certs[h] # NoCert}

CertInit ==
  /\ moment = 0
  /\ certs = [h \in HostNames |-> NoCert]
  /\ \E connect \in [Handshakes -> HostNames], sni \in [Handshakes -> HostNames \cup {""}] :
       shake = [s \in Handshakes |->
                  [pc |-> "idle", connect |-> connect[s], sni |-> sni[s],
                   key |-> "", cert |-> NoCert, began |-> 0]]

PassTime ==
  /\ moment < LastMoment
  /\ moment' = moment + 1
  /\ UNCHANGED <<certs, shake>>

(* TLSForHost's GetCertificate: the name in the ClientHello, or else the   *)
(* host of the CONNECT, whose port cert strips.                            *)
GetCertificate(s) ==
  /\ shake[s].pc = "idle"
  /\ shake' = [shake EXCEPT ![s] = [@ EXCEPT !.pc = "get", !.began = moment,
       !.key = IF shake[s].sni = "" THEN shake[s].connect ELSE shake[s].sni]]
  /\ UNCHANGED <<moment, certs>>

(* cert, c.certs.Get: an entry older than the TTL is none. *)
CacheGet(s) ==
  /\ shake[s].pc = "get"
  /\ LET e == certs[shake[s].key]
         hit == e # NoCert /\ moment < e.added + CacheTTL
     IN shake' = [shake EXCEPT ![s] = [@ EXCEPT !.pc = IF hit THEN "verify" ELSE "make",
                                             !.cert = IF hit THEN e.cert ELSE NoCert]]
  /\ UNCHANGED <<moment, certs>>

(* Leaf.Verify: the host, the certificate's time and that of its root. *)
Verifies(c, host) ==
  c.host = host /\ c.from <= moment /\ moment <= c.to /\ moment <= CAExpires

(* Mutant: a cached certificate is used as it is. *)
CacheVerifyTrusting(s) ==
  /\ shake[s].pc = "verify"
  /\ shake' = [shake EXCEPT ![s].pc = "served"]
  /\ UNCHANGED <<moment, certs>>

CacheVerify(s) ==
  /\ shake[s].pc = "verify"
  /\ shake' = [shake EXCEPT ![s] = [@ EXCEPT !.pc =
       IF Verifies(shake[s].cert, shake[s].key) THEN "served" ELSE "make"]]
  /\ UNCHANGED <<moment, certs>>

(* The new certificate, whatever the state of its authority. *)
MakeCert(s) ==
  /\ shake[s].pc = "make"
  /\ shake' = [shake EXCEPT ![s] = [@ EXCEPT !.pc = "add",
       !.cert = [host |-> shake[s].key,
                 from |-> moment - Validity, to |-> moment + Validity]]]
  /\ UNCHANGED <<moment, certs>>

(* No randomness, no signature: the handshake fails, the cache is as it was. *)
MakeFails(s) ==
  /\ shake[s].pc = "make"
  /\ shake' = [shake EXCEPT ![s] = [@ EXCEPT !.pc = "failed", !.cert = NoCert]]
  /\ UNCHANGED <<moment, certs>>

(* c.certs.Add replaces the host's entry, or adds it; for a new one it may *)
(* evict another, which depends on the shards the keys hash to.            *)
CacheAdd(s) ==
  /\ shake[s].pc = "add"
  /\ LET key == shake[s].key
     IN \E out \in {{}} \cup IF key \in Cached THEN {} ELSE {{h} : h \in Cached} :
          certs' = [h \in HostNames |->
            IF h = key THEN [cert |-> shake[s].cert, added |-> moment]
            ELSE IF h \in out THEN NoCert ELSE certs[h]]
  /\ shake' = [shake EXCEPT ![s] = [@ EXCEPT !.pc = "served"]]
  /\ UNCHANGED moment

CertNext ==
  \/ PassTime
  \/ \E s \in Handshakes :
       \/ GetCertificate(s) \/ CacheGet(s) \/ CacheVerify(s)
       \/ MakeCert(s) \/ MakeFails(s) \/ CacheAdd(s)

CertSpec == CertInit /\ [][CertNext]_certVars

-----------------------------------------------------------------------------
(* CertServed (mitm.Config.cert, internal/martian/mitm/mitm.go:240): the   *)
(* certificate a handshake is given is for the host its client named, or   *)
(* else for the one it asked to be connected to, and was in force at some  *)
(* moment since the handshake began, whatever the cache held, evicted or   *)
(* had replaced meanwhile.                                                 *)
CertServed ==
  \A s \in Handshakes : shake[s].pc = "served" =>
    /\ shake[s].cert.host = IF shake[s].sni = "" THEN shake[s].connect ELSE shake[s].sni
    /\ shake[s].cert.from <= moment /\ shake[s].cert.to >= shake[s].began

=============================================================================
