--------------------------- MODULE PipelineProofs ---------------------------
(* What the modifiers and the middlewares do to a request and to what      *)
(* answers it, for any configuration, any lists of rules and any message,  *)
(* and what happens when it comes back to the proxy.                       *)
EXTENDS Pipeline, WellFoundedInduction, TLAPS

(* A set of naturals has a least one.                                      *)
LEMMA LeastOne ==
  ASSUME NEW T \in SUBSET Nat, T # {}
  PROVE  \E i \in T : \A j \in T : i <= j
<1>1. PICK i \in T : \A j \in T : ~(<<j, i>> \in OpToRel(<, Nat))
  BY NatLessThanWellFounded, WFMin, Zenon
<1>2. \A j \in T : ~(j < i)
  BY <1>1, Zenon DEF OpToRel
<1> QED BY <1>2

(* Modify is the run of its modifiers, one after the other.                *)
Runs(c, mods, m, f) ==
  /\ f[0] = Ok(m)
  /\ \A i \in 1 .. Len(mods) : f[i] = ModifyNext(c, mods[i], f[i - 1])

LEMMA ModifyRuns ==
  ASSUME NEW c, NEW mods, Len(mods) \in Nat, NEW m
  PROVE  \E f : Runs(c, mods, m, f) /\ Modify(c, mods, m) = f[Len(mods)]
<1> DEFINE Upto(n, g) == g = [i \in 0 .. n |->
                           IF i = 0 THEN Ok(m) ELSE ModifyNext(c, mods[i], g[i - 1])]
           T == {n \in Nat : ~\E g : Upto(n, g)}
<1>1. T = {}
  <2> SUFFICES ASSUME T # {} PROVE FALSE
    OBVIOUS
  <2>1. PICK n \in T : \A j \in T : n <= j
    BY LeastOne, Zenon
  <2>2. n # 0
    <3>1. Upto(0, [i \in 0 .. 0 |-> Ok(m)])
      OBVIOUS
    <3> QED BY <3>1, Zenon
  <2>3. n \in Nat /\ n - 1 \in Nat /\ n - 1 \notin T
    BY <2>1, <2>2, SMTT(30)
  <2>4. PICK g : Upto(n - 1, g)
    BY <2>3
  <2> DEFINE h == [i \in 0 .. n |-> IF i = n THEN ModifyNext(c, mods[n], g[n - 1]) ELSE g[i]]
  <2>5. ASSUME NEW i \in 0 .. n
        PROVE  h[i] = IF i = 0 THEN Ok(m) ELSE ModifyNext(c, mods[i], h[i - 1])
    <3>1. CASE i = 0
      BY <2>2, <2>3, <2>4, <3>1
    <3>2. CASE i = n
      <4>1. h[n - 1] = g[n - 1]
        BY <2>2, <2>3
      <4> QED BY <2>2, <2>3, <3>2, <4>1
    <3>3. CASE i # 0 /\ i # n
      <4>1. i \in 0 .. n - 1 /\ i - 1 \in 0 .. n - 1 /\ i - 1 \in 0 .. n /\ i - 1 # n
        BY <2>3, <3>3
      <4>2. h[i - 1] = g[i - 1] /\ h[i] = g[i]
        BY <3>3, <4>1
      <4>3. g[i] = ModifyNext(c, mods[i], g[i - 1])
        BY <2>4, <3>3, <4>1
      <4> QED BY <3>3, <4>2, <4>3
    <3> QED BY <3>1, <3>2, <3>3
  <2>6. Upto(n, h)
    BY <2>5
  <2> QED BY <2>1, <2>6, Zenon
<1>2. PICK g : Upto(Len(mods), g)
  BY <1>1
<1>3. PICK f : Upto(Len(mods), f) /\ Modify(c, mods, m) = f[Len(mods)]
  BY <1>2, Zenon DEF Modify
<1>4. Runs(c, mods, m, f)
  BY <1>3 DEF Runs
<1> QED BY <1>3, <1>4

(* So is ApplyRules that of its rules.                                     *)
RulesRuns(h, rules, f) ==
  f[0] = h /\ \A i \in 1 .. Len(rules) : f[i] = ApplyRule(f[i - 1], rules[i])

LEMMA RulesRun ==
  ASSUME NEW h, NEW rules, Len(rules) \in Nat
  PROVE  \E f : RulesRuns(h, rules, f) /\ ApplyRules(h, rules) = f[Len(rules)]
<1> DEFINE Upto(n, g) == g = [i \in 0 .. n |->
                           IF i = 0 THEN h ELSE ApplyRule(g[i - 1], rules[i])]
           T == {n \in Nat : ~\E g : Upto(n, g)}
<1>1. T = {}
  <2> SUFFICES ASSUME T # {} PROVE FALSE
    OBVIOUS
  <2>1. PICK n \in T : \A j \in T : n <= j
    BY LeastOne, Zenon
  <2>2. n # 0
    <3>1. Upto(0, [i \in 0 .. 0 |-> h])
      OBVIOUS
    <3> QED BY <3>1, Zenon
  <2>3. n \in Nat /\ n - 1 \in Nat /\ n - 1 \notin T
    BY <2>1, <2>2, SMTT(30)
  <2>4. PICK g : Upto(n - 1, g)
    BY <2>3
  <2> DEFINE k == [i \in 0 .. n |-> IF i = n THEN ApplyRule(g[n - 1], rules[n]) ELSE g[i]]
  <2>5. ASSUME NEW i \in 0 .. n
        PROVE  k[i] = IF i = 0 THEN h ELSE ApplyRule(k[i - 1], rules[i])
    <3>1. CASE i = 0
      BY <2>2, <2>3, <2>4, <3>1
    <3>2. CASE i = n
      <4>1. k[n - 1] = g[n - 1]
        BY <2>2, <2>3
      <4> QED BY <2>2, <2>3, <3>2, <4>1
    <3>3. CASE i # 0 /\ i # n
      <4>1. i \in 0 .. n - 1 /\ i - 1 \in 0 .. n - 1 /\ i - 1 \in 0 .. n /\ i - 1 # n
        BY <2>3, <3>3
      <4>2. k[i - 1] = g[i - 1] /\ k[i] = g[i]
        BY <3>3, <4>1
      <4>3. g[i] = ApplyRule(g[i - 1], rules[i])
        BY <2>4, <3>3, <4>1
      <4> QED BY <3>3, <4>2, <4>3
    <3> QED BY <3>1, <3>2, <3>3
  <2>6. Upto(n, k)
    BY <2>5
  <2> QED BY <2>1, <2>6, Zenon
<1>2. PICK g : Upto(Len(rules), g)
  BY <1>1
<1>3. PICK f : Upto(Len(rules), f) /\ ApplyRules(h, rules) = f[Len(rules)]
  BY <1>2, Zenon DEF ApplyRules
<1> QED BY <1>3 DEF RulesRuns

-----------------------------------------------------------------------------
(* The checks of a configuration, basic auth first.                        *)
LEMMA ChecksAre ==
  ASSUME NEW c
  PROVE  /\ Checks(c) \in Seq({"basicAuth", "denyLocalhost", "denyDomains"})
         /\ c.basicAuth => Len(Checks(c)) > 0 /\ Checks(c)[1] = "basicAuth"
         /\ \A i \in 1 .. Len(Checks(c)) : Checks(c)[i] = "basicAuth" => c.basicAuth
         /\ c.localhost = "deny" => \E i \in 1 .. Len(Checks(c)) : Checks(c)[i] = "denyLocalhost"
         /\ c.denied # {} => \E i \in 1 .. Len(Checks(c)) : Checks(c)[i] = "denyDomains"
<1> DEFINE a == IF c.basicAuth THEN <<"basicAuth">> ELSE <<>>
           l == IF c.localhost = "deny" THEN <<"denyLocalhost">> ELSE <<>>
           d == IF c.denied # {} THEN <<"denyDomains">> ELSE <<>>
           N == {"basicAuth", "denyLocalhost", "denyDomains"}
<1>1. a \in Seq(N) /\ l \in Seq(N) /\ d \in Seq(N)
  <2>1. <<>> \in Seq(N)
    OBVIOUS
  <2>2. <<"basicAuth">> \in Seq(N) /\ <<"denyLocalhost">> \in Seq(N) /\ <<"denyDomains">> \in Seq(N)
    OBVIOUS
  <2> QED BY <2>1, <2>2, Zenon
<1>2. /\ c.basicAuth => Len(a) = 1 /\ a[1] = "basicAuth"
      /\ ~c.basicAuth => Len(a) = 0
      /\ c.localhost = "deny" => Len(l) = 1 /\ l[1] = "denyLocalhost"
      /\ c.denied # {} => Len(d) = 1 /\ d[1] = "denyDomains"
      /\ Len(l) \in {0, 1} /\ Len(d) \in {0, 1}
      /\ Len(l) = 1 => l[1] = "denyLocalhost"
      /\ Len(d) = 1 => d[1] = "denyDomains"
  <2>1. /\ c.basicAuth => Len(a) = 1 /\ a[1] = "basicAuth"
        /\ ~c.basicAuth => Len(a) = 0
    OBVIOUS
  <2>2. /\ c.localhost = "deny" => Len(l) = 1 /\ l[1] = "denyLocalhost"
        /\ c.localhost # "deny" => Len(l) = 0
    OBVIOUS
  <2>3. /\ c.denied # {} => Len(d) = 1 /\ d[1] = "denyDomains"
        /\ c.denied = {} => Len(d) = 0
    OBVIOUS
  <2> HIDE DEF a, l, d
  <2> QED BY <2>1, <2>2, <2>3
<1>3. Checks(c) = (a \o l) \o d
  BY DEF Checks
<1> HIDE DEF a, l, d
<1>4. /\ a \o l \in Seq(N) /\ Len(a \o l) = Len(a) + Len(l)
      /\ \A i \in 1 .. Len(a) : (a \o l)[i] = a[i]
      /\ \A i \in 1 .. Len(l) : (a \o l)[Len(a) + i] = l[i]
  BY <1>1
<1> DEFINE b == a \o l
<1> HIDE DEF b
<1>5. /\ Checks(c) \in Seq(N) /\ Len(Checks(c)) = Len(b) + Len(d)
      /\ \A i \in 1 .. Len(b) : Checks(c)[i] = b[i]
      /\ \A i \in 1 .. Len(d) : Checks(c)[Len(b) + i] = d[i]
  BY <1>1, <1>3, <1>4 DEF b
<1>6. c.basicAuth => Len(Checks(c)) > 0 /\ Checks(c)[1] = "basicAuth"
  BY <1>1, <1>2, <1>4, <1>5 DEF b
<1>7. ASSUME NEW i \in 1 .. Len(Checks(c)), Checks(c)[i] = "basicAuth", ~c.basicAuth
      PROVE  FALSE
  <2>1. Len(a) = 0 /\ Len(l) \in {0, 1} /\ Len(d) \in {0, 1} /\ Len(b) = Len(l)
    BY <1>1, <1>2, <1>4, <1>7 DEF b
  <2>2. CASE i <= Len(b)
    <3>1. i = 1 /\ Len(l) = 1 /\ Checks(c)[i] = b[1]
      BY <1>5, <2>1, <2>2
    <3>2. b[1] = l[1]
      BY <1>4, <2>1, <3>1 DEF b
    <3> QED BY <1>2, <1>7, <3>1, <3>2
  <2>3. CASE i > Len(b)
    <3>1. i = Len(b) + 1 /\ Len(d) = 1
      BY <1>5, <2>1, <2>3
    <3>2. Checks(c)[i] = d[1]
      BY <1>5, <2>1, <3>1
    <3> QED BY <1>2, <1>7, <3>1, <3>2
  <2> QED BY <1>5, <2>1, <2>2, <2>3
<1>8. ASSUME c.localhost = "deny"
      PROVE  \E i \in 1 .. Len(Checks(c)) : Checks(c)[i] = "denyLocalhost"
  <2>1. Len(l) = 1 /\ l[1] = "denyLocalhost" /\ Len(a) \in Nat /\ Len(d) \in Nat
    BY <1>1, <1>2, <1>8
  <2>2. Len(a) + 1 \in 1 .. Len(b) /\ b[Len(a) + 1] = l[1]
    BY <1>4, <2>1 DEF b
  <2>3. Len(a) + 1 \in 1 .. Len(Checks(c)) /\ Checks(c)[Len(a) + 1] = "denyLocalhost"
    BY <1>4, <1>5, <2>1, <2>2 DEF b
  <2> QED BY <2>3
<1>9. ASSUME c.denied # {}
      PROVE  \E i \in 1 .. Len(Checks(c)) : Checks(c)[i] = "denyDomains"
  <2>1. Len(d) = 1 /\ d[1] = "denyDomains" /\ Len(b) \in Nat
    BY <1>1, <1>2, <1>4, <1>9 DEF b
  <2>2. Len(b) + 1 \in 1 .. Len(Checks(c)) /\ Checks(c)[Len(b) + 1] = "denyDomains"
    BY <1>5, <2>1
  <2> QED BY <2>2
<1> QED BY <1>5, <1>6, <1>7, <1>8, <1>9

(* The stack runs them, and then the modifiers of httpspec and of fg.      *)
LEMMA StackIs ==
  ASSUME NEW c
  PROVE  LET n == Len(Checks(c))
             s == MiddlewareStack(c)
         IN
         /\ n \in Nat /\ Len(s) = n + 7
         /\ \A i \in 1 .. n : s[i] = Checks(c)[i]
         /\ s[n + 1] = "hopByHop" /\ s[n + 2] = "forwarded" /\ s[n + 3] = "framing"
         /\ s[n + 4] = "via" /\ s[n + 5] = "rules" /\ s[n + 6] = "setBasicAuth"
         /\ s[n + 7] = "setEmptyUserAgent"
<1> DEFINE n == Len(Checks(c))
           s == MiddlewareStack(c)
<1> DEFINE N == {"basicAuth", "denyLocalhost", "denyDomains", "hopByHop", "forwarded", "framing",
                 "via", "rules", "setBasicAuth", "setEmptyUserAgent"}
<1>1. Checks(c) \in Seq(N) /\ n \in Nat
  BY ChecksAre
<1>2. /\ Stack \in Seq(N) /\ Len(Stack) = 7
      /\ Stack[1] = "hopByHop" /\ Stack[2] = "forwarded" /\ Stack[3] = "framing"
      /\ Stack[4] = "via" /\ Stack[5] = "rules" /\ Stack[6] = "setBasicAuth"
      /\ Stack[7] = "setEmptyUserAgent"
  BY DEF Stack, RequestStack, ToImmutable
<1>3. s = Checks(c) \o Stack
  <2>1. Checks(c) \o Stack \in Seq(N)
    BY <1>1, <1>2
  <2> QED BY <2>1 DEF MiddlewareStack, ToImmutable
<1> DEFINE t == Stack
           b == Checks(c)
<1>4. /\ n + 7 = Len(b) + Len(t) /\ b \in Seq(N) /\ t \in Seq(N) /\ s = b \o t
      /\ n = Len(b)
  BY <1>1, <1>2, <1>3
<1> HIDE DEF t, b, N, n, s
<1>5. /\ Len(s) = n + 7
      /\ \A i \in 1 .. n : s[i] = b[i]
      /\ \A i \in 1 .. 7 : s[n + i] = t[i]
  <2>1. Len(t) = 7
    BY <1>2 DEF t
  <2>2. b \in Seq(N) /\ t \in Seq(N) /\ s = b \o t /\ n = Len(b)
    BY <1>4
  <2>3. /\ Len(s) = Len(b) + Len(t)
        /\ \A i \in 1 .. Len(b) : s[i] = b[i]
        /\ \A i \in 1 .. Len(t) : s[Len(b) + i] = t[i]
    BY <2>2
  <2> QED BY <2>1, <2>2, <2>3, Zenon
<1>6. /\ t[1] = "hopByHop" /\ t[2] = "forwarded" /\ t[3] = "framing" /\ t[4] = "via"
      /\ t[5] = "rules" /\ t[6] = "setBasicAuth" /\ t[7] = "setEmptyUserAgent"
  BY <1>2 DEF t
<1>7. 1 \in 1 .. 7 /\ 2 \in 1 .. 7 /\ 3 \in 1 .. 7 /\ 4 \in 1 .. 7 /\ 5 \in 1 .. 7
      /\ 6 \in 1 .. 7 /\ 7 \in 1 .. 7
  OBVIOUS
<1> QED BY <1>1, <1>5, <1>6, <1>7, Zenon DEF n, s, b
-----------------------------------------------------------------------------
(* The error of the checks, and what the modifiers leave of the way a      *)
(* request has come.                                                       *)
GuardError(c, m) == IF c.basicAuth /\ ~AuthenticatedRequest(m) THEN "auth" ELSE "deny"

ViaHas(h, tag) ==
  "Via" \in DOMAIN h /\ h["Via"] \in ViaLines /\ \E k \in DOMAIN h["Via"][1] : h["Via"][1][k] = tag

ForThisHop(h) == HopByHopHeaders \cup Elements(Lines(h, "Connection"))

(* Of the headers for the client's hop, a message m has those the proxy    *)
(* adds and, when it has come back, what the one before authenticated with.*)
HopsLeft(c, f, m, back) ==
  \A n \in DOMAIN m.hdr : n \in ForThisHop(f.hdr) =>
    n \in AddedBy(c, f) \/ (back /\ n = "Proxy-Authorization")

(* The tag is in the first line of a Via that Connection does not list.    *)
Tagged(h, tag) ==
  ViaHas(h, tag) /\ Elements(Lines(h, "Connection")) \subseteq {"Upgrade"}

(* The invariant.  A request that has been forwarded was permitted, has    *)
(* lost the headers for the client's hop, and is tagged while the rules    *)
(* leave Via alone.                                                        *)
PipeInv ==
  /\ cfg \in PipeConfigs /\ first \in PipeRequests
  /\ where \in {"received", "forwarded", "answered"} /\ forwards \in 0 .. 2
  /\ where # "answered" => IsRequest(msg) /\ msg.method = first.method
  /\ where = "received" => forwards <= 1 /\ (forwards = 0 => msg = first)
  /\ where = "forwarded" => forwards > 0
  /\ forwards > 0 => Permitted(cfg, first)
  /\ forwards > 0 /\ where # "answered" => HopsLeft(cfg, first, msg, where = "received")
  /\ KeepsVia(Rules(cfg, first)) =>
       forwards <= 1 /\ (forwards = 1 /\ where # "answered" => Tagged(msg.hdr, cfg.tag))
  /\ GuardsFirst /\ HopHeadersStay

(* Each name of the stack stands for its modifier.                         *)
LEMMA OneIs ==
  ASSUME NEW c, NEW m
  PROVE  /\ ModifyOne(c, "basicAuth", m) =
              IF AuthenticatedRequest(m) THEN Ok(m) ELSE Failed(m, "auth")
         /\ ModifyOne(c, "denyLocalhost", m) =
              IF IsLocalhost(m.url.host) THEN Failed(m, "deny") ELSE Ok(m)
         /\ ModifyOne(c, "denyDomains", m) =
              IF m.url.host \in c.denied THEN Failed(m, "deny") ELSE Ok(m)
         /\ ModifyOne(c, "hopByHop", m) = HopByHop(m)
         /\ ModifyOne(c, "forwarded", m) = Forwarded(m)
         /\ ModifyOne(c, "framing", m) = BadFraming(m)
         /\ ModifyOne(c, "via", m) = Via(m, c.tag)
         /\ ModifyOne(c, "rules", m) = WithHdr(m, ApplyRules(m.hdr, Rules(c, m)))
         /\ ModifyOne(c, "setBasicAuth", m) = WithHdr(m, SetBasicAuth(c, m))
         /\ ModifyOne(c, "setEmptyUserAgent", m) = WithHdr(m, SetEmptyUserAgent(m.hdr))
         /\ ModifyOne(c, "responseRules", m) = WithHdr(m, ApplyRules(m.hdr, c.responseRules))
         /\ ModifyOne(c, "none", m) = Ok(m)
BY SMT DEF ModifyOne

(* The checks leave the message as it is; the error is that of basic auth  *)
(* if it fails; and without an error the request is permitted.             *)
LEMMA GuardsRun ==
  ASSUME NEW c, NEW m, NEW f, Runs(c, MiddlewareStack(c), m, f),
         NEW n, n = Len(Checks(c))
  PROVE  /\ n \in Nat
         /\ f[n] = Failed(m, GuardError(c, m)) \/ (f[n] = Ok(m) /\ Permitted(c, m))
<1> DEFINE ch == Checks(c)
           e == GuardError(c, m)
           P(i) == /\ f[i] = Ok(m) \/ f[i] = Failed(m, e)
                   /\ i > 0 /\ e = "auth" => f[i] = Failed(m, e)
                   /\ f[i] = Ok(m) => \A j \in 1 .. i : ModifyOne(c, ch[j], m) = Ok(m)
           T == {i \in Nat : i <= n /\ ~P(i)}
<1>1. /\ n \in Nat /\ n = Len(ch)
      /\ Len(MiddlewareStack(c)) = n + 7
      /\ \A i \in 1 .. n : MiddlewareStack(c)[i] = ch[i]
  BY StackIs, Zenon
<1>2. /\ f[0] = Ok(m)
      /\ \A i \in 1 .. n : f[i] = ModifyNext(c, ch[i], f[i - 1])
  BY <1>1 DEF Runs
<1>3. e \in {"auth", "deny"} /\ Failed(m, e) # Ok(m) /\ Ok(m).err = NoErr /\ Ok(m).msg = m
      /\ Failed(m, e).err # NoErr
  BY DEF GuardError, Ok, Failed, NoErr
<1>4. ASSUME NEW j \in 1 .. n
      PROVE  /\ ch[j] \in {"basicAuth", "denyLocalhost", "denyDomains"}
             /\ ch[j] = "basicAuth" => c.basicAuth
             /\ c.basicAuth => ch[1] = "basicAuth"
  <2>1. /\ ch \in Seq({"basicAuth", "denyLocalhost", "denyDomains"})
        /\ c.basicAuth => ch[1] = "basicAuth"
        /\ \A i \in 1 .. Len(ch) : ch[i] = "basicAuth" => c.basicAuth
    BY ChecksAre, Zenon
  <2> HIDE DEF ch
  <2> QED BY <1>1, <2>1
<1>5. ASSUME NEW j \in 1 .. n
      PROVE  /\ ModifyOne(c, ch[j], m) \in {Ok(m), Failed(m, "auth"), Failed(m, "deny")}
             /\ ModifyOne(c, ch[j], m) = Failed(m, "auth") => e = "auth"
             /\ j = 1 /\ e = "auth" => ModifyOne(c, ch[j], m) = Failed(m, "auth")
  <2> HIDE DEF ch
  <2>0. Ok(m) # Failed(m, "auth") /\ Failed(m, "deny") # Failed(m, "auth")
    BY DEF Ok, Failed, NoErr
  <2>1. CASE ch[j] = "basicAuth"
    BY <1>4, <2>0, <2>1, OneIs, Zenon DEF GuardError
  <2>2. CASE ch[j] = "denyLocalhost"
    <3>1. ModifyOne(c, ch[j], m) \in {Ok(m), Failed(m, "deny")}
      BY <2>2, OneIs, Zenon
    <3>2. j = 1 => e # "auth"
      BY <1>4, <2>2 DEF GuardError
    <3> QED BY <2>0, <3>1, <3>2, Zenon
  <2>3. CASE ch[j] = "denyDomains"
    <3>1. ModifyOne(c, ch[j], m) \in {Ok(m), Failed(m, "deny")}
      BY <2>3, OneIs, ZenonT(40)
    <3>2. j = 1 => e # "auth"
      BY <1>4, <2>3 DEF GuardError
    <3> QED BY <2>0, <3>1, <3>2, Zenon
  <2> QED BY <1>4, <2>1, <2>2, <2>3, Zenon
<1>6. T = {}
  <2> SUFFICES ASSUME T # {} PROVE FALSE
    OBVIOUS
  <2>1. PICK i \in T : \A j \in T : i <= j
    BY LeastOne, Zenon
  <2>2. i \in Nat /\ i <= n /\ ~P(i)
    BY <2>1, Zenon
  <2> HIDE DEF ch, e
  <2>3. i # 0
    <3>1. P(0)
      BY <1>2
    <3> QED BY <2>2, <3>1
  <2>4. i - 1 \in Nat /\ i - 1 <= n /\ ~(i <= i - 1) /\ i \in 1 .. n
    BY <1>1, <2>2, <2>3
  <2>5. P(i - 1)
    BY <2>1, <2>4, Zenon
  <2>6. f[i] = ModifyNext(c, ch[i], f[i - 1])
    BY <1>2, <2>4
  <2>7. CASE f[i - 1] = Failed(m, e)
    <3>1. f[i] = Failed(m, e)
      BY <1>3, <2>6, <2>7 DEF ModifyNext
    <3> QED BY <1>3, <2>2, <3>1
  <2>8. CASE f[i - 1] = Ok(m)
    <3>1. f[i] = ModifyOne(c, ch[i], m)
      BY <1>3, <2>6, <2>8 DEF ModifyNext
    <3>2. i - 1 > 0 => e # "auth"
      BY <1>3, <2>5, <2>8
    <3>3. f[i] = Ok(m) \/ f[i] = Failed(m, e)
      BY <1>3, <1>5, <2>4, <3>1, <3>2
    <3>4. i > 0 /\ e = "auth" => f[i] = Failed(m, e)
      BY <1>5, <2>4, <3>1, <3>2
    <3>5. ASSUME f[i] = Ok(m), NEW j \in 1 .. i PROVE ModifyOne(c, ch[j], m) = Ok(m)
      <4>1. j = i \/ j \in 1 .. i - 1
        BY <2>4
      <4> QED BY <2>5, <2>8, <3>1, <3>5, <4>1, Zenon
    <3> QED BY <2>2, <3>3, <3>4, <3>5
  <2> QED BY <2>5, <2>7, <2>8
<1>7. P(n)
  BY <1>1, <1>6
<1>8. ASSUME f[n] = Ok(m) PROVE Permitted(c, m)
  <2>1. \A j \in 1 .. n : ModifyOne(c, ch[j], m) = Ok(m)
    BY <1>7, <1>8
  <2>2. Ok(m) # Failed(m, "auth") /\ Ok(m) # Failed(m, "deny")
    BY DEF Ok, Failed, NoErr
  <2>3. c.basicAuth => AuthenticatedRequest(m)
    <3>1. c.basicAuth => 1 \in 1 .. n /\ ch[1] = "basicAuth"
      <4>1. c.basicAuth => Len(ch) > 0 /\ ch[1] = "basicAuth"
        BY ChecksAre, Zenon
      <4> HIDE DEF ch
      <4> QED BY <1>1, <4>1
    <3> QED BY <2>1, <2>2, <3>1, OneIs, ZenonT(40)
  <2>4. c.localhost = "deny" => ~IsLocalhost(m.url.host)
    <3>1. c.localhost = "deny" => \E i \in 1 .. n : ch[i] = "denyLocalhost"
      BY <1>1, ChecksAre, Zenon
    <3> QED BY <2>1, <2>2, <3>1, OneIs, Zenon
  <2>5. m.url.host \notin c.denied
    <3> SUFFICES ASSUME m.url.host \in c.denied PROVE FALSE
      OBVIOUS
    <3>1. c.denied # {}
      OBVIOUS
    <3>2. \E i \in 1 .. n : ch[i] = "denyDomains"
      BY <1>1, <3>1, ChecksAre, Zenon
    <3> QED BY <2>1, <2>2, <3>2, OneIs, Zenon
  <2> QED BY <2>3, <2>4, <2>5 DEF Permitted
<1> QED BY <1>1, <1>7, <1>8

(* So a request is answered with the error of the checks as it came, or is *)
(* permitted and goes through the seven modifiers.                         *)
Passes(c, m, r) ==
  \E r1, r2, r3, r4, r5, r6 :
    /\ r1 = HopByHop(m)
    /\ r2 = ModifyNext(c, "forwarded", r1)
    /\ r3 = ModifyNext(c, "framing", r2)
    /\ r4 = ModifyNext(c, "via", r3)
    /\ r5 = ModifyNext(c, "rules", r4)
    /\ r6 = ModifyNext(c, "setBasicAuth", r5)
    /\ r = ModifyNext(c, "setEmptyUserAgent", r6)

LEMMA StackRuns ==
  ASSUME NEW c, NEW m, NEW r, r = Modify(c, MiddlewareStack(c), m)
  PROVE  r = Failed(m, GuardError(c, m)) \/ (Permitted(c, m) /\ Passes(c, m, r))
<1> DEFINE n == Len(Checks(c))
           s == MiddlewareStack(c)
<1>1. /\ n \in Nat /\ Len(s) = n + 7
      /\ s[n + 1] = "hopByHop" /\ s[n + 2] = "forwarded" /\ s[n + 3] = "framing"
      /\ s[n + 4] = "via" /\ s[n + 5] = "rules" /\ s[n + 6] = "setBasicAuth"
      /\ s[n + 7] = "setEmptyUserAgent"
  BY StackIs, Zenon
<1>2. Len(s) \in Nat
  <2> HIDE DEF n, s
  <2> QED BY <1>1
<1>3. PICK f : Runs(c, s, m, f) /\ Modify(c, s, m) = f[Len(s)]
  BY <1>2, ModifyRuns
<1>4. f[n] = Failed(m, GuardError(c, m)) \/ (f[n] = Ok(m) /\ Permitted(c, m))
  BY <1>3, GuardsRun, Zenon
<1> HIDE DEF n, s
<1>5. \A i \in 1 .. n + 7 : f[i] = ModifyNext(c, s[i], f[i - 1])
  BY <1>1, <1>3 DEF Runs
<1>6. /\ f[n + 1] = ModifyNext(c, "hopByHop", f[n])
      /\ f[n + 2] = ModifyNext(c, "forwarded", f[n + 1])
      /\ f[n + 3] = ModifyNext(c, "framing", f[n + 2])
      /\ f[n + 4] = ModifyNext(c, "via", f[n + 3])
      /\ f[n + 5] = ModifyNext(c, "rules", f[n + 4])
      /\ f[n + 6] = ModifyNext(c, "setBasicAuth", f[n + 5])
      /\ f[n + 7] = ModifyNext(c, "setEmptyUserAgent", f[n + 6])
  <2>1. /\ n + 1 \in 1 .. n + 7 /\ n + 2 \in 1 .. n + 7 /\ n + 3 \in 1 .. n + 7
        /\ n + 4 \in 1 .. n + 7 /\ n + 5 \in 1 .. n + 7 /\ n + 6 \in 1 .. n + 7
        /\ n + 7 \in 1 .. n + 7
        /\ (n + 1) - 1 = n /\ (n + 2) - 1 = n + 1 /\ (n + 3) - 1 = n + 2 /\ (n + 4) - 1 = n + 3
        /\ (n + 5) - 1 = n + 4 /\ (n + 6) - 1 = n + 5 /\ (n + 7) - 1 = n + 6
    BY <1>1
  <2>2. \A i \in 1 .. n + 7 : \A j, name : i - 1 = j /\ s[i] = name =>
          f[i] = ModifyNext(c, name, f[j])
    BY <1>5, Zenon
  <2> QED BY <1>1, <2>1, <2>2, ZenonT(40)
<1>7. r = f[n + 7]
  BY <1>1, <1>3 DEF s
<1>8. CASE f[n] = Failed(m, GuardError(c, m))
  <2>1. f[n].err # NoErr
    BY <1>8 DEF Failed, GuardError, NoErr
  <2>2. \A name, q : q.err # NoErr => ModifyNext(c, name, q) = q
    BY DEF ModifyNext
  <2>3. f[n + 1] = f[n] /\ f[n + 2] = f[n + 1] /\ f[n + 3] = f[n + 2] /\ f[n + 4] = f[n + 3]
    BY <1>6, <2>1, <2>2
  <2>4. f[n + 5] = f[n] /\ f[n + 6] = f[n] /\ f[n + 7] = f[n]
    BY <1>6, <2>1, <2>2, <2>3
  <2> QED BY <1>7, <1>8, <2>4
<1>9. CASE f[n] = Ok(m) /\ Permitted(c, m)
  <2>1. f[n + 1] = HopByHop(m)
    <3>1. f[n].err = NoErr /\ f[n].msg = m
      BY <1>9, SMTT(30) DEF Ok
    <3>2. f[n + 1] = ModifyOne(c, "hopByHop", m)
      BY <1>6, <3>1, Zenon DEF ModifyNext
    <3>3. ModifyOne(c, "hopByHop", m) = HopByHop(m)
      BY SMT DEF ModifyOne
    <3> QED BY <3>2, <3>3
  <2> QED BY <1>6, <1>7, <1>9, <2>1, Zenon DEF Passes
<1> QED BY <1>4, <1>8, <1>9

-----------------------------------------------------------------------------
(* http.Header.                                                            *)
LEMMA AddIs ==
  ASSUME NEW h, NEW k, NEW v
  PROVE  /\ DOMAIN Add(h, k, v) = DOMAIN h \cup {k}
         /\ Add(h, k, v)[k] = IF k \in DOMAIN h THEN Append(h[k], v) ELSE <<v>>
         /\ \A n \in DOMAIN h : n # k => Add(h, k, v)[n] = h[n]
<1> DEFINE l == IF k \in DOMAIN h THEN Append(h[k], v) ELSE <<v>>
<1> HIDE DEF l
<1>1. Add(h, k, v) = With(h, k, l)
  BY Zenon DEF Add, l
<1>2. /\ DOMAIN With(h, k, l) = DOMAIN h \cup {k}
      /\ With(h, k, l)[k] = l
      /\ \A n \in DOMAIN h : n # k => With(h, k, l)[n] = h[n]
  BY Zenon DEF With
<1> QED BY <1>1, <1>2, Zenon DEF l

(* What keeps the fields of a request.                                     *)
LEMMA ExceptHdr ==
  ASSUME NEW m, IsRequest(m), NEW h
  PROVE  /\ IsRequest([m EXCEPT !.hdr = h])
         /\ [m EXCEPT !.hdr = h].hdr = h /\ [m EXCEPT !.hdr = h].method = m.method
<1>1. "hdr" \in DOMAIN m /\ "method" \in DOMAIN m
  BY DEF IsRequest
<1>2. DOMAIN [m EXCEPT !.hdr = h] = DOMAIN m
  BY Zenon
<1>3. [m EXCEPT !.hdr = h].hdr = h /\ [m EXCEPT !.hdr = h].method = m.method
  BY <1>1, Zenon
<1>4. IsRequest([m EXCEPT !.hdr = h])
  BY <1>2 DEF IsRequest
<1> QED BY <1>3, <1>4

LEMMA WithHdrKeeps ==
  \A m, h : IsRequest(m) =>
    /\ WithHdr(m, h).err = NoErr /\ IsRequest(WithHdr(m, h).msg)
    /\ WithHdr(m, h).msg.hdr = h /\ WithHdr(m, h).msg.method = m.method
BY ExceptHdr, Zenon DEF WithHdr, Ok

(* A message q made of a request m by adding headers, Via as it was.       *)
Grown(m, q, names) ==
  IsRequest(q) /\ q.method = m.method /\ DOMAIN q.hdr \subseteq DOMAIN m.hdr \cup names

SameVia(h, g) ==
  ("Via" \in DOMAIN g <=> "Via" \in DOMAIN h) /\ ("Via" \in DOMAIN h => g["Via"] = h["Via"])

LEMMA SameViaHas ==
  ASSUME NEW h, NEW g, SameVia(h, g), NEW tag
  PROVE  /\ ViaHas(h, tag) <=> ViaHas(g, tag)
         /\ ("Via" \in DOMAIN h => h["Via"] \in ViaLines) => ("Via" \in DOMAIN g => g["Via"] \in ViaLines)
BY Zenon DEF SameVia, ViaHas

(* Setting another header.                                                 *)
LEMMA SetOther ==
  ASSUME NEW m, IsRequest(m), NEW k, k # "Via", NEW v
  PROVE  LET r == WithHdr(m, Set(m.hdr, k, v)) IN
         r.err = NoErr /\ Grown(m, r.msg, {k}) /\ SameVia(m.hdr, r.msg.hdr)
<1> DEFINE g == Set(m.hdr, k, v)
           r == WithHdr(m, g)
<1>1. r.err = NoErr /\ IsRequest(r.msg) /\ r.msg.hdr = g /\ r.msg.method = m.method
  BY WithHdrKeeps, Zenon
<1>2. DOMAIN g = DOMAIN m.hdr \cup {k} /\ \A n \in DOMAIN m.hdr : n # k => g[n] = m.hdr[n]
  BY Zenon DEF Set, With
<1> HIDE DEF g, r
<1>3. SameVia(m.hdr, g)
  BY <1>2 DEF SameVia
<1> QED BY <1>1, <1>2, <1>3, Zenon DEF Grown, r, g

LEMMA KeepHdr ==
  ASSUME NEW m, IsRequest(m)
  PROVE  LET r == WithHdr(m, m.hdr) IN
         r.err = NoErr /\ Grown(m, r.msg, {}) /\ SameVia(m.hdr, r.msg.hdr)
<1>1. LET r == WithHdr(m, m.hdr) IN
      r.err = NoErr /\ IsRequest(r.msg) /\ r.msg.hdr = m.hdr /\ r.msg.method = m.method
  BY WithHdrKeeps, ZenonT(40)
<1> QED BY <1>1 DEF Grown, SameVia

LEMMA HopByHopRemoves ==
  ASSUME NEW m, IsRequest(m)
  PROVE  LET r == HopByHop(m) IN
         /\ r.err = NoErr /\ IsRequest(r.msg) /\ r.msg.method = m.method
         /\ DOMAIN r.msg.hdr = DOMAIN m.hdr \ ForThisHop(m.hdr)
         /\ \A n \in DOMAIN r.msg.hdr : r.msg.hdr[n] = m.hdr[n]
<1> DEFINE g == RemoveHopByHop(m.hdr)
           r == WithHdr(m, g)
<1>1. r.err = NoErr /\ IsRequest(r.msg) /\ r.msg.hdr = g /\ r.msg.method = m.method
  BY WithHdrKeeps, Zenon
<1>2. /\ DOMAIN g = DOMAIN m.hdr \ ForThisHop(m.hdr)
      /\ \A n \in DOMAIN g : g[n] = m.hdr[n]
  BY DEF RemoveHopByHop, ForThisHop
<1> QED BY <1>1, <1>2, Zenon DEF HopByHop

LEMMA ForwardedAdds ==
  ASSUME NEW m, IsRequest(m)
  PROVE  LET r == Forwarded(m) IN
         /\ r.err = NoErr
         /\ Grown(m, r.msg, {"X-Forwarded-Proto", "X-Forwarded-Host", "X-Forwarded-Url", "X-Forwarded-For"})
         /\ SameVia(m.hdr, r.msg.hdr)
<1> DEFINE default(h, k) == IF Get(h, k, "") = "" THEN Set(h, k, "own") ELSE h
           h1 == default(m.hdr, "X-Forwarded-Proto")
           h2 == default(h1, "X-Forwarded-Host")
           h3 == default(h2, "X-Forwarded-Url")
           xff == Get(h3, "X-Forwarded-For", <<>>) \o <<m.remote>>
           h4 == Set(h3, "X-Forwarded-For", xff)
<1>1. ASSUME NEW h, NEW k, k # "Via"
      PROVE  DOMAIN default(h, k) \subseteq DOMAIN h \cup {k} /\ SameVia(h, default(h, k))
  <2>1. DOMAIN Set(h, k, "own") = DOMAIN h \cup {k}
        /\ \A n \in DOMAIN h : n # k => Set(h, k, "own")[n] = h[n]
    BY Zenon DEF Set, With
  <2> QED BY <1>1, <2>1, Zenon DEF SameVia
<1>2. Forwarded(m) = IF m.method = "CONNECT" THEN Ok(m) ELSE WithHdr(m, h4)
  BY Zenon DEF Forwarded
<1>3. DOMAIN h1 \subseteq DOMAIN m.hdr \cup {"X-Forwarded-Proto"} /\ SameVia(m.hdr, h1)
  BY <1>1, Zenon
<1>4. DOMAIN h2 \subseteq DOMAIN h1 \cup {"X-Forwarded-Host"} /\ SameVia(h1, h2)
  <2> HIDE DEF h1, default
  <2> QED BY <1>1
<1>5. DOMAIN h3 \subseteq DOMAIN h2 \cup {"X-Forwarded-Url"} /\ SameVia(h2, h3)
  <2> HIDE DEF h2, default
  <2> QED BY <1>1
<1> HIDE DEF h1, h2, h3, xff, default
<1>6. DOMAIN h4 = DOMAIN h3 \cup {"X-Forwarded-For"} /\ SameVia(h3, h4)
  <2>1. \A n \in DOMAIN h3 : n # "X-Forwarded-For" => h4[n] = h3[n]
    BY Zenon DEF Set, With
  <2>2. DOMAIN h4 = DOMAIN h3 \cup {"X-Forwarded-For"}
    BY Zenon DEF Set, With
  <2> HIDE DEF h4
  <2> QED BY <2>1, <2>2 DEF SameVia
<1> HIDE DEF h4
<1>7. SameVia(m.hdr, h4)
  BY <1>3, <1>4, <1>5, <1>6 DEF SameVia
<1>8. LET r == WithHdr(m, h4) IN
      r.err = NoErr /\ IsRequest(r.msg) /\ r.msg.hdr = h4 /\ r.msg.method = m.method
  BY WithHdrKeeps, Zenon
<1>9. CASE m.method = "CONNECT"
  <2>1. Forwarded(m) = Ok(m)
    BY <1>2, <1>9
  <2> QED BY <2>1 DEF Ok, Grown, SameVia
<1>10. CASE m.method # "CONNECT"
  <2>1. Forwarded(m) = WithHdr(m, h4)
    BY <1>2, <1>10
  <2>2. DOMAIN h4 \subseteq DOMAIN m.hdr \cup
          {"X-Forwarded-Proto", "X-Forwarded-Host", "X-Forwarded-Url", "X-Forwarded-For"}
    BY <1>3, <1>4, <1>5, <1>6
  <2> QED BY <1>7, <1>8, <2>1, <2>2, Zenon DEF Grown
<1> QED BY <1>9, <1>10

LEMMA FramingKeeps ==
  ASSUME NEW m, IsRequest(m), BadFraming(m).err = NoErr
  PROVE  Grown(m, BadFraming(m).msg, {}) /\ SameVia(m.hdr, BadFraming(m).msg.hdr)
<1> DEFINE h == m.hdr
           lengths == Elements(Lines(h, "Content-Length"))
           te == Lines(h, "Transfer-Encoding")
           h1 == IF lengths = {} THEN h ELSE Set(h, "Content-Length", lengths)
           h2 == Del(h1, "Content-Length")
<1>1. BadFraming(m) \in {Failed(m, "framing"), Failed([m EXCEPT !.hdr = h1], "framing"),
                         WithHdr(m, h1), WithHdr(m, h2)}
  BY Zenon DEF BadFraming
<1>2. \A q : Failed(q, "framing").err # NoErr
  BY DEF Failed, NoErr
<1>3. PICK g \in {h1, h2} : BadFraming(m) = WithHdr(m, g)
  BY <1>1, <1>2
<1>4. lengths # {} => "Content-Length" \in DOMAIN h
  BY DEF Elements, Lines
<1> HIDE DEF lengths
<1>5. DOMAIN h1 = DOMAIN h /\ SameVia(h, h1)
  <2>1. CASE lengths = {}
    BY <2>1 DEF SameVia
  <2>2. CASE lengths # {}
    <3>1. h1 = Set(h, "Content-Length", lengths)
      BY <2>2
    <3> HIDE DEF h1
    <3>2. DOMAIN h1 = DOMAIN h \cup {"Content-Length"}
      BY <3>1, Zenon DEF Set, With
    <3>3. \A n \in DOMAIN h : n # "Content-Length" => h1[n] = h[n]
      BY <3>1, Zenon DEF Set, With
    <3> QED BY <1>4, <2>2, <3>2, <3>3 DEF SameVia
  <2> QED BY <2>1, <2>2
<1> HIDE DEF h1
<1>6. DOMAIN h2 \subseteq DOMAIN h /\ SameVia(h, h2)
  <2>1. DOMAIN h2 = DOMAIN h1 \ {"Content-Length"}
    BY Zenon DEF Del
  <2>2. \A n \in DOMAIN h1 : n # "Content-Length" => h2[n] = h1[n]
    BY Zenon DEF Del
  <2> HIDE DEF h2
  <2> QED BY <1>5, <2>1, <2>2 DEF SameVia
<1> HIDE DEF h2
<1>7. DOMAIN g \subseteq DOMAIN m.hdr /\ SameVia(m.hdr, g)
  BY <1>3, <1>5, <1>6
<1>8. IsRequest(WithHdr(m, g).msg) /\ WithHdr(m, g).msg.hdr = g /\ WithHdr(m, g).msg.method = m.method
  BY WithHdrKeeps, Zenon
<1> QED BY <1>3, <1>7, <1>8 DEF Grown

(* A request goes past Via if the first line does not have the tag, which  *)
(* it has then.                                                            *)
LEMMA ViaDetects ==
  ASSUME NEW m, IsRequest(m), NEW tag \in ViaTags, Via(m, tag).err = NoErr,
         "Via" \in DOMAIN m.hdr => m.hdr["Via"] \in ViaLines
  PROVE  ViaHas(Via(m, tag).msg.hdr, tag) /\ ~ViaHas(m.hdr, tag)
<1> DEFINE v == Get(m.hdr, "Via", <<>>)
           g == Set(m.hdr, "Via", Append(v, tag))
<1>1. v \in Seq(ViaTags)
  <2>1. CASE "Via" \in DOMAIN m.hdr
    <3>1. m.hdr["Via"] \in Seq(Seq(ViaTags)) /\ m.hdr["Via"] # <<>>
      BY <2>1 DEF ViaLines
    <3>2. m.hdr["Via"][1] \in Seq(ViaTags)
      BY <3>1
    <3> QED BY <2>1, <3>2 DEF Get
  <2>2. CASE "Via" \notin DOMAIN m.hdr
    BY <2>2 DEF Get
  <2> QED BY <2>1, <2>2
<1>2. /\ ~\E i \in DOMAIN v : v[i] = tag
      /\ Via(m, tag) = WithHdr(m, g)
  <2>1. Failed([m EXCEPT !.close = TRUE], "loop").err # NoErr
    BY DEF Failed, NoErr
  <2> QED BY <2>1, Zenon DEF Via
<1>3. ~ViaHas(m.hdr, tag)
  BY <1>2, Zenon DEF ViaHas, Get
<1>4. "Via" \in DOMAIN g /\ g["Via"] = <<Append(v, tag)>>
  BY Zenon DEF Set, With
<1> HIDE DEF v
<1>5. Append(v, tag) \in Seq(ViaTags) /\ Len(v) + 1 \in DOMAIN Append(v, tag)
      /\ Append(v, tag)[Len(v) + 1] = tag
  BY <1>1
<1> DEFINE w == Append(v, tag)
<1> HIDE DEF w
<1>6. <<w>> \in ViaLines /\ <<w>>[1] = w
  BY <1>5 DEF w, ViaLines
<1> HIDE DEF g
<1>7. ViaHas(g, tag)
  BY <1>4, <1>5, <1>6, Zenon DEF ViaHas, w
<1>8. Via(m, tag).msg.hdr = g
  <2>1. WithHdr(m, g).msg.hdr = g
    BY WithHdrKeeps, Zenon
  <2> QED BY <1>2, <2>1
<1> QED BY <1>3, <1>7, <1>8

LEMMA ViaGrows ==
  ASSUME NEW m, IsRequest(m), NEW tag, Via(m, tag).err = NoErr
  PROVE  Grown(m, Via(m, tag).msg, {"Via"})
<1> DEFINE g == Set(m.hdr, "Via", Append(Get(m.hdr, "Via", <<>>), tag))
<1>1. Via(m, tag) = WithHdr(m, g)
  <2>1. Failed([m EXCEPT !.close = TRUE], "loop").err # NoErr
    BY DEF Failed, NoErr
  <2> QED BY <2>1, Zenon DEF Via
<1>2. DOMAIN g = DOMAIN m.hdr \cup {"Via"}
  BY Zenon DEF Set, With
<1> HIDE DEF g
<1>3. IsRequest(WithHdr(m, g).msg) /\ WithHdr(m, g).msg.hdr = g /\ WithHdr(m, g).msg.method = m.method
  BY WithHdrKeeps, Zenon
<1> QED BY <1>1, <1>2, <1>3 DEF Grown

-----------------------------------------------------------------------------
(* What the rules add, and what they leave.                                *)
RuleNames(rules) ==
  {r.name : r \in {rules[i] : i \in {j \in DOMAIN rules : rules[j].action \in {"Empty", "Add"}}}}

LEMMA RuleIs ==
  ASSUME NEW h, NEW rule
  PROVE  /\ rule.action = "Remove" => ApplyRule(h, rule) = Del(h, rule.name)
         /\ rule.action = "RemoveByPrefix" =>
              ApplyRule(h, rule) = [n \in DOMAIN h \ rule.names |-> h[n]]
         /\ rule.action = "Empty" => ApplyRule(h, rule) = Set(h, rule.name, "")
         /\ rule.action = "Add" => ApplyRule(h, rule) = Add(h, rule.name, rule.value)
<1>1. ASSUME rule.action = "Remove" PROVE ApplyRule(h, rule) = Del(h, rule.name)
  BY <1>1 DEF ApplyRule
<1>2. ASSUME rule.action = "RemoveByPrefix"
      PROVE  ApplyRule(h, rule) = [n \in DOMAIN h \ rule.names |-> h[n]]
  BY <1>2 DEF ApplyRule
<1>3. ASSUME rule.action = "Empty" PROVE ApplyRule(h, rule) = Set(h, rule.name, "")
  BY <1>3 DEF ApplyRule
<1>4. ASSUME rule.action = "Add" PROVE ApplyRule(h, rule) = Add(h, rule.name, rule.value)
  BY <1>4 DEF ApplyRule
<1> QED BY <1>1, <1>2, <1>3, <1>4, Zenon

LEMMA RuleGrows ==
  ASSUME NEW h, NEW rule, rule.action \in {"Remove", "RemoveByPrefix", "Empty", "Add"}
  PROVE  \A n \in DOMAIN ApplyRule(h, rule) :
           n \in DOMAIN h \/ (rule.action \in {"Empty", "Add"} /\ n = rule.name)
<1>1. CASE rule.action = "Remove"
  <2>1. ApplyRule(h, rule) = Del(h, rule.name)
    BY <1>1, RuleIs, Zenon
  <2> QED BY <2>1, Zenon DEF Del
<1>2. CASE rule.action = "RemoveByPrefix"
  <2>1. ApplyRule(h, rule) = [n \in DOMAIN h \ rule.names |-> h[n]]
    BY <1>2, RuleIs, Zenon
  <2> QED BY <2>1, Zenon
<1>3. CASE rule.action = "Empty"
  <2>1. ApplyRule(h, rule) = Set(h, rule.name, "")
    BY <1>3, RuleIs, Zenon
  <2>2. DOMAIN Set(h, rule.name, "") = DOMAIN h \cup {rule.name}
    BY Zenon DEF Set, With
  <2> QED BY <1>3, <2>1, <2>2, Zenon
<1>4. CASE rule.action = "Add"
  <2>1. ApplyRule(h, rule) = Add(h, rule.name, rule.value)
    BY <1>4, RuleIs, Zenon
  <2>2. DOMAIN Add(h, rule.name, rule.value) = DOMAIN h \cup {rule.name}
    BY Zenon DEF Add, With
  <2> QED BY <1>4, <2>1, <2>2
<1> QED BY <1>1, <1>2, <1>3, <1>4

(* A rule that does not take a header away keeps it, with what is added.   *)
LEMMA RuleKeeps ==
  ASSUME NEW h, NEW rule, rule.action \in {"Remove", "RemoveByPrefix", "Empty", "Add"},
         NEW k \in DOMAIN h, ~Takes(rule, k)
  PROVE  /\ k \in DOMAIN ApplyRule(h, rule)
         /\ ApplyRule(h, rule)[k] =
              IF rule.action = "Add" /\ rule.name = k THEN Append(h[k], rule.value) ELSE h[k]
<1> DEFINE g == ApplyRule(h, rule)
<1>1. CASE rule.action = "Remove"
  <2>1. g = Del(h, rule.name) /\ k # rule.name
    BY <1>1, RuleIs, Zenon DEF Takes
  <2>2. k \in DOMAIN g /\ g[k] = h[k]
    BY <2>1, Zenon DEF Del
  <2> QED BY <1>1, <2>2
<1>2. CASE rule.action = "RemoveByPrefix"
  <2>1. g = [n \in DOMAIN h \ rule.names |-> h[n]] /\ k \notin rule.names
    BY <1>2, RuleIs, Zenon DEF Takes
  <2>2. k \in DOMAIN g /\ g[k] = h[k]
    <3> HIDE DEF g
    <3> QED BY <2>1, Zenon
  <2> QED BY <1>2, <2>2
<1>3. CASE rule.action = "Empty"
  <2>1. g = Set(h, rule.name, "") /\ k # rule.name
    BY <1>3, RuleIs, Zenon DEF Takes
  <2>2. k \in DOMAIN g /\ g[k] = h[k]
    <3> HIDE DEF g
    <3> QED BY <2>1, Zenon DEF Set, With
  <2> QED BY <1>3, <2>2
<1>4. CASE rule.action = "Add"
  <2>1. g = Add(h, rule.name, rule.value)
    BY <1>4, RuleIs, Zenon
  <2> HIDE DEF g
  <2>2. DOMAIN g = DOMAIN h \cup {rule.name}
    BY <2>1, AddIs, Zenon
  <2>3. CASE rule.name = k
    <3>1. g[k] = Append(h[k], rule.value)
      BY <2>1, <2>3, AddIs, Zenon
    <3> QED BY <1>4, <2>2, <2>3, <3>1, Zenon DEF g
  <2>4. CASE rule.name # k
    <3>1. g[k] = h[k]
      BY <2>1, <2>4, Zenon DEF Add, With
    <3> QED BY <2>2, <2>4, <3>1, Zenon DEF g
  <2> QED BY <2>3, <2>4
<1> QED BY <1>1, <1>2, <1>3, <1>4

LEMMA RulesGrow ==
  ASSUME NEW h, NEW rules, IsRules(rules)
  PROVE  DOMAIN ApplyRules(h, rules) \subseteq DOMAIN h \cup RuleNames(rules)
<1>1. Len(rules) \in Nat /\ DOMAIN rules = 1 .. Len(rules)
  BY DEF IsRules
<1>2. PICK f : RulesRuns(h, rules, f) /\ ApplyRules(h, rules) = f[Len(rules)]
  BY <1>1, RulesRun
<1> DEFINE P(i) == DOMAIN f[i] \subseteq DOMAIN h \cup RuleNames(rules)
           T == {i \in Nat : i <= Len(rules) /\ ~P(i)}
<1>3. T = {}
  <2> SUFFICES ASSUME T # {} PROVE FALSE
    OBVIOUS
  <2>1. PICK i \in T : \A j \in T : i <= j
    BY LeastOne, Zenon
  <2>2. i \in Nat /\ i <= Len(rules) /\ ~P(i)
    BY <2>1, Zenon
  <2>3. i # 0
    BY <1>2, <2>2 DEF RulesRuns
  <2>4. i - 1 \in Nat /\ i - 1 <= Len(rules) /\ ~(i <= i - 1) /\ i \in DOMAIN rules
    BY <1>1, <2>2, <2>3
  <2>5. P(i - 1)
    BY <2>1, <2>4, Zenon
  <2>6. f[i] = ApplyRule(f[i - 1], rules[i])
    BY <1>1, <1>2, <2>4 DEF RulesRuns
  <2>7. rules[i].action \in {"Remove", "RemoveByPrefix", "Empty", "Add"}
    BY <2>4 DEF IsRules
  <2>8. \A n \in DOMAIN f[i] :
          n \in DOMAIN f[i - 1] \/ (rules[i].action \in {"Empty", "Add"} /\ n = rules[i].name)
    <3> DEFINE a == f[i - 1]
               b == rules[i]
    <3> HIDE DEF a, b
    <3>1. \A n \in DOMAIN ApplyRule(a, b) :
            n \in DOMAIN a \/ (b.action \in {"Empty", "Add"} /\ n = b.name)
      BY <2>7, RuleGrows DEF b
    <3> QED BY <2>6, <3>1 DEF a, b
  <2>9. rules[i].action \in {"Empty", "Add"} => rules[i].name \in RuleNames(rules)
    BY <2>4, Zenon DEF RuleNames
  <2> QED BY <2>2, <2>5, <2>8, <2>9
<1>4. P(Len(rules))
  BY <1>1, <1>3
<1> QED BY <1>2, <1>4

(* The first line of a header that no rule takes away stays the first.     *)
FirstLine(h, k, S, x) == k \in DOMAIN h /\ h[k] \in Seq(S) /\ h[k] # <<>> /\ h[k][1] = x

LEMMA RulesKeepFirst ==
  ASSUME NEW h, NEW rules, IsRules(rules), NEW k, NEW S, NEW x, FirstLine(h, k, S, x),
         \A i \in DOMAIN rules :
           ~Takes(rules[i], k) /\ (rules[i].action = "Add" /\ rules[i].name = k => rules[i].value \in S)
  PROVE  FirstLine(ApplyRules(h, rules), k, S, x)
<1>1. Len(rules) \in Nat /\ DOMAIN rules = 1 .. Len(rules)
  BY DEF IsRules
<1>2. PICK f : RulesRuns(h, rules, f) /\ ApplyRules(h, rules) = f[Len(rules)]
  BY <1>1, RulesRun
<1> DEFINE P(i) == FirstLine(f[i], k, S, x)
           T == {i \in Nat : i <= Len(rules) /\ ~P(i)}
<1>3. T = {}
  <2> SUFFICES ASSUME T # {} PROVE FALSE
    OBVIOUS
  <2>1. PICK i \in T : \A j \in T : i <= j
    BY LeastOne, Zenon
  <2>2. i \in Nat /\ i <= Len(rules) /\ ~P(i)
    BY <2>1, Zenon
  <2>3. i # 0
    BY <1>2, <2>2 DEF RulesRuns
  <2>4. i - 1 \in Nat /\ i - 1 <= Len(rules) /\ ~(i <= i - 1) /\ i \in DOMAIN rules
    BY <1>1, <2>2, <2>3
  <2>5. P(i - 1)
    BY <2>1, <2>4, Zenon
  <2> DEFINE l == f[i - 1][k]
             v == rules[i].value
  <2>6. f[i] = ApplyRule(f[i - 1], rules[i])
    BY <1>1, <1>2, <2>4 DEF RulesRuns
  <2>7. rules[i].action \in {"Remove", "RemoveByPrefix", "Empty", "Add"}
    BY <2>4 DEF IsRules
  <2>8. /\ k \in DOMAIN f[i]
        /\ f[i][k] = IF rules[i].action = "Add" /\ rules[i].name = k THEN Append(l, v) ELSE l
    <3>1. k \in DOMAIN f[i - 1] /\ ~Takes(rules[i], k)
      BY <2>4, <2>5 DEF FirstLine
    <3> DEFINE a == f[i - 1]
               b == rules[i]
    <3> HIDE DEF a, b
    <3>2. /\ k \in DOMAIN ApplyRule(a, b)
          /\ ApplyRule(a, b)[k] =
               IF b.action = "Add" /\ b.name = k THEN Append(a[k], b.value) ELSE a[k]
      BY <2>7, <3>1, RuleKeeps DEF a, b
    <3> QED BY <2>6, <3>2 DEF a, b
  <2>9. rules[i].action = "Add" /\ rules[i].name = k => v \in S
    BY <2>4
  <2>10. l \in Seq(S) /\ l # <<>> /\ l[1] = x
    BY <2>5 DEF FirstLine
  <2> HIDE DEF l, v
  <2>11. ASSUME v \in S PROVE Append(l, v) \in Seq(S) /\ Append(l, v) # <<>> /\ Append(l, v)[1] = x
    BY <2>10, <2>11
  <2>12. f[i][k] \in Seq(S) /\ f[i][k] # <<>> /\ f[i][k][1] = x
    BY <2>8, <2>9, <2>10, <2>11, Zenon
  <2> QED BY <2>2, <2>8, <2>12 DEF FirstLine
<1>4. P(Len(rules))
  BY <1>1, <1>3
<1> QED BY <1>2, <1>4

LEMMA RulesKeepVia ==
  ASSUME NEW h, NEW rules, IsRules(rules), KeepsVia(rules), NEW tag, ViaHas(h, tag)
  PROVE  ViaHas(ApplyRules(h, rules), tag)
<1> DEFINE S == Seq(ViaTags)
           x == h["Via"][1]
<1>1. "Via" \in DOMAIN h /\ h["Via"] \in Seq(S) /\ h["Via"] # <<>>
  BY DEF ViaHas, ViaLines
<1>2. FirstLine(h, "Via", S, x)
  BY <1>1 DEF FirstLine
<1>3. \A i \in DOMAIN rules :
        ~Takes(rules[i], "Via")
        /\ (rules[i].action = "Add" /\ rules[i].name = "Via" => rules[i].value \in S)
  BY DEF KeepsVia, IsRules
<1>4. \E k \in DOMAIN x : x[k] = tag
  BY DEF ViaHas
<1> HIDE DEF S, x
<1>5. FirstLine(ApplyRules(h, rules), "Via", S, x)
  BY <1>2, <1>3, RulesKeepFirst, Zenon
<1> QED BY <1>4, <1>5 DEF FirstLine, ViaHas, ViaLines, S

-----------------------------------------------------------------------------
(* The last two modifiers set a header each.                               *)
LEMMA DefaultsAdd ==
  ASSUME NEW c, NEW m, IsRequest(m)
  PROVE  /\ Grown(m, WithHdr(m, SetBasicAuth(c, m)).msg, {"Authorization"})
         /\ SameVia(m.hdr, WithHdr(m, SetBasicAuth(c, m)).msg.hdr)
         /\ Grown(m, WithHdr(m, SetEmptyUserAgent(m.hdr)).msg, {"User-Agent"})
         /\ SameVia(m.hdr, WithHdr(m, SetEmptyUserAgent(m.hdr)).msg.hdr)
<1> DEFINE Fine(r, k) == Grown(m, r.msg, {k}) /\ SameVia(m.hdr, r.msg.hdr)
<1>1. ASSUME NEW k PROVE Fine(WithHdr(m, m.hdr), k)
  <2>1. Grown(m, WithHdr(m, m.hdr).msg, {}) /\ SameVia(m.hdr, WithHdr(m, m.hdr).msg.hdr)
    BY KeepHdr, Zenon
  <2> QED BY <2>1 DEF Grown
<1>2. ASSUME NEW k, k # "Via", NEW v PROVE Fine(WithHdr(m, Set(m.hdr, k, v)), k)
  BY <1>2, SetOther, Zenon
<1>3. \E v : SetBasicAuth(c, m) \in {m.hdr, Set(m.hdr, "Authorization", v)}
  BY Zenon DEF SetBasicAuth
<1>4. SetEmptyUserAgent(m.hdr) \in {m.hdr, Set(m.hdr, "User-Agent", "")}
  BY Zenon DEF SetEmptyUserAgent
<1> HIDE DEF Fine
<1>5. Fine(WithHdr(m, SetBasicAuth(c, m)), "Authorization")
  <2>1. "Authorization" # "Via"
    OBVIOUS
  <2> QED BY <1>1, <1>2, <1>3, <2>1, Zenon
<1>6. Fine(WithHdr(m, SetEmptyUserAgent(m.hdr)), "User-Agent")
  <2>1. "User-Agent" # "Via"
    OBVIOUS
  <2> QED BY <1>1, <1>2, <1>4, <2>1, Zenon
<1> QED BY <1>5, <1>6 DEF Fine

OwnNames ==
  {"Via", "X-Forwarded-For", "X-Forwarded-Proto", "X-Forwarded-Host", "X-Forwarded-Url",
   "Authorization", "User-Agent"}

(* What the stack makes of a request that it lets pass.                    *)
LEMMA StackForwards ==
  ASSUME NEW c, NEW m, NEW r, r = Modify(c, MiddlewareStack(c), m), r.err = NoErr,
         IsRequest(m), c.tag \in ViaTags, IsRules(Rules(c, m))
  PROVE  /\ Permitted(c, m)
         /\ IsRequest(r.msg) /\ r.msg.method = m.method
         /\ DOMAIN r.msg.hdr \subseteq
              (DOMAIN m.hdr \ ForThisHop(m.hdr)) \cup OwnNames \cup RuleNames(Rules(c, m))
         /\ ("Via" \in DOMAIN m.hdr => m.hdr["Via"] \in ViaLines) =>
              /\ KeepsVia(Rules(c, m)) => ViaHas(r.msg.hdr, c.tag)
              /\ ViaHas(m.hdr, c.tag) => "Via" \in ForThisHop(m.hdr)
<1>1. r # Failed(m, GuardError(c, m))
  BY DEF Failed, GuardError, NoErr
<1>2. Permitted(c, m) /\ Passes(c, m, r)
  BY <1>1, StackRuns, Zenon
<1>3. PICK r1, r2, r3, r4, r5, r6 :
        /\ r1 = HopByHop(m)
        /\ r2 = ModifyNext(c, "forwarded", r1)
        /\ r3 = ModifyNext(c, "framing", r2)
        /\ r4 = ModifyNext(c, "via", r3)
        /\ r5 = ModifyNext(c, "rules", r4)
        /\ r6 = ModifyNext(c, "setBasicAuth", r5)
        /\ r = ModifyNext(c, "setEmptyUserAgent", r6)
  BY <1>2, ZenonT(40) DEF Passes
<1>4. /\ r6.err = NoErr /\ r5.err = NoErr /\ r4.err = NoErr /\ r3.err = NoErr /\ r2.err = NoErr
      /\ r2 = ModifyOne(c, "forwarded", r1.msg) /\ r3 = ModifyOne(c, "framing", r2.msg)
      /\ r4 = ModifyOne(c, "via", r3.msg) /\ r5 = ModifyOne(c, "rules", r4.msg)
      /\ r6 = ModifyOne(c, "setBasicAuth", r5.msg)
      /\ r = ModifyOne(c, "setEmptyUserAgent", r6.msg)
  <2>1. r6.err = NoErr /\ r = ModifyOne(c, "setEmptyUserAgent", r6.msg)
    BY <1>3, ZenonT(40) DEF ModifyNext
  <2>2. r5.err = NoErr /\ r6 = ModifyOne(c, "setBasicAuth", r5.msg)
    BY <1>3, <2>1, ZenonT(40) DEF ModifyNext
  <2>3. r4.err = NoErr /\ r5 = ModifyOne(c, "rules", r4.msg)
    BY <1>3, <2>2, ZenonT(40) DEF ModifyNext
  <2>4. r3.err = NoErr /\ r4 = ModifyOne(c, "via", r3.msg)
    BY <1>3, <2>3, ZenonT(40) DEF ModifyNext
  <2>5. r2.err = NoErr /\ r3 = ModifyOne(c, "framing", r2.msg)
    BY <1>3, <2>4, ZenonT(40) DEF ModifyNext
  <2>6. r2 = ModifyOne(c, "forwarded", r1.msg)
    BY <1>3, <2>5, Zenon DEF ModifyNext
  <2> QED BY <2>1, <2>2, <2>3, <2>4, <2>5, <2>6, ZenonT(40)
<1>6. /\ r2 = Forwarded(r1.msg) /\ r3 = BadFraming(r2.msg) /\ r4 = Via(r3.msg, c.tag)
      /\ r5 = WithHdr(r4.msg, ApplyRules(r4.msg.hdr, Rules(c, r4.msg)))
      /\ r6 = WithHdr(r5.msg, SetBasicAuth(c, r5.msg))
      /\ r = WithHdr(r6.msg, SetEmptyUserAgent(r6.msg.hdr))
  <2>1. \A q : /\ ModifyOne(c, "forwarded", q) = Forwarded(q)
              /\ ModifyOne(c, "framing", q) = BadFraming(q)
              /\ ModifyOne(c, "via", q) = Via(q, c.tag)
    BY SMT DEF ModifyOne
  <2>2. \A q : /\ ModifyOne(c, "rules", q) = WithHdr(q, ApplyRules(q.hdr, Rules(c, q)))
              /\ ModifyOne(c, "setBasicAuth", q) = WithHdr(q, SetBasicAuth(c, q))
              /\ ModifyOne(c, "setEmptyUserAgent", q) = WithHdr(q, SetEmptyUserAgent(q.hdr))
    BY SMT DEF ModifyOne
  <2> QED BY <1>4, <2>1, <2>2, Zenon
<1> DEFINE X == {"X-Forwarded-Proto", "X-Forwarded-Host", "X-Forwarded-Url", "X-Forwarded-For"}
           q1 == r1.msg
           q2 == r2.msg
           q3 == r3.msg
           q4 == r4.msg
           q5 == r5.msg
           q6 == r6.msg
           q7 == r.msg
           rules == Rules(c, m)
<1>7. /\ IsRequest(q1) /\ q1.method = m.method
      /\ DOMAIN q1.hdr = DOMAIN m.hdr \ ForThisHop(m.hdr)
      /\ \A n \in DOMAIN q1.hdr : q1.hdr[n] = m.hdr[n]
  BY <1>3, HopByHopRemoves, Zenon
<1>8. Grown(q1, q2, X) /\ SameVia(q1.hdr, q2.hdr)
  BY <1>6, <1>7, ForwardedAdds, Zenon
<1>9. IsRequest(q2) /\ q2.method = m.method
  BY <1>7, <1>8 DEF Grown
<1>10. Grown(q2, q3, {}) /\ SameVia(q2.hdr, q3.hdr)
  BY <1>4, <1>6, <1>9, FramingKeeps, Zenon
<1>11. IsRequest(q3) /\ q3.method = m.method
  BY <1>9, <1>10 DEF Grown
<1>12. Grown(q3, q4, {"Via"})
  BY <1>4, <1>6, <1>11, ViaGrows, Zenon
<1>13. IsRequest(q4) /\ q4.method = m.method
  BY <1>11, <1>12 DEF Grown
<1>14. Rules(c, q4) = rules
  BY <1>13 DEF Rules
<1>15. q5.hdr = ApplyRules(q4.hdr, rules) /\ IsRequest(q5) /\ q5.method = m.method
  <2> DEFINE g == ApplyRules(q4.hdr, rules)
  <2>1. r5 = WithHdr(q4, g)
    BY <1>6, <1>14, Zenon
  <2> HIDE DEF g, q4
  <2>2. WithHdr(q4, g).msg.hdr = g /\ IsRequest(WithHdr(q4, g).msg)
        /\ WithHdr(q4, g).msg.method = q4.method
    BY <1>13, WithHdrKeeps, Zenon
  <2> QED BY <1>13, <2>1, <2>2, SMTT(30) DEF g
<1>16. DOMAIN q5.hdr \subseteq DOMAIN q4.hdr \cup RuleNames(rules)
  BY <1>15, RulesGrow
<1>17. Grown(q5, q6, {"Authorization"}) /\ SameVia(q5.hdr, q6.hdr)
  <2>1. IsRequest(q5) /\ r6 = WithHdr(q5, SetBasicAuth(c, q5))
    BY <1>6, <1>15, Zenon
  <2> HIDE DEF q5
  <2> QED BY <2>1, DefaultsAdd, ZenonT(40)
<1>18. IsRequest(q6) /\ q6.method = m.method
  BY <1>15, <1>17 DEF Grown
<1>19. Grown(q6, q7, {"User-Agent"}) /\ SameVia(q6.hdr, q7.hdr)
  BY <1>6, <1>18, DefaultsAdd, Zenon
<1> HIDE DEF q1, q2, q3, q4, q5, q6, q7, rules
<1>20. IsRequest(q7) /\ q7.method = m.method
  BY <1>18, <1>19 DEF Grown
<1>21. DOMAIN q7.hdr \subseteq
         (DOMAIN m.hdr \ ForThisHop(m.hdr)) \cup OwnNames \cup RuleNames(rules)
  <2>1. DOMAIN q2.hdr \subseteq DOMAIN q1.hdr \cup X /\ DOMAIN q3.hdr \subseteq DOMAIN q2.hdr
    BY <1>8, <1>10 DEF Grown
  <2>2. DOMAIN q4.hdr \subseteq DOMAIN q3.hdr \cup {"Via"}
    BY <1>12 DEF Grown
  <2>3. /\ DOMAIN q6.hdr \subseteq DOMAIN q5.hdr \cup {"Authorization"}
        /\ DOMAIN q7.hdr \subseteq DOMAIN q6.hdr \cup {"User-Agent"}
    BY <1>17, <1>19 DEF Grown
  <2> QED BY <1>7, <1>16, <2>1, <2>2, <2>3 DEF OwnNames
<1>22. ASSUME "Via" \in DOMAIN m.hdr => m.hdr["Via"] \in ViaLines
       PROVE  /\ KeepsVia(rules) => ViaHas(q7.hdr, c.tag)
              /\ ViaHas(m.hdr, c.tag) => "Via" \in ForThisHop(m.hdr)
  <2>1. "Via" \in DOMAIN q1.hdr => q1.hdr["Via"] \in ViaLines
    BY <1>7, <1>22
  <2>2. "Via" \in DOMAIN q3.hdr => q3.hdr["Via"] \in ViaLines
    BY <1>8, <1>10, <2>1, SameViaHas, Zenon
  <2>3. ViaHas(q4.hdr, c.tag) /\ ~ViaHas(q3.hdr, c.tag)
    BY <1>4, <1>6, <1>11, <2>2, ViaDetects, Zenon DEF q4, q3
  <2>4. KeepsVia(rules) => ViaHas(q5.hdr, c.tag)
    BY <1>15, <2>3, RulesKeepVia DEF rules
  <2>5. KeepsVia(rules) => ViaHas(q7.hdr, c.tag)
    BY <1>17, <1>19, <2>4, SameViaHas, Zenon
  <2>6. ~ViaHas(q1.hdr, c.tag)
    BY <1>8, <1>10, <2>3, SameViaHas, Zenon
  <2>7. ViaHas(m.hdr, c.tag) => "Via" \in ForThisHop(m.hdr)
    <3> SUFFICES ASSUME ViaHas(m.hdr, c.tag), "Via" \notin ForThisHop(m.hdr) PROVE FALSE
      OBVIOUS
    <3>1. "Via" \in DOMAIN q1.hdr /\ q1.hdr["Via"] = m.hdr["Via"]
      BY <1>7 DEF ViaHas
    <3> QED BY <2>6, <3>1 DEF ViaHas
  <2> QED BY <2>5, <2>7
<1> QED BY <1>2, <1>20, <1>21, <1>22 DEF q7, rules

-----------------------------------------------------------------------------
(* The response: the rules, then the hop-by-hop modifier.                  *)
LEMMA ResponseModified ==
  ASSUME NEW c, NEW method, NEW code, NEW hdr, IsRules(c.responseRules),
         NEW a, a = ModifyResponse(c, method, [code |-> code, hdr |-> hdr])
  PROVE  /\ a.code = code
         /\ DOMAIN a.hdr \cap HopByHopHeaders = {}
         /\ \/ "X-Hop" \notin DOMAIN a.hdr
            \/ ~FirstLine(hdr, "Connection", {{"X-Hop"}}, {"X-Hop"})
            \/ method # "CONNECT"
               /\ \E i \in DOMAIN c.responseRules : Takes(c.responseRules[i], "Connection")
<1> DEFINE r == [code |-> code, hdr |-> hdr]
           inner == IF method = "CONNECT" THEN "none" ELSE "responseRules"
           s == ResponseStack(<<inner>>)
           g == IF method = "CONNECT" THEN hdr ELSE ApplyRules(hdr, c.responseRules)
<1>1. Len(s) = 2 /\ s[1] = inner /\ s[2] = "hopByHop"
  BY DEF ResponseStack, ToImmutable
<1>2. a = Modify(c, s, r).msg
  BY Zenon DEF ModifyResponse
<1> HIDE DEF s, r
<1>3. PICK f : Runs(c, s, r, f) /\ Modify(c, s, r) = f[Len(s)]
  <2>1. Len(s) \in Nat
    BY <1>1
  <2> QED BY <2>1, ModifyRuns
<1>4. f[0] = Ok(r) /\ f[1] = ModifyNext(c, inner, f[0]) /\ f[2] = ModifyNext(c, "hopByHop", f[1])
  BY <1>1, <1>3 DEF Runs
<1>5. f[1] = ModifyOne(c, inner, r)
  BY <1>4 DEF ModifyNext, Ok
<1>6. f[1].err = NoErr /\ f[1].msg = [code |-> code, hdr |-> g]
  <2>1. CASE method = "CONNECT"
    <3>1. ModifyOne(c, "none", r) = Ok(r)
      BY SMT DEF ModifyOne
    <3> QED BY <1>5, <2>1, <3>1 DEF Ok, r
  <2>2. CASE method # "CONNECT"
    <3>1. ModifyOne(c, "responseRules", r) = WithHdr(r, ApplyRules(r.hdr, c.responseRules))
      BY SMT DEF ModifyOne
    <3> QED BY <1>5, <2>2, <3>1 DEF Ok, WithHdr, r
  <2> QED BY <2>1, <2>2
<1> HIDE DEF g
<1>7. f[2] = HopByHop(f[1].msg)
  <2>1. f[2] = ModifyOne(c, "hopByHop", f[1].msg)
    BY <1>4, <1>6 DEF ModifyNext
  <2>2. \A q : ModifyOne(c, "hopByHop", q) = HopByHop(q)
    BY SMT DEF ModifyOne
  <2> QED BY <2>1, <2>2
<1>8. a = [code |-> code, hdr |-> RemoveHopByHop(g)]
  <2>1. f[2].msg = [code |-> code, hdr |-> RemoveHopByHop(g)]
    BY <1>6, <1>7 DEF HopByHop, WithHdr, Ok
  <2> QED BY <1>1, <1>2, <1>3, <2>1
<1>9. DOMAIN RemoveHopByHop(g) = DOMAIN g \ ForThisHop(g)
  BY DEF RemoveHopByHop, ForThisHop
<1>10. DOMAIN a.hdr \cap HopByHopHeaders = {}
  BY <1>8, <1>9 DEF ForThisHop
<1>11. ASSUME FirstLine(hdr, "Connection", {{"X-Hop"}}, {"X-Hop"}),
              method = "CONNECT" \/ ~\E i \in DOMAIN c.responseRules : Takes(c.responseRules[i], "Connection")
       PROVE  "X-Hop" \notin DOMAIN a.hdr
  <2> DEFINE rules == c.responseRules
             V == {{"X-Hop"}} \cup {rules[i].value : i \in DOMAIN rules}
  <2>1. FirstLine(hdr, "Connection", V, {"X-Hop"})
    <3>1. hdr["Connection"] \in Seq({{"X-Hop"}}) => hdr["Connection"] \in Seq(V)
      OBVIOUS
    <3> QED BY <1>11, <3>1 DEF FirstLine
  <2>2. FirstLine(g, "Connection", V, {"X-Hop"})
    <3>1. CASE method = "CONNECT"
      BY <2>1, <3>1 DEF g
    <3>2. CASE method # "CONNECT"
      <4>1. \A i \in DOMAIN rules :
              /\ ~Takes(rules[i], "Connection")
              /\ rules[i].action = "Add" /\ rules[i].name = "Connection" => rules[i].value \in V
        BY <1>11, <3>2, Zenon
      <4> HIDE DEF V, rules
      <4>2. FirstLine(ApplyRules(hdr, rules), "Connection", V, {"X-Hop"})
        BY <2>1, <4>1, RulesKeepFirst, Zenon DEF rules
      <4> QED BY <3>2, <4>2 DEF g, rules
    <3> QED BY <3>1, <3>2
  <2> HIDE DEF V
  <2>3. "X-Hop" \in Elements(Lines(g, "Connection"))
    <3>1. Lines(g, "Connection") \in Seq(V) /\ Lines(g, "Connection") # <<>>
          /\ Lines(g, "Connection")[1] = {"X-Hop"}
      BY <2>2 DEF FirstLine, Lines
    <3>2. 1 \in DOMAIN Lines(g, "Connection")
      BY <3>1
    <3> QED BY <3>1, <3>2 DEF Elements
  <2> QED BY <1>8, <1>9, <2>3 DEF ForThisHop
<1> QED BY <1>8, <1>10, <1>11

(* The response for an error.                                              *)
LEMMA ErrorCodes ==
  ASSUME NEW m, NEW types
  PROVE  LET r == ErrorResponse(m, types) IN
         /\ r = [code |-> r.code, hdr |-> r.hdr]
         /\ r.code # 200
         /\ types = {"auth"} => r.code = 407
         /\ types = {"deny"} => r.code = 403
<1> DEFINE at == {i \in DOMAIN Handlers : Handles(Handlers[i], m, types)}
           k == CHOOSE i \in at : \A j \in at : i <= j
           code == IF at = {} THEN 500 ELSE Handlers[k].code
           hdr == Set(IF code = 407 THEN Set(NoHeaders, "Proxy-Authenticate", "Basic") ELSE NoHeaders,
                      "X-Forwarder-Error", "text")
<1>1. ErrorResponse(m, types) = [code |-> code, hdr |-> hdr]
  BY Zenon DEF ErrorResponse
<1>2. DOMAIN Handlers = 1 .. 10
  BY DEF Handlers
<1> DEFINE Codes == {504, 502, 400, 407, 403, 503}
<1>3. \A i \in 1 .. 10 : Handlers[i].code \in Codes
  BY DEF Handlers
<1>4. \A i \in 1 .. 10 :
        /\ Handlers[i].type = "auth" <=> i = 8
        /\ Handlers[i].type = "deny" <=> i = 9
  BY DEF Handlers
<1>5. Handlers[8].code = 407 /\ Handlers[9].code = 403
  BY DEF Handlers
<1>6. at # {} => k \in at
  <2> SUFFICES ASSUME at # {} PROVE k \in at
    OBVIOUS
  <2>1. at \subseteq Nat
    BY <1>2
  <2>2. \E i \in at : \A j \in at : i <= j
    <3> HIDE DEF at
    <3> QED BY <2>1, LeastOne
  <2> HIDE DEF at
  <2> QED BY <2>2
<1>7. at \subseteq 1 .. 10
  BY <1>2
<1>8. ASSUME types = {"auth"} PROVE at = {8}
  <2>1. \A i \in 1 .. 10 : Handles(Handlers[i], m, types) <=> Handlers[i].type = "auth"
    BY <1>8, Zenon DEF Handles
  <2>2. \A i \in 1 .. 10 : i \in at <=> Handlers[i].type = "auth"
    BY <1>2, <2>1
  <2> HIDE DEF at
  <2>3. \A i \in 1 .. 10 : i \in at <=> i = 8
    BY <1>4, <2>2, Zenon
  <2>4. 8 \in 1 .. 10
    OBVIOUS
  <2>5. 8 \in at /\ \A i \in at : i = 8
    BY <1>7, <2>3, <2>4, Zenon
  <2> QED BY <2>5, Zenon
<1>9. ASSUME types = {"deny"} PROVE at = {9}
  <2>1. \A i \in 1 .. 10 : Handles(Handlers[i], m, types) <=> Handlers[i].type = "deny"
    BY <1>9, Zenon DEF Handles
  <2>2. \A i \in 1 .. 10 : i \in at <=> Handlers[i].type = "deny"
    BY <1>2, <2>1
  <2> HIDE DEF at
  <2>3. \A i \in 1 .. 10 : i \in at <=> i = 9
    BY <1>4, <2>2, Zenon
  <2>4. 9 \in 1 .. 10
    OBVIOUS
  <2>5. 9 \in at /\ \A i \in at : i = 9
    BY <1>7, <2>3, <2>4, Zenon
  <2> QED BY <2>5, Zenon
<1> HIDE DEF k, at, hdr
<1>10. code # 200 /\ (types = {"auth"} => code = 407) /\ (types = {"deny"} => code = 403)
  <2>1. code \in {500, 504, 502, 400, 407, 403, 503}
    <3>1. CASE at = {}
      BY <3>1
    <3>2. CASE at # {}
      <4>1. k \in 1 .. 10
        BY <1>6, <1>7, <3>2, Zenon
      <4> HIDE DEF Codes
      <4>2. Handlers[k].code \in Codes
        BY <1>3, <4>1, Zenon
      <4> QED BY <3>2, <4>2 DEF Codes
    <3> QED BY <3>1, <3>2
  <2>2. types = {"auth"} => code = 407
    BY <1>5, <1>6, <1>8
  <2>3. types = {"deny"} => code = 403
    BY <1>5, <1>6, <1>9
  <2> HIDE DEF code
  <2> QED BY <2>1, <2>2, <2>3
<1> HIDE DEF code
<1>11. ErrorResponse(m, types).code = code /\ ErrorResponse(m, types).hdr = hdr
  BY <1>1
<1> QED BY <1>1, <1>10, <1>11

-----------------------------------------------------------------------------
LEMMA FewLines ==
  /\ Elements(<<>>) = {}
  /\ Elements(<<{"Upgrade"}>>) \subseteq {"Upgrade"}
<1>1. DOMAIN <<>> = {}
  <2>1. <<>> \in Seq({}) /\ Len(<<>>) = 0
    OBVIOUS
  <2>2. DOMAIN <<>> = 1 .. 0
    BY <2>1
  <2> QED BY <2>2
<1>2. Elements(<<>>) = {}
  BY <1>1, Zenon DEF Elements
<1> DEFINE l == <<{"Upgrade"}>>
<1>3. l \in Seq({{"Upgrade"}})
  OBVIOUS
<1> HIDE DEF l
<1>4. \A i \in DOMAIN l : l[i] = {"Upgrade"}
  BY <1>3
<1>5. Elements(l) \subseteq {"Upgrade"}
  BY <1>4, Zenon DEF Elements
<1> QED BY <1>2, <1>5 DEF l

(* HandleRequest puts the headers of an upgrade back.                      *)
NoUpgrade(up) == up = ""
PutBack(h, up) ==
  IF NoUpgrade(up) THEN h ELSE Set(Set(h, "Connection", {"Upgrade"}), "Upgrade", up)

(* What HandleRequest forwards, for a request m that the client f sent, or *)
(* that has come back (fw = 1).                                            *)
LetsPass(c, f, m, fw, r, up, hdr) ==
  /\ c \in PipeConfigs /\ f \in PipeRequests /\ fw \in {0, 1}
  /\ IsRequest(m) /\ m.method = f.method
  /\ r = Modify(c, MiddlewareStack(c), m) /\ r.err = NoErr
  /\ fw = 0 => m = f
  /\ fw = 1 => HopsLeft(c, f, m, TRUE)
  /\ fw = 1 /\ KeepsVia(Rules(c, f)) => Tagged(m.hdr, c.tag)
  /\ up = ReqUpType(m) /\ hdr = PutBack(r.msg.hdr, up)

Forwards(c, f, m, fw, r, hdr) ==
  /\ Permitted(c, m)
  /\ IsRequest(r.msg) /\ r.msg.method = f.method
  /\ \A n \in DOMAIN hdr : n \in ForThisHop(f.hdr) => n \in AddedBy(c, f)
  /\ KeepsVia(Rules(c, f)) => fw = 0 /\ Tagged(hdr, c.tag)

LEMMA HeadersForwarded ==
  ASSUME NEW c, NEW f, NEW m, NEW fw, NEW r, NEW up, NEW hdr, LetsPass(c, f, m, fw, r, up, hdr)
  PROVE  Forwards(c, f, m, fw, r, hdr)
<1> USE DEF LetsPass
<1> DEFINE rules == Rules(c, f)
           g == r.msg.hdr
<1>1. Rules(c, m) = rules /\ IsRules(rules) /\ c.tag \in ViaTags
  BY PipeAssumption, SMTT(30) DEF Rules
<1>2. /\ Permitted(c, m) /\ IsRequest(r.msg) /\ r.msg.method = m.method
      /\ DOMAIN g \subseteq (DOMAIN m.hdr \ ForThisHop(m.hdr)) \cup OwnNames \cup RuleNames(rules)
      /\ ("Via" \in DOMAIN m.hdr => m.hdr["Via"] \in ViaLines) =>
           /\ KeepsVia(rules) => ViaHas(g, c.tag)
           /\ ViaHas(m.hdr, c.tag) => "Via" \in ForThisHop(m.hdr)
  <2>1. /\ Permitted(c, m) /\ IsRequest(r.msg) /\ r.msg.method = m.method
        /\ DOMAIN g \subseteq
             (DOMAIN m.hdr \ ForThisHop(m.hdr)) \cup OwnNames \cup RuleNames(Rules(c, m))
        /\ ("Via" \in DOMAIN m.hdr => m.hdr["Via"] \in ViaLines) =>
             /\ KeepsVia(Rules(c, m)) => ViaHas(g, c.tag)
             /\ ViaHas(m.hdr, c.tag) => "Via" \in ForThisHop(m.hdr)
    <3>1. IsRules(Rules(c, m)) /\ c.tag \in ViaTags
      BY <1>1
    <3> QED BY <3>1, StackForwards, ZenonT(40)
  <2> HIDE DEF g, rules
  <2> QED BY <1>1, <2>1
<1> HIDE DEF rules, g
<1>3. OwnNames \subseteq AddedBy(c, f) /\ RuleNames(rules) \subseteq AddedBy(c, f)
  BY Zenon DEF AddedBy, OwnNames, RuleNames, rules
<1>4. HopByHopHeaders \subseteq ForThisHop(m.hdr) /\ HopByHopHeaders \subseteq ForThisHop(f.hdr)
  BY DEF ForThisHop
<1>5. /\ "Connection" \in HopByHopHeaders /\ "Upgrade" \in HopByHopHeaders
      /\ "Proxy-Authorization" \in HopByHopHeaders /\ "Via" \notin HopByHopHeaders
  BY SMTT(30) DEF HopByHopHeaders
<1>6. /\ NoUpgrade(up) => hdr = g
      /\ ~NoUpgrade(up) =>
           /\ DOMAIN hdr = DOMAIN g \cup {"Connection", "Upgrade"}
           /\ hdr["Connection"] = <<{"Upgrade"}>>
           /\ "Via" \in DOMAIN g => hdr["Via"] = g["Via"]
  <2>1. CASE NoUpgrade(up)
    BY <2>1, Zenon DEF g, PutBack
  <2>2. CASE ~NoUpgrade(up)
    <3> DEFINE h1 == Set(g, "Connection", {"Upgrade"})
    <3>1. hdr = Set(h1, "Upgrade", up)
      BY <2>2, Zenon DEF g, PutBack
    <3>2. DOMAIN h1 = DOMAIN g \cup {"Connection"} /\ h1["Connection"] = <<{"Upgrade"}>>
      BY Zenon DEF Set, With
    <3>3. "Via" \in DOMAIN g => h1["Via"] = g["Via"]
      BY DEF Set, With
    <3> HIDE DEF h1
    <3>4. DOMAIN hdr = DOMAIN h1 \cup {"Upgrade"}
      BY <3>1, Zenon DEF Set, With
    <3>5. \A n \in DOMAIN h1 : n # "Upgrade" => hdr[n] = h1[n]
      BY <3>1, Zenon DEF Set, With
    <3> QED BY <2>2, <3>2, <3>3, <3>4, <3>5
  <2> QED BY <2>1, <2>2
<1>7. ~NoUpgrade(up) => "Connection" \in DOMAIN m.hdr /\ "Upgrade" \in DOMAIN m.hdr
  <2> SUFFICES ASSUME ~NoUpgrade(up) PROVE "Connection" \in DOMAIN m.hdr /\ "Upgrade" \in DOMAIN m.hdr
    OBVIOUS
  <2>1. "Upgrade" \in Elements(Lines(m.hdr, "Connection")) /\ Get(m.hdr, "Upgrade", "") # ""
    BY Zenon DEF ReqUpType, UpgradeType, NoUpgrade
  <2>2. Lines(m.hdr, "Connection") # <<>>
    BY <2>1, FewLines, Zenon
  <2> QED BY <2>1, <2>2, Zenon DEF Get, Lines
<1>8. ASSUME NEW n \in DOMAIN hdr, n \in ForThisHop(f.hdr) PROVE n \in AddedBy(c, f)
  <2>1. CASE n \in DOMAIN g
    <3>1. CASE fw = 0
      BY <1>2, <1>3, <1>8, <2>1, <3>1, SMTT(30)
    <3>2. CASE fw = 1
      <4>1. n \in DOMAIN m.hdr \ ForThisHop(m.hdr) => n \in AddedBy(c, f)
        BY <1>4, <1>5, <1>8, <3>2, SMTT(30) DEF HopsLeft
      <4> QED BY <1>2, <1>3, <2>1, <4>1, SMTT(30)
    <3> QED BY <3>1, <3>2, SMTT(30)
  <2>2. CASE n \notin DOMAIN g
    <3>1. ~NoUpgrade(up) /\ n \in {"Connection", "Upgrade"}
      BY <1>6, <1>8, <2>2
    <3>2. CASE fw = 0
      BY <3>1, <3>2, Zenon DEF AddedBy, NoUpgrade
    <3>3. CASE fw = 1
      <4>1. n \in DOMAIN m.hdr /\ n # "Proxy-Authorization"
        BY <1>7, <3>1
      <4> QED BY <1>8, <3>3, <4>1, SMTT(30) DEF HopsLeft
    <3> QED BY <3>2, <3>3
  <2> QED BY <2>1, <2>2
<1>9. ASSUME KeepsVia(rules) PROVE fw = 0 /\ Tagged(hdr, c.tag)
  <2>1. fw = 0
    <3> SUFFICES ASSUME fw = 1 PROVE FALSE
      OBVIOUS
    <3>1. ViaHas(m.hdr, c.tag) /\ Elements(Lines(m.hdr, "Connection")) \subseteq {"Upgrade"}
      BY <1>9, SMTT(30) DEF rules, Tagged
    <3>2. "Via" \in ForThisHop(m.hdr)
      BY <1>2, <3>1 DEF ViaHas
    <3> QED BY <1>5, <3>1, <3>2 DEF ForThisHop
  <2>2. "Via" \in DOMAIN m.hdr => m.hdr["Via"] \in ViaLines
    BY <2>1, PipeAssumption
  <2>3. ViaHas(g, c.tag)
    BY <1>2, <1>9, <2>2, SMTT(30)
  <2>4. "Connection" \notin DOMAIN g
    <3>1. "Connection" \notin OwnNames
      BY DEF OwnNames
    <3>2. "Connection" \notin RuleNames(rules)
      BY <1>9 DEF RuleNames, KeepsVia
    <3> QED BY <1>2, <1>4, <1>5, <3>1, <3>2
  <2>5. CASE NoUpgrade(up)
    <3>1. hdr = g
      BY <1>6, <2>5
    <3>2. Lines(g, "Connection") = <<>>
      BY <2>4 DEF Lines
    <3>3. Elements(<<>>) = {}
      BY FewLines
    <3> QED BY <2>1, <2>3, <3>1, <3>2, <3>3, SMTT(30) DEF Tagged
  <2>6. CASE ~NoUpgrade(up)
    <3>1. "Via" \in DOMAIN hdr /\ hdr["Via"] = g["Via"]
      BY <1>6, <2>3, <2>6 DEF ViaHas
    <3>2. ViaHas(hdr, c.tag)
      BY <2>3, <3>1, SMTT(30) DEF ViaHas
    <3>3. Lines(hdr, "Connection") = <<{"Upgrade"}>>
      BY <1>6, <2>6 DEF Lines
    <3>4. Elements(<<{"Upgrade"}>>) \subseteq {"Upgrade"}
      BY FewLines
    <3> QED BY <2>1, <3>2, <3>3, <3>4, SMTT(30) DEF Tagged
  <2> QED BY <2>5, <2>6
<1> QED BY <1>2, <1>8, <1>9 DEF rules, Forwards

(* An error's answer.                                                      *)
LEMMA ErrorAnswered ==
  ASSUME cfg \in PipeConfigs, NEW types, AnswerError(types)
  PROVE  /\ where' = "answered" /\ answer'.code # 200
         /\ DOMAIN answer'.hdr \cap HopByHopHeaders = {}
         /\ types = {"auth"} => answer'.code = 407
         /\ types = {"deny"} => answer'.code = 403
<1>1. IsRules(cfg.responseRules)
  BY PipeAssumption
<1> DEFINE e == ErrorResponse(msg', types)
           u == [code |-> 502, hdr |-> Set(NoHeaders, "Proxy-Authenticate", "up")]
           r == IF "connect" \in types THEN u ELSE e
           method == IF "connect" \in types THEN "CONNECT" ELSE msg'.method
<1>2. where' = "answered" /\ answer' = ModifyResponse(cfg, method, r)
  BY Zenon DEF AnswerError, Answer
<1>3. /\ e = [code |-> e.code, hdr |-> e.hdr] /\ e.code # 200
      /\ types = {"auth"} => e.code = 407
      /\ types = {"deny"} => e.code = 403
  BY ErrorCodes
<1> HIDE DEF e
<1>4. /\ r = [code |-> r.code, hdr |-> r.hdr] /\ r.code # 200
      /\ types = {"auth"} => r.code = 407
      /\ types = {"deny"} => r.code = 403
  <2>1. u = [code |-> u.code, hdr |-> u.hdr] /\ u.code = 502
    OBVIOUS
  <2> HIDE DEF u
  <2>2. CASE "connect" \in types
    BY <2>1, <2>2
  <2>3. CASE "connect" \notin types
    BY <1>3, <2>3
  <2> QED BY <2>2, <2>3
<1> HIDE DEF r, method
<1>5. answer'.code = r.code /\ DOMAIN answer'.hdr \cap HopByHopHeaders = {}
  <2> DEFINE k == r.code
             h == r.hdr
  <2>1. answer' = ModifyResponse(cfg, method, [code |-> k, hdr |-> h])
    BY <1>2, <1>4
  <2> HIDE DEF k, h
  <2>2. answer'.code = k /\ DOMAIN answer'.hdr \cap HopByHopHeaders = {}
    BY <1>1, <2>1, ResponseModified
  <2> QED BY <2>2 DEF k
<1> QED BY <1>2, <1>4, <1>5

(* The origin's answer.                                                    *)
LEMMA OriginAnswered ==
  ASSUME cfg \in PipeConfigs, PipeRoundTrip
  PROVE  /\ where' = "answered" /\ msg' = msg
         /\ DOMAIN answer'.hdr \cap HopByHopHeaders = {}
         /\ \/ "X-Hop" \notin DOMAIN answer'.hdr
            \/ msg.method # "CONNECT"
               /\ \E i \in DOMAIN cfg.responseRules : Takes(cfg.responseRules[i], "Connection")
<1>1. IsRules(cfg.responseRules)
  BY PipeAssumption
<1> DEFINE h == Set(Set(NoHeaders, "Connection", {"X-Hop"}), "X-Hop", "v")
<1>2. where' = "answered" /\ msg' = msg /\ answer' = ModifyResponse(cfg, msg.method, [code |-> 200, hdr |-> h])
  BY Zenon DEF PipeRoundTrip, Answer
<1>3. FirstLine(h, "Connection", {{"X-Hop"}}, {"X-Hop"})
  <2> DEFINE h1 == Set(NoHeaders, "Connection", {"X-Hop"})
  <2>1. "Connection" \in DOMAIN h1 /\ h1["Connection"] = <<{"X-Hop"}>>
    BY Zenon DEF Set, With
  <2> HIDE DEF h1
  <2>2. "Connection" \in DOMAIN h /\ h["Connection"] = h1["Connection"]
    <3>1. h = Set(h1, "X-Hop", "v") /\ "Connection" # "X-Hop"
      BY DEF h1
    <3> HIDE DEF h
    <3> QED BY <2>1, <3>1, Zenon DEF Set, With
  <2> HIDE DEF h
  <2>3. <<{"X-Hop"}>> \in Seq({{"X-Hop"}}) /\ <<{"X-Hop"}>> # <<>> /\ <<{"X-Hop"}>>[1] = {"X-Hop"}
    OBVIOUS
  <2> QED BY <2>1, <2>2, <2>3, Zenon DEF FirstLine
<1> HIDE DEF h
<1>4. /\ DOMAIN answer'.hdr \cap HopByHopHeaders = {}
      /\ \/ "X-Hop" \notin DOMAIN answer'.hdr
         \/ msg.method # "CONNECT"
            /\ \E i \in DOMAIN cfg.responseRules : Takes(cfg.responseRules[i], "Connection")
  BY <1>1, <1>2, <1>3, ResponseModified
<1> QED BY <1>2, <1>4

-----------------------------------------------------------------------------
LEMMA PipeInitInv == PipeInit => PipeInv
<1> SUFFICES ASSUME PipeInit PROVE PipeInv
  OBVIOUS
<1>1. /\ cfg \in PipeConfigs /\ first \in PipeRequests /\ msg = first
      /\ where = "received" /\ forwards = 0
  BY DEF PipeInit
<1>2. IsRequest(msg)
  BY <1>1, PipeAssumption
<1>3. GuardsFirst /\ HopHeadersStay
  BY <1>1 DEF GuardsFirst, HopHeadersStay
<1> QED BY <1>1, <1>2, <1>3 DEF PipeInv

(* What follows once the request is answered.                              *)
LEMMA AnsweredInv ==
  ASSUME PipeInv, where' = "answered", UNCHANGED <<cfg, first, forwards>>,
         GuardsFirst', HopHeadersStay'
  PROVE  PipeInv'
BY DEF PipeInv

LEMMA HandleErrorInv ==
  ASSUME PipeInv, where = "received", UNCHANGED <<cfg, first, forwards>>,
         NEW r, r = Modify(cfg, MiddlewareStack(cfg), msg), r.err # NoErr, msg' = r.msg,
         AnswerError({r.err})
  PROVE  PipeInv'
<1>1. cfg \in PipeConfigs
  BY DEF PipeInv
<1>2. /\ where' = "answered" /\ answer'.code # 200
      /\ DOMAIN answer'.hdr \cap HopByHopHeaders = {}
      /\ {r.err} = {"auth"} => answer'.code = 407
      /\ {r.err} = {"deny"} => answer'.code = 403
  BY <1>1, ErrorAnswered
<1>3. HopHeadersStay'
  BY <1>2 DEF HopHeadersStay
<1>4. ASSUME ~Permitted(cfg, first)
      PROVE  /\ answer'.code = IF cfg.basicAuth /\ ~AuthenticatedRequest(first) THEN 407 ELSE 403
             /\ msg' = first
  <2>1. msg = first
    BY <1>4 DEF PipeInv
  <2>2. r = Failed(msg, GuardError(cfg, msg))
    BY <1>4, <2>1, StackRuns, Zenon
  <2>3. r.msg = first /\ r.err = GuardError(cfg, first)
    BY <2>1, <2>2 DEF Failed
  <2> QED BY <1>2, <2>3 DEF GuardError
<1>5. GuardsFirst'
  BY <1>2, <1>4 DEF GuardsFirst, Permitted
<1> QED BY <1>2, <1>3, <1>5, AnsweredInv

LEMMA HandleOkInv ==
  ASSUME PipeInv, where = "received", UNCHANGED <<cfg, first>>,
         NEW r, r = Modify(cfg, MiddlewareStack(cfg), msg), r.err = NoErr,
         NEW up, up = ReqUpType(msg), NEW hdr,
         hdr = PutBack(r.msg.hdr, up),
         msg' = WithHdr(r.msg, hdr).msg,
         \/ AnswerError({"pac"}) /\ UNCHANGED forwards
         \/ where' = "forwarded" /\ forwards' = forwards + 1
  PROVE  PipeInv'
<1>1. /\ cfg \in PipeConfigs /\ first \in PipeRequests /\ IsRequest(msg)
      /\ msg.method = first.method /\ forwards \in {0, 1}
      /\ forwards = 0 => msg = first
      /\ forwards = 1 => HopsLeft(cfg, first, msg, TRUE)
      /\ forwards = 1 /\ KeepsVia(Rules(cfg, first)) => Tagged(msg.hdr, cfg.tag)
      /\ forwards = 1 => Permitted(cfg, first)
  <2>1. /\ cfg \in PipeConfigs /\ first \in PipeRequests /\ IsRequest(msg)
        /\ msg.method = first.method /\ forwards \in 0 .. 2 /\ forwards <= 1
        /\ forwards = 0 => msg = first
        /\ forwards > 0 => Permitted(cfg, first)
    BY DEF PipeInv
  <2>2. forwards \in {0, 1} /\ (forwards > 0 <=> forwards = 1)
    BY <2>1
  <2>3. forwards = 1 => HopsLeft(cfg, first, msg, TRUE)
    <3>1. forwards = 1 => HopsLeft(cfg, first, msg, where = "received")
      BY <2>2 DEF PipeInv
    <3> QED BY <3>1 DEF HopsLeft
  <2>4. forwards = 1 /\ KeepsVia(Rules(cfg, first)) => Tagged(msg.hdr, cfg.tag)
    BY SMTT(30) DEF PipeInv
  <2> QED BY <2>1, <2>2, <2>3, <2>4, Zenon
<1>2. /\ Permitted(cfg, msg)
      /\ IsRequest(r.msg) /\ r.msg.method = first.method
      /\ \A n \in DOMAIN hdr : n \in ForThisHop(first.hdr) => n \in AddedBy(cfg, first)
      /\ KeepsVia(Rules(cfg, first)) => forwards = 0 /\ Tagged(hdr, cfg.tag)
  <2>1. LetsPass(cfg, first, msg, forwards, r, up, hdr)
    BY <1>1, Zenon DEF LetsPass
  <2>2. Forwards(cfg, first, msg, forwards, r, hdr)
    BY <2>1, HeadersForwarded, Zenon
  <2> QED BY <2>2, Zenon DEF Forwards
<1>3. Permitted(cfg, first)
  BY <1>1, <1>2, SMTT(30)
<1>4. IsRequest(msg') /\ msg'.hdr = hdr /\ msg'.method = first.method
  <2>1. IsRequest(r.msg) /\ r.msg.method = first.method
    BY <1>2, SMTT(30)
  <2>2. IsRequest(WithHdr(r.msg, hdr).msg) /\ WithHdr(r.msg, hdr).msg.hdr = hdr
        /\ WithHdr(r.msg, hdr).msg.method = r.msg.method
    BY <2>1, WithHdrKeeps
  <2> QED BY <2>1, <2>2, Zenon
<1>5. CASE AnswerError({"pac"}) /\ UNCHANGED forwards
  <2>1. /\ where' = "answered" /\ answer'.code # 200
        /\ DOMAIN answer'.hdr \cap HopByHopHeaders = {}
    BY <1>1, <1>5, ErrorAnswered, ZenonT(40)
  <2>2. HopHeadersStay'
    BY <2>1, Zenon DEF HopHeadersStay
  <2>3. GuardsFirst'
    BY <1>3, <2>1, SMTT(30) DEF GuardsFirst
  <2> QED BY <1>5, <2>1, <2>2, <2>3, AnsweredInv
<1>6. CASE where' = "forwarded" /\ forwards' = forwards + 1
  <2>1. HopsLeft(cfg, first, msg', FALSE)
    BY <1>2, <1>4, ZenonT(40) DEF HopsLeft
  <2>2. HopHeadersStay'
    BY <1>2, <1>4, <1>6, Zenon DEF HopHeadersStay, ForThisHop
  <2>3. GuardsFirst'
    BY <1>3, <1>6 DEF GuardsFirst
  <2>4. forwards' \in {1, 2} /\ (KeepsVia(Rules(cfg, first)) => forwards' = 1)
    <3>1. KeepsVia(Rules(cfg, first)) => forwards = 0
      BY <1>2, Zenon
    <3>2. forwards \in {0, 1} /\ forwards' = forwards + 1
      BY <1>1, <1>6, SMTT(30)
    <3> QED BY <3>1, <3>2
  <2>5. KeepsVia(Rules(cfg, first)) => Tagged(msg'.hdr, cfg.tag)
    BY <1>2, <1>4, ZenonT(40)
  <2>6. HopsLeft(cfg, first, msg', where' = "received")
    BY <1>6, <2>1 DEF HopsLeft
  <2>7. forwards' \in 0 .. 2 /\ forwards' > 0 /\ (KeepsVia(Rules(cfg, first)) => forwards' <= 1)
    BY <2>4
  <2> QED BY <1>1, <1>3, <1>4, <1>6, <2>2, <2>3, <2>5, <2>6, <2>7, ZenonT(40) DEF PipeInv
<1> QED BY <1>5, <1>6

LEMMA HandleInv == PipeInv /\ HandleRequest => PipeInv'
<1> SUFFICES ASSUME PipeInv, HandleRequest PROVE PipeInv'
  OBVIOUS
<1> DEFINE r == Modify(cfg, MiddlewareStack(cfg), msg)
           up == ReqUpType(msg)
           hdr == PutBack(r.msg.hdr, up)
<1>1. where = "received" /\ UNCHANGED <<cfg, first>>
  BY Zenon DEF HandleRequest
<1>2. CASE r.err # NoErr
  <2>1. msg' = r.msg /\ AnswerError({r.err}) /\ UNCHANGED forwards
    BY <1>2, Zenon DEF HandleRequest
  <2> HIDE DEF r
  <2>2. r = Modify(cfg, MiddlewareStack(cfg), msg)
    BY DEF r
  <2> QED BY <1>1, <1>2, <2>1, <2>2, HandleErrorInv
<1>3. CASE r.err = NoErr
  <2>1. msg' = WithHdr(r.msg, hdr).msg
    <3>1. msg' = [r.msg EXCEPT !.hdr = hdr]
      BY <1>3, Zenon DEF HandleRequest, PutBack, NoUpgrade
    <3>2. \A m, h : WithHdr(m, h).msg = [m EXCEPT !.hdr = h]
      BY Zenon DEF WithHdr, Ok
    <3> QED BY <3>1, <3>2, Zenon
  <2>2. \/ AnswerError({"pac"}) /\ UNCHANGED forwards
        \/ where' = "forwarded" /\ forwards' = forwards + 1
    BY <1>3, Zenon DEF HandleRequest
  <2> HIDE DEF r, up, hdr
  <2>3. /\ r = Modify(cfg, MiddlewareStack(cfg), msg)
        /\ up = ReqUpType(msg) /\ hdr = PutBack(r.msg.hdr, up)
    BY DEF r, up, hdr
  <2> QED BY <1>1, <1>3, <2>1, <2>2, <2>3, HandleOkInv
<1> QED BY <1>2, <1>3

LEMMA RoundTripInv ==
  PipeInv /\ (PipeRoundTrip \/ \E types \in Failures : RoundTripFails(types)) => PipeInv'
<1>1. ASSUME PipeInv, where = "forwarded" PROVE Permitted(cfg, first) /\ cfg \in PipeConfigs
             /\ msg.method = first.method
  BY <1>1 DEF PipeInv
<1>2. ASSUME PipeInv, PipeRoundTrip PROVE PipeInv'
  <2>1. where = "forwarded" /\ UNCHANGED <<cfg, first, msg, forwards>>
    BY <1>2, Zenon DEF PipeRoundTrip
  <2>2. /\ where' = "answered"
        /\ DOMAIN answer'.hdr \cap HopByHopHeaders = {}
        /\ \/ "X-Hop" \notin DOMAIN answer'.hdr
           \/ msg.method # "CONNECT"
              /\ \E i \in DOMAIN cfg.responseRules : Takes(cfg.responseRules[i], "Connection")
    BY <1>1, <1>2, <2>1, OriginAnswered
  <2>3. HopHeadersStay'
    BY <1>1, <1>2, <2>1, <2>2, SMTT(30) DEF HopHeadersStay
  <2>4. GuardsFirst'
    BY <1>1, <1>2, <2>1, <2>2 DEF GuardsFirst
  <2> QED BY <1>2, <2>1, <2>2, <2>3, <2>4, AnsweredInv
<1>3. ASSUME PipeInv, NEW types, RoundTripFails(types) PROVE PipeInv'
  <2>1. where = "forwarded" /\ UNCHANGED <<cfg, first, msg, forwards>> /\ AnswerError(types)
    BY <1>3, Zenon DEF RoundTripFails
  <2>2. /\ where' = "answered" /\ answer'.code # 200
        /\ DOMAIN answer'.hdr \cap HopByHopHeaders = {}
    BY <1>1, <1>3, <2>1, ErrorAnswered
  <2>3. HopHeadersStay'
    BY <2>2 DEF HopHeadersStay
  <2>4. GuardsFirst'
    BY <1>1, <1>3, <2>1, <2>2 DEF GuardsFirst
  <2> QED BY <1>3, <2>1, <2>2, <2>3, <2>4, AnsweredInv
<1> QED BY <1>2, <1>3

(* Whatever a proxy on the way adds to Via, the tag stays.                 *)
HasTag(lines, tag) == lines \in ViaLines /\ \E k \in DOMAIN lines[1] : lines[1][k] = tag

LEMMA ViaOnTheWay ==
  ASSUME NEW own, NEW tag, HasTag(own, tag)
  PROVE  HasTag(Append(own, <<"other">>), tag) /\ HasTag(<<Append(own[1], "other")>>, tag)
<1> DEFINE S == Seq(ViaTags)
           w == <<"other">>
           v == own[1]
           x == Append(v, "other")
<1>1. own \in Seq(S) /\ own # <<>>
  BY DEF ViaLines, HasTag
<1>2. "other" \in ViaTags
  BY PipeAssumption
<1>3. w \in S
  BY <1>2
<1>4. v \in S
  <2> HIDE DEF S
  <2> QED BY <1>1
<1>5. x \in S /\ \A k \in DOMAIN v : k \in DOMAIN x /\ x[k] = v[k]
  <2> HIDE DEF v
  <2> QED BY <1>2, <1>4
<1> HIDE DEF S, w, x
<1>6. HasTag(Append(own, w), tag)
  <2> DEFINE lines == Append(own, w)
  <2>1. lines \in Seq(S) /\ lines # <<>> /\ lines[1] = v
    BY <1>1, <1>3
  <2> HIDE DEF lines
  <2>2. HasTag(lines, tag)
    BY <2>1 DEF HasTag, ViaLines, S
  <2> QED BY <2>2 DEF lines
<1>7. HasTag(<<x>>, tag)
  <2> DEFINE lines == <<x>>
  <2>1. lines \in Seq(S) /\ lines # <<>> /\ lines[1] = x
    BY <1>5
  <2> HIDE DEF lines
  <2>2. \E k \in DOMAIN x : x[k] = tag
    BY <1>5 DEF HasTag
  <2>3. HasTag(lines, tag)
    BY <2>1, <2>2 DEF HasTag, ViaLines, S
  <2> QED BY <2>3 DEF lines
<1> QED BY <1>6, <1>7 DEF w, x

LEMMA ComesBackInv == PipeInv /\ ComesBack => PipeInv'
<1> SUFFICES ASSUME PipeInv, ComesBack PROVE PipeInv'
  OBVIOUS
<1> DEFINE own == Lines(msg.hdr, "Via")
           Next(line) == IF own = <<>> THEN <<<<"other">>>>
                         ELSE IF line THEN Append(own, <<"other">>)
                         ELSE <<Append(own[1], "other")>>
<1>1. PICK line \in BOOLEAN :
        msg' = [msg EXCEPT !.hdr = Set(With(@, "Via", Next(line)), "Proxy-Authorization", "good")]
  BY Zenon DEF ComesBack
<1> DEFINE lines == Next(line)
           h1 == With(msg.hdr, "Via", lines)
           h2 == Set(h1, "Proxy-Authorization", "good")
<1>2. msg' = WithHdr(msg, h2).msg
  BY <1>1, Zenon DEF WithHdr, Ok
<1>3. where = "forwarded" /\ forwards < 2 /\ where' = "received" /\ UNCHANGED <<cfg, first, forwards>>
  BY Zenon DEF ComesBack
<1>4. own # <<>> => lines \in {Append(own, <<"other">>), <<Append(own[1], "other")>>}
  BY Zenon
<1> HIDE DEF Next, own, lines
<1>5. /\ DOMAIN h2 = DOMAIN msg.hdr \cup {"Via", "Proxy-Authorization"}
      /\ h2["Via"] = lines
      /\ "Connection" \in DOMAIN msg.hdr => h2["Connection"] = msg.hdr["Connection"]
  <2>1. DOMAIN h1 = DOMAIN msg.hdr \cup {"Via"} /\ h1["Via"] = lines
    BY Zenon DEF With
  <2>2. "Connection" \in DOMAIN msg.hdr => h1["Connection"] = msg.hdr["Connection"]
    BY DEF With
  <2> HIDE DEF h1
  <2>3. DOMAIN h2 = DOMAIN h1 \cup {"Proxy-Authorization"}
    BY Zenon DEF Set, With
  <2>4. \A n \in DOMAIN h1 : n # "Proxy-Authorization" => h2[n] = h1[n]
    BY Zenon DEF Set, With
  <2> HIDE DEF h2
  <2> QED BY <2>1, <2>2, <2>3, <2>4
<1> HIDE DEF h1, h2
<1>6. IsRequest(msg) /\ msg.method = first.method /\ forwards = 1
      /\ HopsLeft(cfg, first, msg, FALSE) /\ Permitted(cfg, first)
      /\ (KeepsVia(Rules(cfg, first)) => Tagged(msg.hdr, cfg.tag))
  <2>1. forwards \in 0 .. 2 /\ forwards > 0
    BY <1>3 DEF PipeInv
  <2>2. forwards = 1
    BY <1>3, <2>1
  <2>3. HopsLeft(cfg, first, msg, where = "received")
    BY <1>3, <2>2 DEF PipeInv
  <2>4. HopsLeft(cfg, first, msg, FALSE)
    BY <1>3, <2>3, SMTT(30) DEF HopsLeft
  <2> QED BY <1>3, <2>2, <2>4, Zenon DEF PipeInv
<1>7. IsRequest(msg') /\ msg'.hdr = h2 /\ msg'.method = first.method
  BY <1>2, <1>6, WithHdrKeeps, SMTT(30)
<1>8. HopsLeft(cfg, first, msg', TRUE)
  <2>1. \A n \in DOMAIN h2 : n \in DOMAIN msg.hdr \/ n = "Proxy-Authorization" \/ n = "Via"
    BY <1>5
  <2>2. "Via" \in AddedBy(cfg, first)
    BY DEF AddedBy
  <2> QED BY <1>6, <1>7, <2>1, <2>2 DEF HopsLeft
<1>9. KeepsVia(Rules(cfg, first)) => Tagged(msg'.hdr, cfg.tag)
  <2> SUFFICES ASSUME KeepsVia(Rules(cfg, first)) PROVE Tagged(h2, cfg.tag)
    BY <1>7
  <2>1. ViaHas(msg.hdr, cfg.tag) /\ Elements(Lines(msg.hdr, "Connection")) \subseteq {"Upgrade"}
    BY <1>6 DEF Tagged
  <2>2. HasTag(own, cfg.tag)
    BY <2>1 DEF own, Lines, ViaHas, HasTag
  <2>3. own # <<>>
    BY <2>2 DEF ViaLines, HasTag
  <2>4. HasTag(lines, cfg.tag)
    <3>1. lines \in {Append(own, <<"other">>), <<Append(own[1], "other")>>}
      BY <1>4, <2>3
    <3> QED BY <2>2, <3>1, ViaOnTheWay, Zenon
  <2>5. ViaHas(h2, cfg.tag)
    BY <1>5, <2>4 DEF ViaHas, HasTag
  <2>6. Lines(h2, "Connection") = Lines(msg.hdr, "Connection")
    BY <1>5, SMTT(30) DEF Lines
  <2> QED BY <2>1, <2>5, <2>6 DEF Tagged
<1>10. GuardsFirst' /\ HopHeadersStay'
  BY <1>3 DEF GuardsFirst, HopHeadersStay
<1>11. HopsLeft(cfg, first, msg', where' = "received")
  BY <1>3, <1>8 DEF HopsLeft
<1> QED BY <1>3, <1>6, <1>7, <1>9, <1>10, <1>11 DEF PipeInv

LEMMA PipeNextInv == PipeInv /\ [PipeNext]_pipeVars => PipeInv'
<1> SUFFICES ASSUME PipeInv, [PipeNext]_pipeVars PROVE PipeInv'
  OBVIOUS
<1>1. CASE HandleRequest
  BY <1>1, HandleInv
<1>2. CASE PipeRoundTrip \/ \E types \in Failures : RoundTripFails(types)
  BY <1>2, RoundTripInv, SMTT(30)
<1>3. CASE ComesBack
  BY <1>3, ComesBackInv
<1>4. CASE PipeOver \/ UNCHANGED pipeVars
  <2>1. UNCHANGED <<cfg, first, msg, where, via, forwards, answer>>
    BY <1>4, ZenonT(40) DEF PipeOver, pipeVars
  <2>2. GuardsFirst' /\ HopHeadersStay'
    <3>1. GuardsFirst /\ HopHeadersStay
      BY DEF PipeInv
    <3> QED BY <2>1, <3>1 DEF GuardsFirst, HopHeadersStay
  <2> QED BY <2>1, <2>2 DEF PipeInv
<1> QED BY <1>1, <1>2, <1>3, <1>4, Zenon DEF PipeNext

(* The invariant holds, for any configurations, rules and requests.        *)
THEOREM PipeInvariant == PipeSpec => []PipeInv
<1>1. PipeInit => PipeInv
  BY PipeInitInv
<1>2. PipeInv /\ [PipeNext]_pipeVars => PipeInv'
  BY PipeNextInv
<1> QED BY <1>1, <1>2, PTL DEF PipeSpec

(* The checks come first (GuardsFirst, middlewareStack): a request that is *)
(* not authenticated or goes to a denied host is not forwarded, is         *)
(* answered as such, and no modifier has touched it, whatever the          *)
(* configuration and the request.                                          *)
THEOREM ChecksComeFirst == PipeSpec => []GuardsFirst
<1>1. PipeInv => GuardsFirst
  BY DEF PipeInv
<1> QED BY <1>1, PipeInvariant, PTL

(* Headers for one hop stay on it (HopHeadersStay, hopByHopModifier),      *)
(* whatever Connection lists and whatever rules there are, also when a     *)
(* request comes back through the proxy a second time.                     *)
THEOREM HopByHopStays == PipeSpec => []HopHeadersStay
<1>1. PipeInv => HopHeadersStay
  BY DEF PipeInv
<1> QED BY <1>1, PipeInvariant, PTL

(* A request that comes back is refused (LoopRefused, ViaModifier), for    *)
(* any rules that leave Via alone, whatever the client's Via and           *)
(* Connection have said and whatever others add.                           *)
THEOREM LoopsAreRefused == PipeSpec => []LoopRefused
<1>1. PipeInv => LoopRefused
  <2> SUFFICES ASSUME PipeInv, forwards > 1, KeepsVia(Rules(cfg, first)) PROVE FALSE
    BY DEF LoopRefused
  <2>1. forwards \in 0 .. 2 /\ forwards <= 1
    BY DEF PipeInv
  <2> QED BY <2>1
<1> QED BY <1>1, PipeInvariant, PTL
=============================================================================
