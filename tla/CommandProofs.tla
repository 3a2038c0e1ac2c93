--------------------------- MODULE CommandProofs ---------------------------
(* What "forwarder run" and its group of functions promise about their     *)
(* end, for any set of functions and of configurations, any number of      *)
(* requests and any number of signals.  Two sections follow on what passes *)
(* through the proxy it runs: what the log that the command sets up leaves *)
(* of an answer, and what becomes of the messages of a gRPC stream.        *)
EXTENDS Command, HTTPLog, GRPC, SequenceTheorems, TLAPS

(* A proxy that has been woken has closed its listeners, and one that is   *)
(* done has drained or cut its requests; it returns only then.             *)
ProxyStops ==
  \A p \in Proxies :
    /\ watcher[p] # "wait" => ~listening[p]
    /\ watcher[p] = "done" => busy[p] = 0
    /\ p \in returned => watcher[p] = "done"

(* What makes the context done is a signal or the error of a function;     *)
(* nothing is shut down, cancelled or unregistered before it is.           *)
DoneHasCause ==
  /\ groupDone => signals > 0 \/ groupErr = "err"
  /\ \A f \in Funcs :
       watcher[f] \in {"woken", "draining"} \/ funcErr[f] = "canceled" => groupDone
  /\ groupErr # "none" \/ ~notify => groupDone

(* How the process ended.                                                  *)
EndHasCause ==
  /\ process = "ended" => returned = Funcs /\ ~notify
  /\ KilledOnlyInGap

GroupInv == GroupTypeOK /\ ProxyStops /\ DoneHasCause /\ EndHasCause

(* The group starts with its functions serving.                            *)
LEMMA GroupInitInv == GroupInit => GroupInv
<1> SUFFICES ASSUME GroupInit PROVE GroupInv
  OBVIOUS
<1>1. GroupTypeOK
  <2>1. 0 \in 0 .. MaxBusy /\ 0 \in 0 .. MaxSignals
    BY RunGroupAssumption
  <2>2. busy \in [Funcs -> 0 .. MaxBusy] /\ signals \in 0 .. MaxSignals
    BY <2>1 DEF GroupInit
  <2> QED BY <2>2, Zenon DEF GroupInit, GroupTypeOK, Errors
<1>2. ProxyStops
  BY DEF GroupInit, ProxyStops, Funcs
<1>3. DoneHasCause /\ EndHasCause
  BY DEF GroupInit, DoneHasCause, EndHasCause, KilledOnlyInGap
<1> QED BY <1>1, <1>2, <1>3 DEF GroupInv

(* A step of one function while the process runs.                          *)
LEMMA FuncInv ==
  ASSUME GroupInv, process = "running", NEW f \in Funcs, Func(f)
  PROVE  GroupInv'
<1> USE RunGroupAssumption DEF GroupInv, Set
<1>1. CASE Request(f)
  <2>1. GroupTypeOK'
    BY <1>1 DEF Request, GroupTypeOK
  <2>2. ProxyStops'
    BY <1>1 DEF Request, GroupTypeOK, ProxyStops, Funcs
  <2> QED BY <1>1, <2>1, <2>2 DEF Request, DoneHasCause, EndHasCause, KilledOnlyInGap
<1>2. CASE RequestDone(f)
  <2>1. GroupTypeOK'
    BY <1>2 DEF RequestDone, GroupTypeOK
  <2>2. ProxyStops'
    BY <1>2 DEF RequestDone, GroupTypeOK, ProxyStops, Funcs
  <2> QED BY <1>2, <2>1, <2>2 DEF RequestDone, DoneHasCause, EndHasCause, KilledOnlyInGap
<1>3. CASE ServeClosed(f)
  <2>1. GroupTypeOK'
    BY <1>3 DEF ServeClosed, GroupTypeOK
  <2> QED
    BY <1>3, <2>1 DEF ServeClosed, ProxyStops, DoneHasCause, EndHasCause, KilledOnlyInGap
<1>4. CASE ServeFails(f)
  <2>1. GroupTypeOK'
    BY <1>4 DEF ServeFails, GroupTypeOK, First, Errors
  <2>2. ProxyStops' /\ EndHasCause'
    BY <1>4 DEF ServeFails, ProxyStops, EndHasCause, KilledOnlyInGap
  <2>3. DoneHasCause'
    BY <1>4 DEF ServeFails, GroupTypeOK, First, DoneHasCause
  <2> QED BY <2>1, <2>2, <2>3
<1>5. CASE Wakes(f)
  <2>1. GroupTypeOK'
    BY <1>5 DEF Wakes, GroupTypeOK
  <2>2. ProxyStops'
    BY <1>5, Zenon DEF Wakes, GroupTypeOK, ProxyStops, Funcs
  <2>3. DoneHasCause' /\ EndHasCause'
    BY <1>5 DEF Wakes, DoneHasCause, EndHasCause, KilledOnlyInGap
  <2> QED BY <2>1, <2>2, <2>3
<1>6. CASE Drains(f)
  <2>1. GroupTypeOK'
    BY <1>6 DEF Drains, GroupTypeOK
  <2>2. ProxyStops'
    BY <1>6 DEF Drains, GroupTypeOK, ProxyStops, Funcs
  <2>3. DoneHasCause' /\ EndHasCause'
    BY <1>6 DEF Drains, GroupTypeOK, DoneHasCause, EndHasCause, KilledOnlyInGap
  <2> QED BY <2>1, <2>2, <2>3
<1>7. CASE Drained(f) \/ DrainExpires(f)
  <2>1. GroupTypeOK'
    BY <1>7 DEF Drained, DrainExpires, WatcherErr, First, GroupTypeOK, Errors
  <2>2. ProxyStops'
    BY <1>7 DEF Drained, DrainExpires, GroupTypeOK, ProxyStops, Funcs
  <2>3. groupDone
    BY <1>7 DEF Drained, DrainExpires, DoneHasCause
  <2>4. DoneHasCause' /\ EndHasCause'
    BY <1>7, <2>3, Zenon DEF Drained, DrainExpires, DoneHasCause, EndHasCause, KilledOnlyInGap
  <2> QED BY <2>1, <2>2, <2>4
<1>8. CASE ShutdownTimeout(f)
  <2>1. GroupTypeOK'
    BY <1>8 DEF ShutdownTimeout, GroupTypeOK
  <2> QED
    BY <1>8, <2>1 DEF ShutdownTimeout, ProxyStops, DoneHasCause, EndHasCause, KilledOnlyInGap
<1>9. CASE FuncReturns(f)
  <2>1. funcErr[f] \in Errors /\ groupErr \in Errors
    BY DEF GroupTypeOK
  <2>2. GroupTypeOK'
    BY <1>9, <2>1 DEF FuncReturns, GroupTypeOK, First
  <2>3. ProxyStops'
    BY <1>9 DEF FuncReturns, ProxyStops
  <2>4. groupDone' => signals > 0 \/ groupErr' = "err"
    BY <1>9, <2>1, Zenon DEF FuncReturns, First, DoneHasCause, Errors
  <2>5. DoneHasCause'
    BY <1>9, <2>4, Zenon DEF FuncReturns, First, DoneHasCause
  <2>6. EndHasCause'
    BY <1>9 DEF FuncReturns, EndHasCause, KilledOnlyInGap
  <2> QED BY <2>2, <2>3, <2>5, <2>6
<1> QED BY <1>1, <1>2, <1>3, <1>4, <1>5, <1>6, <1>7, <1>8, <1>9 DEF Func

(* Every step of the group keeps the invariant.                            *)
LEMMA GroupNextInv == GroupInv /\ [GroupNext]_groupVars => GroupInv'
<1> SUFFICES ASSUME GroupInv, [GroupNext]_groupVars PROVE GroupInv'
  OBVIOUS
<1> USE RunGroupAssumption DEF GroupInv
<1>1. CASE process = "running" /\ UnregisterSignals
  BY <1>1, Zenon DEF UnregisterSignals, GroupTypeOK, ProxyStops, DoneHasCause, EndHasCause,
              KilledOnlyInGap
<1>2. CASE process = "running" /\ Signal
  <2>1. GroupTypeOK'
    BY <1>2 DEF Signal, GroupTypeOK
  <2>2. ProxyStops'
    BY <1>2 DEF Signal, ProxyStops
  <2>3. DoneHasCause'
    BY <1>2 DEF Signal, GroupTypeOK, DoneHasCause
  <2>4. EndHasCause'
    BY <1>2 DEF Signal, GroupTypeOK, DoneHasCause, EndHasCause, KilledOnlyInGap
  <2> QED BY <2>1, <2>2, <2>3, <2>4
<1>3. CASE process = "running" /\ GroupReturns
  BY <1>3 DEF GroupReturns, GroupTypeOK, ProxyStops, DoneHasCause, EndHasCause, KilledOnlyInGap
<1>4. CASE UNCHANGED groupVars
  BY <1>4 DEF groupVars, GroupTypeOK, ProxyStops, DoneHasCause, EndHasCause, KilledOnlyInGap
<1> QED BY <1>1, <1>2, <1>3, <1>4, FuncInv DEF GroupNext, GroupOver

(* The invariant of runctx.Group and the functions it runs.                *)
THEOREM GroupInvariant == GroupSpec => []GroupInv
  BY GroupInitInv, GroupNextInv, PTL DEF GroupSpec

(* RunContext returns with no request of a proxy in flight, whatever the   *)
(* other functions of the group do and in whatever order they end.         *)
THEOREM ProxyDrainedAlways == GroupSpec => []ProxyDrained
<1>1. GroupInv => ProxyDrained
  BY Zenon DEF GroupInv, ProxyStops, EndHasCause, ProxyDrained, Funcs
<1> QED BY <1>1, GroupInvariant, PTL

(* A process that ends without an error was asked to by a signal, and one  *)
(* that is killed had its shutdown begun: for any number of functions.     *)
THEOREM EndExplained == GroupSpec => [](NilMeansSignal /\ KilledOnlyInGap)
<1>1. GroupInv => NilMeansSignal /\ KilledOnlyInGap
  BY DEF GroupInv, DoneHasCause, EndHasCause, NilMeansSignal
<1> QED BY <1>1, GroupInvariant, PTL

-----------------------------------------------------------------------------
(* The group within the command: it has not begun, or it keeps its own     *)
(* invariant; a signal in the construction kills the process.              *)
CommandGroup ==
  /\ stage = "starting" => GroupInit
  /\ stage = "killed" => process = "killed"
  /\ stage # "killed" => GroupInv

LEMMA CommandGroupNext == CommandGroup /\ [CommandNext]_processVars => CommandGroup'
<1> SUFFICES ASSUME CommandGroup, [CommandNext]_processVars PROVE CommandGroup'
  OBVIOUS
<1>1. ASSUME UNCHANGED groupVars, stage' # "killed", stage # "killed",
             stage' = "starting" => stage = "starting"
      PROVE  CommandGroup'
  <2>1. GroupInv'
    BY <1>1, GroupNextInv DEF CommandGroup
  <2>2. stage' = "starting" => GroupInit'
    BY <1>1 DEF CommandGroup, GroupInit, groupVars
  <2> QED BY <1>1, <2>1, <2>2 DEF CommandGroup
<1>2. CASE StepDone
  BY <1>1, <1>2 DEF StepDone, Starting
<1>3. CASE StepFails \/ DryRun \/ RunReturned \/ Deferred
  BY <1>1, <1>3 DEF StepFails, Starting, DryRun, RunReturned, Deferred
<1>4. CASE GroupRun
  <2>1. GroupInit /\ GroupInv /\ stage' = "running"
    BY <1>4 DEF GroupRun, CommandGroup
  <2>2. GroupTypeOK'
    BY <1>4, <2>1 DEF GroupRun, GroupInv, GroupTypeOK
  <2>3. ProxyStops'
    BY <1>4, <2>1, Zenon DEF GroupRun, GroupInit, ProxyStops, Funcs
  <2>4. DoneHasCause'
    BY <1>4, <2>1 DEF GroupRun, GroupInit, DoneHasCause
  <2>5. EndHasCause'
    BY <1>4, <2>1 DEF GroupRun, GroupInit, EndHasCause, KilledOnlyInGap
  <2> QED BY <2>1, <2>2, <2>3, <2>4, <2>5 DEF CommandGroup, GroupInv
<1>5. CASE SignalWhileStarting
  BY <1>5 DEF SignalWhileStarting, CommandGroup
<1>6. CASE GroupStep
  <2>1. stage' = stage /\ stage = "running" /\ GroupInv'
    BY <1>6, GroupNextInv DEF GroupStep, CommandGroup, commandVars
  <2> QED BY <2>1 DEF CommandGroup
<1>7. CASE CommandOver \/ UNCHANGED processVars
  <2>1. UNCHANGED <<stage, groupVars>>
    BY <1>7 DEF CommandOver, processVars, commandVars
  <2>2. GroupInv => GroupInv'
    BY <2>1, GroupNextInv
  <2>3. stage = "starting" => GroupInit'
    BY <2>1 DEF CommandGroup, GroupInit, groupVars
  <2> QED BY <2>1, <2>2, <2>3 DEF CommandGroup, groupVars
<1> QED BY <1>2, <1>3, <1>4, <1>5, <1>6, <1>7 DEF CommandNext

(* The invariant of the group holds in the command that runs it.           *)
THEOREM CommandGroupInvariant == CommandSpec => []CommandGroup
<1>1. CommandInit => CommandGroup
  BY GroupInitInv DEF CommandInit, CommandGroup
<1> QED BY <1>1, CommandGroupNext, PTL DEF CommandSpec

(* Whatever the configuration, the group the command runs ends only when   *)
(* the proxy has no request under way.                                     *)
THEOREM CommandProxyDrained == CommandSpec => []ProxyDrained
<1>1. CommandGroup => ProxyDrained
  BY Zenon DEF CommandGroup, GroupInv, ProxyStops, EndHasCause, ProxyDrained, Funcs
<1> QED BY <1>1, CommandGroupInvariant, PTL

(* How the process ended says why, from the first flag to the last         *)
(* deferred call: it returns nil only after a signal, and a signal kills   *)
(* it only while its parts are built or in a shutdown that has begun.      *)
THEOREM CommandOutcomeExplained == CommandSpec => []OutcomeExplained
<1>1. CommandGroup => OutcomeExplained
  BY DEF CommandGroup, GroupInv, DoneHasCause, EndHasCause, OutcomeExplained, NilMeansSignal,
         KilledInGaps
<1> QED BY <1>1, CommandGroupInvariant, PTL

-----------------------------------------------------------------------------
KeyLogs == {"keyLog", "pacKeyLog"}
Files == {"log", "proxy", "api"} \cup KeyLogs
StartNames == {"errors_total"}
ProxyNames ==
  {"proxy_errors_total", "mitm_cache"} \cup RequestMetrics
    \cup {"listener_errors_total", "listener_cx_total", "listener_cx_active"}
ProcessNames ==
  {"gomemlimit", "gomaxprocs", "process", "go", "version", "/metrics", "/healthz", "/readyz",
   "/debug/pprof/", "/version", "/configz", "/pac", "/cacert"}
Names == StartNames \cup DialerMetrics \cup ProxyNames \cup ProcessNames

StepType == [err : BOOLEAN, metrics : SUBSET Names, must : BOOLEAN,
             opens : SUBSET Files, defers : SUBSET Files]

(* Steps that register only these names, none of them twice, and that open *)
(* nothing (but a key log) without deferring its close before the next     *)
(* step that may fail.                                                     *)
Tidy(steps, names) ==
  /\ steps \in Seq(StepType)
  /\ \A i \in DOMAIN steps : steps[i].metrics \subseteq names
  /\ \A i, j \in DOMAIN steps : i # j => steps[i].metrics \cap steps[j].metrics = {}
  /\ \A i \in DOMAIN steps : \A x \in steps[i].opens \ KeyLogs :
       \E k \in DOMAIN steps :
         k >= i /\ x \in steps[k].defers /\ \A j \in i + 1 .. k : ~steps[j].err

(* Tidy parts make a tidy whole when their metrics differ.                 *)
LEMMA TidyConcat ==
  ASSUME NEW a, NEW b, NEW m, NEW n, Tidy(a, m), Tidy(b, n), m \cap n = {}
  PROVE  Tidy(a \o b, m \cup n)
<1> DEFINE c == a \o b
           la == Len(a)
           lb == Len(b)
<1>1. /\ a \in Seq(StepType) /\ b \in Seq(StepType) /\ la \in Nat /\ lb \in Nat
      /\ DOMAIN a = 1 .. la /\ DOMAIN b = 1 .. lb
  BY LenProperties DEF Tidy
<1>2. c \in Seq(StepType) /\ DOMAIN c = 1 .. la + lb
      /\ \A i \in 1 .. la + lb : c[i] = IF i <= la THEN a[i] ELSE b[i - la]
  BY <1>1, ConcatProperties, LenProperties
<1> HIDE DEF c, la, lb
<1>3. \A i \in DOMAIN a : i \in DOMAIN c /\ c[i] = a[i] /\ i <= la
  BY <1>1, <1>2
<1>4. \A i \in DOMAIN b : i + la \in DOMAIN c /\ c[i + la] = b[i] /\ i + la > la
  <2> TAKE i \in DOMAIN b
  <2>1. i + la \in 1 .. la + lb /\ ~(i + la <= la) /\ (i + la) - la = i
    BY <1>1
  <2> QED BY <1>1, <1>2, <2>1
<1>5. \A i \in DOMAIN c : i \in DOMAIN a \/ \E k \in DOMAIN b : i = k + la
  <2> TAKE i \in DOMAIN c
  <2>1. CASE i <= la
    BY <1>1, <1>2, <2>1
  <2>2. CASE i > la
    <3>1. i - la \in 1 .. lb /\ i = (i - la) + la
      BY <1>1, <1>2, <2>2
    <3> QED BY <1>1, <3>1
  <2> QED BY <1>1, <1>2, <2>1, <2>2
<1>6. \A i \in DOMAIN c : c[i].metrics \subseteq m \cup n
  BY <1>3, <1>4, <1>5 DEF Tidy
<1>7. ASSUME NEW i \in DOMAIN c, NEW j \in DOMAIN c, i # j
      PROVE  c[i].metrics \cap c[j].metrics = {}
  <2>1. CASE i \in DOMAIN a /\ j \in DOMAIN a
    BY <1>3, <1>7, <2>1 DEF Tidy
  <2>2. CASE i \in DOMAIN a /\ \E k \in DOMAIN b : j = k + la
    <3>1. c[i].metrics \subseteq m /\ c[j].metrics \subseteq n
      BY <1>3, <1>4, <2>2 DEF Tidy
    <3> QED BY <3>1
  <2>3. CASE j \in DOMAIN a /\ \E k \in DOMAIN b : i = k + la
    <3>1. c[j].metrics \subseteq m /\ c[i].metrics \subseteq n
      BY <1>3, <1>4, <2>3 DEF Tidy
    <3> QED BY <3>1
  <2>4. ASSUME NEW k \in DOMAIN b, NEW l \in DOMAIN b, i = k + la, j = l + la
        PROVE  c[i].metrics \cap c[j].metrics = {}
    <3>1. k # l
      BY <1>1, <1>7, <2>4
    <3> QED BY <1>4, <2>4, <3>1 DEF Tidy
  <2> QED BY <1>5, <2>1, <2>2, <2>3, <2>4
<1>8. ASSUME NEW i \in DOMAIN c, NEW x \in c[i].opens \ KeyLogs
      PROVE  \E k \in DOMAIN c : k >= i /\ x \in c[k].defers /\ \A j \in i + 1 .. k : ~c[j].err
  <2>1. CASE i \in DOMAIN a
    <3>1. PICK k \in DOMAIN a : /\ k >= i /\ x \in a[k].defers
                                /\ \A j \in i + 1 .. k : ~a[j].err
      BY <1>3, <2>1 DEF Tidy
    <3>2. \A j \in i + 1 .. k : j \in DOMAIN a
      BY <1>1, <2>1, <3>1
    <3> QED BY <1>3, <3>1, <3>2
  <2>2. ASSUME NEW h \in DOMAIN b, i = h + la
        PROVE  \E k \in DOMAIN c : k >= i /\ x \in c[k].defers /\ \A j \in i + 1 .. k : ~c[j].err
    <3>1. PICK k \in DOMAIN b : /\ k >= h /\ x \in b[k].defers
                                /\ \A j \in h + 1 .. k : ~b[j].err
      BY <1>4, <2>2 DEF Tidy
    <3>2. ASSUME NEW j \in i + 1 .. k + la PROVE ~c[j].err
      <4>1. j - la \in h + 1 .. k /\ j - la \in 1 .. lb /\ j = (j - la) + la
        BY <1>1, <2>2, <3>1
      <4>2. c[(j - la) + la] = b[j - la]
        BY <1>1, <1>4, <4>1, SMTT(30)
      <4> QED BY <3>1, <4>1, <4>2
    <3>3. k + la >= i
      BY <1>1, <2>2, <3>1
    <3> QED BY <1>4, <3>1, <3>2, <3>3
  <2> QED BY <1>5, <2>1, <2>2
<1> QED BY <1>2, <1>6, <1>7, <1>8, Zenon DEF Tidy, c

LEMMA TidyWhen ==
  ASSUME NEW a, NEW m, NEW flag, Tidy(a, m)
  PROVE  Tidy(When(flag, a), m)
<1>1. Tidy(<<>>, m)
  BY DEF Tidy
<1> QED BY <1>1 DEF When

(* One step, or steps that open nothing, are tidy.                         *)
LEMMA TidyOne ==
  ASSUME NEW s \in StepType, s.opens \subseteq KeyLogs
  PROVE  Tidy(<<s>>, s.metrics)
  BY DEF Tidy

LEMMA StepFields ==
  /\ MayFail \in StepType /\ MayFail.metrics = {} /\ MayFail.opens = {}
  /\ \A names \in SUBSET Names :
       /\ Registers(names) \in StepType /\ Registers(names).metrics = names
       /\ Registers(names).opens = {} /\ ~Registers(names).err
       /\ TryRegisters(names) \in StepType /\ TryRegisters(names).metrics = names
       /\ TryRegisters(names).opens = {} /\ ~TryRegisters(names).err
  /\ \A x \in Files :
       /\ [Step EXCEPT !.defers = {x}] \in StepType
       /\ [Step EXCEPT !.defers = {x}].defers = {x} /\ [Step EXCEPT !.defers = {x}].opens = {}
       /\ [Step EXCEPT !.defers = {x}].metrics = {} /\ ~[Step EXCEPT !.defers = {x}].err
       /\ [MayFail EXCEPT !.opens = {x}] \in StepType
       /\ [MayFail EXCEPT !.opens = {x}].opens = {x}
       /\ [MayFail EXCEPT !.opens = {x}].metrics = {}
  BY Zenon DEF Step, MayFail, Registers, TryRegisters, StepType

LEMMA TidyTwo ==
  ASSUME NEW s \in StepType, NEW t \in StepType, s.opens \subseteq KeyLogs, t.opens \subseteq KeyLogs,
         s.metrics \cap t.metrics = {}
  PROVE  Tidy(<<s, t>>, s.metrics \cup t.metrics)
  BY DEF Tidy

LEMMA TidyTransport ==
  ASSUME NEW c, NEW file \in KeyLogs, NEW names \in SUBSET Names
  PROVE  Tidy(NewHTTPTransport(c, file, names), names)
<1>1. file \in Files
  BY DEF Files
<1>2. Tidy(<<MayFail>>, {})
  BY StepFields, TidyOne
<1>3. Tidy(<<[MayFail EXCEPT !.opens = {file}]>>, {})
  <2> DEFINE s == [MayFail EXCEPT !.opens = {file}]
  <2>1. s \in StepType /\ s.opens = {file} /\ s.metrics = {}
    BY <1>1, StepFields, Zenon
  <2> HIDE DEF s
  <2>2. Tidy(<<s>>, s.metrics)
    BY <2>1, TidyOne
  <2> QED BY <2>1, <2>2 DEF s
<1>4. Tidy(ConfigureTLSConfig(c, file), {} \cup {})
  BY <1>2, <1>3, TidyWhen, TidyConcat DEF ConfigureTLSConfig
<1>5. Tidy(<<Registers(names)>>, names)
  BY StepFields, TidyOne
<1>6. Tidy(ConfigureTLSConfig(c, file) \o <<Registers(names)>>, ({} \cup {}) \cup names)
  BY <1>4, <1>5, TidyConcat
<1>7. ({} \cup {}) \cup names = names
  OBVIOUS
<1> QED BY <1>6, <1>7 DEF NewHTTPTransport

LEMMA TidyPlain ==
  /\ Tidy(<<MayFail>>, {}) /\ Tidy(<<MayFail, MayFail>>, {})
  /\ Tidy(<<MayFail, MayFail, MayFail>>, {})
<1> DEFINE s == MayFail
<1>1. s \in StepType /\ s.metrics = {} /\ s.opens = {}
  BY StepFields
<1> HIDE DEF s
<1>2. Tidy(<<s>>, {}) /\ Tidy(<<s, s>>, {}) /\ Tidy(<<s, s, s>>, {})
  BY <1>1 DEF Tidy
<1> QED BY <1>2 DEF s

LEMMA TidyPrepare == ASSUME NEW c PROVE Tidy(Prepare(c), StartNames)
<1> DEFINE log == [Step EXCEPT !.defers = {"log"}]
           errors == TryRegisters({"errors_total"})
<1>1. Tidy(<<log>>, {})
  <2>1. log \in StepType /\ log.opens = {} /\ log.metrics = {}
    BY StepFields, Zenon DEF Files
  <2> HIDE DEF log
  <2> QED BY <2>1, TidyOne
<1>2. Tidy(<<errors, MayFail>>, StartNames)
  <2>1. errors \in StepType /\ errors.opens = {} /\ errors.metrics = StartNames
    BY StepFields DEF Names, StartNames
  <2> HIDE DEF errors
  <2>2. Tidy(<<errors, MayFail>>, StartNames \cup {})
    BY <2>1, StepFields, TidyTwo
  <2> QED BY <2>2
<1>3. Tidy(When(c.dns, <<MayFail>>), {})
  BY TidyPlain, TidyWhen
<1>4. Tidy(PAC(c), {})
  <2>1. Tidy(NewHTTPTransport(c, "pacKeyLog", {}), {})
    BY TidyTransport DEF KeyLogs
  <2>2. Tidy(PAC(c), {} \cup {})
    BY <2>1, TidyPlain, TidyConcat DEF PAC
  <2> QED BY <2>2
<1>5. Tidy(When(c.pac, PAC(c)), {})
  BY <1>4, TidyWhen
<1> HIDE DEF log, errors
<1> DEFINE a == <<log>> \o <<errors, MayFail>>
           b == a \o When(c.dns, <<MayFail>>)
           d == b \o When(c.pac, PAC(c))
<1>6. Tidy(a, {} \cup StartNames)
  BY <1>1, <1>2, TidyConcat
<1>7. Tidy(a, StartNames)
  BY <1>6
<1> HIDE DEF a
<1>8. Tidy(b, StartNames \cup {})
  BY <1>3, <1>7, TidyConcat
<1>9. Tidy(b, StartNames)
  BY <1>8
<1> HIDE DEF b
<1>10. Tidy(d, StartNames \cup {})
  BY <1>5, <1>9, TidyConcat
<1>11. Tidy(d, StartNames)
  BY <1>10
<1> HIDE DEF d
<1>12. Tidy(d \o <<MayFail, MayFail>>, StartNames \cup {})
  BY <1>11, TidyPlain, TidyConcat
<1>13. Prepare(c) = d \o <<MayFail, MayFail>>
  BY DEF Prepare, d, b, a, log, errors
<1> QED BY <1>12, <1>13

(* The listeners of the proxy are open when runE defers p.Close.           *)
LEMMA TidyListen ==
  Tidy(Listen \o <<[Step EXCEPT !.defers = {"proxy"}]>>,
       {"listener_errors_total", "listener_cx_total", "listener_cx_active"})
<1> DEFINE names == {"listener_errors_total", "listener_cx_total", "listener_cx_active"}
           opens == [MayFail EXCEPT !.opens = {"proxy"}]
           regs == Registers(names)
           defers == [Step EXCEPT !.defers = {"proxy"}]
           all == <<opens, regs>> \o <<defers>>
<1>1. /\ opens \in StepType /\ opens.opens = {"proxy"} /\ opens.metrics = {}
      /\ defers \in StepType /\ defers.opens = {} /\ defers.metrics = {}
      /\ defers.defers = {"proxy"} /\ ~defers.err
  BY StepFields DEF Files
<1>2. regs \in StepType /\ regs.opens = {} /\ regs.metrics = names /\ ~regs.err
  BY StepFields DEF Names, ProxyNames
<1> HIDE DEF opens, regs, defers, names
<1>3. /\ all \in Seq(StepType) /\ DOMAIN all = 1 .. 3
      /\ all[1] = opens /\ all[2] = regs /\ all[3] = defers
  <2>1. <<opens, regs>> \in Seq(StepType) /\ <<defers>> \in Seq(StepType)
        /\ Len(<<opens, regs>>) = 2 /\ Len(<<defers>>) = 1
    BY <1>1, <1>2
  <2>2. /\ all \in Seq(StepType) /\ Len(all) = 3
        /\ \A i \in 1 .. 3 : all[i] = IF i <= 2 THEN <<opens, regs>>[i] ELSE <<defers>>[i - 2]
    BY <2>1, ConcatProperties
  <2> HIDE DEF all
  <2> QED BY <2>2, LenProperties
<1> HIDE DEF all
<1>4. ASSUME NEW i \in DOMAIN all, NEW x \in all[i].opens \ KeyLogs
      PROVE  \E k \in DOMAIN all : k >= i /\ x \in all[k].defers /\ \A j \in i + 1 .. k : ~all[j].err
  <2>1. i = 1 /\ x = "proxy"
    BY <1>1, <1>2, <1>3, <1>4
  <2> QED BY <1>1, <1>2, <1>3, <2>1
<1>5. Tidy(all, names)
  BY <1>1, <1>2, <1>3, <1>4 DEF Tidy
<1> QED BY <1>5 DEF all, opens, regs, defers, names, Listen

LEMMA TidyServer == Tidy(NewHTTPServer, {})
<1> DEFINE opens == [MayFail EXCEPT !.opens = {"api"}]
           defers == [Step EXCEPT !.defers = {"api"}]
           all == <<MayFail, opens, defers>>
<1>1. /\ opens \in StepType /\ opens.opens = {"api"} /\ opens.metrics = {}
      /\ defers \in StepType /\ defers.opens = {} /\ defers.metrics = {}
      /\ defers.defers = {"api"} /\ ~defers.err
      /\ MayFail \in StepType /\ MayFail.metrics = {} /\ MayFail.opens = {}
  BY StepFields DEF Files
<1> HIDE DEF opens, defers
<1>2. /\ all \in Seq(StepType) /\ DOMAIN all = 1 .. 3
      /\ all[1] = MayFail /\ all[2] = opens /\ all[3] = defers
  BY <1>1
<1> HIDE DEF all
<1>3. ASSUME NEW i \in DOMAIN all, NEW x \in all[i].opens \ KeyLogs
      PROVE  \E k \in DOMAIN all : k >= i /\ x \in all[k].defers /\ \A j \in i + 1 .. k : ~all[j].err
  <2>1. i = 2 /\ x = "api"
    BY <1>1, <1>2, <1>3
  <2> QED BY <1>1, <1>2, <2>1
<1>4. Tidy(all, {})
  BY <1>1, <1>2, <1>3 DEF Tidy
<1> QED BY <1>4 DEF all, opens, defers, NewHTTPServer

LEMMA TidyProxy == ASSUME NEW c PROVE Tidy(NewHTTPProxy(c), ProxyNames)
<1> DEFINE n1 == {"proxy_errors_total"}
           n2 == {"mitm_cache"}
           n3 == {"listener_errors_total", "listener_cx_total", "listener_cx_active"}
           p1 == <<MayFail, Registers(n1)>>
           p2 == p1 \o When(c.mitm, MITM)
           p3 == p2 \o <<Registers(RequestMetrics)>>
           p4 == p3 \o When(c.https, <<MayFail>>)
           p5 == p4 \o <<MayFail>>
           last == Listen \o <<[Step EXCEPT !.defers = {"proxy"}]>>
<1>0. n1 \in SUBSET Names /\ n2 \in SUBSET Names /\ RequestMetrics \in SUBSET Names
  BY DEF Names, ProxyNames
<1>1. Tidy(p1, n1)
  <2>1. Tidy(p1, MayFail.metrics \cup Registers(n1).metrics)
    BY <1>0, StepFields, TidyTwo
  <2> QED BY <1>0, <2>1, StepFields
<1>2. Tidy(When(c.mitm, MITM), n2)
  <2>1. Tidy(MITM, MayFail.metrics \cup Registers(n2).metrics)
    BY <1>0, StepFields, TidyTwo DEF MITM
  <2>2. Tidy(MITM, n2)
    BY <1>0, <2>1, StepFields
  <2> QED BY <2>2, TidyWhen
<1>3. Tidy(<<Registers(RequestMetrics)>>, RequestMetrics)
  <2>1. Tidy(<<Registers(RequestMetrics)>>, Registers(RequestMetrics).metrics)
    BY <1>0, StepFields, TidyOne
  <2> QED BY <1>0, <2>1, StepFields
<1>4. Tidy(When(c.https, <<MayFail>>), {}) /\ Tidy(<<MayFail>>, {})
  BY TidyPlain, TidyWhen
<1>5. Tidy(last, n3)
  BY TidyListen
<1>6. n1 \cap n2 = {} /\ (n1 \cup n2) \cap RequestMetrics = {}
      /\ (n1 \cup n2 \cup RequestMetrics) \cap n3 = {}
      /\ ProxyNames = n1 \cup n2 \cup RequestMetrics \cup n3
  BY DEF RequestMetrics, ProxyNames
<1>7. NewHTTPProxy(c) = p5 \o last
  BY DEF NewHTTPProxy
<1> HIDE DEF p1, last, n1, n2, n3
<1>8. Tidy(p2, n1 \cup n2)
  BY <1>1, <1>2, <1>6, TidyConcat
<1> HIDE DEF p2
<1>9. Tidy(p3, n1 \cup n2 \cup RequestMetrics)
  BY <1>3, <1>6, <1>8, TidyConcat
<1> HIDE DEF p3
<1>10. Tidy(p4, (n1 \cup n2 \cup RequestMetrics) \cup {})
  BY <1>4, <1>9, TidyConcat
<1>11. Tidy(p4, n1 \cup n2 \cup RequestMetrics)
  BY <1>10
<1> HIDE DEF p4
<1>12. Tidy(p5, (n1 \cup n2 \cup RequestMetrics) \cup {})
  BY <1>4, <1>11, TidyConcat
<1>13. Tidy(p5, n1 \cup n2 \cup RequestMetrics)
  BY <1>12
<1> HIDE DEF p5
<1>14. Tidy(p5 \o last, n1 \cup n2 \cup RequestMetrics \cup n3)
  BY <1>5, <1>6, <1>13, TidyConcat
<1> QED BY <1>6, <1>7, <1>14

LEMMA TidyProcess == ASSUME NEW c PROVE Tidy(ProcessMetrics(c), ProcessNames)
<1> DEFINE own == {"gomemlimit", "gomaxprocs", "process", "go", "version"}
           s == TryRegisters(own)
           e == Registers(Endpoints(c))
<1>1. own \in SUBSET Names /\ Endpoints(c) \in SUBSET Names
  BY DEF Names, ProcessNames, Endpoints
<1>2. own \cap Endpoints(c) = {} /\ own \cup Endpoints(c) \subseteq ProcessNames
  BY DEF ProcessNames, Endpoints
<1>3. /\ s \in StepType /\ s.opens = {} /\ s.metrics = own
      /\ e \in StepType /\ e.opens = {} /\ e.metrics = Endpoints(c)
  BY <1>1, StepFields
<1>4. ProcessMetrics(c) = <<s, e>>
  BY DEF ProcessMetrics
<1> HIDE DEF own, s, e
<1>5. Tidy(<<s, e>>, own \cup Endpoints(c))
  BY <1>2, <1>3, TidyTwo
<1>6. Tidy(<<s, e>>, ProcessNames)
  BY <1>2, <1>5 DEF Tidy
<1> QED BY <1>4, <1>6

(* The construction of any configuration is tidy.                          *)
LEMMA TidySteps == ASSUME NEW c PROVE Tidy(Steps(c), Names)
<1> DEFINE t == NewHTTPTransport(c, "keyLog", DialerMetrics)
           p1 == Prepare(c) \o t
           p2 == p1 \o NewHTTPProxy(c)
           p3 == p2 \o ProcessMetrics(c)
           n1 == StartNames \cup DialerMetrics
           n2 == n1 \cup ProxyNames
<1>1. /\ StartNames \cap DialerMetrics = {} /\ n1 \cap ProxyNames = {}
      /\ n2 \cap ProcessNames = {} /\ Names = n2 \cup ProcessNames
  BY DEF StartNames, DialerMetrics, ProxyNames, RequestMetrics, ProcessNames, Names
<1>2. Tidy(t, DialerMetrics)
  <2>1. DialerMetrics \in SUBSET Names /\ "keyLog" \in KeyLogs
    BY DEF Names, KeyLogs
  <2> QED BY <2>1, TidyTransport
<1>3. Tidy(When(c.api, NewHTTPServer), {})
  BY TidyServer, TidyWhen
<1>4. Steps(c) = p3 \o When(c.api, NewHTTPServer)
  BY DEF Steps
<1> HIDE DEF t
<1>5. Tidy(p1, n1)
  BY <1>1, <1>2, TidyPrepare, TidyConcat
<1> HIDE DEF p1, n1
<1>6. Tidy(p2, n2)
  BY <1>1, <1>5, TidyProxy, TidyConcat
<1> HIDE DEF p2, n2
<1>7. Tidy(p3, Names)
  BY <1>1, <1>6, TidyProcess, TidyConcat
<1> HIDE DEF p3
<1>8. Tidy(p3 \o When(c.api, NewHTTPServer), Names \cup {})
  BY <1>3, <1>7, TidyConcat
<1> QED BY <1>4, <1>8

(* The first step defers the close of the log file, and cannot fail.       *)
Begins(steps) ==
  steps \in Seq(StepType) /\ steps # <<>> /\ steps[1] = [Step EXCEPT !.defers = {"log"}]

LEMMA BeginsConcat ==
  ASSUME NEW a, NEW b, Begins(a), b \in Seq(StepType) PROVE Begins(a \o b)
<1>1. a \in Seq(StepType) /\ Len(a) \in Nat /\ Len(b) \in Nat /\ Len(a) >= 1
  BY EmptySeq, LenProperties DEF Begins
<1>2. /\ a \o b \in Seq(StepType) /\ Len(a \o b) = Len(a) + Len(b)
      /\ \A i \in 1 .. Len(a) + Len(b) : (a \o b)[i] = IF i <= Len(a) THEN a[i] ELSE b[i - Len(a)]
  BY <1>1, ConcatProperties
<1>3. 1 \in 1 .. Len(a) + Len(b) /\ Len(a \o b) # 0
  BY <1>1, <1>2
<1>4. (a \o b)[1] = a[1]
  BY <1>1, <1>2, <1>3
<1>5. a \o b # <<>>
  BY <1>2, <1>3, EmptySeq
<1> QED BY <1>2, <1>4, <1>5 DEF Begins

LEMMA StepsBegin == ASSUME NEW c PROVE Begins(Steps(c))
<1>1. Begins(Prepare(c))
  <2> DEFINE log == [Step EXCEPT !.defers = {"log"}]
             p1 == <<TryRegisters({"errors_total"}), MayFail>>
             p2 == When(c.dns, <<MayFail>>)
             p3 == When(c.pac, PAC(c))
             p4 == <<MayFail, MayFail>>
  <2>1. log \in StepType
    BY StepFields, Zenon DEF Files
  <2>2. p1 \in Seq(StepType) /\ p4 \in Seq(StepType)
    <3>1. {"errors_total"} \in SUBSET Names
      BY DEF Names, StartNames
    <3> QED BY <3>1, StepFields
  <2>3. p2 \in Seq(StepType)
    BY TidyPlain, TidyWhen, Zenon DEF Tidy
  <2>4. p3 \in Seq(StepType)
    <3>1. Tidy(NewHTTPTransport(c, "pacKeyLog", {}), {})
      BY TidyTransport DEF KeyLogs
    <3>2. Tidy(PAC(c), {} \cup {})
      BY <3>1, TidyPlain, TidyConcat DEF PAC
    <3> QED BY <3>2, TidyWhen, Zenon DEF Tidy
  <2>5. Begins(<<log>>)
    BY <2>1 DEF Begins
  <2>6. Prepare(c) = <<log>> \o p1 \o p2 \o p3 \o p4
    BY DEF Prepare
  <2> HIDE DEF log, p1, p2, p3, p4
  <2> QED BY <2>2, <2>3, <2>4, <2>5, <2>6, BeginsConcat
<1> DEFINE q1 == NewHTTPTransport(c, "keyLog", DialerMetrics)
           q2 == NewHTTPProxy(c)
           q3 == ProcessMetrics(c)
           q4 == When(c.api, NewHTTPServer)
<1>2. q1 \in Seq(StepType) /\ q2 \in Seq(StepType) /\ q3 \in Seq(StepType) /\ q4 \in Seq(StepType)
  <2>1. DialerMetrics \in SUBSET Names /\ "keyLog" \in KeyLogs
    BY DEF Names, KeyLogs
  <2> QED BY <2>1, TidyTransport, TidyProxy, TidyProcess, TidyServer, TidyWhen, Zenon DEF Tidy
<1>3. Steps(c) = Prepare(c) \o q1 \o q2 \o q3 \o q4
  BY DEF Steps
<1> HIDE DEF q1, q2, q3, q4
<1> QED BY <1>1, <1>2, <1>3, BeginsConcat

(* What is registered, open and deferred comes from the steps that are     *)
(* done, and runE returns with the close of everything open deferred.      *)
CleanInv ==
  /\ at \in Nat \ {0}
  /\ \A x \in metrics : \E i \in DOMAIN Steps(cmd) : i < at /\ x \in Steps(cmd)[i].metrics
  /\ \A x \in open \ KeyLogs :
       x = "log" \/ \E i \in DOMAIN Steps(cmd) : i < at /\ x \in Steps(cmd)[i].opens
  /\ \A i \in DOMAIN Steps(cmd) : i < at => Steps(cmd)[i].defers \subseteq deferred
  /\ stage # "panicked"
  /\ stage = "running" => at > Len(Steps(cmd))
  /\ stage = "returning" => open \ deferred \subseteq KeyLogs
  /\ stage = "returned" => open \subseteq KeyLogs

(* The construction is over: what was opened is deferred.                  *)
LEMMA AllDeferred ==
  ASSUME CleanInv, at > Len(Steps(cmd))
  PROVE  open \ deferred \subseteq KeyLogs
<1> DEFINE S == Steps(cmd)
<1>1. /\ S \in Seq(StepType) /\ DOMAIN S = 1 .. Len(S) /\ Len(S) \in Nat /\ at \in Nat
      /\ 1 \in DOMAIN S /\ S[1].defers = {"log"}
  <2>1. Begins(S)
    BY StepsBegin
  <2>2. S \in Seq(StepType) /\ S # <<>> /\ S[1].defers = {"log"}
    BY <2>1 DEF Begins, Step
  <2> HIDE DEF S
  <2> QED BY <2>2, LenProperties, EmptySeq DEF CleanInv
<1>2. \A i \in DOMAIN S : S[i].defers \subseteq deferred
  BY <1>1 DEF CleanInv
<1>3. \A i \in DOMAIN S : \A x \in S[i].opens \ KeyLogs : \E k \in DOMAIN S : x \in S[k].defers
  BY TidySteps DEF Tidy
<1> QED BY <1>1, <1>2, <1>3 DEF CleanInv

LEMMA CleanInvInit == CommandInit => CleanInv
<1> SUFFICES ASSUME CommandInit PROVE CleanInv
  OBVIOUS
<1>1. DOMAIN Steps(cmd) \subseteq Nat \ {0}
  <2>1. Steps(cmd) \in Seq(StepType)
    BY TidySteps DEF Tidy
  <2> QED BY <2>1, LenProperties
<1> QED BY <1>1 DEF CommandInit, CleanInv, KeyLogs

LEMMA CleanInvNext == CleanInv /\ [CommandNext]_processVars => CleanInv'
<1> SUFFICES ASSUME CleanInv, [CommandNext]_processVars PROVE CleanInv'
  OBVIOUS
<1> DEFINE S == Steps(cmd)
<1>1. /\ S \in Seq(StepType) /\ DOMAIN S = 1 .. Len(S) /\ Len(S) \in Nat /\ at \in Nat \ {0}
      /\ S[1].defers = {"log"} /\ ~S[1].err
  <2>1. Begins(S)
    BY StepsBegin
  <2>2. S \in Seq(StepType) /\ S[1].defers = {"log"} /\ ~S[1].err
    BY <2>1, SMTT(30) DEF Begins, Step
  <2> HIDE DEF S
  <2> QED BY <2>2, LenProperties DEF CleanInv
<1>2. CASE StepDone
  <2>1. at \in DOMAIN S /\ cmd' = cmd /\ at' = at + 1
    BY <1>1, <1>2, SMTT(30) DEF StepDone, Starting
  <2>2. S[at].metrics \cap metrics = {}
    <3>1. \A i \in DOMAIN S : i < at => S[at].metrics \cap S[i].metrics = {}
      BY <1>1, <2>1, TidySteps DEF Tidy
    <3> QED BY <3>1 DEF CleanInv
  <2>3. /\ stage = "starting" /\ stage' = "starting"
        /\ metrics' = metrics \cup S[at].metrics
        /\ open' = open \cup S[at].opens
        /\ deferred' = deferred \cup S[at].defers
    BY <1>2, <2>2 DEF StepDone, Starting, Now
  <2>4. \A i \in DOMAIN S : (i < at + 1 <=> i < at \/ i = at) 
    BY <1>1
  <2>5. /\ \A x \in metrics' : \E i \in DOMAIN S : i < at + 1 /\ x \in S[i].metrics
        /\ \A x \in open' \ KeyLogs : x = "log" \/ \E i \in DOMAIN S : i < at + 1 /\ x \in S[i].opens
        /\ \A i \in DOMAIN S : i < at + 1 => S[i].defers \subseteq deferred'
    BY <2>1, <2>3, <2>4 DEF CleanInv
  <2> QED BY <1>1, <2>1, <2>3, <2>5, SMTT(30) DEF CleanInv
<1>3. CASE StepFails
  <2>1. at \in DOMAIN S /\ S[at].err
    BY <1>1, <1>3 DEF StepFails, Starting, Now
  <2>2. open \ deferred \subseteq KeyLogs
    <3> SUFFICES ASSUME NEW x \in open \ KeyLogs PROVE x \in deferred
      OBVIOUS
    <3>1. CASE x = "log"
      <4>1. 1 \in DOMAIN S /\ 1 < at
        BY <1>1, <2>1
      <4> QED BY <1>1, <3>1, <4>1 DEF CleanInv
    <3>2. ASSUME NEW i \in DOMAIN S, i < at, x \in S[i].opens PROVE x \in deferred
      <4>1. PICK k \in DOMAIN S : k >= i /\ x \in S[k].defers /\ \A j \in i + 1 .. k : ~S[j].err
        BY <3>2, TidySteps DEF Tidy
      <4>2. k < at
        BY <1>1, <2>1, <3>2, <4>1
      <4> QED BY <4>1, <4>2 DEF CleanInv
    <3> QED BY <3>1, <3>2 DEF CleanInv
  <2> QED BY <1>3, <2>2 DEF StepFails, CleanInv
<1>4. CASE DryRun
  BY <1>4, AllDeferred, SMTT(30) DEF DryRun, CleanInv
<1>5. CASE GroupRun
  BY <1>5, SMTT(30) DEF GroupRun, CleanInv
<1>6. CASE SignalWhileStarting
  BY <1>6, Zenon DEF SignalWhileStarting, CleanInv
<1>7. CASE GroupStep
  BY <1>7, SMTT(30) DEF GroupStep, commandVars, CleanInv
<1>8. CASE RunReturned
  <2>1. at > Len(Steps(cmd))
    BY <1>8 DEF RunReturned, CleanInv
  <2> QED BY <1>8, <2>1, AllDeferred DEF RunReturned, CleanInv
<1>9. CASE Deferred
  BY <1>9 DEF Deferred, CleanInv
<1>10. CASE CommandOver \/ UNCHANGED processVars
  BY <1>10 DEF CommandOver, processVars, commandVars, CleanInv
<1> QED BY <1>2, <1>3, <1>4, <1>5, <1>6, <1>7, <1>8, <1>9, <1>10 DEF CommandNext

(* However far the construction of runE got and whatever ended the group,  *)
(* the sockets and the log file are closed when it has returned, and no    *)
(* metric is registered twice, for every configuration.                    *)
THEOREM CommandIsClean == CommandSpec => []CommandClean
<1>1. CleanInv => CommandClean
  BY DEF CleanInv, CommandClean, KeyLogs
<1> QED BY <1>1, CleanInvInit, CleanInvNext, PTL DEF CommandSpec

-----------------------------------------------------------------------------
(* The first chunks, in order.                                             *)
Upto(q, n) == Len(q) <= n /\ \A i \in 1 .. Len(q) : q[i] = i

(* What the log has read, and what replaces it: the whole body or, where   *)
(* none is read, nothing.                                                  *)
EntryInv ==
  /\ entry \in LogEntries
  /\ taken \in Seq(Nat) /\ Upto(taken, entry.n)
  /\ logPc \in {"modify", "request", "response"} => written = <<>> /\ snap = NoSnap
  /\ logPc \in {"modify", "request"} \/ SkipBody => taken = <<>> /\ snap = NoSnap
  /\ logPc = "held" =>
       /\ ~SkipBody /\ Waits /\ written = <<>> /\ taken = <<>> /\ snap = NoSnap
  /\ logPc \in {"send", "over"} /\ ~ReadsInVain =>
       /\ (snap = NoSnap /\ taken = <<>>) \/ (snap = Chunks(entry) /\ entry.res = "body")
       /\ written \in Seq(Nat) /\ Upto(written, entry.n)
  /\ LogTransparent

LEMMA ChunksType ==
  ASSUME NEW e, e.n \in Nat
  PROVE  /\ Chunks(e) \in Seq(Nat) /\ Len(Chunks(e)) = e.n
         /\ \A i \in 1 .. e.n : Chunks(e)[i] = i
         /\ Chunks(e) # NoSnap
         /\ SubSeq(Chunks(e), 1, e.n) = Chunks(e)
         /\ \A q \in Seq(Nat) : Upto(q, e.n) /\ Len(q) = e.n => q = Chunks(e)
<1> DEFINE c == Chunks(e)
<1>1. c \in [1 .. e.n -> Nat] /\ \A i \in 1 .. e.n : c[i] = i
  BY DEF Chunks
<1> HIDE DEF c
<1>2. c \in Seq(Nat) /\ DOMAIN c = 1 .. e.n
  BY <1>1, SeqDef
<1>3. Len(c) = e.n
  BY <1>2, LenProperties
<1>4. c # NoSnap
  <2>1. NoSnap[1] = 0 /\ Len(NoSnap) = 1
    BY DEF NoSnap
  <2> QED BY <1>1, <1>3, <2>1
<1>5. SubSeq(c, 1, e.n) = c
  BY <1>2, <1>3, SubSeqFull
<1>6. ASSUME NEW q \in Seq(Nat), Upto(q, e.n), Len(q) = e.n PROVE q = c
  <2>1. \A i \in 1 .. Len(q) : q[i] = c[i]
    BY <1>1, <1>6 DEF Upto
  <2> QED BY <1>2, <1>3, <1>6, <2>1, SeqEqual, SMTT(30)
<1> QED BY <1>1, <1>2, <1>3, <1>4, <1>5, <1>6 DEF c

(* What is left to send is the body, when nothing was read in vain.        *)
LEMMA LeftIsBody ==
  ASSUME EntryInv, logPc = "send", ~ReadsInVain
  PROVE  Left = Chunks(entry)
<1>1. entry.n \in Nat
  BY HTTPLogAssumption DEF EntryInv
<1>2. CASE snap = NoSnap /\ taken = <<>>
  <2>1. Len(taken) + 1 = 1
    BY <1>2
  <2> QED BY <1>1, <1>2, <2>1, ChunksType DEF Left
<1>3. CASE snap = Chunks(entry) /\ entry.res = "body"
  BY <1>1, <1>3, ChunksType DEF Left
<1> QED BY <1>2, <1>3 DEF EntryInv

(* Reading an answer in vain is settled by the exchange and the mode.      *)
LEMMA EntryFixed ==
  ASSUME entry' = entry, mode' = mode
  PROVE  /\ SkipBody' = SkipBody /\ Waits' = Waits
         /\ ReadsInVain' = ReadsInVain /\ Chunks(entry)' = Chunks(entry)
  BY DEF SkipBody, ReadsInVain, Waits

LEMMA EntryInvNext == EntryInv /\ [EntryNext]_entryVars => EntryInv'
<1> SUFFICES ASSUME EntryInv, [EntryNext]_entryVars PROVE EntryInv'
  OBVIOUS
<1>0. entry' = entry /\ mode' = mode
  BY DEF EntryNext, LogResponse, SnapshotRequest, ReadAll, SnapshotResponse, UpgradeRefused,
         WriteChunk, WriteEnds, ClientGivesUp, WaitEnds, EntryOver, entryVars
<1>f. /\ SkipBody' = SkipBody /\ Waits' = Waits
      /\ ReadsInVain' = ReadsInVain /\ Chunks(entry)' = Chunks(entry)
  BY <1>0, EntryFixed
<1>t. /\ entry \in LogEntries /\ entry.n \in Nat /\ entry.fails \in BOOLEAN
      /\ entry.res \in {"body", "conn", "tunnel"} /\ (entry.res = "tunnel" => SkipBody)
      /\ taken \in Seq(Nat) /\ Len(taken) \in Nat
  BY HTTPLogAssumption, LenProperties DEF EntryInv, SkipBody
<1>u. Upto(<<>>, entry.n) /\ <<>> \in Seq(Nat)
  BY <1>t DEF Upto
<1>1. CASE LogResponse
  BY <1>0, <1>1, <1>f, <1>u DEF LogResponse, EntryInv, LogTransparent, SnapshotNoOp
<1>2. CASE SnapshotRequest
  BY <1>0, <1>2, <1>f, <1>u, SMTT(30) DEF SnapshotRequest, EntryInv, LogTransparent, SnapshotNoOp
<1>3. CASE ReadAll
  <2>1. Len(taken) + 1 \in Nat /\ Len(taken) + 1 <= entry.n
    BY <1>3, <1>t DEF ReadAll
  <2>2. taken' \in Seq(Nat) /\ Len(taken') = Len(taken) + 1 /\ taken'[Len(taken) + 1] = Len(taken) + 1
        /\ \A i \in 1 .. Len(taken) : taken'[i] = taken[i]
    BY <1>3, <1>t, <2>1, AppendProperties DEF ReadAll
  <2>3. Upto(taken', entry.n)
    <3>1. \A i \in 1 .. Len(taken) + 1 : i \in 1 .. Len(taken) \/ i = Len(taken) + 1
      BY <1>t
    <3>2. \A i \in 1 .. Len(taken) : taken[i] = i
      BY DEF EntryInv, Upto
    <3> QED BY <2>1, <2>2, <3>1, <3>2 DEF Upto
  <2> QED BY <1>0, <1>3, <1>f, <2>2, <2>3 DEF ReadAll, EntryInv, LogTransparent, SnapshotNoOp
<1>4. CASE SnapshotResponse
  <2>1. ~ReadsInVain /\ ~SkipBody => ~entry.fails /\ entry.res = "body"
    BY <1>t DEF ReadsInVain, SkipBody
  <2>2. ~ReadsInVain /\ ~SkipBody => snap' = Chunks(entry)
    <3>1. ~ReadsInVain /\ ~SkipBody => snap' = taken /\ Len(taken) = entry.n
      BY <1>4, <2>1 DEF SnapshotResponse
    <3> QED BY <1>t, <3>1, ChunksType DEF EntryInv
  <2>3. SkipBody => snap' = NoSnap
    BY <1>4 DEF SnapshotResponse, EntryInv
  <2>4. /\ logPc = "response" /\ logPc' = "send" /\ UNCHANGED <<taken, written>>
        /\ written = <<>>
    BY <1>4 DEF SnapshotResponse, EntryInv
  <2> QED BY <1>0, <1>f, <1>u, <2>1, <2>2, <2>3, <2>4 DEF EntryInv, LogTransparent, SnapshotNoOp
<1>5. CASE UpgradeRefused
  <2>1. ReadsInVain
    BY <1>5 DEF UpgradeRefused, EntryInv, ReadsInVain, SkipBody
  <2> QED BY <1>0, <1>5, <1>f, <2>1 DEF UpgradeRefused, EntryInv, LogTransparent
<1>6. CASE WriteChunk
  <2>1. logPc = "send" /\ logPc' = "send" /\ UNCHANGED <<taken, snap>> /\ Len(written) < Len(Left)
        /\ written' = Append(written, Left[Len(written) + 1])
    BY <1>6 DEF WriteChunk
  <2>2. ASSUME ~ReadsInVain PROVE written' \in Seq(Nat) /\ Upto(written', entry.n)
    <3> DEFINE k == Len(written)
    <3>1. /\ Left = Chunks(entry) /\ Len(Left) = entry.n /\ written \in Seq(Nat) /\ k \in Nat
          /\ Upto(written, entry.n)
      BY <1>t, <2>1, <2>2, LeftIsBody, ChunksType, LenProperties DEF EntryInv
    <3>2. k + 1 \in 1 .. entry.n /\ k + 1 \in Nat /\ k + 1 <= entry.n
      BY <1>t, <2>1, <3>1
    <3>3. Left[k + 1] = k + 1
      BY <1>t, <3>1, <3>2, ChunksType
    <3>4. /\ written' \in Seq(Nat) /\ Len(written') = k + 1 /\ written'[k + 1] = k + 1
          /\ \A i \in 1 .. k : written'[i] = written[i]
      BY <2>1, <3>1, <3>2, <3>3, AppendProperties
    <3>5. \A i \in 1 .. k + 1 : i \in 1 .. k \/ i = k + 1
      BY <3>1
    <3>6. \A i \in 1 .. k : written[i] = i
      BY <3>1 DEF Upto
    <3> QED BY <3>2, <3>4, <3>5, <3>6, SMTT(30) DEF Upto
  <2> QED BY <1>0, <1>f, <2>1, <2>2 DEF EntryInv, LogTransparent, SnapshotNoOp
<1>7. CASE WriteEnds
  <2>1. ~ReadsInVain => written = Chunks(entry)
    <3>1. ~ReadsInVain => /\ Left = Chunks(entry) /\ Len(written) = entry.n
                          /\ written \in Seq(Nat) /\ Upto(written, entry.n)
      BY <1>7, <1>t, LeftIsBody, ChunksType, ZenonT(40) DEF WriteEnds, EntryInv
    <3> QED BY <1>t, <3>1, ChunksType, SMTT(30)
  <2> QED BY <1>0, <1>7, <1>f, <2>1 DEF WriteEnds, EntryInv, LogTransparent, SnapshotNoOp
<1>8. CASE ClientGivesUp
  <2>1. ReadsInVain
    BY <1>8, <1>t DEF ClientGivesUp, EntryInv, ReadsInVain, SkipBody
  <2> QED BY <1>0, <1>8, <1>f, <2>1 DEF ClientGivesUp, EntryInv, LogTransparent
<1>w. CASE WaitEnds
  BY <1>0, <1>w, <1>f, <1>u DEF WaitEnds, EntryInv, LogTransparent, SnapshotNoOp
<1>9. CASE EntryOver \/ UNCHANGED entryVars
  BY <1>0, <1>9, <1>f DEF EntryOver, entryVars, EntryInv, LogTransparent, SnapshotNoOp
<1> QED BY <1>1, <1>2, <1>3, <1>4, <1>5, <1>6, <1>7, <1>8, <1>9, <1>w DEF EntryNext

(* Whatever the exchange and the mode, the log of httplog leaves the       *)
(* client what it would have got without it, unless it read a body that    *)
(* does not end, one that the client sends after the answer, or a          *)
(* connection.                                                             *)
THEOREM LogIsTransparent == EntrySpec => []LogTransparent
<1>1. EntryInit => EntryInv
  <2> SUFFICES ASSUME EntryInit PROVE EntryInv
    OBVIOUS
  <2>1. entry.n \in Nat
    BY HTTPLogAssumption, Zenon DEF EntryInit
  <2>2. Upto(<<>>, entry.n) /\ <<>> \in Seq(Nat)
    BY <2>1 DEF Upto
  <2> QED BY <2>2, Zenon DEF EntryInit, EntryInv, LogTransparent, SnapshotNoOp
<1>2. EntryInv => LogTransparent
  BY DEF EntryInv
<1> QED BY <1>1, <1>2, EntryInvNext, PTL DEF EntrySpec

-----------------------------------------------------------------------------
(* Module GRPC.  The adapter stands behind the messages that are out, or   *)
(* behind the prefix of the next, so that a turn of its loop passes on one *)
(* message; when the stream has ended what is buffered is whole messages,  *)
(* and the loop goes on until they are out.                                *)

(* What is known of the bytes of a stream.                                 *)
LEMMA Placement ==
  ASSUME msgs \in MessageLists
  PROVE  /\ Len(msgs) \in Nat /\ DOMAIN msgs = 1 .. Len(msgs)
         /\ \A i \in 1 .. Len(msgs) :
              /\ msgs[i].at \in Nat /\ msgs[i].len \in Nat /\ msgs[i].compressed \in BOOLEAN
              /\ Behind(msgs[i]) \in Nat
         /\ Prefix \in Nat /\ Prefix > 0
<1>1. msgs \in Seq([at : Nat, len : Nat, compressed : BOOLEAN, sound : BOOLEAN])
  BY GRPCAssumption, Zenon
<1>2. Len(msgs) \in Nat /\ DOMAIN msgs = 1 .. Len(msgs)
  BY <1>1, LenProperties
<1>3. ASSUME NEW i \in 1 .. Len(msgs)
      PROVE  msgs[i] \in [at : Nat, len : Nat, compressed : BOOLEAN, sound : BOOLEAN]
  BY <1>1, <1>2, ElementOfSeq, Zenon
<1>4. Prefix \in Nat /\ Prefix > 0
  BY GRPCAssumption
<1> QED BY <1>2, <1>3, <1>4 DEF Behind

LEMMA BehindLater ==
  ASSUME NEW m, m.at \in Nat, m.len \in Nat, Prefix \in Nat, Prefix > 0
  PROVE  Behind(m) > m.at
BY DEF Behind

(* The next message begins where those before it end, and is found there.  *)
LEMMA NextMessage ==
  ASSUME msgs \in MessageLists, NEW k \in Nat, k < Len(msgs)
  PROVE  /\ EndOf(k) \in Nat /\ msgs[k + 1].at = EndOf(k) /\ MessageAt(EndOf(k)) = k + 1
         /\ EndOf(k + 1) = EndOf(k) + Prefix + msgs[k + 1].len
         /\ EndOf(k + 1) <= Whole
<1>p. Prefix \in Nat /\ Prefix > 0 /\ Len(msgs) \in Nat
  BY Placement
<1>d. DOMAIN msgs = 1 .. Len(msgs)
  BY Placement
<1>t. \A i \in 1 .. Len(msgs) : /\ msgs[i].at \in Nat /\ msgs[i].len \in Nat
                               /\ Behind(msgs[i]) \in Nat
  BY Placement
<1>1. k + 1 \in 1 .. Len(msgs) /\ Len(msgs) \in 1 .. Len(msgs) /\ k + 1 # 0
  BY <1>p
<1>2. msgs[k + 1].at = EndOf(k) /\ EndOf(k) \in Nat
  <2>1. CASE k = 0
    <3>1. msgs # <<>>
      BY <1>1, <1>p, <1>d
    <3>2. msgs[1].at = 0
      BY <3>1, GRPCAssumption, Zenon
    <3> QED BY <2>1, <3>2 DEF EndOf
  <2>2. CASE k # 0
    <3>1. k \in 1 .. Len(msgs)
      BY <2>2, <1>p
    <3>2. Behind(msgs[k]) = msgs[k + 1].at
      BY <1>1, <1>p, <1>d, <3>1, GRPCAssumption, Zenon
    <3> QED BY <1>t, <2>2, <3>1, <3>2 DEF EndOf
  <2> QED BY <2>1, <2>2
<1>3. \A i, j \in DOMAIN msgs : i < j => Behind(msgs[i]) <= msgs[j].at
  BY GRPCAssumption, Zenon
<1>4. ASSUME NEW i \in DOMAIN msgs, msgs[i].at = EndOf(k) PROVE i = k + 1
  <2>1. i < k + 1 => Behind(msgs[i]) <= msgs[k + 1].at
    BY <1>1, <1>3, <1>p, <1>d
  <2>2. k + 1 < i => Behind(msgs[k + 1]) <= msgs[i].at
    BY <1>1, <1>3, <1>p, <1>d
  <2>3. i \in 1 .. Len(msgs)
    BY <1>p, <1>d
  <2>4. /\ msgs[i].at \in Nat /\ msgs[i].len \in Nat
        /\ msgs[k + 1].at \in Nat /\ msgs[k + 1].len \in Nat
    BY <1>1, <1>t, <2>3
  <2>5. Behind(msgs[i]) > msgs[i].at /\ Behind(msgs[k + 1]) > msgs[k + 1].at
    BY <1>p, <2>4, BehindLater, Zenon
  <2>6. Behind(msgs[i]) \in Nat /\ Behind(msgs[k + 1]) \in Nat
    BY <1>1, <1>t, <2>3
  <2> QED BY <1>1, <1>2, <1>4, <2>1, <2>2, <2>3, <2>4, <2>5, <2>6
<1>5. MessageAt(EndOf(k)) = k + 1
  BY <1>1, <1>2, <1>4, <1>p, <1>d, Zenon DEF MessageAt
<1>6. EndOf(k + 1) = EndOf(k) + Prefix + msgs[k + 1].len
  BY <1>1, <1>2, <1>p DEF EndOf, Behind
<1>7. EndOf(k + 1) <= Whole
  <2>1. CASE k + 1 = Len(msgs)
    <3>1. EndOf(k + 1) = Behind(msgs[k + 1])
      BY <1>1 DEF EndOf
    <3> QED BY <1>1, <1>t, <2>1, <3>1 DEF Whole
  <2>2. CASE k + 1 < Len(msgs)
    <3>1. Behind(msgs[k + 1]) <= msgs[Len(msgs)].at
      BY <1>1, <1>3, <1>p, <1>d, <2>2
    <3>2. Whole = Behind(msgs[Len(msgs)]) /\ EndOf(k + 1) = Behind(msgs[k + 1])
      BY <1>1 DEF EndOf, Whole
    <3>3. Behind(msgs[Len(msgs)]) >= msgs[Len(msgs)].at
      BY <1>1, <1>p, <1>t DEF Behind
    <3>4. /\ Behind(msgs[Len(msgs)]) \in Nat /\ msgs[Len(msgs)].at \in Nat
          /\ Behind(msgs[k + 1]) \in Nat
      BY <1>1, <1>t
    <3> QED BY <3>1, <3>2, <3>3, <3>4
  <2>3. k + 1 = Len(msgs) \/ k + 1 < Len(msgs)
    BY <1>p
  <2> QED BY <2>1, <2>2, <2>3
<1> QED BY <1>2, <1>5, <1>6, <1>7

(* The messages of the peer that are out.                                  *)
Passed == IF Len(out) > Len(msgs) THEN Len(msgs) ELSE Len(out)

OutFrames == [msg : Nat, len : Nat, flag : BOOLEAN, end : BOOLEAN]

GRPCTypes ==
  /\ msgs \in MessageLists
  /\ grpc \in BOOLEAN /\ peerEnd \in BOOLEAN /\ emptyEnd \in BOOLEAN
  /\ looping \in BOOLEAN /\ failed \in BOOLEAN
  /\ framed \in Nat /\ framed <= Whole
  /\ adapter \in [state : {"metadata", "data"}, taken : Nat, length : Nat, compressed : BOOLEAN]
  /\ out \in Seq(OutFrames)

(* The adapter stands behind the messages that are out, or behind the      *)
(* prefix of the next one, which it remembers.                             *)
Stands ==
  /\ adapter.taken <= framed
  /\ adapter.state = "metadata" => adapter.taken = EndOf(Passed)
  /\ adapter.state = "data" =>
       /\ Passed < Len(msgs) /\ adapter.taken = EndOf(Passed) + Prefix
       /\ adapter.length = msgs[Passed + 1].len
       /\ adapter.compressed = msgs[Passed + 1].compressed

(* An entry that carries message i, what went out, and when it ends.       *)
Carries(m, i) == m.msg = i /\ m.len = msgs[i].len /\ m.flag = msgs[i].compressed

Passes ==
  /\ \A i \in 1 .. Len(out) :
       \/ i <= Len(msgs) /\ Carries(out[i], i)
       \/ i > Len(msgs) /\ out[i].len = 0 /\ out[i].end /\ emptyEnd
  /\ \A i \in 1 .. Len(out) : out[i].end => peerEnd /\ ~looping /\ i = Len(out)

NoneEmpty == \A i \in 1 .. Len(msgs) : msgs[i].len > 0

(* Once the peer has ended the stream and the loop is over, the end is out *)
(* behind all messages: bytes that are left are those of a message, and    *)
(* the loop would have gone on.                                            *)
EndPassed ==
  peerEnd /\ ~looping /\ ~failed /\ grpc /\ NoneEmpty =>
    Len(out) = Len(msgs) + Extra /\ Len(out) > 0 /\ out[Len(out)].end

(* The loop finds its buffer empty only at the end of a stream that came   *)
(* with nothing, and is left with less than the next step needs.           *)
Loops ==
  /\ emptyEnd => peerEnd
  /\ looping /\ peerEnd /\ InBuffer = 0 => emptyEnd
  /\ NoneEmpty /\ looping /\ emptyEnd => InBuffer = 0
  /\ NoneEmpty /\ ~looping /\ ~failed /\ ~peerEnd /\ grpc =>
       /\ adapter.state = "metadata" => InBuffer < Prefix
       /\ adapter.state = "data" => InBuffer < adapter.length

AsItCame ==
  /\ encoding = "none" => framed = 0 /\ ~peerEnd /\ ~grpc
  /\ ~grpc => ~looping /\ out = <<>> /\ adapter.taken = 0 /\ adapter.state = "metadata"
  /\ ~grpc => rawOut = framed /\ rawEnd = peerEnd
  /\ peerEnd => framed = Whole

GRPCInv == GRPCTypes /\ Stands /\ Passes /\ EndPassed /\ AsItCame /\ Loops

LEMMA GRPCInitInv == GRPCInit => GRPCInv
<1> SUFFICES ASSUME GRPCInit PROVE GRPCInv
  OBVIOUS
<1>1. msgs \in MessageLists
  BY DEF GRPCInit
<1>2. Len(msgs) \in Nat /\ Whole \in Nat
  BY <1>1, Placement DEF Whole, EndOf
<1>3. out = <<>> /\ Len(out) = 0 /\ out \in Seq(OutFrames)
  BY DEF GRPCInit
<1>4. Passed = 0 /\ EndOf(0) = 0
  BY <1>2, <1>3 DEF Passed, EndOf
<1>5. adapter \in [state : {"metadata", "data"}, taken : Nat, length : Nat, compressed : BOOLEAN]
      /\ adapter.taken = 0 /\ adapter.state = "metadata"
  <2>1. adapter = [state |-> "metadata", taken |-> 0, length |-> 0, compressed |-> FALSE]
    BY Zenon DEF GRPCInit
  <2> QED BY <2>1
<1>6. framed = 0 /\ framed \in Nat /\ framed <= Whole
  BY <1>2 DEF GRPCInit
<1>7. GRPCTypes
  BY <1>1, <1>3, <1>5, <1>6, Zenon DEF GRPCInit, GRPCTypes
<1>8. Stands
  BY <1>4, <1>5, <1>6 DEF Stands
<1>9. AsItCame
  BY <1>3, <1>5, <1>6, Zenon DEF GRPCInit, AsItCame
<1>10. Passes /\ EndPassed
  <2>1. 1 .. Len(out) = {}
    BY <1>3
  <2> QED BY <2>1, Zenon DEF GRPCInit, Passes, EndPassed
<1>11. Loops
  BY Zenon DEF GRPCInit, Loops
<1> QED BY <1>7, <1>8, <1>9, <1>10, <1>11 DEF GRPCInv

LEMMA HeaderInv ==
  ASSUME GRPCInv, NEW isGrpc \in BOOLEAN, NEW enc \in {"identity", "gzip", "unknown"},
         Header(isGrpc, enc)
  PROVE  GRPCInv'
<1>1. /\ encoding = "none" /\ framed = 0 /\ ~peerEnd /\ ~grpc
      /\ UNCHANGED <<msgs, framed, peerEnd, emptyEnd, adapter, looping, out, rawOut, rawEnd>>
      /\ ~looping /\ adapter.taken = 0 /\ adapter.state = "metadata"
  BY Zenon DEF GRPCInv, AsItCame, Header
<1>2. grpc' \in BOOLEAN /\ failed' \in BOOLEAN /\ encoding' # "none"
  BY Zenon DEF Header
<1>3. UNCHANGED Passed /\ UNCHANGED Whole /\ \A k : EndOf(k)' = EndOf(k)
  BY <1>1 DEF Passed, Whole, EndOf
<1>4. GRPCTypes'
  BY <1>1, <1>2, <1>3, Zenon DEF GRPCInv, GRPCTypes
<1>5. Stands'
  BY <1>1, <1>3 DEF GRPCInv, Stands, Passed, EndOf
<1>6. Passes' /\ EndPassed'
  BY <1>1, <1>2, Zenon DEF GRPCInv, Passes, EndPassed, Carries
<1>7. AsItCame'
  BY <1>1, <1>2, <1>3, Zenon DEF GRPCInv, AsItCame
<1>8. Loops'
  <2>1. InBuffer' = 0 /\ 0 < Prefix
    BY <1>1, GRPCAssumption DEF InBuffer
  <2>2. InBuffer' < Prefix /\ adapter'.state # "data" /\ ~emptyEnd
    BY <1>1, <2>1 DEF GRPCInv, Loops
  <2> QED BY <1>1, <2>2, Zenon DEF Loops
<1> QED BY <1>4, <1>5, <1>6, <1>7, <1>8 DEF GRPCInv

(* A buffer that holds all that is left, and not enough for the next step, *)
(* is empty.                                                               *)
LEMMA Starved ==
  ASSUME GRPCInv, framed = Whole,
         adapter.state = "metadata" => InBuffer < Prefix,
         adapter.state = "data" => InBuffer < adapter.length
  PROVE  InBuffer = 0
<1>1. /\ msgs \in MessageLists /\ framed \in Nat /\ adapter.taken \in Nat /\ adapter.length \in Nat
      /\ adapter.state \in {"metadata", "data"} /\ out \in Seq(OutFrames)
  BY Zenon DEF GRPCInv, GRPCTypes
<1>2. Len(msgs) \in Nat /\ Prefix \in Nat /\ Prefix > 0 /\ Len(out) \in Nat
  BY <1>1, Placement, LenProperties
<1>3. Passed \in Nat /\ (Passed < Len(msgs) \/ Passed = Len(msgs))
  BY <1>2 DEF Passed
<1>4. CASE Passed = Len(msgs)
  <2>1. adapter.state = "metadata"
    BY <1>1, <1>2, <1>4 DEF GRPCInv, Stands
  <2>2. adapter.taken = Whole
    BY <1>4, <2>1 DEF GRPCInv, Stands, Whole
  <2> QED BY <1>1, <2>2 DEF InBuffer
<1>5. CASE Passed < Len(msgs)
  <2>1. /\ EndOf(Passed) \in Nat /\ EndOf(Passed + 1) <= Whole
        /\ EndOf(Passed + 1) = EndOf(Passed) + Prefix + msgs[Passed + 1].len
    BY <1>1, <1>3, <1>5, NextMessage
  <2>2. msgs[Passed + 1].len \in Nat
    <3>1. Passed + 1 \in 1 .. Len(msgs)
      BY <1>2, <1>3, <1>5
    <3> QED BY <1>1, <3>1, Placement, Zenon
  <2>3. /\ adapter.state = "metadata" => adapter.taken = EndOf(Passed)
        /\ adapter.state = "data" => /\ adapter.taken = EndOf(Passed) + Prefix
                                     /\ adapter.length = msgs[Passed + 1].len
    BY Zenon DEF GRPCInv, Stands
  <2> QED BY <1>1, <1>2, <2>1, <2>2, <2>3 DEF InBuffer
<1> QED BY <1>3, <1>4, <1>5

LEMMA DataInv ==
  ASSUME GRPCInv, NEW n \in Nat, NEW end \in BOOLEAN, Data(n, end)
  PROVE  GRPCInv'
<1>1. /\ encoding # "none" /\ ~peerEnd /\ ~looping /\ framed + n <= Whole
      /\ end => framed + n = Whole
      /\ framed' = framed + n /\ peerEnd' = end /\ looping' = grpc
      /\ ~failed /\ emptyEnd' = (end /\ n = 0)
      /\ UNCHANGED <<msgs, grpc, encoding, adapter, out, failed>>
      /\ ~grpc => rawOut' = rawOut + n /\ rawEnd' = end
  BY Zenon DEF Data
<1>2. UNCHANGED Passed /\ UNCHANGED Whole
  BY <1>1 DEF Passed, Whole, EndOf
<1>3. framed \in Nat /\ framed' \in Nat /\ adapter.taken \in Nat
  BY <1>1 DEF GRPCInv, GRPCTypes
<1>4. GRPCTypes'
  <2>1. emptyEnd' \in BOOLEAN
    BY <1>1
  <2> QED BY <1>1, <1>2, <1>3, <2>1, ZenonT(40) DEF GRPCInv, GRPCTypes
<1>5. Stands'
  <2>1. adapter.taken <= framed + n
    BY <1>3 DEF GRPCInv, Stands
  <2> QED BY <1>1, <1>2, <2>1 DEF GRPCInv, Stands, Passed, EndOf
<1>6. Passes' /\ EndPassed'
  <2>1. ~emptyEnd
    BY <1>1, Zenon DEF GRPCInv, Loops
  <2>2. Passes'
    BY <1>1, <2>1, Zenon DEF GRPCInv, Passes, Carries
  <2>3. CASE grpc
    BY <1>1, <2>2, <2>3, Zenon DEF EndPassed
  <2>4. CASE ~grpc
    BY <1>1, <2>2, <2>4, Zenon DEF EndPassed
  <2> QED BY <2>3, <2>4
<1>7. AsItCame'
  BY <1>1, <1>2, Zenon DEF GRPCInv, AsItCame
<1>8. Loops'
  <2>1. emptyEnd' => peerEnd'
    BY <1>1
  <2>2. looping' /\ peerEnd' /\ InBuffer' = 0 => emptyEnd'
    <3>1. adapter.taken <= framed
      BY DEF GRPCInv, Stands
    <3>2. n # 0 => InBuffer' # 0
      BY <1>1, <1>3, <3>1 DEF InBuffer
    <3> QED BY <1>1, <3>2, Zenon
  <2>3. ASSUME NoneEmpty', looping', emptyEnd' PROVE InBuffer' = 0
    <3>0. grpc /\ n = 0 /\ NoneEmpty /\ end /\ framed + n = Whole
      BY <1>1, <2>3, Zenon DEF NoneEmpty
    <3>1. grpc /\ n = 0 /\ framed = Whole /\ NoneEmpty /\ end
      BY <1>3, <3>0
    <3>2. /\ adapter.state = "metadata" => InBuffer < Prefix
          /\ adapter.state = "data" => InBuffer < adapter.length
      BY <1>1, <3>1, Zenon DEF GRPCInv, Loops
    <3>3. InBuffer = 0
      BY <3>1, <3>2, Starved
    <3> QED BY <1>1, <1>3, <3>1, <3>3 DEF InBuffer
  <2>4. ~looping' => ~grpc'
    BY <1>1
  <2> QED BY <2>1, <2>2, <2>3, <2>4, Zenon DEF Loops
<1> QED BY <1>4, <1>5, <1>6, <1>7, <1>8 DEF GRPCInv

(* In the loop no end is out, and so nothing but messages.                 *)
LEMMA InLoop ==
  ASSUME GRPCInv, looping
  PROVE  /\ grpc /\ Passed = Len(out) /\ Len(out) \in Nat /\ Len(out) <= Len(msgs)
         /\ Len(msgs) \in Nat /\ Prefix \in Nat /\ Prefix > 0
         /\ framed \in Nat /\ adapter.taken \in Nat /\ adapter.length \in Nat
         /\ adapter.state \in {"metadata", "data"} /\ adapter.compressed \in BOOLEAN
         /\ adapter.taken <= framed /\ framed <= Whole /\ Whole \in Nat
         /\ Whole = EndOf(Len(msgs)) /\ (peerEnd => framed = Whole)
         /\ \A i \in 1 .. Len(out) : ~out[i].end /\ Carries(out[i], i)
<1>1. msgs \in MessageLists /\ grpc /\ (peerEnd => framed = Whole)
  BY Zenon DEF GRPCInv, GRPCTypes, AsItCame
<1>2. Len(msgs) \in Nat /\ Whole \in Nat /\ Prefix \in Nat /\ Prefix > 0
  BY <1>1, Placement DEF Whole, EndOf
<1>3. /\ out \in Seq(OutFrames)
      /\ adapter \in [state : {"metadata", "data"}, taken : Nat, length : Nat,
                      compressed : BOOLEAN]
      /\ framed \in Nat /\ framed <= Whole /\ adapter.taken <= framed
  BY Zenon DEF GRPCInv, GRPCTypes, Stands
<1>4. Len(out) \in Nat
  BY <1>3, LenProperties
<1>5. \A i \in 1 .. Len(out) : ~out[i].end
  BY Zenon DEF GRPCInv, Passes
<1>6. \A i \in 1 .. Len(out) :
        i <= Len(msgs) /\ Carries(out[i], i)
  BY <1>5, Zenon DEF GRPCInv, Passes
<1>7. Len(out) <= Len(msgs)
  <2>1. Len(out) = 0 \/ Len(out) \in 1 .. Len(out)
    BY <1>4
  <2> QED BY <1>2, <1>4, <1>6, <2>1
<1>8. Passed = Len(out)
  BY <1>2, <1>4, <1>7 DEF Passed
<1> QED BY <1>1, <1>2, <1>3, <1>4, <1>5, <1>6, <1>7, <1>8, Zenon DEF Whole

(* A turn that adds nothing to what is out, and one that adds a message.   *)
LEMMA TurnInv ==
  ASSUME GRPCInv, looping,
         UNCHANGED <<msgs, grpc, encoding, framed, peerEnd, emptyEnd, rawOut, rawEnd>>,
         looping' \in BOOLEAN, failed' \in BOOLEAN,
         adapter' \in [state : {"metadata", "data"}, taken : Nat, length : Nat,
                       compressed : BOOLEAN],
         out' \in Seq(OutFrames),
         Stands', Passes', EndPassed', Loops'
  PROVE  GRPCInv'
<1>1. grpc /\ encoding # "none"
  BY Zenon DEF GRPCInv, AsItCame
<1>2. UNCHANGED Whole
  BY DEF Whole, EndOf
<1>3. GRPCTypes'
  BY <1>2, Zenon DEF GRPCInv, GRPCTypes
<1>4. AsItCame'
  BY <1>1, <1>2, Zenon DEF GRPCInv, AsItCame
<1> QED BY <1>3, <1>4 DEF GRPCInv

LEMMA KeptOut ==
  ASSUME GRPCInv, looping, UNCHANGED <<msgs, out, peerEnd, emptyEnd>>
  PROVE  Passes'
BY InLoop DEF GRPCInv, Passes, Carries

LEMMA AddedOut ==
  ASSUME GRPCInv, looping, UNCHANGED <<msgs, peerEnd, emptyEnd>>,
         NEW m \in OutFrames, out' = Append(out, m),
         \/ Len(out) < Len(msgs) /\ Carries(m, Len(out) + 1)
         \/ Len(out) = Len(msgs) /\ m.len = 0 /\ m.end /\ emptyEnd,
         m.end => peerEnd /\ ~looping'
  PROVE  /\ out' \in Seq(OutFrames)
         /\ Len(out)' = Len(out) + 1 /\ out'[Len(out) + 1] = m
         /\ Passes'
<1>1. /\ Len(out) \in Nat /\ Len(msgs) \in Nat /\ Len(out) <= Len(msgs)
      /\ \A i \in 1 .. Len(out) : ~out[i].end /\ Carries(out[i], i)
  BY InLoop, Zenon
<1>2. out \in Seq(OutFrames)
  BY Zenon DEF GRPCInv, GRPCTypes
<1>3. /\ out' \in Seq(OutFrames)
      /\ Len(out') = Len(out) + 1 /\ out'[Len(out) + 1] = m
      /\ \A i \in 1 .. Len(out) : out'[i] = out[i]
  BY <1>2, AppendProperties
<1>4. ASSUME NEW i \in 1 .. Len(out')
      PROVE  i \in 1 .. Len(out) \/ i = Len(out) + 1
  BY <1>1, <1>3
<1>5. ASSUME NEW i \in 1 .. Len(out')
      PROVE  \/ i <= Len(msgs) /\ Carries(out'[i], i)
             \/ i > Len(msgs) /\ out'[i].len = 0 /\ out'[i].end /\ emptyEnd
  <2>1. CASE i \in 1 .. Len(out)
    <3>1. i <= Len(msgs)
      BY <1>1, <2>1
    <3> QED BY <1>1, <1>3, <2>1, <3>1, Zenon
  <2>2. CASE i = Len(out) + 1
    <3>1. Len(out) < Len(msgs) => i <= Len(msgs)
      BY <1>1, <2>2
    <3>2. Len(out) = Len(msgs) => i > Len(msgs)
      BY <1>1, <2>2
    <3> QED BY <1>3, <2>2, <3>1, <3>2, Zenon
  <2> QED BY <1>4, <2>1, <2>2
<1>6. ASSUME NEW i \in 1 .. Len(out'), out'[i].end
      PROVE  peerEnd /\ ~looping' /\ i = Len(out')
  <2>1. i = Len(out) + 1
    BY <1>1, <1>3, <1>4, <1>6, Zenon
  <2> QED BY <1>3, <1>6, <2>1, Zenon
<1>7. Passes'
  BY <1>5, <1>6, Zenon DEF Passes, Carries
<1> QED BY <1>3, <1>7, Zenon

LEMMA ReadMetadataInv == ASSUME GRPCInv, ReadMetadata PROVE GRPCInv'
<1> DEFINE k == Len(out)
<1>1. /\ looping /\ adapter.state = "metadata" /\ adapter.taken = EndOf(k)
      /\ UNCHANGED <<msgs, grpc, encoding, framed, peerEnd, emptyEnd, rawOut, rawEnd, failed>>
      /\ failed \in BOOLEAN /\ msgs \in MessageLists
      /\ adapter \in [state : {"metadata", "data"}, taken : Nat, length : Nat,
                      compressed : BOOLEAN]
      /\ out \in Seq(OutFrames)
  BY InLoop, Zenon DEF GRPCInv, GRPCTypes, Stands, ReadMetadata
<1>2. /\ k \in Nat /\ Len(msgs) \in Nat /\ k <= Len(msgs) /\ Passed = k
      /\ Prefix \in Nat /\ Prefix > 0 /\ framed \in Nat /\ adapter.taken \in Nat
      /\ adapter.taken <= framed /\ framed <= Whole /\ Whole \in Nat
      /\ Whole = EndOf(Len(msgs)) /\ (peerEnd => framed = Whole)
  BY <1>1, InLoop, Zenon
<1>3. k < Len(msgs) =>
        /\ msgs[k + 1].at = EndOf(k) /\ MessageAt(EndOf(k)) = k + 1
        /\ EndOf(k) + Prefix + msgs[k + 1].len <= Whole
        /\ msgs[k + 1].len \in Nat /\ msgs[k + 1].compressed \in BOOLEAN
  <2> SUFFICES ASSUME k < Len(msgs)
               PROVE  /\ msgs[k + 1].at = EndOf(k) /\ MessageAt(EndOf(k)) = k + 1
                      /\ EndOf(k) + Prefix + msgs[k + 1].len <= Whole
                      /\ msgs[k + 1].len \in Nat /\ msgs[k + 1].compressed \in BOOLEAN
    OBVIOUS
  <2>1. k + 1 \in 1 .. Len(msgs)
    BY <1>2
  <2>2. msgs[k + 1].len \in Nat /\ msgs[k + 1].compressed \in BOOLEAN
    BY <1>1, <2>1, Placement, Zenon
  <2>3. /\ msgs[k + 1].at = EndOf(k) /\ MessageAt(EndOf(k)) = k + 1
        /\ EndOf(k + 1) = EndOf(k) + Prefix + msgs[k + 1].len /\ EndOf(k + 1) <= Whole
    BY <1>1, <1>2, NextMessage
  <2> QED BY <2>2, <2>3
<1> HIDE DEF k
<1>4. CASE InBuffer < Prefix /\ ~(peerEnd /\ InBuffer = 0)
  <2>1. UNCHANGED <<out, adapter>> /\ looping' = FALSE
    BY <1>4, Zenon DEF ReadMetadata
  <2>2. Passes'
    BY <1>1, <2>1, KeptOut, Zenon
  <2>3. Stands'
    BY <1>1, <2>1 DEF GRPCInv, Stands, Passed, EndOf
  <2>4. ~peerEnd
    BY <1>1, <1>2, <1>3, <1>4 DEF InBuffer
  <2>5. EndPassed'
    BY <1>1, <2>4, Zenon DEF EndPassed
  <2>6. Loops'
    <3>1. InBuffer' = InBuffer /\ ~emptyEnd
      BY <1>1, <2>1, <2>4 DEF InBuffer, GRPCInv, Loops
    <3>2. InBuffer' < Prefix /\ adapter'.state # "data"
      BY <1>1, <1>4, <2>1, <3>1
    <3> QED BY <1>1, <2>1, <3>1, <3>2, Zenon DEF Loops
  <2> QED BY <1>1, <2>1, <2>2, <2>3, <2>5, <2>6, TurnInv, Zenon
<1>5. CASE InBuffer < Prefix /\ peerEnd /\ InBuffer = 0
  <2> DEFINE m == Message(adapter, 0, TRUE)
  <2>1. UNCHANGED adapter /\ out' = Append(out, m) /\ looping' = FALSE
    BY <1>5, Zenon DEF ReadMetadata
  <2>2. m \in OutFrames /\ m.len = 0 /\ m.end
    BY <1>1 DEF Message, OutFrames
  <2>e. emptyEnd
    BY <1>1, <1>5, Zenon DEF GRPCInv, Loops
  <2>3. k = Len(msgs)
    <3>1. k < Len(msgs) => EndOf(k) < Whole
      BY <1>1, <1>2, <1>3
    <3>2. EndOf(k) = Whole
      BY <1>1, <1>2, <1>5 DEF InBuffer
    <3> QED BY <1>1, <1>2, <3>1, <3>2
  <2>4. Len(out) = Len(msgs)
    BY <2>3 DEF k
  <2> HIDE DEF m
  <2>5. /\ out' \in Seq(OutFrames)
        /\ Len(out)' = Len(out) + 1 /\ out'[Len(out) + 1] = m /\ Passes'
    BY <1>1, <1>5, <2>1, <2>2, <2>4, <2>e, AddedOut, Zenon
  <2>6. Passed' = Len(msgs)
    BY <1>1, <1>2, <2>4, <2>5 DEF Passed
  <2>7. Stands'
    BY <1>1, <1>2, <2>1, <2>3, <2>6 DEF Stands, EndOf
  <2>8. EndPassed'
    <3>1. Len(out') = Len(msgs) + 1 /\ Len(out') > 0 /\ out'[Len(out')].end
      BY <1>2, <2>2, <2>4, <2>5
    <3>2. Extra' = 1
      BY <1>1, <2>e DEF Extra
    <3> QED BY <1>1, <3>1, <3>2, Zenon DEF EndPassed
  <2>9. Loops'
    BY <1>1, <1>5, <2>1, Zenon DEF Loops
  <2> QED BY <1>1, <2>1, <2>5, <2>7, <2>8, <2>9, TurnInv, Zenon
<1>6. CASE ~(InBuffer < Prefix)
  <2>1. InBuffer # 0 /\ k < Len(msgs)
    <3>1. k = Len(msgs) => EndOf(k) = Whole
      BY <1>2
    <3> QED BY <1>1, <1>2, <1>6, <3>1 DEF InBuffer
  <2>2. /\ out' = out
        /\ adapter' = [state |-> "data", taken |-> adapter.taken + Prefix,
                       length |-> msgs[k + 1].len, compressed |-> msgs[k + 1].compressed]
        /\ looping' = (InBuffer # Prefix)
    BY <1>1, <1>3, <1>6, <2>1, ZenonT(40) DEF ReadMetadata
  <2>3. /\ adapter' \in [state : {"metadata", "data"}, taken : Nat, length : Nat,
                          compressed : BOOLEAN]
        /\ looping' \in BOOLEAN
    BY <1>2, <1>3, <2>1, <2>2, SMTT(30)
  <2>4. Passes'
    BY <1>1, <2>2, KeptOut, Zenon
  <2>5. Passed' = k
    BY <1>1, <1>2, <2>2 DEF Passed
  <2>6. Stands'
    <3>1. EndOf(k)' = EndOf(k)
      BY <1>1, <2>2 DEF EndOf, k
    <3>2. /\ adapter'.taken = adapter.taken + Prefix /\ adapter'.state = "data"
          /\ adapter'.length = msgs[k + 1].len /\ adapter'.compressed = msgs[k + 1].compressed
      BY <2>2
    <3>3. adapter.taken + Prefix <= framed
      BY <1>2, <1>6 DEF InBuffer
    <3> QED BY <1>1, <2>1, <2>5, <3>1, <3>2, <3>3 DEF Stands, EndOf
  <2>7. EndPassed'
    <3>1. ASSUME peerEnd, InBuffer = Prefix, NoneEmpty PROVE FALSE
      <4>1. k + 1 \in 1 .. Len(msgs)
        BY <1>2, <2>1
      <4>2. msgs[k + 1].len > 0
        BY <3>1, <4>1 DEF NoneEmpty
      <4> QED BY <1>1, <1>2, <1>3, <2>1, <3>1, <4>2 DEF InBuffer
    <3>2. NoneEmpty' => NoneEmpty
      BY <1>1 DEF NoneEmpty
    <3> QED BY <1>1, <2>2, <3>1, <3>2, Zenon DEF EndPassed
  <2>8. Loops'
    <3>1. /\ InBuffer' = InBuffer - Prefix /\ InBuffer \in Int /\ InBuffer > 0
          /\ adapter'.state = "data" /\ adapter'.length = msgs[k + 1].len
      BY <1>1, <1>2, <1>6, <2>2 DEF InBuffer
    <3>2. (looping' => InBuffer' # 0) /\ (~looping' => InBuffer' = 0)
      <4>1. (InBuffer = Prefix) <=> (InBuffer' = 0)
        BY <1>2, <3>1
      <4> QED BY <2>2, <4>1, Zenon
    <3>3. NoneEmpty' => ~(looping /\ emptyEnd)
      BY <1>1, <3>1 DEF GRPCInv, Loops, NoneEmpty
    <3>4. NoneEmpty' => 0 < msgs[k + 1].len
      <4>1. k + 1 \in 1 .. Len(msgs)
        BY <1>2, <2>1
      <4> QED BY <1>1, <4>1 DEF NoneEmpty
    <3>5. emptyEnd' => peerEnd'
      BY <1>1, Zenon DEF GRPCInv, Loops
    <3> QED BY <1>1, <3>1, <3>2, <3>3, <3>4, <3>5 DEF Loops
  <2> QED BY <1>1, <2>2, <2>3, <2>4, <2>6, <2>7, <2>8, TurnInv, Zenon
<1> QED BY <1>4, <1>5, <1>6

LEMMA ReadMessageDataInv == ASSUME GRPCInv, ReadMessageData PROVE GRPCInv'
<1> DEFINE k == Len(out)
           left == InBuffer - adapter.length
           spoilt == adapter.compressed /\ encoding # "identity" /\ ~msgs[k + 1].sound
<1>1. /\ looping /\ adapter.state = "data" /\ adapter.taken = EndOf(k) + Prefix
      /\ k < Len(msgs) /\ adapter.length = msgs[k + 1].len
      /\ adapter.compressed = msgs[k + 1].compressed
      /\ UNCHANGED <<msgs, grpc, encoding, framed, peerEnd, emptyEnd, rawOut, rawEnd>>
      /\ failed \in BOOLEAN /\ msgs \in MessageLists
      /\ adapter \in [state : {"metadata", "data"}, taken : Nat, length : Nat,
                      compressed : BOOLEAN]
      /\ out \in Seq(OutFrames)
  BY InLoop, Zenon DEF GRPCInv, GRPCTypes, Stands, ReadMessageData
<1>2. /\ k \in Nat /\ Len(msgs) \in Nat /\ Passed = k
      /\ Prefix \in Nat /\ Prefix > 0 /\ framed \in Nat /\ adapter.taken \in Nat
      /\ adapter.length \in Nat
      /\ adapter.taken <= framed /\ framed <= Whole /\ Whole \in Nat
      /\ Whole = EndOf(Len(msgs)) /\ (peerEnd => framed = Whole)
  BY <1>1, InLoop, Zenon
<1>3. /\ EndOf(k) \in Nat /\ MessageAt(EndOf(k)) = k + 1
      /\ EndOf(k + 1) = EndOf(k) + Prefix + msgs[k + 1].len /\ EndOf(k + 1) <= Whole
  BY <1>1, <1>2, NextMessage
<1>4. MessageAt(adapter.taken - Prefix) = k + 1
  <2>1. adapter.taken - Prefix = EndOf(k)
    BY <1>1, <1>2, <1>3
  <2> QED BY <1>3, <2>1
<1>l. k \in Nat /\ Len(msgs) \in Nat /\ k < Len(msgs) /\ k + 1 \in Nat
  BY <1>1, <1>2
<1>5. /\ adapter.taken + adapter.length = EndOf(k + 1) /\ EndOf(k + 1) <= Whole
      /\ adapter.taken \in Nat /\ adapter.length \in Nat /\ framed \in Nat /\ Whole \in Nat
      /\ left = framed - adapter.taken - adapter.length /\ (peerEnd => framed = Whole)
  BY <1>1, <1>2, <1>3 DEF InBuffer
<1> HIDE DEF k
<1>6. CASE left < 0 \/ spoilt
  <2>1. looping' = FALSE /\ failed' = (left >= 0) /\ UNCHANGED <<adapter, out>>
    BY <1>4, <1>6, Zenon DEF ReadMessageData
  <2>2. Passes'
    BY <1>1, <2>1, KeptOut, ZenonT(40)
  <2>3. Stands'
    BY <1>1, <2>1 DEF GRPCInv, Stands, Passed, EndOf
  <2>4. peerEnd => left >= 0
    <3> HIDE DEF left
    <3> QED BY <1>5
  <2>5. EndPassed'
    BY <1>1, <2>1, <2>4, Zenon DEF EndPassed
  <2>6. looping' \in BOOLEAN /\ failed' \in BOOLEAN
    <3>1. CASE left >= 0
      BY <2>1, <3>1, Zenon
    <3>2. CASE ~(left >= 0)
      <4>1. (left >= 0) = FALSE
        BY <3>2
      <4> QED BY <2>1, <4>1, Zenon
    <3> QED BY <3>1, <3>2, Zenon
  <2>7. /\ adapter' \in [state : {"metadata", "data"}, taken : Nat, length : Nat,
                          compressed : BOOLEAN]
        /\ out' \in Seq(OutFrames)
    BY <1>1, <2>1, Zenon
  <2>8. Loops'
    <3>1. InBuffer' = InBuffer /\ (emptyEnd => peerEnd)
      BY <1>1, <2>1 DEF InBuffer, GRPCInv, Loops
    <3>2. ~failed' => InBuffer < adapter.length
      <4>1. left >= 0 \/ InBuffer < adapter.length
        BY <1>5 DEF InBuffer
      <4> QED BY <2>1, <4>1, Zenon
    <3>3. adapter'.state = "data" /\ adapter'.length = adapter.length
      BY <1>1, <2>1, Zenon
    <3> QED BY <1>1, <2>1, <3>1, <3>2, <3>3 DEF Loops
  <2> QED BY <1>1, <2>2, <2>3, <2>5, <2>6, <2>7, <2>8, TurnInv, Zenon
<1>7. CASE ~(left < 0) /\ ~spoilt
  <2> DEFINE m == Message(adapter, k + 1, peerEnd /\ left = 0)
  <2>1. /\ adapter' = [adapter EXCEPT !.state = "metadata", !.taken = @ + adapter.length]
        /\ out' = Append(out, m) /\ looping' = (left # 0) /\ UNCHANGED failed
    BY <1>4, <1>7, Zenon DEF ReadMessageData, EndsHere
  <2>2. /\ adapter' \in [state : {"metadata", "data"}, taken : Nat, length : Nat,
                          compressed : BOOLEAN]
        /\ adapter'.state = "metadata" /\ adapter'.taken = EndOf(k + 1)
    <3>1. /\ adapter \in [state : {"metadata", "data"}, taken : Nat, length : Nat,
                           compressed : BOOLEAN]
          /\ adapter.taken + adapter.length = EndOf(k + 1) /\ adapter.taken \in Nat
          /\ adapter.length \in Nat
      BY <1>1, <1>2, <1>5, Zenon
    <3>2. adapter' = [adapter EXCEPT !.state = "metadata", !.taken = @ + adapter.length]
      BY <2>1, Zenon
    <3>3. adapter.taken + adapter.length \in Nat
      BY <3>1
    <3> HIDE DEF left, spoilt, m
    <3> QED BY <3>1, <3>2, <3>3, Zenon
  <2>3. /\ m \in OutFrames
        /\ Carries(m, k + 1)
        /\ m.end = (peerEnd /\ left = 0)
    <3>1. /\ peerEnd \in BOOLEAN /\ adapter.compressed \in BOOLEAN /\ k + 1 \in Nat /\ k + 1 # 0
          /\ msgs[k + 1].len \in Nat
      BY <1>1, <1>2 DEF GRPCInv, GRPCTypes
    <3>2. m = [msg |-> k + 1, len |-> msgs[k + 1].len, flag |-> adapter.compressed,
               end |-> peerEnd /\ left = 0]
      BY <3>1, Zenon DEF Message
    <3> HIDE DEF m, left
    <3> QED BY <1>1, <3>1, <3>2, Zenon DEF OutFrames, Carries
  <2> HIDE DEF m, left, spoilt
  <2>e. NoneEmpty' => ~emptyEnd
    <3>1. NoneEmpty' => adapter.length > 0
      <4>1. k + 1 \in 1 .. Len(msgs)
        BY <1>l
      <4> QED BY <1>1, <4>1 DEF NoneEmpty
    <3>2. NoneEmpty' => NoneEmpty
      BY <1>1 DEF NoneEmpty
    <3>3. NoneEmpty /\ emptyEnd => InBuffer = 0
      BY <1>1, Zenon DEF GRPCInv, Loops
    <3>4. adapter.length > 0 => InBuffer # 0
      BY <1>5, <1>7 DEF InBuffer
    <3> QED BY <3>1, <3>2, <3>3, <3>4, Zenon
  <2>4. /\ out' \in Seq(OutFrames)
        /\ Len(out)' = k + 1 /\ out'[k + 1] = m /\ Passes'
    BY <1>1, <2>1, <2>3, AddedOut, Zenon DEF k
  <2>5. Passed' = k + 1
    <3>1. msgs' = msgs /\ Len(out') = k + 1
      BY <1>1, <2>4, ZenonT(40)
    <3> QED BY <1>l, <3>1 DEF Passed
  <2>6. Stands'
    <3>1. EndOf(k + 1) <= framed
      BY <1>5, <1>7
    <3> QED BY <1>1, <2>2, <2>5, <3>1 DEF Stands, EndOf
  <2>7. EndPassed'
    <3>1. ASSUME peerEnd, left = 0 PROVE Len(msgs) = k + 1
      <4>1. EndOf(k + 1) = Whole
        BY <1>5, <3>1
      <4>2. CASE k + 1 < Len(msgs)
        <5>0. k + 1 \in Nat /\ k + 1 + 1 \in 1 .. Len(msgs)
          BY <1>l, <4>2
        <5>1. /\ EndOf(k + 1 + 1) = EndOf(k + 1) + Prefix + msgs[k + 1 + 1].len
              /\ EndOf(k + 1 + 1) <= Whole
          BY <1>1, <4>2, <5>0, NextMessage, Zenon
        <5>2. msgs[k + 1 + 1].len \in Nat
          BY <1>1, <5>0, Placement, Zenon
        <5> QED BY <1>2, <4>1, <5>1, <5>2, SMTT(30)
      <4> QED BY <1>l, <4>2
    <3>2. k + 1 > 0 /\ k + 1 + 0 = k + 1
      BY <1>l
    <3>3. NoneEmpty' => Extra' = 0
      BY <1>1, <2>e DEF Extra
    <3> QED BY <1>1, <2>1, <2>3, <2>4, <3>1, <3>2, <3>3, Zenon DEF EndPassed
  <2>8. looping' \in BOOLEAN
    BY <2>1
  <2>9. Loops'
    <3>0. framed' = framed /\ adapter'.taken = adapter.taken + adapter.length
      BY <1>1, <1>5, <2>2, Zenon
    <3>1. InBuffer' = left /\ adapter'.state = "metadata" /\ 0 < Prefix
      BY <1>2, <1>5, <2>2, <3>0 DEF InBuffer
    <3>2. emptyEnd => peerEnd
      BY Zenon DEF GRPCInv, Loops
    <3> QED BY <1>1, <2>1, <2>e, <3>1, <3>2 DEF Loops
  <2> QED BY <1>1, <2>1, <2>2, <2>4, <2>6, <2>7, <2>8, <2>9, TurnInv, Zenon
<1> QED BY <1>6, <1>7

(* The invariant of the adapter, for any messages and any cut of their     *)
(* bytes into frames.                                                      *)
THEOREM GRPCInvariant == GRPCSpec => []GRPCInv
<1>1. GRPCInv /\ [GRPCNext]_grpcVars => GRPCInv'
  <2> SUFFICES ASSUME GRPCInv, [GRPCNext]_grpcVars PROVE GRPCInv'
    OBVIOUS
  <2>1. CASE \E isGrpc \in BOOLEAN, enc \in {"identity", "gzip", "unknown"} : Header(isGrpc, enc)
    BY <2>1, HeaderInv, Zenon
  <2>2. CASE \E n \in 0 .. Whole, end \in BOOLEAN : Data(n, end)
    <3>1. PICK n \in 0 .. Whole, end \in BOOLEAN : Data(n, end)
      BY <2>2, ZenonT(40)
    <3>2. msgs \in MessageLists
      BY Zenon DEF GRPCInv, GRPCTypes
    <3>3. Whole \in Nat
      BY <3>2, Placement DEF Whole, EndOf
    <3>4. n \in Nat
      BY <3>1, <3>3
    <3> QED BY <3>1, <3>4, DataInv, Zenon
  <2>3. CASE ReadMetadata
    BY <2>3, ReadMetadataInv
  <2>4. CASE ReadMessageData
    BY <2>4, ReadMessageDataInv
  <2>5. CASE UNCHANGED grpcVars
    <3>1. UNCHANGED Whole
      BY <2>5 DEF grpcVars, Whole, EndOf
    <3>2. GRPCTypes' /\ AsItCame'
      BY <2>5, <3>1, ZenonT(40) DEF GRPCInv, GRPCTypes, AsItCame, grpcVars
    <3>3. Stands'
      BY <2>5 DEF GRPCInv, Stands, Passed, EndOf, grpcVars
    <3>4. Passes' /\ EndPassed'
      BY <2>5, Zenon DEF GRPCInv, Passes, EndPassed, NoneEmpty, Carries, Extra, grpcVars
    <3>5. Loops'
      BY <2>5, Zenon DEF GRPCInv, Loops, NoneEmpty, InBuffer, grpcVars
    <3> QED BY <3>2, <3>3, <3>4, <3>5 DEF GRPCInv
  <2> QED BY <2>1, <2>2, <2>3, <2>4, <2>5, Zenon DEF GRPCNext
<1> QED BY <1>1, GRPCInitInv, PTL DEF GRPCSpec

(* gRPC messages go out whole (MessagesWhole, adapter.Data): for any       *)
(* messages that are not empty, any compression and any cut of their bytes *)
(* into DATA frames; and exactly one empty message is added, exactly when  *)
(* the last frame had no bytes.                                            *)
THEOREM MessagesGoOutWhole == GRPCSpec => [](NoneEmpty => MessagesWhole)
<1>1. GRPCInv => (NoneEmpty => MessagesWhole)
  <2> SUFFICES ASSUME GRPCInv, NoneEmpty PROVE MessagesWhole
    OBVIOUS
  <2>1. DOMAIN out = 1 .. Len(out)
    BY LenProperties DEF GRPCInv, GRPCTypes
  <2>2. peerEnd /\ ~looping /\ ~failed /\ grpc =>
          Len(out) = Len(msgs) + Extra /\ Len(out) > 0 /\ out[Len(out)].end
    BY Zenon DEF GRPCInv, EndPassed
  <2>3. peerEnd /\ ~grpc => rawOut = Whole /\ rawEnd
    BY Zenon DEF GRPCInv, AsItCame
  <2>4. /\ \A i \in DOMAIN out :
             \/ /\ i <= Len(msgs) /\ out[i].msg = i
                /\ out[i].len = msgs[i].len /\ out[i].flag = msgs[i].compressed
             \/ i > Len(msgs) /\ out[i].len = 0 /\ out[i].end /\ emptyEnd
        /\ \A i \in DOMAIN out : out[i].end => peerEnd /\ i = Len(out)
    BY <2>1, Zenon DEF GRPCInv, Passes, Carries
  <2> QED BY <2>2, <2>3, <2>4, Zenon DEF MessagesWhole
<1> QED BY <1>1, GRPCInvariant, PTL

=============================================================================
