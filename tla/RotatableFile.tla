--------------------------- MODULE RotatableFile ---------------------------
(* log/rotate.go: the log file that is reopened on SIGHUP while others     *)
(* write to it.  A writer loads the pointer to the file and writes to what *)
(* it loaded; Reopen swaps the pointer and closes the old file after a     *)
(* grace period, which a writer is taken to need less than.                *)
EXTENDS Naturals, FiniteSets

CONSTANTS
  LogWriters,   \* goroutines that log
  Reopeners,    \* callers of Reopen beside the goroutine that serves SIGHUP
  Hup,          \* that goroutine
  MaxFiles,     \* bound on the files opened
  MaxLines,     \* bound on the lines of a writer
  Grace         \* the 5 seconds of AfterFunc, in units a Write stays below

ASSUME RotatableFileAssumption ==
  /\ MaxFiles \in Nat \ {0} /\ MaxLines \in Nat /\ Grace \in Nat \ {0}
  /\ Hup \notin Reopeners

VARIABLES
  current,    \* w.f
  opened,     \* files opened so far: 1..opened, the first is the caller's
  closedF,    \* those that were closed
  timer,      \* per file: units until AfterFunc closes it, or 0
  wpc,        \* per writer: "idle" or "write"
  wfile,      \* the file it loaded
  lines,      \* lines it logged
  lost,       \* writes that met a closed file before Close was called
  opc,        \* per reopener: "idle" or "swap"; Hup also "gone"
  ofile,      \* the file it opened
  sigs,       \* the channel w.ch, of capacity 1: "none", "hup" or "close"
  cpc         \* Close: "no", "file" once it told the goroutine, "closed"

logVars == <<current, opened, closedF, timer, wpc, wfile, lines, lost, opc, ofile, sigs, cpc>>

AllReopeners == Reopeners \cup {Hup}

LogInit ==
  /\ current = 1 /\ opened = 1 /\ closedF = {}
  /\ timer = [f \in 1..MaxFiles |-> 0]
  /\ wpc = [w \in LogWriters |-> "idle"] /\ wfile = [w \in LogWriters |-> 1]
  /\ lines = [w \in LogWriters |-> 0] /\ lost = 0
  /\ opc = [r \in AllReopeners |-> "idle"] /\ ofile = [r \in AllReopeners |-> 1]
  /\ sigs = "none" /\ cpc = "no"

(* Write: w.file(). *)
LoadFile(w) ==
  /\ wpc[w] = "idle" /\ lines[w] < MaxLines
  /\ wpc' = [wpc EXCEPT ![w] = "write"]
  /\ wfile' = [wfile EXCEPT ![w] = current]
  /\ UNCHANGED <<current, opened, closedF, timer, lines, lost, opc, ofile, sigs, cpc>>

(* Write: the write itself, which a closed file refuses. *)
WriteLine(w) ==
  /\ wpc[w] = "write"
  /\ wpc' = [wpc EXCEPT ![w] = "idle"]
  /\ lines' = [lines EXCEPT ![w] = @ + 1]
  /\ lost' = IF wfile[w] \in closedF /\ cpc = "no" THEN lost + 1 ELSE lost
  /\ UNCHANGED <<current, opened, closedF, timer, wfile, opc, ofile, sigs, cpc>>

(* signal.Notify drops a signal the channel has no room for. *)
SIGHUP ==
  /\ sigs = "none" /\ opc[Hup] # "gone" /\ opened < MaxFiles
  /\ sigs' = "hup"
  /\ UNCHANGED <<current, opened, closedF, timer, wpc, wfile, lines, lost, opc, ofile, cpc>>

(* Reopen: os.OpenFile; if it fails the old file stays. *)
OpenFile(r) ==
  /\ opened < MaxFiles
  /\ opened' = opened + 1
  /\ ofile' = [ofile EXCEPT ![r] = opened + 1]
  /\ opc' = [opc EXCEPT ![r] = "swap"]

Reopen(r) ==
  /\ r # Hup /\ opc[r] = "idle"
  /\ OpenFile(r)
  /\ UNCHANGED <<current, closedF, timer, wpc, wfile, lines, lost, sigs, cpc>>

(* reopenOnSIGHUP takes the next signal. *)
TakeSignal ==
  /\ opc[Hup] = "idle" /\ sigs # "none"
  /\ sigs' = "none"
  /\ \/ sigs = "hup" /\ OpenFile(Hup)
     \/ sigs = "hup" /\ UNCHANGED <<opened, ofile, opc>>
     \/ sigs = "close" /\ opc' = [opc EXCEPT ![Hup] = "gone"] /\ UNCHANGED <<opened, ofile>>
  /\ UNCHANGED <<current, closedF, timer, wpc, wfile, lines, lost, cpc>>

(* Mutant: the old file is closed as soon as it is swapped out. *)
SwapFileAtOnce(r) ==
  /\ opc[r] = "swap"
  /\ opc' = [opc EXCEPT ![r] = "idle"]
  /\ current' = ofile[r]
  /\ closedF' = closedF \cup {current}
  /\ UNCHANGED <<opened, timer, wpc, wfile, lines, lost, ofile, sigs, cpc>>

SwapFile(r) ==
  /\ opc[r] = "swap"
  /\ opc' = [opc EXCEPT ![r] = "idle"]
  /\ current' = ofile[r]
  /\ timer' = [timer EXCEPT ![current] = Grace]
  /\ UNCHANGED <<opened, closedF, wpc, wfile, lines, lost, ofile, sigs, cpc>>

(* A unit of time, in which every Write under way is done with; the files  *)
(* whose AfterFunc is due are closed.                                      *)
GraceTick ==
  /\ \E f \in 1..MaxFiles : timer[f] > 0
  /\ \A w \in LogWriters : wpc[w] = "idle"
  /\ timer' = [f \in 1..MaxFiles |-> IF timer[f] > 0 THEN timer[f] - 1 ELSE 0]
  /\ closedF' = closedF \cup {f \in 1..MaxFiles : timer[f] = 1}
  /\ UNCHANGED <<current, opened, wpc, wfile, lines, lost, opc, ofile, sigs, cpc>>

(* Close: the goroutine is told, once the channel has room for it ... *)
CloseSend ==
  /\ cpc = "no" /\ sigs = "none"
  /\ sigs' = "close" /\ cpc' = "file"
  /\ UNCHANGED <<current, opened, closedF, timer, wpc, wfile, lines, lost, opc, ofile>>

(* ... and the file of the moment is closed. *)
CloseFile ==
  /\ cpc = "file"
  /\ cpc' = "closed" /\ closedF' = closedF \cup {current}
  /\ UNCHANGED <<current, opened, timer, wpc, wfile, lines, lost, opc, ofile, sigs>>

LogNext ==
  \/ SIGHUP \/ TakeSignal \/ GraceTick \/ CloseSend \/ CloseFile
  \/ \E w \in LogWriters : LoadFile(w) \/ WriteLine(w)
  \/ \E r \in Reopeners : Reopen(r)
  \/ \E r \in AllReopeners : SwapFile(r)

LogSpec == LogInit /\ [][LogNext]_logVars

-----------------------------------------------------------------------------
(* LogKept (RotatableFile.Write and Reopen, log/rotate.go:38 and :51): no  *)
(* line logged before Close meets a closed file, however many rotations    *)
(* run at once; and no file but the current one, the one about to replace  *)
(* it and those whose grace period runs is open.                           *)
LogKept ==
  /\ lost = 0
  /\ \A f \in 1..opened \ closedF :
       f = current \/ timer[f] > 0 \/ \E r \in AllReopeners : opc[r] = "swap" /\ ofile[r] = f

=============================================================================
