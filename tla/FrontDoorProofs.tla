--------------------------- MODULE FrontDoorProofs ---------------------------
(***************************************************************************)
(* Theorems about FrontDoor, for any nodes, processes of the monitor, web   *)
(* workers, failed and lost calls, deaths and switches of the mode.         *)
(***************************************************************************)
EXTENDS FrontDoor, TLAPS

-----------------------------------------------------------------------------
(* Types *)

LEMMA NoRunType == NoRun \in ReconcileState
  BY DEF NoRun, ReconcileState, Modes

LEMMA StepType ==
  ASSUME DnsTypeOK, NEW r \in Reconcilers, NEW s \in ReconcileState, Do(r, s)
  PROVE  /\ run' \in [Reconcilers -> ReconcileState]
         /\ run'[r] = s
         /\ \A q \in Reconcilers : q # r => run'[q] = run[q]
  BY DEF DnsTypeOK, Do

LEMMA BeginFacts ==
  ASSUME DnsTypeOK, NEW r \in Reconcilers, BeginRun(r)
  PROVE  /\ run' \in [Reconcilers -> ReconcileState]
         /\ run[r].at = "idle" /\ run'[r] = [NoRun EXCEPT !.at = "compute"]
         /\ \A q \in Reconcilers : q # r => run'[q] = run[q]
         /\ faults' \in 0..MaxFaults /\ overlap' \in BOOLEAN
         /\ overlap => overlap'
         /\ ~overlap' => \A q \in Reconcilers : run[q].at = "idle"
<1>1. [NoRun EXCEPT !.at = "compute"] \in ReconcileState
  BY DEF NoRun, ReconcileState, Modes
<1>2. Do(r, [NoRun EXCEPT !.at = "compute"]) /\ run[r].at = "idle"
  BY DEF BeginRun, Idle
<1>3. /\ faults' \in 0..MaxFaults /\ overlap' \in BOOLEAN
      /\ overlap => overlap'
      /\ ~overlap' => \A q \in Reconcilers : run[q].at = "idle"
  <2>1. CASE \A q \in Reconcilers : Idle(q)
    <3>1. faults' = faults /\ overlap' = overlap
      BY <2>1 DEF BeginRun
    <3>2. QED
      BY <2>1, <3>1 DEF Idle, DnsTypeOK
  <2>2. CASE ~(\A q \in Reconcilers : Idle(q))
    <3>1. faults < MaxFaults /\ faults' = faults + 1 /\ overlap' = TRUE
      BY <2>2 DEF BeginRun
    <3>2. QED
      BY <3>1, FrontDoorAssumption DEF DnsTypeOK
  <2>3. QED
    BY <2>1, <2>2
<1>4. QED
  BY <1>1, <1>2, <1>3, StepType

LEMMA FaultFacts ==
  ASSUME DnsTypeOK, DnsFault
  PROVE  faults' \in 0..MaxFaults /\ unsure' = TRUE
  BY FrontDoorAssumption DEF DnsTypeOK, DnsFault

LEMMA AbortFacts ==
  ASSUME DnsTypeOK, NEW r \in Reconcilers, Abort(r)
  PROVE  /\ run' \in [Reconcilers -> ReconcileState]
         /\ run'[r] = NoRun
         /\ \A q \in Reconcilers : q # r => run'[q] = run[q]
         /\ faults' \in 0..MaxFaults /\ unsure' = TRUE
         /\ UNCHANGED <<setting, mirror, told, overlap>>
  BY NoRunType, StepType, FaultFacts DEF Abort, End

LEMMA SentFacts ==
  ASSUME DnsTypeOK, NEW r \in Reconcilers, NEW add \in SUBSET Origins,
         NEW drop \in SUBSET Origins, Sent(r, add, drop)
  PROVE  /\ run' \in [Reconcilers -> ReconcileState]
         /\ run'[r] = [run[r] EXCEPT !.add = add, !.drop = drop]
         /\ \A q \in Reconcilers : q # r => run'[q] = run[q]
         /\ faults' = faults /\ unsure' = unsure
         /\ UNCHANGED <<setting, mirror, told, overlap>>
<1>1. run[r] \in ReconcileState
  BY DEF DnsTypeOK
<1>2. [run[r] EXCEPT !.add = add, !.drop = drop] \in ReconcileState
  BY <1>1 DEF ReconcileState
<1>3. QED
  BY <1>2, StepType DEF Sent

LEMMA PlanFacts ==
  ASSUME DnsTypeOK, NEW r \in Reconcilers, NEW before \in SUBSET Origins,
         NEW seen \in BOOLEAN, Plan(r, before, seen)
  PROVE  /\ run' \in [Reconcilers -> ReconcileState]
         /\ run'[r].at = "apply" /\ run'[r].want = run[r].want
         /\ run'[r].mode = run[r].mode
         /\ run'[r].add = run[r].want \ before /\ run'[r].drop = before \ run[r].want
         /\ run'[r].seen = seen
         /\ \A q \in Reconcilers : q # r => run'[q] = run[q]
<1> DEFINE s == [run[r] EXCEPT !.at = "apply", !.add = run[r].want \ before,
                   !.drop = before \ run[r].want, !.seen = seen,
                   !.wrote = ((run[r].want \ before) \cup (before \ run[r].want) # {})]
<1>1. run[r] \in ReconcileState
  BY DEF DnsTypeOK
<1>2. /\ s \in ReconcileState
      /\ s.at = "apply" /\ s.want = run[r].want /\ s.seen = seen
      /\ s.mode = run[r].mode
      /\ s.add = run[r].want \ before /\ s.drop = before \ run[r].want
  BY <1>1 DEF ReconcileState
<1>3. Do(r, s)
  BY DEF Plan
<1> HIDE DEF s
<1>4. QED
  BY <1>2, <1>3, StepType

\* A call changes what the provider holds for the run's mode, and for no other.
LEMMA HoldsFacts ==
  ASSUME DnsTypeOK, NEW r \in Reconcilers, NEW S \in SUBSET Origins, Holds(r, S)
  PROVE  /\ records' \in [Modes -> SUBSET Origins]
         /\ records'[run[r].mode] = S
         /\ \A m \in Modes : m # run[r].mode => records'[m] = records[m]
<1>1. run[r].mode \in Modes
  BY DEF DnsTypeOK, ReconcileState
<1>2. QED
  BY <1>1 DEF Holds, DnsTypeOK

LEMMA FormFacts ==
  ASSUME DnsTypeOK, TokenStored \/ TokenCleared \/ ModeSwitched
  PROVE  /\ UNCHANGED <<fit, records, mirror, told, run, faults, overlap, unsure>>
         /\ token' \in BOOLEAN /\ mode' \in Modes /\ switches' \in 0..MaxSwitches
<1>1. UNCHANGED <<fit, records, mirror, told, run, faults, overlap, unsure>>
  BY DEF TokenStored, TokenCleared, ModeSwitched, FormSaved
<1>2. token' \in BOOLEAN /\ mode' \in Modes
  BY DEF TokenStored, TokenCleared, ModeSwitched, DnsTypeOK
<1>3. switches' = switches \/ Switched
  BY DEF TokenStored, TokenCleared, ModeSwitched
<1>4. switches' \in 0..MaxSwitches
  BY <1>3, FrontDoorAssumption DEF Switched, DnsTypeOK
<1>5. QED
  BY <1>1, <1>2, <1>4

\* What the committing step of a reconcile does.
LEMMA RecordFacts ==
  ASSUME DnsTypeOK, NEW r \in Reconcilers, Record(r)
  PROVE  /\ run' \in [Reconcilers -> ReconcileState]
         /\ run'[r] = NoRun \/ run'[r] = [run[r] EXCEPT !.at = "publish"]
         /\ \A q \in Reconcilers : q # r => run'[q] = run[q]
<1>1. run[r] \in ReconcileState
  BY DEF DnsTypeOK
<1>2. [run[r] EXCEPT !.at = "publish"] \in ReconcileState
  BY <1>1 DEF ReconcileState
<1>3. Do(r, [run[r] EXCEPT !.at = "publish"]) \/ Do(r, NoRun)
  BY DEF Record, End
<1>4. QED
  BY <1>2, <1>3, NoRunType, StepType

LEMMA DnsInitType == DnsInit => DnsTypeOK
<1> SUFFICES ASSUME DnsInit PROVE DnsTypeOK
  OBVIOUS
<1>1. run \in [Reconcilers -> ReconcileState]
  BY NoRunType DEF DnsInit
<1>2. faults \in 0..MaxFaults /\ switches \in 0..MaxSwitches
  BY FrontDoorAssumption DEF DnsInit
<1>3. QED
  BY <1>1, <1>2 DEF DnsInit, DnsTypeOK

-----------------------------------------------------------------------------
(* The steps, by what a proof needs of them *)

\* Every step is one of these.  r: the reconcile that moves.
LEMMA DnsCases ==
  ASSUME [DnsNext]_dnsVars
  PROVE  \/ \E r \in Reconcilers :
              \/ \E n \in Origins : NodeGoesDown(r, n)
              \/ OperatorReconciles(r)
              \/ Reconcile(r) \/ Die(r)
         \/ \E n \in Origins : NodeChanges(n)
         \/ TokenStored \/ TokenCleared \/ ModeSwitched \/ UNCHANGED dnsVars
  BY DEF DnsNext, Reconcilers

LEMMA DnsNextType == DnsTypeOK /\ [DnsNext]_dnsVars => DnsTypeOK'
<1> SUFFICES ASSUME DnsTypeOK, [DnsNext]_dnsVars
             PROVE  DnsTypeOK'
  OBVIOUS
<1>1. CASE \E n \in Origins : NodeChanges(n)
  BY <1>1 DEF NodeChanges, DnsTypeOK
<1>2. CASE TokenStored \/ TokenCleared \/ ModeSwitched
  BY <1>2, FormFacts DEF DnsTypeOK
<1>3. ASSUME NEW r \in Reconcilers, \E n \in Origins : NodeGoesDown(r, n)
      PROVE  DnsTypeOK'
  BY <1>3, BeginFacts DEF NodeGoesDown, DnsTypeOK
<1>8. CASE UNCHANGED dnsVars
  BY <1>8 DEF dnsVars, DnsTypeOK
<1>4. ASSUME NEW r \in Reconcilers, OperatorReconciles(r)
      PROVE  DnsTypeOK'
  BY <1>4, BeginFacts DEF OperatorReconciles, setting, DnsTypeOK
<1>5. ASSUME NEW r \in Reconcilers, Reconcile(r)
      PROVE  DnsTypeOK'
  <2>0. run[r] \in ReconcileState
    BY DEF DnsTypeOK
  <2>1. CASE Suppress(r)
    BY <2>1, NoRunType, StepType DEF Suppress, End, setting, DnsTypeOK
  <2>2. CASE DryRun(r)
    BY <2>2, NoRunType, StepType DEF DryRun, End, DnsTypeOK, setting
  <2>3. CASE Compute(r)
    <3>1. [NoRun EXCEPT !.at = "read", !.mode = mode, !.want = fit] \in ReconcileState
      BY DEF NoRun, ReconcileState, DnsTypeOK
    <3>2. QED
      BY <2>3, <3>1, StepType DEF Compute, setting, DnsTypeOK
  <2>4. CASE Read(r)
    <3>1. records[run[r].mode] \in SUBSET Origins
      BY <2>0 DEF DnsTypeOK, ReconcileState
    <3>2. QED
      BY <2>4, <3>1, PlanFacts DEF Read, setting, DnsTypeOK
  <2>5. CASE ReadFails(r)
    BY <2>5, PlanFacts, FaultFacts DEF ReadFails, setting, DnsTypeOK
  <2>6. ASSUME NEW n \in Origins, Create(r, n)
        PROVE  DnsTypeOK'
    <3>1. run[r].add \ {n} \in SUBSET Origins /\ run[r].drop \in SUBSET Origins
      BY <2>0 DEF ReconcileState
    <3>2. records' \in [Modes -> SUBSET Origins]
      <4>1. records["free"] \cup {n} \in SUBSET Origins
        BY DEF DnsTypeOK, Modes
      <4>2. QED
        BY <2>6, <4>1, HoldsFacts DEF Create
    <3>3. CASE Abort(r)
      BY <3>2, <3>3, AbortFacts DEF setting, DnsTypeOK
    <3>4. CASE Sent(r, run[r].add \ {n}, run[r].drop)
      BY <3>1, <3>2, <3>4, SentFacts DEF setting, DnsTypeOK
    <3>5. QED
      BY <2>6, <3>3, <3>4 DEF Create
  <2>7. ASSUME NEW n \in Origins, Delete(r, n)
        PROVE  DnsTypeOK'
    <3>1. run[r].drop \ {n} \in SUBSET Origins
      BY <2>0 DEF ReconcileState
    <3>2. records' \in [Modes -> SUBSET Origins]
      <4>1. records["free"] \ {n} \in SUBSET Origins
        BY DEF DnsTypeOK, Modes
      <4>2. QED
        BY <2>7, <4>1, HoldsFacts DEF Delete
    <3>3. CASE Abort(r)
      BY <3>2, <3>3, AbortFacts DEF setting, DnsTypeOK
    <3>4. CASE Sent(r, {}, run[r].drop \ {n})
      BY <3>1, <3>2, <3>4, SentFacts DEF setting, DnsTypeOK
    <3>5. QED
      BY <2>7, <3>3, <3>4 DEF Delete
  <2>8. CASE PutPool(r)
    <3>1. records' \in [Modes -> SUBSET Origins]
      <4>1. run[r].want \in SUBSET Origins
        BY <2>0 DEF ReconcileState
      <4>2. QED
        BY <2>8, <4>1, HoldsFacts DEF PutPool
    <3>2. CASE Abort(r)
      BY <3>1, <3>2, AbortFacts DEF setting, DnsTypeOK
    <3>3. CASE Sent(r, {}, {})
      BY <3>1, <3>3, SentFacts DEF setting, DnsTypeOK
    <3>4. QED
      BY <2>8, <3>2, <3>3 DEF PutPool
  <2>9. CASE CallFails(r)
    BY <2>9, AbortFacts DEF CallFails, setting, DnsTypeOK
  <2>10. CASE Record(r)
    <3>1. mirror' \subseteq Origins /\ told' \in Modes /\ unsure' \in BOOLEAN
      BY <2>0, <2>10 DEF Record, ReconcileState
    <3>2. QED
      BY <2>10, <3>1, RecordFacts DEF Record, setting, DnsTypeOK
  <2>11. CASE Publish(r)
    <3>1. mirror' \subseteq Origins /\ told' \in Modes
      BY <2>0, <2>11 DEF Publish, ReconcileState
    <3>2. QED
      BY <2>11, <3>1, NoRunType, StepType DEF Publish, End, setting, DnsTypeOK
  <2>12. CASE Unauthorised(r)
    BY <2>12, NoRunType, StepType DEF Unauthorised, End, setting, DnsTypeOK
  <2>13. QED
    BY <1>5, <2>1, <2>2, <2>3, <2>4, <2>5, <2>6, <2>7, <2>8, <2>9, <2>10, <2>11, <2>12
       DEF Reconcile
<1>6. ASSUME NEW r \in Reconcilers, Die(r)
      PROVE  DnsTypeOK'
  BY <1>6, AbortFacts DEF Die, setting, DnsTypeOK
<1>7. QED
  BY <1>1, <1>2, <1>3, <1>4, <1>5, <1>6, <1>8, DnsCases

\* Records, mirror and runs keep their shape in every reachable state
\* (fleet/dns/reconcile.py and models_dns.py).
THEOREM DnsTypeCorrect == DnsSpec => []DnsTypeOK
<1>1. QED
  BY DnsInitType, DnsNextType, PTL DEF DnsSpec

-----------------------------------------------------------------------------
(* What a reconcile relies on *)

\* What a run holds, however reconciles overlap.
Shape(r) ==
    /\ run[r].at \in {"read", "apply"} => run[r].want # {}
    /\ run[r].at = "apply" => run[r].add \subseteq run[r].want /\ run[r].drop \cap run[r].want = {}

\* What the provider holds for the mode of a run.
Held(r) == records[run[r].mode]

\* What the provider holds while one run sends its calls.  A run that could not
\* read the provider knows only what it created itself.
Sending(r) ==
    /\ run[r].at = "apply" =>
         /\ run[r].want \ run[r].add \subseteq Held(r)
         /\ run[r].seen => Held(r) = (run[r].want \ run[r].add) \cup run[r].drop
         /\ ~run[r].seen => unsure
    /\ run[r].at = "publish" => /\ mirror = run[r].want /\ told = run[r].mode
                                /\ ~unsure => Held(r) = run[r].want

Alone(r) == \A q \in Reconcilers : q # r => run[q].at = "idle"
Quiet == \A r \in Reconcilers : run[r].at \in {"idle", "compute", "read"}

\* Neither property is inductive without what the run in progress has read and sent.
DnsInv ==
    /\ \A r \in Reconcilers : Shape(r)
    /\ ~overlap => /\ \A r \in Reconcilers : run[r].at # "idle" => Alone(r)
                   /\ \A r \in Reconcilers : Sending(r)
                   /\ Quiet /\ ~unsure => mirror = records[told]

LEMMA DnsInvInit == DnsInit => DnsInv
  BY DEF DnsInit, DnsInv, Shape, Sending, Alone, Quiet, NoRun

\* A step that takes one run from one state to another keeps the invariant if it
\* keeps it for that run, and for the rest if that run is alone.
LEMMA RunStep ==
  ASSUME DnsTypeOK, DnsInv, NEW r \in Reconcilers, run[r].at # "idle",
         \A q \in Reconcilers : q # r => run'[q] = run[q],
         overlap' = overlap, Shape(r)',
         ~overlap => Sending(r)' /\ (run'[r].at \in {"idle", "compute", "read"} /\ ~unsure'
                                        => mirror' = records'[told'])
  PROVE  DnsInv'
<1>1. \A q \in Reconcilers : Shape(q)'
  BY DEF DnsInv, Shape
<1>2. ASSUME ~overlap PROVE \A q \in Reconcilers : q # r => run'[q].at = "idle"
  BY <1>2 DEF DnsInv, Alone
<1>3. ASSUME ~overlap
      PROVE  /\ \A q \in Reconcilers : run'[q].at # "idle" => Alone(q)'
             /\ \A q \in Reconcilers : Sending(q)'
             /\ Quiet' /\ ~unsure' => mirror' = records'[told']
  BY <1>2, <1>3 DEF Alone, Sending, Quiet
<1>4. QED
  BY <1>1, <1>3 DEF DnsInv

LEMMA AbortStep ==
  ASSUME DnsTypeOK, DnsInv, NEW r \in Reconcilers, run[r].at # "idle", Abort(r)
  PROVE  DnsInv'
<1>1. run'[r] = NoRun /\ unsure' = TRUE /\ overlap' = overlap
      /\ \A q \in Reconcilers : q # r => run'[q] = run[q]
  BY AbortFacts
<1>2. Shape(r)' /\ Sending(r)'
  BY <1>1 DEF Shape, Sending, NoRun
<1>3. QED
  BY <1>1, <1>2, RunStep

LEMMA BeginStep ==
  ASSUME DnsTypeOK, DnsInv, NEW r \in Reconcilers, BeginRun(r),
         UNCHANGED <<records, mirror, told, unsure>>
  PROVE  DnsInv'
<1>1. /\ run[r].at = "idle" /\ run'[r].at = "compute"
      /\ \A q \in Reconcilers : q # r => run'[q] = run[q]
      /\ ~overlap' => ~overlap /\ \A q \in Reconcilers : run[q].at = "idle"
  BY BeginFacts DEF NoRun
<1>2. \A q \in Reconcilers : Shape(q)'
  BY <1>1 DEF DnsInv, Shape
<1>3. ASSUME ~overlap'
      PROVE  /\ \A q \in Reconcilers : run'[q].at # "idle" => Alone(q)'
             /\ \A q \in Reconcilers : Sending(q)'
             /\ Quiet' /\ ~unsure' => mirror' = records'[told']
  <2>1. \A q \in Reconcilers : q # r => run'[q].at = "idle"
    BY <1>1, <1>3
  <2>2. \A q \in Reconcilers : run'[q].at \in {"idle", "compute"}
    BY <1>1, <2>1
  <2>3. Quiet
    BY <1>1, <1>3 DEF Quiet
  <2>4. QED
    BY <1>1, <1>3, <2>1, <2>2, <2>3 DEF DnsInv, Alone, Sending
<1>4. QED
  BY <1>2, <1>3 DEF DnsInv

LEMMA DnsInvStep == DnsTypeOK /\ DnsInv /\ [DnsNext]_dnsVars => DnsInv'
<1> SUFFICES ASSUME DnsTypeOK, DnsInv, [DnsNext]_dnsVars
             PROVE  DnsInv'
  OBVIOUS
<1>1. CASE \/ \E n \in Origins : NodeChanges(n)
           \/ TokenStored \/ TokenCleared \/ ModeSwitched \/ UNCHANGED dnsVars
  <2>1. UNCHANGED <<run, records, mirror, told, overlap, unsure>>
    BY <1>1, FormFacts DEF NodeChanges, dnsVars
  <2>2. QED
    BY <2>1 DEF DnsInv, Shape, Sending, Held, Alone, Quiet
<1>2. ASSUME NEW r \in Reconcilers, OperatorReconciles(r) \/ \E n \in Origins : NodeGoesDown(r, n)
      PROVE  DnsInv'
  BY <1>2, BeginStep DEF OperatorReconciles, NodeGoesDown
<1>3. ASSUME NEW r \in Reconcilers, Die(r) \/ CallFails(r)
      PROVE  DnsInv'
  BY <1>3, AbortStep DEF Die, CallFails, Idle
<1>4. ASSUME NEW r \in Reconcilers, Reconcile(r)
      PROVE  DnsInv'
  <2>0. run[r] \in ReconcileState /\ Shape(r) /\ (~overlap => Alone(r) \/ run[r].at = "idle")
        /\ (~overlap => Sending(r))
    BY DEF DnsTypeOK, DnsInv
  <2>a. ASSUME ~overlap, run[r].at \in {"compute", "read"}, ~unsure
        PROVE  mirror = records[told]
    BY <2>0, <2>a DEF DnsInv, Alone, Quiet
  <2>1. CASE Suppress(r)
    <3>1. run'[r] = NoRun /\ \A q \in Reconcilers : q # r => run'[q] = run[q]
      BY <2>1, NoRunType, StepType DEF Suppress, End
    <3>2. QED
      BY <2>1, <2>a, <3>1, RunStep DEF Suppress, Shape, Sending, NoRun
  <2>2. CASE DryRun(r)
    <3>1. run'[r] = NoRun /\ \A q \in Reconcilers : q # r => run'[q] = run[q]
      BY <2>2, NoRunType, StepType DEF DryRun, End
    <3>2. QED
      BY <2>2, <3>1, RunStep DEF DryRun, Shape, Sending, NoRun
  <2>3. CASE Compute(r)
    <3>1. [NoRun EXCEPT !.at = "read", !.mode = mode, !.want = fit] \in ReconcileState
      BY DEF NoRun, ReconcileState, DnsTypeOK
    <3>2. /\ run'[r] = [NoRun EXCEPT !.at = "read", !.mode = mode, !.want = fit]
          /\ \A q \in Reconcilers : q # r => run'[q] = run[q]
      BY <2>3, <3>1, StepType DEF Compute
    <3>3. run'[r].at = "read" /\ run'[r].want = fit
      BY <3>2 DEF NoRun
    <3>4. QED
      BY <2>3, <2>a, <3>2, <3>3, RunStep DEF Compute, Shape, Sending
  <2>4. CASE Read(r)
    <3>1. /\ run'[r].at = "apply" /\ run'[r].want = run[r].want
          /\ run'[r].mode = run[r].mode
          /\ run'[r].add = run[r].want \ Held(r) /\ run'[r].drop = Held(r) \ run[r].want
          /\ run'[r].seen = TRUE
          /\ \A q \in Reconcilers : q # r => run'[q] = run[q]
      <4>1. Held(r) \in SUBSET Origins
        BY <2>0 DEF Held, DnsTypeOK, ReconcileState
      <4>2. Plan(r, Held(r), TRUE)
        BY <2>4 DEF Read, Held
      <4>3. QED
        BY <4>1, <4>2, PlanFacts
    <3>2. records' = records /\ overlap' = overlap /\ run[r].at = "read"
      BY <2>4 DEF Read
    <3>3. Shape(r)' /\ Sending(r)'
      BY <2>0, <3>1, <3>2 DEF Shape, Sending, Held
    <3>4. QED
      BY <3>1, <3>2, <3>3, RunStep
  <2>5. CASE ReadFails(r)
    <3>1. /\ run'[r].at = "apply" /\ run'[r].want = run[r].want
          /\ run'[r].add = run[r].want \ {} /\ run'[r].drop = {} \ run[r].want
          /\ run'[r].seen = FALSE
          /\ \A q \in Reconcilers : q # r => run'[q] = run[q]
      BY <2>5, PlanFacts DEF ReadFails
    <3>2. records' = records /\ overlap' = overlap /\ run[r].at = "read" /\ unsure' = TRUE
      BY <2>5, FaultFacts DEF ReadFails
    <3>3. Shape(r)' /\ Sending(r)'
      BY <2>0, <3>1, <3>2 DEF Shape, Sending, Held
    <3>4. QED
      BY <3>1, <3>2, <3>3, RunStep
  <2>6. ASSUME NEW n \in Origins, Create(r, n)
        PROVE  DnsInv'
    <3>1. CASE Abort(r)
      BY <2>6, <3>1, AbortStep DEF Create
    <3>2. CASE Sent(r, run[r].add \ {n}, run[r].drop)
      <4>1. run[r].add \ {n} \in SUBSET Origins /\ run[r].drop \in SUBSET Origins
        BY <2>0 DEF ReconcileState
      <4>2. /\ run'[r] = [run[r] EXCEPT !.add = run[r].add \ {n}, !.drop = run[r].drop]
            /\ \A q \in Reconcilers : q # r => run'[q] = run[q]
            /\ unsure' = unsure /\ overlap' = overlap
        <5> DEFINE add == run[r].add \ {n}
                   drop == run[r].drop
        <5>1. add \in SUBSET Origins /\ drop \in SUBSET Origins /\ Sent(r, add, drop)
          BY <3>2, <4>1
        <5> HIDE DEF add, drop
        <5>2. /\ run'[r] = [run[r] EXCEPT !.add = add, !.drop = drop]
              /\ \A q \in Reconcilers : q # r => run'[q] = run[q]
              /\ unsure' = unsure /\ overlap' = overlap
          BY <5>1, SentFacts
        <5>3. QED
          BY <5>2 DEF add, drop
      <4>3. /\ run'[r].at = "apply" /\ run'[r].want = run[r].want /\ run'[r].seen = run[r].seen
            /\ run'[r].add = run[r].add \ {n} /\ run'[r].drop = run[r].drop
            /\ run[r].at = "apply" /\ n \in run[r].add
            /\ run[r].mode = "free" /\ run'[r].mode = "free" /\ Holds(r, Held(r) \cup {n})
        BY <2>0, <2>6, <4>2 DEF Create, ReconcileState, Held
      <4>4. Held(r)' = Held(r) \cup {n}
        <5>1. Held(r) \cup {n} \in SUBSET Origins
          BY <2>0 DEF Held, DnsTypeOK, ReconcileState
        <5>2. records'[run[r].mode] = Held(r) \cup {n}
          BY <4>3, <5>1, HoldsFacts
        <5>3. QED
          BY <4>3, <5>2 DEF Held
      <4>6. Shape(r)' /\ (~overlap => Sending(r)')
        BY <2>0, <4>2, <4>3, <4>4 DEF Shape, Sending
      <4>7. QED
        BY <4>2, <4>3, <4>6, RunStep
    <3>3. QED
      BY <2>6, <3>1, <3>2 DEF Create
  <2>7. ASSUME NEW n \in Origins, Delete(r, n)
        PROVE  DnsInv'
    <3>1. CASE Abort(r)
      BY <2>7, <3>1, AbortStep DEF Delete
    <3>2. CASE Sent(r, {}, run[r].drop \ {n})
      <4>1. run[r].drop \ {n} \in SUBSET Origins
        BY <2>0 DEF ReconcileState
      <4>2. /\ run'[r] = [run[r] EXCEPT !.add = {}, !.drop = run[r].drop \ {n}]
            /\ \A q \in Reconcilers : q # r => run'[q] = run[q]
            /\ unsure' = unsure /\ overlap' = overlap
        BY <3>2, <4>1, SentFacts
      <4>3. /\ run'[r].at = "apply" /\ run'[r].want = run[r].want /\ run'[r].seen = run[r].seen
            /\ run'[r].add = {} /\ run[r].add = {} /\ run'[r].drop = run[r].drop \ {n}
            /\ run[r].at = "apply" /\ n \in run[r].drop
            /\ run[r].mode = "free" /\ run'[r].mode = "free" /\ Holds(r, Held(r) \ {n})
        BY <2>0, <2>7, <4>2 DEF Delete, ReconcileState, Held
      <4>4. Held(r)' = Held(r) \ {n}
        <5>1. Held(r) \ {n} \in SUBSET Origins
          BY <2>0 DEF Held, DnsTypeOK, ReconcileState
        <5>2. records'[run[r].mode] = Held(r) \ {n}
          BY <4>3, <5>1, HoldsFacts
        <5>3. QED
          BY <4>3, <5>2 DEF Held
      <4>5. Shape(r)' /\ (~overlap => Sending(r)')
        BY <2>0, <4>2, <4>3, <4>4 DEF Shape, Sending
      <4>6. QED
        BY <4>2, <4>3, <4>5, RunStep
    <3>3. QED
      BY <2>7, <3>1, <3>2 DEF Delete
  <2>8. CASE PutPool(r)
    <3>1. CASE Abort(r)
      BY <2>8, <3>1, AbortStep DEF PutPool
    <3>2. CASE Sent(r, {}, {})
      <4>1. /\ run'[r] = [run[r] EXCEPT !.add = {}, !.drop = {}]
            /\ \A q \in Reconcilers : q # r => run'[q] = run[q]
            /\ unsure' = unsure /\ overlap' = overlap
        <5> DEFINE none == {}
        <5>1. none \in SUBSET Origins /\ Sent(r, none, none)
          BY <3>2
        <5> HIDE DEF none
        <5>2. /\ run'[r] = [run[r] EXCEPT !.add = none, !.drop = none]
              /\ \A q \in Reconcilers : q # r => run'[q] = run[q]
              /\ unsure' = unsure /\ overlap' = overlap
          BY <5>1, SentFacts
        <5>3. QED
          BY <5>2 DEF none
      <4>2. /\ run'[r].at = "apply" /\ run'[r].want = run[r].want /\ run'[r].seen = run[r].seen
            /\ run'[r].add = {} /\ run'[r].drop = {}
            /\ run[r].at = "apply" /\ run'[r].mode = run[r].mode /\ Holds(r, run[r].want)
            /\ run[r].want \in SUBSET Origins
        BY <2>0, <2>8, <4>1 DEF PutPool, ReconcileState
      <4>3. Held(r)' = run[r].want
        BY <4>2, HoldsFacts DEF Held
      <4>4. Shape(r)' /\ (~overlap => Sending(r)')
        BY <2>0, <4>1, <4>2, <4>3 DEF Shape, Sending
      <4>5. QED
        BY <4>1, <4>2, <4>4, RunStep
    <3>3. QED
      BY <2>8, <3>1, <3>2 DEF PutPool
  <2>9. CASE Record(r)
    <3>1. /\ run'[r] = NoRun \/ run'[r] = [run[r] EXCEPT !.at = "publish"]
          /\ \A q \in Reconcilers : q # r => run'[q] = run[q]
      BY <2>9, RecordFacts
    <3>2. /\ \/ run'[r].at = "idle"
             \/ /\ run'[r].at = "publish" /\ run'[r].want = run[r].want
                /\ run'[r].mode = run[r].mode
          /\ run[r].at = "apply" /\ run[r].add = {} /\ run[r].drop = {}
          /\ mirror' = run[r].want /\ told' = run[r].mode
          /\ records' = records /\ overlap' = overlap
          /\ unsure' = (unsure /\ ~run[r].seen)
      BY <2>0, <2>9, <3>1 DEF Record, NoRun, ReconcileState
    <3>3. Shape(r)'
      BY <3>2 DEF Shape
    <3>4. ASSUME ~overlap, ~unsure' PROVE records'[told'] = mirror'
      BY <2>0, <3>2, <3>4 DEF Sending, Held, ReconcileState
    <3>5. ~overlap => Sending(r)'
      BY <3>2, <3>4 DEF Sending, Held
    <3>6. QED
      BY <3>1, <3>2, <3>3, <3>4, <3>5, RunStep
  <2>10. CASE Publish(r)
    <3>1. run'[r] = NoRun /\ \A q \in Reconcilers : q # r => run'[q] = run[q]
      BY <2>10, NoRunType, StepType DEF Publish, End
    <3>2. /\ run[r].at = "publish" /\ mirror' = run[r].want /\ told' = run[r].mode
          /\ records' = records /\ overlap' = overlap /\ unsure' = unsure
      BY <2>10 DEF Publish
    <3>3. ~overlap /\ ~unsure => mirror' = records'[told']
      BY <2>0, <3>2 DEF Sending, Held
    <3>4. QED
      BY <3>1, <3>2, <3>3, RunStep DEF Shape, Sending, NoRun
  <2>11. CASE Unauthorised(r)
    <3>1. run'[r] = NoRun /\ \A q \in Reconcilers : q # r => run'[q] = run[q]
      BY <2>11, NoRunType, StepType DEF Unauthorised, End
    <3>2. QED
      BY <2>11, <2>a, <3>1, RunStep DEF Unauthorised, Shape, Sending, NoRun
  <2>12. QED
    BY <1>3, <1>4, <2>1, <2>2, <2>3, <2>4, <2>5, <2>6, <2>7, <2>8, <2>9, <2>10, <2>11
       DEF Reconcile
<1>5. QED
  BY <1>1, <1>2, <1>3, <1>4, DnsCases

LEMMA DnsInvariant == DnsSpec => [](DnsTypeOK /\ DnsInv)
<1>1. QED
  BY DnsInitType, DnsNextType, DnsInvInit, DnsInvStep, PTL DEF DnsSpec

\* Between reconciles the mirror tells what the provider holds for the mode that wrote
\* it, unless a dry run, a failed or lost call, a death or an overlap made it unsure and
\* no reconcile that read the provider has recorded its set since.  Switches of the mode
\* and wiped tokens do not break this.  It says nothing of the other mode, for which a
\* set that the mirror shows is skipped without being published.
THEOREM MirrorIsRight == DnsSpec => []MirrorTellsRecords
<1>1. DnsTypeOK /\ DnsInv => MirrorTellsRecords
  BY DEF DnsInv, MirrorTellsRecords, Idle, Quiet
<1>2. QED
  BY DnsInvariant, <1>1, PTL

\* What a mode publishes is never emptied once it answers, whatever fails half-way and
\* however the mode is switched, as long as no two reconciles overlap.
THEOREM FrontDoorStaysOpen == DnsSpec => NeverEmptied
<1>1. DnsTypeOK /\ DnsInv /\ [DnsNext]_dnsVars
         => [\A m \in Modes : records[m] # {} => overlap' \/ records'[m] # {}]_dnsVars
  <2> SUFFICES ASSUME DnsTypeOK, DnsInv, [DnsNext]_dnsVars, NEW m \in Modes,
                      records[m] # {}, records'[m] = {}
               PROVE  overlap'
    OBVIOUS
  <2>1. ASSUME NEW r \in Reconcilers, NEW n \in Origins, Delete(r, n)
        PROVE  overlap'
    <3>0. overlap' = overlap
      BY <2>1 DEF Delete, Abort, Sent
    <3> SUFFICES ASSUME ~overlap PROVE FALSE
      BY <3>0 DEF DnsTypeOK
    <3>1. /\ run[r].want # {} /\ run[r].drop \cap run[r].want = {}
          /\ run[r].want \subseteq records["free"]
      BY <2>1 DEF DnsInv, Shape, Sending, Held, Delete
    <3>2. /\ run[r].mode = "free" /\ n \in run[r].drop
          /\ Holds(r, records["free"] \ {n})
          /\ records["free"] \ {n} \in SUBSET Origins
      BY <2>1 DEF Delete, DnsTypeOK, Modes
    <3>3. records'["free"] = records["free"] \ {n} /\ (m # "free" => records'[m] = records[m])
      BY <3>2, HoldsFacts
    <3>4. QED
      BY <3>1, <3>2, <3>3
  <2>2. ASSUME NEW r \in Reconcilers, NEW n \in Origins, Create(r, n)
        PROVE  FALSE
    <3>1. /\ run[r].mode = "free" /\ Holds(r, records["free"] \cup {n})
          /\ records["free"] \cup {n} \in SUBSET Origins
      BY <2>2 DEF Create, DnsTypeOK, Modes
    <3>2. records'["free"] # {} /\ (m # "free" => records'[m] = records[m])
      BY <3>1, HoldsFacts
    <3>3. QED
      BY <3>2
  <2>3. ASSUME NEW r \in Reconcilers, PutPool(r)
        PROVE  FALSE
    <3>1. run[r].want # {} /\ run[r].want \in SUBSET Origins /\ Holds(r, run[r].want)
      BY <2>3 DEF PutPool, DnsInv, Shape, DnsTypeOK, ReconcileState
    <3>2. records'[run[r].mode] # {} /\ (m # run[r].mode => records'[m] = records[m])
      BY <3>1, HoldsFacts
    <3>3. QED
      BY <3>2
  <2>4. ASSUME NEW r \in Reconcilers,
               \/ Suppress(r) \/ DryRun(r) \/ Compute(r) \/ Unauthorised(r) \/ Read(r)
               \/ ReadFails(r) \/ CallFails(r) \/ Record(r) \/ Publish(r) \/ Die(r)
               \/ OperatorReconciles(r) \/ \E n \in Origins : NodeGoesDown(r, n)
        PROVE  records' = records
    BY <2>4 DEF Suppress, DryRun, Compute, Unauthorised, Read, ReadFails, CallFails, Record,
                Publish, Die, OperatorReconciles, NodeGoesDown
  <2>5. CASE \/ \E n \in Origins : NodeChanges(n)
             \/ TokenStored \/ TokenCleared \/ ModeSwitched \/ UNCHANGED dnsVars
    <3>1. records' = records
      BY <2>5, FormFacts DEF NodeChanges, dnsVars
    <3>2. QED
      BY <3>1
  <2>6. QED
    BY <2>1, <2>2, <2>3, <2>4, <2>5, DnsCases DEF Reconcile
<1>2. QED
  BY DnsInvariant, <1>1, PTL DEF DnsSpec, NeverEmptied
=============================================================================
