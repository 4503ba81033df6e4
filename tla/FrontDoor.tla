------------------------------ MODULE FrontDoor ------------------------------
(***************************************************************************)
(* The DNS front door of the fleet: fleet/dns/reconcile.py, driver_adapter, *)
(* cloudflare.py and models_dns.py, and its two callers, the failover of a  *)
(* node that the monitor reports down and the operator's button.            *)
(*                                                                          *)
(* A reconcile compares the nodes that may be published with a mirror in    *)
(* the database of what was published last.  If they differ the driver      *)
(* reads the provider's records, creates what is missing, deletes what is   *)
(* too much, call by call, and commits the mirror if no call failed.        *)
(***************************************************************************)
EXTENDS Integers, FiniteSets

CONSTANTS
    Origins,          \* nodes, and so the addresses of the front door
    FailoverRunners,  \* processes of the monitor: a pass runs the failovers
    DnsOperators,     \* web workers that run a reconcile for an operator
    MaxFaults,        \* bound: failed or lost calls, crashes and overlaps
    MaxSwitches       \* bound: switches of the mode and wiped tokens together

Reconcilers == FailoverRunners \cup DnsOperators

ASSUME FrontDoorAssumption ==
    /\ FailoverRunners \cap DnsOperators = {}
    /\ MaxFaults \in Nat /\ MaxSwitches \in Nat

VARIABLES
    fit,       \* nodes that are enabled, not draining, ranked and up or degraded
    token,     \* a Cloudflare token is stored
    mode,      \* front-door mode: A records, or one load-balancer pool
    records,   \* what the provider holds for each mode: A records, or the pool's origins
    mirror,    \* fleet_dns_records_state, {} if there is no row: one row for both modes
    told,      \* the mode of the run that wrote the mirror last
    run,       \* what every reconciler is doing
    faults,    \* faults so far
    switches,  \* switches of the mode and wiped tokens so far
    overlap,   \* two reconciles have overlapped
    unsure     \* the mirror may not tell what the provider publishes

dnsVars == <<fit, token, mode, records, mirror, told, run, faults, switches,
             overlap, unsure>>
setting == <<fit, token, mode, switches>>

-----------------------------------------------------------------------------

Modes == {"free", "paid"}

\* mode: as it was when the run read it.  want: the desired set.  add, drop: calls
\* that are left.  seen: the provider's records could be read.  wrote: the plan had
\* calls.
ReconcileState == [at : {"idle", "compute", "read", "apply", "publish"}, mode : Modes,
        want : SUBSET Origins, add : SUBSET Origins, drop : SUBSET Origins,
        seen : BOOLEAN, wrote : BOOLEAN]
NoRun == [at |-> "idle", mode |-> "free", want |-> {}, add |-> {}, drop |-> {},
          seen |-> TRUE, wrote |-> FALSE]

DnsInit ==
    /\ fit \in SUBSET Origins
    /\ token \in BOOLEAN /\ mode \in Modes
    /\ records = [m \in Modes |-> {}] /\ mirror = {} /\ told = mode
    /\ run = [r \in Reconcilers |-> NoRun]
    /\ faults = 0 /\ switches = 0 /\ overlap = FALSE /\ unsure = FALSE

Idle(r) == run[r].at = "idle"
Do(r, step) == run' = [run EXCEPT ![r] = step]
End(r) == Do(r, NoRun)

BeginRun(r) ==
    /\ Idle(r)
    /\ IF \A q \in Reconcilers : Idle(q)
       THEN UNCHANGED <<faults, overlap>>
       ELSE faults < MaxFaults /\ faults' = faults + 1 /\ overlap' = TRUE
    /\ Do(r, [NoRun EXCEPT !.at = "compute"])

\* A call fails, or is carried out and its reply lost, or the process dies.
DnsFault == faults < MaxFaults /\ faults' = faults + 1 /\ unsure' = TRUE

-----------------------------------------------------------------------------
(* What starts a reconcile *)

\* The monitor takes a node down and evacuates it, which ends in a reconcile.
NodeGoesDown(r, n) ==
    /\ n \in fit /\ BeginRun(r)
    /\ fit' = fit \ {n}
    /\ UNCHANGED <<token, mode, switches, records, mirror, told, unsure>>

\* Nothing follows when a node recovers, or when an operator drains, disables or
\* enables one: the front door waits for the next reconcile.
NodeChanges(n) ==
    /\ fit' = (fit \ {n}) \cup ({n} \ fit)
    /\ UNCHANGED <<token, mode, switches, records, mirror, told, run, faults, overlap, unsure>>

OperatorReconciles(r) ==
    /\ BeginRun(r)
    /\ UNCHANGED <<setting, records, mirror, told, unsure>>

\* What the operator's forms save changes nothing else: reconciles wait for a caller.
FormSaved == UNCHANGED <<fit, records, mirror, told, run, faults, overlap, unsure>>
Switched == switches < MaxSwitches /\ switches' = switches + 1

TokenStored ==
    /\ ~token /\ token' = TRUE
    /\ FormSaved /\ UNCHANGED <<mode, switches>>

TokenCleared ==
    /\ token /\ token' = FALSE /\ Switched
    /\ FormSaved /\ UNCHANGED mode

\* From free to paid or back: the mirror stays as it is, and so does what the other
\* mode published.
ModeSwitched ==
    /\ mode' \in Modes \ {mode} /\ Switched
    /\ FormSaved /\ UNCHANGED token

-----------------------------------------------------------------------------
(* The reconcile *)

\* An empty set is suppressed, and a set that the mirror already shows skipped, in
\* whichever mode the mirror was written.
Suppress(r) ==
    /\ run[r].at = "compute"
    /\ fit = {} \/ fit = mirror
    /\ End(r)
    /\ UNCHANGED <<setting, records, mirror, told, faults, overlap, unsure>>

\* Without a token the driver plans against no records, sends nothing, and
\* commits the mirror all the same.
DryRun(r) ==
    /\ run[r].at = "compute"
    /\ fit # {} /\ fit # mirror /\ ~token
    /\ mirror' = fit /\ told' = mode /\ unsure' = TRUE
    /\ End(r)
    /\ UNCHANGED <<setting, records, faults, overlap>>

Compute(r) ==
    /\ run[r].at = "compute"
    /\ fit # {} /\ fit # mirror /\ token
    /\ Do(r, [NoRun EXCEPT !.at = "read", !.mode = mode, !.want = fit])
    /\ UNCHANGED <<setting, records, mirror, told, faults, overlap, unsure>>

\* The driver loads the token by itself.  If it was wiped meanwhile, the first call
\* is refused, which ends the reconcile.
Unauthorised(r) ==
    /\ run[r].at = "read" /\ ~token
    /\ End(r)
    /\ UNCHANGED <<setting, records, mirror, told, faults, overlap, unsure>>

Plan(r, before, seen) ==
    LET add == run[r].want \ before
        drop == before \ run[r].want IN
    Do(r, [run[r] EXCEPT !.at = "apply", !.add = add, !.drop = drop,
                         !.seen = seen, !.wrote = (add \cup drop # {})])

Read(r) ==
    /\ run[r].at = "read" /\ token
    /\ Plan(r, records[run[r].mode], TRUE)
    /\ UNCHANGED <<setting, records, mirror, told, faults, overlap, unsure>>

\* A failed read counts as no records.
ReadFails(r) ==
    /\ run[r].at = "read" /\ token
    /\ Plan(r, {}, FALSE)
    /\ DnsFault
    /\ UNCHANGED <<setting, records, mirror, told, overlap>>

\* The first error ends the reconcile, with the mirror as it was.
Abort(r) ==
    /\ DnsFault
    /\ End(r)
    /\ UNCHANGED <<setting, mirror, told, overlap>>

Sent(r, add, drop) ==
    /\ Do(r, [run[r] EXCEPT !.add = add, !.drop = drop])
    /\ UNCHANGED <<setting, mirror, told, faults, overlap, unsure>>

\* The provider then holds S for the mode that the run is in.
Holds(r, S) == records' = [records EXCEPT ![run[r].mode] = S]

Create(r, n) ==
    /\ run[r].at = "apply" /\ run[r].mode = "free"
    /\ n \in run[r].add \ records["free"]
    /\ Holds(r, records["free"] \cup {n})
    /\ Sent(r, run[r].add \ {n}, run[r].drop) \/ Abort(r)

\* Mutant: deletions do not wait for the creations.
DeleteFirst(r, n) ==
    /\ run[r].at = "apply" /\ run[r].mode = "free"
    /\ n \in run[r].drop \cap records["free"]
    /\ Holds(r, records["free"] \ {n})
    /\ Sent(r, run[r].add, run[r].drop \ {n}) \/ Abort(r)
Delete(r, n) ==
    /\ run[r].at = "apply" /\ run[r].mode = "free"
    /\ run[r].add = {} /\ n \in run[r].drop \cap records["free"]
    /\ Holds(r, records["free"] \ {n})
    /\ Sent(r, {}, run[r].drop \ {n}) \/ Abort(r)

\* Paid mode replaces the origins of the pool by one PUT.
PutPool(r) ==
    /\ run[r].at = "apply" /\ run[r].mode = "paid"
    /\ run[r].add \cup run[r].drop # {}
    /\ Holds(r, run[r].want)
    /\ Sent(r, {}, {}) \/ Abort(r)

\* The provider refuses the call, among others a record that is already there or
\* no longer there.
CallFails(r) ==
    /\ run[r].at = "apply"
    /\ run[r].add \cup run[r].drop # {}
    /\ Abort(r)
    /\ UNCHANGED records

\* Mutant: the mirror is committed with calls left to do.
RecordEarly(r) ==
    /\ run[r].at = "apply" /\ run[r].add = {}
    /\ mirror' = run[r].want /\ told' = run[r].mode
    /\ unsure' = (unsure /\ ~run[r].seen)
    /\ IF run[r].wrote THEN Do(r, [run[r] EXCEPT !.at = "publish"]) ELSE End(r)
    /\ UNCHANGED <<setting, records, faults, overlap>>
Record(r) ==
    /\ run[r].at = "apply" /\ run[r].add = {} /\ run[r].drop = {}
    /\ mirror' = run[r].want /\ told' = run[r].mode
    /\ unsure' = (unsure /\ ~run[r].seen)
    /\ IF run[r].wrote THEN Do(r, [run[r] EXCEPT !.at = "publish"]) ELSE End(r)
    /\ UNCHANGED <<setting, records, faults, overlap>>

\* The reconcile commits the same set once more, with its event.
Publish(r) ==
    /\ run[r].at = "publish"
    /\ mirror' = run[r].want /\ told' = run[r].mode
    /\ End(r)
    /\ UNCHANGED <<setting, records, faults, overlap, unsure>>

Die(r) ==
    /\ ~Idle(r)
    /\ Abort(r)
    /\ UNCHANGED records

-----------------------------------------------------------------------------

\* The steps that end a reconcile.
Reconcile(r) ==
    \/ Suppress(r) \/ DryRun(r) \/ Compute(r)
    \/ Unauthorised(r) \/ Read(r) \/ ReadFails(r)
    \/ \E n \in Origins : Create(r, n) \/ Delete(r, n)
    \/ PutPool(r) \/ CallFails(r) \/ Record(r) \/ Publish(r)

DnsNext ==
    \/ \E r \in FailoverRunners, n \in Origins : NodeGoesDown(r, n)
    \/ \E n \in Origins : NodeChanges(n)
    \/ \E r \in DnsOperators : OperatorReconciles(r)
    \/ TokenStored \/ TokenCleared \/ ModeSwitched
    \/ \E r \in Reconcilers : Reconcile(r) \/ Die(r)

DnsSpec == DnsInit /\ [][DnsNext]_dnsVars

\* A reconcile that started ends: every call of the provider has a timeout.
DnsFairness == \A r \in Reconcilers : WF_dnsVars(Reconcile(r))

-----------------------------------------------------------------------------
(* Properties *)

\* Records, mirror and runs have the shape of the provider's and the panel's rows.
DnsTypeOK ==
    /\ fit \subseteq Origins /\ mirror \subseteq Origins
    /\ records \in [Modes -> SUBSET Origins]
    /\ token \in BOOLEAN /\ mode \in Modes /\ told \in Modes
    /\ run \in [Reconcilers -> ReconcileState]
    /\ faults \in 0..MaxFaults /\ switches \in 0..MaxSwitches
    /\ overlap \in BOOLEAN /\ unsure \in BOOLEAN

\* What one mode publishes is never emptied once it answers, whatever fails half-way,
\* is lost or dies, whatever nodes do and however the mode is switched, as long as two
\* reconciles do not overlap: new records come before old ones go, and no empty set is
\* published.
NeverEmptied ==
    [][\A m \in Modes : records[m] # {} => overlap' \/ records'[m] # {}]_dnsVars

\* The mirror tells what the provider holds for the mode that wrote it, so that
\* skipping a set it shows is right as long as the mode stays that one: a reconcile
\* that reads the provider and records its set repairs what earlier failures left.
\* Dry runs, failed or lost calls, deaths and overlaps make it unsure until then.
\* After a switch it tells nothing of the new mode: the row has no mode, so an
\* unchanged set is skipped and the new mode's pool or records are not created until
\* the set changes (reconcile.py:483-498).
MirrorTellsRecords ==
    ~unsure /\ ~overlap /\ (\A r \in Reconcilers : Idle(r)) => mirror = records[told]

\* A node that went down leaves the front door when its failover ends, unless no
\* other node is left, the mirror is unsure, the token was wiped or reconciles
\* overlapped.  It leaves what the mirror's mode publishes: after a switch of the mode
\* the other mode's records or pool still name it: no reconcile in this mode touches them.
DownNodeLeaves ==
    \A n \in Origins, r \in FailoverRunners :
        run[r].at = "compute" /\ n \notin fit ~>
            \/ Idle(r) /\ (n \notin records[told] \/ fit = {})
            \/ n \in fit \/ unsure \/ overlap \/ ~token

DnsFairSpec == DnsSpec /\ DnsFairness
=============================================================================
