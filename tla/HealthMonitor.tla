---------------------------- MODULE HealthMonitor ----------------------------
(***************************************************************************)
(* The health monitor of the CHR fleet, fleet/health/monitor.py, with what  *)
(* it drives when a node goes down: the alert of fleet/notify/notifier.py   *)
(* and the evacuation of fleet/brain/rebalance.py.                          *)
(*                                                                          *)
(* A pass (a cron run over the enabled nodes, or a panel request for one)   *)
(* takes one "now", probes its nodes one after the other and commits once   *)
(* at the end.  Its ORM session holds what it will write (writes), as       *)
(* changes against the rows it loaded: only changed columns are updated.    *)
(* Passes and operators of other processes commit in between.  Probing a    *)
(* node that goes down runs the notifier and the evacuation inside the      *)
(* pass: the first may roll the session back and the second commits it.     *)
(***************************************************************************)
EXTENDS Integers, FiniteSets

CONSTANTS
    Nodes,        \* fleet_chr_nodes rows
    Passes,       \* processes that run passes: cron invocations and requests
    DownAfter,    \* HealthConfig.down_after
    UpAfter,      \* HealthConfig.up_after
    NumChannels,  \* configured alert channels (sms, whatsapp, telegram)
    MaxClock      \* bound: the time a behaviour may take

ASSUME ConstantsAssumption ==
    /\ DownAfter \in Nat /\ UpAfter \in Nat
    /\ NumChannels \in 0..2   \* three channels retry after a rollback
    /\ MaxClock \in Nat

VARIABLES
    clock,     \* utcnow()
    enabled,   \* fleet_chr_nodes.enabled
    status,    \* fleet_chr_nodes.status
    health,    \* fleet_chr_health: state and first_fail_at
    fails,     \* fleet_chr_metrics: when a ping of the node was recorded lost
    oks,       \* fleet_chr_metrics: when a ping was recorded answered
    alert,     \* nodes whose health_down alert holds its dedupe slot
    evac,      \* when the last evacuation of the node was planned
    pass       \* what every pass is doing

vars == <<clock, enabled, status, health, fails, oks, alert, evac, pass>>
fleetVars == <<enabled, status, health, fails, oks, alert, evac>>

-----------------------------------------------------------------------------
(* Rows *)

NoTime == -1
Times == {NoTime} \cup Nat

Statuses == {"provisioning", "up", "down", "disabled"}
\* "none": no row yet.  No code assigns "degraded".
HealthStates == {"none", "unknown", "up", "down"}

Health == [state : HealthStates, firstFail : Times]
NoHealth == [state |-> "none", firstFail |-> NoTime]

\* What a session will write for a node: the sample, the health row as loaded
\* and as changed, the registry status as loaded and as changed.
Write == [ping : {"none", "ok", "fail"}, old : Health, new : Health,
          was : Statuses, to : Statuses]
NoWrite == [ping |-> "none", old |-> NoHealth, new |-> NoHealth,
            was |-> "provisioning", to |-> "provisioning"]
NoWrites == [n \in Nodes |-> NoWrite]

Pass == [running : BOOLEAN, now : Nat, todo : SUBSET Nodes,
         seen : [Nodes -> Statuses],     \* node rows as the session holds them
         stale : SUBSET Nodes,           \* nodes to probe whose rows were loaded before
         writes : [Nodes -> Write]]

Idle == [running |-> FALSE, now |-> 0, todo |-> {},
         seen |-> [n \in Nodes |-> "provisioning"], stale |-> {}, writes |-> NoWrites]

Init ==
    /\ clock = 0
    /\ enabled = [n \in Nodes |-> TRUE]
    /\ status = [n \in Nodes |-> "provisioning"]
    /\ health = [n \in Nodes |-> NoHealth]
    /\ fails = [n \in Nodes |-> {}]
    /\ oks = [n \in Nodes |-> {}]
    /\ alert = {}
    /\ evac = [n \in Nodes |-> NoTime]
    /\ pass = [p \in Passes |-> Idle]

-----------------------------------------------------------------------------
(* The hysteresis *)

\* _get_or_create_health
Loaded(h) == IF h.state = "none" THEN [h EXCEPT !.state = "unknown"] ELSE h

\* No lost ping of n was recorded in the window that ends now: what the code
\* makes of "up_after" with the latest lost ping before now.
Quiet(n, now) == \A t \in fails[n] : t < now => now - t >= UpAfter

\* Mutant: only a lost ping of this very instant delays the return.
UpAtOnce(n, h, now) ==
    [state |-> IF h.state = "down" /\ now \in fails[n] THEN "down" ELSE "up",
     firstFail |-> NoTime]
\* Mutant: an answered ping does not end the streak of lost ones.
StreakGoesOn(n, h, now) ==
    [state |-> IF h.state = "down" /\ ~Quiet(n, now) THEN "down" ELSE "up",
     firstFail |-> h.firstFail]
AfterOk(n, h, now) ==
    [state |-> IF h.state = "down" /\ ~Quiet(n, now) THEN "down" ELSE "up",
     firstFail |-> NoTime]

\* Mutant: the down window is measured with an off-by-one.
DownTooEarly(h, now) ==
    LET since == IF h.firstFail = NoTime THEN now ELSE h.firstFail IN
    [state |-> IF h.state = "up" /\ now - since + 1 >= DownAfter THEN "down" ELSE h.state,
     firstFail |-> since]
\* Mutant: the streak of a node that was never up counts for going down.
DownFromUnknown(h, now) ==
    LET since == IF h.firstFail = NoTime THEN now ELSE h.firstFail IN
    [state |-> IF now - since >= DownAfter THEN "down" ELSE h.state,
     firstFail |-> since]
AfterFail(h, now) ==
    LET since == IF h.firstFail = NoTime THEN now ELSE h.firstFail IN
    [state |-> IF h.state = "up" /\ now - since >= DownAfter THEN "down" ELSE h.state,
     firstFail |-> since]

\* Mutants: a node is only mirrored on its way down; the mirror copies every state.
MirrorDownOnly(s, state) ==
    IF s # "disabled" /\ state = "down" THEN state ELSE s
MirrorAnything(s, state) == IF s # "disabled" THEN state ELSE s
\* _denormalize_node_status and _reconcile_node_status
Mirror(s, state) ==
    IF s # "disabled" /\ state \in {"up", "down"} THEN state ELSE s

-----------------------------------------------------------------------------
(* Writing a session to the database *)

\* Another process has created the row that ws creates: the flush fails.
Clash(ws) == \E n \in Nodes : /\ ws[n].ping # "none"
                              /\ ws[n].old.state = "none"
                              /\ health[n].state # "none"

Changed(row, old, new) ==
    [state |-> IF new.state # old.state THEN new.state ELSE row.state,
     firstFail |-> IF new.firstFail # old.firstFail THEN new.firstFail ELSE row.firstFail]

\* Mutant: the sample of a probe that changes no health row is not written.
FlushChanges(ws, now) ==
    /\ ~Clash(ws)
    /\ health' = [n \in Nodes |-> IF ws[n].ping = "none" THEN health[n]
                                  ELSE Changed(health[n], ws[n].old, ws[n].new)]
    /\ status' = [n \in Nodes |-> IF ws[n].to # ws[n].was THEN ws[n].to ELSE status[n]]
    /\ fails' = [n \in Nodes |-> fails[n] \cup
                    (IF ws[n].ping = "fail" /\ ws[n].new # ws[n].old THEN {now} ELSE {})]
    /\ oks' = [n \in Nodes |-> oks[n] \cup
                    (IF ws[n].ping = "ok" /\ ws[n].new # ws[n].old THEN {now} ELSE {})]
Flush(ws, now) ==
    /\ ~Clash(ws)
    /\ health' = [n \in Nodes |-> IF ws[n].ping = "none" THEN health[n]
                                  ELSE Changed(health[n], ws[n].old, ws[n].new)]
    /\ status' = [n \in Nodes |-> IF ws[n].to # ws[n].was THEN ws[n].to ELSE status[n]]
    /\ fails' = [n \in Nodes |-> fails[n] \cup (IF ws[n].ping = "fail" THEN {now} ELSE {})]
    /\ oks' = [n \in Nodes |-> oks[n] \cup (IF ws[n].ping = "ok" THEN {now} ELSE {})]

-----------------------------------------------------------------------------
(* Passes *)

Begin(p, nodes) ==
    /\ ~pass[p].running
    /\ pass' = [pass EXCEPT ![p] =
                   [Idle EXCEPT !.running = TRUE, !.now = clock, !.todo = nodes, !.stale = nodes,
                      !.seen = [n \in Nodes |-> IF n \in nodes THEN status[n] ELSE @[n]]]]
    /\ UNCHANGED <<fleetVars, clock>>

RunOnce(p) == Begin(p, {n \in Nodes : enabled[n]})
\* The panel's check-now also probes a node that is not enabled.
CheckNow(p, n) == Begin(p, {n})

\* The status of n as the session of p knows it.
Seen(p, n) == IF n \in pass[p].stale THEN pass[p].seen[n] ELSE status[n]

WriteOf(p, n, ping, new) ==
    [ping |-> ping, old |-> health[n], new |-> new,
     was |-> Seen(p, n), to |-> Mirror(Seen(p, n), new.state)]

\* A probe whose outcome stays in the session.
Record(p, n, ping, new) ==
    /\ pass[p].running /\ n \in pass[p].todo
    /\ pass' = [pass EXCEPT ![p].todo = @ \ {n}, ![p].stale = @ \ {n},
                            ![p].seen[n] = Idle.seen[n],
                            ![p].writes[n] = WriteOf(p, n, ping, new)]
    /\ UNCHANGED <<fleetVars, clock>>

ProbeOk(p, n) == Record(p, n, "ok", AfterOk(n, Loaded(health[n]), pass[p].now))

\* Mutant: the first lost ping of an up node evacuates it.
GoesDownAtOnce(p, n) == health[n].state = "up"
GoesDown(p, n) ==
    health[n].state = "up" /\ AfterFail(health[n], pass[p].now).state = "down"

ProbeFail(p, n) ==
    /\ ~GoesDown(p, n)
    /\ Record(p, n, "fail", AfterFail(Loaded(health[n]), pass[p].now))

\* dispatch_event for health_down.  One alert per channel, all under the same
\* dedupe key: the slot is free, or held by the one alert that was delivered.
Dispatched(n) ==
    IF n \in alert THEN NumChannels < 2 /\ UNCHANGED alert
    ELSE alert' \in {alert} \cup (IF NumChannels > 0 THEN {alert \cup {n}} ELSE {})

\* With two channels the second alert meets the slot of the first one, in the
\* database or in this very session, and the notifier rolls the session back.
DispatchRollsBack == NumChannels = 2 /\ UNCHANGED alert

\* The rows are expired by a commit or a rollback and will be read again.
Refreshed(p, n, writes) ==
    pass' = [pass EXCEPT ![p].todo = @ \ {n}, ![p].stale = {},
                            ![p].seen = Idle.seen, ![p].writes = writes]

\* execute_rebalance commits the session of the pass with its decisions.
ProbeDown(p, n) ==
    LET now == pass[p].now
        w == WriteOf(p, n, "fail", AfterFail(health[n], now)) IN
    /\ pass[p].running /\ n \in pass[p].todo
    /\ GoesDown(p, n)
    /\ Dispatched(n)
    /\ Flush([pass[p].writes EXCEPT ![n] = w], now)
    /\ evac' = [evac EXCEPT ![n] = now]
    /\ Refreshed(p, n, NoWrites)
    /\ UNCHANGED <<clock, enabled>>

\* The notifier discarded the session, the evacuation commits all the same, and
\* the reconciliation that follows works from the health row as it was.
ProbeDownLost(p, n) ==
    LET w == [NoWrite EXCEPT !.was = status[n], !.to = Mirror(status[n], health[n].state)] IN
    /\ pass[p].running /\ n \in pass[p].todo
    /\ GoesDown(p, n)
    /\ DispatchRollsBack
    /\ evac' = [evac EXCEPT ![n] = pass[p].now]
    /\ Refreshed(p, n, [NoWrites EXCEPT ![n] = w])
    /\ UNCHANGED <<clock, enabled, status, health, fails, oks>>

EndPass(p) ==
    /\ pass[p].running /\ pass[p].todo = {}
    /\ Flush(pass[p].writes, pass[p].now)
    /\ pass' = [pass EXCEPT ![p] = Idle]
    /\ UNCHANGED <<clock, enabled, alert, evac>>

\* The process dies, or an error of the database ends the pass.
Crash(p) ==
    /\ pass[p].running
    /\ pass' = [pass EXCEPT ![p] = Idle]
    /\ UNCHANGED <<fleetVars, clock>>

-----------------------------------------------------------------------------
(* Operators and time *)

Enable(n) ==
    /\ enabled' = [enabled EXCEPT ![n] = TRUE]
    /\ status' = [status EXCEPT ![n] = IF @ = "disabled" THEN "provisioning" ELSE @]
    /\ UNCHANGED <<clock, health, fails, oks, alert, evac, pass>>

Disable(n) ==
    /\ enabled' = [enabled EXCEPT ![n] = FALSE]
    /\ status' = [status EXCEPT ![n] = "disabled"]
    /\ UNCHANGED <<clock, health, fails, oks, alert, evac, pass>>

\* alert_ack frees the dedupe slot.
Acknowledge(n) ==
    /\ n \in alert
    /\ alert' = alert \ {n}
    /\ UNCHANGED <<clock, enabled, status, health, fails, oks, evac, pass>>

Tick ==
    /\ clock < MaxClock
    /\ clock' = clock + 1
    /\ UNCHANGED <<fleetVars, pass>>

Next ==
    \/ Tick
    \/ \E n \in Nodes : Enable(n) \/ Disable(n) \/ Acknowledge(n)
    \/ \E p \in Passes :
         \/ RunOnce(p) \/ EndPass(p) \/ Crash(p)
         \/ \E n \in Nodes : \/ CheckNow(p, n) \/ ProbeOk(p, n) \/ ProbeFail(p, n)
                             \/ ProbeDown(p, n) \/ ProbeDownLost(p, n)

Spec == Init /\ [][Next]_vars

-----------------------------------------------------------------------------
(* Properties *)

\* Every row and every session has the shape of its columns.
TypeOK ==
    /\ clock \in Nat
    /\ enabled \in [Nodes -> BOOLEAN]
    /\ status \in [Nodes -> Statuses]
    /\ health \in [Nodes -> Health]
    /\ fails \in [Nodes -> SUBSET Nat]
    /\ oks \in [Nodes -> SUBSET Nat]
    /\ alert \subseteq Nodes
    /\ evac \in [Nodes -> Times]
    /\ pass \in [Passes -> Pass]

WentDown(n) == health[n].state = "up" /\ health'[n].state = "down"
CameBack(n) == health[n].state = "down" /\ health'[n].state = "up"
Sampled(p, n) == pass[p].writes[n].ping # "none"

\* A node that was never seen up is never declared down, so a CHR that is being
\* provisioned is not evacuated or alerted on before its tunnel is there.
NeverDownBeforeUp ==
    \A n \in Nodes :
        (health[n].state = "down" \/ evac[n] # NoTime) => oks[n] # {}

\* However passes overlap, a node goes down only by lost pings that are in the
\* log, the first and the last of them at least down_after apart.
DownHasEvidence ==
    [][\A n \in Nodes : WentDown(n) =>
         \E first, last \in fails'[n] : last - first >= DownAfter]_vars

\* A node goes down on continuous evidence only: lost pings and no answered one
\* since a time at least down_after ago (one pass at a time).
DownOnContinuousLoss ==
    [][\A n \in Nodes : WentDown(n) =>
         \E first, last \in fails'[n] :
            /\ last - first >= DownAfter
            /\ \A t \in oks'[n] : t <= first \/ t > last]_vars

\* A node comes back by an answered ping only, and only when the log holds no
\* lost ping of the last up_after: a flapping node stays down (one pass at a time).
UpAfterQuietWindow ==
    [][\A n \in Nodes : CameBack(n) =>
         \E p \in Passes :
            /\ pass[p].running /\ pass'[p] # pass[p]
            /\ pass[p].now \in oks'[n]
            /\ Quiet(n, pass[p].now)]_vars

\* Sessions are moved off a node only by the pass that records it down, and a
\* node is not recorded down without that (one pass at a time, one channel).
EvacuatedIffDown ==
    [][\A n \in Nodes : WentDown(n) <=> evac'[n] # evac[n]]_vars

\* The registry, which routing and ranking read, never calls a node up that the
\* monitor holds to be down, nor the other way round (one pass at a time).
MirrorAgrees ==
    \A n \in Nodes : status[n] \in {"up", "down"} => health[n].state = status[n]

\* "disabled is never overwritten by a probe": only the operator's enable takes a
\* node out of it (fleet/health/monitor.py:539-542).
DisabledIsKept ==
    [][\A n \in Nodes : status[n] = "disabled" /\ status'[n] # "disabled"
                          => enabled'[n] /\ ~enabled[n]]_vars

\* "the monitor MUST keep recording metrics regardless" of its consumers
\* (fleet/health/monitor.py:508-510): the sample of a probe stays in the session
\* until it is in the log, unless the pass dies.  It holds with one alert
\* channel and fails with two.
ProbesRecorded ==
    [][\A p \in Passes, n \in Nodes :
         /\ pass[p].running /\ (pass'[p].running \/ EndPass(p))
         /\ Sampled(p, n) \/ n \in pass[p].todo \ pass'[p].todo
         => Sampled(p, n)' \/ pass[p].now \in fails'[n] \cup oks'[n]]_vars

=============================================================================
