# Verification of the license panel and its CHR fleet

TLA+ models of the concurrent parts of this repository, checked with TLC and
proved about with TLAPS. The repository is a Flask application (`src/app`, the
license panel) and a fleet control plane (`src/fleet`) over one SQL database.

## How the program runs

* Web requests are served by gunicorn. The shipped unit starts one worker
  (`deploy/systemd/hoberadius-license-panel.service.example:11`), which serves one
  request at a time; requests overlap where more workers or threads are
  configured (`app/__init__.py:205-217` reports a fault that only several workers
  can show). The timers and threads below overlap with the panel in any case.
* systemd timers start short processes over the same database:
  `whatsapp-drain`, `vpn-quota-sync`, `collect-chr-metrics`,
  `enforce-allocations`, `notifications-scan` and
  `python -m fleet.health.monitor`.
* Three daemon threads poll: router metrics, WireGuard synchronisation, IP
  changes.
* Processes share nothing but the database. A handler reads ORM rows, decides,
  and writes changed columns by primary key in a later flush. There are no row
  locks and no version columns; the isolation is READ COMMITTED (PostgreSQL) or
  SQLite's. Only unique constraints and one conditional UPDATE (the claim of a
  WhatsApp row) arbitrate between processes. PostgreSQL is the production
  database (`README.md:123-127`).

So the hazards are those of read-decide-write over rows: two processes between
read and write, a process that dies between two commits of one operation, an
external call between two commits, and a commit or rollback of a shared session
that carries more than its author meant.

## Inventory

`PROJECT.json` lists every component with its files. The ones that keep state
and where order matters:

| component | state | operations | what makes it correct |
|---|---|---|---|
| license payments | requests, proofs, receipts, transactions, orders | create, submit proof, approve, reject, apply, expire | a decision is final; paid implies transaction; one credit per payment |
| licenses | status, expires_at, renewals, fingerprints | check, renew, suspend, edit | paid time is never lost; revoked stays revoked |
| health monitor | fleet_chr_health, fleet_chr_metrics, node status | a pass over nodes, a check from the panel | down only on evidence, up only after a quiet window, mirror agrees |
| notifier | fleet_events, fleet_alerts | dispatch, acknowledge | one alert per outage; never disturbs the producer |
| failover brain | decisions, sessions | plan, execute, ingest results | one active session per user; targets not overloaded |
| WhatsApp queue | whatsapp_message_queue, webhook events, counters | enqueue, drain, retry, cancel, callback | no unexplained second copy; every message is decided |
| DNS front door | mirror row, mode and token settings, the provider's records | reconcile after a failover or by button, switch the mode, store or wipe the token | never emptied; the mirror tells what its mode publishes; a dead node leaves |
| CHR moves, CoA | realm routes, pending commands, the proxy's copy of both | move, poll, expire, result | a disconnect sees the routes of its move; settled commands stay; none stays open |
| tunnels and peers | rows, accounts on the routers | request, provision, revoke, suspend, allocate | limit kept; off means off; strays only from faults; no address twice |
| VPN quota | count of the month, session counter, profile | timer run: count, throttle, restore | never overcharged; the row tells the speed; an exhausted tunnel gets slow |
| panel key | key setting, minted pair, host key, scripts, flags | generate, paste, autosync, render, import, handshake check | a stale router is flagged; the setting settles on the host's key |
| panel peers | node rows, interface, saved configuration | register, switch, delete, reconcile, restart | the host ends up trusting exactly the serving nodes |
| notices | notification keys, panel messages | scan, poll | each notice once; every threshold reached is heard of in its term |
| bridge token | the panel's row, the instances' copies | rotate, report, resolve | all copies come to agree |
| onboarding | jobs and stages | start, step, teardown | stages in order, restartable |

They interact by calls in one process (the monitor calls the notifier and the
brain inside its own session; payment application calls the renewal), through
rows (the monitor's mirror of node status is read by ranking and by the routing
table), and through external systems (Meta, routers, DNS, the RADIUS proxy, the root helper
of the panel host). The failover that the monitor starts ends in a reconcile of
the front door; approving a change of address provisions a tunnel; the autosync
thread reconciles the panel's key and then its peers.

## Modules

| module | models | composed of |
|---|---|---|
| `LicensePayments` | `app/services/license_payments.py`, `payment_proofs.py`, the admin routes that drive them, `renew_license` | refines `PaymentLedger` |
| `PaymentLedger` | abstract: a payment is opened, reviewed, settled by one decision and credited at most once; licenses only gain time | |
| `LicensePaymentsProofs` | theorems about `LicensePayments` | |
| `HealthMonitor` | `fleet/health/monitor.py` with the dispatch of `fleet/notify/notifier.py`, the commit of `fleet/brain/rebalance.py`, enable and disable of `fleet/registry/routes_chr.py` | |
| `HealthMonitorProofs` | theorems about `HealthMonitor` | |
| `WhatsAppQueue` | `app/services/whatsapp/{queue,worker,webhook}.py`, the admin routes, the drain timer, Meta as far as the code sees it | |
| `WhatsAppQueueProofs` | theorems about `WhatsAppQueue` | |
| `ChrMove` | `app/services/{chr_move,coa_disconnect}.py`, the routing table and result endpoints of `app/api/proxy_api.py`, the proxy as they see it | |
| `FrontDoor` | `fleet/dns/{reconcile,reconciler,driver_adapter,cloudflare,models_dns,settings_store}.py`, the failover and the page that call it | |
| `VpnTunnels` | `app/services/{vpn_tunnels,wireguard_peers}.py`, provisioning in `ip_change_pricing.py`, their routes | |
| `VpnQuota` | `app/services/vpn_quota.py` and its timer | |
| `PanelKey` | `fleet/registry/infra_settings.py`, `fleet/sync/{keys,wg_mgmt_autosync}.py`, the handshake stage | |
| `PanelPeers` | `fleet/sync/{peers,wg_apply}.py`, `fleet/registry/teardown.py`, the helper `deploy/zero_touch/hobe-wg-sync` | |
| `Notices` | `app/notifications/{engine,service,channels}.py`, the panel messages and their polls | |
| `BridgeToken` | `app/services/bridge_token_sync.py`, its route in `app/api/routes.py` | |
| `ChrMoveProofs`, `FrontDoorProofs` | theorems about the module each is named after | |
| `VpnProofs` | theorems about `VpnTunnels` and `VpnQuota` | |
| `PanelProofs` | theorems about `PanelKey`, `PanelPeers`, `Notices`, `BridgeToken` | |
| `MCPanelParts` | one instance of the eight modules above | the eight modules |
| `PanelPartsProofs` | theorems about `MCPanelParts` | the proof modules of its parts |
| `MC...` otherwise | the symmetry sets of the runs and one state constraint | |

### LicensePayments

A variable stands for a table or a column: `req` (status, purpose, license and
applied_at of a request), `due` (its TTL has passed), `proofs`, `images`, `txn`,
`order`, `orderPaid`, `expiry`, `renewals`. `effects` counts the commits of an
apply and is not in the database. `wk` is what every web worker is doing. A
handler is a chain of actions, one for each read or commit: for example
`ApproveRead`, `ApproveCommit`, perhaps `ApproveOrder`. Between two of them
other workers run, and `Crash` may end the worker. What a handler holds from
its read (`seen`, `start`, `batch`, `proof`) is in `wk`, because that is what
the later write is computed from. `ReviewStale` is SQLAlchemy's failing flush
when the proof row has been deleted.

Months are the unit of time; amounts, wallets, notes and texts are left out.
Statuses that no code assigns (`cancelled`, `failed`, `under_review`) are left
out. `OperatorReadiesOrder` is the step no code takes: `ready` is awaited by
`_apply_new_subscription` and assigned nowhere.

### HealthMonitor

`fails` and `oks` are the metrics table, `health` the rolling row, `status` and
`enabled` the registry row, `alert` the dedupe slots in use, `evac` the last
evacuation. `pass` is the ORM session of a running pass: what it loaded (`seen`,
`stale`) and what it will write (`writes`, as old and new values because an
UPDATE sets only changed columns). A probe is one action: `ProbeOk`,
`ProbeFail`, `ProbeDown` (the node goes down: alert, evacuation, and the commit
of `execute_rebalance` in the middle of the pass) or `ProbeDownLost` (the
notifier has rolled the session back first). `EndPass` is the commit of the
pass; `Clash` the failing flush when another pass created the same row.

Left out: latencies, consecutive counters and flap counts (no decision reads
them), event texts, the `degraded` state (no code assigns it), the choice of
evacuation targets. `NumChannels` is at most 2: with three the loop of the
notifier goes on after the rollback.

### WhatsAppQueue

`row` is the queue table, `seen` the stored callbacks. `accepted`, `lost` and
`retried` count what happened outside of the database, for the properties.
`proc` is what a drain or a web worker is doing: selecting, going through a
batch, sending, marking, counting. `Claim` is atomic as in the code; all other
writes are by id after an earlier read. `Accept` with a lost reply, `Refuse` and
`NotSendable` are the outcomes of `_send_one`; `Unexpected` is the exception
handler of `drain_once`, which also runs after a message was marked sent.
A pending backoff is the flag `wait`, which `BackoffElapses` clears.

### ChrMove

`route` counts the committed moves of one customer, `command` is
`pending_coa_commands`, `proxy` the RADIUS proxy. A move is two commits
(`MoveRoutes`, `Enqueue`); a poll reads the routes, then the commands, and
writes their statuses by id in up to two later commits (`PollRoutes`,
`PollCommands`, `PollExpire`, `PollMark`), each of which may be overtaken. The
proxy's call may time out, its reply may be lost, and it posts results as often
as it likes. Which node a customer moves to does not matter here.

### FrontDoor

`fit` is the set of nodes that may be published, `mode` and `token` the settings,
`records` what the provider holds for each mode (A records or a pool), `mirror` the
database's copy: one row for both modes. A reconcile is one action for each call
of the provider (`Create`, `Delete`, `PutPool`), each of which may fail before or
after it is carried out, and the commits of `Record` and `Publish`. It takes the
mode when it computes, and the driver loads the token once more: `Unauthorised` is
the call that is refused because the token was wiped in between. `DryRun` is the
driver without a token, which commits a mirror of what it never sent. `ModeSwitched`
changes the setting and nothing else, so the next reconcile compares the new mode's
set with the old mode's mirror (`Suppress`). `told`, `unsure` and `overlap` are
history: the mode that wrote the mirror, that the mirror may be wrong since a
fault, and that two reconciles overlapped.

### VpnTunnels

`row` holds both tables, `router` the accounts the nodes let in, `desk` the
request a worker is serving. A request checks the database first, then calls the
router, then commits; `CreateUnheard`, `RemoveUnheard`, `KeyTaken` and
`WorkerDies` leave the router and the row apart and count as `accidents`.
`crossings` counts requests that began while another was in progress, `revived`
the revoked rows that a stale page made active. Names, profiles and keys are
left out; the run considers tunnels and peers one kind at a time, for neither
reads rows of the other.

### VpnQuota

`carried` and `before` are what really went through the tunnel, `quota` the
columns of the row, `live` the session the node counts from zero, `sync` the run
with the row as it changed it in its ORM session. `Decide` is the accounting of
the code. A failed read, a failed or unheard `SetProfile` and a run that dies are
losses; a `oneshot` timer does not overlap itself.

### PanelKey

Keys are numbers in the order they were generated. `host` is the interface's
key, `stored` the setting, `minted` the key whose private half the panel holds.
A node row has its flag, the key of its last script (its snapshot: a node has
one when `script` is not 0) and the key its router trusts. Every change of the
key is two steps, as in the code: the setting, then the flags; `FlagFails` comes
between. The handshake check reads the row and the setting, asks the router, and
clears the flag later. `missed` collects the nodes to which one of the four
known holes applies. Rendering a script is one step.

### PanelPeers

`standing` are the node rows, `peers` and `saved` the interface and its file.
A reconcile reads the whole desired set, and the helper looks, adds, removes and
saves in steps of its own, so that two reconciles may interleave with sets of
different age. The helper fails half-way, dies with its caller, or the host
restarts from the saved file. `DesiredUnread`, and the same in `TearDown`, is the
query that fails and counts as no nodes: that reconcile removes every peer.

### Notices

`noted` is the set of keys of `notifications`, `mail` the panel messages of a
key, `heard` and `unheard` the replies that carried one. A scan looks for each
key and inserts its row; the database admits one writer at a time (`LockedOut`)
and its index refuses a second row of a key, which fails the whole scan. Polls
come one at a time, read the undelivered messages and stamp them before the
reply leaves, so that a lost reply loses them: that is `unheard`. `term` counts
renewals and is history: the keys of the code do not have it, a message carries the
term of its scan so that properties can tell about which expiry it was.

### BridgeToken

`bridge` is the panel's row, `held` the copy of each RADIUS instance. The
instances are other programs; `Rotate`, `SendReport` and `Receive` do what the
service's doc asks of them. Reports may be given up, arrive late or be lost.
The panel serves one report at a time.

## Runs

Passing runs. All but `PanelParts` check for deadlock; its parts stop when their
bounds are used up, and what must not stop is stated as liveness instead.

| run | instance | checks |
|---|---|---|
| `PaymentsSerial` | 2 requests, 1 license, 1 worker, renewals only, 1 proof row, 2 months, clock 0..1, 2 renewals | `TypeOK`, `CreditedOnce`, `PaidPeriodsChain`, `RefusedLeavesNoMoney`, `ImplementsLedger` |
| `PaymentsConcurrent` | 1 request, 1 license, 2 workers, 2 proof rows, 2 purposes | `PaidHasTransaction`, `CreditHasTransaction` |
| `HealthFleet` | 2 nodes, 1 pass at a time, `DownAfter` 1, `UpAfter` 2, clock 0..4 | `TypeOK`, `MirrorAgrees`, `EvacuatedIffDown`, `ProbesRecorded`, `DownOnContinuousLoss`, `UpAfterQuietWindow` |
| `HealthConcurrent` | 1 node, 2 overlapping passes, 2 alert channels, clock 0..2 | `NeverDownBeforeUp`, `DownHasEvidence` |
| `WhatsAppQueue` | 1 message, 1 drain, 1 web worker, 2 attempts, 2 sends, 1 retry, 1 crash | `TypeOK`, `SendersExplained`, `CopiesExplained`, `AttemptsBounded`, `EveryMessageDecided` |
| `PanelParts` | the eight parts below, one per behaviour | `TypeOK` of all parts and the properties below |

`MCPanelParts` chooses at the start which of eight modules moves (`part`) and
leaves the others as they began. They share no variable, so nothing is lost, and
the states add up instead of multiplying.

| part | instance | properties |
|---|---|---|
| `ChrMove` | 2 commands, 2 workers, 1 overlap or death | `DisconnectSeesRoutes`, `TerminalIsFinal`, `CommandsSettle` |
| `FrontDoor` | 2 nodes, 1 failover runner, 1 operator, free mode at first, with and without token; 1 fault or overlap, or 1 switch of the mode or wiped token | `MirrorTellsRecords`, `NeverEmptied`, `DownNodeLeaves` |
| `VpnTunnels` | 1 tunnel with an account and 1 without, or 2 peers; allowance 1, 2 addresses, 2 workers, 2 mishaps | `AllowanceKept`, `OffIsOff`, `StraysAreFaults`, `AllocatedIsFree` |
| `VpnQuota` | quota 2, 2 months, 4 units of traffic, 1 loss | `NeverOvercharged`, `SpeedAgrees`, `QuotaTakesEffect` |
| `PanelKey` | 1 node, 1 administrator, 1 autosync, 3 keys | `StaleIsFlagged`, `KeySettles` |
| `PanelPeers` | 2 nodes, 1 request, 1 autosync, 2 edits, 1 break | `PeersSettle` |
| `Notices` | thresholds 1 and 2, term 3, 2 scans, 1 change or slip | `EachNoticeOnce`, `ReachedIsHeard` |
| `BridgeToken` | 2 instances, 2 rotations, 1 delay | `BridgeSettles` |

Why these bounds. Payments: a request never reads another one's rows except in
the expiry sweep and through the shared license, so two requests on one license
show every interaction; two proof rows are needed for a receipt that fails
after a second proof, two workers for every race between a read and a commit.
Health: nodes meet only in the shared session (two nodes, one alert and one
mid-pass commit), and a window of one or two instants needs a clock of at most
four to be left and entered again. The constraint `OneNodeLater` keeps both
nodes for the first two instants; later only a node goes on whose fellow was
disabled before it was ever probed. So the sharing of a session is explored with
two nodes and the long histories of the hysteresis with one. WhatsApp: messages
meet only in a batch, whose order is free; two processes are enough for each race
the code has, since every race is between one read and one foreign commit. In
scratch runs the safety properties also held with two drains and one worker.

Panel parts: two processes on one row are again every race. Two commands make a
poll that expires one and marks another; two records let a reconcile fail
between a creation and a deletion. An allowance of one with two tunnels, and two
addresses with two peers, are the smallest limits that can be exceeded. Traffic
of twice the quota lets a tunnel be exhausted in both months, with a session
that spans the turn and one that does not. Three keys are the host's, an
administrator's and one more rotation on top of it. Two thresholds are enough
for a scan that finds one announced and one not, a term above them for a
license that is quiet at first. A single fault suffices for each kind of fault
at each place; more were tried only where a property counts them (tunnels: two).
`OneKindOfConnection`, `NumberedInOrder` and `OneIncident` cut the state space as
their comments say; the last one takes no fair step away, for switches, renewals and
faults are under no fairness. The proofs lift all of these bounds for every safety property of a passing run.

Runs that refute a statement of the repository:

| run | statement | what happens |
|---|---|---|
| `PaymentsCreditFails` | `app/admin/routes.py:4634`: a failing step leaves the row in its pre-action state | the approval is committed before the credit is refused |
| `PaymentsAppliedTwice` | `docs/payments/PROVISIONING_ORDER_FLOW.md:39-41`: retries cannot extend twice | two overlapping applies both extend the license |
| `HealthTwoChannels` | `fleet/health/monitor.py:508-510`: metrics are recorded regardless of the consumers | the second channel's alert violates `uq_alert_dedupe`, whose key does not include the channel; the rollback discards the pass |
| `HealthDisabledRace` | `fleet/health/monitor.py:539-541`: disabled is never overwritten by a probe | the pass decides on the row it loaded earlier |
| `WhatsAppCancel` | `app/services/whatsapp/queue.py:182-185`: no cancellation while sending | the claim comes between the check and the write |
| `WhatsAppReceipts` | `app/models.py:1435`: status walks forward | a late receipt takes a read message back to delivered |

Which properties need serial handlers is part of the result. With one web
worker the payment workflow keeps all of its promises, crashes included; with
two, `CreditedOnce`, `PaidPeriodsChain`, `RefusedLeavesNoMoney` and
`ImplementsLedger` fail, and what survives is that money is always documented by
a transaction. In the same way `MirrorAgrees`,
`EvacuatedIffDown`, `DownOnContinuousLoss` and `UpAfterQuietWindow` need one
monitor pass at a time, which a cron schedule gives unless the panel's check-now
overlaps it; `NeverDownBeforeUp` and `DownHasEvidence` hold without that.

In the panel parts the conditions are written into the properties.
`TerminalIsFinal`, `DisconnectSeesRoutes`, `NeverEmptied`, `MirrorTellsRecords`
and `AllocatedIsFree` hold until two requests overlap, whatever else fails.
`MirrorTellsRecords` compares the mirror with the records of the mode that wrote
it; it cannot promise more, for after a switch of the mode the code skips a set
that the new mode has never published. A run with the records of the current mode
instead is refuted by such a switch alone, without any fault.
`AllowanceKept` and `StraysAreFaults` count: an overlap may cost one tunnel over
the limit, a fault one account without a row, and never more. `OffIsOff`,
`NeverOvercharged`, `EachNoticeOnce` and all liveness hold without conditions on
the order of requests.

## Fairness

All fairness is weak and asks only for what the code's own loops and timeouts
give. Operators, customers, lost replies, crashes and failures are under none.

| liveness | fairness | why the code gives it |
|---|---|---|
| `EveryMessageDecided` | a process that has started goes on, the drain timer fires, a backoff elapses | every HTTP call has a timeout, every handler ends; `deploy/systemd/...whatsapp-drain.timer.example` |
| `CommandsSettle` | a request ends, the proxy polls on, its call times out, the time to live passes | handlers make no external call; the proxy's loop is its way to get routes |
| `DownNodeLeaves` | a reconcile that began goes on | every Cloudflare call has a timeout |
| `QuotaTakesEffect` | the timer fires and a run goes on | the timer unit; router calls have timeouts |
| `KeySettles` | the autosync thread passes on | the thread's loop catches every exception |
| `PeersSettle` | the same, and a request that began ends | the helper has a timeout |
| `ReachedIsHeard` | scans are started and go on, the customer's panel polls | cron; the RADIUS panel polls for messages |
| `BridgeSettles` | instances report, are served and read the reply | as the service's doc asks of them |

A crash leaves a claimed WhatsApp row in `sending`, which nothing reaps:
`EveryMessageDecided` excepts exactly that. `DownNodeLeaves` excepts a run that
finds no other node, no token, an unsure mirror or an overlap, for then the code
leaves the record, and it speaks of what the mirror's mode publishes: after a
switch nothing removes a dead node from the other mode's records.
`ReachedIsHeard` is about the term a threshold is reached in, and excepts two
things the code gets wrong against `app/notifications/engine.py:5`: a key whose one
message was about an earlier term (`Spent`) and a message whose reply was lost
(`LostForGood`). Without either exception TLC refutes it. In `MCPanelParts` every `WF` is conjoined with the
part it belongs to, so that it asks nothing of parts that do not move.

## Proofs

Every invariant and action property of the passing runs is also a theorem, for
every value of the constants; what remains with TLC is liveness. A theorem whose
property fails when handlers overlap has the absence of overlaps as a hypothesis
of the form `Spec /\ []Serial => ...`, over all behaviours of the specification,
and not as a smaller specification.

`LicensePaymentsProofs` (any sets of requests, licenses and workers):

* `TypeCorrect`: `Spec => []TypeOK`.
* `PaidAlwaysHasTransaction`: `TypeOK` and `PaidHasTransaction` are inductive
  together: the only write of `paid` is `ApproveCommit`, which records the
  transaction in the same flush, and no action removes one.
* `CreditAlwaysHasTransaction`: `CreditHasTransaction` is not inductive: an
  apply decides on `paid` and commits later, when the status may have been
  overwritten by a stale handler. The strengthening says that a worker at
  `apply_license` or `credit` works on a request that has its transaction.
* `SerialCreditsOnce`, `SerialPeriodsChain`, `SerialRefusesCleanly`, that is
  `CreditedOnce`, `PaidPeriodsChain` and `RefusedLeavesNoMoney`, under `Serial`:
  no two workers serve a request at once. They follow from `SerialInv`. The
  properties themselves say nothing of a worker between two commits, so the
  invariant adds `RowsAgree` (only a paid request has a transaction, an order to
  fulfil, an effect or `applied_at`) and `UpToDate` (what the busy worker has read
  is what the rows still say). `CreditedOnce` needs it because a worker at `credit`
  must know that its request has had no effect yet, `PaidPeriodsChain` because the
  expiry it read must still be the license's when it commits.
* `SerialImplementsLedger`: under `Serial` every step is a step of
  `PaymentLedger` or a stutter, one case for each action, from `SerialInv`.
* `OneWorkerKeepsPromises`: with one element in `Workers`, which is how the unit
  file starts the panel, `Serial` need not be assumed: the four results hold of
  `Spec`, crashes between any two commits included.

`HealthMonitorProofs` (any nodes, passes and windows):

* `TypeCorrect`.
* `DownOnlyAfterUp` and `DownIsJustified`, from the inductive invariant
  `HistoryInv`: every health row is justified by the log (a state other than
  unknown by an answered ping, `firstFail` by a recorded loss), and so is what
  every session still holds, by the log and by the session's own samples. The
  second part is what makes it inductive: a flush may merge an old session into
  a row that others have changed since.
* `RegistryFollowsMonitor`, `BackAfterQuiet`, `DownIsContinuous`
  (`MirrorAgrees`, `UpAfterQuietWindow`, `DownOnContinuousLoss`) under `OnePass`:
  no two passes are running. They follow from `OnePassInv`: besides `HistoryInv`,
  nothing in the log is later than the clock and no answer later than the first
  lost ping of a streak (`RowTimes`), and a running pass is `Current`: the log is
  no later than the pass, what it will write fits the log and the mirror
  (`Fits`), and the status it loaded is the registry's unless an operator took the
  node out of service meanwhile (`SeenRight`). `HistoryInv` is about sessions that
  may be older than the rows, and cannot tell that no answer came in between.
* `EvacuationFollowsDown` (`EvacuatedIffDown`): also assumes fewer than two alert
  channels, for with two a rollback may discard a transition whose evacuation has
  been carried out (run `HealthTwoChannels` shows the loss), and
  `DownAfter > 0`, which the check of the configuration demands
  (`fleet/hardening.py:94`): with 0 a node may go down at the instant of its last
  evacuation, and the model tells evacuations by their time.
* `SamplesAreKept` (`ProbesRecorded`): fewer than two channels, any overlaps.

`OnePass` cannot be replaced by a count of processes: the panel's check-now and
check-all (`fleet/ui/routes.py:521-544`) run passes beside the timer's. Where they
do overlap, `DownOnlyAfterUp`, `DownIsJustified` and `SamplesAreKept` are what remains.

`WhatsAppQueueProofs` (any messages, attempts, retries and crashes, any finite
sets of drains and web workers):

* `TypeCorrect`.
* `SendersCorrect`, `CopiesCorrect` and `AttemptsCorrect`, that is
  `SendersExplained`, `CopiesExplained` and `AttemptsBounded`, from the inductive
  invariant `QueueInv`, which counts licences to send. A message has one licence
  when it is queued and each process sending it holds one; the first request,
  an operator's retry and a lost reply issue one each. `Claim` moves a licence
  from the row to the process, and only its condition on the status keeps two
  drains from taking the same one; a retryable error gives it back; everything
  else uses or drops it. Without the queued row in the sum the bound is not
  inductive. `AttemptsBounded` needs besides that the attempts a process read at
  its claim are below the limit while it sends.

`ChrMoveProofs` (any commands and workers, any number of overlaps and deaths):

* `MoveTypeCorrect`.
* `DisconnectsSeeRoutes` and `SettledStays`, that is `DisconnectSeesRoutes` and
  `TerminalIsFinal`, from `MoveInv`: as long as nothing has overlapped, at most
  one worker serves a request, what it has read is what the rows still say, a
  committed command belongs to committed routes, and the proxy holds the routes
  of every command it was given. Without the last two parts nothing follows for a
  command that a poll returned long ago.

`FrontDoorProofs` (any nodes and reconcilers):

* `DnsTypeCorrect`.
* `MirrorIsRight` and `FrontDoorStaysOpen` (`MirrorTellsRecords`, `NeverEmptied`)
  from `DnsInv`, which says of the one run in progress what it has already made
  true of the records: the creations that are done are published, nothing is
  deleted before all of them are, and a mirror that is sure tells the records
  of the mode that wrote it outside of a run. All of it is said for each mode, so
  that a switch, which may come between any two steps, disturbs nothing; a mode that
  no run is in keeps its records.

`VpnProofs`, tunnels (any finite set of connections, any workers):

* `TunnelTypeCorrect`, `OffStaysOff` (from `TunnelInv`: a request that is about to
  write a row off has removed the account).
* `StraysNeedFaults`, from `StrayInv`, which counts mismatches between router and
  rows that no request in progress is about to repair: each accident adds at most
  one, and no other step any.
* `AddressesAreFree`, from `AddressInv`: until something overlaps, the address a
  request holds is still free.
* `AllowanceIsKept`, from `ClaimInv`: tunnels held and tunnels asked for together
  stay within the allowance plus overlaps and revivals. Without the requests in
  the sum the bound is not inductive.

`VpnProofs`, quota (any quota, months, traffic and losses): `QuotaTypeCorrect`;
`OnlyTrafficIsCharged` from `ChargeInv`, which adds to the charge the bytes of the
session that are not counted yet, for the row and for the run that will replace
it; `RowTellsSpeed` from `SpeedInv`, which follows the flag through a run.
`SlowMeansExhausted` is the safety half of `QuotaTakesEffect`: before the first
failed call or death, an idle row's tunnel is slow exactly when its count has
reached the quota; `RunDecides` says it of what a run holds at each of its steps.

`PanelProofs`, the key (any nodes, administrators and autosync threads):
`KeyTypeCorrect`; `StaleIsNeverSilent`, that is `StaleIsFlagged`, from `KeyInv`,
which adds that a router trusts a key only after a script was rendered: without
it the autosync's choice of nodes with a snapshot would not cover the routers.

`PanelProofs`, notices (any thresholds, term, scans, dead scans and lost replies):
`NoticeTypeCorrect` and `NoticesGoOutOnce`, that is `EachNoticeOnce`, from
`NoticeInv`. The property speaks of committed rows only; what makes it inductive
is that one transaction at a time has written (`OneWriter`), that its rows are of
keys without a row (`MadeAreNew`: the lock keeps others from committing, the index
refused what was committed before), and that what a poll has read is still waiting
(`ReadAreWaiting`). That a scan's next key is one of its keys rests on
`FiniteHasLargest`: a finite set of numbers has a largest one, from the
well-foundedness of strict inclusion, for the induction theorems of the library are
out of the provers' reach.

`PanelProofs`, peers (any nodes, requests, threads): `PeerTypeCorrect`;
`PassLeavesDesired`: while nothing overlaps and nothing fails, a pass leaves the
interface and the saved file as the set it read, from `PassInv`, which says what
is too much on the interface before and after the helper has added. It is the
step that `PeersSettle` repeats.

`PanelProofs`, bridge token (any instances, rotations and delays):
`BridgeTypeCorrect`; `OldTokensStayOld`: the version never decreases in the row or
in a copy, and a reply is the row or older than the row. It is the safety part of
`BridgeSettles`.

`PanelPartsProofs`: `EveryPartTyped` and `EveryPartSafe`, that is, the invariants
and action properties of the run `PanelParts` for its own specification. A step of
the whole is a step of one part and a stutter of the others (`StepOfEach`), so the
whole implies the safety part of each specification (`WholeIsEach`) and inherits the
theorems above.

The proofs assume what the assumptions on the constants say and the hypotheses
named here. Only model-checked: `EveryMessageDecided`, `CommandsSettle`,
`DownNodeLeaves`, `QuotaTakesEffect`, `KeySettles`, `PeersSettle`, `ReachedIsHeard`
and `BridgeSettles`, because TLAPS does not support fairness and `ENABLED` here, and
the statements that the other runs refute.

## Plan

Done: payments, health, the WhatsApp queue, moves, front door, tunnels, quota,
panel key and peers, notices, bridge token. Next, most important first:

1. `License`: checks from several servers, fingerprints, grace, suspension,
   edits; composed with `LicensePayments`, because an applied payment or a manual
   renewal sets a suspended or revoked license active again.
2. `FleetFailover`: the plan of `fleet/brain/rebalance.py` over the load rows, its
   decisions, composed with the monitor's down transitions.
3. Scoring and placement as operators against a reference definition over
   bounded inputs.
4. `Notifier`: dedupe slots that stay taken, delivery and retry of alerts.
5. `IpTerm`: the renewal of an address against the hourly sweep.
6. `ManagedAdmins`: two requests that each remove another last administrator.
7. The agent on the VPS, and the stages of onboarding once a transport exists.

Theorems to prove next: abstract specifications of the health monitor (a node's
life as its log tells it) and of the WhatsApp queue (a licence to send), with the
modules shown to implement them; the step lemmas that the liveness properties of
`ChrMove`, `FrontDoor` and `PanelKey` repeat, as `PassLeavesDesired` is for the
peers; the invariants of the modules planned above.

## Not modelled

* Pages, forms, texts, script and key generation, encryption, and the clients of
  external services keep no protocol state. Payment gateways have adapters but
  no caller.
* Onboarding jobs: no transport is registered, every push ends in an error, and
  no job gets past `script_generated`. What runs, the creation and deletion of
  the node and its peers, is in `PanelPeers`.
* Enforcement: decisions are shown in pages and never sent to the proxy. The ingest
  inserts a session row with the address of the previous one, or `0.0.0.0`, for
  each report, and the index `uq_active_ip` admits one active row of an address.
* Isolation below READ COMMITTED and lost commits are assumed not to happen;
  SQLite's writer lock only removes behaviours of these models, except in
  `Notices`, which models it: with PostgreSQL the second scan would wait for the
  first at the index and be refused in the same way.

Components marked `not_modelled` in `PROJECT.json` say whether they are planned.

## Observations

Read in the code while modelling; those that a run refutes are above.

* `set_tunnel_status` (`app/services/vpn_tunnels.py:443`) and its peer version
  (`wireguard_peers.py:392`) use `chr_settings`, which the modules do not import:
  a row with an account cannot be suspended. `OffIsOff` leans on that.
* A pasted key that wipes a minted one skips the flags
  (`fleet/ui/routes.py:1036-1048`, `fleet/sync/keys.py:32-38`). The autosync takes
  back a minted key that is not installed yet, and deletes its private half. The
  handshake check clears a flag that a change of roles had set. A script rendered
  with the host's key while another is stored is not flagged. These are the
  holes counted by `missed`.
* The keys of notices lack the term: after a renewal, a threshold that was
  announced before is not announced again (`Spent` in `ReachedIsHeard`). The notice of the expiry is sent within the last 24 hours before.
* Nothing starts a reconcile of the front door when a node recovers or is
  drained; a dry run commits a mirror that later runs believe.
* The mirror of the front door has no mode (`fleet/dns/reconcile.py:483-498`). After
  free and paid are switched an unchanged set is skipped, and the new mode's pool or
  records are not created until the set changes; the old mode's are never removed.
* A query of the nodes that fails counts as no nodes (`fleet/sync/peers.py:67-68`):
  every peer of the panel host is removed until the next pass.
* Overlapping bridge token reports could lower the version; with one worker they
  cannot overlap. `rotate_token` has no caller.
* An idempotency guard of the enforcement ingest ignores action and result
  although its comment says otherwise.
* `onboarding_service.py:493-500` stamps the error of a failed job on a session
  that needs a rollback first.
* `placement.py:7-10` says that stale samples are dropped; the newest is taken
  whatever its age. A node of weight 0 counts as weight 1.

## Running

    tlc -config PaymentsSerial.cfg MCLicensePayments
    tlc -config PanelParts.cfg MCPanelParts
    tlapm LicensePaymentsProofs.tla
    tlapm PanelPartsProofs.tla

Each configuration is named after its run; `PROJECT.json` gives its module.
