------------------------------ MODULE VpnQuota ------------------------------
(***************************************************************************)
(* The monthly quota of a VPN tunnel: app/services/vpn_quota.py, run every  *)
(* few minutes by the systemd timer of the command vpn-quota-sync.          *)
(*                                                                          *)
(* A run reads the bytes of the live session from the node, adds what is    *)
(* new since the last sample to the month's count, moves the account to a   *)
(* slow profile or back, drops the session so that the profile applies, and *)
(* commits every row at its end.  Tunnels share nothing but that commit, so *)
(* one is modelled; runs of a oneshot timer do not overlap.                 *)
(***************************************************************************)
EXTENDS Integers

CONSTANTS
    Quota,        \* bytes of a month
    MaxMonth,     \* bound: months, the first being 1
    MaxTraffic,   \* bound: bytes the tunnel carries in all
    MaxLosses     \* bound: failed calls, lost replies and deaths together

ASSUME QuotaAssumption ==
    /\ Quota \in Nat \ {0} /\ MaxMonth \in Nat \ {0}
    /\ MaxTraffic \in Nat /\ MaxLosses \in Nat

VARIABLES
    month,       \* the current month
    carried,     \* bytes the tunnel has carried in all
    before,      \* bytes it had carried when each month began
    live,        \* the session: whether there is one and its byte counter
    profile,     \* of the account on the node
    quota,       \* the quota columns of the row
    sync,        \* what the run is doing, and the columns as it changed them
    doubtful,    \* the row may not tell the profile
    quotaLosses  \* losses so far

quotaVars == <<month, carried, before, live, profile, quota, sync, doubtful, quotaLosses>>
traffic == <<month, carried, before, live>>

-----------------------------------------------------------------------------

Months == 0..MaxMonth
\* period 0: the row was never synced.
QuotaRow == [period : Months, used : Nat, sample : Nat, throttled : BOOLEAN]
\* now: the month in which the run began.
Sync == [at : {"idle", "read", "slow", "full", "drop", "commit"}, now : Months,
         row : QuotaRow, settled : BOOLEAN]

FreshRow == [period |-> 0, used |-> 0, sample |-> 0, throttled |-> FALSE]

QuotaInit ==
    /\ month = 1 /\ carried = 0
    /\ before = [m \in Months |-> 0]
    /\ live = [up |-> FALSE, bytes |-> 0]
    /\ profile = "full"
    /\ quota = FreshRow
    /\ sync = [at |-> "idle", now |-> 0, row |-> FreshRow, settled |-> FALSE]
    /\ doubtful = FALSE /\ quotaLosses = 0

-----------------------------------------------------------------------------
(* The customer and the calendar *)

Carry ==
    /\ live.up /\ carried < MaxTraffic
    /\ carried' = carried + 1
    /\ live' = [live EXCEPT !.bytes = @ + 1]
    /\ UNCHANGED <<month, before, profile, quota, sync, doubtful, quotaLosses>>

\* The node counts every session from zero.
Reconnect ==
    /\ live' \in [up : BOOLEAN, bytes : {0}] /\ live' # live
    /\ UNCHANGED <<month, carried, before, profile, quota, sync, doubtful, quotaLosses>>

MonthTurns ==
    /\ month < MaxMonth
    /\ month' = month + 1
    /\ before' = [before EXCEPT ![month + 1] = carried]
    /\ UNCHANGED <<carried, live, profile, quota, sync, doubtful, quotaLosses>>

-----------------------------------------------------------------------------
(* A run *)

Loss == quotaLosses < MaxLosses /\ quotaLosses' = quotaLosses + 1
SyncStep(at, row) == sync' = [sync EXCEPT !.at = at, !.row = row]

TimerFires ==
    /\ sync.at = "idle"
    /\ sync' = [at |-> "read", now |-> month, row |-> quota, settled |-> FALSE]
    /\ UNCHANGED <<traffic, profile, quota, doubtful, quotaLosses>>

\* Mutant: a session counts in full every time it is read.
DecideWithoutSample(row, now, bytes) ==
    IF row.period # now
    THEN [row EXCEPT !.period = now, !.used = 0, !.sample = bytes]
    ELSE [row EXCEPT !.used = @ + bytes, !.sample = bytes]
\* decide: a new month clears the count; within the month what the session has
\* carried since the last sample counts, all of it if the session is a new one.
Decide(row, now, bytes) ==
    IF row.period # now
    THEN [row EXCEPT !.period = now, !.used = 0, !.sample = bytes]
    ELSE [row EXCEPT !.used = @ + (IF bytes >= row.sample THEN bytes - row.sample ELSE bytes),
                     !.sample = bytes]

\* Mutant: off by one.
NextCallAbove(row) ==
    CASE row.used > Quota /\ ~row.throttled -> "slow"
      [] row.used < Quota /\ row.throttled -> "full"
      [] OTHER -> "commit"
\* Throttle an exhausted tunnel, and restore one that is not.
NextCall(row) ==
    CASE row.used >= Quota /\ ~row.throttled -> "slow"
      [] row.used < Quota /\ row.throttled -> "full"
      [] OTHER -> "commit"

ReadLive ==
    /\ sync.at = "read"
    /\ LET row == Decide(sync.row, sync.now, live.bytes) IN SyncStep(NextCall(row), row)
    /\ UNCHANGED <<traffic, profile, quota, doubtful, quotaLosses>>

\* The session cannot be read: nothing changes.
ReadLiveFails ==
    /\ sync.at = "read"
    /\ Loss
    /\ SyncStep("commit", sync.row)
    /\ UNCHANGED <<traffic, profile, quota, doubtful>>

\* Mutant: the row is not marked.
SetProfileUnmarked ==
    /\ sync.at \in {"slow", "full"}
    /\ profile' = sync.at
    /\ doubtful' = TRUE
    /\ sync' = [sync EXCEPT !.at = "drop", !.settled = TRUE]
    /\ UNCHANGED <<traffic, quota, quotaLosses>>
\* The account gets the other profile.
SetProfile ==
    /\ sync.at \in {"slow", "full"}
    /\ profile' = sync.at
    /\ doubtful' = TRUE
    /\ sync' = [sync EXCEPT !.at = "drop", !.settled = TRUE,
                            !.row.throttled = (sync.at = "slow")]
    /\ UNCHANGED <<traffic, quota, quotaLosses>>

\* The call fails, or its reply is lost: the count is kept, the flag as it was.
SetProfileFails ==
    /\ sync.at \in {"slow", "full"}
    /\ Loss
    /\ \/ UNCHANGED <<profile, doubtful>>
       \/ profile' = sync.at /\ doubtful' = TRUE
    /\ SyncStep("commit", sync.row)
    /\ UNCHANGED <<traffic, quota>>

\* The live session is dropped, if that works, and comes back on the new profile.
DropSession ==
    /\ sync.at = "drop"
    /\ live' \in {live, [up |-> FALSE, bytes |-> 0]}
    /\ SyncStep("commit", sync.row)
    /\ UNCHANGED <<month, carried, before, profile, quota, doubtful, quotaLosses>>

CommitSync ==
    /\ sync.at = "commit"
    /\ quota' = sync.row
    /\ doubtful' = (doubtful /\ ~sync.settled)
    /\ sync' = [sync EXCEPT !.at = "idle"]
    /\ UNCHANGED <<traffic, profile, quotaLosses>>

\* The run dies: no row keeps what it did.
SyncDies ==
    /\ sync.at # "idle" /\ Loss
    /\ sync' = [sync EXCEPT !.at = "idle"]
    /\ UNCHANGED <<traffic, profile, quota, doubtful>>

-----------------------------------------------------------------------------

SyncRun == \/ TimerFires \/ ReadLive \/ ReadLiveFails \/ SetProfile \/ SetProfileFails
       \/ DropSession \/ CommitSync

QuotaNext == Carry \/ Reconnect \/ MonthTurns \/ SyncRun \/ SyncDies

QuotaSpec == QuotaInit /\ [][QuotaNext]_quotaVars

\* The timer goes on firing and a run ends: every call has a timeout.
QuotaFairness == WF_quotaVars(SyncRun)
QuotaFairSpec == QuotaSpec /\ QuotaFairness

-----------------------------------------------------------------------------
(* Properties *)

\* The clock, the session, the row and the run have the shape of their variables.
QuotaTypeOK ==
    /\ month \in Months /\ carried \in Nat /\ before \in [Months -> Nat]
    /\ live \in [up : BOOLEAN, bytes : Nat]
    /\ profile \in {"full", "slow"}
    /\ quota \in QuotaRow /\ sync \in Sync
    /\ doubtful \in BOOLEAN /\ quotaLosses \in 0..MaxLosses

\* A tunnel is never charged for more than it has carried since the row's month
\* began, whatever reconnects, drops, failed reads and dead runs come in between.
NeverOvercharged == quota.used <= carried - before[quota.period]

\* Between runs the row tells the profile of the account, unless a reply was lost or
\* a run died after the node was changed and no later run has set the profile since.
SpeedAgrees ==
    sync.at = "idle" /\ ~doubtful => (profile = "slow" <=> quota.throttled)

\* Again and again an exhausted tunnel has the slow profile, unless the month is over,
\* and one that was slow in an earlier month has the full profile, unless it is
\* exhausted again, or the row no longer tells the profile: a failed call is made up
\* for by a later run.
QuotaTakesEffect ==
    /\ []<>(quota.used >= Quota => profile = "slow" \/ doubtful \/ quota.period < month)
    /\ []<>(quota.throttled /\ quota.period < month =>
               profile = "full" \/ doubtful \/ quota.used >= Quota)
=============================================================================
