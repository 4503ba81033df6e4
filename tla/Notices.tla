------------------------------ MODULE Notices ------------------------------
(***************************************************************************)
(* The countdown notices of a license: app/notifications/engine.py, run     *)
(* every few minutes by cron with the command notifications-scan, the rows  *)
(* it writes through service.create and channels.dispatch, and the polls by *)
(* which the customer's RADIUS panel fetches them.                          *)
(*                                                                          *)
(* A scan reads the days that are left, and for each threshold that is due  *)
(* looks for a notification with the threshold's key and adds one, with its *)
(* panel message, if there is none; one commit at the end keeps them all.   *)
(* The database takes one writer at a time, and its unique index refuses a  *)
(* second row of a key.                                                     *)
(***************************************************************************)
EXTENDS Integers, FiniteSets

CONSTANTS
    Thresholds,   \* days before the expiry at which a notice is due
    Term,         \* days a renewal gives
    Scans,        \* scans that may overlap
    MaxChanges,   \* bound: renewals, suspensions and activations together
    MaxSlips      \* bound: dead scans, lock timeouts and lost replies together

ASSUME NoticeAssumption ==
    /\ Thresholds \subseteq Nat \ {0} /\ IsFiniteSet(Thresholds)
    /\ Term \in Nat /\ MaxChanges \in Nat /\ MaxSlips \in Nat

VARIABLES
    subscription,  \* the license row: whether it is active, the whole days left, and
                   \* how often it was renewed, which no row of a notice tells
    noted,         \* keys of the notification rows
    mail,          \* of each key: panel messages not yet fetched, and fetched ones
    heard,         \* of each key: replies that brought its message
    unheard,       \* of each key: replies lost with its message
    scan,          \* what each scan is doing
    poll,          \* what the poll is doing
    changes,       \* renewals, suspensions and activations so far
    slips          \* slips so far

noticeVars == <<subscription, noted, mail, heard, unheard, scan, poll, changes, slips>>

-----------------------------------------------------------------------------

\* One key of a license per threshold; 0 is the key of the expiry.
Notes == Thresholds \cup {0}
\* term: the term whose days the message counts.
Mail == [waiting : Nat, fetched : Nat, term : 0..MaxChanges]
\* made: rows and messages of the open transaction.  term: that of the license it read.
Scan == [at : {"idle", "look", "insert"}, todo : SUBSET Notes, made : SUBSET Notes,
         term : 0..MaxChanges]
Poll == [at : {"idle", "read"}, rows : SUBSET Notes]

IdleScan == [at |-> "idle", todo |-> {}, made |-> {}, term |-> 0]
IdlePoll == [at |-> "idle", rows |-> {}]

NoticeInit ==
    /\ subscription = [active |-> TRUE, left |-> Term, term |-> 0]
    /\ noted = {}
    /\ mail = [k \in Notes |-> [waiting |-> 0, fetched |-> 0, term |-> 0]]
    /\ heard = [k \in Notes |-> 0] /\ unheard = [k \in Notes |-> 0]
    /\ scan = [s \in Scans |-> IdleScan]
    /\ poll = IdlePoll
    /\ changes = 0 /\ slips = 0

Slip == slips < MaxSlips /\ slips' = slips + 1
rows == <<noted, mail>>
answers == <<heard, unheard>>

-----------------------------------------------------------------------------
(* The license *)

DayPasses ==
    /\ subscription.left > 0
    /\ subscription' = [subscription EXCEPT !.left = @ - 1]
    /\ UNCHANGED <<rows, answers, scan, poll, changes, slips>>

ChangeMade == changes < MaxChanges /\ changes' = changes + 1

SetActive(b) ==
    /\ subscription.active # b
    /\ ChangeMade
    /\ subscription' = [subscription EXCEPT !.active = b]
    /\ UNCHANGED <<rows, answers, scan, poll, slips>>

\* renew_license: the months are added to what is left.
Renew ==
    /\ ChangeMade
    /\ subscription' = [active |-> TRUE, left |-> subscription.left + Term,
                        term |-> subscription.term + 1]
    /\ UNCHANGED <<rows, answers, scan, poll, slips>>

-----------------------------------------------------------------------------
(* A scan *)

\* Mutant: only the day itself counts, so that a day without a scan is skipped.
DueToday(left) == IF left = 0 THEN {0} ELSE {t \in Thresholds : left = t}
\* _emit_countdown: the last day has its own notice, any other every threshold reached.
DueKeys(left) == IF left = 0 THEN {0} ELSE {t \in Thresholds : left <= t}

\* _scan_licenses: the license is read once, when it is active.
StartScan(s) ==
    /\ scan[s].at = "idle"
    /\ subscription.active /\ DueKeys(subscription.left) # {}
    /\ scan' = [scan EXCEPT ![s] =
                    [at |-> "look", todo |-> DueKeys(subscription.left), made |-> {},
                     term |-> subscription.term]]
    /\ UNCHANGED <<subscription, rows, answers, poll, changes, slips>>

\* expiry_thresholds lists the largest first.
Largest(S) == CHOOSE t \in S : \A u \in S : u <= t

\* create: the key's row is looked for.
Look(s) ==
    /\ scan[s].at = "look" /\ scan[s].todo # {}
    /\ LET t == Largest(scan[s].todo) IN
       scan' = IF t \in noted \cup scan[s].made
               THEN [scan EXCEPT ![s].todo = @ \ {t}]
               ELSE [scan EXCEPT ![s].at = "insert"]
    /\ UNCHANGED <<subscription, rows, answers, poll, changes, slips>>

\* A transaction that has written holds the database's write lock until it ends.
LockedOut(s) == \E v \in Scans \ {s} : scan[v].made # {}

\* Mutant: no unique index.
InsertAnyway(s) ==
    /\ scan[s].at = "insert" /\ ~LockedOut(s)
    /\ LET t == Largest(scan[s].todo) IN
       scan' = [scan EXCEPT ![s].at = "look", ![s].todo = @ \ {t}, ![s].made = @ \cup {t}]
    /\ UNCHANGED <<subscription, rows, answers, poll, changes, slips>>
\* create: the row and its panel message are flushed.  If the key was committed
\* after the look, the index refuses the row, the session fails and so does the
\* commit at the end.
Insert(s) ==
    /\ scan[s].at = "insert" /\ ~LockedOut(s)
    /\ LET t == Largest(scan[s].todo) IN
       scan' = IF t \in noted
               THEN [scan EXCEPT ![s] = IdleScan]
               ELSE [scan EXCEPT ![s].at = "look", ![s].todo = @ \ {t},
                                 ![s].made = @ \cup {t}]
    /\ UNCHANGED <<subscription, rows, answers, poll, changes, slips>>

\* scan_once: the commit.
CommitScan(s) ==
    /\ scan[s].at = "look" /\ scan[s].todo = {}
    /\ noted' = noted \cup scan[s].made
    /\ mail' = [k \in Notes |->
                   IF k \in scan[s].made
                   THEN [mail[k] EXCEPT !.waiting = mail[k].waiting + 1,
                                        !.term = scan[s].term]
                   ELSE mail[k]]
    /\ scan' = [scan EXCEPT ![s] = IdleScan]
    /\ UNCHANGED <<subscription, answers, poll, changes, slips>>

\* The process dies, or gives up waiting for the lock: nothing is kept.
ScanDies(s) ==
    /\ scan[s].at # "idle"
    /\ Slip
    /\ scan' = [scan EXCEPT ![s] = IdleScan]
    /\ UNCHANGED <<subscription, rows, answers, poll, changes>>

-----------------------------------------------------------------------------
(* A poll *)

\* poll_undelivered: the messages without delivered_at.
PollRead ==
    /\ poll.at = "idle"
    /\ \E k \in Notes : mail[k].waiting > 0
    /\ poll' = [at |-> "read", rows |-> {k \in Notes : mail[k].waiting > 0}]
    /\ UNCHANGED <<subscription, rows, answers, scan, changes, slips>>

\* delivered_at of the rows that were read.
Stamp ==
    [k \in Notes |-> IF k \in poll.rows
                    THEN [mail[k] EXCEPT !.waiting = 0,
                                         !.fetched = mail[k].fetched + mail[k].waiting]
                    ELSE mail[k]]

Counted(count, S) == [k \in Notes |-> IF k \in S THEN count[k] + 1 ELSE count[k]]

\* The stamps are committed, then the reply leaves.
PollAnswers ==
    /\ poll.at = "read"
    /\ mail' = Stamp
    /\ heard' = Counted(heard, poll.rows)
    /\ poll' = IdlePoll
    /\ UNCHANGED <<subscription, noted, unheard, scan, changes, slips>>

ReplyLost ==
    /\ poll.at = "read"
    /\ Slip
    /\ mail' = Stamp
    /\ unheard' = Counted(unheard, poll.rows)
    /\ poll' = IdlePoll
    /\ UNCHANGED <<subscription, noted, heard, scan, changes>>

PollDies ==
    /\ poll.at = "read"
    /\ Slip
    /\ poll' = IdlePoll
    /\ UNCHANGED <<subscription, rows, answers, scan, changes>>

-----------------------------------------------------------------------------

Scanning(s) ==
    \/ StartScan(s) \/ Look(s) \/ Insert(s) \/ CommitScan(s)

Polling == PollRead \/ PollAnswers

NoticeNext ==
    \/ DayPasses \/ Renew \/ \E b \in BOOLEAN : SetActive(b)
    \/ \E s \in Scans : Scanning(s) \/ ScanDies(s)
    \/ Polling \/ ReplyLost \/ PollDies

\* cron starts a scan every few minutes and the customer's panel polls regularly.
NoticeFairness ==
    /\ \A s \in Scans : WF_noticeVars(Scanning(s))
    /\ WF_noticeVars(Polling)

NoticeSpec == NoticeInit /\ [][NoticeNext]_noticeVars /\ NoticeFairness

-----------------------------------------------------------------------------
(* Properties *)

\* The rows, scans and the poll keep the shape of their tables and variables.
NoticeTypeOK ==
    /\ subscription \in [active : BOOLEAN, left : 0..(Term * (MaxChanges + 1)),
                         term : 0..MaxChanges]
    /\ noted \subseteq Notes
    /\ mail \in [Notes -> Mail]
    /\ heard \in [Notes -> Nat] /\ unheard \in [Notes -> Nat]
    /\ scan \in [Scans -> Scan] /\ poll \in Poll
    /\ changes \in 0..MaxChanges /\ slips \in 0..MaxSlips

\* However scans overlap, fail and are repeated and however often the license is
\* renewed, a key has one panel message or none, as it has a notification row or none,
\* and a message that was fetched left in one reply, which arrived or was lost:
\* engine.py promises that each threshold fires exactly once.
EachNoticeOnce ==
    \A k \in Notes :
        /\ mail[k].waiting + mail[k].fetched = IF k \in noted THEN 1 ELSE 0
        /\ heard[k] + unheard[k] = mail[k].fetched

\* A threshold counts as reached while the license is active and has that many days
\* or fewer, but not in the last day, which has a notice of its own.
Reached(k) ==
    /\ subscription.active
    /\ subscription.left <= k /\ (k > 0 => subscription.left > 0)

\* The customer has read, in a reply that arrived, how this term runs out.
HeardThisTerm(k) == heard[k] > 0 /\ mail[k].term = subscription.term

\* The only message the key will ever have was about an earlier term.
Spent(k) == k \in noted /\ mail[k].term < subscription.term

\* The only message the key will ever have went with a reply that was lost.
LostForGood(k) == unheard[k] > 0

\* Again and again every threshold that is reached has been announced in the term it
\* is reached in, whatever days and scans were missed, unless the license is renewed,
\* switched off or comes to its last day first; and every notice made has arrived.
\* Two things the code gets wrong are excepted, though engine.py:5 promises 7/3/1
\* days before every expiry: a key has no term, so that a threshold announced in an
\* earlier term is silent in this one, and a message whose reply was lost is not sent
\* again.
ReachedIsHeard ==
    []<>(\A k \in Notes :
            /\ Reached(k) => HeardThisTerm(k) \/ Spent(k) \/ LostForGood(k)
            /\ k \in noted => heard[k] > 0 \/ LostForGood(k))
=============================================================================
