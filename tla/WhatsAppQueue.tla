---------------------------- MODULE WhatsAppQueue ----------------------------
(***************************************************************************)
(* The outbound WhatsApp queue: app/services/whatsapp/queue.py, worker.py   *)
(* and webhook.py with the admin routes that retry and cancel messages.     *)
(*                                                                          *)
(* A row of whatsapp_message_queue is the only thing its processes share:   *)
(* the oneshot drains a systemd timer starts, and the web workers, whose    *)
(* requests enqueue, retry, cancel and drain, and take Meta's callbacks.    *)
(* Claiming a row is one conditional UPDATE.  Every other change reads the  *)
(* row first and writes it by id in a later commit, and sending it is an    *)
(* HTTP call between two commits.                                           *)
(***************************************************************************)
EXTENDS Integers, FiniteSets

CONSTANTS
    Messages,     \* idempotency keys, and so rows
    Drainers,     \* processes of the whatsapp-drain timer
    Workers,      \* web workers: each serves one HTTP request at a time
    NoMessage,    \* a process that works on no message
    MaxAttempts,  \* WHATSAPP_MAX_ATTEMPTS
    MaxSends,     \* bound: how often Meta accepts one message
    MaxRetries,   \* bound: how often operators retry one message
    MaxCrashes    \* bound: how often a process dies

ASSUME ConstantsAssumption ==
    /\ Drainers \cap Workers = {}
    /\ IsFiniteSet(Drainers) /\ IsFiniteSet(Workers)
    /\ NoMessage \notin Messages
    /\ MaxAttempts \in Nat \ {0}
    /\ MaxSends \in Nat /\ MaxRetries \in Nat /\ MaxCrashes \in Nat

Processes == Drainers \cup Workers

VARIABLES
    row,       \* whatsapp_message_queue
    accepted,  \* how often Meta accepted a message: its ids are 1, 2, ...
    lost,      \* how often its reply was lost
    retried,   \* how often an operator's retry of a message was committed
    seen,      \* whatsapp_webhook_events: callbacks that were stored
    proc,      \* what every process is doing
    crashes    \* how many processes died so far

vars == <<row, accepted, lost, retried, seen, proc, crashes>>
metaVars == <<accepted, lost>>

-----------------------------------------------------------------------------
(* Rows and processes *)

Statuses == {"none", "queued", "sending", "sent", "delivered", "read", "failed", "canceled"}
Receipts == {"sent", "delivered", "read", "failed"}
Ids == 1..MaxSends

\* wait: next_attempt_at is in the future.  pmid: provider_message_id, 0 if NULL.
Row == [status : Statuses, attempts : Nat, wait : BOOLEAN,
        pmid : {0} \cup Ids]
NoRow == [status |-> "none", attempts |-> 0, wait |-> FALSE, pmid |-> 0]

Steps == {"idle", "select", "batch", "send", "accepted", "error", "bump",
          "retry", "cancel", "callback"}
\* The steps that work on one message.
MessageSteps == Steps \ {"idle", "select", "batch"}

\* id: Meta's id of the message at hand.  tries: row.attempts as the session of
\* the process holds it.  flag: the error may be retried, or the receipt changes
\* the row it matched.  todo: what is left of the batch.
Activity ==
    {a \in [at : Steps, m : Messages \cup {NoMessage}, id : {0} \cup Ids,
            tries : Nat, flag : BOOLEAN, receipt : Receipts, todo : SUBSET Messages] :
        /\ a.at \in MessageSteps => a.m \in Messages
        /\ a.at = "callback" => a.id \in Ids}

Idle == [at |-> "idle", m |-> NoMessage, id |-> 0, tries |-> 0, flag |-> FALSE,
         receipt |-> "sent", todo |-> {}]

Goto(p, act) == proc' = [proc EXCEPT ![p] = act]
NextOfBatch(p) == Goto(p, [Idle EXCEPT !.at = "batch", !.todo = proc[p].todo])

Fail(m, tries) ==
    row' = [row EXCEPT ![m].status = "failed", ![m].attempts = tries,
                       ![m].wait = FALSE]

Init ==
    /\ row = [m \in Messages |-> NoRow]
    /\ accepted = [m \in Messages |-> 0]
    /\ lost = [m \in Messages |-> 0]
    /\ retried = [m \in Messages |-> 0]
    /\ seen = {}
    /\ proc = [p \in Processes |-> Idle]
    /\ crashes = 0

-----------------------------------------------------------------------------
(* Requests: every one of them ends by draining inline *)

\* The unique idempotency key makes a second request find the row of the first.
Enqueue(w, m) ==
    /\ proc[w].at = "idle"
    /\ row' = [row EXCEPT ![m].status = IF @ = "none" THEN "queued" ELSE @]
    /\ Goto(w, [Idle EXCEPT !.at = "select"])
    /\ UNCHANGED <<metaVars, retried, seen, crashes>>

RetryRead(w, m) ==
    /\ proc[w].at = "idle"
    /\ row[m].status = "failed"
    /\ row[m].attempts < MaxAttempts
    /\ retried[m] < MaxRetries
    /\ Goto(w, [Idle EXCEPT !.at = "retry", !.m = m])
    /\ UNCHANGED <<row, metaVars, retried, seen, crashes>>

RetryCommit(w) ==
    LET m == proc[w].m IN
    /\ proc[w].at = "retry"
    /\ row' = [row EXCEPT ![m].status = "queued", ![m].wait = FALSE]
    /\ retried' = [retried EXCEPT ![m] = @ + 1]
    /\ Goto(w, [Idle EXCEPT !.at = "select"])
    /\ UNCHANGED <<metaVars, seen, crashes>>

CancelRead(w, m) ==
    /\ proc[w].at = "idle"
    /\ row[m].status \in {"queued", "failed"}
    /\ Goto(w, [Idle EXCEPT !.at = "cancel", !.m = m])
    /\ UNCHANGED <<row, metaVars, retried, seen, crashes>>

CancelCommit(w) ==
    /\ proc[w].at = "cancel"
    /\ row' = [row EXCEPT ![proc[w].m].status = "canceled", ![proc[w].m].wait = FALSE]
    /\ Goto(w, Idle)
    /\ UNCHANGED <<metaVars, retried, seen, crashes>>

-----------------------------------------------------------------------------
(* Draining *)

TimerFires(d) ==
    /\ proc[d].at = "idle"
    /\ Goto(d, [Idle EXCEPT !.at = "select"])
    /\ UNCHANGED <<row, metaVars, retried, seen, crashes>>

\* Mutant: next_attempt_at is compared the wrong way round.
DueBackwards == {m \in Messages : /\ row[m].status = "queued"
                                  /\ row[m].attempts = 0 \/ row[m].wait}
Due == {m \in Messages : row[m].status = "queued" /\ ~row[m].wait}

\* A batch holds every due row: batch_size is larger than Messages.
SelectBatch(p) ==
    /\ proc[p].at = "select"
    /\ Goto(p, [Idle EXCEPT !.at = "batch", !.todo = Due])
    /\ UNCHANGED <<row, metaVars, retried, seen, crashes>>

\* Mutant: the claim is not conditional on the status.
ClaimSelected(p, m) ==
    /\ proc[p].at = "batch" /\ m \in proc[p].todo
    /\ row' = [row EXCEPT ![m].status = "sending"]
    /\ Goto(p, [Idle EXCEPT !.at = "send", !.m = m, !.tries = row[m].attempts,
                            !.todo = proc[p].todo \ {m}])
    /\ UNCHANGED <<metaVars, retried, seen, crashes>>
Claim(p, m) ==
    /\ proc[p].at = "batch" /\ m \in proc[p].todo
    /\ row[m].status = "queued"
    /\ row' = [row EXCEPT ![m].status = "sending"]
    /\ Goto(p, [Idle EXCEPT !.at = "send", !.m = m, !.tries = row[m].attempts,
                            !.todo = proc[p].todo \ {m}])
    /\ UNCHANGED <<metaVars, retried, seen, crashes>>

Skip(p, m) ==
    /\ proc[p].at = "batch" /\ m \in proc[p].todo
    /\ row[m].status # "queued"
    /\ Goto(p, [proc[p] EXCEPT !.todo = @ \ {m}])
    /\ UNCHANGED <<row, metaVars, retried, seen, crashes>>

EndDrain(p) ==
    /\ proc[p].at = "batch" /\ proc[p].todo = {}
    /\ Goto(p, Idle)
    /\ UNCHANGED <<row, metaVars, retried, seen, crashes>>

-----------------------------------------------------------------------------
(* Sending a claimed row *)

\* Meta accepts the message.  The reply may be lost: the connection breaks or
\* times out, which the provider reports as a retryable error.
Accept(p, replied) ==
    LET m == proc[p].m IN
    /\ proc[p].at = "send"
    /\ accepted[m] < MaxSends
    /\ accepted' = [accepted EXCEPT ![m] = @ + 1]
    /\ IF replied
       THEN /\ Goto(p, [proc[p] EXCEPT !.at = "accepted", !.id = accepted[m] + 1])
            /\ UNCHANGED lost
       ELSE /\ Goto(p, [proc[p] EXCEPT !.at = "error", !.flag = TRUE])
            /\ lost' = [lost EXCEPT ![m] = @ + 1]
    /\ UNCHANGED <<row, retried, seen, crashes>>

\* Meta was not reached, or refuses the message for now or for good.
Refuse(p, retryable) ==
    /\ proc[p].at = "send"
    /\ Goto(p, [proc[p] EXCEPT !.at = "error", !.flag = retryable])
    /\ UNCHANGED <<row, metaVars, retried, seen, crashes>>

\* The account is not connected, or there is nothing to send.
NotSendable(p) ==
    /\ proc[p].at = "send"
    /\ Fail(proc[p].m, row[proc[p].m].attempts)
    /\ NextOfBatch(p)
    /\ UNCHANGED <<metaVars, retried, seen, crashes>>

\* Mutant: the row gets the status Meta's answer reports.
MarkAccepted(p) ==
    LET m == proc[p].m IN
    /\ proc[p].at = "accepted"
    /\ row' = [row EXCEPT ![m].status = "accepted", ![m].pmid = proc[p].id,
                          ![m].wait = FALSE]
    /\ Goto(p, [proc[p] EXCEPT !.at = "bump", !.id = 0, !.tries = 0])
    /\ UNCHANGED <<metaVars, retried, seen, crashes>>
MarkSent(p) ==
    LET m == proc[p].m IN
    /\ proc[p].at = "accepted"
    /\ row' = [row EXCEPT ![m].status = "sent", ![m].pmid = proc[p].id,
                          ![m].wait = FALSE]
    /\ Goto(p, [proc[p] EXCEPT !.at = "bump", !.id = 0, !.tries = 0])
    /\ UNCHANGED <<metaVars, retried, seen, crashes>>

\* bump_usage(sent=1) or bump_usage(failed=1)
CountOutcome(p) ==
    /\ proc[p].at = "bump"
    /\ NextOfBatch(p)
    /\ UNCHANGED <<row, metaVars, retried, seen, crashes>>

\* Anything unexpected on the way, such as two processes creating the usage
\* counter of a new day: the row is failed, even if it has been sent.
Unexpected(p) ==
    /\ proc[p].at \in {"send", "accepted", "error", "bump"}
    /\ Fail(proc[p].m, row[proc[p].m].attempts)
    /\ NextOfBatch(p)
    /\ UNCHANGED <<metaVars, retried, seen, crashes>>

\* Mutant: the limit is compared before counting the attempt.
CanRetryLate(p) == proc[p].flag /\ proc[p].tries < MaxAttempts
CanRetry(p) == proc[p].flag /\ proc[p].tries + 1 < MaxAttempts

HandleError(p) ==
    LET m == proc[p].m
        tries == proc[p].tries + 1 IN
    /\ proc[p].at = "error"
    /\ IF CanRetry(p)
       THEN /\ row' = [row EXCEPT ![m].status = "queued", ![m].attempts = tries,
                                  ![m].wait = TRUE]
            /\ NextOfBatch(p)
       ELSE /\ Fail(m, tries)
            /\ Goto(p, [proc[p] EXCEPT !.at = "bump", !.tries = 0, !.flag = FALSE])
    /\ UNCHANGED <<metaVars, retried, seen, crashes>>

\* The backoff of 1, 5 or 15 minutes elapses.
BackoffElapses(m) ==
    /\ row[m].wait
    /\ row' = [row EXCEPT ![m].wait = FALSE]
    /\ UNCHANGED <<metaVars, retried, seen, proc, crashes>>

-----------------------------------------------------------------------------
(* Meta's callbacks: one event for each receipt of each accepted message, in *)
(* any order.  A repeated one finds itself stored and changes nothing.       *)

\* Meta does not report a message both failed and delivered.
Consistent(m, id, receipt) ==
    /\ receipt = "failed" => {"delivered", "read"} \cap {r \in Receipts : <<m, id, r>> \in seen} = {}
    /\ receipt \in {"delivered", "read"} => <<m, id, "failed">> \notin seen

CallbackRead(w, m, id, receipt) ==
    /\ proc[w].at = "idle"
    /\ id <= accepted[m]
    /\ <<m, id, receipt>> \notin seen
    /\ Consistent(m, id, receipt)
    /\ Goto(w, [Idle EXCEPT !.at = "callback", !.m = m, !.id = id, !.receipt = receipt,
                            !.flag = (row[m].pmid = id /\ row[m].status # receipt)])
    /\ UNCHANGED <<row, metaVars, retried, seen, crashes>>

\* The event is stored as processed whether or not a row matched it.  If another
\* worker has stored it meanwhile its unique id rolls this one back.
CallbackCommit(w) ==
    LET m == proc[w].m IN
    /\ proc[w].at = "callback"
    /\ seen' = seen \cup {<<m, proc[w].id, proc[w].receipt>>}
    /\ row' = IF proc[w].flag /\ <<m, proc[w].id, proc[w].receipt>> \notin seen
              THEN [row EXCEPT ![m].status = proc[w].receipt]
              ELSE row
    /\ Goto(w, Idle)
    /\ UNCHANGED <<metaVars, retried, crashes>>

\* A process dies between two of its commits.
Crash(p) ==
    /\ proc[p].at # "idle"
    /\ crashes < MaxCrashes
    /\ crashes' = crashes + 1
    /\ Goto(p, Idle)
    /\ UNCHANGED <<row, metaVars, retried, seen>>

-----------------------------------------------------------------------------

\* The steps a process takes once it has started something.
Proceed(p) ==
    \/ RetryCommit(p) \/ CancelCommit(p) \/ CallbackCommit(p)
    \/ SelectBatch(p) \/ EndDrain(p)
    \/ \E m \in Messages : Claim(p, m) \/ Skip(p, m)
    \/ \E b \in BOOLEAN : Accept(p, b) \/ Refuse(p, b)
    \/ NotSendable(p) \/ MarkSent(p) \/ CountOutcome(p) \/ Unexpected(p) \/ HandleError(p)

Next ==
    \/ \E p \in Processes : Proceed(p) \/ Crash(p)
    \/ \E d \in Drainers : TimerFires(d)
    \/ \E w \in Workers, m \in Messages :
         \/ Enqueue(w, m) \/ RetryRead(w, m) \/ CancelRead(w, m)
         \/ \E id \in Ids, receipt \in Receipts : CallbackRead(w, m, id, receipt)
    \/ \E m \in Messages : BackoffElapses(m)

Spec == Init /\ [][Next]_vars

\* The timer fires again and again, what was started ends (every HTTP call has a
\* timeout), and time passes.  Nothing obliges operators, customers or Meta.
Fairness ==
    /\ \A p \in Processes : WF_vars(Proceed(p))
    /\ \A d \in Drainers : WF_vars(TimerFires(d))
    /\ \A m \in Messages : WF_vars(BackoffElapses(m))

FairSpec == Spec /\ Fairness

-----------------------------------------------------------------------------
(* Properties *)

\* Every row and every process has the shape of its columns and variables.
TypeOK ==
    /\ row \in [Messages -> Row]
    /\ accepted \in [Messages -> 0..MaxSends]
    /\ lost \in [Messages -> Nat]
    /\ retried \in [Messages -> Nat]
    /\ seen \subseteq Messages \X Ids \X Receipts
    /\ proc \in [Processes -> Activity]
    /\ crashes \in 0..MaxCrashes

Sending(p, m) == proc[p].m = m /\ proc[p].at \in {"send", "accepted", "error"}
Senders(m) == {p \in Processes : Sending(p, m)}
Decided(m) == row[m].status \in {"sent", "delivered", "read", "failed", "canceled"}
Orphaned(m) == row[m].status = "sending" /\ Senders(m) = {}

\* Drains never hold the same message for sending at the same time, however many
\* there are; only an operator's retry can bring in another one.
SendersExplained ==
    \A m \in Messages : Cardinality(Senders(m)) <= 1 + retried[m]

\* A recipient gets a message more than once only for a reason: each further copy
\* answers an operator's retry or a reply of Meta that was lost.
CopiesExplained ==
    \A m \in Messages : accepted[m] <= 1 + retried[m] + lost[m]

\* Automatic retries stay within max_attempts: a message nobody retried by hand
\* was not tried more often.
AttemptsBounded ==
    \A m \in Messages : retried[m] = 0 => row[m].attempts <= MaxAttempts

\* Every queued message is decided sooner or later, unless the process that
\* claimed it died over it: no interleaving of drains, retries, cancellations and
\* callbacks loses a message or keeps it going for ever.
EveryMessageDecided ==
    \A m \in Messages : row[m].status = "queued" ~> Decided(m) \/ (Orphaned(m) /\ crashes > 0)

-----------------------------------------------------------------------------
(* What the documentation says and the code does not do *)

\* "Cancel a message. Allowed only from queued or failed", not from sending
\* (app/services/whatsapp/queue.py:182-185).
CanceledOnlyIfIdle ==
    [][\A m \in Messages :
         (row[m].status # "canceled" /\ row'[m].status = "canceled")
            => row[m].status \in {"queued", "failed"}]_vars

\* "status walks queued -> sending -> sent -> delivered/read": a receipt never
\* takes a message back (app/models.py:1435).
ReceiptsOnlyAdvance ==
    [][\A m \in Messages :
         row[m].status = "read" => row'[m].status \notin {"sent", "delivered"}]_vars

=============================================================================
