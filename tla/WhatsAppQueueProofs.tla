------------------------- MODULE WhatsAppQueueProofs -------------------------
(***************************************************************************)
(* Theorems about WhatsAppQueue, for any messages, drains, web workers,     *)
(* crashes and lost replies.                                                *)
(***************************************************************************)
EXTENDS WhatsAppQueue, FiniteSetTheorems, TLAPS

-----------------------------------------------------------------------------
(* Types *)

LEMMA IdleType == Idle \in Activity
  BY DEF Idle, Activity, Steps, MessageSteps, Receipts

LEMMA GotoType ==
  ASSUME TypeOK, NEW p \in Processes, NEW act \in Activity, Goto(p, act)
  PROVE  proc' \in [Processes -> Activity]
  BY DEF TypeOK, Goto

\* The activities that start from an idle process.
LEMMA StartTypes ==
  /\ [Idle EXCEPT !.at = "select"] \in Activity
  /\ \A S \in SUBSET Messages : [Idle EXCEPT !.at = "batch", !.todo = S] \in Activity
  /\ \A m \in Messages : /\ [Idle EXCEPT !.at = "retry", !.m = m] \in Activity
                         /\ [Idle EXCEPT !.at = "cancel", !.m = m] \in Activity
  /\ \A m \in Messages, id \in Ids, r \in Receipts, b \in BOOLEAN :
        [Idle EXCEPT !.at = "callback", !.m = m, !.id = id, !.receipt = r, !.flag = b] \in Activity
  /\ \A m \in Messages, t \in Nat, S \in SUBSET Messages :
        [Idle EXCEPT !.at = "send", !.m = m, !.tries = t, !.todo = S] \in Activity
  BY DEF Idle, Activity, Steps, MessageSteps, Receipts

LEMMA NextOfBatchType ==
  ASSUME TypeOK, NEW p \in Processes, NextOfBatch(p)
  PROVE  proc' \in [Processes -> Activity]
<1>1. proc[p].todo \in SUBSET Messages
  BY DEF TypeOK, Activity
<1>2. [Idle EXCEPT !.at = "batch", !.todo = proc[p].todo] \in Activity
  BY <1>1, StartTypes
<1>3. QED
  BY <1>2, GotoType DEF NextOfBatch

LEMMA RowType ==
  ASSUME TypeOK, NEW m \in Messages, NEW s \in Statuses, NEW t \in Nat, NEW b \in BOOLEAN,
         row' = [row EXCEPT ![m].status = s, ![m].attempts = t, ![m].wait = b]
  PROVE  row' \in [Messages -> Row]
<1> DEFINE x == [row[m] EXCEPT !.status = s, !.attempts = t, !.wait = b]
<1>1. row[m] \in Row /\ row \in [Messages -> Row]
  BY DEF TypeOK
<1>2. x \in Row
  BY <1>1 DEF Row
<1>3. row' = [row EXCEPT ![m] = x]
  BY <1>1 DEF Row
<1> HIDE DEF x
<1>4. QED
  BY <1>1, <1>2, <1>3

LEMMA FailType ==
  ASSUME TypeOK, NEW m \in Messages, NEW t \in Nat, Fail(m, t)
  PROVE  row' \in [Messages -> Row]
  BY RowType DEF Fail, Statuses

LEMMA InitType == Init => TypeOK
  BY IdleType, ConstantsAssumption
  DEF Init, TypeOK, NoRow, Row, Statuses

LEMMA NextType == TypeOK /\ [Next]_vars => TypeOK'
<1> SUFFICES ASSUME TypeOK, [Next]_vars PROVE TypeOK'
  OBVIOUS
<1> USE DEF metaVars
<1>p. ASSUME NEW p \in Processes
      PROVE  /\ proc[p] \in Activity
             /\ proc[p].at \in MessageSteps =>
                   /\ proc[p].m \in Messages
                   /\ row[proc[p].m] \in Row
                   /\ row[proc[p].m].attempts \in Nat
             /\ proc[p].tries \in Nat /\ proc[p].id \in {0} \cup Ids
             /\ proc[p].todo \in SUBSET Messages
  BY DEF TypeOK, Activity, Row
<1>1. ASSUME NEW p \in Processes, Proceed(p) PROVE TypeOK'
  <2>1. CASE RetryCommit(p)
    <3>1. proc' \in [Processes -> Activity]
      BY <2>1, StartTypes, GotoType DEF RetryCommit
    <3>2. proc[p].m \in Messages
      BY <2>1, <1>p DEF RetryCommit, MessageSteps, Steps
    <3>3. row' \in [Messages -> Row]
      BY <2>1, <3>2 DEF RetryCommit, TypeOK, Row, Statuses
    <3>4. retried' \in [Messages -> Nat]
      BY <2>1, <3>2 DEF RetryCommit, TypeOK
    <3>5. QED
      BY <2>1, <3>1, <3>3, <3>4 DEF RetryCommit, TypeOK
  <2>2. CASE CancelCommit(p)
    <3>1. proc' \in [Processes -> Activity]
      BY <2>2, IdleType, GotoType DEF CancelCommit
    <3>2. row' \in [Messages -> Row]
      BY <2>2, <1>p DEF CancelCommit, TypeOK, Row, Statuses
    <3>3. QED
      BY <2>2, <3>1, <3>2 DEF CancelCommit, TypeOK
  <2>3. CASE CallbackCommit(p)
    <3>1. proc' \in [Processes -> Activity]
      BY <2>3, IdleType, GotoType DEF CallbackCommit
    <3>2. proc[p].m \in Messages /\ proc[p].id \in Ids /\ proc[p].receipt \in Receipts
      BY <2>3, <1>p DEF CallbackCommit, Activity, MessageSteps, Steps
    <3>3. row' \in [Messages -> Row]
      BY <2>3, <3>2 DEF CallbackCommit, TypeOK, Row, Statuses, Receipts
    <3>4. seen' \subseteq Messages \X Ids \X Receipts
      BY <2>3, <3>2 DEF CallbackCommit, TypeOK
    <3>5. QED
      BY <2>3, <3>1, <3>3, <3>4 DEF CallbackCommit, TypeOK
  <2>4. CASE SelectBatch(p)
    <3>1. Due \in SUBSET Messages
      BY DEF Due
    <3>2. proc' \in [Processes -> Activity]
      BY <2>4, <3>1, StartTypes, GotoType DEF SelectBatch
    <3>3. QED
      BY <2>4, <3>2 DEF SelectBatch, TypeOK
  <2>5. CASE EndDrain(p)
    BY <2>5, IdleType, GotoType DEF EndDrain, TypeOK
  <2>6. ASSUME NEW m \in Messages, Claim(p, m) PROVE TypeOK'
    <3>1. row[m].attempts \in Nat /\ proc[p].todo \ {m} \in SUBSET Messages
      BY <1>p DEF TypeOK, Row
    <3>2. proc' \in [Processes -> Activity]
      BY <2>6, <3>1, StartTypes, GotoType DEF Claim
    <3>3. row' \in [Messages -> Row]
      BY <2>6 DEF Claim, TypeOK, Row, Statuses
    <3>4. QED
      BY <2>6, <3>2, <3>3 DEF Claim, TypeOK
  <2>7. ASSUME NEW m \in Messages, Skip(p, m) PROVE TypeOK'
    <3>1. [proc[p] EXCEPT !.todo = @ \ {m}] \in Activity
      BY <1>p DEF Activity
    <3>2. QED
      BY <2>7, <3>1, GotoType DEF Skip, TypeOK
  <2>8. ASSUME NEW b \in BOOLEAN, Accept(p, b) PROVE TypeOK'
    <3>1. proc[p].m \in Messages
      BY <2>8, <1>p DEF Accept, MessageSteps, Steps
    <3>2. /\ accepted[proc[p].m] \in 0..MaxSends /\ MaxSends \in Nat
          /\ accepted[proc[p].m] < MaxSends
      BY <2>8, <3>1, ConstantsAssumption DEF Accept, TypeOK
    <3>3. accepted[proc[p].m] + 1 \in Ids
      BY <3>2 DEF Ids
    <3>4. accepted' \in [Messages -> 0..MaxSends]
      BY <2>8, <3>1, <3>2 DEF Accept, TypeOK
    <3>5. lost' \in [Messages -> Nat]
      BY <2>8, <3>1 DEF Accept, TypeOK
    <3>6. /\ [proc[p] EXCEPT !.at = "accepted", !.id = accepted[proc[p].m] + 1] \in Activity
          /\ [proc[p] EXCEPT !.at = "error", !.flag = TRUE] \in Activity
      BY <1>p, <3>1, <3>3 DEF Activity, MessageSteps, Steps
    <3>7. proc' \in [Processes -> Activity]
      BY <2>8, <3>6, GotoType DEF Accept
    <3>8. QED
      BY <2>8, <3>4, <3>5, <3>7 DEF Accept, TypeOK
  <2>9. ASSUME NEW b \in BOOLEAN, Refuse(p, b) PROVE TypeOK'
    <3>1. [proc[p] EXCEPT !.at = "error", !.flag = b] \in Activity
      BY <2>9, <1>p DEF Refuse, Activity, MessageSteps, Steps
    <3>2. QED
      BY <2>9, <3>1, GotoType DEF Refuse, TypeOK
  <2>10. CASE NotSendable(p)
    <3>1. proc[p].at \in MessageSteps
      BY <2>10 DEF NotSendable, MessageSteps, Steps
    <3>2. row' \in [Messages -> Row]
      BY <2>10, <3>1, <1>p, FailType DEF NotSendable
    <3>3. QED
      BY <2>10, <3>2, NextOfBatchType DEF NotSendable, TypeOK
  <2>11. CASE MarkSent(p)
    <3>1. proc[p].m \in Messages /\ proc[p].id \in {0} \cup Ids
      BY <2>11, <1>p DEF MarkSent, MessageSteps, Steps
    <3>2. row' \in [Messages -> Row]
      BY <2>11, <3>1 DEF MarkSent, TypeOK, Row, Statuses
    <3>3. [proc[p] EXCEPT !.at = "bump", !.id = 0, !.tries = 0] \in Activity
      BY <3>1, <1>p DEF Activity, MessageSteps, Steps
    <3>4. QED
      BY <2>11, <3>2, <3>3, GotoType DEF MarkSent, TypeOK
  <2>12. CASE CountOutcome(p)
    BY <2>12, NextOfBatchType DEF CountOutcome, TypeOK
  <2>13. CASE Unexpected(p)
    <3>1. proc[p].at \in MessageSteps
      BY <2>13 DEF Unexpected, MessageSteps, Steps
    <3>2. row' \in [Messages -> Row]
      BY <2>13, <3>1, <1>p, FailType DEF Unexpected
    <3>3. QED
      BY <2>13, <3>2, NextOfBatchType DEF Unexpected, TypeOK
  <2>14. CASE HandleError(p)
    <3>1. proc[p].m \in Messages /\ proc[p].tries + 1 \in Nat
      BY <2>14, <1>p DEF HandleError, MessageSteps, Steps
    <3>2. CASE CanRetry(p)
      <4>1. row' \in [Messages -> Row]
        BY <2>14, <3>1, <3>2, RowType DEF HandleError, Statuses
      <4>2. QED
        BY <2>14, <3>2, <4>1, NextOfBatchType DEF HandleError, TypeOK
    <3>3. CASE ~CanRetry(p)
      <4>1. row' \in [Messages -> Row]
        BY <2>14, <3>1, <3>3, FailType DEF HandleError
      <4>2. [proc[p] EXCEPT !.at = "bump", !.tries = 0, !.flag = FALSE] \in Activity
        BY <3>1, <1>p DEF Activity, MessageSteps, Steps
      <4>3. QED
        BY <2>14, <3>3, <4>1, <4>2, GotoType DEF HandleError, TypeOK
    <3>4. QED
      BY <3>2, <3>3
  <2>15. QED
    BY <1>1, <2>1, <2>2, <2>3, <2>4, <2>5, <2>6, <2>7, <2>8, <2>9, <2>10, <2>11,
       <2>12, <2>13, <2>14 DEF Proceed
<1>2. ASSUME NEW p \in Processes, Crash(p) PROVE TypeOK'
  <2>1. crashes' \in 0..MaxCrashes
    BY <1>2, ConstantsAssumption DEF Crash, TypeOK
  <2>2. QED
    BY <1>2, <2>1, IdleType, GotoType DEF Crash, TypeOK
<1>3. ASSUME NEW d \in Drainers, TimerFires(d) PROVE TypeOK'
  BY <1>3, StartTypes, GotoType DEF TimerFires, TypeOK, Processes
<1>4. ASSUME NEW w \in Workers, NEW m \in Messages, Enqueue(w, m) PROVE TypeOK'
  <2>1. row' \in [Messages -> Row]
    BY <1>4 DEF Enqueue, TypeOK, Row, Statuses
  <2>2. QED
    BY <1>4, <2>1, StartTypes, GotoType DEF Enqueue, TypeOK, Processes
<1>5. ASSUME NEW w \in Workers, NEW m \in Messages, RetryRead(w, m) \/ CancelRead(w, m)
      PROVE  TypeOK'
  BY <1>5, StartTypes, GotoType DEF RetryRead, CancelRead, TypeOK, Processes
<1>6. ASSUME NEW w \in Workers, NEW m \in Messages, NEW id \in Ids, NEW r \in Receipts,
             CallbackRead(w, m, id, r)
      PROVE  TypeOK'
  BY <1>6, StartTypes, GotoType DEF CallbackRead, TypeOK, Processes
<1>7. ASSUME NEW m \in Messages, BackoffElapses(m) PROVE TypeOK'
  BY <1>7 DEF BackoffElapses, TypeOK, Row
<1>8. CASE UNCHANGED vars
  BY <1>8 DEF vars, TypeOK
<1>9. QED
  BY <1>1, <1>2, <1>3, <1>4, <1>5, <1>6, <1>7, <1>8 DEF Next

\* Every reachable state of the queue is well typed: in particular a process that
\* works on a message holds one, and no row has a status of its own making.
THEOREM TypeCorrect == Spec => []TypeOK
<1>1. QED
  BY InitType, NextType, PTL DEF Spec

-----------------------------------------------------------------------------
(* Counting: a message that is queued, and every process that sends it, holds *)
(* a licence to send it once.  Enqueue grants the first one, an operator's    *)
(* retry and a lost reply one more each.                                      *)

\* A process that may still make Meta accept m, now or after a retry.
Trying(p, m) == proc[p].m = m /\ proc[p].at \in {"send", "error"}
Triers(m) == {p \in Processes : Trying(p, m)}

One(b) == IF b THEN 1 ELSE 0
Queued(m) == One(row[m].status = "queued")
\* What an activity adds to Senders(m) and to Triers(m).
Sends(act, m) == One(act.m = m /\ act.at \in {"send", "accepted", "error"})
Tries(act, m) == One(act.m = m /\ act.at \in {"send", "error"})

\* A message not enqueued yet is untouched.
Fresh(m) ==
    row[m].status = "none" => accepted[m] = 0 /\ row[m].attempts = 0 /\ Senders(m) = {}

\* Until an operator retries it a message that may still be sent has attempts left.
AttemptsLeft(m) ==
    retried[m] = 0 =>
        /\ row[m].attempts <= MaxAttempts
        /\ row[m].status = "queued" => row[m].attempts < MaxAttempts
        /\ \A p \in Processes : Sending(p, m) => proc[p].tries < MaxAttempts

Accounted(m) ==
    /\ Queued(m) + Cardinality(Senders(m)) <= 1 + retried[m]
    /\ accepted[m] + Queued(m) + Cardinality(Triers(m)) <= 1 + retried[m] + lost[m]

MessageInv(m) == Fresh(m) /\ AttemptsLeft(m) /\ Accounted(m)

QueueInv == TypeOK /\ \A m \in Messages : MessageInv(m)

LEMMA Finite ==
  ASSUME NEW m
  PROVE  /\ IsFiniteSet(Senders(m)) /\ Cardinality(Senders(m)) \in Nat
         /\ IsFiniteSet(Triers(m)) /\ Cardinality(Triers(m)) \in Nat
<1>1. IsFiniteSet(Processes)
  BY ConstantsAssumption, FS_Union DEF Processes
<1>2. Senders(m) \in SUBSET Processes /\ Triers(m) \in SUBSET Processes
  BY DEF Senders, Triers
<1>3. IsFiniteSet(Senders(m)) /\ IsFiniteSet(Triers(m))
  BY <1>1, <1>2, FS_Subset
<1>4. QED
  BY <1>3, FS_CardinalityType

\* A step of one process changes the counts by what it gives up and takes on.
LEMMA Counts ==
  ASSUME TypeOK, NEW p \in Processes, NEW act, Goto(p, act), NEW m
  PROVE  /\ Cardinality(Senders(m))' =
               Cardinality(Senders(m)) + Sends(act, m) - Sends(proc[p], m)
         /\ Cardinality(Triers(m))' =
               Cardinality(Triers(m)) + Tries(act, m) - Tries(proc[p], m)
<1>1. /\ proc'[p] = act
      /\ \A q \in Processes \ {p} : proc'[q] = proc[q]
  BY DEF TypeOK, Goto
<1>2. Cardinality(Senders(m))' = Cardinality(Senders(m)) + Sends(act, m) - Sends(proc[p], m)
  <2>1. CASE Sends(act, m) = 1
    <3>1. Senders(m)' = Senders(m) \cup {p}
      BY <1>1, <2>1 DEF Senders, Sending, Sends, One
    <3>2. (p \in Senders(m)) <=> (Sends(proc[p], m) = 1)
      BY DEF Senders, Sending, Sends, One
    <3>3. Sends(proc[p], m) \in {0, 1}
      BY DEF Sends, One
    <3>4. Cardinality(Senders(m) \cup {p}) =
             IF p \in Senders(m) THEN Cardinality(Senders(m)) ELSE Cardinality(Senders(m)) + 1
      BY Finite, FS_AddElement
    <3>5. QED
      BY <2>1, <3>1, <3>2, <3>3, <3>4, Finite
  <2>2. CASE Sends(act, m) = 0
    <3>1. Senders(m)' = Senders(m) \ {p}
      BY <1>1, <2>2 DEF Senders, Sending, Sends, One
    <3>2. (p \in Senders(m)) <=> (Sends(proc[p], m) = 1)
      BY DEF Senders, Sending, Sends, One
    <3>3. Sends(proc[p], m) \in {0, 1}
      BY DEF Sends, One
    <3>4. Cardinality(Senders(m) \ {p}) =
             IF p \in Senders(m) THEN Cardinality(Senders(m)) - 1 ELSE Cardinality(Senders(m))
      BY Finite, FS_RemoveElement
    <3>5. QED
      BY <2>2, <3>1, <3>2, <3>3, <3>4, Finite
  <2>3. QED
    BY <2>1, <2>2 DEF Sends, One
<1>3. Cardinality(Triers(m))' = Cardinality(Triers(m)) + Tries(act, m) - Tries(proc[p], m)
  <2>1. CASE Tries(act, m) = 1
    <3>1. Triers(m)' = Triers(m) \cup {p}
      BY <1>1, <2>1 DEF Triers, Trying, Tries, One
    <3>2. (p \in Triers(m)) <=> (Tries(proc[p], m) = 1)
      BY DEF Triers, Trying, Tries, One
    <3>3. Tries(proc[p], m) \in {0, 1}
      BY DEF Tries, One
    <3>4. Cardinality(Triers(m) \cup {p}) =
             IF p \in Triers(m) THEN Cardinality(Triers(m)) ELSE Cardinality(Triers(m)) + 1
      BY Finite, FS_AddElement
    <3>5. QED
      BY <2>1, <3>1, <3>2, <3>3, <3>4, Finite
  <2>2. CASE Tries(act, m) = 0
    <3>1. Triers(m)' = Triers(m) \ {p}
      BY <1>1, <2>2 DEF Triers, Trying, Tries, One
    <3>2. (p \in Triers(m)) <=> (Tries(proc[p], m) = 1)
      BY DEF Triers, Trying, Tries, One
    <3>3. Tries(proc[p], m) \in {0, 1}
      BY DEF Tries, One
    <3>4. Cardinality(Triers(m) \ {p}) =
             IF p \in Triers(m) THEN Cardinality(Triers(m)) - 1 ELSE Cardinality(Triers(m))
      BY Finite, FS_RemoveElement
    <3>5. QED
      BY <2>2, <3>1, <3>2, <3>3, <3>4, Finite
  <2>3. QED
    BY <2>1, <2>2 DEF Tries, One
<1>4. QED
  BY <1>2, <1>3

\* What a step of p must do to m for the invariant to survive.
LEMMA StepKeeps ==
  ASSUME QueueInv, TypeOK', NEW p \in Processes, NEW act, Goto(p, act),
         NEW m \in Messages,
         row'[m].status = "none" =>
            /\ row[m].status = "none"
            /\ accepted'[m] = accepted[m] /\ row'[m].attempts = row[m].attempts
            /\ Sends(act, m) = 0,
         Queued(m)' + Sends(act, m) - retried'[m]
            <= Queued(m) + Sends(proc[p], m) - retried[m],
         accepted'[m] + Queued(m)' + Tries(act, m) - retried'[m] - lost'[m]
            <= accepted[m] + Queued(m) + Tries(proc[p], m) - retried[m] - lost[m],
         retried'[m] = 0 =>
            /\ retried[m] = 0
            /\ row'[m].attempts <= MaxAttempts
            /\ row'[m].status = "queued" => row'[m].attempts < MaxAttempts
            /\ Sends(act, m) = 1 => act.tries < MaxAttempts
  PROVE  MessageInv(m)'
<1>1. MessageInv(m) /\ TypeOK
  BY DEF QueueInv
<1>2. /\ proc'[p] = act
      /\ \A q \in Processes \ {p} : proc'[q] = proc[q]
  BY <1>1 DEF TypeOK, Goto
<1>3. Fresh(m)'
  <2>1. SUFFICES ASSUME row'[m].status = "none"
                 PROVE  accepted'[m] = 0 /\ row'[m].attempts = 0 /\ Senders(m)' = {}
    BY DEF Fresh
  <2>2. Senders(m)' \subseteq Senders(m)
    BY <1>2, <2>1 DEF Senders, Sending, Sends, One
  <2>3. QED
    BY <1>1, <2>1, <2>2 DEF MessageInv, Fresh
<1>4. AttemptsLeft(m)'
  <2>1. SUFFICES ASSUME retried'[m] = 0, NEW q \in Processes, Sending(q, m)'
                 PROVE  proc'[q].tries < MaxAttempts
    BY DEF AttemptsLeft
  <2>2. CASE q = p
    BY <1>2, <2>1, <2>2 DEF Sending, Sends, One
  <2>3. CASE q # p
    BY <1>1, <1>2, <2>1, <2>3 DEF MessageInv, AttemptsLeft, Sending
  <2>4. QED
    BY <2>2, <2>3
<1>5. Accounted(m)'
  <2>1. /\ Cardinality(Senders(m)) \in Nat /\ Cardinality(Triers(m)) \in Nat
        /\ retried[m] \in Nat /\ lost[m] \in Nat /\ accepted[m] \in Int
        /\ retried'[m] \in Nat /\ lost'[m] \in Nat /\ accepted'[m] \in Int
    BY <1>1, Finite DEF TypeOK
  <2>2. /\ Queued(m) \in Int /\ Queued(m)' \in Int
        /\ Sends(act, m) \in Int /\ Sends(proc[p], m) \in Int
        /\ Tries(act, m) \in Int /\ Tries(proc[p], m) \in Int
    BY DEF Queued, Sends, Tries, One
  <2>3. /\ Cardinality(Senders(m))' =
              Cardinality(Senders(m)) + Sends(act, m) - Sends(proc[p], m)
        /\ Cardinality(Triers(m))' =
              Cardinality(Triers(m)) + Tries(act, m) - Tries(proc[p], m)
    BY <1>1, Counts
  <2>4. Accounted(m)
    BY <1>1 DEF MessageInv
  <2>5. QED
    BY <2>1, <2>2, <2>3, <2>4 DEF Accounted
<1>6. QED
  BY <1>3, <1>4, <1>5 DEF MessageInv

\* A step that writes no row, and lets no process send what it did not send before.
LEMMA Frame ==
  ASSUME QueueInv, TypeOK', NEW p \in Processes, NEW act, Goto(p, act),
         UNCHANGED <<row, accepted, lost, retried>>,
         \A m \in Messages : /\ Sends(act, m) <= Sends(proc[p], m)
                             /\ Tries(act, m) <= Tries(proc[p], m)
                             /\ Sends(act, m) = 1 => act.tries = proc[p].tries
  PROVE  \A m \in Messages : MessageInv(m)'
<1> SUFFICES ASSUME NEW m \in Messages PROVE MessageInv(m)'
  OBVIOUS
<1>1. MessageInv(m) /\ TypeOK
  BY DEF QueueInv
<1>2. /\ Sends(act, m) \in {0, 1} /\ Sends(proc[p], m) \in {0, 1}
      /\ Tries(act, m) \in {0, 1} /\ Tries(proc[p], m) \in {0, 1} /\ Queued(m) \in {0, 1}
  BY DEF Sends, Tries, Queued, One
<1>3. retried[m] \in Nat /\ lost[m] \in Nat /\ accepted[m] \in Int
  BY <1>1 DEF TypeOK
<1>4. Sends(proc[p], m) = 1 <=> p \in Senders(m)
  BY DEF Sends, One, Senders, Sending
<1>5. row'[m].status = "none" => Sends(act, m) = 0
  BY <1>1, <1>2, <1>4 DEF MessageInv, Fresh
<1>6. Queued(m)' = Queued(m)
  BY DEF Queued
<1>7. Sends(act, m) = 1 /\ retried[m] = 0 => act.tries < MaxAttempts
  BY <1>1, <1>2, <1>4 DEF MessageInv, AttemptsLeft, Senders, Sending
<1>8. AttemptsLeft(m)
  BY <1>1 DEF MessageInv
<1>9. QED
  BY <1>2, <1>3, <1>5, <1>6, <1>7, <1>8, StepKeeps DEF AttemptsLeft

\* A step that takes x out of the queue, or leaves it out, and stops sending.
LEMMA Settle ==
  ASSUME QueueInv, TypeOK', NEW p \in Processes, NEW act, Goto(p, act),
         UNCHANGED <<accepted, lost, retried>>, NEW x \in Messages,
         \A m \in Messages \ {x} : row'[m] = row[m],
         row'[x].status \notin {"none", "queued"},
         retried[x] = 0 => row'[x].attempts <= MaxAttempts,
         \A m \in Messages : Sends(act, m) = 0 /\ Tries(act, m) = 0
  PROVE  \A m \in Messages : MessageInv(m)'
<1> SUFFICES ASSUME NEW m \in Messages PROVE MessageInv(m)'
  OBVIOUS
<1>1. MessageInv(m) /\ TypeOK
  BY DEF QueueInv
<1>2. /\ Sends(act, m) = 0 /\ Sends(proc[p], m) \in {0, 1}
      /\ Tries(act, m) = 0 /\ Tries(proc[p], m) \in {0, 1} /\ Queued(m) \in {0, 1}
  BY DEF Sends, Tries, Queued, One
<1>3. retried[m] \in Nat /\ lost[m] \in Nat /\ accepted[m] \in Int
  BY <1>1 DEF TypeOK
<1>4. Queued(m)' \in {0, 1} /\ Queued(m)' <= Queued(m)
  BY <1>2 DEF Queued, One
<1>5. AttemptsLeft(m)
  BY <1>1 DEF MessageInv
<1>6. row'[m].status = "none" =>
         row[m].status = "none" /\ row'[m].attempts = row[m].attempts
  OBVIOUS
<1>7. retried'[m] = 0 =>
         /\ row'[m].attempts <= MaxAttempts
         /\ row'[m].status = "queued" => row'[m].attempts < MaxAttempts
  BY <1>5 DEF AttemptsLeft
<1>8. QED
  BY <1>2, <1>3, <1>4, <1>6, <1>7, StepKeeps

\* The activities between two messages send none.
LEMMA NoSends ==
  ASSUME NEW act, act.at \notin {"send", "accepted", "error"}
  PROVE  \A m \in Messages : Sends(act, m) = 0 /\ Tries(act, m) = 0
  BY DEF Sends, Tries, One

LEMMA QuietFrame ==
  ASSUME QueueInv, TypeOK', NEW p \in Processes, NEW act, Goto(p, act),
         UNCHANGED <<row, accepted, lost, retried>>,
         act.at \notin {"send", "accepted", "error"}
  PROVE  \A m \in Messages : MessageInv(m)'
<1>1. \A m \in Messages : Sends(act, m) = 0 /\ Tries(act, m) = 0
  BY NoSends
<1>2. \A m \in Messages : Sends(proc[p], m) \in {0, 1} /\ Tries(proc[p], m) \in {0, 1}
  BY DEF Sends, Tries, One
<1>3. QED
  BY <1>1, <1>2, Frame

LEMMA InitQueue == Init => QueueInv
<1> SUFFICES ASSUME Init, NEW m \in Messages PROVE MessageInv(m)
  BY InitType DEF QueueInv
<1>1. Senders(m) = {} /\ Triers(m) = {}
  BY DEF Init, Idle, Senders, Sending, Triers, Trying
<1>2. Cardinality(Senders(m)) = 0 /\ Cardinality(Triers(m)) = 0
  BY <1>1, FS_EmptySet
<1>3. /\ row[m].status = "none" /\ row[m].attempts = 0
      /\ accepted[m] = 0 /\ retried[m] = 0 /\ lost[m] = 0
  BY DEF Init, NoRow
<1>4. Queued(m) = 0
  BY <1>3 DEF Queued, One
<1>5. Fresh(m) /\ Accounted(m)
  BY <1>1, <1>2, <1>3, <1>4 DEF Fresh, Accounted
<1>6. AttemptsLeft(m)
  BY <1>1, <1>3, ConstantsAssumption DEF AttemptsLeft, Senders
<1>7. QED
  BY <1>5, <1>6 DEF MessageInv

\* The first request for a message, which is the only step that may queue it
\* without a licence: nobody has sent it, so its first one is still to be used.
LEMMA EnqueueKeeps ==
  ASSUME QueueInv, TypeOK', NEW p \in Workers, NEW x \in Messages, Enqueue(p, x)
  PROVE  \A m \in Messages : MessageInv(m)'
<1> DEFINE act == [Idle EXCEPT !.at = "select"]
<1>1. p \in Processes /\ Goto(p, act) /\ UNCHANGED <<accepted, lost, retried>>
  BY DEF Enqueue, Processes, metaVars
<1>2. act.at \notin {"send", "accepted", "error"}
  BY DEF Idle
<1> HIDE DEF act
<1>3. CASE row[x].status # "none"
  <2>1. row' = row
    BY <1>3 DEF Enqueue, QueueInv, TypeOK, Row
  <2>2. QED
    BY <1>1, <1>2, <2>1, QuietFrame
<1>4. CASE row[x].status = "none"
  <2> SUFFICES ASSUME NEW m \in Messages PROVE MessageInv(m)'
    OBVIOUS
  <2>1. MessageInv(m) /\ TypeOK
    BY DEF QueueInv
  <2>2. /\ Sends(act, m) = 0 /\ Tries(act, m) = 0
        /\ Sends(proc[p], m) = 0 /\ Tries(proc[p], m) = 0
    BY <1>2, NoSends DEF Enqueue, Sends, Tries, One
  <2>3. retried[m] \in Nat /\ lost[m] \in Nat /\ accepted[m] \in Int
    BY <2>1 DEF TypeOK
  <2>4. CASE m # x
    <3>1. row'[m] = row[m]
      BY <2>1, <2>4 DEF Enqueue, TypeOK
    <3>2. Queued(m)' = Queued(m) /\ Queued(m) \in Int
      BY <3>1 DEF Queued, One
    <3>3. AttemptsLeft(m)
      BY <2>1 DEF MessageInv
    <3>4. QED
      BY <1>1, <2>2, <2>3, <3>1, <3>2, <3>3, StepKeeps DEF AttemptsLeft
  <2>5. CASE m = x
    <3>1. row'[m].status = "queued" /\ row'[m].attempts = row[m].attempts
      BY <1>4, <2>1, <2>5 DEF Enqueue, TypeOK, Row
    <3>2. accepted[m] = 0 /\ row[m].attempts = 0 /\ Senders(m) = {}
      BY <1>4, <2>1, <2>5 DEF MessageInv, Fresh
    <3>3. Triers(m) = {}
      BY <3>2 DEF Senders, Sending, Triers, Trying
    <3>4. Cardinality(Senders(m))' = 0 /\ Cardinality(Triers(m))' = 0
      BY <1>1, <2>1, <2>2, <3>2, <3>3, Counts, FS_EmptySet
    <3>5. Senders(m)' = {}
      BY <1>1, <1>2, <2>1, <3>2 DEF Senders, Sending, TypeOK, Goto
    <3>6. Queued(m)' = 1
      BY <3>1 DEF Queued, One
    <3>7. Fresh(m)' /\ Accounted(m)'
      BY <1>1, <2>3, <3>1, <3>2, <3>4, <3>6 DEF Fresh, Accounted
    <3>8. AttemptsLeft(m)'
      BY <3>1, <3>2, <3>5, ConstantsAssumption DEF AttemptsLeft, Senders
    <3>9. QED
      BY <3>7, <3>8 DEF MessageInv
  <2>6. QED
    BY <2>4, <2>5
<1>5. QED
  BY <1>3, <1>4

\* The steps of a process that claims or sends a message.
LEMMA SendKeeps ==
  ASSUME QueueInv, TypeOK', NEW p \in Processes,
         \/ \E m \in Messages : Claim(p, m)
         \/ \E b \in BOOLEAN : Accept(p, b) \/ Refuse(p, b)
         \/ NotSendable(p) \/ MarkSent(p) \/ Unexpected(p) \/ HandleError(p)
  PROVE  \A m \in Messages : MessageInv(m)'
<1> SUFFICES ASSUME NEW m \in Messages PROVE MessageInv(m)'
  OBVIOUS
<1> USE DEF metaVars
<1> DEFINE x == proc[p].m
<1>1. /\ TypeOK /\ MessageInv(m) /\ AttemptsLeft(m)
      /\ \A n \in Messages : MessageInv(n)
  BY DEF QueueInv, MessageInv
<1>2. retried[m] \in Nat /\ lost[m] \in Nat /\ accepted[m] \in Int
  BY <1>1 DEF TypeOK
<1>3. /\ Sends(proc[p], m) \in {0, 1} /\ Tries(proc[p], m) \in {0, 1}
      /\ Queued(m) \in {0, 1} /\ Queued(m)' \in {0, 1}
  BY DEF Sends, Tries, Queued, One
<1>4. /\ proc[p] \in Activity /\ proc[p].tries \in Nat
      /\ proc[p].at \in MessageSteps => x \in Messages
  BY <1>1 DEF TypeOK, Activity
<1>5. /\ row \in [Messages -> Row] /\ row[m] \in Row
      /\ \A n \in Messages : row[n].attempts \in Nat
  BY <1>1 DEF TypeOK, Row
<1>6. ASSUME proc[p].at \in {"send", "accepted", "error"}
      PROVE  /\ x \in Messages
             /\ row[x].status # "none"
             /\ retried[x] = 0 => proc[p].tries < MaxAttempts
             /\ Sends(proc[p], x) = 1
             /\ proc[p].at # "accepted" => Tries(proc[p], x) = 1
  <2>1. x \in Messages
    BY <1>4, <1>6 DEF MessageSteps, Steps
  <2>2. Sending(p, x)
    BY <1>6 DEF Sending
  <2>3. QED
    BY <1>1, <1>6, <2>1, <2>2
    DEF MessageInv, Fresh, AttemptsLeft, Senders, Sends, Tries, One
<1>7. ASSUME NEW n \in Messages, Claim(p, n) PROVE MessageInv(m)'
  <2> DEFINE act == [Idle EXCEPT !.at = "send", !.m = n, !.tries = row[n].attempts,
                                 !.todo = proc[p].todo \ {n}]
  <2>1. Goto(p, act) /\ UNCHANGED <<accepted, lost, retried>>
    BY <1>7 DEF Claim
  <2>2. act.at = "send" /\ act.m = n /\ act.tries = row[n].attempts
    BY DEF Idle
  <2> HIDE DEF act
  <2>3. Sends(proc[p], m) = 0 /\ Tries(proc[p], m) = 0
    BY <1>7 DEF Claim, Sends, Tries, One
  <2>4. CASE m = n
    <3>1. /\ row[m].status = "queued" /\ row'[m].status = "sending"
          /\ row'[m].attempts = row[m].attempts
      BY <1>5, <1>7, <2>4 DEF Claim, Row
    <3>2. /\ Queued(m) = 1 /\ Queued(m)' = 0
          /\ Sends(act, m) = 1 /\ Tries(act, m) = 1
      BY <2>2, <2>4, <3>1 DEF Queued, Sends, Tries, One
    <3>3. QED
      BY <1>1, <1>2, <2>1, <2>2, <2>3, <2>4, <3>1, <3>2, StepKeeps DEF AttemptsLeft
  <2>5. CASE m # n
    <3>1. row'[m] = row[m]
      BY <1>5, <1>7, <2>5 DEF Claim
    <3>2. Queued(m)' = Queued(m) /\ Sends(act, m) = 0 /\ Tries(act, m) = 0
      BY <2>2, <2>5, <3>1 DEF Queued, Sends, Tries, One
    <3>3. QED
      BY <1>1, <1>2, <1>3, <2>1, <2>3, <3>1, <3>2, StepKeeps DEF AttemptsLeft
  <2>6. QED
    BY <2>4, <2>5
<1>8. ASSUME NEW b \in BOOLEAN, Accept(p, b) PROVE MessageInv(m)'
  <2> DEFINE act == IF b THEN [proc[p] EXCEPT !.at = "accepted", !.id = accepted[x] + 1]
                         ELSE [proc[p] EXCEPT !.at = "error", !.flag = TRUE]
  <2>1. Goto(p, act) /\ UNCHANGED <<row, retried>> /\ proc[p].at = "send"
    BY <1>8 DEF Accept
  <2>2. act.at = (IF b THEN "accepted" ELSE "error") /\ act.m = x /\ act.tries = proc[p].tries
    BY <1>4 DEF Activity
  <2> HIDE DEF act
  <2>3. Queued(m)' = Queued(m)
    BY <2>1 DEF Queued
  <2>4. CASE m = x
    <3>1. accepted'[m] = accepted[m] + 1 /\ lost'[m] = lost[m] + (IF b THEN 0 ELSE 1)
      BY <1>1, <1>8, <2>4 DEF Accept, TypeOK
    <3>2. /\ Sends(act, m) = 1 /\ Tries(act, m) = IF b THEN 0 ELSE 1
          /\ Sends(proc[p], m) = 1 /\ Tries(proc[p], m) = 1
      BY <2>1, <2>2, <2>4 DEF Sends, Tries, One
    <3>3. row[m].status # "none" /\ (retried[m] = 0 => act.tries < MaxAttempts)
      BY <1>6, <2>1, <2>2, <2>4
    <3>4. QED
      BY <1>1, <1>2, <1>3, <2>1, <2>3, <3>1, <3>2, <3>3, StepKeeps DEF AttemptsLeft
  <2>5. CASE m # x
    <3>1. accepted'[m] = accepted[m] /\ lost'[m] = lost[m]
      BY <1>1, <1>8, <2>5 DEF Accept, TypeOK
    <3>2. /\ Sends(act, m) = 0 /\ Tries(act, m) = 0
          /\ Sends(proc[p], m) = 0 /\ Tries(proc[p], m) = 0
      BY <2>2, <2>5 DEF Sends, Tries, One
    <3>3. QED
      BY <1>1, <1>2, <1>3, <2>1, <2>3, <3>1, <3>2, StepKeeps DEF AttemptsLeft
  <2>6. QED
    BY <2>4, <2>5
<1>9. ASSUME NEW b \in BOOLEAN, Refuse(p, b) PROVE MessageInv(m)'
  <2> DEFINE act == [proc[p] EXCEPT !.at = "error", !.flag = b]
  <2>1. Goto(p, act) /\ UNCHANGED <<row, accepted, lost, retried>> /\ proc[p].at = "send"
    BY <1>9 DEF Refuse
  <2>2. act.at = "error" /\ act.m = x /\ act.tries = proc[p].tries
    BY <1>4 DEF Activity
  <2> HIDE DEF act
  <2>3. \A n \in Messages : /\ Sends(act, n) <= Sends(proc[p], n)
                            /\ Tries(act, n) <= Tries(proc[p], n)
                            /\ Sends(act, n) = 1 => act.tries = proc[p].tries
    BY <2>1, <2>2 DEF Sends, Tries, One
  <2>4. QED
    BY <2>1, <2>3, Frame
<1>10. CASE HandleError(p) /\ CanRetry(p)
  <2> DEFINE act == [Idle EXCEPT !.at = "batch", !.todo = proc[p].todo]
  <2>1. Goto(p, act) /\ UNCHANGED <<accepted, lost, retried>> /\ proc[p].at = "error"
    BY <1>10 DEF HandleError, NextOfBatch
  <2>2. Sends(act, m) = 0 /\ Tries(act, m) = 0
    BY NoSends DEF Idle
  <2> HIDE DEF act
  <2>3. x \in Messages /\ Sends(proc[p], x) = 1 /\ Tries(proc[p], x) = 1
    BY <1>6, <2>1
  <2>4. CASE m = x
    <3>1. row'[m].status = "queued" /\ row'[m].attempts = proc[p].tries + 1
      BY <1>5, <1>10, <2>4 DEF HandleError, Row
    <3>2. row'[m].attempts < MaxAttempts
      BY <1>10, <3>1 DEF CanRetry
    <3>3. row'[m].attempts <= MaxAttempts
      BY <1>4, <3>1, <3>2, ConstantsAssumption
    <3>4. QED
      BY <1>2, <1>3, <2>1, <2>2, <2>3, <2>4, <3>1, <3>2, <3>3, StepKeeps
  <2>5. CASE m # x
    <3>1. row'[m] = row[m]
      BY <1>5, <1>10, <2>5 DEF HandleError
    <3>2. Queued(m)' = Queued(m)
      BY <3>1 DEF Queued
    <3>3. QED
      BY <1>1, <1>2, <1>3, <2>1, <2>2, <3>1, <3>2, StepKeeps DEF AttemptsLeft
  <2>6. QED
    BY <2>4, <2>5
<1>11. CASE HandleError(p) /\ ~CanRetry(p)
  <2> DEFINE act == [proc[p] EXCEPT !.at = "bump", !.tries = 0, !.flag = FALSE]
  <2>1. Goto(p, act) /\ UNCHANGED <<accepted, lost, retried>> /\ proc[p].at = "error"
    BY <1>11 DEF HandleError
  <2>2. \A n \in Messages : Sends(act, n) = 0 /\ Tries(act, n) = 0
    BY <1>4, NoSends DEF Activity
  <2> HIDE DEF act
  <2>3. x \in Messages /\ (retried[x] = 0 => proc[p].tries < MaxAttempts)
    BY <1>6, <2>1
  <2>4. row'[x].status = "failed" /\ row'[x].attempts = proc[p].tries + 1
    BY <1>5, <1>11, <2>3 DEF HandleError, Fail, Row
  <2>5. retried[x] = 0 => row'[x].attempts <= MaxAttempts
    BY <1>4, <2>3, <2>4, ConstantsAssumption
  <2>6. \A n \in Messages \ {x} : row'[n] = row[n]
    BY <1>5, <1>11 DEF HandleError, Fail
  <2>7. QED
    BY <2>1, <2>2, <2>3, <2>4, <2>5, <2>6, Settle
<1>12. CASE MarkSent(p)
  <2> DEFINE act == [proc[p] EXCEPT !.at = "bump", !.id = 0, !.tries = 0]
  <2>1. Goto(p, act) /\ UNCHANGED <<accepted, lost, retried>> /\ proc[p].at = "accepted"
    BY <1>12 DEF MarkSent
  <2>2. \A n \in Messages : Sends(act, n) = 0 /\ Tries(act, n) = 0
    BY <1>4, NoSends DEF Activity
  <2> HIDE DEF act
  <2>3. x \in Messages
    BY <1>6, <2>1
  <2>4. row'[x].status = "sent" /\ row'[x].attempts = row[x].attempts
    BY <1>5, <1>12, <2>3 DEF MarkSent, Row
  <2>5. retried[x] = 0 => row'[x].attempts <= MaxAttempts
    BY <1>1, <2>3, <2>4 DEF MessageInv, AttemptsLeft
  <2>6. \A n \in Messages \ {x} : row'[n] = row[n]
    BY <1>5, <1>12 DEF MarkSent
  <2>7. QED
    BY <2>1, <2>2, <2>3, <2>4, <2>5, <2>6, Settle
<1>13. CASE NotSendable(p) \/ Unexpected(p)
  <2> DEFINE act == [Idle EXCEPT !.at = "batch", !.todo = proc[p].todo]
  <2>1. /\ Goto(p, act) /\ UNCHANGED <<accepted, lost, retried>>
        /\ proc[p].at \in {"send", "accepted", "error", "bump"}
        /\ Fail(x, row[x].attempts)
    BY <1>13 DEF NotSendable, Unexpected, NextOfBatch
  <2>2. \A n \in Messages : Sends(act, n) = 0 /\ Tries(act, n) = 0
    BY NoSends DEF Idle
  <2> HIDE DEF act
  <2>3. x \in Messages
    BY <1>4, <2>1 DEF MessageSteps, Steps
  <2>4. row'[x].status = "failed" /\ row'[x].attempts = row[x].attempts
    BY <1>5, <2>1, <2>3 DEF Fail, Row
  <2>5. retried[x] = 0 => row'[x].attempts <= MaxAttempts
    BY <1>1, <2>3, <2>4 DEF MessageInv, AttemptsLeft
  <2>6. \A n \in Messages \ {x} : row'[n] = row[n]
    BY <1>5, <2>1 DEF Fail
  <2>7. QED
    BY <2>1, <2>2, <2>3, <2>4, <2>5, <2>6, Settle
<1>14. QED
  BY <1>7, <1>8, <1>9, <1>10, <1>11, <1>12, <1>13

\* The commits of the routes and of Meta's callbacks.
LEMMA CommitKeeps ==
  ASSUME QueueInv, TypeOK', NEW p \in Processes,
         RetryCommit(p) \/ CancelCommit(p) \/ CallbackCommit(p)
  PROVE  \A m \in Messages : MessageInv(m)'
<1> USE DEF metaVars
<1> DEFINE x == proc[p].m
<1>1. /\ TypeOK /\ row \in [Messages -> Row]
      /\ \A n \in Messages : MessageInv(n) /\ AttemptsLeft(n)
  BY DEF QueueInv, TypeOK, MessageInv
<1>2. /\ x \in Messages
      /\ proc[p].receipt \in Receipts
  BY <1>1 DEF RetryCommit, CancelCommit, CallbackCommit, TypeOK, Activity, MessageSteps, Steps
<1>3. Idle.at = "idle" /\ [Idle EXCEPT !.at = "select"].at = "select"
  BY DEF Idle
<1>4. CASE RetryCommit(p)
  <2> DEFINE act == [Idle EXCEPT !.at = "select"]
  <2>1. Goto(p, act) /\ UNCHANGED <<accepted, lost>>
    BY <1>4 DEF RetryCommit
  <2>2. act.at \notin {"send", "accepted", "error"}
    BY <1>3
  <2> HIDE DEF act
  <2> SUFFICES ASSUME NEW m \in Messages PROVE MessageInv(m)'
    OBVIOUS
  <2>3. retried[m] \in Nat /\ lost[m] \in Nat /\ accepted[m] \in Int
    BY <1>1 DEF TypeOK
  <2>4. /\ Sends(act, m) = 0 /\ Tries(act, m) = 0
        /\ Sends(proc[p], m) = 0 /\ Tries(proc[p], m) = 0
        /\ Queued(m) \in {0, 1} /\ Queued(m)' \in {0, 1}
    BY <1>4, <2>2, NoSends DEF RetryCommit, Sends, Tries, Queued, One
  <2>5. CASE m = x
    <3>1. row'[m].status = "queued" /\ retried'[m] = retried[m] + 1
      BY <1>1, <1>4, <2>5 DEF RetryCommit, Row, TypeOK
    <3>2. QED
      BY <2>1, <2>3, <2>4, <3>1, StepKeeps
  <2>6. CASE m # x
    <3>1. row'[m] = row[m] /\ retried'[m] = retried[m]
      BY <1>1, <1>4, <2>6 DEF RetryCommit, TypeOK
    <3>2. Queued(m)' = Queued(m)
      BY <3>1 DEF Queued
    <3>3. QED
      BY <1>1, <2>1, <2>3, <2>4, <3>1, <3>2, StepKeeps DEF AttemptsLeft
  <2>7. QED
    BY <2>5, <2>6
<1>5. ASSUME CancelCommit(p) \/ CallbackCommit(p)
      PROVE  /\ Goto(p, Idle) /\ UNCHANGED <<accepted, lost, retried>>
             /\ \A n \in Messages : Sends(Idle, n) = 0 /\ Tries(Idle, n) = 0
  BY <1>3, <1>5, NoSends DEF CancelCommit, CallbackCommit
<1>6. CASE CancelCommit(p)
  <2>1. row'[x].status = "canceled" /\ row'[x].attempts = row[x].attempts
    BY <1>1, <1>2, <1>6 DEF CancelCommit, Row
  <2>2. \A n \in Messages \ {x} : row'[n] = row[n]
    BY <1>1, <1>6 DEF CancelCommit
  <2>3. retried[x] = 0 => row'[x].attempts <= MaxAttempts
    BY <1>1, <1>2, <2>1 DEF AttemptsLeft
  <2>4. QED
    BY <1>2, <1>5, <1>6, <2>1, <2>2, <2>3, Settle
<1>7. CASE CallbackCommit(p) /\ row' # row
  <2>1. /\ row'[x].status = proc[p].receipt /\ row'[x].attempts = row[x].attempts
        /\ \A n \in Messages \ {x} : row'[n] = row[n]
    BY <1>1, <1>2, <1>7 DEF CallbackCommit, Row
  <2>2. row'[x].status \notin {"none", "queued"}
    BY <1>2, <2>1 DEF Receipts
  <2>3. retried[x] = 0 => row'[x].attempts <= MaxAttempts
    BY <1>1, <1>2, <2>1 DEF AttemptsLeft
  <2>4. QED
    BY <1>2, <1>5, <1>7, <2>1, <2>2, <2>3, Settle
<1>8. CASE CallbackCommit(p) /\ row' = row
  BY <1>3, <1>5, <1>8, QuietFrame
<1>9. QED
  BY <1>4, <1>6, <1>7, <1>8

\* The steps that write nothing but what their process does next.
LEMMA QuietKeeps ==
  ASSUME QueueInv, TypeOK', NEW p \in Processes,
         \/ SelectBatch(p) \/ EndDrain(p) \/ CountOutcome(p) \/ Crash(p) \/ TimerFires(p)
         \/ \E m \in Messages :
              \/ Skip(p, m) \/ RetryRead(p, m) \/ CancelRead(p, m)
              \/ \E id \in Ids, receipt \in Receipts : CallbackRead(p, m, id, receipt)
  PROVE  \A m \in Messages : MessageInv(m)'
<1>1. proc[p] \in Activity
  BY DEF QueueInv, TypeOK
<1>2. PICK act : Goto(p, act) /\ act.at \notin {"send", "accepted", "error"}
  <2> DEFINE Quiet(a) == Goto(p, a) /\ a.at \notin {"send", "accepted", "error"}
  <2>1. ASSUME SelectBatch(p) PROVE \E a : Quiet(a)
    <3>1. Quiet([Idle EXCEPT !.at = "batch", !.todo = Due])
      BY <2>1 DEF SelectBatch, Idle
    <3>2. QED
      BY <3>1
  <2>2. ASSUME EndDrain(p) \/ Crash(p) PROVE \E a : Quiet(a)
    <3>1. Quiet(Idle)
      BY <2>2 DEF EndDrain, Crash, Idle
    <3>2. QED
      BY <3>1
  <2>3. ASSUME CountOutcome(p) PROVE \E a : Quiet(a)
    <3>1. Quiet([Idle EXCEPT !.at = "batch", !.todo = proc[p].todo])
      BY <2>3 DEF CountOutcome, NextOfBatch, Idle
    <3>2. QED
      BY <3>1
  <2>4. ASSUME TimerFires(p) PROVE \E a : Quiet(a)
    <3>1. Quiet([Idle EXCEPT !.at = "select"])
      BY <2>4 DEF TimerFires, Idle
    <3>2. QED
      BY <3>1
  <2>5. ASSUME NEW m \in Messages, Skip(p, m) PROVE \E a : Quiet(a)
    <3>1. Goto(p, [proc[p] EXCEPT !.todo = @ \ {m}]) /\ proc[p].at = "batch"
      BY <2>5 DEF Skip
    <3>2. [proc[p] EXCEPT !.todo = @ \ {m}].at = "batch"
      BY <1>1, <3>1 DEF Activity
    <3>3. Quiet([proc[p] EXCEPT !.todo = @ \ {m}])
      BY <3>1, <3>2
    <3>4. QED
      BY <3>3
  <2>6. ASSUME NEW m \in Messages, RetryRead(p, m) PROVE \E a : Quiet(a)
    <3>1. Quiet([Idle EXCEPT !.at = "retry", !.m = m])
      BY <2>6 DEF RetryRead, Idle
    <3>2. QED
      BY <3>1
  <2>7. ASSUME NEW m \in Messages, CancelRead(p, m) PROVE \E a : Quiet(a)
    <3>1. Quiet([Idle EXCEPT !.at = "cancel", !.m = m])
      BY <2>7 DEF CancelRead, Idle
    <3>2. QED
      BY <3>1
  <2>8. ASSUME NEW m \in Messages, NEW id \in Ids, NEW receipt \in Receipts,
               CallbackRead(p, m, id, receipt)
        PROVE  \E a : Quiet(a)
    <3>1. Quiet([Idle EXCEPT !.at = "callback", !.m = m, !.id = id, !.receipt = receipt,
                             !.flag = (row[m].pmid = id /\ row[m].status # receipt)])
      BY <2>8 DEF CallbackRead, Idle
    <3>2. QED
      BY <3>1
  <2> HIDE DEF Quiet
  <2>9. \E a : Quiet(a)
    BY <2>1, <2>2, <2>3, <2>4, <2>5, <2>6, <2>7, <2>8
  <2>10. QED
    BY <2>9 DEF Quiet
<1>3. UNCHANGED <<row, accepted, lost, retried>>
  BY DEF SelectBatch, EndDrain, CountOutcome, Crash, TimerFires, Skip, RetryRead,
         CancelRead, CallbackRead, metaVars
<1>4. QED
  BY <1>2, <1>3, QuietFrame

\* The steps that leave the processes alone.
LEMMA RestKeeps ==
  ASSUME QueueInv, UNCHANGED vars \/ \E x \in Messages : BackoffElapses(x), NEW m \in Messages
  PROVE  MessageInv(m)'
<1>1. MessageInv(m) /\ TypeOK
  BY DEF QueueInv
<1>2. UNCHANGED <<accepted, lost, retried, proc>>
  BY DEF vars, BackoffElapses, metaVars
<1>3. row'[m].status = row[m].status /\ row'[m].attempts = row[m].attempts
  BY <1>1 DEF vars, BackoffElapses, TypeOK, Row
<1>4. Senders(m)' = Senders(m) /\ Triers(m)' = Triers(m) /\ Queued(m)' = Queued(m)
  BY <1>2, <1>3 DEF Senders, Sending, Triers, Trying, Queued
<1>5. Fresh(m)' /\ Accounted(m)'
  BY <1>1, <1>2, <1>3, <1>4 DEF MessageInv, Fresh, Accounted
<1>6. AttemptsLeft(m)'
  BY <1>1, <1>2, <1>3 DEF MessageInv, AttemptsLeft, Sending
<1>7. QED
  BY <1>5, <1>6 DEF MessageInv

LEMMA QueueStep == QueueInv /\ [Next]_vars => QueueInv'
<1> SUFFICES ASSUME QueueInv, [Next]_vars PROVE QueueInv'
  OBVIOUS
<1>1. TypeOK'
  BY NextType DEF QueueInv
<1>2. ASSUME NEW p \in Processes, Proceed(p) \/ Crash(p)
      PROVE  \A m \in Messages : MessageInv(m)'
  BY <1>1, <1>2, SendKeeps, CommitKeeps, QuietKeeps DEF Proceed
<1>3. ASSUME NEW d \in Drainers, TimerFires(d)
      PROVE  \A m \in Messages : MessageInv(m)'
  BY <1>1, <1>3, QuietKeeps DEF Processes
<1>4. ASSUME NEW w \in Workers, NEW n \in Messages, Enqueue(w, n)
      PROVE  \A m \in Messages : MessageInv(m)'
  BY <1>1, <1>4, EnqueueKeeps
<1>5. ASSUME NEW w \in Workers, NEW n \in Messages,
             \/ RetryRead(w, n) \/ CancelRead(w, n)
             \/ \E id \in Ids, receipt \in Receipts : CallbackRead(w, n, id, receipt)
      PROVE  \A m \in Messages : MessageInv(m)'
  BY <1>1, <1>5, QuietKeeps DEF Processes
<1>6. ASSUME UNCHANGED vars \/ \E n \in Messages : BackoffElapses(n)
      PROVE  \A m \in Messages : MessageInv(m)'
  BY <1>6, RestKeeps
<1>7. \A m \in Messages : MessageInv(m)'
  BY <1>2, <1>3, <1>4, <1>5, <1>6 DEF Next
<1>8. QED
  BY <1>1, <1>7 DEF QueueInv

LEMMA QueueInvariant == Spec => []QueueInv
<1>1. QED
  BY InitQueue, QueueStep, PTL DEF Spec

-----------------------------------------------------------------------------
(* The promises of the queue *)

\* However many timer drains and inline drains run at once, whatever dies and
\* whatever Meta answers, a message has at most one sender more than operators
\* retried it: the conditional claim of worker.py is what makes it so.
THEOREM SendersCorrect == Spec => []SendersExplained
<1>1. QueueInv => SendersExplained
  <2> SUFFICES ASSUME QueueInv, NEW m \in Messages
               PROVE  Cardinality(Senders(m)) <= 1 + retried[m]
    BY DEF SendersExplained
  <2>1. Queued(m) + Cardinality(Senders(m)) <= 1 + retried[m]
    BY DEF QueueInv, MessageInv, Accounted
  <2>2. Queued(m) \in {0, 1} /\ Cardinality(Senders(m)) \in Nat /\ retried[m] \in Nat
    BY Finite DEF Queued, One, QueueInv, TypeOK
  <2>3. QED
    BY <2>1, <2>2
<1>2. QED
  BY <1>1, QueueInvariant, PTL

\* Meta accepts a message at most once for its first request, once more for each
\* operator's retry and once more for each reply that was lost: the queue itself,
\* with its backoff, its crashes and its concurrent drains, duplicates nothing.
THEOREM CopiesCorrect == Spec => []CopiesExplained
<1>1. QueueInv => CopiesExplained
  <2> SUFFICES ASSUME QueueInv, NEW m \in Messages
               PROVE  accepted[m] <= 1 + retried[m] + lost[m]
    BY DEF CopiesExplained
  <2>1. accepted[m] + Queued(m) + Cardinality(Triers(m)) <= 1 + retried[m] + lost[m]
    BY DEF QueueInv, MessageInv, Accounted
  <2>2. /\ Queued(m) \in {0, 1} /\ Cardinality(Triers(m)) \in Nat
        /\ retried[m] \in Nat /\ lost[m] \in Nat /\ accepted[m] \in Int
    BY Finite DEF Queued, One, QueueInv, TypeOK
  <2>3. QED
    BY <2>1, <2>2
<1>2. QED
  BY <1>1, QueueInvariant, PTL

\* A message no operator retried is tried at most MaxAttempts times, although
\* the count the worker writes is the one it read when it claimed the row.
THEOREM AttemptsCorrect == Spec => []AttemptsBounded
<1>1. QueueInv => AttemptsBounded
  BY DEF QueueInv, MessageInv, AttemptsLeft, AttemptsBounded
<1>2. QED
  BY <1>1, QueueInvariant, PTL

=============================================================================
