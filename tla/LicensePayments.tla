--------------------------- MODULE LicensePayments ---------------------------
(***************************************************************************)
(* Manual-wallet license payments: a customer asks to pay, submits a proof, *)
(* a super admin approves or rejects it, and an approved ("paid") request   *)
(* is applied to a license.  The code is app/services/license_payments.py,  *)
(* app/services/payment_proofs.py and the admin routes that drive them.     *)
(*                                                                          *)
(* Every HTTP handler runs on a web worker.  A handler first reads ORM rows *)
(* (a ...Read step) and later flushes and commits what it computed from     *)
(* them (a ...Commit step): there is no row lock and no version column, so  *)
(* between the two steps other workers may commit.  With a single worker    *)
(* the handlers are serial; a worker may still be killed between two        *)
(* commits of one handler (Crash).                                          *)
(***************************************************************************)
EXTENDS Integers, Sequences, FiniteSets

CONSTANTS
    Requests,      \* license_payment_requests rows that may come to exist
    Licenses,      \* licenses rows
    Workers,       \* web workers: each serves one HTTP request at a time
    NoRequest,     \* a worker that serves nothing
    NoLicense,     \* a request whose license_id is NULL
    Purposes,      \* the purposes customers pay for in this instance
    MaxMonths,     \* bound: largest period_months an operator enters
    MaxClock,      \* bound: months that may pass
    MaxProofs,     \* bound: proof rows per request
    MaxRenewals    \* bound: rows of the renewals table

ASSUME ConstantsAssumption ==
    /\ NoRequest \notin Requests
    /\ NoLicense \notin Licenses
    /\ Purposes \subseteq {"renewal", "upgrade", "new_subscription",
                    "capacity_increase", "setup_fee"}
    /\ MaxMonths \in Nat /\ MaxClock \in Nat
    /\ MaxProofs \in Nat /\ MaxRenewals \in Nat

VARIABLES
    clock,      \* utcnow(), in months
    req,        \* license_payment_requests: status, purpose, license_id, applied_at
    due,        \* requests whose expires_at has passed
    proofs,     \* license_payment_proofs: review_status per request and row id
    images,     \* proof rows that carry an image_path, per request
    txn,        \* requests that have a paid_manual transaction
    order,      \* provisioning_orders.status per request
    orderPaid,  \* requests whose order has paid_at
    expiry,     \* licenses.expires_at
    renewals,   \* renewals table, in insertion order
    effects,    \* how often the apply of a request has committed its effect
    wk          \* what every worker is doing

vars == <<clock, req, due, proofs, images, txn, order, orderPaid,
          expiry, renewals, effects, wk>>

paymentVars == <<req, proofs, images, txn, order, orderPaid>>
licenseVars == <<expiry, renewals, effects>>

-----------------------------------------------------------------------------
(* Rows *)

Statuses == {"none", "pending", "proof_submitted", "paid", "rejected", "expired"}

\* LicensePaymentProofService.blocked_submission_statuses ("cancelled" and
\* "failed" are never assigned by the program).
\* Mutants: one terminal status is forgotten.
BlockedButPaid == {"expired", "rejected"}
BlockedSubmission == {"paid", "expired", "rejected"}
\* LicensePaymentReviewService.reviewable_statuses ("under_review" is never
\* assigned by the program).
Reviewable == {"proof_submitted"}

ProofIds == 1..MaxProofs
ProofStates == {"none", "new", "accepted", "rejected"}
OrderStates == {"none", "payment_pending", "provisioning_pending", "ready"}

Request == [status : Statuses, purpose : Purposes \cup {"none"},
            license : Licenses \cup {NoLicense}, applied : BOOLEAN]

NoRow == [status |-> "none", purpose |-> "none",
          license |-> NoLicense, applied |-> FALSE]

ProofsOf(r) == {i \in ProofIds : proofs[r][i] # "none"}
\* proofs.order_by(submitted_at.desc()).first()
IsLatest(r, i) == i \in ProofsOf(r) /\ \A j \in ProofsOf(r) : j <= i
\* The row id the next proof of r gets.
IsNext(r, i) == /\ i \in ProofIds \ ProofsOf(r)
                /\ IF ProofsOf(r) = {} THEN i = 1 ELSE IsLatest(r, i - 1)

-----------------------------------------------------------------------------
(* Workers *)

Steps == {"idle", "create", "submit", "receipt", "approve", "approve_order",
          "reject", "apply", "apply_license", "credit", "renew", "expire"}

\* The handlers that work on one request, and those that hold a proof row.
RequestSteps == Steps \ {"idle", "renew", "expire"}
ProofSteps == {"receipt", "approve", "reject"}

Activity ==
    {a \in [at : Steps, r : Requests \cup {NoRequest},
            l : Licenses \cup {NoLicense}, seen : Statuses,
            proof : 0..MaxProofs, start : Int, flag : BOOLEAN,
            batch : SUBSET Requests] :
        /\ a.at \in RequestSteps => a.r \in Requests
        /\ a.at \in ProofSteps => a.proof \in ProofIds
        /\ a.at = "renew" => a.l \in Licenses}

Idle == [at |-> "idle", r |-> NoRequest, l |-> NoLicense, seen |-> "none",
         proof |-> 0, start |-> 0, flag |-> FALSE, batch |-> {}]

IsIdle(w) == wk[w].at = "idle"
Goto(w, act) == wk' = [wk EXCEPT ![w] = act]
Done(w) == Goto(w, Idle)

\* Proofs and reviews start once the creating handler has returned: only its
\* response carries the portal token a proof needs.
Known(r) == /\ req[r].status # "none"
            /\ \A w \in Workers : ~(wk[w].at = "create" /\ wk[w].r = r)

Init ==
    /\ clock = 0
    /\ req = [r \in Requests |-> NoRow]
    /\ due = {}
    /\ proofs = [r \in Requests |-> [i \in ProofIds |-> "none"]]
    /\ images = [r \in Requests |-> {}]
    /\ txn = {}
    /\ order = [r \in Requests |-> "none"]
    /\ orderPaid = {}
    /\ expiry = [l \in Licenses |-> 0]
    /\ renewals = <<>>
    /\ effects = [r \in Requests |-> 0]
    /\ wk = [w \in Workers |-> Idle]

-----------------------------------------------------------------------------
(* The passage of time *)

Tick == /\ clock < MaxClock
        /\ clock' = clock + 1
        /\ UNCHANGED <<paymentVars, licenseVars, due, wk>>

\* expires_at < utcnow() becomes true of r.
TtlLapses(r) ==
    /\ req[r].status # "none"
    /\ r \notin due
    /\ due' = due \cup {r}
    /\ UNCHANGED <<paymentVars, licenseVars, clock, wk>>

-----------------------------------------------------------------------------
(* Creating a request: two commits, the row and then its order *)

CreateRequest(w, r, p, l) ==
    /\ IsIdle(w)
    /\ req[r].status = "none"
    /\ req' = [req EXCEPT ![r] = [status |-> "pending", purpose |-> p,
                                  license |-> l, applied |-> FALSE]]
    /\ Goto(w, [Idle EXCEPT !.at = "create", !.r = r])
    /\ UNCHANGED <<licenseVars, proofs, images, txn, order, orderPaid, due, clock>>

EnsureOrder(r) == order' = [order EXCEPT ![r] = IF @ = "none" THEN "payment_pending" ELSE @]

CreateOrder(w) ==
    /\ wk[w].at = "create"
    /\ EnsureOrder(wk[w].r)
    /\ Done(w)
    /\ UNCHANGED <<licenseVars, req, proofs, images, txn, orderPaid, due, clock>>

-----------------------------------------------------------------------------
(* Submitting a proof.  withReceipt is the portal form, which commits the   *)
(* proof and then stores the receipt image.                                 *)

SubmitRead(w, r, withReceipt) ==
    /\ IsIdle(w)
    /\ Known(r)
    /\ req[r].status \notin BlockedSubmission
    /\ Goto(w, [Idle EXCEPT !.at = "submit", !.r = r, !.flag = withReceipt,
                            !.seen = req[r].status])
    /\ UNCHANGED <<paymentVars, licenseVars, due, clock>>

SubmitExpired(w) ==
    LET r == wk[w].r IN
    /\ wk[w].at = "submit"
    /\ r \in due
    /\ req' = [req EXCEPT ![r].status = "expired"]
    /\ Done(w)
    /\ UNCHANGED <<licenseVars, proofs, images, txn, order, orderPaid, due, clock>>

SubmitRefused(w) ==
    /\ wk[w].at = "submit"
    /\ wk[w].r \notin due
    /\ wk[w].seen # "pending"
    /\ Done(w)
    /\ UNCHANGED <<paymentVars, licenseVars, due, clock>>

SubmitProof(w) ==
    LET r == wk[w].r IN
    /\ wk[w].at = "submit"
    /\ r \notin due
    /\ wk[w].seen = "pending"
    /\ \E id \in ProofIds :
         /\ IsNext(r, id)
         /\ proofs' = [proofs EXCEPT ![r][id] = "new"]
         /\ IF wk[w].flag
            THEN Goto(w, [Idle EXCEPT !.at = "receipt", !.r = r, !.proof = id])
            ELSE Done(w)
    /\ req' = [req EXCEPT ![r].status = "proof_submitted"]
    /\ UNCHANGED <<licenseVars, images, txn, order, orderPaid, due, clock>>

StoreReceipt(w) ==
    LET r == wk[w].r IN
    /\ wk[w].at = "receipt"
    /\ images' = [images EXCEPT ![r] = @ \cup {wk[w].proof}]
    /\ Done(w)
    /\ UNCHANGED <<licenseVars, req, proofs, txn, order, orderPaid, due, clock>>

\* ReceiptValidationError: the committed proof is deleted and the request put
\* back to "pending", whatever has become of it meanwhile.
RejectReceipt(w) ==
    LET r == wk[w].r IN
    /\ wk[w].at = "receipt"
    /\ proofs' = [proofs EXCEPT ![r][wk[w].proof] = "none"]
    /\ req' = [req EXCEPT ![r].status = "pending"]
    /\ Done(w)
    /\ UNCHANGED <<licenseVars, images, txn, order, orderPaid, due, clock>>

-----------------------------------------------------------------------------
(* Review.  credit is the one-click "approve and credit" button, which goes *)
(* on to apply the payment in the same handler.                             *)

ReviewRead(w, r, step, credit) ==
    /\ IsIdle(w)
    /\ Known(r)
    /\ req[r].status \in Reviewable
    /\ \E i \in ProofIds :
         /\ IsLatest(r, i)
         /\ Goto(w, [Idle EXCEPT !.at = step, !.r = r, !.flag = credit,
                                 !.proof = i])
    /\ UNCHANGED <<paymentVars, licenseVars, due, clock>>

ApproveRead(w, r, credit) == ReviewRead(w, r, "approve", credit)
RejectRead(w, r) == ReviewRead(w, r, "reject", FALSE)

AfterApproval(w) ==
    IF wk[w].flag
    THEN Goto(w, [Idle EXCEPT !.at = "apply", !.r = wk[w].r, !.flag = TRUE])
    ELSE Done(w)

\* Mutant: the order is marked "paid", which no queue of the operator shows.
AdvanceOrderToPaid(r) ==
    /\ order' = [order EXCEPT ![r] = IF @ = "payment_pending" THEN "paid" ELSE @]
    /\ orderPaid' = orderPaid \cup {r}
AdvanceOrder(r) ==
    /\ order' = [order EXCEPT ![r] = IF @ = "payment_pending"
                                     THEN "provisioning_pending" ELSE @]
    /\ orderPaid' = orderPaid \cup {r}

\* Mutant: the transaction goes with the order's update only.
RecordPaidWithOrder(r) == txn' = IF order[r] = "none" THEN txn ELSE txn \cup {r}
\* create_manual_paid
RecordPaid(r) == txn' = txn \cup {r}

\* The flush of request, proof and transaction.  The order is advanced in the
\* same commit, unless it is missing: creating it commits half-way.
ApproveCommit(w) ==
    LET r == wk[w].r IN
    /\ wk[w].at = "approve"
    /\ wk[w].proof \in ProofsOf(r)
    /\ proofs' = [proofs EXCEPT ![r][wk[w].proof] = "accepted"]
    /\ req' = [req EXCEPT ![r].status = "paid"]
    /\ RecordPaid(r)
    /\ IF order[r] = "none"
       THEN /\ EnsureOrder(r)
            /\ orderPaid' = orderPaid
            /\ wk' = [wk EXCEPT ![w].at = "approve_order"]
       ELSE /\ AdvanceOrder(r)
            /\ AfterApproval(w)
    /\ UNCHANGED <<licenseVars, images, due, clock>>

ApproveOrder(w) ==
    /\ wk[w].at = "approve_order"
    /\ AdvanceOrder(wk[w].r)
    /\ AfterApproval(w)
    /\ UNCHANGED <<licenseVars, req, proofs, images, txn, due, clock>>

RejectCommit(w) ==
    LET r == wk[w].r IN
    /\ wk[w].at = "reject"
    /\ wk[w].proof \in ProofsOf(r)
    /\ proofs' = [proofs EXCEPT ![r][wk[w].proof] = "rejected"]
    /\ req' = [req EXCEPT ![r].status = "rejected"]
    /\ Done(w)
    /\ UNCHANGED <<licenseVars, images, txn, order, orderPaid, due, clock>>

\* The proof row has been deleted since: the UPDATE matches no row and the
\* whole flush is rolled back.
ReviewStale(w) ==
    /\ wk[w].at \in {"approve", "reject"}
    /\ wk[w].proof \notin ProofsOf(wk[w].r)
    /\ Done(w)
    /\ UNCHANGED <<paymentVars, licenseVars, due, clock>>

-----------------------------------------------------------------------------
(* Applying a paid request to the license *)

\* The "apply license" button.
ApplyStart(w, r) ==
    /\ IsIdle(w)
    /\ Known(r)
    /\ Goto(w, [Idle EXCEPT !.at = "apply", !.r = r])
    /\ UNCHANGED <<paymentVars, licenseVars, due, clock>>

\* request_not_paid, or applied before: the stored result is returned.
ApplyRefused(w) ==
    LET r == wk[w].r IN
    /\ wk[w].at = "apply"
    /\ req[r].status # "paid" \/ req[r].applied
    /\ Done(w)
    /\ UNCHANGED <<paymentVars, licenseVars, due, clock>>

\* Mutants: one of the two checks before the effect is dropped.
ApplyReadAgain(w) ==
    /\ wk[w].at = "apply"
    /\ req[wk[w].r].status = "paid"
    /\ wk' = [wk EXCEPT ![w].at = "apply_license"]
    /\ UNCHANGED <<paymentVars, licenseVars, due, clock>>
ApplyReadUnpaid(w) ==
    /\ wk[w].at = "apply"
    /\ ~req[wk[w].r].applied
    /\ wk' = [wk EXCEPT ![w].at = "apply_license"]
    /\ UNCHANGED <<paymentVars, licenseVars, due, clock>>
ApplyRead(w) ==
    LET r == wk[w].r IN
    /\ wk[w].at = "apply"
    /\ req[r].status = "paid" /\ ~req[r].applied
    /\ wk' = [wk EXCEPT ![w].at = "apply_license"]
    /\ UNCHANGED <<paymentVars, licenseVars, due, clock>>

\* What _apply_renewal, _apply_upgrade and _apply_new_subscription insist on.
Applicable(r) ==
    /\ req[r].purpose \in {"renewal", "upgrade"} => req[r].license # NoLicense
    /\ req[r].purpose = "new_subscription" => order[r] = "ready"

ApplyFailed(w) ==
    /\ wk[w].at = "apply_license"
    /\ ~Applicable(wk[w].r)
    /\ Done(w)
    /\ UNCHANGED <<paymentVars, licenseVars, due, clock>>

\* Mutant: the new period starts today even if the license still runs.
StartToday(l) == clock
StartOf(l) == IF expiry[l] > clock THEN expiry[l] ELSE clock

ApplyLicense(w) ==
    LET r == wk[w].r
        l == req[r].license IN
    /\ wk[w].at = "apply_license"
    /\ Applicable(r)
    /\ Goto(w, [wk[w] EXCEPT !.at = "credit",
                  !.start = IF req[r].purpose = "renewal" THEN StartOf(l) ELSE 0])
    /\ UNCHANGED <<paymentVars, licenseVars, due, clock>>

\* Extending l by m months from start, and the row of the renewals table.
Extend(l, start, m) ==
    /\ Len(renewals) < MaxRenewals
    /\ expiry' = [expiry EXCEPT ![l] = start + m]
    /\ renewals' = Append(renewals, [license |-> l, from |-> start, to |-> start + m])

ApplyCommit(w, m) ==
    LET r == wk[w].r IN
    /\ wk[w].at = "credit"
    /\ IF req[r].purpose = "renewal"
       THEN Extend(req[r].license, wk[w].start, m)
       ELSE UNCHANGED <<expiry, renewals>>
    /\ effects' = [effects EXCEPT ![r] = @ + 1]
    /\ req' = [req EXCEPT ![r].applied = TRUE]
    /\ Done(w)
    /\ UNCHANGED <<proofs, images, txn, order, orderPaid, due, clock>>

-----------------------------------------------------------------------------
(* The other writers of the same rows *)

\* renew_license: an operator renews by hand.
RenewRead(w, l) ==
    /\ IsIdle(w)
    /\ Goto(w, [Idle EXCEPT !.at = "renew", !.l = l, !.start = StartOf(l)])
    /\ UNCHANGED <<paymentVars, licenseVars, due, clock>>

RenewCommit(w, m) ==
    /\ wk[w].at = "renew"
    /\ Extend(wk[w].l, wk[w].start, m)
    /\ Done(w)
    /\ UNCHANGED <<paymentVars, effects, due, clock>>

\* expire_pending_requests selects first and writes afterwards.
\* Mutant: the sweep selects by time only.
ExpireReadAllDue(w) ==
    /\ IsIdle(w)
    /\ due # {}
    /\ Goto(w, [Idle EXCEPT !.at = "expire", !.batch = due])
    /\ UNCHANGED <<paymentVars, licenseVars, due, clock>>
ExpireRead(w) ==
    LET batch == {r \in due : req[r].status = "pending"} IN
    /\ IsIdle(w)
    /\ batch # {}
    /\ Goto(w, [Idle EXCEPT !.at = "expire", !.batch = batch])
    /\ UNCHANGED <<paymentVars, licenseVars, due, clock>>

ExpireCommit(w) ==
    /\ wk[w].at = "expire"
    /\ req' = [r \in Requests |->
                  IF r \in wk[w].batch THEN [req[r] EXCEPT !.status = "expired"]
                                       ELSE req[r]]
    /\ Done(w)
    /\ UNCHANGED <<licenseVars, proofs, images, txn, order, orderPaid, due, clock>>

\* No code moves an order on: an operator does, outside of the program.
OperatorReadiesOrder(r) ==
    /\ order[r] = "provisioning_pending"
    /\ req[r].purpose = "new_subscription"
    /\ order' = [order EXCEPT ![r] = "ready"]
    /\ UNCHANGED <<licenseVars, req, proofs, images, txn, orderPaid, due, clock, wk>>

\* The worker dies, or its handler raises, between two commits.
Crash(w) ==
    /\ ~IsIdle(w)
    /\ Done(w)
    /\ UNCHANGED <<paymentVars, licenseVars, due, clock>>

-----------------------------------------------------------------------------

Serve(w) ==
    \/ \E r \in Requests, p \in Purposes, l \in Licenses \cup {NoLicense} :
           CreateRequest(w, r, p, l)
    \/ CreateOrder(w)
    \/ \E r \in Requests, image \in BOOLEAN : SubmitRead(w, r, image)
    \/ SubmitExpired(w) \/ SubmitRefused(w) \/ SubmitProof(w)
    \/ StoreReceipt(w) \/ RejectReceipt(w)
    \/ \E r \in Requests, credit \in BOOLEAN : ApproveRead(w, r, credit)
    \/ ApproveCommit(w) \/ ApproveOrder(w)
    \/ \E r \in Requests : RejectRead(w, r)
    \/ RejectCommit(w) \/ ReviewStale(w)
    \/ \E r \in Requests : ApplyStart(w, r)
    \/ ApplyRefused(w) \/ ApplyRead(w) \/ ApplyFailed(w) \/ ApplyLicense(w)
    \/ \E m \in 1..MaxMonths : ApplyCommit(w, m) \/ RenewCommit(w, m)
    \/ \E l \in Licenses : RenewRead(w, l)
    \/ ExpireRead(w) \/ ExpireCommit(w)
    \/ Crash(w)

Next ==
    \/ Tick
    \/ \E r \in Requests : TtlLapses(r) \/ OperatorReadiesOrder(r)
    \/ \E w \in Workers : Serve(w)

Spec == Init /\ [][Next]_vars

-----------------------------------------------------------------------------
(* Properties *)

RenewalRow == [license : Licenses \cup {NoLicense}, from : Int, to : Int]

\* Every row and every worker's local state has the shape of its columns.
TypeOK ==
    /\ clock \in Nat
    /\ req \in [Requests -> Request]
    /\ due \subseteq Requests
    /\ proofs \in [Requests -> [ProofIds -> ProofStates]]
    /\ images \in [Requests -> SUBSET ProofIds]
    /\ txn \subseteq Requests
    /\ order \in [Requests -> OrderStates]
    /\ orderPaid \subseteq Requests
    /\ expiry \in [Licenses -> Int]
    /\ renewals \in Seq(RenewalRow)
    /\ effects \in [Requests -> Nat]
    /\ wk \in [Workers -> Activity]

\* The reconciliation page's "paid_without_transaction" list is always empty:
\* however handlers interleave or die, a request is never "paid" without its
\* paid_manual transaction.
PaidHasTransaction ==
    \A r \in Requests : req[r].status = "paid" => r \in txn

\* No license changes for free: whatever a payment has done to a license, an
\* approval of that payment had committed a transaction before.
CreditHasTransaction ==
    \A r \in Requests : (effects[r] > 0 \/ req[r].applied) => r \in txn

\* Retrying the apply of a payment never repeats its effect, and a payment
\* marked applied has had it (serial handlers; crashes included).
CreditedOnce ==
    \A r \in Requests : effects[r] = IF req[r].applied THEN 1 ELSE 0

\* Paid time is neither lost nor given twice: the periods of a license's
\* renewals never overlap and the license expires with the last of them
\* (serial handlers).
PaidPeriodsChain ==
    \A l \in Licenses :
        /\ \A i, j \in 1..Len(renewals) :
              (i < j /\ renewals[i].license = l /\ renewals[j].license = l)
                 => renewals[i].to <= renewals[j].from
        /\ \A i \in 1..Len(renewals) :
              renewals[i].license = l => renewals[i].to <= expiry[l]

\* A payment that was refused or expired leaves no transaction and no order in
\* the provisioning queue behind (serial handlers).
RefusedLeavesNoMoney ==
    \A r \in Requests :
        req[r].status \in {"rejected", "expired", "pending"} =>
            r \notin txn /\ order[r] \in {"none", "payment_pending"}

-----------------------------------------------------------------------------
(* Refinement: serial handlers implement the ledger *)

Stage(row) ==
    CASE row.status = "none" -> "absent"
      [] row.status = "pending" -> "open"
      [] row.status = "proof_submitted" -> "review"
      [] row.status = "paid" -> IF row.applied THEN "credited" ELSE "settled"
      [] OTHER -> "closed"

StageOf == [r \in Requests |-> Stage(req[r])]

Ledger == INSTANCE PaymentLedger WITH
            Payments <- Requests, Licences <- Licenses,
            stage <- StageOf, until <- expiry

\* The workflow with its handlers, crashes and sweeps keeps the promise of
\* PaymentLedger: one decision per payment, which neither a late proof nor the expiry
\* sweep nor a receipt that fails validation overturns, one credit per settled
\* payment, and paid time that only grows (serial handlers).
ImplementsLedger == Ledger!Spec

-----------------------------------------------------------------------------
(* What the documentation says and the code does not do *)

\* app/admin/routes.py:4634 of the one-click button: "Either step failing reverts
\* the workflow [...] and leaves the row in its pre-action state".
FailedCreditRestoresRow ==
    [][\A w \in Workers :
         (ApplyFailed(w) /\ wk[w].flag) => req'[wk[w].r].status \in Reviewable]_vars

\* docs/payments/PROVISIONING_ORDER_FLOW.md:40: repeated approvals and retries
\* "cannot extend or activate the license twice".
NeverAppliedTwice ==
    \A r \in Requests : effects[r] <= 1

=============================================================================
