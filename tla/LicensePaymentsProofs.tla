----------------------- MODULE LicensePaymentsProofs -----------------------
(***************************************************************************)
(* Theorems about LicensePayments, for every set of requests, licenses and  *)
(* workers and every bound.                                                 *)
(***************************************************************************)
EXTENDS LicensePayments, TLAPS

-----------------------------------------------------------------------------
(* Type correctness *)

LEMMA IdleType == Idle \in Activity
  BY ConstantsAssumption DEF Idle, Activity, Steps, RequestSteps, ProofSteps, Statuses

LEMMA DoneType ==
  ASSUME NEW w \in Workers, wk \in [Workers -> Activity], Done(w)
  PROVE  wk' \in [Workers -> Activity]
  BY IdleType DEF Done, Goto

LEMMA StatusType ==
  ASSUME TypeOK, NEW r \in Requests, NEW s \in Statuses,
         req' = [req EXCEPT ![r].status = s]
  PROVE  req' \in [Requests -> Request]
  BY DEF TypeOK, Request

LEMMA ProofType ==
  ASSUME TypeOK, NEW r \in Requests, NEW i \in ProofIds, NEW s \in ProofStates,
         proofs' = [proofs EXCEPT ![r][i] = s]
  PROVE  proofs' \in [Requests -> [ProofIds -> ProofStates]]
  BY DEF TypeOK

LEMMA AdvanceType ==
  ASSUME TypeOK, NEW r \in Requests, AdvanceOrder(r)
  PROVE  order' \in [Requests -> OrderStates] /\ orderPaid' \subseteq Requests
  BY DEF TypeOK, AdvanceOrder, OrderStates

LEMMA EnsureType ==
  ASSUME TypeOK, NEW r \in Requests, EnsureOrder(r)
  PROVE  order' \in [Requests -> OrderStates]
  BY DEF TypeOK, EnsureOrder, OrderStates

LEMMA AfterApprovalType ==
  ASSUME TypeOK, NEW w \in Workers, wk[w].at \in RequestSteps, AfterApproval(w)
  PROVE  wk' \in [Workers -> Activity]
<1>1. wk[w] \in Activity /\ wk[w].r \in Requests
  BY DEF TypeOK, Activity
<1>2. [Idle EXCEPT !.at = "apply", !.r = wk[w].r, !.flag = TRUE] \in Activity
  BY <1>1, IdleType DEF Idle, Activity, Steps, RequestSteps, ProofSteps
<1>3. QED
  BY <1>2, DoneType DEF AfterApproval, Goto, TypeOK

LEMMA ExtendType ==
  ASSUME TypeOK, NEW l \in Licenses \cup {NoLicense}, NEW start \in Int, NEW m \in Int,
         Extend(l, start, m)
  PROVE  expiry' \in [Licenses -> Int] /\ renewals' \in Seq(RenewalRow)
<1> DEFINE row == [license |-> l, from |-> start, to |-> start + m]
<1>1. row \in RenewalRow
  BY DEF RenewalRow
<1>2. expiry' \in [Licenses -> Int]
  <2>1. start + m \in Int
    OBVIOUS
  <2>2. QED
    BY <2>1 DEF TypeOK, Extend
<1>3. renewals' \in Seq(RenewalRow)
  BY <1>1 DEF TypeOK, Extend
<1>4. QED
  BY <1>2, <1>3

LEMMA InitType == Init => TypeOK
  BY IdleType DEF Init, TypeOK, NoRow, Request, Statuses, ProofIds, ProofStates,
                  OrderStates, RenewalRow

LEMMA NextType == TypeOK /\ [Next]_vars => TypeOK'
<1> SUFFICES ASSUME TypeOK, [Next]_vars PROVE TypeOK'
  OBVIOUS
<1> USE DEF paymentVars, licenseVars
<1>w. ASSUME NEW w \in Workers, Serve(w) PROVE TypeOK'
  <2>0. /\ wk[w] \in Activity
        /\ wk[w].at \in RequestSteps => wk[w].r \in Requests
    BY DEF TypeOK, Activity
  <2>1. ASSUME NEW r \in Requests, NEW p \in Purposes,
               NEW l \in Licenses \cup {NoLicense}, CreateRequest(w, r, p, l)
        PROVE  TypeOK'
    <3>1. [Idle EXCEPT !.at = "create", !.r = r] \in Activity
      BY IdleType DEF Idle, Activity, Steps, RequestSteps, ProofSteps
    <3>2. req' \in [Requests -> Request]
      BY <2>1, ConstantsAssumption DEF CreateRequest, TypeOK, Request, Statuses
    <3>3. QED
      BY <2>1, <3>1, <3>2 DEF CreateRequest, TypeOK, Goto
  <2>2. CASE CreateOrder(w)
    <3>1. wk[w].r \in Requests
      BY <2>0, <2>2 DEF CreateOrder, RequestSteps, Steps
    <3>2. QED
      BY <2>2, <3>1, EnsureType, DoneType DEF CreateOrder, TypeOK
  <2>3. ASSUME NEW r \in Requests, NEW image \in BOOLEAN, SubmitRead(w, r, image)
        PROVE  TypeOK'
    <3>1. [Idle EXCEPT !.at = "submit", !.r = r, !.flag = image,
                       !.seen = req[r].status] \in Activity
      BY IdleType DEF Idle, Activity, Steps, RequestSteps, ProofSteps, TypeOK, Request
    <3>2. QED
      BY <2>3, <3>1 DEF SubmitRead, TypeOK, Goto
  <2>4. CASE SubmitExpired(w)
    <3>1. wk[w].r \in Requests
      BY <2>0, <2>4 DEF SubmitExpired, RequestSteps, Steps
    <3>2. req' \in [Requests -> Request]
      BY <2>4, <3>1, StatusType DEF SubmitExpired, Statuses
    <3>3. QED
      BY <2>4, <3>2, DoneType DEF SubmitExpired, TypeOK
  <2>5. CASE SubmitRefused(w)
    BY <2>5, DoneType DEF SubmitRefused, TypeOK
  <2>6. CASE SubmitProof(w)
    <3> DEFINE r == wk[w].r
    <3>1. r \in Requests
      BY <2>0, <2>6 DEF SubmitProof, RequestSteps, Steps
    <3>2. PICK id \in ProofIds :
             /\ proofs' = [proofs EXCEPT ![r][id] = "new"]
             /\ IF wk[w].flag
                THEN Goto(w, [Idle EXCEPT !.at = "receipt", !.r = r, !.proof = id])
                ELSE Done(w)
      BY <2>6 DEF SubmitProof
    <3>3. [Idle EXCEPT !.at = "receipt", !.r = r, !.proof = id] \in Activity
      <4>1. id \in 0..MaxProofs
        BY ConstantsAssumption DEF ProofIds
      <4>2. QED
        BY <3>1, <4>1, IdleType
        DEF Idle, Activity, Steps, RequestSteps, ProofSteps
    <3>4. wk' \in [Workers -> Activity]
      BY <3>2, <3>3, DoneType DEF Goto, TypeOK
    <3>5. proofs' \in [Requests -> [ProofIds -> ProofStates]]
      BY <3>1, <3>2, ProofType DEF ProofStates
    <3>6. req' \in [Requests -> Request]
      BY <2>6, <3>1, StatusType DEF SubmitProof, Statuses
    <3>7. QED
      BY <2>6, <3>4, <3>5, <3>6 DEF SubmitProof, TypeOK
  <2>7. CASE StoreReceipt(w)
    <3>1. wk[w].proof \in ProofIds
      BY <2>0, <2>7 DEF StoreReceipt, Activity, ProofSteps
    <3>2. images' \in [Requests -> SUBSET ProofIds]
      BY <2>7, <3>1 DEF StoreReceipt, TypeOK
    <3>3. QED
      BY <2>7, <3>2, DoneType DEF StoreReceipt, TypeOK
  <2>8. CASE RejectReceipt(w)
    <3>1. wk[w].r \in Requests /\ wk[w].proof \in ProofIds
      BY <2>0, <2>8 DEF RejectReceipt, Activity, RequestSteps, ProofSteps, Steps
    <3>2. proofs' \in [Requests -> [ProofIds -> ProofStates]]
      BY <2>8, <3>1, ProofType DEF RejectReceipt, ProofStates
    <3>3. req' \in [Requests -> Request]
      BY <2>8, <3>1, StatusType DEF RejectReceipt, Statuses
    <3>4. QED
      BY <2>8, <3>2, <3>3, DoneType DEF RejectReceipt, TypeOK
  <2>9. ASSUME NEW r \in Requests, NEW credit \in BOOLEAN,
               NEW step \in {"approve", "reject"}, ReviewRead(w, r, step, credit)
        PROVE  TypeOK'
    <3>1. PICK i \in ProofIds :
             Goto(w, [Idle EXCEPT !.at = step, !.r = r, !.flag = credit, !.proof = i])
      BY <2>9 DEF ReviewRead
    <3>2. [Idle EXCEPT !.at = step, !.r = r, !.flag = credit, !.proof = i] \in Activity
      <4>1. i \in 0..MaxProofs
        BY ConstantsAssumption DEF ProofIds
      <4>2. QED
        BY <4>1, IdleType
        DEF Idle, Activity, Steps, RequestSteps, ProofSteps
    <3>3. QED
      BY <2>9, <3>1, <3>2 DEF ReviewRead, TypeOK, Goto
  <2>10. CASE ApproveCommit(w)
    <3> DEFINE r == wk[w].r
    <3>1. r \in Requests /\ wk[w].proof \in ProofIds /\ wk[w].at \in RequestSteps
      BY <2>0, <2>10 DEF ApproveCommit, Activity, RequestSteps, ProofSteps, Steps
    <3>2. proofs' \in [Requests -> [ProofIds -> ProofStates]]
      BY <2>10, <3>1, ProofType DEF ApproveCommit, ProofStates
    <3>3. req' \in [Requests -> Request]
      BY <2>10, <3>1, StatusType DEF ApproveCommit, Statuses
    <3>4. /\ order' \in [Requests -> OrderStates]
          /\ orderPaid' \subseteq Requests
          /\ wk' \in [Workers -> Activity]
      <4>1. CASE order[r] = "none"
        <5>1. [wk[w] EXCEPT !.at = "approve_order"] \in Activity
          BY <2>0, <3>1 DEF Activity, Steps, RequestSteps, ProofSteps
        <5>2. QED
          BY <2>10, <3>1, <4>1, <5>1, EnsureType DEF ApproveCommit, TypeOK
      <4>2. CASE order[r] # "none"
        BY <2>10, <3>1, <4>2, AdvanceType, AfterApprovalType DEF ApproveCommit
      <4>3. QED
        BY <4>1, <4>2
    <3>5. QED
      BY <2>10, <3>1, <3>2, <3>3, <3>4 DEF ApproveCommit, RecordPaid, TypeOK
  <2>11. CASE ApproveOrder(w)
    <3>1. wk[w].r \in Requests /\ wk[w].at \in RequestSteps
      BY <2>0, <2>11 DEF ApproveOrder, RequestSteps, Steps
    <3>2. QED
      BY <2>11, <3>1, AdvanceType, AfterApprovalType DEF ApproveOrder, TypeOK
  <2>12. CASE RejectCommit(w)
    <3>1. wk[w].r \in Requests /\ wk[w].proof \in ProofIds
      BY <2>0, <2>12 DEF RejectCommit, Activity, RequestSteps, ProofSteps, Steps
    <3>2. proofs' \in [Requests -> [ProofIds -> ProofStates]]
      BY <2>12, <3>1, ProofType DEF RejectCommit, ProofStates
    <3>3. req' \in [Requests -> Request]
      BY <2>12, <3>1, StatusType DEF RejectCommit, Statuses
    <3>4. QED
      BY <2>12, <3>2, <3>3, DoneType DEF RejectCommit, TypeOK
  <2>13. CASE ReviewStale(w)
    BY <2>13, DoneType DEF ReviewStale, TypeOK
  <2>14. ASSUME NEW r \in Requests, ApplyStart(w, r) PROVE TypeOK'
    <3>1. [Idle EXCEPT !.at = "apply", !.r = r] \in Activity
      BY IdleType DEF Idle, Activity, Steps, RequestSteps, ProofSteps
    <3>2. QED
      BY <2>14, <3>1 DEF ApplyStart, TypeOK, Goto
  <2>15. CASE ApplyRefused(w)
    BY <2>15, DoneType DEF ApplyRefused, TypeOK
  <2>16. CASE ApplyRead(w)
    <3>1. [wk[w] EXCEPT !.at = "apply_license"] \in Activity
      BY <2>0, <2>16 DEF ApplyRead, Activity, Steps, RequestSteps, ProofSteps
    <3>2. QED
      BY <2>16, <3>1 DEF ApplyRead, TypeOK
  <2>17. CASE ApplyFailed(w)
    BY <2>17, DoneType DEF ApplyFailed, TypeOK
  <2>18. CASE ApplyLicense(w)
    <3> DEFINE r == wk[w].r
               start == IF req[r].purpose = "renewal" THEN StartOf(req[r].license) ELSE 0
    <3>1. r \in Requests
      BY <2>0, <2>18 DEF ApplyLicense, RequestSteps, Steps
    <3>2. start \in Int
      BY <2>18, <3>1 DEF ApplyLicense, Applicable, StartOf, TypeOK, Request
    <3>3. [wk[w] EXCEPT !.at = "credit", !.start = start] \in Activity
      BY <2>0, <3>1, <3>2 DEF Activity, Steps, RequestSteps, ProofSteps
    <3>4. QED
      BY <2>18, <3>3 DEF ApplyLicense, TypeOK, Goto
  <2>19. ASSUME NEW m \in 1..MaxMonths, ApplyCommit(w, m) PROVE TypeOK'
    <3> DEFINE r == wk[w].r
    <3>1. r \in Requests /\ wk[w].start \in Int
      BY <2>0, <2>19 DEF ApplyCommit, Activity, RequestSteps, Steps
    <3>2. req[r].license \in Licenses \cup {NoLicense}
      BY <3>1 DEF TypeOK, Request
    <3>3. expiry' \in [Licenses -> Int] /\ renewals' \in Seq(RenewalRow)
      <4>1. CASE req[r].purpose = "renewal"
        BY <2>19, <3>1, <3>2, <4>1, ExtendType DEF ApplyCommit
      <4>2. CASE req[r].purpose # "renewal"
        BY <2>19, <4>2 DEF ApplyCommit, TypeOK
      <4>3. QED
        BY <4>1, <4>2
    <3>4. req' \in [Requests -> Request] /\ effects' \in [Requests -> Nat]
      <4>1. req' = [req EXCEPT ![r].applied = TRUE] /\ effects' = [effects EXCEPT ![r] = @ + 1]
        BY <2>19 DEF ApplyCommit
      <4>2. req' \in [Requests -> Request]
        BY <3>1, <4>1 DEF TypeOK, Request
      <4>3. effects' \in [Requests -> Nat]
        BY <3>1, <4>1 DEF TypeOK
      <4>4. QED
        BY <4>2, <4>3
    <3>5. QED
      BY <2>19, <3>3, <3>4, DoneType DEF ApplyCommit, TypeOK
  <2>20. ASSUME NEW l \in Licenses, RenewRead(w, l) PROVE TypeOK'
    <3>1. StartOf(l) \in Int
      BY DEF TypeOK, StartOf
    <3>2. [Idle EXCEPT !.at = "renew", !.l = l, !.start = StartOf(l)] \in Activity
      BY <3>1, IdleType DEF Idle, Activity, Steps, RequestSteps, ProofSteps
    <3>3. QED
      BY <2>20, <3>2 DEF RenewRead, TypeOK, Goto
  <2>21. ASSUME NEW m \in 1..MaxMonths, RenewCommit(w, m) PROVE TypeOK'
    <3>1. wk[w].l \in Licenses /\ wk[w].start \in Int
      BY <2>0, <2>21 DEF RenewCommit, Activity
    <3>2. QED
      BY <2>21, <3>1, ExtendType, DoneType DEF RenewCommit, TypeOK
  <2>22. CASE ExpireRead(w)
    <3> DEFINE batch == {r \in due : req[r].status = "pending"}
    <3>1. [Idle EXCEPT !.at = "expire", !.batch = batch] \in Activity
      BY IdleType DEF Idle, Activity, Steps, RequestSteps, ProofSteps, TypeOK
    <3>2. QED
      BY <2>22, <3>1 DEF ExpireRead, TypeOK, Goto
  <2>23. CASE ExpireCommit(w)
    <3>1. req' \in [Requests -> Request]
      BY <2>23 DEF ExpireCommit, TypeOK, Request, Statuses
    <3>2. QED
      BY <2>23, <3>1, DoneType DEF ExpireCommit, TypeOK
  <2>24. CASE Crash(w)
    BY <2>24, DoneType DEF Crash, TypeOK
  <2>25. QED
    BY <1>w, <2>1, <2>2, <2>3, <2>4, <2>5, <2>6, <2>7, <2>8, <2>9, <2>10, <2>11,
       <2>12, <2>13, <2>14, <2>15, <2>16, <2>17, <2>18, <2>19, <2>20, <2>21,
       <2>22, <2>23, <2>24
    DEF Serve, ApproveRead, RejectRead
<1>t. CASE Tick
  BY <1>t DEF Tick, TypeOK
<1>l. ASSUME NEW r \in Requests, TtlLapses(r) PROVE TypeOK'
  BY <1>l DEF TtlLapses, TypeOK
<1>o. ASSUME NEW r \in Requests, OperatorReadiesOrder(r) PROVE TypeOK'
  BY <1>o DEF OperatorReadiesOrder, TypeOK, OrderStates
<1>u. CASE UNCHANGED vars
  BY <1>u DEF vars, TypeOK
<1>q. QED
  BY <1>w, <1>t, <1>l, <1>o, <1>u DEF Next

\* Every reachable state has well-formed rows and worker states.
THEOREM TypeCorrect == Spec => []TypeOK
<1>1. QED
  BY InitType, NextType, PTL DEF Spec
-----------------------------------------------------------------------------
(* Money: an effect on a license always has a transaction behind it, for any *)
(* number of workers.                                                        *)

\* A handler that has passed the "paid" check works for a settled payment.
InFlightSettled ==
    \A w \in Workers : wk[w].at \in {"apply_license", "credit"} => wk[w].r \in txn

MoneyInv == /\ TypeOK
            /\ PaidHasTransaction
            /\ CreditHasTransaction
            /\ InFlightSettled

LEMMA MoneyInit == Init => MoneyInv
  BY InitType DEF Init, MoneyInv, PaidHasTransaction, CreditHasTransaction,
                  InFlightSettled, NoRow, Idle

\* No worker newly passes the "paid" check.
NoneEnters == \A v \in Workers :
                 wk'[v].at \in {"apply_license", "credit"} => wk'[v] = wk[v]

LEMMA GotoEnters ==
  ASSUME wk \in [Workers -> Activity], NEW w \in Workers, NEW act, Goto(w, act),
         act.at \notin {"apply_license", "credit"}
  PROVE  NoneEnters
  BY DEF Goto, NoneEnters

LEMMA DoneEnters ==
  ASSUME wk \in [Workers -> Activity], NEW w \in Workers, Done(w)
  PROVE  NoneEnters
  BY GotoEnters DEF Done, Idle

LEMMA AfterApprovalEnters ==
  ASSUME wk \in [Workers -> Activity], NEW w \in Workers, AfterApproval(w)
  PROVE  NoneEnters
<1>1. [Idle EXCEPT !.at = "apply", !.r = wk[w].r, !.flag = TRUE].at = "apply"
  BY DEF Idle
<1>2. QED
  BY <1>1, GotoEnters, DoneEnters DEF AfterApproval

\* A status other than "paid" settles nothing.
LEMMA UnpaidStep ==
  ASSUME TypeOK, NEW r \in Requests, NEW st, st # "paid",
         req' = [req EXCEPT ![r].status = st]
  PROVE  \A q \in Requests : /\ req'[q].status = "paid" => req[q].status = "paid"
                              /\ req'[q].applied = req[q].applied
  BY DEF TypeOK, Request

LEMMA MoneyStep == MoneyInv /\ [Next]_vars => MoneyInv'
<1> SUFFICES ASSUME MoneyInv, [Next]_vars PROVE MoneyInv'
  OBVIOUS
<1> USE DEF paymentVars, licenseVars, PaidHasTransaction, CreditHasTransaction,
            InFlightSettled
<1>0. TypeOK /\ TypeOK'
  BY NextType DEF MoneyInv
<1>1. txn \subseteq txn'
  BY DEF Next, Serve, vars, Tick, TtlLapses, OperatorReadiesOrder, CreateRequest,
         CreateOrder, SubmitRead, SubmitExpired, SubmitRefused, SubmitProof,
         StoreReceipt, RejectReceipt, ApproveRead, RejectRead, ReviewRead,
         ApproveCommit, RecordPaid, ApproveOrder, RejectCommit, ReviewStale, ApplyStart,
         ApplyRefused, ApplyRead, ApplyFailed, ApplyLicense, ApplyCommit,
         RenewRead, RenewCommit, ExpireRead, ExpireCommit, Crash
<1>w. ASSUME NEW w \in Workers, Serve(w) PROVE MoneyInv'
  <2> DEFINE r == wk[w].r
  <2>0. wk[w].at \in RequestSteps => r \in Requests
    BY <1>0 DEF TypeOK, Activity
  \* Handlers that end, or start, without touching a row of the payment.
  <2>1. CASE NoneEnters /\ UNCHANGED <<req, txn, effects>>
    BY <1>0, <2>1 DEF MoneyInv, NoneEnters
  <2>a. CASE \/ CreateOrder(w) \/ SubmitRefused(w) \/ StoreReceipt(w)
             \/ ReviewStale(w) \/ ApplyRefused(w) \/ ApplyFailed(w) \/ Crash(w)
             \/ \E m \in 1..MaxMonths : RenewCommit(w, m)
    <3>1. Done(w) /\ UNCHANGED <<req, txn, effects>>
      BY <2>a DEF CreateOrder, SubmitRefused, StoreReceipt, ReviewStale,
                  ApplyRefused, ApplyFailed, Crash, RenewCommit
    <3>2. QED
      BY <1>0, <2>1, <3>1, DoneEnters DEF TypeOK
  <2>b. CASE \/ ExpireRead(w)
             \/ \E q \in Requests, b \in BOOLEAN : SubmitRead(w, q, b)
             \/ \E q \in Requests : ApplyStart(w, q)
             \/ \E l \in Licenses : RenewRead(w, l)
    <3>1. UNCHANGED <<req, txn, effects>>
      BY <2>b DEF ExpireRead, SubmitRead, ApplyStart, RenewRead
    <3>2. NoneEnters
      <4>1. CASE ExpireRead(w)
        <5>1. PICK batch :
                 Goto(w, [Idle EXCEPT !.at = "expire", !.batch = batch])
          BY <4>1 DEF ExpireRead
        <5>2. [Idle EXCEPT !.at = "expire", !.batch = batch].at = "expire"
          BY DEF Idle
        <5>3. QED
          BY <1>0, <5>1, <5>2, GotoEnters DEF TypeOK
      <4>2. ASSUME NEW q \in Requests, NEW b \in BOOLEAN, SubmitRead(w, q, b)
            PROVE  NoneEnters
        BY <1>0, <4>2 DEF SubmitRead, Idle, Goto, NoneEnters, TypeOK
      <4>3. ASSUME NEW q \in Requests, ApplyStart(w, q) PROVE NoneEnters
        BY <1>0, <4>3 DEF ApplyStart, Idle, Goto, NoneEnters, TypeOK
      <4>4. ASSUME NEW l \in Licenses, RenewRead(w, l) PROVE NoneEnters
        BY <1>0, <4>4 DEF RenewRead, Idle, Goto, NoneEnters, TypeOK
      <4>5. QED
        BY <2>b, <4>1, <4>2, <4>3, <4>4
    <3>3. QED
      BY <2>1, <3>1, <3>2
  <2>2. CASE \E q \in Requests, b \in BOOLEAN, step \in {"approve", "reject"} :
               ReviewRead(w, q, step, b)
    <3>1. UNCHANGED <<req, txn, effects>>
      BY <2>2 DEF ReviewRead
    <3>2. NoneEnters
      <4>1. PICK q \in Requests, b \in BOOLEAN, step \in {"approve", "reject"},
                 i \in ProofIds :
               Goto(w, [Idle EXCEPT !.at = step, !.r = q, !.flag = b, !.proof = i])
        BY <2>2 DEF ReviewRead
      <4>2. [Idle EXCEPT !.at = step, !.r = q, !.flag = b, !.proof = i].at = step
        BY DEF Idle
      <4>3. QED
        BY <1>0, <4>1, <4>2, GotoEnters DEF TypeOK
    <3>3. QED
      BY <2>1, <3>1, <3>2
  <2>3. CASE \E q \in Requests, p \in Purposes, l \in Licenses \cup {NoLicense} :
               CreateRequest(w, q, p, l)
    BY <1>0, <2>3 DEF MoneyInv, TypeOK, CreateRequest, Goto, Idle
  <2>4. CASE \/ SubmitExpired(w) \/ SubmitProof(w) \/ RejectReceipt(w) \/ RejectCommit(w)
    <3>0. /\ r \in Requests
          /\ \/ req' = [req EXCEPT ![r].status = "expired"]
             \/ req' = [req EXCEPT ![r].status = "proof_submitted"]
             \/ req' = [req EXCEPT ![r].status = "pending"]
             \/ req' = [req EXCEPT ![r].status = "rejected"]
      BY <2>0, <2>4 DEF SubmitExpired, SubmitProof, RejectReceipt, RejectCommit,
                        RequestSteps, Steps
    <3>1. /\ \A q \in Requests : /\ req'[q].status = "paid" => req[q].status = "paid"
                                 /\ req'[q].applied = req[q].applied
          /\ UNCHANGED <<txn, effects>>
      <4>1. UNCHANGED <<txn, effects>>
        BY <2>4 DEF SubmitExpired, SubmitProof, RejectReceipt, RejectCommit
      <4>2. QED
        <5>1. /\ "expired" # "paid" /\ "proof_submitted" # "paid"
              /\ "pending" # "paid" /\ "rejected" # "paid"
          OBVIOUS
        <5>2. CASE req' = [req EXCEPT ![r].status = "expired"]
          BY <1>0, <3>0, <4>1, <5>1, <5>2, UnpaidStep
        <5>3. CASE req' = [req EXCEPT ![r].status = "proof_submitted"]
          BY <1>0, <3>0, <4>1, <5>1, <5>3, UnpaidStep
        <5>4. CASE req' = [req EXCEPT ![r].status = "pending"]
          BY <1>0, <3>0, <4>1, <5>1, <5>4, UnpaidStep
        <5>5. CASE req' = [req EXCEPT ![r].status = "rejected"]
          BY <1>0, <3>0, <4>1, <5>1, <5>5, UnpaidStep
        <5>6. QED
          BY <3>0, <5>2, <5>3, <5>4, <5>5
    <3>2. NoneEnters
      <4>1. CASE SubmitProof(w)
        <5>1. CASE Done(w)
          BY <1>0, <5>1, DoneEnters DEF TypeOK
        <5>2. ASSUME NEW id \in ProofIds,
                     Goto(w, [Idle EXCEPT !.at = "receipt", !.r = r, !.proof = id])
              PROVE  NoneEnters
          <6>1. [Idle EXCEPT !.at = "receipt", !.r = r, !.proof = id].at = "receipt"
            BY DEF Idle
          <6>2. QED
            BY <1>0, <5>2, <6>1, GotoEnters DEF TypeOK
        <5>3. QED
          BY <4>1, <5>1, <5>2 DEF SubmitProof
      <4>2. CASE Done(w)
        BY <1>0, <4>2, DoneEnters DEF TypeOK
      <4>3. QED
        BY <2>4, <4>1, <4>2 DEF SubmitExpired, RejectReceipt, RejectCommit
    <3>3. QED
      BY <1>0, <3>1, <3>2 DEF MoneyInv, NoneEnters
  <2>5. CASE ApproveCommit(w)
    <3>1. /\ \A q \in Requests : /\ q # r => req'[q] = req[q]
                                 /\ req'[q].applied = req[q].applied
          /\ txn' = txn \cup {r} /\ UNCHANGED effects
      BY <1>0, <2>0, <2>5 DEF ApproveCommit, RecordPaid, TypeOK, Request, RequestSteps, Steps
    <3>2. NoneEnters
      <4>1. CASE AfterApproval(w)
        BY <1>0, <4>1, AfterApprovalEnters DEF TypeOK
      <4>2. CASE wk' = [wk EXCEPT ![w].at = "approve_order"]
        BY <1>0, <4>2 DEF TypeOK, NoneEnters, Activity
      <4>3. QED
        BY <2>5, <4>1, <4>2 DEF ApproveCommit
    <3>3. QED
      BY <1>0, <3>1, <3>2 DEF MoneyInv, NoneEnters
  <2>6. CASE ApproveOrder(w)
    BY <1>0, <2>1, <2>6, AfterApprovalEnters DEF ApproveOrder, TypeOK
  <2>7. CASE ApplyRead(w)
    BY <1>0, <2>0, <2>7 DEF MoneyInv, ApplyRead, TypeOK, RequestSteps, Steps
  <2>8. CASE ApplyLicense(w)
    BY <1>0, <2>8 DEF MoneyInv, ApplyLicense, TypeOK, Goto
  <2>9. CASE \E m \in 1..MaxMonths : ApplyCommit(w, m)
    <3>1. /\ \A q \in Requests :
               /\ req'[q].status = req[q].status
               /\ q # r => req'[q] = req[q] /\ effects'[q] = effects[q]
          /\ UNCHANGED txn
      BY <1>0, <2>9 DEF ApplyCommit, TypeOK, Request
    <3>2. r \in txn
      BY <2>9 DEF MoneyInv, ApplyCommit
    <3>3. NoneEnters
      BY <1>0, <2>9, DoneEnters DEF ApplyCommit, TypeOK
    <3>4. QED
      BY <1>0, <3>1, <3>2, <3>3 DEF MoneyInv, NoneEnters
  <2>10. CASE ExpireCommit(w)
    <3>1. /\ \A q \in Requests : /\ req'[q].status = "paid" => req[q].status = "paid"
                                 /\ req'[q].applied = req[q].applied
          /\ UNCHANGED <<txn, effects>>
      BY <1>0, <2>10 DEF ExpireCommit, TypeOK, Request
    <3>2. NoneEnters
      BY <1>0, <2>10, DoneEnters DEF ExpireCommit, TypeOK
    <3>3. QED
      BY <1>0, <3>1, <3>2 DEF MoneyInv, NoneEnters
  <2>11. QED
    BY <1>w, <2>a, <2>b, <2>2, <2>3, <2>4, <2>5, <2>6, <2>7, <2>8, <2>9, <2>10
    DEF Serve, ApproveRead, RejectRead
<1>o. CASE \/ Tick \/ UNCHANGED vars
           \/ \E q \in Requests : TtlLapses(q) \/ OperatorReadiesOrder(q)
  BY <1>0, <1>o DEF MoneyInv, Tick, TtlLapses, OperatorReadiesOrder, vars
<1>q. QED
  BY <1>w, <1>o DEF Next

\* A request is never "paid" without its transaction, whatever the workers do.
THEOREM PaidAlwaysHasTransaction == Spec => []PaidHasTransaction
<1>1. MoneyInv => PaidHasTransaction
  BY DEF MoneyInv
<1>2. QED
  BY <1>1, MoneyInit, MoneyStep, PTL DEF Spec

\* A payment takes effect on a license only after a transaction recorded it.
THEOREM CreditAlwaysHasTransaction == Spec => []CreditHasTransaction
<1>1. MoneyInv => CreditHasTransaction
  BY DEF MoneyInv
<1>2. QED
  BY <1>1, MoneyInit, MoneyStep, PTL DEF Spec

-----------------------------------------------------------------------------
(* Handlers that do not overlap.  With one web worker, or as long as several *)
(* do not serve requests at the same time, the workflow keeps all of its      *)
(* promises: what a handler has read is still what the rows say.              *)

Serial == \A v, w \in Workers : ~IsIdle(v) /\ ~IsIdle(w) => v = w

LEMMA OneWorkerIsSerial ==
  ASSUME \A v, w \in Workers : v = w
  PROVE  Serial
  BY DEF Serial

\* No money has come in for r, and nothing was done for it.
Unsettled(r) ==
    /\ r \notin txn /\ order[r] \in {"none", "payment_pending"}
    /\ ~req[r].applied /\ effects[r] = 0

\* Only a paid request has a transaction, an order to fulfil or an effect.
RowsAgree == \A r \in Requests : req[r].status # "paid" => Unsettled(r)

\* What the handler of w has read is what the rows say.
UpToDate(w) ==
    LET r == wk[w].r IN
    /\ wk[w].at = "submit" =>
          /\ req[r].status = wk[w].seen
          /\ wk[w].seen \in {"pending", "proof_submitted"}
    /\ wk[w].at \in {"receipt", "approve", "reject"} => req[r].status = "proof_submitted"
    /\ wk[w].at = "approve_order" => req[r].status = "paid"
    /\ wk[w].at \in {"apply_license", "credit"} => req[r].status = "paid" /\ ~req[r].applied
    /\ wk[w].at = "credit" /\ req[r].purpose = "renewal" =>
          /\ req[r].license \in Licenses
          /\ expiry[req[r].license] <= wk[w].start
    /\ wk[w].at = "renew" => expiry[wk[w].l] <= wk[w].start
    /\ wk[w].at = "expire" => \A q \in wk[w].batch : req[q].status = "pending"

SerialInv == /\ TypeOK
             /\ RowsAgree
             /\ CreditedOnce
             /\ PaidPeriodsChain
             /\ \A w \in Workers : UpToDate(w)

LEMMA SerialInit == Init => SerialInv
<1> SUFFICES ASSUME Init PROVE SerialInv
  OBVIOUS
<1>1. TypeOK
  BY InitType
<1>2. RowsAgree /\ CreditedOnce
  BY DEF Init, RowsAgree, Unsettled, CreditedOnce, NoRow
<1>3. PaidPeriodsChain
  BY DEF Init, PaidPeriodsChain
<1>4. \A w \in Workers : UpToDate(w)
  BY DEF Init, UpToDate, Idle
<1>5. QED
  BY <1>1, <1>2, <1>3, <1>4 DEF SerialInv

\* The request a handler works on, and what it may rely on.
LEMMA Serving ==
  ASSUME SerialInv, NEW w \in Workers
  PROVE  /\ TypeOK /\ UpToDate(w) /\ RowsAgree /\ CreditedOnce
         /\ wk[w].at \in RequestSteps => wk[w].r \in Requests
         /\ wk[w].at = "renew" => wk[w].l \in Licenses
         /\ wk[w].start \in Int /\ wk[w].batch \subseteq Requests
  BY DEF SerialInv, TypeOK, Activity

\* A status is written to one request and nothing else of its row.
LEMMA StatusWritten ==
  ASSUME TypeOK, NEW r \in Requests, NEW s, req' = [req EXCEPT ![r].status = s]
  PROVE  \A q \in Requests :
            /\ req'[q].status = IF q = r THEN s ELSE req[q].status
            /\ req'[q].applied = req[q].applied
            /\ req'[q].purpose = req[q].purpose /\ req'[q].license = req[q].license
  BY DEF TypeOK, Request

-----------------------------------------------------------------------------
(* The rows of a payment *)

\* The order of an unpaid request stays in front of the provisioning queue.
LEMMA EnsureOrderKeeps ==
  ASSUME TypeOK, NEW r \in Requests, EnsureOrder(r)
  PROVE  \A q \in Requests : order[q] \in {"none", "payment_pending"} =>
                             order'[q] \in {"none", "payment_pending"}
  BY DEF TypeOK, EnsureOrder

LEMMA RowsStep == SerialInv /\ [Next]_vars => RowsAgree' /\ CreditedOnce'
<1> SUFFICES ASSUME SerialInv, [Next]_vars PROVE RowsAgree' /\ CreditedOnce'
  OBVIOUS
<1> USE DEF paymentVars, licenseVars, RowsAgree, Unsettled, CreditedOnce
<1>0. TypeOK /\ RowsAgree /\ CreditedOnce
  BY DEF SerialInv
<1>w. ASSUME NEW w \in Workers, Serve(w) PROVE RowsAgree' /\ CreditedOnce'
  <2> DEFINE r == wk[w].r
  <2>0. /\ UpToDate(w)
        /\ wk[w].at \in RequestSteps => r \in Requests
    BY Serving
  <2>1. CASE UNCHANGED <<req, txn, order, effects>>
    BY <1>0, <2>1
  <2>2. CASE \/ SubmitRefused(w) \/ StoreReceipt(w) \/ ReviewStale(w)
             \/ ApplyRefused(w) \/ ApplyRead(w) \/ ApplyFailed(w) \/ ApplyLicense(w)
             \/ ExpireRead(w) \/ Crash(w)
             \/ \E q \in Requests : \/ ApplyStart(w, q) \/ RejectRead(w, q)
                                    \/ \E b \in BOOLEAN : SubmitRead(w, q, b) \/ ApproveRead(w, q, b)
             \/ \E l \in Licenses : RenewRead(w, l)
             \/ \E m \in 1..MaxMonths : RenewCommit(w, m)
    BY <2>1, <2>2
    DEF SubmitRefused, StoreReceipt, ReviewStale, ApplyRefused, ApplyRead, ApplyFailed,
        ApplyLicense, ExpireRead, Crash, ApplyStart, RejectRead, SubmitRead, ApproveRead,
        ReviewRead, RenewRead, RenewCommit
  <2>3. ASSUME NEW q \in Requests, NEW p \in Purposes, NEW l \in Licenses \cup {NoLicense},
               CreateRequest(w, q, p, l)
        PROVE  RowsAgree' /\ CreditedOnce'
    BY <1>0, <2>3 DEF CreateRequest, TypeOK
  <2>4. CASE CreateOrder(w)
    <3>1. r \in Requests
      BY <2>0, <2>4 DEF CreateOrder, RequestSteps, Steps
    <3>2. QED
      BY <1>0, <2>4, <3>1, EnsureOrderKeeps DEF CreateOrder
  \* A decision other than approval is taken on a request that was not paid.
  <2>5. CASE \/ SubmitExpired(w) \/ SubmitProof(w) \/ RejectReceipt(w) \/ RejectCommit(w)
    <3>1. r \in Requests /\ req[r].status \in {"pending", "proof_submitted"}
      BY <2>0, <2>5 DEF SubmitExpired, SubmitProof, RejectReceipt, RejectCommit,
                        UpToDate, RequestSteps, Steps
    <3>2. PICK s : req' = [req EXCEPT ![r].status = s]
      BY <2>5 DEF SubmitExpired, SubmitProof, RejectReceipt, RejectCommit
    <3>3. UNCHANGED <<txn, order, effects>>
      BY <2>5 DEF SubmitExpired, SubmitProof, RejectReceipt, RejectCommit
    <3>4. Unsettled(r)
      BY <1>0, <3>1
    <3>5. \A q \in Requests : /\ q # r => req'[q].status = req[q].status
                              /\ req'[q].applied = req[q].applied
      BY <1>0, <3>1, <3>2, StatusWritten
    <3>6. QED
      BY <1>0, <3>3, <3>4, <3>5
  <2>6. CASE ApproveCommit(w)
    <3>1. r \in Requests
      BY <2>0, <2>6 DEF ApproveCommit, RequestSteps, Steps
    <3>2. /\ req' = [req EXCEPT ![r].status = "paid"] /\ txn' = txn \cup {r}
          /\ UNCHANGED effects
      BY <2>6 DEF ApproveCommit, RecordPaid
    <3>3. \A q \in Requests \ {r} : order'[q] = order[q]
      BY <1>0, <2>6, <3>1 DEF ApproveCommit, EnsureOrder, AdvanceOrder, TypeOK
    <3>4. \A q \in Requests : /\ req'[q].status = IF q = r THEN "paid" ELSE req[q].status
                              /\ req'[q].applied = req[q].applied
      BY <1>0, <3>1, <3>2 DEF TypeOK, Request
    <3>5. \A q \in Requests : q # r => (q \in txn' <=> q \in txn)
      BY <3>2
    <3>6. UNCHANGED effects
      BY <3>2
    <3>7. QED
      BY <1>0, <3>3, <3>4, <3>5, <3>6
  <2>7. CASE ApproveOrder(w)
    <3>1. \A q \in Requests : order'[q] # order[q] => order[q] = "payment_pending" /\ q = r
      BY <1>0, <2>7 DEF ApproveOrder, AdvanceOrder, TypeOK
    <3>2. UNCHANGED <<req, txn, effects>> /\ r \in Requests
      BY <2>0, <2>7 DEF ApproveOrder, RequestSteps, Steps
    <3>3. req[r].status = "paid"
      BY <2>0, <2>7 DEF ApproveOrder, UpToDate
    <3>4. QED
      BY <1>0, <3>1, <3>2, <3>3
  <2>8. ASSUME NEW m \in 1..MaxMonths, ApplyCommit(w, m) PROVE RowsAgree' /\ CreditedOnce'
    <3>1. r \in Requests /\ req[r].status = "paid" /\ ~req[r].applied
      BY <2>0, <2>8 DEF ApplyCommit, UpToDate, RequestSteps, Steps
    <3>2. /\ req' = [req EXCEPT ![r].applied = TRUE]
          /\ effects' = [effects EXCEPT ![r] = @ + 1]
          /\ UNCHANGED <<txn, order>>
      BY <2>8 DEF ApplyCommit
    <3>3. \A q \in Requests : /\ req'[q].status = req[q].status
                              /\ q # r => req'[q] = req[q] /\ effects'[q] = effects[q]
                              /\ q = r => req'[q].applied /\ effects'[q] = effects[q] + 1
      BY <1>0, <3>2 DEF TypeOK, Request
    <3>4. QED
      BY <1>0, <3>1, <3>2, <3>3
  <2>9. CASE ExpireCommit(w)
    <3>1. \A q \in Requests : \/ req'[q] = req[q]
                              \/ req[q].status = "pending" /\ req'[q].applied = req[q].applied
      BY <1>0, <2>0, <2>9 DEF ExpireCommit, UpToDate, TypeOK, Request
    <3>2. UNCHANGED <<txn, order, effects>>
      BY <2>9 DEF ExpireCommit
    <3>3. QED
      BY <1>0, <3>1, <3>2
  <2>10. QED
    BY <1>w, <2>2, <2>3, <2>4, <2>5, <2>6, <2>7, <2>8, <2>9 DEF Serve
<1>o. ASSUME NEW q \in Requests, OperatorReadiesOrder(q) PROVE RowsAgree' /\ CreditedOnce'
  <2>1. req[q].status = "paid"
    BY <1>0, <1>o DEF OperatorReadiesOrder
  <2>2. QED
    BY <1>0, <1>o, <2>1 DEF OperatorReadiesOrder, TypeOK
<1>t. CASE \/ Tick \/ UNCHANGED vars \/ \E q \in Requests : TtlLapses(q)
  BY <1>0, <1>t DEF Tick, TtlLapses, vars
<1>q. QED
  BY <1>w, <1>o, <1>t DEF Next
-----------------------------------------------------------------------------
(* The periods of a license *)

\* Extending a license from its expiry or later appends a period after all
\* others, and the license then expires with it.
LEMMA ExtendChains ==
  ASSUME TypeOK, PaidPeriodsChain, NEW l \in Licenses, NEW start \in Int, NEW m \in Nat,
         expiry[l] <= start, Extend(l, start, m)
  PROVE  PaidPeriodsChain'
<1> DEFINE row == [license |-> l, from |-> start, to |-> start + m]
<1> DEFINE n == Len(renewals)
<1>1. renewals \in Seq(RenewalRow) /\ row \in RenewalRow /\ n \in Nat
  BY DEF TypeOK, RenewalRow
<1>2. renewals' = Append(renewals, row)
  BY DEF Extend
<1>3. /\ Len(renewals') = n + 1 /\ renewals'[n + 1] = row
      /\ \A i \in 1..n : renewals'[i] = renewals[i]
  BY <1>1, <1>2
<1>4. \A i \in 1..n : renewals[i].from \in Int /\ renewals[i].to \in Int
  <2>1. \A i \in 1..n : renewals[i] \in RenewalRow
    BY <1>1
  <2>2. QED
    BY <2>1 DEF RenewalRow
<1>5. \A k \in Licenses : /\ expiry[k] \in Int
                          /\ expiry'[k] = IF k = l THEN start + m ELSE expiry[k]
  BY DEF TypeOK, Extend
<1>6. ASSUME NEW i \in 1..n, renewals[i].license = l
      PROVE  renewals[i].to <= start /\ renewals[i].to <= start + m
  <2>1. renewals[i].to <= expiry[l]
    BY <1>6 DEF PaidPeriodsChain
  <2>2. QED
    BY <2>1, <1>4, <1>5
<1>7. ASSUME NEW k \in Licenses, NEW i \in 1..(n + 1), NEW j \in 1..(n + 1), i < j,
             renewals'[i].license = k, renewals'[j].license = k
      PROVE  renewals'[i].to <= renewals'[j].from
  <2>1. i \in 1..n /\ renewals'[i] = renewals[i]
    BY <1>1, <1>3, <1>7
  <2>2. CASE j = n + 1
    BY <1>3, <1>6, <1>7, <2>1, <2>2
  <2>3. CASE j \in 1..n
    BY <1>3, <1>7, <2>1, <2>3 DEF PaidPeriodsChain
  <2>4. QED
    BY <1>1, <2>2, <2>3
<1>8. ASSUME NEW k \in Licenses, NEW i \in 1..(n + 1), renewals'[i].license = k
      PROVE  renewals'[i].to <= expiry'[k]
  <2>1. CASE i = n + 1
    BY <1>3, <1>5, <1>8, <2>1
  <2>2. CASE i \in 1..n
    <3>1. renewals[i].license = k /\ renewals'[i].to = renewals[i].to
      BY <1>3, <1>8, <2>2
    <3>2. renewals[i].to <= expiry[k]
      BY <3>1, <2>2 DEF PaidPeriodsChain
    <3>3. QED
      BY <1>5, <1>6, <2>2, <3>1, <3>2
  <2>3. QED
    BY <1>1, <2>1, <2>2
<1>9. QED
  BY <1>3, <1>7, <1>8 DEF PaidPeriodsChain

LEMMA ChainStep == SerialInv /\ [Next]_vars => PaidPeriodsChain'
<1> SUFFICES ASSUME SerialInv, [Next]_vars PROVE PaidPeriodsChain'
  OBVIOUS
<1> USE DEF paymentVars, licenseVars
<1>0. TypeOK /\ PaidPeriodsChain
  BY DEF SerialInv
<1>u. ASSUME UNCHANGED <<expiry, renewals>> PROVE PaidPeriodsChain'
  BY <1>0, <1>u DEF PaidPeriodsChain
<1>w. ASSUME NEW w \in Workers, Serve(w) PROVE PaidPeriodsChain'
  <2>0. /\ UpToDate(w) /\ wk[w].start \in Int
        /\ wk[w].at = "renew" => wk[w].l \in Licenses
    BY Serving
  <2>1. ASSUME NEW m \in 1..MaxMonths, ApplyCommit(w, m) PROVE PaidPeriodsChain'
    <3> DEFINE r == wk[w].r
    <3>0. m \in Nat
      BY ConstantsAssumption
    <3>1. CASE req[r].purpose = "renewal"
      <4>1. req[r].license \in Licenses /\ expiry[req[r].license] <= wk[w].start
        BY <2>0, <2>1, <3>1 DEF ApplyCommit, UpToDate
      <4>2. Extend(req[r].license, wk[w].start, m)
        BY <2>1, <3>1 DEF ApplyCommit
      <4>3. QED
        BY <1>0, <2>0, <3>0, <4>1, <4>2, ExtendChains
    <3>2. CASE req[r].purpose # "renewal"
      BY <1>u, <2>1, <3>2 DEF ApplyCommit
    <3>3. QED
      BY <3>1, <3>2
  <2>2. ASSUME NEW m \in 1..MaxMonths, RenewCommit(w, m) PROVE PaidPeriodsChain'
    <3>0. m \in Nat
      BY ConstantsAssumption
    <3>1. wk[w].l \in Licenses /\ expiry[wk[w].l] <= wk[w].start
      BY <2>0, <2>2 DEF RenewCommit, UpToDate
    <3>2. Extend(wk[w].l, wk[w].start, m)
      BY <2>2 DEF RenewCommit
    <3>3. QED
      BY <1>0, <2>0, <3>0, <3>1, <3>2, ExtendChains
  <2>3. CASE UNCHANGED <<expiry, renewals>>
    BY <1>u, <2>3
  <2>4. QED
    BY <1>w, <2>1, <2>2, <2>3
    DEF Serve, CreateRequest, CreateOrder, SubmitRead, SubmitExpired, SubmitRefused,
        SubmitProof, StoreReceipt, RejectReceipt, ApproveRead, ReviewRead, ApproveCommit,
        ApproveOrder, RejectRead, RejectCommit, ReviewStale, ApplyStart, ApplyRefused,
        ApplyRead, ApplyFailed, ApplyLicense, RenewRead, ExpireRead, ExpireCommit, Crash
<1>o. CASE \/ Tick \/ UNCHANGED vars
           \/ \E q \in Requests : TtlLapses(q) \/ OperatorReadiesOrder(q)
  BY <1>u, <1>o DEF Tick, TtlLapses, OperatorReadiesOrder, vars
<1>q. QED
  BY <1>w, <1>o DEF Next

-----------------------------------------------------------------------------
(* What a handler has read *)

\* Only the worker that takes a step serves a request after it.
LEMMA OthersIdle ==
  ASSUME TypeOK, Serial, Serial', NEW w \in Workers, NEW act, Goto(w, act),
         ~IsIdle(w) \/ act.at # "idle"
  PROVE  wk'[w] = act /\ \A v \in Workers : v # w => wk'[v].at = "idle"
<1>1. wk'[w] = act /\ \A v \in Workers : v # w => wk'[v] = wk[v]
  BY DEF TypeOK, Goto
<1>2. QED
  BY <1>1 DEF Serial, IsIdle

LEMMA IdleIsUpToDate ==
  ASSUME NEW v \in Workers, wk'[v].at \in {"idle", "create", "apply"}
  PROVE  UpToDate(v)'
  BY DEF UpToDate

\* A handler that ends, or goes on to one of the handlers that start by
\* reading, leaves nothing stale behind.
LEMMA FreshStart ==
  ASSUME TypeOK, Serial, Serial', NEW w \in Workers, NEW act, Goto(w, act),
         ~IsIdle(w) \/ act.at # "idle",
         act.at \in {"idle", "create", "apply"}
  PROVE  \A v \in Workers : UpToDate(v)'
<1>1. wk'[w] = act /\ \A v \in Workers : v # w => wk'[v].at = "idle"
  BY OthersIdle
<1>2. \A v \in Workers : wk'[v].at \in {"idle", "create", "apply"}
  BY <1>1
<1>3. QED
  BY <1>2, IdleIsUpToDate

LEMMA DoneIsFresh ==
  ASSUME TypeOK, Serial, Serial', NEW w \in Workers, Done(w), ~IsIdle(w)
  PROVE  \A v \in Workers : UpToDate(v)'
  BY FreshStart DEF Done, Idle

LEMMA ApprovalIsFresh ==
  ASSUME TypeOK, Serial, Serial', NEW w \in Workers, AfterApproval(w), ~IsIdle(w)
  PROVE  \A v \in Workers : UpToDate(v)'
<1>1. CASE wk[w].flag
  <2>1. Goto(w, [Idle EXCEPT !.at = "apply", !.r = wk[w].r, !.flag = TRUE])
    BY <1>1 DEF AfterApproval
  <2>2. [Idle EXCEPT !.at = "apply", !.r = wk[w].r, !.flag = TRUE].at = "apply"
    BY DEF Idle
  <2>3. QED
    BY <2>1, <2>2, FreshStart
<1>2. CASE ~wk[w].flag
  BY <1>2, DoneIsFresh DEF AfterApproval
<1>3. QED
  BY <1>1, <1>2

\* The acting worker is up to date and all others are idle.
LEMMA AloneIsEnough ==
  ASSUME TypeOK, Serial, Serial', NEW w \in Workers, NEW act, Goto(w, act),
         ~IsIdle(w) \/ act.at # "idle",
         wk'[w] = act => UpToDate(w)'
  PROVE  \A v \in Workers : UpToDate(v)'
<1>1. wk'[w] = act /\ \A v \in Workers : v # w => wk'[v].at = "idle"
  BY OthersIdle
<1>2. QED
  BY <1>1, IdleIsUpToDate

LEMMA SeesStep ==
  SerialInv /\ Serial /\ Serial' /\ [Next]_vars => \A v \in Workers : UpToDate(v)'
<1> SUFFICES ASSUME SerialInv, Serial, Serial', [Next]_vars
             PROVE  \A v \in Workers : UpToDate(v)'
  OBVIOUS
<1> USE DEF paymentVars, licenseVars
<1>0. TypeOK
  BY DEF SerialInv
<1>w. ASSUME NEW w \in Workers, Serve(w) PROVE \A v \in Workers : UpToDate(v)'
  <2> DEFINE r == wk[w].r
  <2>0. /\ UpToDate(w) /\ wk[w] \in Activity
        /\ wk[w].at \in RequestSteps => r \in Requests
    BY Serving DEF TypeOK
  <2>1. CASE \/ CreateOrder(w) \/ SubmitExpired(w) \/ SubmitRefused(w) \/ StoreReceipt(w)
             \/ RejectReceipt(w) \/ RejectCommit(w) \/ ReviewStale(w) \/ ApplyRefused(w)
             \/ ApplyFailed(w) \/ ExpireCommit(w) \/ Crash(w)
             \/ \E m \in 1..MaxMonths : ApplyCommit(w, m) \/ RenewCommit(w, m)
    <3>1. Done(w) /\ ~IsIdle(w)
      BY <2>1 DEF CreateOrder, SubmitExpired, SubmitRefused, StoreReceipt, RejectReceipt,
                  RejectCommit, ReviewStale, ApplyRefused, ApplyFailed, ExpireCommit, Crash,
                  ApplyCommit, RenewCommit, IsIdle
    <3>2. QED
      BY <1>0, <3>1, DoneIsFresh
  <2>2. ASSUME NEW q \in Requests, NEW p \in Purposes, NEW l \in Licenses \cup {NoLicense},
               CreateRequest(w, q, p, l)
        PROVE  \A v \in Workers : UpToDate(v)'
    <3> DEFINE act == [Idle EXCEPT !.at = "create", !.r = q]
    <3>1. Goto(w, act) /\ act.at = "create"
      BY <2>2 DEF CreateRequest, Idle
    <3>2. QED
      BY <1>0, <3>1, FreshStart
  <2>3. ASSUME NEW q \in Requests, ApplyStart(w, q)
        PROVE  \A v \in Workers : UpToDate(v)'
    <3> DEFINE act == [Idle EXCEPT !.at = "apply", !.r = q]
    <3>1. Goto(w, act) /\ act.at = "apply"
      BY <2>3 DEF ApplyStart, Idle
    <3>2. QED
      BY <1>0, <3>1, FreshStart
  <2>4. ASSUME NEW q \in Requests, NEW image \in BOOLEAN, SubmitRead(w, q, image)
        PROVE  \A v \in Workers : UpToDate(v)'
    <3> DEFINE act == [Idle EXCEPT !.at = "submit", !.r = q, !.flag = image,
                                   !.seen = req[q].status]
    <3>1. /\ Goto(w, act) /\ act.at = "submit" /\ act.r = q /\ act.seen = req[q].status
          /\ UNCHANGED req
      BY <2>4 DEF SubmitRead, Idle
    <3>2. req[q].status \in {"pending", "proof_submitted"}
      BY <1>0, <2>4 DEF SubmitRead, Known, BlockedSubmission, TypeOK, Request, Statuses
    <3>3. wk'[w] = act => UpToDate(w)'
      BY <3>1, <3>2 DEF UpToDate
    <3>4. QED
      BY <1>0, <3>1, <3>3, AloneIsEnough
  <2>5. ASSUME NEW q \in Requests, NEW step \in {"approve", "reject"}, NEW credit \in BOOLEAN,
               ReviewRead(w, q, step, credit)
        PROVE  \A v \in Workers : UpToDate(v)'
    <3>1. PICK i \in ProofIds :
             Goto(w, [Idle EXCEPT !.at = step, !.r = q, !.flag = credit, !.proof = i])
      BY <2>5 DEF ReviewRead
    <3> DEFINE act == [Idle EXCEPT !.at = step, !.r = q, !.flag = credit, !.proof = i]
    <3>2. act.at = step /\ act.r = q
      BY DEF Idle
    <3>3. req[q].status = "proof_submitted" /\ UNCHANGED req
      BY <2>5 DEF ReviewRead, Reviewable
    <3>4. wk'[w] = act => UpToDate(w)'
      BY <3>2, <3>3 DEF UpToDate
    <3>5. QED
      BY <1>0, <3>1, <3>2, <3>4, AloneIsEnough
  <2>6. CASE SubmitProof(w)
    <3>1. r \in Requests /\ ~IsIdle(w)
      BY <2>0, <2>6 DEF SubmitProof, RequestSteps, Steps, IsIdle
    <3>2. req'[r].status = "proof_submitted"
      BY <1>0, <2>6, <3>1 DEF SubmitProof, TypeOK, Request
    <3>3. PICK id \in ProofIds :
             IF wk[w].flag THEN Goto(w, [Idle EXCEPT !.at = "receipt", !.r = r, !.proof = id])
                           ELSE Done(w)
      BY <2>6 DEF SubmitProof
    <3>4. CASE wk[w].flag
      <4> DEFINE act == [Idle EXCEPT !.at = "receipt", !.r = r, !.proof = id]
      <4>1. Goto(w, act) /\ act.at = "receipt" /\ act.r = r
        BY <3>3, <3>4 DEF Idle
      <4>2. wk'[w] = act => UpToDate(w)'
        BY <3>2, <4>1 DEF UpToDate
      <4>3. QED
        BY <1>0, <4>1, <4>2, AloneIsEnough
    <3>5. CASE ~wk[w].flag
      BY <1>0, <3>1, <3>3, <3>5, DoneIsFresh
    <3>6. QED
      BY <3>4, <3>5
  <2>7. CASE ApproveCommit(w)
    <3>1. r \in Requests /\ ~IsIdle(w)
      BY <2>0, <2>7 DEF ApproveCommit, RequestSteps, Steps, IsIdle
    <3>2. CASE order[r] = "none"
      <4> DEFINE act == [wk[w] EXCEPT !.at = "approve_order"]
      <4>1. Goto(w, act) /\ act.at = "approve_order" /\ act.r = r
        BY <2>0, <2>7, <3>2 DEF ApproveCommit, Goto, Activity
      <4>2. req'[r].status = "paid"
        BY <1>0, <2>7, <3>1 DEF ApproveCommit, TypeOK, Request
      <4>3. wk'[w] = act => UpToDate(w)'
        BY <4>1, <4>2 DEF UpToDate
      <4>4. QED
        BY <1>0, <4>1, <4>3, AloneIsEnough
    <3>3. CASE order[r] # "none"
      BY <1>0, <2>7, <3>1, <3>3, ApprovalIsFresh DEF ApproveCommit
    <3>4. QED
      BY <3>2, <3>3
  <2>8. CASE ApproveOrder(w)
    BY <1>0, <2>8, ApprovalIsFresh DEF ApproveOrder, IsIdle
  <2>9. CASE ApplyRead(w)
    <3> DEFINE act == [wk[w] EXCEPT !.at = "apply_license"]
    <3>1. Goto(w, act) /\ act.at = "apply_license" /\ act.r = r
      BY <2>0, <2>9 DEF ApplyRead, Goto, Activity
    <3>2. req[r].status = "paid" /\ ~req[r].applied /\ UNCHANGED req
      BY <2>9 DEF ApplyRead
    <3>3. wk'[w] = act => UpToDate(w)'
      BY <3>1, <3>2 DEF UpToDate
    <3>4. QED
      BY <1>0, <3>1, <3>3, AloneIsEnough
  <2>10. CASE ApplyLicense(w)
    <3>1. r \in Requests
      BY <2>0, <2>10 DEF ApplyLicense, RequestSteps, Steps
    <3> DEFINE act == [wk[w] EXCEPT !.at = "credit",
                        !.start = IF req[r].purpose = "renewal" THEN StartOf(req[r].license) ELSE 0]
    <3>2. /\ Goto(w, act) /\ act.at = "credit" /\ act.r = r
          /\ req[r].purpose = "renewal" => act.start = StartOf(req[r].license)
      BY <2>0, <2>10 DEF ApplyLicense, Activity
    <3>3. req[r].status = "paid" /\ ~req[r].applied /\ UNCHANGED <<req, expiry>>
      BY <2>0, <2>10 DEF ApplyLicense, UpToDate
    <3>4. ASSUME req[r].purpose = "renewal"
          PROVE  req[r].license \in Licenses /\ expiry[req[r].license] <= StartOf(req[r].license)
      <4>1. req[r].license \in Licenses
        BY <1>0, <2>10, <3>1, <3>4 DEF ApplyLicense, Applicable, TypeOK, Request
      <4>2. QED
        BY <1>0, <4>1 DEF StartOf, TypeOK
    <3>5. wk'[w] = act => UpToDate(w)'
      BY <3>2, <3>3, <3>4 DEF UpToDate
    <3>6. QED
      BY <1>0, <3>2, <3>5, AloneIsEnough
  <2>11. ASSUME NEW l \in Licenses, RenewRead(w, l)
         PROVE  \A v \in Workers : UpToDate(v)'
    <3> DEFINE act == [Idle EXCEPT !.at = "renew", !.l = l, !.start = StartOf(l)]
    <3>1. Goto(w, act) /\ act.at = "renew" /\ act.l = l /\ act.start = StartOf(l)
      BY <2>11 DEF RenewRead, Idle
    <3>2. expiry[l] <= StartOf(l) /\ UNCHANGED expiry
      BY <1>0, <2>11 DEF RenewRead, StartOf, TypeOK
    <3>3. wk'[w] = act => UpToDate(w)'
      BY <3>1, <3>2 DEF UpToDate
    <3>4. QED
      BY <1>0, <3>1, <3>3, AloneIsEnough
  <2>12. CASE ExpireRead(w)
    <3> DEFINE batch == {q \in due : req[q].status = "pending"}
    <3> DEFINE act == [Idle EXCEPT !.at = "expire", !.batch = batch]
    <3>1. Goto(w, act) /\ act.at = "expire" /\ act.batch = batch /\ UNCHANGED req
      BY <2>12 DEF ExpireRead, Idle
    <3>2. wk'[w] = act => UpToDate(w)'
      BY <3>1 DEF UpToDate
    <3>3. QED
      BY <1>0, <3>1, <3>2, AloneIsEnough
  <2>13. QED
    BY <1>w, <2>1, <2>2, <2>3, <2>4, <2>5, <2>6, <2>7, <2>8, <2>9, <2>10, <2>11, <2>12
    DEF Serve, ApproveRead, RejectRead
<1>o. CASE \/ Tick \/ UNCHANGED vars
           \/ \E q \in Requests : TtlLapses(q) \/ OperatorReadiesOrder(q)
  <2>1. UNCHANGED <<req, expiry, wk>>
    BY <1>o DEF Tick, TtlLapses, OperatorReadiesOrder, vars
  <2>2. \A v \in Workers : UpToDate(v)
    BY DEF SerialInv
  <2>3. QED
    BY <2>1, <2>2 DEF UpToDate
<1>q. QED
  BY <1>w, <1>o DEF Next

LEMMA SerialStep == SerialInv /\ Serial /\ Serial' /\ [Next]_vars => SerialInv'
<1> SUFFICES ASSUME SerialInv, Serial, Serial', [Next]_vars PROVE SerialInv'
  OBVIOUS
<1>1. TypeOK'
  BY NextType DEF SerialInv
<1>2. RowsAgree' /\ CreditedOnce' /\ PaidPeriodsChain'
  BY RowsStep, ChainStep
<1>3. \A v \in Workers : UpToDate(v)'
  BY SeesStep
<1>4. QED
  BY <1>1, <1>2, <1>3 DEF SerialInv

\* Whatever the rows have gone through, serial handlers keep SerialInv.
LEMMA SerialAlways == Spec /\ []Serial => []SerialInv
  BY SerialInit, SerialStep, PTL DEF Spec

\* Serial handlers give every paid request its effect once and no other request
\* any, over retries and crashes.
THEOREM SerialCreditsOnce == Spec /\ []Serial => []CreditedOnce
<1>1. SerialInv => CreditedOnce
  BY DEF SerialInv
<1>2. QED
  BY <1>1, SerialAlways, PTL

\* Serial handlers neither lose nor double paid time: the periods of a license
\* follow one another and it expires with the last.
THEOREM SerialPeriodsChain == Spec /\ []Serial => []PaidPeriodsChain
<1>1. SerialInv => PaidPeriodsChain
  BY DEF SerialInv
<1>2. QED
  BY <1>1, SerialAlways, PTL

\* A request that serial handlers refused, expired or put back has no
\* transaction, and its order is in nobody's queue.
THEOREM SerialRefusesCleanly == Spec /\ []Serial => []RefusedLeavesNoMoney
<1>1. SerialInv => RefusedLeavesNoMoney
  BY DEF SerialInv, RowsAgree, Unsettled, RefusedLeavesNoMoney
<1>2. QED
  BY <1>1, SerialAlways, PTL

-----------------------------------------------------------------------------
(* Serial handlers implement the ledger *)

LEMMA StageOfRow ==
  ASSUME NEW row \in Request
  PROVE  /\ row.status = "none" => Stage(row) = "absent"
         /\ row.status = "pending" => Stage(row) = "open"
         /\ row.status = "proof_submitted" => Stage(row) = "review"
         /\ row.status = "paid" /\ ~row.applied => Stage(row) = "settled"
         /\ row.status = "paid" /\ row.applied => Stage(row) = "credited"
         /\ row.status \in {"rejected", "expired"} => Stage(row) = "closed"
  BY DEF Stage

\* A write to one row moves that payment and no other.
LEMMA RowMoves ==
  ASSUME TypeOK, NEW r \in Requests, NEW row, req' = [req EXCEPT ![r] = row]
  PROVE  /\ StageOf[r] = Stage(req[r])
         /\ StageOf' = [StageOf EXCEPT ![r] = Stage(row)]
  BY DEF TypeOK, StageOf

LEMMA StatusMoves ==
  ASSUME TypeOK, NEW r \in Requests, NEW s \in Statuses, req' = [req EXCEPT ![r].status = s],
         ~req[r].applied
  PROVE  /\ StageOf[r] = Stage(req[r])
         /\ s = "pending" => StageOf' = [StageOf EXCEPT ![r] = "open"]
         /\ s = "proof_submitted" => StageOf' = [StageOf EXCEPT ![r] = "review"]
         /\ s = "paid" => StageOf' = [StageOf EXCEPT ![r] = "settled"]
         /\ s \in {"rejected", "expired"} => StageOf' = [StageOf EXCEPT ![r] = "closed"]
<1> DEFINE row == [req[r] EXCEPT !.status = s]
<1>1. row \in Request /\ row.status = s /\ ~row.applied
  BY DEF TypeOK, Request
<1>2. StageOf[r] = Stage(req[r]) /\ StageOf' = [StageOf EXCEPT ![r] = Stage(row)]
  BY RowMoves
<1>3. QED
  BY <1>1, <1>2, StageOfRow

\* One payment is closed.
LEMMA ClosesOne ==
  ASSUME NEW r \in Requests, StageOf[r] \in {"open", "review"},
         StageOf' = [StageOf EXCEPT ![r] = "closed"], UNCHANGED expiry
  PROVE  Ledger!Next
<1>1. StageOf' = [p \in Requests |-> IF p \in {r} THEN "closed" ELSE StageOf[p]]
  BY DEF StageOf
<1>2. Ledger!Close({r})
  BY <1>1 DEF Ledger!Close
<1>3. QED
  BY <1>2 DEF Ledger!Next

\* An extension from the expiry or later is a gain.
LEMMA ExtendGains ==
  ASSUME TypeOK, NEW l \in Licenses, NEW start \in Int, NEW m \in Nat \ {0},
         expiry[l] <= start, Extend(l, start, m)
  PROVE  Ledger!Gain(l)
<1>1. expiry[l] \in Int /\ expiry'[l] = start + m /\ expiry' = [expiry EXCEPT ![l] = start + m]
  BY DEF TypeOK, Extend
<1>2. expiry'[l] \in Int /\ expiry'[l] > expiry[l]
  BY <1>1
<1>3. QED
  BY <1>1, <1>2 DEF Ledger!Gain

LEMMA LedgerInit == Init => Ledger!Init
  BY DEF Init, Ledger!Init, StageOf, Stage, NoRow

LEMMA LedgerStep == SerialInv /\ [Next]_vars => [Ledger!Next]_<<StageOf, expiry>>
<1> SUFFICES ASSUME SerialInv, [Next]_vars PROVE [Ledger!Next]_<<StageOf, expiry>>
  OBVIOUS
<1> USE DEF paymentVars, licenseVars
<1>0. TypeOK /\ RowsAgree
  BY DEF SerialInv
<1>r. \A q \in Requests : /\ req[q] \in Request /\ StageOf[q] = Stage(req[q])
                          /\ req[q].status # "paid" => ~req[q].applied
  BY <1>0 DEF TypeOK, StageOf, RowsAgree, Unsettled
<1>u. ASSUME UNCHANGED <<req, expiry>> PROVE [Ledger!Next]_<<StageOf, expiry>>
  BY <1>u DEF StageOf
<1>w. ASSUME NEW w \in Workers, Serve(w) PROVE [Ledger!Next]_<<StageOf, expiry>>
  <2> DEFINE r == wk[w].r
  <2>0. /\ UpToDate(w) /\ wk[w].start \in Int /\ wk[w].batch \subseteq Requests
        /\ wk[w].at \in RequestSteps => r \in Requests
        /\ wk[w].at = "renew" => wk[w].l \in Licenses
    BY Serving
  <2>1. ASSUME NEW q \in Requests, NEW p \in Purposes, NEW l \in Licenses \cup {NoLicense},
               CreateRequest(w, q, p, l)
        PROVE  Ledger!Next
    <3> DEFINE row == [status |-> "pending", purpose |-> p, license |-> l, applied |-> FALSE]
    <3>1. row \in Request /\ row.status = "pending"
      BY DEF Request, Statuses
    <3>2. StageOf[q] = "absent" /\ StageOf' = [StageOf EXCEPT ![q] = "open"]
      <4>1. req' = [req EXCEPT ![q] = row]
        BY <2>1 DEF CreateRequest
      <4>2. StageOf' = [StageOf EXCEPT ![q] = Stage(row)]
        BY <1>0, <4>1, RowMoves
      <4>3. QED
        BY <1>r, <2>1, <3>1, <4>2, StageOfRow DEF CreateRequest
    <3>3. Ledger!Open(q)
      BY <2>1, <3>2 DEF CreateRequest, Ledger!Open, Ledger!Move
    <3>4. QED
      BY <3>3 DEF Ledger!Next
  <2>2. CASE SubmitProof(w)
    <3>1. r \in Requests /\ req[r].status = "pending"
      BY <2>0, <2>2 DEF SubmitProof, UpToDate, RequestSteps, Steps
    <3>2. StageOf[r] = "open" /\ StageOf' = [StageOf EXCEPT ![r] = "review"]
      BY <1>0, <1>r, <2>2, <3>1, StatusMoves, StageOfRow DEF SubmitProof, Statuses
    <3>3. Ledger!Lodge(r)
      BY <2>2, <3>2 DEF SubmitProof, Ledger!Lodge, Ledger!Move
    <3>4. QED
      BY <3>1, <3>3 DEF Ledger!Next
  <2>3. CASE SubmitExpired(w)
    <3>1. r \in Requests /\ req[r].status \in {"pending", "proof_submitted"}
      BY <2>0, <2>3 DEF SubmitExpired, UpToDate, RequestSteps, Steps
    <3>2. StageOf[r] \in {"open", "review"} /\ StageOf' = [StageOf EXCEPT ![r] = "closed"]
      BY <1>0, <1>r, <2>3, <3>1, StatusMoves, StageOfRow DEF SubmitExpired, Statuses
    <3>3. QED
      BY <2>3, <3>1, <3>2, ClosesOne DEF SubmitExpired
  <2>4. CASE RejectCommit(w)
    <3>1. r \in Requests /\ req[r].status = "proof_submitted"
      BY <2>0, <2>4 DEF RejectCommit, UpToDate, RequestSteps, Steps
    <3>2. StageOf[r] \in {"open", "review"} /\ StageOf' = [StageOf EXCEPT ![r] = "closed"]
      BY <1>0, <1>r, <2>4, <3>1, StatusMoves, StageOfRow DEF RejectCommit, Statuses
    <3>3. QED
      BY <2>4, <3>1, <3>2, ClosesOne DEF RejectCommit
  <2>5. CASE RejectReceipt(w)
    <3>1. r \in Requests /\ req[r].status = "proof_submitted"
      BY <2>0, <2>5 DEF RejectReceipt, UpToDate, RequestSteps, Steps
    <3>2. StageOf[r] = "review" /\ StageOf' = [StageOf EXCEPT ![r] = "open"]
      BY <1>0, <1>r, <2>5, <3>1, StatusMoves, StageOfRow DEF RejectReceipt, Statuses
    <3>3. Ledger!Reopen(r)
      BY <2>5, <3>2 DEF RejectReceipt, Ledger!Reopen, Ledger!Move
    <3>4. QED
      BY <3>1, <3>3 DEF Ledger!Next
  <2>6. CASE ApproveCommit(w)
    <3>1. r \in Requests /\ req[r].status = "proof_submitted"
      BY <2>0, <2>6 DEF ApproveCommit, UpToDate, RequestSteps, Steps
    <3>2. StageOf[r] = "review" /\ StageOf' = [StageOf EXCEPT ![r] = "settled"]
      BY <1>0, <1>r, <2>6, <3>1, StatusMoves, StageOfRow DEF ApproveCommit, Statuses
    <3>3. Ledger!Settle(r)
      BY <2>6, <3>2 DEF ApproveCommit, Ledger!Settle, Ledger!Move
    <3>4. QED
      BY <3>1, <3>3 DEF Ledger!Next
  <2>7. ASSUME NEW m \in 1..MaxMonths, ApplyCommit(w, m) PROVE Ledger!Next
    <3>0. m \in Nat \ {0}
      BY ConstantsAssumption
    <3>1. r \in Requests /\ req[r].status = "paid" /\ ~req[r].applied
      BY <2>0, <2>7 DEF ApplyCommit, UpToDate, RequestSteps, Steps
    <3> DEFINE row == [req[r] EXCEPT !.applied = TRUE]
    <3>2. row \in Request /\ row.status = "paid" /\ row.applied
      <4>1. req[r] \in Request
        BY <1>r, <3>1
      <4>2. QED
        BY <3>1, <4>1 DEF Request
    <3>3. StageOf[r] = "settled" /\ StageOf' = [StageOf EXCEPT ![r] = "credited"]
      <4>1. req' = [req EXCEPT ![r] = row]
        BY <2>7 DEF ApplyCommit
      <4>2. StageOf' = [StageOf EXCEPT ![r] = Stage(row)]
        BY <1>0, <3>1, <4>1, RowMoves
      <4>3. QED
        BY <1>r, <3>1, <3>2, <4>2, StageOfRow
    <3>4. (\E l \in Licenses : Ledger!Gain(l)) \/ UNCHANGED expiry
      <4>1. CASE req[r].purpose = "renewal"
        <5>1. req[r].license \in Licenses /\ expiry[req[r].license] <= wk[w].start
          BY <2>0, <2>7, <4>1 DEF ApplyCommit, UpToDate
        <5>2. Extend(req[r].license, wk[w].start, m)
          BY <2>7, <4>1 DEF ApplyCommit
        <5>3. QED
          BY <1>0, <2>0, <3>0, <5>1, <5>2, ExtendGains
      <4>2. CASE req[r].purpose # "renewal"
        BY <2>7, <4>2 DEF ApplyCommit
      <4>3. QED
        BY <4>1, <4>2
    <3>5. Ledger!Credit(r)
      BY <3>3, <3>4 DEF Ledger!Credit, Ledger!Move
    <3>6. QED
      BY <3>1, <3>5 DEF Ledger!Next
  <2>8. ASSUME NEW m \in 1..MaxMonths, RenewCommit(w, m) PROVE Ledger!Next
    <3>0. m \in Nat \ {0}
      BY ConstantsAssumption
    <3>1. wk[w].l \in Licenses /\ expiry[wk[w].l] <= wk[w].start
      BY <2>0, <2>8 DEF RenewCommit, UpToDate
    <3>2. Extend(wk[w].l, wk[w].start, m) /\ UNCHANGED req
      BY <2>8 DEF RenewCommit
    <3>3. Ledger!Renew(wk[w].l)
      BY <1>0, <2>0, <3>0, <3>1, <3>2, ExtendGains DEF Ledger!Renew, StageOf
    <3>4. QED
      BY <3>1, <3>3 DEF Ledger!Next
  <2>9. CASE ExpireCommit(w)
    <3> DEFINE batch == wk[w].batch
    <3>1. \A q \in batch : q \in Requests /\ req[q].status = "pending"
      BY <2>0, <2>9 DEF ExpireCommit, UpToDate
    <3>2. \A q \in batch : StageOf[q] = "open"
      BY <1>r, <3>1, StageOfRow
    <3>3. \A q \in Requests : Stage(req'[q]) = IF q \in batch THEN "closed" ELSE StageOf[q]
      <4>1. ASSUME NEW q \in batch PROVE Stage(req'[q]) = "closed"
        <5> DEFINE row == [req[q] EXCEPT !.status = "expired"]
        <5>1. row \in Request /\ row.status = "expired"
          BY <1>r, <3>1 DEF Request, Statuses
        <5>2. req'[q] = row
          BY <2>9, <3>1 DEF ExpireCommit
        <5>3. QED
          BY <5>1, <5>2, StageOfRow
      <4>2. ASSUME NEW q \in Requests, q \notin batch PROVE Stage(req'[q]) = StageOf[q]
        BY <1>r, <2>9, <4>2 DEF ExpireCommit
      <4>3. QED
        BY <4>1, <4>2
    <3>4. StageOf' = [q \in Requests |-> IF q \in batch THEN "closed" ELSE StageOf[q]]
      BY <3>3 DEF StageOf
    <3>5. Ledger!Close(batch)
      BY <2>9, <3>2, <3>4 DEF ExpireCommit, Ledger!Close
    <3>6. QED
      BY <2>0, <3>5 DEF Ledger!Next
  <2>10. CASE UNCHANGED <<req, expiry>>
    BY <1>u, <2>10
  <2>11. QED
    BY <1>w, <2>1, <2>2, <2>3, <2>4, <2>5, <2>6, <2>7, <2>8, <2>9, <2>10
    DEF Serve, CreateOrder, SubmitRead, SubmitRefused, StoreReceipt, ApproveRead, ReviewRead,
        ApproveOrder, RejectRead, ReviewStale, ApplyStart, ApplyRefused, ApplyRead,
        ApplyFailed, ApplyLicense, RenewRead, ExpireRead, Crash
<1>o. CASE \/ Tick \/ UNCHANGED vars
           \/ \E q \in Requests : TtlLapses(q) \/ OperatorReadiesOrder(q)
  BY <1>u, <1>o DEF Tick, TtlLapses, OperatorReadiesOrder, vars
<1>q. QED
  BY <1>w, <1>o DEF Next

\* Serial handlers implement the ledger: one decision per payment, which no late
\* proof, sweep or failed receipt overturns, one credit per settled payment, and
\* licenses that only gain paid time.
THEOREM SerialImplementsLedger == Spec /\ []Serial => ImplementsLedger
  BY LedgerInit, LedgerStep, SerialAlways, PTL DEF Spec, ImplementsLedger, Ledger!Spec

\* The program with one web worker, crashes between commits included, needs no
\* other assumption.
THEOREM OneWorkerKeepsPromises ==
  ASSUME \A v, w \in Workers : v = w
  PROVE  Spec => /\ ImplementsLedger
                 /\ [](CreditedOnce /\ PaidPeriodsChain /\ RefusedLeavesNoMoney)
<1>1. Serial
  BY OneWorkerIsSerial
<1>2. QED
  BY <1>1, SerialImplementsLedger, SerialCreditsOnce, SerialPeriodsChain,
     SerialRefusesCleanly, PTL
=============================================================================
