---------------------------- MODULE PaymentLedger ----------------------------
(***************************************************************************)
(* What the payment workflow promises, without handlers, proofs or orders:  *)
(* a payment is opened, waits for a review, is settled by one decision and  *)
(* is credited to a license at most once; licenses only gain paid time.     *)
(* LicensePayments implements this when its handlers are serial.            *)
(***************************************************************************)
EXTENDS Integers

CONSTANTS Payments, Licences

VARIABLES
    stage,   \* how far each payment has come
    until    \* when each license expires

Stages == {"absent", "open", "review", "settled", "credited", "closed"}

Init == /\ stage = [p \in Payments |-> "absent"]
        /\ until = [l \in Licences |-> 0]

Move(p, from, to) == /\ stage[p] \in from
                     /\ stage' = [stage EXCEPT ![p] = to]

\* The license gains paid time and no other license changes.
Gain(l) == /\ until'[l] \in Int /\ until'[l] > until[l]
           /\ until' = [until EXCEPT ![l] = until'[l]]

Open(p)   == Move(p, {"absent"}, "open") /\ UNCHANGED until
Lodge(p)  == Move(p, {"open"}, "review") /\ UNCHANGED until
Reopen(p) == Move(p, {"review"}, "open") /\ UNCHANGED until
Settle(p) == Move(p, {"review"}, "settled") /\ UNCHANGED until
Close(P)  == /\ \A p \in P : stage[p] \in {"open", "review"}
             /\ stage' = [p \in Payments |-> IF p \in P THEN "closed" ELSE stage[p]]
             /\ UNCHANGED until
Credit(p) == /\ Move(p, {"settled"}, "credited")
             /\ (\E l \in Licences : Gain(l)) \/ UNCHANGED until
Renew(l)  == Gain(l) /\ UNCHANGED stage

Next == \/ \E p \in Payments : \/ Open(p) \/ Lodge(p) \/ Reopen(p)
                               \/ Settle(p) \/ Credit(p)
        \/ \E P \in SUBSET Payments : Close(P)
        \/ \E l \in Licences : Renew(l)

Spec == Init /\ [][Next]_<<stage, until>>
=============================================================================
