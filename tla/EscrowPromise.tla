---------------------------- MODULE EscrowPromise ---------------------------
(***************************************************************************)
(* What the escrow promises to the parties of a task, without wallets'     *)
(* escrow columns, transactions or applications.  A requester is charged   *)
(* once for a task.  What is held is then either paid to somebody else,    *)
(* less the fee of the amount, or returned in full, and that settles it.   *)
(* The payment never happens twice.  What was settled is held again, so    *)
(* that it can be returned once more, or paid after it was returned, only  *)
(* when the status of the task is overwritten.                             *)
(***************************************************************************)
EXTENDS Integers

CONSTANTS Users, Tasks, Prices, PlatformFee, NoUser

VARIABLES
    purse,      \* money that each user can spend
    deal        \* what has been done with the money of each task

NoDeal == [state |-> "none", payer |-> NoUser, amount |-> 0,
           paid |-> FALSE, returned |-> FALSE, overwritten |-> FALSE]

Init ==
    /\ purse = [u \in Users |-> 0]
    /\ deal = [t \in Tasks |-> NoDeal]

(* Money enters or leaves one purse from or to the outside.                *)
Transfer(u) ==
    /\ purse'[u] \in Nat
    /\ purse' = [purse EXCEPT ![u] = purse'[u]]
    /\ UNCHANGED deal

Charge(t, u, price) ==
    /\ deal[t] = NoDeal
    /\ purse[u] >= price
    /\ purse' = [purse EXCEPT ![u] = @ - price]
    /\ deal' = [deal EXCEPT ![t].state = "held", ![t].payer = u,
                            ![t].amount = price]

Pay(t, payee) ==
    /\ deal[t].state = "held" /\ ~deal[t].paid
    /\ payee # deal[t].payer
    /\ purse' = [purse EXCEPT ![payee] =
                    @ + deal[t].amount - PlatformFee[deal[t].amount]]
    /\ deal' = [deal EXCEPT ![t].state = "settled", ![t].paid = TRUE]

Return(t) ==
    /\ deal[t].state = "held"
    /\ purse' = [purse EXCEPT ![deal[t].payer] = @ + deal[t].amount]
    /\ deal' = [deal EXCEPT ![t].state = "settled", ![t].returned = TRUE]

(* The status of the task is overwritten, and what was settled is held     *)
(* again; or, later, what was settled before is settled again.             *)
Overwrite(t) ==
    /\ deal[t] # NoDeal
    /\ \E state \in {"held", "settled"} :
          /\ state = "settled" => deal[t].paid \/ deal[t].returned
          /\ deal' = [deal EXCEPT ![t].state = state, ![t].overwritten = TRUE]
    /\ UNCHANGED purse

Next ==
    \/ \E u \in Users : Transfer(u)
    \/ \E t \in Tasks, u \in Users :
          Pay(t, u) \/ \E price \in Prices : Charge(t, u, price)
    \/ \E t \in Tasks : Return(t) \/ Overwrite(t)

Spec == Init /\ [][Next]_<<purse, deal>>
=============================================================================
