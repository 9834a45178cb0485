-------------------------- MODULE WithdrawalPromise -------------------------
(***************************************************************************)
(* What a withdrawal promises, without requests in flight, the poller,     *)
(* payout ids or stale rows: a withdrawal keeps its user and its amount,   *)
(* and once closed is never open again. It is sent to the bank once at     *)
(* most, while it is open; its amount is taken from the user once at most, *)
(* after it was sent and only if it is there; and it comes back once at    *)
(* most, when the withdrawal is closed and the bank has returned the       *)
(* money. Purses change in no other way.                                   *)
(*                                                                         *)
(* Not promised, because the code does not keep it: that what was sent is  *)
(* taken, and that what comes back was taken before.                       *)
(***************************************************************************)
EXTENDS Integers

CONSTANTS Users, Requests, Amounts, Opening, MaxWalletBalance, NoUser

VARIABLES
    purse,      \* money that each user can spend
    claim,      \* what each withdrawal is
    bank,       \* what became of the money sent for it
    taken,      \* withdrawals taken from a purse
    returned    \* withdrawals that came back to a purse

NoClaim == [state |-> "none", user |-> NoUser, amount |-> 0]

Init ==
    /\ purse = [u \in Users |-> Opening]
    /\ claim = [i \in Requests |-> NoClaim]
    /\ bank = [i \in Requests |-> "none"]
    /\ taken = {} /\ returned = {}

Ask(i, u, amount) ==
    /\ claim[i] = NoClaim
    /\ claim' = [claim EXCEPT ![i] = [state |-> "open", user |-> u, amount |-> amount]]
    /\ UNCHANGED <<purse, bank, taken, returned>>

Send(i) ==
    /\ claim[i].state = "open" /\ bank[i] = "none"
    /\ bank' = [bank EXCEPT ![i] = "processing"]
    /\ UNCHANGED <<purse, claim, taken, returned>>

Settle(i, outcome) ==
    /\ bank[i] = "processing"
    /\ bank' = [bank EXCEPT ![i] = outcome]
    /\ UNCHANGED <<purse, claim, taken, returned>>

Take(i, u) ==
    /\ claim[i].state # "none" /\ claim[i].user = u
    /\ bank[i] # "none" /\ i \notin taken
    /\ purse[u] >= claim[i].amount
    /\ purse' = [purse EXCEPT ![u] = @ - claim[i].amount]
    /\ taken' = taken \cup {i}
    /\ UNCHANGED <<claim, bank, returned>>

Close(i) ==
    /\ claim[i].state = "open"
    /\ claim' = [claim EXCEPT ![i].state = "closed"]
    /\ UNCHANGED <<purse, bank, taken, returned>>

Return(i, u) ==
    /\ claim[i].state = "closed" /\ claim[i].user = u
    /\ bank[i] = "failed" /\ i \notin returned
    /\ MaxWalletBalance > 0 => purse[u] + claim[i].amount <= MaxWalletBalance
    /\ purse' = [purse EXCEPT ![u] = @ + claim[i].amount]
    /\ returned' = returned \cup {i}
    /\ UNCHANGED <<claim, bank, taken>>

Next ==
    \E i \in Requests :
        \/ Send(i) \/ Close(i)
        \/ \E outcome \in {"succeeded", "failed"} : Settle(i, outcome)
        \/ \E u \in Users :
              Take(i, u) \/ Return(i, u) \/ \E amount \in Amounts : Ask(i, u, amount)

Spec == Init /\ [][Next]_<<purse, claim, bank, taken, returned>>
=============================================================================
