----------------------------- MODULE WalletPage -----------------------------
(***************************************************************************)
(* The wallet page of the web client                                       *)
(* (web/src/app/wallet/wallet.component.ts): the balance, the history of   *)
(* the ledger by pages, deposits, withdrawals and bank accounts, with the  *)
(* bank list and the bank select.                                          *)
(*                                                                         *)
(* The ledger only grows; its rows are numbered, and the server lists the  *)
(* newest first, from an offset on.  What the page asks for is answered    *)
(* with what the server holds at that moment.                              *)
(***************************************************************************)
EXTENDS Integers, Sequences, FiniteSets

CONSTANTS
    Accounts,       \* ids of bank accounts
    NoAccount,
    Typed,          \* amounts that are typed into the fields
    Funds,          \* the available balance at first
    PageRows,       \* rows asked for at a time (20)
    MaxRows,        \* bound: rows of the ledger
    Loads           \* bound: loads of the history in flight

ASSUME NoAccountAssumption == NoAccount \notin Accounts
ASSUME WalletPageAssumption ==
    Typed \subseteq Nat /\ Funds \in Nat /\ PageRows \in Nat \ {0} /\ MaxRows \in Nat

MinDeposit == 2000
MinWithdrawal == 10000
Step == 1000

VARIABLES
    ledger, funds, accounts,    \* the server: rows, available balance, bank accounts
    available,                  \* wallet()?.available_balance ?? 0
    walletLoading, walletError,
    history,                    \* transactions
    txOffset, moreRows,         \* and hasMore
    loads,                      \* offsets of the loads in flight
    calls, deleting,            \* what else is in flight; deletions of accounts
    verified,                   \* the phone number of the user is verified
    withdrawing,                \* the withdrawal in flight
    bankAccounts, selected,     \* and selectedBankAccountId
    formOpen,                   \* showBankAccountForm
    banks, bankOpen, newBank,   \* the bank list, the bank select, newBankBin
    walletLeft,                 \* left for the checkout page
    booked,     \* ghost: rows were added since the page opened
    overlappedLoads  \* ghost: two loads of the history were in flight at once

serverRows == <<ledger, funds, accounts, verified>>
balanceVars == <<available, walletLoading, walletError>>
historyVars == <<history, txOffset, moreRows, loads, booked, overlappedLoads>>
moneyVars == <<withdrawing, walletLeft>>
bankVars == <<bankAccounts, selected, formOpen, banks, bankOpen, newBank, deleting>>
walletVars == <<serverRows, balanceVars, historyVars, calls, moneyVars, bankVars>>

NoLoad == -1
NoWithdrawal == [amount |-> 0, account |-> NoAccount]
Calls == {"wallet", "accounts", "banks", "deposit", "add"}

(* What is on screen: the page, and on it the forms, whose buttons give    *)
(* way to a spinner while what they asked for is in flight.                *)
Ready == ~walletLoading /\ ~walletError /\ ~walletLeft
DepositForm == Ready /\ "deposit" \notin calls
WithdrawalForm == Ready /\ withdrawing = NoWithdrawal
AccountsForm == Ready /\ formOpen
AddForm == AccountsForm /\ "add" \notin calls
MoreButton == Ready /\ history # <<>> /\ moreRows

-----------------------------------------------------------------------------
(* loadTransactions                                                        *)
AskRows(l) ==
    /\ loads[l] = NoLoad
    /\ loads' = [loads EXCEPT ![l] = txOffset]
    /\ booked' = (booked \/ ledger' # ledger)
    /\ overlappedLoads' = (overlappedLoads \/ \E k \in Loads : loads[k] # NoLoad)

RowsAt(offset) ==
    LET left == ledger - offset
        size == IF left < PageRows THEN left ELSE PageRows
    IN  IF left <= 0 THEN <<>> ELSE [i \in 1..size |-> left + 1 - i]

(* Mutant of RowsArrive: the next load asks for the same rows.             *)
RowsArriveAgain(l) ==
    /\ loads[l] # NoLoad
    /\ LET rows == RowsAt(loads[l])
       IN  /\ history' = history \o rows
           /\ moreRows' = (Len(rows) = PageRows)
    /\ loads' = [loads EXCEPT ![l] = NoLoad]
    /\ UNCHANGED <<txOffset, booked, overlappedLoads, serverRows, balanceVars, calls, moneyVars, bankVars>>

RowsArrive(l) ==
    /\ loads[l] # NoLoad
    /\ LET rows == RowsAt(loads[l])
       IN  /\ history' = history \o rows
           /\ moreRows' = (Len(rows) = PageRows)
           /\ txOffset' = txOffset + Len(rows)
    /\ loads' = [loads EXCEPT ![l] = NoLoad]
    /\ UNCHANGED <<booked, overlappedLoads, serverRows, balanceVars, calls, moneyVars, bankVars>>

RowsFail(l) ==
    /\ loads[l] # NoLoad
    /\ loads' = [loads EXCEPT ![l] = NoLoad]
    /\ UNCHANGED <<history, txOffset, moreRows, booked, overlappedLoads>>
    /\ UNCHANGED <<serverRows, balanceVars, calls, moneyVars, bankVars>>

(* loadMore                                                                *)
LoadMore(l) ==
    /\ MoreButton
    /\ UNCHANGED <<serverRows, balanceVars, calls, moneyVars, bankVars>>
    /\ UNCHANGED <<history, txOffset, moreRows>>
    /\ AskRows(l)

-----------------------------------------------------------------------------
(* ngOnInit asks for everything; the bank list is asked for once in the    *)
(* life of the application.                                                *)
LoadAll(l, inFlight) ==
    /\ walletLoading' = TRUE /\ walletError' = FALSE
    /\ AskRows(l)
    /\ calls' = inFlight \cup {"wallet", "accounts"}
    /\ UNCHANGED <<available, history, txOffset, moreRows>>

WalletInit ==
    /\ ledger \in 0..MaxRows /\ funds = Funds
    /\ accounts = Accounts /\ verified \in BOOLEAN
    /\ available = 0 /\ walletLoading = TRUE /\ walletError = FALSE
    /\ history = <<>> /\ txOffset = 0 /\ moreRows = FALSE
    /\ booked = FALSE /\ overlappedLoads = FALSE
    /\ loads = [k \in Loads |-> IF k = CHOOSE l \in Loads : TRUE THEN 0 ELSE NoLoad]
    /\ calls = {"wallet", "accounts", "banks"}
    /\ withdrawing = NoWithdrawal /\ walletLeft = FALSE
    /\ bankAccounts = {} /\ selected = NoAccount /\ formOpen = FALSE /\ deleting = {}
    /\ banks = FALSE /\ bankOpen = FALSE /\ newBank = FALSE

(* The error page offers retryLoad.                                        *)
RetryWallet(l) ==
    /\ walletError /\ ~walletLoading
    /\ UNCHANGED <<serverRows, moneyVars, bankVars>>
    /\ LoadAll(l, calls)

WalletArrives ==
    /\ "wallet" \in calls
    /\ calls' = calls \ {"wallet"}
    /\ walletLoading' = FALSE
    /\ \/ available' = funds /\ UNCHANGED walletError
       \/ walletError' = TRUE /\ UNCHANGED available
    /\ UNCHANGED <<serverRows, historyVars, moneyVars, bankVars>>

AccountsArrive ==
    /\ "accounts" \in calls
    /\ calls' = calls \ {"accounts"}
    /\ bankAccounts' \in {accounts, bankAccounts}       \* unless it fails
    /\ UNCHANGED <<serverRows, balanceVars, historyVars, moneyVars>>
    /\ UNCHANGED <<selected, formOpen, banks, bankOpen, newBank, deleting>>

(* getBanks: a failure is the empty list, and is remembered.               *)
BanksArrive ==
    /\ "banks" \in calls
    /\ calls' = calls \ {"banks"}
    /\ banks' \in BOOLEAN
    /\ UNCHANGED <<serverRows, balanceVars, historyVars, moneyVars>>
    /\ UNCHANGED <<bankAccounts, selected, formOpen, bankOpen, newBank, deleting>>

(* A payment, a refund or a deposit is booked meanwhile.                   *)
LedgerGrows ==
    /\ ledger < MaxRows
    /\ ledger' = ledger + 1
    /\ booked' = TRUE
    /\ UNCHANGED <<funds, accounts, verified, history, txOffset, moreRows, loads>>
    /\ UNCHANGED overlappedLoads
    /\ UNCHANGED <<balanceVars, calls, moneyVars, bankVars>>

-----------------------------------------------------------------------------
(* Deposits and withdrawals                                                *)

Deposit(amount) ==
    /\ DepositForm
    /\ verified
    /\ amount >= MinDeposit /\ amount % Step = 0
    /\ calls' = calls \cup {"deposit"}
    /\ UNCHANGED <<serverRows, balanceVars, historyVars, moneyVars, bankVars>>

(* The answer leads to the checkout page.                                  *)
DepositAnswers ==
    /\ "deposit" \in calls
    /\ calls' = calls \ {"deposit"}
    /\ walletLeft' \in BOOLEAN       \* unless it fails
    /\ UNCHANGED <<withdrawing, serverRows, balanceVars, historyVars, bankVars>>

SelectAccount(a) ==
    /\ Ready /\ a \in bankAccounts
    /\ selected' = a
    /\ UNCHANGED <<serverRows, balanceVars, historyVars, calls, moneyVars>>
    /\ UNCHANGED <<bankAccounts, formOpen, banks, bankOpen, newBank, deleting>>

Withdraw(amount) ==
    /\ WithdrawalForm
    /\ verified
    /\ amount >= MinWithdrawal /\ amount % Step = 0
    /\ amount <= available
    /\ selected # NoAccount
    /\ withdrawing' = [amount |-> amount, account |-> selected]
    /\ UNCHANGED <<walletLeft, serverRows, balanceVars, historyVars, calls, bankVars>>

(* The withdrawal is a row of the ledger, and the page loads anew, the     *)
(* history from where it is.                                               *)
WithdrawSucceeds(l) ==
    /\ withdrawing.amount \in 1..funds
    /\ withdrawing.account \in accounts /\ ledger < MaxRows
    /\ ledger' = ledger + 1 /\ funds' = funds - withdrawing.amount
    /\ withdrawing' = NoWithdrawal
    /\ LoadAll(l, calls)
    /\ UNCHANGED <<accounts, verified, walletLeft, bankVars>>

WithdrawFails ==
    /\ withdrawing # NoWithdrawal
    /\ withdrawing' = NoWithdrawal
    /\ UNCHANGED <<walletLeft, serverRows, balanceVars, historyVars, calls, bankVars>>

-----------------------------------------------------------------------------
(* Bank accounts                                                           *)

ToggleForm ==
    /\ Ready
    /\ formOpen' = ~formOpen
    /\ bankOpen' = FALSE        \* the form's select is made anew
    /\ UNCHANGED <<bankAccounts, selected, banks, newBank, deleting>>
    /\ UNCHANGED <<serverRows, balanceVars, historyVars, calls, moneyVars>>

(* toggle, and a click elsewhere or the Escape key                         *)
ToggleBanks ==
    /\ AccountsForm
    /\ bankOpen' = ~bankOpen
    /\ UNCHANGED <<bankAccounts, selected, formOpen, banks, newBank, deleting>>
    /\ UNCHANGED <<serverRows, balanceVars, historyVars, calls, moneyVars>>

(* select: one of the banks of the list                                    *)
ChooseBank ==
    /\ AccountsForm /\ bankOpen /\ banks
    /\ newBank' = TRUE /\ bankOpen' = FALSE
    /\ UNCHANGED <<bankAccounts, selected, formOpen, banks, deleting>>
    /\ UNCHANGED <<serverRows, balanceVars, historyVars, calls, moneyVars>>

(* addBankAccount, with the other fields filled in                         *)
AddAccount ==
    /\ AddForm
    /\ newBank /\ banks
    /\ calls' = calls \cup {"add"}
    /\ UNCHANGED <<serverRows, balanceVars, historyVars, moneyVars, bankVars>>

AddAnswers ==
    /\ "add" \in calls
    /\ \/ \E a \in Accounts \ accounts :
             /\ accounts' = accounts \cup {a}
             /\ newBank' = FALSE
             /\ calls' = (calls \ {"add"}) \cup {"accounts"}
       \/ calls' = calls \ {"add"} /\ UNCHANGED <<accounts, newBank>>
    /\ UNCHANGED <<ledger, funds, verified>>
    /\ UNCHANGED <<bankAccounts, selected, formOpen, banks, bankOpen, deleting>>
    /\ UNCHANGED <<balanceVars, historyVars, moneyVars>>

DeleteAccount(a) ==
    /\ AccountsForm /\ a \in bankAccounts
    /\ deleting' = deleting \cup {a}
    /\ UNCHANGED <<bankAccounts, selected, formOpen, banks, bankOpen, newBank>>
    /\ UNCHANGED <<serverRows, balanceVars, historyVars, calls, moneyVars>>

(* The account stays selected in the form of the withdrawal.               *)
DeleteAnswers(a) ==
    /\ a \in deleting
    /\ deleting' = deleting \ {a}
    /\ \/ accounts' = accounts \ {a} /\ calls' = calls \cup {"accounts"}
       \/ UNCHANGED <<accounts, calls>>
    /\ UNCHANGED <<bankAccounts, selected, formOpen, banks, bankOpen, newBank>>
    /\ UNCHANGED <<ledger, funds, verified, balanceVars, historyVars, moneyVars>>

(* Money and its history, and the bank accounts                            *)
MoneyNext ==
    \/ \E l \in Loads :
          \/ RowsArrive(l)
          \/ RowsFail(l)
          \/ LoadMore(l)
          \/ RetryWallet(l)
          \/ WithdrawSucceeds(l)
    \/ \E a \in Accounts : SelectAccount(a)
    \/ \E amount \in Typed : Deposit(amount) \/ Withdraw(amount)
    \/ WalletArrives
    \/ AccountsArrive
    \/ LedgerGrows
    \/ DepositAnswers
    \/ WithdrawFails

BanksNext ==
    \/ \E a \in Accounts : DeleteAccount(a) \/ DeleteAnswers(a)
    \/ BanksArrive
    \/ ToggleForm
    \/ ToggleBanks
    \/ ChooseBank
    \/ AddAccount
    \/ AddAnswers

WalletNext == MoneyNext \/ BanksNext

WalletSpec == WalletInit /\ [][WalletNext]_walletVars

-----------------------------------------------------------------------------
WalletPageTypeOK ==
    /\ ledger \in 0..MaxRows /\ {funds, available} \subseteq Nat
    /\ withdrawing \in [amount: Typed \cup {0}, account: Accounts \cup {NoAccount}]
    /\ accounts \subseteq Accounts /\ bankAccounts \subseteq Accounts
    /\ selected \in Accounts \cup {NoAccount}
    /\ {walletLoading, walletError, moreRows, verified, formOpen, banks, bankOpen,
        newBank, walletLeft, booked, overlappedLoads} \subseteq BOOLEAN
    /\ history \in Seq(1..MaxRows) /\ txOffset \in Nat
    /\ loads \in [Loads -> {NoLoad} \cup Nat]
    /\ calls \subseteq Calls /\ deleting \subseteq Accounts

(* The history never skips a row of the ledger, however often the page and *)
(* further rows are asked for, answers fail, and rows are booked in        *)
(* between, as long as two loads are not under way at once; it ends only   *)
(* at the oldest row.  As long as nothing is booked, it is the newest rows *)
(* each once, the newest first.                                            *)
HistoryIsPrefix ==
    ~overlappedLoads =>
        /\ \A i \in 1..Len(history) - 1 : history[i + 1] >= history[i] - 1
        /\ history # <<>> /\ ~moreRows => \E i \in DOMAIN history : history[i] = 1
        /\ ~booked =>
              /\ history = [i \in 1..Len(history) |-> ledger + 1 - i]
              /\ txOffset = Len(history)
=============================================================================
