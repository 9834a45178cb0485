------------------------------ MODULE Checkout ------------------------------
(***************************************************************************)
(* The checkout page of the web client                                     *)
(* (web/src/app/payment-checkout/payment-checkout.component.ts).           *)
(*                                                                         *)
(* The page shows a QR code, counts down, and asks for the status of the   *)
(* order every three seconds; several requests may be on their way and     *)
(* are answered in any order.  When the order is paid it shows an          *)
(* animation, a receipt, and after another countdown goes on.  Timers are  *)
(* counted, because some of them are not cleared.                          *)
(***************************************************************************)
EXTENDS Integers

CONSTANTS
    Polls,          \* bound: requests in flight at a time
    MaxSeconds,     \* the payment countdown, 300 in the code
    MaxRedirect     \* the redirect countdown, 5 in the code

ASSUME CountdownAssumption ==
    MaxSeconds \in Nat \ {0} /\ MaxRedirect \in Nat \ {0}

VARIABLES
    order,          \* status of the order on the server
    phase, secondsLeft, redirectSeconds,
    counting,       \* the payment countdown runs
    polling,        \* requests are sent
    polls,          \* requests in flight
    bursts,         \* animations that run
    redirects,      \* redirect countdowns that run
    handle,         \* redirectInterval is one of them
    checkoutAt,     \* where the user is
    \* ghost
    rewritten       \* the order was settled one way, then the other

shownVars == <<phase, secondsLeft, redirectSeconds>>
timerVars == <<counting, polling, bursts, redirects, handle>>
checkoutVars == <<order, shownVars, timerVars, polls, checkoutAt, rewritten>>

OrderStatus == {"pending", "success", "cancelled"}

(* ngOnInit; without an order in the router's state the page is left.      *)
CheckoutInit ==
    /\ order \in OrderStatus
    /\ phase = "pending"
    /\ secondsLeft = MaxSeconds /\ redirectSeconds = MaxRedirect
    /\ checkoutAt \in {"checkout", "wallet"}
    /\ counting = (checkoutAt = "checkout") /\ polling = counting
    /\ polls = [p \in Polls |-> "none"]
    /\ bursts = 0 /\ redirects = 0 /\ handle = FALSE
    /\ rewritten = FALSE

-----------------------------------------------------------------------------
(* The server: the webhook settles the order, and may overwrite what an    *)
(* earlier call settled.                                                   *)
SettleOrder(s) ==
    /\ s # "pending" /\ s # order
    /\ order' = s
    /\ rewritten' = (rewritten \/ order # "pending")
    /\ UNCHANGED <<shownVars, timerVars, polls, checkoutAt>>

AnswerPoll(p) ==
    /\ polls[p] = "asked"
    /\ polls' = [polls EXCEPT ![p] = order]
    /\ UNCHANGED <<order, shownVars, timerVars, checkoutAt, rewritten>>

(* A failed request is ignored.                                            *)
LosePoll(p) ==
    /\ polls[p] # "none"
    /\ polls' = [polls EXCEPT ![p] = "none"]
    /\ UNCHANGED <<order, shownVars, timerVars, checkoutAt, rewritten>>

-----------------------------------------------------------------------------
(* The timers                                                              *)

Poll(p) ==
    /\ polling
    /\ polls[p] = "none"
    /\ polls' = [polls EXCEPT ![p] = "asked"]
    /\ UNCHANGED <<order, shownVars, timerVars, checkoutAt, rewritten>>

(* Mutant of TimeLeft: the page expires a second late.                     *)
TimeLeftAtZero == secondsLeft > 0

TimeLeft == secondsLeft > 1

(* At zero the countdown goes on, and does the same again.                 *)
CountDown ==
    /\ counting
    /\ IF TimeLeft
       THEN secondsLeft' = secondsLeft - 1 /\ UNCHANGED <<phase, polling>>
       ELSE phase' = "expired" /\ polling' = FALSE /\ UNCHANGED secondsLeft
    /\ UNCHANGED <<order, redirectSeconds, counting, bursts, redirects, handle, polls,
                   checkoutAt, rewritten>>

(* startRedirectCountdown                                                  *)
StartRedirect == redirects' = redirects + 1 /\ handle' = TRUE

(* Mutant of StopWaiting: the countdown goes on.                           *)
StopPolling == polling' = FALSE /\ UNCHANGED counting

StopWaiting == polling' = FALSE /\ counting' = FALSE

(* onPaymentSuccess, with the animation or, where reduced motion is        *)
(* preferred, without                                                      *)
PaymentSucceeded(p) ==
    /\ polls[p] = "success"
    /\ polls' = [polls EXCEPT ![p] = "none"]
    /\ StopWaiting
    /\ \/ phase' = "confirmed" /\ StartRedirect /\ UNCHANGED bursts
       \/ phase' = "explosion" /\ bursts' = bursts + 1 /\ UNCHANGED <<redirects, handle>>
    /\ UNCHANGED <<order, secondsLeft, redirectSeconds, checkoutAt, rewritten>>

BurstOver ==
    /\ bursts > 0
    /\ bursts' = bursts - 1
    /\ phase' = "confirmed"
    /\ StartRedirect
    /\ UNCHANGED <<order, secondsLeft, redirectSeconds, counting, polling, polls,
                   checkoutAt, rewritten>>

PaymentCancelled(p) ==
    /\ polls[p] = "cancelled"
    /\ polls' = [polls EXCEPT ![p] = "none"]
    /\ phase' = "expired" /\ polling' = FALSE
    /\ UNCHANGED <<order, secondsLeft, redirectSeconds, counting, bursts, redirects,
                   handle, checkoutAt, rewritten>>

StillPending(p) ==
    /\ polls[p] = "pending"
    /\ polls' = [polls EXCEPT ![p] = "none"]
    /\ UNCHANGED <<order, shownVars, timerVars, checkoutAt, rewritten>>

(* clearInterval(redirectInterval) stops the latest countdown only.        *)
ClearRedirect ==
    /\ handle' = FALSE
    /\ redirects' = IF handle THEN redirects - 1 ELSE redirects

CountRedirect ==
    /\ redirects > 0
    /\ redirectSeconds > 1
    /\ redirectSeconds' = redirectSeconds - 1
    /\ UNCHANGED <<order, phase, secondsLeft, timerVars, polls, checkoutAt, rewritten>>

(* navigateAway, wherever the user has gone since; on the page it destroys *)
(* the component.                                                          *)
Redirect ==
    /\ redirects > 0
    /\ redirectSeconds = 1
    /\ ClearRedirect
    /\ checkoutAt' = "returned"
    /\ counting' = FALSE /\ polling' = FALSE
    /\ UNCHANGED <<order, shownVars, bursts, polls, rewritten>>

(* The user goes on, back, or elsewhere: ngOnDestroy.                      *)
Leave(to) ==
    /\ checkoutAt = "checkout"
    /\ to = "returned" => phase = "confirmed"
    /\ checkoutAt' = to
    /\ counting' = FALSE /\ polling' = FALSE
    /\ ClearRedirect
    /\ UNCHANGED <<order, shownVars, bursts, polls, rewritten>>

CheckoutNext ==
    \/ \E s \in OrderStatus : SettleOrder(s)
    \/ \E p \in Polls :
          \/ Poll(p) \/ AnswerPoll(p) \/ LosePoll(p)
          \/ PaymentSucceeded(p) \/ PaymentCancelled(p) \/ StillPending(p)
    \/ CountDown \/ BurstOver \/ CountRedirect \/ Redirect
    \/ \E to \in {"returned", "wallet", "elsewhere"} : Leave(to)

CheckoutSpec == CheckoutInit /\ [][CheckoutNext]_checkoutVars

-----------------------------------------------------------------------------
CheckoutTypeOK ==
    /\ order \in OrderStatus
    /\ phase \in {"pending", "explosion", "confirmed", "expired"}
    /\ secondsLeft \in 1..MaxSeconds /\ redirectSeconds \in 1..MaxRedirect
    /\ {counting, polling, handle, rewritten} \subseteq BOOLEAN
    /\ polls \in [Polls -> {"none", "asked"} \cup OrderStatus]
    /\ {bursts, redirects} \subseteq Nat
    /\ checkoutAt \in {"checkout", "returned", "wallet", "elsewhere"}

(* Once the page has said that the payment arrived it never says that it   *)
(* expired: not when the countdown was about to end, nor when older        *)
(* answers arrive later, as long as the order itself stays as settled.     *)
PaidStaysPaid ==
    [][(phase \in {"explosion", "confirmed"} /\ ~rewritten) =>
            phase' # "expired"]_checkoutVars
=============================================================================
