------------------------------ MODULE Account -------------------------------
(***************************************************************************)
(* Pages of the web client about the account itself: signing in by a       *)
(* code sent to an email address (auth/login.component.ts), the link of a  *)
(* verification mail (verify-email.component.ts) and the page a bank       *)
(* returns to (payment-return.component.ts).                               *)
(*                                                                         *)
(* No field is locked and no request cancelled while another one is        *)
(* awaited: an answer is applied to what the page has become since.        *)
(***************************************************************************)
CONSTANTS
    Emails,
    EmailCalls,     \* bound: requests of the sign-in page in flight at a time
    Unknown         \* no email

ASSUME UnknownAssumption == Unknown \notin Emails

VARIABLES
    email, codeFor, \* typed; ghost: the address the code page was opened for
    askedName,      \* isNewUser
    emailLoading, emailError,
    emailCalls,
    entered,        \* the page was left for the marketplace
    typedOver       \* ghost: the address was changed while a code was asked for

emailVars == <<email, codeFor, askedName, emailLoading, emailError, emailCalls, entered, typedOver>>

VARIABLES mailLink, bankReturn

linkVars == <<mailLink, bankReturn>>

accountVars == <<emailVars, linkVars>>

-----------------------------------------------------------------------------
(* Signing in by email                                                     *)

NoEmailCall == [op |-> "none", to |-> Unknown]
CodeSentPage == codeFor # Unknown
FreeEmail(c) == emailCalls[c] = NoEmailCall
EmailCallOver(c) == emailCalls' = [emailCalls EXCEPT ![c] = NoEmailCall]

EmailInit ==
    /\ email = Unknown /\ codeFor = Unknown /\ askedName = FALSE
    /\ emailLoading = FALSE /\ emailError = FALSE
    /\ emailCalls = [c \in EmailCalls |-> NoEmailCall]
    /\ entered = FALSE /\ typedOver = FALSE

(* The field is open until the code page is shown.                         *)
TypeEmail(e) ==
    /\ ~entered /\ ~CodeSentPage /\ e # email
    /\ email' = e
    /\ typedOver' = \E c \in EmailCalls : emailCalls[c].op = "ask"
    /\ UNCHANGED <<codeFor, askedName, emailLoading, emailError, emailCalls, entered, linkVars>>

(* onRequestOTP, by the button or by enter                                 *)
AskCode(c) ==
    /\ FreeEmail(c)
    /\ IF email = Unknown
       THEN emailError' = TRUE /\ UNCHANGED <<emailLoading, emailCalls>>
       ELSE /\ emailLoading' = TRUE /\ emailError' = FALSE
            /\ emailCalls' = [emailCalls EXCEPT ![c] = [op |-> "ask", to |-> email]]

RequestOTP(c) ==
    /\ ~entered /\ ~CodeSentPage
    /\ AskCode(c)
    /\ UNCHANGED <<email, codeFor, askedName, entered, typedOver, linkVars>>

(* onResendCode, offered while the code is being verified too              *)
ResendOTP(c) ==
    /\ ~entered /\ CodeSentPage
    /\ codeFor' = Unknown
    /\ AskCode(c)
    /\ UNCHANGED <<email, askedName, entered, typedOver, linkVars>>

OTPSent(c) ==
    /\ emailCalls[c].op = "ask" /\ ~entered
    /\ emailLoading' = FALSE /\ askedName' \in BOOLEAN
    /\ codeFor' = emailCalls[c].to
    /\ EmailCallOver(c)
    /\ UNCHANGED <<email, emailError, entered, typedOver, linkVars>>

(* onVerifyOTP, of a code and, for a new user, a name.  The button is away *)
(* while an answer is awaited; a form of one field still takes enter.      *)
VerifyOTP(c) ==
    /\ ~entered /\ CodeSentPage /\ FreeEmail(c)
    /\ askedName => ~emailLoading
    /\ emailLoading' = TRUE /\ emailError' = FALSE
    /\ emailCalls' = [emailCalls EXCEPT ![c] = [op |-> "verify", to |-> email]]
    /\ UNCHANGED <<email, codeFor, askedName, entered, typedOver, linkVars>>

(* A code or a name is missing.                                            *)
VerifyNothing ==
    /\ ~entered /\ CodeSentPage
    /\ emailError' = TRUE
    /\ UNCHANGED <<email, codeFor, askedName, emailLoading, emailCalls, entered, typedOver, linkVars>>

OTPVerified(c) ==
    /\ emailCalls[c].op = "verify" /\ ~entered
    /\ emailLoading' = FALSE /\ entered' = TRUE
    /\ EmailCallOver(c)
    /\ UNCHANGED <<email, codeFor, askedName, emailError, typedOver, linkVars>>

EmailCallFails(c) ==
    /\ ~FreeEmail(c) /\ ~entered
    /\ emailLoading' = FALSE /\ emailError' = TRUE
    /\ EmailCallOver(c)
    /\ UNCHANGED <<email, codeFor, askedName, entered, typedOver, linkVars>>

EmailNext ==
    \/ \E e \in Emails : TypeEmail(e)
    \/ VerifyNothing
    \/ \E c \in EmailCalls :
          \/ RequestOTP(c) \/ ResendOTP(c) \/ OTPSent(c)
          \/ VerifyOTP(c) \/ OTPVerified(c) \/ EmailCallFails(c)

-----------------------------------------------------------------------------
(* The two links                                                           *)

(* What the two pages show.                                                *)
MailPages == {"opened", "loading", "success", "failed"}
BankPages == {"opened", "cancelled", "success", "error"}

LinksInit == mailLink = "opened" /\ bankReturn = "opened"

(* VerifyEmailComponent.ngOnInit: without a token nothing is asked.        *)
FollowMailLink ==
    /\ mailLink = "opened"
    /\ mailLink' \in {"loading", "failed"}
    /\ UNCHANGED <<bankReturn, emailVars>>

MailLinkAnswered ==
    /\ mailLink = "loading"
    /\ mailLink' \in {"success", "failed"}
    /\ UNCHANGED <<bankReturn, emailVars>>

(* PaymentReturnComponent.ngOnInit: a cancellation goes before a payment.  *)
ReturnFromBank(cancel, paid) ==
    /\ bankReturn = "opened"
    /\ bankReturn' = CASE cancel -> "cancelled" [] ~cancel /\ paid -> "success"
                       [] OTHER -> "error"
    /\ UNCHANGED <<mailLink, emailVars>>

LinksNext ==
    \/ FollowMailLink \/ MailLinkAnswered
    \/ \E cancel, paid \in BOOLEAN : ReturnFromBank(cancel, paid)

-----------------------------------------------------------------------------
AccountTypeOK ==
    /\ {email, codeFor} \subseteq Emails \cup {Unknown}
    /\ {askedName, emailLoading, emailError, entered, typedOver} \subseteq BOOLEAN
    /\ emailCalls \in [EmailCalls -> {NoEmailCall} \cup [op : {"ask", "verify"}, to : Emails]]
    /\ mailLink \in MailPages /\ bankReturn \in BankPages

(* The code page names the address that its code was asked for, unless the *)
(* address was typed over while the code was being asked for.              *)
CodeIsForEmailShown ==
    ~typedOver => (CodeSentPage => codeFor = email)
=============================================================================
