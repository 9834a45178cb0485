----------------------------- MODULE PhoneAuth ------------------------------
(***************************************************************************)
(* Codes sent to a phone: FirebasePhoneAuthService                         *)
(* (web/src/app/core/firebase.service.ts), one object for the whole        *)
(* application, and the two pages that use it, the sign-in by phone        *)
(* (auth/phone-login.component.ts) and the dialog of the profile           *)
(* (profile/profile.component.ts).                                         *)
(*                                                                         *)
(* What a page awaits goes on after the page is left: the service keeps    *)
(* the result, and only the page's own fields are gone.                    *)
(***************************************************************************)
EXTENDS Naturals

CONSTANTS
    Numbers,        \* phone numbers that pass normalizePhone
    Steps,          \* bound: calls awaited at a time
    NoNumber

ASSUME NoNumberAssumption == NoNumber \notin Numbers

VARIABLES
    phonePage,      \* page on screen: "phone", "profile" or another one
    signedIn,       \* whether a user is signed in
    firebase,       \* fields of the service
    step,           \* calls awaited
    sent,           \* sign-in page: codeSent, the code is asked for
    numberShown,    \* sign-in page: normalizedPhone
    logging,        \* sign-in page: loggingIn
    dialog,         \* profile: showPhoneVerifyDialog
    field,          \* profile: phoneToVerify
    profilePhone,   \* profile: the number shown as verified
    overtaken,      \* ghost: codes awaited when a later one was sent for
    late            \* ghost: the code that came last was overtaken

phoneVars == <<phonePage, signedIn, firebase, step, sent, numberShown, logging,
               dialog, field, profilePhone, overtaken, late>>
signInVars == <<sent, numberShown, logging>>
profileVars == <<dialog, field, profilePhone>>
orderVars == <<overtaken, late>>

Number == Numbers \cup {NoNumber}
Done == [op |-> "done"]

(* A call awaited: whose code it is about, and whether the page that       *)
(* awaits it is still on screen.                                           *)
Step == {Done} \cup [op: {"send", "confirm", "post"}, of: {"phone", "profile"},
                     number: Numbers, mounted: BOOLEAN]

Service == [confirmation: Number, codeSent: BOOLEAN, sending: BOOLEAN,
            verifying: BOOLEAN]

(* reset                                                                   *)
Fresh == [confirmation |-> NoNumber, codeSent |-> FALSE, sending |-> FALSE,
          verifying |-> FALSE]

PhoneInit ==
    /\ phonePage = "other" /\ signedIn = FALSE
    /\ firebase = Fresh
    /\ step = [s \in Steps |-> Done]
    /\ sent = FALSE /\ numberShown = NoNumber /\ logging = FALSE
    /\ dialog = FALSE /\ field = NoNumber /\ profilePhone = NoNumber
    /\ overtaken = {} /\ late = FALSE

(* The two forms of the sign-in page.                                      *)
NumberForm == phonePage = "phone" /\ ~sent
CodeForm == phonePage = "phone" /\ sent

-----------------------------------------------------------------------------
(* Pages: a page begins with fields of its own, and what the page before   *)
(* awaits is now nobody's.                                                 *)

OpenPhonePage(p) ==
    /\ p # phonePage
    /\ p = "phone" => ~signedIn
    /\ p = "profile" => signedIn
    /\ phonePage' = p
    /\ sent' = FALSE /\ numberShown' = NoNumber /\ logging' = FALSE
    /\ dialog' = FALSE /\ field' = NoNumber /\ profilePhone' = NoNumber
    /\ step' = [s \in Steps |-> IF step[s] = Done THEN Done
                                ELSE [step[s] EXCEPT !.mounted = FALSE]]
    /\ UNCHANGED <<signedIn, firebase, orderVars>>

(* Signing in by e-mail, or out.                                           *)
SwitchUser ==
    /\ phonePage = "other"
    /\ signedIn' = ~signedIn
    /\ UNCHANGED <<phonePage, firebase, step, signInVars, profileVars, orderVars>>

-----------------------------------------------------------------------------
(* FirebasePhoneAuthService                                                *)

(* sendVerificationCode, up to its await                                   *)
StartSend(s, n, base) ==
    /\ step[s] = Done
    /\ step' = [step EXCEPT ![s] = [op |-> "send", of |-> phonePage,
                                    number |-> n, mounted |-> TRUE]]
    /\ firebase' = [base EXCEPT !.sending = TRUE]
    /\ overtaken' = {t \in Steps : step[t].op = "send"}
    /\ UNCHANGED late

(* sendVerificationCode after its await, and onSendCode, onResendCode      *)
CodeSent(s) ==
    /\ step[s].op = "send"
    /\ firebase' = [firebase EXCEPT !.confirmation = step[s].number,
                                    !.codeSent = TRUE, !.sending = FALSE]
    /\ sent' = (sent \/ (step[s].of = "phone" /\ step[s].mounted))
    /\ step' = [step EXCEPT ![s] = Done]
    /\ late' = (s \in overtaken)
    /\ UNCHANGED <<phonePage, signedIn, numberShown, logging, profileVars, overtaken>>

SendFails(s) ==
    /\ step[s].op = "send"
    /\ firebase' = [firebase EXCEPT !.sending = FALSE]
    /\ step' = [step EXCEPT ![s] = Done]
    /\ UNCHANGED <<phonePage, signedIn, signInVars, profileVars, orderVars>>

(* confirmCode: the code is checked against the confirmation it finds.     *)
StartConfirm(s) ==
    /\ step[s] = Done
    /\ firebase.confirmation # NoNumber
    /\ step' = [step EXCEPT ![s] = [op |-> "confirm", of |-> phonePage,
                                    number |-> firebase.confirmation,
                                    mounted |-> TRUE]]
    /\ firebase' = [firebase EXCEPT !.verifying = TRUE]

(* The code is right; its token goes to the server at once.                *)
Confirmed(s) ==
    /\ step[s].op = "confirm"
    /\ firebase' = [firebase EXCEPT !.verifying = FALSE]
    /\ step' = [step EXCEPT ![s].op = "post"]
    /\ logging' = (logging \/ (step[s].of = "phone" /\ step[s].mounted))
    /\ UNCHANGED <<phonePage, signedIn, sent, numberShown, profileVars, orderVars>>

ConfirmFails(s) ==
    /\ step[s].op = "confirm"
    /\ firebase' = [firebase EXCEPT !.verifying = FALSE]
    /\ step' = [step EXCEPT ![s] = Done]
    /\ UNCHANGED <<phonePage, signedIn, signInVars, profileVars, orderVars>>

-----------------------------------------------------------------------------
(* The sign-in page                                                        *)

(* Mutant of OnSendCode: the number named first stays on the page.         *)
OnSendCodeFirst(s, n) ==
    /\ NumberForm
    /\ numberShown' = IF numberShown = NoNumber THEN n ELSE numberShown
    /\ StartSend(s, n, firebase)
    /\ UNCHANGED <<phonePage, signedIn, sent, logging, profileVars>>

(* onSendCode.  The button is hidden while a code is sent, but the form    *)
(* has one field and is still submitted by the Enter key.                  *)
OnSendCode(s, n) ==
    /\ NumberForm
    /\ numberShown' = n
    /\ StartSend(s, n, firebase)
    /\ UNCHANGED <<phonePage, signedIn, sent, logging, profileVars>>

(* onResendCode: back to the first step until the code is sent again.      *)
OnResendCode(s) ==
    /\ CodeForm /\ numberShown # NoNumber
    /\ sent' = FALSE
    /\ StartSend(s, numberShown, Fresh)
    /\ UNCHANGED <<phonePage, signedIn, numberShown, logging, profileVars>>

(* onVerifyCode                                                            *)
OnVerifyCode(s) ==
    /\ CodeForm
    /\ StartConfirm(s)
    /\ UNCHANGED <<phonePage, signedIn, signInVars, profileVars, orderVars>>

(* phoneLogin succeeds: the service is reset and the marketplace opens.    *)
PhoneLoggedIn(s) ==
    /\ step[s].op = "post" /\ step[s].of = "phone"
    /\ signedIn' = TRUE
    /\ firebase' = Fresh
    /\ phonePage' = "other"
    /\ sent' = FALSE /\ numberShown' = NoNumber /\ logging' = FALSE
    /\ dialog' = FALSE /\ field' = NoNumber /\ profilePhone' = NoNumber
    /\ step' = [t \in Steps |-> IF t = s \/ step[t] = Done THEN Done
                                ELSE [step[t] EXCEPT !.mounted = FALSE]]
    /\ UNCHANGED orderVars

-----------------------------------------------------------------------------
(* The dialog of the profile                                               *)

OpenDialog ==
    /\ phonePage = "profile" /\ ~dialog /\ profilePhone = NoNumber
    /\ dialog' = TRUE
    /\ UNCHANGED <<phonePage, signedIn, firebase, step, signInVars, field,
                   profilePhone, orderVars>>

(* closePhoneDialog                                                        *)
CloseDialog ==
    /\ dialog
    /\ dialog' = FALSE /\ field' = NoNumber
    /\ firebase' = Fresh
    /\ UNCHANGED <<phonePage, signedIn, step, signInVars, profilePhone, orderVars>>

(* The field is open until some code was sent, also while it is sent.      *)
TypeNumber(n) ==
    /\ dialog /\ ~firebase.codeSent /\ field # n
    /\ field' = n
    /\ UNCHANGED <<phonePage, signedIn, firebase, step, signInVars, dialog,
                   profilePhone, orderVars>>

(* onPhoneDialogConfirm: the service decides which of the two steps it is. *)
DialogSends(s) ==
    /\ dialog /\ ~firebase.codeSent /\ field # NoNumber
    /\ StartSend(s, field, firebase)
    /\ UNCHANGED <<phonePage, signedIn, signInVars, profileVars>>

DialogConfirms(s) ==
    /\ dialog /\ firebase.codeSent
    /\ StartConfirm(s)
    /\ UNCHANGED <<phonePage, signedIn, signInVars, profileVars, orderVars>>

(* verifyPhone succeeds: the page shows the number in the field, closes    *)
(* the dialog and resets the service, even from a page that was left.      *)
PhoneVerified(s) ==
    /\ step[s].op = "post" /\ step[s].of = "profile"
    /\ IF step[s].mounted
       THEN /\ profilePhone' = field
            /\ dialog' = FALSE /\ field' = NoNumber
       ELSE UNCHANGED profileVars
    /\ firebase' = Fresh
    /\ step' = [step EXCEPT ![s] = Done]
    /\ UNCHANGED <<phonePage, signedIn, signInVars, orderVars>>

(* The server refuses the token.                                           *)
PostFails(s) ==
    /\ step[s].op = "post"
    /\ step' = [step EXCEPT ![s] = Done]
    /\ logging' = (logging /\ ~(step[s].of = "phone" /\ step[s].mounted))
    /\ UNCHANGED <<phonePage, signedIn, firebase, sent, numberShown, profileVars, orderVars>>

-----------------------------------------------------------------------------
PhoneNext ==
    \/ \E p \in {"phone", "profile", "other"} : OpenPhonePage(p)
    \/ SwitchUser
    \/ OpenDialog
    \/ CloseDialog
    \/ \E n \in Numbers : TypeNumber(n)
    \/ \E s \in Steps :
         \/ \E n \in Numbers : OnSendCode(s, n)
         \/ DialogSends(s)
         \/ OnResendCode(s)
         \/ OnVerifyCode(s)
         \/ DialogConfirms(s)
         \/ CodeSent(s)
         \/ SendFails(s)
         \/ Confirmed(s)
         \/ ConfirmFails(s)
         \/ PhoneLoggedIn(s)
         \/ PhoneVerified(s)
         \/ PostFails(s)

PhoneSpec == PhoneInit /\ [][PhoneNext]_phoneVars

-----------------------------------------------------------------------------
PhoneTypeOK ==
    /\ phonePage \in {"phone", "profile", "other"}
    /\ firebase \in Service
    /\ step \in [Steps -> Step]
    /\ {signedIn, sent, logging, dialog, late} \subseteq BOOLEAN
    /\ overtaken \subseteq Steps
    /\ {numberShown, field, profilePhone} \subseteq Number

(* The code that the sign-in page asks for was sent to the number it       *)
(* names, and so is the last one that was sent for, although the           *)
(* confirmation is kept by a service that another page, an earlier visit   *)
(* or a resend also writes. What is excepted is a code that comes after a  *)
(* later one was sent for, until that one comes. (The confirmation may be  *)
(* gone: the profile's late answer resets the service.) In the dialog of   *)
(* the profile it is not so: it takes what the service has for its own.    *)
CodeIsForNumberShown ==
    phonePage = "phone" =>
        /\ sent /\ ~late => firebase.confirmation \in {numberShown, NoNumber}
        /\ \A s \in Steps \ overtaken :
             step[s].op = "send" /\ step[s].mounted => step[s].number = numberShown
=============================================================================
