------------------------------ MODULE Session -------------------------------
(***************************************************************************)
(* The session of the web client: AuthService, the HTTP interceptors that  *)
(* add the access token, refresh it after a 401 and sign the user out, and *)
(* the route guards (web/src/app/core/auth.service.ts,                     *)
(* auth.interceptor.ts, *.guard.ts), with the pages that sign in, sign out *)
(* and verify.                                                             *)
(*                                                                         *)
(* One browser tab.  Requests are answered in any order, and an answer is  *)
(* applied whether or not the page, or the user, that asked for it is      *)
(* still there.  A token is the account it was issued to; the server may   *)
(* find an access token expired at any time.                               *)
(***************************************************************************)
EXTENDS Naturals

CONSTANTS
    Accounts,   \* users that sign in with this browser
    Calls,      \* bound: requests in flight at a time
    Nobody

ASSUME NobodyAssumption == Nobody \notin Accounts

VARIABLES
    access,     \* localStorage viecz_access_token
    refresh,    \* localStorage viecz_refresh_token
    stored,     \* localStorage viecz_user
    current,    \* AuthService.currentUser
    account,    \* what the server has verified of each account
    call,       \* requests in flight
    route,      \* kind of the page that is shown
    mixed       \* an answer was applied to another account than its own

sessionVars == <<access, refresh, stored, current, account, call, route, mixed>>

Verified == [email: BOOLEAN, phone: BOOLEAN]
User == [id: Accounts, email: BOOLEAN, phone: BOOLEAN]
NoUser == [id |-> Nobody, email |-> FALSE, phone |-> FALSE]

(* What a request is for; the URLs of all but "api" contain /auth/.        *)
Kind == {"api", "sign_in", "verify_email", "verify_phone"}
Idle == [op |-> "idle"]
Call ==
    {Idle}
    \cup [op: {"sent", "granted"}, kind: Kind, by: Accounts \cup {Nobody}]
    \cup [op: {"refreshing", "resent"}, by: Accounts]

Route == {"public", "guest", "private"}

SignedIn == current # NoUser
NeedsPhoneVerification == SignedIn /\ ~current.phone

SessionInit ==
    /\ access = Nobody /\ refresh = Nobody
    /\ stored = NoUser /\ current = NoUser
    /\ account = [a \in Accounts |-> [email |-> FALSE, phone |-> FALSE]]
    /\ call = [c \in Calls |-> Idle]
    /\ route = "public"
    /\ mixed = FALSE

-----------------------------------------------------------------------------
(* Routing                                                                 *)

(* authGuard, guestGuard: where a navigation to a page ends.               *)
Guarded(r) ==
    IF r = "private" /\ access = Nobody THEN "guest"
    ELSE IF r = "guest" /\ access # Nobody THEN "public"
    ELSE r

Navigate(r) ==
    /\ route' = Guarded(r)
    /\ UNCHANGED <<access, refresh, stored, current, account, call, mixed>>

(* /profile, without an id                                                 *)
OpenOwnProfile ==
    /\ route' = IF SignedIn THEN Guarded("private")
                ELSE IF access = Nobody THEN "guest" ELSE Guarded("guest")
    /\ UNCHANGED <<access, refresh, stored, current, account, call, mixed>>

(* The tab is reloaded: requests in flight are gone, the user is read from *)
(* localStorage and the guard of the page runs again.                      *)
Reload ==
    /\ current' = stored
    /\ call' = [c \in Calls |-> Idle]
    /\ route' = Guarded(route)
    /\ UNCHANGED <<access, refresh, stored, account, mixed>>

-----------------------------------------------------------------------------
(* What AuthService keeps                                                  *)

(* Mutant of Remember: an access token that is there is kept.              *)
RememberButToken(u) ==
    /\ access' = IF access = Nobody THEN u.id ELSE access
    /\ refresh' = u.id /\ stored' = u /\ current' = u

(* storeAuth                                                               *)
Remember(u) ==
    /\ access' = u.id /\ refresh' = u.id
    /\ stored' = u /\ current' = u

(* Mutant of Forget: the page stays on screen.                             *)
ForgetInPlace ==
    /\ access' = Nobody /\ refresh' = Nobody
    /\ stored' = NoUser /\ current' = NoUser
    /\ UNCHANGED route

(* logout                                                                  *)
Forget ==
    /\ access' = Nobody /\ refresh' = Nobody
    /\ stored' = NoUser /\ current' = NoUser
    /\ route' = "guest"

Answered(c) == call' = [call EXCEPT ![c] = Idle]

(* The user signs out, from the menu of the shell or from the profile.     *)
LogOut ==
    /\ SignedIn
    /\ Forget
    /\ UNCHANGED <<account, call, mixed>>

-----------------------------------------------------------------------------
(* Requests.  A request carries the access token of when it was sent; one  *)
(* to verify an e-mail address carries the token of the mail instead, and  *)
(* one to sign in the code sent to an account.                             *)

Send(c, k, a) ==
    /\ call[c] = Idle
    /\ \/ k = "api" /\ a = access
       \/ k = "verify_phone" /\ SignedIn /\ route = "private" /\ a = access
       \/ k = "verify_email" /\ a \in Accounts
       \/ k = "sign_in" /\ route = "guest" /\ a \in Accounts
    /\ call' = [call EXCEPT ![c] = [op |-> "sent", kind |-> k, by |-> a]]
    /\ UNCHANGED <<access, refresh, stored, current, account, route, mixed>>

(* The server does what was asked.                                         *)
Grant(c) ==
    /\ call[c].op = "sent"
    /\ call[c].kind = "verify_phone" => call[c].by # Nobody
    /\ account' =
         IF call[c].kind = "verify_email"
         THEN [account EXCEPT ![call[c].by].email = TRUE]
         ELSE IF call[c].kind = "verify_phone"
         THEN [account EXCEPT ![call[c].by].phone = TRUE]
         ELSE account
    /\ call' = [call EXCEPT ![c].op = "granted"]
    /\ UNCHANGED <<access, refresh, stored, current, route, mixed>>

(* An answer arrives that needs nothing of AuthService.                    *)
AnswerApi(c) ==
    /\ \/ call[c].op = "granted" /\ call[c].kind = "api"
       \/ call[c].op = "resent"
    /\ Answered(c)
    /\ UNCHANGED <<access, refresh, stored, current, account, route, mixed>>

(* verifyOTP, phoneLogin: storeAuth, and the page goes to the marketplace. *)
AnswerSignIn(c) ==
    /\ call[c].op = "granted" /\ call[c].kind = "sign_in"
    /\ LET a == call[c].by
       IN Remember([id |-> a, email |-> account[a].email,
                    phone |-> account[a].phone])
    /\ route' = "public"
    /\ Answered(c)
    /\ UNCHANGED <<account, mixed>>

(* Mutant of AnswerVerify: the stored user is not marked.                  *)
AnswerVerifyStale(c) ==
    /\ call[c].op = "granted" /\ call[c].kind \in {"verify_email", "verify_phone"}
    /\ IF SignedIn
       THEN /\ current' = IF call[c].kind = "verify_email"
                          THEN [current EXCEPT !.email = TRUE]
                          ELSE [current EXCEPT !.phone = TRUE]
            /\ UNCHANGED stored
            /\ mixed' = (mixed \/ current.id # call[c].by)
       ELSE UNCHANGED <<stored, current, mixed>>
    /\ Answered(c)
    /\ UNCHANGED <<access, refresh, account, route>>

(* verifyEmail, verifyPhone: whoever is signed in now is marked verified.  *)
AnswerVerify(c) ==
    /\ call[c].op = "granted" /\ call[c].kind \in {"verify_email", "verify_phone"}
    /\ IF SignedIn
       THEN /\ current' = IF call[c].kind = "verify_email"
                          THEN [current EXCEPT !.email = TRUE]
                          ELSE [current EXCEPT !.phone = TRUE]
            /\ stored' = current'
            /\ mixed' = (mixed \/ current.id # call[c].by)
       ELSE UNCHANGED <<stored, current, mixed>>
    /\ Answered(c)
    /\ UNCHANGED <<access, refresh, account, route>>

(* A first answer that is an error, and not a 401 that is refreshed.       *)
Refuse(c) ==
    /\ call[c].op = "sent"
    /\ Answered(c)
    /\ UNCHANGED <<access, refresh, stored, current, account, route, mixed>>

(* A 401: the interceptor asks for a new access token.                     *)
Unauthorized(c) ==
    /\ call[c].op = "sent" /\ call[c].kind = "api"
    /\ refresh # Nobody
    /\ call' = [call EXCEPT ![c] = [op |-> "refreshing", by |-> refresh]]
    /\ UNCHANGED <<access, refresh, stored, current, account, route, mixed>>

(* The new access token is stored, whoever is signed in now, and the       *)
(* request is sent again with it.                                          *)
Refreshed(c) ==
    /\ call[c].op = "refreshing"
    /\ access' = call[c].by
    /\ mixed' = (mixed \/ current.id # call[c].by)
    /\ call' = [call EXCEPT ![c].op = "resent"]
    /\ UNCHANGED <<refresh, stored, current, account, route>>

(* Mutant of RetryRefused: a second 401 refreshes again.                   *)
RefreshAgain(c) ==
    /\ call[c].op = "resent"
    /\ refresh # Nobody
    /\ call' = [call EXCEPT ![c] = [op |-> "refreshing", by |-> refresh]]
    /\ UNCHANGED <<access, refresh, stored, current, account, route, mixed>>

(* No new token, or any error answers the repeated request: signed out.    *)
RefreshRefused(c) ==
    /\ call[c].op = "refreshing"
    /\ Forget
    /\ Answered(c)
    /\ UNCHANGED <<account, mixed>>

RetryRefused(c) ==
    /\ call[c].op = "resent"
    /\ Forget
    /\ Answered(c)
    /\ UNCHANGED <<account, mixed>>

-----------------------------------------------------------------------------
SessionNext ==
    \/ \E r \in Route : Navigate(r)
    \/ OpenOwnProfile
    \/ Reload
    \/ LogOut
    \/ \E c \in Calls :
         \/ \E k \in Kind, a \in Accounts \cup {Nobody} : Send(c, k, a)
         \/ Grant(c)
         \/ AnswerApi(c)
         \/ AnswerSignIn(c)
         \/ AnswerVerify(c)
         \/ Refuse(c)
         \/ Unauthorized(c)
         \/ Refreshed(c)
         \/ RefreshRefused(c)
         \/ RetryRefused(c)

SessionSpec == SessionInit /\ [][SessionNext]_sessionVars

(* The server, or the network's failure, answers every request.            *)
SessionFairness ==
    \A c \in Calls :
        /\ WF_sessionVars(Grant(c) \/ Refuse(c) \/ Unauthorized(c))
        /\ WF_sessionVars(AnswerApi(c) \/ AnswerSignIn(c) \/ AnswerVerify(c))
        /\ WF_sessionVars(Refreshed(c) \/ RefreshRefused(c))

-----------------------------------------------------------------------------
SessionTypeOK ==
    /\ {access, refresh} \subseteq Accounts \cup {Nobody}
    /\ {stored, current} \subseteq User \cup {NoUser}
    /\ account \in [Accounts -> Verified]
    /\ call \in [Calls -> Call]
    /\ route \in Route
    /\ mixed \in BOOLEAN

(* What the browser remembers of a user belongs together, whichever        *)
(* answers, sign-outs and reloads came in between: the user on screen is   *)
(* the stored one and the refresh token is theirs, and nobody is shown as  *)
(* signed in without an access token.  The converse is not kept: an access *)
(* token refreshed after the user signed out stays without a user.         *)
RememberedTogether ==
    /\ current = stored
    /\ refresh = current.id
    /\ SignedIn => access # Nobody

(* A page behind authGuard is only on screen while there is an access      *)
(* token: every way of losing the token also leaves the page.              *)
PrivatePageHasToken == route = "private" => access # Nobody

(* Requests are sent with the token of the account on screen, and a        *)
(* verified e-mail address or phone on screen is verified on the server,   *)
(* until an answer first outlives the session that asked for it: it marks  *)
(* or equips whoever is signed in by then, and nothing undoes that.        *)
AccountsStayApart ==
    ~mixed /\ SignedIn =>
        /\ access = current.id
        /\ current.email => account[current.id].email
        /\ current.phone => account[current.id].phone

(* Every request ends, with an answer or an error: a request that is       *)
(* refused for its token is repeated once and never for ever.              *)
EveryCallEnds == \A c \in Calls : call[c] # Idle ~> call[c] = Idle
=============================================================================
