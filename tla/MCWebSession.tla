--------------------------- MODULE MCWebSession ----------------------------
(***************************************************************************)
(* Small instances of the modules about who is signed in to the web client *)
(* and what its connection brings. They share no state: a behaviour plays  *)
(* one scene, the one that `scene` names, and the others do not begin.     *)
(***************************************************************************)
EXTENDS Session, PhoneAuth, Realtime, Account

VARIABLE scene

webVars == <<scene, sessionVars, phoneVars, realtimeVars, accountVars>>

(* The scenes that are not on do not move.                                 *)
Play(s) ==
    /\ scene = s /\ UNCHANGED scene
    /\ IF s = "session" THEN SessionNext ELSE UNCHANGED sessionVars
    /\ IF s = "phone" THEN PhoneNext ELSE UNCHANGED phoneVars
    /\ IF s = "realtime" THEN RealtimeNext ELSE UNCHANGED realtimeVars
    /\ CASE s = "email" -> EmailNext [] s = "links" -> LinksNext
         [] OTHER -> UNCHANGED accountVars

Scenes == {"session", "phone", "realtime", "email", "links"}

WebInit ==
    /\ scene \in Scenes
    /\ SessionInit /\ PhoneInit /\ RealtimeInit /\ EmailInit /\ LinksInit

WebNext == \E s \in Scenes : Play(s)

WebSpec == WebInit /\ [][WebNext]_webVars /\ SessionFairness /\ RealtimeFairness

-----------------------------------------------------------------------------
(* Every field of the four modules has its type.                           *)
WebTypeOK == SessionTypeOK /\ PhoneTypeOK /\ RealtimeTypeOK /\ AccountTypeOK

(* On both sign-in pages the code that is asked for belongs to the number  *)
(* or the address on screen, however calls overlap with those of other     *)
(* pages, unless it comes late or the address was typed over: see          *)
(* PhoneAuth.CodeIsForNumberShown and Account.CodeIsForEmailShown.         *)
CodeIsForWhatIsShown == CodeIsForNumberShown /\ CodeIsForEmailShown
=============================================================================
