------------------------------ MODULE Profile -------------------------------
(***************************************************************************)
(* The profile page of the web client (profile/profile.component.ts; its   *)
(* phone dialog is in PhoneAuth).                                          *)
(*                                                                         *)
(* Loading, saving and uploading a picture each take what the server       *)
(* answers for the whole profile, in whatever order the answers come.      *)
(***************************************************************************)
EXTENDS Naturals

CONSTANTS
    People,         \* users
    OwnCalls,       \* bound: requests of the page in flight at a time
    MaxVersion,     \* bound: times a part of the profile is changed
    Stranger        \* nobody

ASSUME PeopleAssumption == Stranger \notin People /\ MaxVersion \in Nat

VARIABLES
    address,        \* the user the address of the page names
    me,             \* currentUser
    stored,         \* the server's profile of me: versions of its name and picture
    person,         \* user: whose profile is on screen, and which versions of it
    draft,          \* the version of the name in the form
    editing, profileLoading, profileSaving,
    ownCalls,
    crossedOver     \* ghost: an answer overtook another

ownVars == <<address, me, stored, person, draft, editing, profileLoading, profileSaving,
             ownCalls, crossedOver>>

-----------------------------------------------------------------------------
Versions == [name : 0..MaxVersion, picture : 0..MaxVersion]
First == [name |-> 0, picture |-> 0]
Seen(p, v) == [who |-> p, is |-> v]
NothingSeen == Seen(Stranger, First)
IdleCall == [op |-> "none", got |-> NothingSeen]

FreeOwn(c) == ownCalls[c] = IdleCall
OwnAsk(c, op) == ownCalls' = [ownCalls EXCEPT ![c] = [op |-> op, got |-> NothingSeen]]
OwnCallOver(c) == ownCalls' = [ownCalls EXCEPT ![c] = IdleCall]
OwnAnswered(c, op) == ownCalls[c].op = op /\ ownCalls[c].got # NothingSeen

(* isOwnProfile                                                            *)
Own == person.who = me

(* What the page shows of one's own profile, with its buttons; the form.   *)
OwnProfileShown == ~profileLoading /\ Own
EditForm == ~profileLoading /\ editing

(* ngOnInit: of the user the address names when the page is opened         *)
ProfileInit ==
    /\ address \in People /\ me \in People
    /\ stored = First /\ person = NothingSeen /\ draft = 0
    /\ editing = FALSE /\ profileLoading = TRUE /\ profileSaving = FALSE
    /\ ownCalls = [d \in OwnCalls |->
            IF d = CHOOSE c \in OwnCalls : TRUE THEN [op |-> "load", got |-> NothingSeen]
            ELSE IdleCall]
    /\ crossedOver = FALSE

(* The server answers, each request when it is served.                     *)
ServeOwn(c) ==
    /\ ownCalls[c].op # "none" /\ ownCalls[c].got = NothingSeen
    /\ LET op == ownCalls[c].op
       IN  /\ stored' = CASE op = "save" -> [stored EXCEPT !.name = draft]
                          [] op = "avatar" /\ stored.picture < MaxVersion ->
                                [stored EXCEPT !.picture = @ + 1]
                          [] OTHER -> stored
           /\ ownCalls' = [ownCalls EXCEPT ![c].got =
                 IF op = "load" THEN Seen(address, IF address = me THEN stored ELSE First)
                                ELSE Seen(me, stored')]
    /\ crossedOver' = (crossedOver \/ \E d \in OwnCalls \ {c} : ownCalls[d].got # NothingSeen)
    /\ UNCHANGED <<address, me, person, draft, editing, profileLoading, profileSaving>>

ProfileLoaded(c) ==
    /\ OwnAnswered(c, "load")
    /\ person' = ownCalls[c].got /\ draft' = ownCalls[c].got.is.name
    /\ profileLoading' = FALSE
    /\ OwnCallOver(c)
    /\ UNCHANGED <<address, me, stored, editing, profileSaving, crossedOver>>

(* Edit and cancel are one button, and keep what was typed.                *)
ToggleEditing ==
    /\ OwnProfileShown
    /\ editing' = ~editing
    /\ UNCHANGED <<address, me, stored, person, draft, profileLoading, profileSaving, ownCalls,
                   crossedOver>>

(* A field is typed into while nothing is being saved; while something is, *)
(* it is not modelled: the request took a copy of the fields.              *)
TypeName ==
    /\ EditForm /\ ~profileSaving /\ draft < MaxVersion
    /\ draft' = draft + 1
    /\ UNCHANGED <<address, me, stored, person, editing, profileLoading, profileSaving, ownCalls,
                   crossedOver>>

SaveProfile(c) ==
    /\ EditForm /\ ~profileSaving /\ FreeOwn(c)
    /\ profileSaving' = TRUE
    /\ OwnAsk(c, "save")
    /\ UNCHANGED <<address, me, stored, person, draft, editing, profileLoading, crossedOver>>

ProfileSaved(c) ==
    /\ OwnAnswered(c, "save")
    /\ person' = ownCalls[c].got
    /\ editing' = FALSE /\ profileSaving' = FALSE
    /\ OwnCallOver(c)
    /\ UNCHANGED <<address, me, stored, draft, profileLoading, crossedOver>>

(* onAvatarChange, at any time and any number of times                     *)
ChangeAvatar(c) ==
    /\ OwnProfileShown /\ FreeOwn(c)
    /\ OwnAsk(c, "avatar")
    /\ UNCHANGED <<address, me, stored, person, draft, editing, profileLoading, profileSaving,
                   crossedOver>>

AvatarChanged(c) ==
    /\ OwnAnswered(c, "avatar")
    /\ person' = ownCalls[c].got
    /\ OwnCallOver(c)
    /\ UNCHANGED <<address, me, stored, draft, editing, profileLoading, profileSaving,
                   crossedOver>>

(* A request fails, or its answer is lost after it was served.             *)
OwnCallFails(c) ==
    /\ ~FreeOwn(c)
    /\ profileLoading' = (profileLoading /\ ownCalls[c].op # "load")
    /\ profileSaving' = (profileSaving /\ ownCalls[c].op # "save")
    /\ crossedOver' = (crossedOver \/ ownCalls[c].got # NothingSeen)
    /\ OwnCallOver(c)
    /\ UNCHANGED <<address, me, stored, person, draft, editing>>

(* The link to another profile: the same page stays, and loads nothing.    *)
OpenOtherProfile(p) ==
    /\ p # address
    /\ address' = p
    /\ UNCHANGED <<me, stored, person, draft, editing, profileLoading, profileSaving, ownCalls,
                   crossedOver>>

ProfileNext ==
    \/ ToggleEditing \/ TypeName
    \/ \E c \in OwnCalls :
          \/ ServeOwn(c) \/ ProfileLoaded(c) \/ SaveProfile(c) \/ ProfileSaved(c)
          \/ ChangeAvatar(c) \/ AvatarChanged(c) \/ OwnCallFails(c)
    \/ \E p \in People : OpenOtherProfile(p)

-----------------------------------------------------------------------------
ProfileTypeOK ==
    /\ {address, me} \subseteq People
    /\ stored \in Versions
    /\ person \in [who : People \cup {Stranger}, is : Versions] /\ draft \in 0..MaxVersion
    /\ {editing, profileLoading, profileSaving, crossedOver} \subseteq BOOLEAN
    /\ \A c \in OwnCalls : ownCalls[c] \in
          [op : {"none", "load", "save", "avatar"}, got : [who : People \cup {Stranger}, is : Versions]]

(* The profile of the user on screen is the server's when nothing is       *)
(* awaited, whatever was saved and uploaded in between, unless two answers *)
(* were on their way at once or one was lost.                              *)
ProfileIsCurrent ==
    (\A c \in OwnCalls : FreeOwn(c)) /\ ~crossedOver /\ Own => person.is = stored
=============================================================================
