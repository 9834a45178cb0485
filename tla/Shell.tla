------------------------------- MODULE Shell --------------------------------
(***************************************************************************)
(* The frame around every page of the web client                           *)
(* (web/src/app/layout/shell.component.ts): the bell with its badge and    *)
(* panel of notifications, and the user menu.                              *)
(*                                                                         *)
(* The badge starts from a count the server gives, grows with every        *)
(* notification pushed over the socket, and is reset when the server has   *)
(* marked everything as read; pushes and answers overtake one another. The *)
(* page of notifications (Lists) works on the same rows of the server and  *)
(* tells the shell nothing.                                                *)
(***************************************************************************)
EXTENDS Integers, FiniteSets

CONSTANTS
    Notes,          \* notifications
    ShellCalls      \* bound: calls of the shell in flight at a time

ASSUME ShellAssumption == IsFiniteSet(Notes) /\ ShellCalls # {}

VARIABLES
    notes,          \* on the server: "none", "unread", "read" or "deleted"
    pushes,         \* notifications on their way over the socket
    badge,          \* unreadCount
    panel,          \* notifMenuOpen
    listed,         \* notifications of the panel, as they were listed
    listLoading,    \* notifLoading
    userMenu,       \* userMenuOpen
    shellCalls,
    missed          \* ghost: see BadgeCoversUnread

bellVars == <<badge, panel, listed, listLoading, userMenu>>
shellVars == <<notes, pushes, bellVars, shellCalls, missed>>

Quiet == [op |-> "none", note |-> "none", got |-> "none", count |-> 0]
ShellCall == {Quiet} \cup
    [op: {"count", "list", "readall", "read"}, note: Notes \cup {"none"},
     got: {"none", "ok", "failed"}, count: 0..Cardinality(Notes)]

Unread == {n \in Notes : notes[n] = "unread"}

Sent(op, n) == [op |-> op, note |-> n, got |-> "none", count |-> 0]
SendCall(c, op, n) ==
    /\ shellCalls[c] = Quiet
    /\ shellCalls' = [shellCalls EXCEPT ![c] = Sent(op, n)]
CallOver(c) == shellCalls' = [shellCalls EXCEPT ![c] = Quiet]
Has(c, op, got) == shellCalls[c].op = op /\ shellCalls[c].got = got

(* An answer is under way that will overwrite the badge.                   *)
Overwriting == \E c \in ShellCalls : Has(c, "count", "ok") \/ Has(c, "readall", "ok")

(* ngOnInit of a signed-in user                                            *)
ShellInit ==
    /\ notes \in [Notes -> {"none", "unread", "read"}]
    /\ pushes = {}
    /\ badge = 0 /\ panel = FALSE /\ listLoading = FALSE
    /\ listed = [n \in Notes |-> "none"]
    /\ userMenu = FALSE
    /\ shellCalls = [d \in ShellCalls |->
            IF d = CHOOSE c \in ShellCalls : TRUE THEN Sent("count", "none") ELSE Quiet]
    /\ missed = FALSE

-----------------------------------------------------------------------------
(* The server and the socket                                               *)

Notify(n) ==
    /\ notes[n] = "none"
    /\ notes' = [notes EXCEPT ![n] = "unread"]
    /\ \/ pushes' = pushes \cup {n} /\ UNCHANGED missed
       \/ missed' = TRUE /\ UNCHANGED pushes        \* the socket is closed
    /\ UNCHANGED <<bellVars, shellCalls>>

(* All of them, one of them and the row of one, on the page of             *)
(* notifications: markAllRead, onNotificationClick, deleteNotification.    *)
AllMarked == [n \in Notes |-> IF notes[n] = "unread" THEN "read" ELSE notes[n]]

PageReadsAll ==
    /\ notes' = AllMarked
    /\ UNCHANGED <<pushes, bellVars, shellCalls, missed>>

PageReads(n) ==
    /\ notes[n] = "unread"
    /\ notes' = [notes EXCEPT ![n] = "read"]
    /\ UNCHANGED <<pushes, bellVars, shellCalls, missed>>

PageDeletes(n) ==
    /\ notes[n] \in {"unread", "read"}
    /\ notes' = [notes EXCEPT ![n] = "deleted"]
    /\ UNCHANGED <<pushes, bellVars, shellCalls, missed>>

Serve(c, op) ==
    /\ Has(c, op, "none")
    /\ shellCalls' = [shellCalls EXCEPT ![c].got = "ok",
                          ![c].count = IF op = "count" THEN Cardinality(Unread) ELSE 0]
    /\ UNCHANGED <<pushes, bellVars, missed>>

ServeCount(c) == Serve(c, "count") /\ UNCHANGED notes
ServeReadAll(c) ==
    /\ Serve(c, "readall")
    /\ notes' = AllMarked
ServeRead(c) ==
    /\ Serve(c, "read")
    /\ notes[shellCalls[c].note] # "deleted"
    /\ notes' = [notes EXCEPT ![shellCalls[c].note] = "read"]

LoseCall(c) ==
    /\ shellCalls[c].got \in {"none", "ok"} /\ shellCalls[c] # Quiet
    /\ shellCalls' = [shellCalls EXCEPT ![c].got = "failed"]
    /\ missed' = (missed \/ shellCalls[c].op = "count")
    /\ UNCHANGED <<notes, pushes, bellVars>>

-----------------------------------------------------------------------------
(* The bell                                                                *)

PushArrives(n) ==
    /\ n \in pushes
    /\ pushes' = pushes \ {n}
    /\ badge' = badge + 1
    /\ missed' = (missed \/ Overwriting)
    /\ UNCHANGED <<notes, panel, listed, listLoading, userMenu, shellCalls>>

CountArrives(c) ==
    /\ Has(c, "count", "ok")
    /\ badge' = shellCalls[c].count
    /\ CallOver(c)
    /\ UNCHANGED <<notes, pushes, panel, listed, listLoading, userMenu, missed>>

(* toggleNotifMenu, which loads the list when it opens the panel           *)
OpenPanel(c) ==
    /\ ~panel
    /\ panel' = TRUE /\ listLoading' = TRUE /\ userMenu' = FALSE
    /\ SendCall(c, "list", "none")
    /\ UNCHANGED <<notes, pushes, badge, listed, missed>>

(* The bell again, a click outside, or the link to all notifications       *)
ClosePanel ==
    /\ panel
    /\ panel' = FALSE
    /\ UNCHANGED <<notes, pushes, badge, listed, listLoading, userMenu, shellCalls, missed>>

(* loadNotifications: once listed, everything is marked as read.           *)
ListArrives(c) ==
    /\ Has(c, "list", "none")
    /\ listed' = [n \in Notes |-> IF notes[n] = "deleted" THEN "none" ELSE notes[n]]
    /\ listLoading' = FALSE
    /\ shellCalls' = [shellCalls EXCEPT ![c] = Sent("readall", "none")]
    /\ UNCHANGED <<notes, pushes, badge, panel, userMenu, missed>>

ReadAllArrives(c) ==
    /\ Has(c, "readall", "ok")
    /\ badge' = 0
    /\ CallOver(c)
    /\ UNCHANGED <<notes, pushes, panel, listed, listLoading, userMenu, missed>>

(* The rows of the panel, once they are loaded                             *)
PanelRows == {n \in Notes : panel /\ ~listLoading /\ listed[n] # "none"}

(* onNotifClick: an unread one is marked, and its task shown.              *)
ClickNote(n, c) ==
    /\ n \in PanelRows
    /\ IF listed[n] = "unread" THEN SendCall(c, "read", n) ELSE UNCHANGED shellCalls
    /\ panel' = FALSE
    /\ UNCHANGED <<notes, pushes, badge, listed, listLoading, userMenu, missed>>

ReadArrives(c) ==
    /\ Has(c, "read", "ok")
    /\ listed' = [listed EXCEPT ![shellCalls[c].note] = IF @ = "none" THEN "none" ELSE "read"]
    /\ CallOver(c)
    /\ UNCHANGED <<notes, pushes, badge, panel, listLoading, userMenu, missed>>

CallFailed(c) ==
    /\ shellCalls[c].got = "failed"
    /\ listLoading' = (listLoading /\ shellCalls[c].op # "list")
    /\ CallOver(c)
    /\ UNCHANGED <<notes, pushes, badge, panel, listed, userMenu, missed>>

-----------------------------------------------------------------------------
(* toggleUserMenu; the menu also closes on a click outside or escape.      *)
ToggleUserMenu ==
    /\ userMenu' = ~userMenu /\ panel' = FALSE
    /\ UNCHANGED <<notes, pushes, badge, listed, listLoading, shellCalls, missed>>

ShellNext ==
    \/ \E n \in Notes : Notify(n) \/ PageReads(n) \/ PageDeletes(n) \/ PushArrives(n)
    \/ PageReadsAll
    \/ ClosePanel \/ ToggleUserMenu
    \/ \E c \in ShellCalls :
          \/ ServeCount(c) \/ ServeReadAll(c) \/ ServeRead(c)
          \/ LoseCall(c) \/ CallFailed(c)
          \/ CountArrives(c) \/ OpenPanel(c) \/ ListArrives(c) \/ ReadAllArrives(c)
          \/ ReadArrives(c)
          \/ \E n \in Notes : ClickNote(n, c)

ShellSpec == ShellInit /\ [][ShellNext]_shellVars

-----------------------------------------------------------------------------
ShellTypeOK ==
    /\ notes \in [Notes -> {"none", "unread", "read", "deleted"}]
    /\ listed \in [Notes -> {"none", "unread", "read"}]
    /\ pushes \subseteq Notes
    /\ badge \in 0..2 * Cardinality(Notes)   \* counted by the server and pushed
    /\ {panel, listLoading, userMenu, missed} \subseteq BOOLEAN
    /\ shellCalls \in [ShellCalls -> ShellCall]

(* The bell hides no notification that is unread: once the first count has *)
(* come, the badge and the pushes on their way make up for every one, in   *)
(* whatever order counts, pushes, marks and deletions are served and       *)
(* answered. The exceptions are the three ways in which the shell does     *)
(* lose one: it is pushed while the answer of a count or of a mark of all  *)
(* is on its way, it is made while the socket is closed, or the count      *)
(* fails. The badge may say more than is unread: what the page of          *)
(* notifications marks or deletes stays in it until the panel is opened.   *)
BadgeCoversUnread ==
    ~missed /\ (\A c \in ShellCalls : shellCalls[c].op # "count") =>
        badge + Cardinality(pushes) >= Cardinality(Unread)
=============================================================================
