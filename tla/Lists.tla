------------------------------- MODULE Lists --------------------------------
(***************************************************************************)
(* The three pages of the web client that list what is the user's own:     *)
(* my jobs (my-jobs.component.ts), the conversations                       *)
(* (conversation-list.component.ts) and the notifications                  *)
(* (notification-list.component.ts).                                       *)
(*                                                                         *)
(* My jobs asks anew whenever a tab is pressed and shows whichever answer  *)
(* comes last. The notifications come in pages found by their offset,      *)
(* while others are made, marked as read and deleted.                      *)
(***************************************************************************)
EXTENDS Integers, Sequences, FiniteSets, SequencesExt

CONSTANTS
    JobCalls,       \* bound: requests of my jobs in flight at a time
    MaxNotices,     \* bound: notifications ever made
    Limit           \* notifications of a page

ASSUME ListsAssumption == Limit \in Nat \ {0} /\ MaxNotices \in Nat /\ JobCalls # {}

Tabs == {"posted", "applied", "completed"}
AllRows == 0
Empty == "none"

VARIABLES
    known,          \* auth.currentUser() is there
    mode, modeNext, \* the tab in the address, and the one being navigated to
    currentTab, jobs, jobsLoading, jobsError,
    jobCalls,       \* the tab each request asked for, or Empty
    rushed          \* ghost: see JobsAreOfTab

jobVars == <<known, mode, modeNext, currentTab, jobs, jobsLoading, jobsError, jobCalls,
             rushed>>

VARIABLES
    kept,           \* notifications of the server
    rows, total, offset, rowsLoading, rowsError,
    noticePage,     \* "asked" while one is on its way, else "no"
    leaving,        \* deletions on their way
    noticeAt,       \* "list", or "task" once a row's task was opened
    moved           \* ghost: see NoticesArePrefix

VARIABLES
    fresh,          \* notifications of the server that are unread
    bold,           \* notifications shown as unread
    marking         \* marks served and not answered: one's number, or AllRows

markVars == <<fresh, bold, marking>>
noticeVars == <<kept, rows, total, offset, rowsLoading, rowsError, noticePage, leaving,
                noticeAt, moved, markVars>>

VARIABLES talks, talksLoading, talksError, talkAt

talkVars == <<talks, talksLoading, talksError, talkAt>>
listVars == <<jobVars, noticeVars, talkVars>>

-----------------------------------------------------------------------------
(* My jobs                                                                 *)

(* What is below the tabs: an empty state offers to post or to browse.     *)
JobsScreen ==
    CASE jobsLoading -> "spinner"
      [] ~jobsLoading /\ jobsError -> "error"
      [] ~jobsLoading /\ ~jobsError -> IF jobs = Empty THEN "empty" ELSE "cards"

JobsAsked == \E c \in JobCalls : jobCalls[c] # Empty

(* loadTasks: without a user nothing is asked.                             *)
LoadJobs(tab, c) ==
    /\ jobCalls[c] = Empty
    /\ rushed' = (JobsAsked \/ modeNext' # tab)
    /\ jobs' = Empty /\ jobsError' = FALSE
    /\ jobsLoading' = known
    /\ jobCalls' = [jobCalls EXCEPT ![c] = IF known THEN tab ELSE Empty]

JobsInit ==
    /\ known \in BOOLEAN
    /\ mode \in Tabs /\ modeNext = mode /\ currentTab = mode
    /\ jobs = Empty /\ jobsError = FALSE /\ jobsLoading = known
    /\ rushed = FALSE
    /\ LET first == CHOOSE c \in JobCalls : TRUE
       IN  jobCalls = [c \in JobCalls |-> IF known /\ c = first THEN mode ELSE Empty]

(* onTabChange                                                             *)
PressTab(tab, c) ==
    /\ currentTab' = tab /\ modeNext' = tab
    /\ LoadJobs(tab, c)
    /\ UNCHANGED <<known, mode, noticeVars, talkVars>>

(* The navigation ends: the effect on mode sets the tab and loads nothing. *)
ModeArrives ==
    /\ modeNext # mode
    /\ mode' = modeNext /\ currentTab' = modeNext
    /\ UNCHANGED <<known, modeNext, jobs, jobsLoading, jobsError, jobCalls, rushed,
                   noticeVars, talkVars>>

(* The browser's back button                                               *)
GoBack(tab) ==
    /\ modeNext = mode /\ tab # mode
    /\ modeNext' = tab
    /\ rushed' = TRUE
    /\ UNCHANGED <<known, mode, currentTab, jobs, jobsLoading, jobsError, jobCalls,
                   noticeVars, talkVars>>

(* The answer of any request is shown, and ends the loading.               *)
JobsArrive(c) ==
    /\ jobCalls[c] # Empty
    /\ jobs' = jobCalls[c] /\ jobsLoading' = FALSE
    /\ jobCalls' = [jobCalls EXCEPT ![c] = Empty]
    /\ UNCHANGED <<known, mode, modeNext, currentTab, jobsError, rushed, noticeVars, talkVars>>

JobsFail(c) ==
    /\ jobCalls[c] # Empty
    /\ jobsLoading' = FALSE /\ jobsError' = TRUE
    /\ jobCalls' = [jobCalls EXCEPT ![c] = Empty]
    /\ UNCHANGED <<known, mode, modeNext, currentTab, jobs, rushed, noticeVars, talkVars>>

RetryJobs(c) ==
    /\ JobsScreen = "error"
    /\ UNCHANGED <<known, mode, modeNext, currentTab, noticeVars, talkVars>>
    /\ LoadJobs(currentTab, c)

JobsNext ==
    \/ ModeArrives
    \/ \E tab \in Tabs : GoBack(tab)
    \/ \E c \in JobCalls :
          JobsArrive(c) \/ JobsFail(c) \/ RetryJobs(c) \/ \E tab \in Tabs : PressTab(tab, c)

-----------------------------------------------------------------------------
(* The notifications                                                       *)

Ascending(S) ==
    [i \in 1..Cardinality(S) |-> CHOOSE n \in S : Cardinality({m \in S : m < n}) = i - 1]

(* List: notifications of the server, the latest first                     *)
NewestFirst(S) == Reverse(Ascending(S))
Rows(from, upto) ==
    LET all == NewestFirst(kept)
    IN  SubSeq(all, from + 1, IF upto < Len(all) THEN upto ELSE Len(all))
PageOf(from) == Rows(from, from + Limit)

NoticesInit ==
    /\ \E n \in 0..MaxNotices : kept = 1..n
    /\ rows = <<>> /\ total = 0 /\ offset = 0
    /\ rowsLoading = TRUE /\ rowsError = FALSE /\ noticePage = "asked"
    /\ leaving = {} /\ moved = FALSE /\ noticeAt = "list"
    /\ fresh \in SUBSET kept /\ bold = {} /\ marking = {}

NoticesScreen ==
    CASE noticeAt # "list" -> "left"
      [] noticeAt = "list" /\ rowsLoading -> "spinner"
      [] noticeAt = "list" /\ ~rowsLoading /\ rowsError -> "error"
      [] OTHER -> IF rows = <<>> THEN "empty" ELSE "rows"

(* hasMore                                                                 *)
MoreShown == NoticesScreen = "rows" /\ Len(rows) < total

Load == rowsLoading' = TRUE /\ rowsError' = FALSE /\ noticePage' = "asked"

(* Another notification is made: every later page begins one row earlier.  *)
NoticeMade ==
    /\ Cardinality(kept) < MaxNotices /\ kept # 1..MaxNotices
    /\ \E n \in 1..MaxNotices :
          /\ \A k \in kept : k < n
          /\ kept' = kept \cup {n} /\ fresh' = fresh \cup {n}
    /\ moved' = TRUE
    /\ UNCHANGED <<rows, total, offset, rowsLoading, rowsError, noticePage, leaving, noticeAt,
                   bold, marking, jobVars, talkVars>>

PageArrives ==
    /\ noticePage = "asked"
    /\ rows' = IF offset = 0 THEN PageOf(0) ELSE rows \o PageOf(offset)
    /\ total' = Cardinality(kept)
    /\ rowsLoading' = FALSE /\ noticePage' = "no"
    /\ moved' = IF offset = 0 THEN leaving # {} ELSE moved
    /\ bold' = (IF offset = 0 THEN {} ELSE bold) \cup (ToSet(PageOf(offset)) \cap fresh)
    /\ UNCHANGED <<kept, offset, rowsError, leaving, noticeAt, fresh, marking, jobVars, talkVars>>

PageFails ==
    /\ noticePage = "asked"
    /\ rowsLoading' = FALSE /\ rowsError' = TRUE /\ noticePage' = "no"
    /\ UNCHANGED <<kept, rows, total, offset, leaving, noticeAt, moved, markVars, jobVars, talkVars>>

(* retryLoad                                                               *)
RetryPage ==
    /\ NoticesScreen = "error"
    /\ offset' = 0
    /\ Load
    /\ UNCHANGED <<kept, rows, total, leaving, noticeAt, moved, markVars, jobVars, talkVars>>

(* loadMore, offered while hasMore: for ever, when the rows that lack were *)
(* skipped. MaxNotices bounds the offset; the pages behind it are empty.   *)
MorePages ==
    /\ MoreShown
    /\ offset < MaxNotices
    /\ offset' = offset + Limit
    /\ Load
    /\ UNCHANGED <<kept, rows, total, leaving, noticeAt, moved, markVars, jobVars, talkVars>>

(* deleteNotification: the row goes when the server has answered.          *)
DeleteRow(n) ==
    /\ NoticesScreen = "rows" /\ n \in ToSet(rows) /\ n \in kept /\ n \notin leaving
    /\ leaving' = leaving \cup {n}
    /\ kept' = kept \ {n} /\ fresh' = fresh \ {n}
    /\ moved' = TRUE
    /\ UNCHANGED <<rows, total, offset, rowsLoading, rowsError, noticePage, noticeAt, bold,
                   marking, jobVars, talkVars>>

(* The rows but those of one notification, as they stood                   *)
Without(s, n) ==
    LET left == Ascending({i \in DOMAIN s : s[i] # n})
    IN  [k \in DOMAIN left |-> s[left[k]]]

RowDeleted(n) ==
    /\ n \in leaving
    /\ leaving' = leaving \ {n}
    /\ rows' = Without(rows, n)
    /\ total' = total - 1
    /\ bold' = bold \ {n}
    /\ UNCHANGED <<kept, offset, rowsLoading, rowsError, noticePage, noticeAt, moved, fresh,
                   marking, jobVars, talkVars>>

(* The answer is lost: nothing is shown, and the row stays.                *)
DeletionLost(n) ==
    /\ n \in leaving
    /\ leaving' = leaving \ {n}
    /\ UNCHANGED <<kept, rows, total, offset, rowsLoading, rowsError, noticePage, noticeAt, moved,
                   markVars, jobVars, talkVars>>

(* markAllRead, offered above the rows and also above the spinner; the     *)
(* server marks every notification, and the answer every row on screen.    *)
MarkAll ==
    /\ noticeAt = "list" /\ rows # <<>> /\ AllRows \notin marking
    /\ fresh' = {} /\ marking' = marking \cup {AllRows}
    /\ UNCHANGED <<kept, rows, total, offset, rowsLoading, rowsError, noticePage, leaving,
                   noticeAt, moved, bold, jobVars, talkVars>>

(* onNotificationClick: one that is shown as unread is marked, unless it   *)
(* is gone; and if it is about a task, the task's page opens.              *)
ClickRow(n) ==
    /\ NoticesScreen = "rows" /\ n \in ToSet(rows)
    /\ IF n \in bold /\ n \in kept
       THEN fresh' = fresh \ {n} /\ marking' = marking \cup {n}
       ELSE UNCHANGED <<fresh, marking>>
    /\ noticeAt' \in {"list", "task"}
    /\ UNCHANGED <<kept, rows, total, offset, rowsLoading, rowsError, noticePage, leaving,
                   moved, bold, jobVars, talkVars>>

Marked(m) ==
    /\ m \in marking
    /\ bold' = IF m = AllRows THEN {} ELSE bold \ {m}
    /\ marking' = marking \ {m}
    /\ UNCHANGED <<kept, rows, total, offset, rowsLoading, rowsError, noticePage, leaving,
                   noticeAt, moved, fresh, jobVars, talkVars>>

(* The answer is lost: the rows are still shown as unread.                 *)
MarkLost(m) ==
    /\ m \in marking
    /\ marking' = marking \ {m}
    /\ UNCHANGED <<kept, rows, total, offset, rowsLoading, rowsError, noticePage, leaving,
                   noticeAt, moved, fresh, bold, jobVars, talkVars>>

Marks == {AllRows} \cup 1..MaxNotices

NoticesNext ==
    \/ NoticeMade \/ PageArrives \/ PageFails \/ RetryPage \/ MorePages \/ MarkAll
    \/ \E n \in 1..MaxNotices : DeleteRow(n) \/ RowDeleted(n) \/ DeletionLost(n) \/ ClickRow(n)
    \/ \E m \in Marks : Marked(m) \/ MarkLost(m)

-----------------------------------------------------------------------------
(* The conversations                                                       *)

TalksInit == talks = Empty /\ talksLoading = TRUE /\ talksError = FALSE /\ talkAt = "list"

TalksScreen ==
    CASE talksLoading -> "spinner"
      [] ~talksLoading /\ talksError -> "error"
      [] ~talksLoading /\ ~talksError -> talks

TalksArrive ==
    /\ talksLoading
    /\ talks' \in {"nobody", "some"} /\ talksLoading' = FALSE
    /\ UNCHANGED <<talksError, talkAt, jobVars, noticeVars>>

TalksFail ==
    /\ talksLoading
    /\ talksLoading' = FALSE /\ talksError' = TRUE
    /\ UNCHANGED <<talks, talkAt, jobVars, noticeVars>>

RetryTalks ==
    /\ talkAt = "list" /\ TalksScreen = "error"
    /\ talksLoading' = TRUE /\ talksError' = FALSE
    /\ UNCHANGED <<talks, talkAt, jobVars, noticeVars>>

LeaveTalks ==
    /\ talkAt = "list" /\ TalksScreen \in {"nobody", "some"}
    /\ talkAt' = IF talks = "some" THEN "conversation" ELSE "marketplace"
    /\ UNCHANGED <<talks, talksLoading, talksError, jobVars, noticeVars>>

TalksNext == TalksArrive \/ TalksFail \/ RetryTalks \/ LeaveTalks

ListsInit == JobsInit /\ NoticesInit /\ TalksInit

-----------------------------------------------------------------------------
ListsTypeOK ==
    /\ {known, jobsLoading, jobsError, rushed, rowsLoading, rowsError, moved,
        talksLoading, talksError} \subseteq BOOLEAN
    /\ {mode, modeNext, currentTab} \subseteq Tabs
    /\ jobs \in Tabs \cup {Empty}
    /\ jobCalls \in [JobCalls -> Tabs \cup {Empty}]
    /\ kept \subseteq 1..MaxNotices /\ leaving \subseteq 1..MaxNotices
    /\ ToSet(rows) \subseteq 1..MaxNotices
    /\ total \in -MaxNotices..MaxNotices /\ offset \in 0..MaxNotices + Limit
    /\ noticePage \in {"no", "asked"} /\ noticeAt \in {"list", "task"}
    /\ fresh \subseteq kept /\ bold \subseteq 1..MaxNotices /\ marking \subseteq Marks
    /\ talks \in {Empty, "nobody", "some"}
    /\ talkAt \in {"list", "conversation", "marketplace"}

(* My jobs shows the tasks of the tab that is on, and none while they are  *)
(* loaded, if they were asked for when no request was in flight, and the   *)
(* browser did not go back since: a tab pressed earlier is taken for the   *)
(* answer that comes last, and going back changes the tab alone.           *)
JobsAreOfTab == ~rushed => jobs \in {Empty, currentTab}

(* The notifications on screen are the latest ones of the server, without  *)
(* a gap or a repetition whatever pages failed and were asked again, while *)
(* none is made or deleted.                                                *)
NoticesArePrefix ==
    ~moved /\ NoticesScreen \in {"empty", "rows"} => rows = Rows(0, Len(rows)) /\ total = Cardinality(kept)
=============================================================================
