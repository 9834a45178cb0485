------------------------------ MODULE TaskForms -----------------------------
(***************************************************************************)
(* The forms about tasks: posting and editing one                          *)
(* (web/src/app/task-form/task-form.component.ts), applying for one        *)
(* (web/src/app/apply-task/apply-task.component.ts), and the profile gate  *)
(* that both may meet (web/src/app/core/profile-gate.service.ts and the    *)
(* profile completion drawer).                                             *)
(*                                                                         *)
(* When the server refuses to post a task or an application because the    *)
(* profile is incomplete, the gate opens a drawer over the form, saves     *)
(* the missing fields and submits the form again.                          *)
(***************************************************************************)
EXTENDS Integers

CONSTANTS
    FormCalls,      \* bound: calls in flight at a time
    MaxPresses      \* bound: presses of the submit button

ASSUME MaxPressesAssumption == MaxPresses \in Nat

VARIABLES
    \* on the server
    complete,       \* the profile has all that is needed
    posted,         \* tasks or applications made by this form
    \* the form
    kind,           \* "create", "edit" or "apply"
    formLoading,    \* there is no task to show the form for, yet or at all
    balance,        \* "loading", "known" or "unknown"
    ready,          \* the fields pass the checks of the form
    touched,        \* submitted, priceError: mistakes are shown
    saving,         \* saving, submitting: the button is disabled
    formAt,         \* "form", or where the user has gone
    going,          \* navigation that has started
    \* the gate
    gate,           \* activeRequest is set
    gateSaving,
    filled,         \* name and bio typed into the drawer
    formCalls,
    \* ghosts
    presses,        \* presses of the submit button that sent a call
    savedTwice      \* the drawer was submitted again while it was saving

formVars == <<kind, formLoading, balance, ready, touched, saving, formAt, going>>
gateVars == <<gate, gateSaving, filled>>
countVars == <<presses, savedTwice>>
formsVars == <<complete, posted, formVars, gateVars, formCalls, countVars>>

Idle == [op |-> "none", got |-> "none"]
FormCall == {Idle} \cup [op: {"load", "balance", "submit", "profile"},
                         got: {"none", "ok", "gated", "failed"}]

Ask(c, op) ==
    /\ formCalls[c] = Idle
    /\ formCalls' = [formCalls EXCEPT ![c] = [op |-> op, got |-> "none"]]

Done(c) == formCalls' = [formCalls EXCEPT ![c] = Idle]
Came(c, op, got) == formCalls[c] = [op |-> op, got |-> got]

(* ngOnInit of the form of the kind                                        *)
FormInit ==
    /\ complete \in BOOLEAN /\ posted = 0
    /\ kind \in {"create", "edit", "apply"}
    /\ formLoading = (kind # "create")
    /\ balance = IF kind = "apply" THEN "unknown" ELSE "loading"
    /\ ready = FALSE /\ touched = FALSE /\ saving = FALSE
    /\ formAt = "form" /\ going = "none"
    /\ gate = FALSE /\ gateSaving = FALSE /\ filled = FALSE
    /\ LET c == CHOOSE e \in FormCalls : TRUE
           d == CHOOSE e \in FormCalls : e # c
       IN  formCalls = [e \in FormCalls |->
                IF e = c /\ kind # "apply" THEN [op |-> "balance", got |-> "none"]
                ELSE IF e = d /\ kind # "create" THEN [op |-> "load", got |-> "none"]
                ELSE Idle]
    /\ presses = 0 /\ savedTwice = FALSE

-----------------------------------------------------------------------------
(* The server                                                              *)

Reply(c, got) == formCalls' = [formCalls EXCEPT ![c].got = got]

ServeSubmit(c) ==
    /\ Came(c, "submit", "none")
    /\ kind = "edit" \/ complete
    /\ kind = "apply" => posted = 0
    /\ posted' = IF kind = "edit" THEN posted ELSE posted + 1
    /\ Reply(c, "ok")
    /\ UNCHANGED <<complete, formVars, gateVars, countVars>>

ServeGate(c) ==
    /\ Came(c, "submit", "none")
    /\ kind # "edit" /\ ~complete
    /\ Reply(c, "gated")
    /\ UNCHANGED <<complete, posted, formVars, gateVars, countVars>>

ServeProfile(c) ==
    /\ Came(c, "profile", "none")
    /\ complete' = TRUE
    /\ Reply(c, "ok")
    /\ UNCHANGED <<posted, formVars, gateVars, countVars>>

ServeFormRead(c) ==
    /\ formCalls[c].op \in {"load", "balance"} /\ formCalls[c].got = "none"
    /\ Reply(c, "ok")
    /\ UNCHANGED <<complete, posted, formVars, gateVars, countVars>>

(* A call is refused or lost, on the way there or back.                    *)
FormCallFails(c) ==
    /\ formCalls[c] # Idle /\ formCalls[c].got # "failed"
    /\ Reply(c, "failed")
    /\ UNCHANGED <<complete, posted, formVars, gateVars, countVars>>

-----------------------------------------------------------------------------
(* The user; the open drawer lies over the form.                           *)

AtForm == formAt = "form" /\ ~formLoading /\ ~gate
TaskFields == AtForm /\ kind # "apply"
ApplicationFields == AtForm /\ kind = "apply"
SubmitButton == AtForm /\ ~saving
Drawer == gate

FillForm ==
    /\ TaskFields \/ ApplicationFields
    /\ ready' = ~ready
    /\ UNCHANGED <<complete, posted, kind, formLoading, balance, touched, saving,
                   formAt, going, gateVars, formCalls, countVars>>

(* What pressing the button sends, once the fields pass the checks         *)
Submit(c) ==
    /\ SubmitButton
    /\ IF ready
       THEN /\ presses < MaxPresses
            /\ presses' = presses + 1
            /\ saving' = TRUE
            /\ Ask(c, "submit")
       ELSE UNCHANGED <<presses, saving, formCalls>>
    /\ UNCHANGED <<complete, posted, kind, formLoading, balance, ready, formAt, going>>
    /\ UNCHANGED <<gateVars, savedTwice>>

(* onSubmit                                                                *)
SubmitTask(c) ==
    /\ kind # "apply"
    /\ touched' = TRUE
    /\ Submit(c)

(* submit                                                                  *)
SubmitApplication(c) ==
    /\ kind = "apply"
    /\ touched' = ~ready
    /\ Submit(c)

(* onCancel, cancel                                                        *)
Cancel ==
    /\ AtForm
    /\ going' = IF kind = "create" THEN "marketplace" ELSE "task"
    /\ UNCHANGED <<complete, posted, kind, formLoading, balance, ready, touched, saving,
                   formAt, gateVars, formCalls, countVars>>

(* The router arrives; until then the form is there and can be used.       *)
Arrive ==
    /\ going # "none"
    /\ formAt' = going /\ going' = "none"
    /\ UNCHANGED <<complete, posted, kind, formLoading, balance, ready, touched, saving,
                   gateVars, formCalls, countVars>>

(* Fields of the drawer keep what was typed from one opening to the next.  *)
FillDrawer ==
    /\ Drawer
    /\ filled' = ~filled
    /\ UNCHANGED <<complete, posted, formVars, gate, gateSaving, formCalls, countVars>>

(* onSubmit of the drawer, submitProfile.  While it saves the button is    *)
(* gone, but a form of one field is submitted by the enter key too.        *)
SubmitProfile(c) ==
    /\ Drawer /\ filled
    /\ Ask(c, "profile")
    /\ savedTwice' = (savedTwice \/ gateSaving)
    /\ gateSaving' = TRUE
    /\ UNCHANGED <<complete, posted, formVars, gate, filled, presses>>

(* dismiss, by the button                                                  *)
Dismiss ==
    /\ Drawer
    /\ gate' = FALSE /\ gateSaving' = FALSE
    /\ UNCHANGED <<complete, posted, formVars, filled, formCalls, countVars>>

(* goToProfile                                                             *)
GoToProfile ==
    /\ Drawer
    /\ gate' = FALSE /\ gateSaving' = FALSE
    /\ going' = "profile"
    /\ UNCHANGED <<complete, posted, kind, formLoading, balance, ready, touched, saving,
                   formAt, filled, formCalls, countVars>>

-----------------------------------------------------------------------------
(* Answers                                                                 *)

TaskLoaded(c) ==
    /\ kind = "edit"
    /\ Came(c, "load", "ok")
    /\ formLoading' = FALSE /\ ready' = TRUE
    /\ Done(c)
    /\ UNCHANGED <<complete, posted, kind, balance, touched, saving, formAt, going,
                   gateVars, countVars>>

(* The task to apply for; its price is proposed.                           *)
TargetLoaded(c) ==
    /\ kind = "apply"
    /\ Came(c, "load", "ok")
    /\ formLoading' = FALSE /\ ready' = TRUE
    /\ Done(c)
    /\ UNCHANGED <<complete, posted, kind, balance, touched, saving, formAt, going,
                   gateVars, countVars>>

NoSuchTask(c) ==
    /\ Came(c, "load", "failed")
    /\ formLoading' = (kind = "apply") /\ going' = "marketplace"
    /\ Done(c)
    /\ UNCHANGED <<complete, posted, kind, balance, ready, touched, saving, formAt,
                   gateVars, countVars>>

BalanceArrives(c) ==
    /\ formCalls[c].op = "balance" /\ formCalls[c].got # "none"
    /\ balance' = IF formCalls[c].got = "ok" THEN "known" ELSE "unknown"
    /\ Done(c)
    /\ UNCHANGED <<complete, posted, kind, formLoading, ready, touched, saving, formAt,
                   going, gateVars, countVars>>

(* The form can be used again until the router has arrived.                *)
Posted(c) ==
    /\ kind # "apply"
    /\ Came(c, "submit", "ok")
    /\ going' = "task" /\ saving' = FALSE
    /\ Done(c)
    /\ UNCHANGED <<complete, posted, kind, formLoading, balance, ready, touched, formAt,
                   gateVars, countVars>>

Applied(c) ==
    /\ kind = "apply"
    /\ Came(c, "submit", "ok")
    /\ going' = "task"
    /\ Done(c)
    /\ UNCHANGED <<complete, posted, kind, formLoading, balance, ready, touched, saving,
                   formAt, gateVars, countVars>>

(* openGate                                                                *)
Gated(c) ==
    /\ Came(c, "submit", "gated")
    /\ saving' = FALSE
    /\ gate' = TRUE
    /\ Done(c)
    /\ UNCHANGED <<complete, posted, kind, formLoading, balance, ready, touched, formAt,
                   going, gateSaving, filled, countVars>>

NotPosted(c) ==
    /\ Came(c, "submit", "failed")
    /\ saving' = FALSE
    /\ Done(c)
    /\ UNCHANGED <<complete, posted, kind, formLoading, balance, ready, touched, formAt,
                   going, gateVars, countVars>>

(* Mutant of CloseGate: the drawer stays open after it has done its work.  *)
KeepGate == gateSaving' = FALSE /\ UNCHANGED gate

CloseGate == gateSaving' = FALSE /\ gate' = FALSE

(* The profile is saved: the form is submitted again, even when the drawer *)
(* or the whole form has been left meanwhile.                              *)
GateProfileSaved(c) ==
    /\ Came(c, "profile", "ok")
    /\ CloseGate
    /\ touched' = (kind # "apply" \/ ~ready) /\ saving' = (saving \/ ready)
    /\ formCalls' = [formCalls EXCEPT ![c] =
                       IF ready THEN [op |-> "submit", got |-> "none"] ELSE Idle]
    /\ UNCHANGED <<complete, posted, kind, formLoading, balance, ready, formAt, going,
                   filled, countVars>>

GateProfileNotSaved(c) ==
    /\ Came(c, "profile", "failed")
    /\ gateSaving' = FALSE
    /\ Done(c)
    /\ UNCHANGED <<complete, posted, formVars, gate, filled, countVars>>

FormNext ==
    \/ FillForm \/ Cancel \/ Arrive \/ FillDrawer \/ Dismiss \/ GoToProfile
    \/ \E c \in FormCalls :
          \/ ServeSubmit(c) \/ ServeGate(c) \/ ServeProfile(c) \/ ServeFormRead(c)
          \/ FormCallFails(c) \/ SubmitTask(c) \/ SubmitApplication(c) \/ SubmitProfile(c)
          \/ TaskLoaded(c) \/ TargetLoaded(c) \/ NoSuchTask(c) \/ BalanceArrives(c)
          \/ Posted(c) \/ Applied(c) \/ Gated(c) \/ NotPosted(c)
          \/ GateProfileSaved(c) \/ GateProfileNotSaved(c)

FormSpec == FormInit /\ [][FormNext]_formsVars

-----------------------------------------------------------------------------
FormsTypeOK ==
    /\ {complete, formLoading, ready, touched, saving, gate, gateSaving, filled,
        savedTwice} \subseteq BOOLEAN
    /\ kind \in {"create", "edit", "apply"}
    /\ balance \in {"loading", "known", "unknown"}
    /\ formAt \in {"form", "task", "marketplace", "profile"}
    /\ going \in {"none", "task", "marketplace", "profile"}
    /\ formCalls \in [FormCalls -> FormCall]
    /\ presses \in 0..MaxPresses /\ posted \in Nat

(* Each press of the button posts at most one task or application, through *)
(* refusals, the drawer, the second submission it makes and failures in    *)
(* between, unless the drawer was submitted twice.                         *)
OnePerPress == savedTwice \/ posted <= presses
=============================================================================
