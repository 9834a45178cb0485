------------------------------ MODULE Realtime ------------------------------
(***************************************************************************)
(* Live messages in the web client: WebSocketService                       *)
(* (web/src/app/core/websocket.service.ts), the chat page                  *)
(* (chat/chat.component.ts), and the part of the server they see.          *)
(*                                                                         *)
(* The socket belongs to the application: the shell and the chat page both *)
(* ask for it, it reconnects by itself, and it outlives both of them.  The *)
(* page shows the history that it asked for over HTTP and appends what the *)
(* socket brings.  One conversation, of the user and a peer; messages are  *)
(* numbered as they are saved.                                             *)
(***************************************************************************)
EXTENDS Integers, Sequences, SequencesExt

CONSTANTS
    Sockets,        \* bound: sockets that exist at a time
    NoSocket,
    MaxRetries,     \* attempts to reconnect before the service gives up
    MaxMessages,    \* bound: messages saved
    MaxFrames,      \* bound: frames on their way to the server
    MaxTimers       \* bound: reconnect timers that run at a time

ASSUME SocketsAssumption == Sockets # {} /\ NoSocket \notin Sockets
ASSUME RealtimeBoundAssumption ==
    MaxRetries \in Nat /\ MaxMessages \in Nat /\ MaxFrames \in Nat
    /\ MaxTimers \in Nat \ {0}

VARIABLES
    token,      \* an access token is stored
    ws,         \* the service's socket
    sock,       \* what became of each socket
    retry,      \* retryCount
    timers,     \* reconnect timers that have not fired
    status,     \* connectionStatus
    up,         \* frames on their way to the server
    wire,       \* frames on their way to the browser
    room,       \* sockets in the room of the conversation
    saved,      \* who sent each message that is saved
    hub,        \* messages that the hub has yet to broadcast
    chatOpen,   \* the chat page is on screen
    history,    \* the page's request for the history
    shown,      \* messages on the page
    typing,     \* isTyping, and the timer that clears it
    overlap     \* the history held a message whose frame was still to come

serviceVars == <<token, ws, sock, retry, timers, status>>
serverVars == <<room, saved, hub>>
chatVars == <<chatOpen, history, shown, typing, overlap>>
realtimeVars == <<serviceVars, up, wire, serverVars, chatVars>>

TYPING == 0         \* a typing frame; a message frame is its number
Frame == 0..MaxMessages
Status == {"disconnected", "connecting", "connected", "reconnecting"}
NotAsked == [op |-> "none"]
History == {NotAsked, [op |-> "asked"], [op |-> "done"]}
           \cup [op: {"read"}, upTo: 0..MaxMessages]

RealtimeInit ==
    /\ token = TRUE
    /\ ws = NoSocket
    /\ sock = [s \in Sockets |-> "none"]
    /\ retry = 0 /\ timers = 0 /\ status = "disconnected"
    /\ up = [s \in Sockets |-> <<>>]
    /\ wire = [s \in Sockets |-> <<>>]
    /\ room = {} /\ saved = <<>> /\ hub = <<>>
    /\ chatOpen = FALSE /\ history = NotAsked /\ shown = <<>>
    /\ typing = FALSE /\ overlap = FALSE

-----------------------------------------------------------------------------
(* WebSocketService                                                        *)

(* A socket that does not exist yet.                                       *)
NewSocket == CHOOSE s \in Sockets : sock[s] = "none"

Open(s) ==
    /\ sock[s] = "none"
    /\ ws' = s
    /\ sock' = [sock EXCEPT ![s] = "connecting"]
    /\ status' = IF retry > 0 THEN "reconnecting" ELSE "connecting"

(* Mutant of Connect: the socket that is there is not looked at.           *)
ConnectAnyway ==
    IF ~token THEN UNCHANGED <<ws, sock, status>> ELSE Open(NewSocket)

(* connect                                                                 *)
Connect ==
    IF ~token \/ ws # NoSocket THEN UNCHANGED <<ws, sock, status>>
    ELSE Open(NewSocket)

(* The shell opens: ngOnInit.                                              *)
ShellConnects ==
    /\ Connect
    /\ UNCHANGED <<token, retry, timers, up, wire, serverVars, chatVars>>

(* onopen                                                                  *)
SocketOpens(s) ==
    /\ sock[s] = "connecting"
    /\ sock' = [sock EXCEPT ![s] = "open"]
    /\ retry' = 0
    /\ status' = "connected"
    /\ UNCHANGED <<token, ws, timers, up, wire, serverVars, chatVars>>

(* Mutant of ScheduleReconnect: attempts are not counted.                  *)
ScheduleUncounted ==
    IF retry >= MaxRetries
    THEN status' = "disconnected" /\ UNCHANGED <<retry, timers>>
    ELSE /\ timers' = timers + 1
         /\ status' = "reconnecting"
         /\ UNCHANGED retry

(* Mutant of ScheduleReconnect: one attempt more than MaxRetries.          *)
ScheduleOnceMore ==
    IF retry > MaxRetries
    THEN status' = "disconnected" /\ UNCHANGED <<retry, timers>>
    ELSE /\ timers' = timers + 1
         /\ retry' = retry + 1
         /\ status' = "reconnecting"

(* scheduleReconnect                                                       *)
ScheduleReconnect ==
    IF retry >= MaxRetries
    THEN status' = "disconnected" /\ UNCHANGED <<retry, timers>>
    ELSE /\ timers' = timers + 1
         /\ retry' = retry + 1
         /\ status' = "reconnecting"

(* onerror, onclose: the socket does not open, or the connection is lost   *)
(* with all that is on its way.                                            *)
SocketCloses(s) ==
    /\ sock[s] \in {"connecting", "open"}
    /\ timers < MaxTimers
    /\ sock' = [sock EXCEPT ![s] = "none"]
    /\ ws' = NoSocket
    /\ ScheduleReconnect
    /\ up' = [up EXCEPT ![s] = <<>>]
    /\ wire' = [wire EXCEPT ![s] = <<>>]
    /\ room' = room \ {s}
    /\ UNCHANGED <<token, saved, hub, chatVars>>

TimerFires ==
    /\ timers > 0
    /\ timers' = timers - 1
    /\ Connect
    /\ UNCHANGED <<token, retry, up, wire, serverVars, chatVars>>

(* send: dropped unless the socket is open.                                *)
Sent(f) ==
    IF ws # NoSocket /\ sock[ws] = "open"
    THEN [up EXCEPT ![ws] = Append(@, f)]
    ELSE up

-----------------------------------------------------------------------------
(* The server                                                              *)

(* handleJoinConversation, and handleSendMessage by this user: the sender  *)
(* is excluded from the broadcast and gets a confirmation instead.         *)
ServerReads(s) ==
    /\ up[s] # <<>>
    /\ IF Head(up[s]) = "join"
       THEN /\ room' = room \cup {s}
            /\ UNCHANGED <<saved, wire>>
       ELSE /\ Len(saved) < MaxMessages
            /\ saved' = Append(saved, "me")
            /\ wire' = [wire EXCEPT ![s] = Append(@, Len(saved'))]
            /\ UNCHANGED room
    /\ up' = [up EXCEPT ![s] = Tail(@)]
    /\ UNCHANGED <<serviceVars, hub, chatVars>>

PeerSends ==
    /\ Len(saved) < MaxMessages
    /\ saved' = Append(saved, "peer")
    /\ hub' = Append(hub, Len(saved'))
    /\ UNCHANGED <<serviceVars, up, wire, room, chatVars>>

PeerTypes ==
    /\ ~typing
    /\ TYPING \notin ToSet(hub) \cup UNION {ToSet(wire[s]) : s \in Sockets}
    /\ hub' = Append(hub, TYPING)
    /\ UNCHANGED <<serviceVars, up, wire, room, saved, chatVars>>

HubBroadcasts ==
    /\ hub # <<>>
    /\ wire' = [s \in Sockets |-> IF s \in room THEN Append(wire[s], Head(hub))
                                  ELSE wire[s]]
    /\ hub' = Tail(hub)
    /\ UNCHANGED <<serviceVars, up, room, saved, chatVars>>

HistoryRead ==
    /\ history.op = "asked"
    /\ history' = [op |-> "read", upTo |-> Len(saved)]
    /\ UNCHANGED <<serviceVars, up, wire, serverVars, chatOpen, shown, typing, overlap>>

-----------------------------------------------------------------------------
(* The chat page                                                           *)

(* ngOnInit.  A socket that connect has just created is not open yet, so   *)
(* the frame that joins the conversation is dropped.                       *)
OpenChat ==
    /\ token /\ ~chatOpen
    /\ Connect
    /\ up' = Sent("join")
    /\ \A s \in Sockets : Len(up'[s]) <= MaxFrames
    /\ chatOpen' = TRUE
    /\ history' = [op |-> "asked"]
    /\ shown' = <<>> /\ typing' = FALSE /\ overlap' = FALSE
    /\ UNCHANGED <<token, retry, timers, wire, serverVars>>

(* ngOnDestroy                                                             *)
LeavePage ==
    /\ chatOpen' = FALSE
    /\ history' = NotAsked
    /\ shown' = <<>> /\ typing' = FALSE /\ overlap' = FALSE

LeaveChat ==
    /\ chatOpen
    /\ LeavePage
    /\ UNCHANGED <<serviceVars, up, wire, serverVars>>

(* getMessages answers: what the page shows is replaced.                   *)
HistoryArrives ==
    /\ history.op = "read"
    /\ shown' = [i \in 1..history.upTo |-> i]
    /\ overlap' = \E i \in 1..history.upTo :
                      \/ i \in ToSet(hub)
                      \/ \E s \in Sockets : i \in ToSet(wire[s])
    /\ history' = [op |-> "done"]
    /\ UNCHANGED <<serviceVars, up, wire, serverVars, chatOpen, typing>>

HistoryFails ==
    /\ history.op = "asked"
    /\ history' = [op |-> "done"]
    /\ UNCHANGED <<serviceVars, up, wire, serverVars, chatOpen, shown, typing, overlap>>

(* The input is there once the history was answered.  (A chat_closed frame *)
(* would take it away: the server sends none.)                             *)
InputShown == chatOpen /\ history.op = "done"

(* sendMessage: the input is cleared even when the frame is dropped.       *)
SendMessage ==
    /\ InputShown
    /\ up' = Sent("message")
    /\ \A s \in Sockets : Len(up'[s]) <= MaxFrames
    /\ UNCHANGED <<serviceVars, wire, serverVars, chatVars>>

(* Mutant of HandleFrame: the peer's frame and the confirmation of one's   *)
(* own are shown, and so is what one has sent.                             *)
HandleTwice(f) ==
    IF f = TYPING THEN typing' = TRUE /\ UNCHANGED shown
    ELSE /\ shown' = IF saved[f] = "me" THEN shown \o <<f, f>> ELSE Append(shown, f)
         /\ typing' = FALSE

(* handleWsMessage: message and message_sent are appended alike.           *)
HandleFrame(f) ==
    IF f = TYPING THEN typing' = TRUE /\ UNCHANGED shown
    ELSE shown' = Append(shown, f) /\ typing' = FALSE

(* onmessage                                                               *)
FrameArrives(s) ==
    /\ wire[s] # <<>>
    /\ IF chatOpen THEN HandleFrame(Head(wire[s])) ELSE UNCHANGED <<shown, typing>>
    /\ wire' = [wire EXCEPT ![s] = Tail(@)]
    /\ UNCHANGED <<serviceVars, up, serverVars, chatOpen, history, overlap>>

TypingTimeout ==
    /\ typing
    /\ typing' = FALSE
    /\ UNCHANGED <<serviceVars, up, wire, serverVars, chatOpen, history, shown, overlap>>

(* Signing out leaves the page and the shell, but not the socket.          *)
SignOut ==
    /\ token
    /\ token' = FALSE
    /\ LeavePage
    /\ UNCHANGED <<ws, sock, retry, timers, status, up, wire, serverVars>>

SignIn ==
    /\ ~token
    /\ token' = TRUE
    /\ UNCHANGED <<ws, sock, retry, timers, status, up, wire, serverVars, chatVars>>

-----------------------------------------------------------------------------
RealtimeNext ==
    \/ PeerSends
    \/ PeerTypes
    \/ HubBroadcasts
    \/ HistoryRead
    \/ HistoryArrives
    \/ HistoryFails
    \/ LeaveChat
    \/ SendMessage
    \/ TypingTimeout
    \/ SignOut
    \/ SignIn
    \/ ShellConnects
    \/ OpenChat
    \/ TimerFires
    \/ \E s \in Sockets :
         \/ SocketOpens(s)
         \/ SocketCloses(s)
         \/ ServerReads(s)
         \/ FrameArrives(s)

RealtimeSpec == RealtimeInit /\ [][RealtimeNext]_realtimeVars

(* The browser settles every socket and fires every timer.                 *)
RealtimeFairness ==
    /\ \A s \in Sockets : WF_realtimeVars(SocketOpens(s) \/ SocketCloses(s))
    /\ WF_realtimeVars(TimerFires)

-----------------------------------------------------------------------------
RealtimeTypeOK ==
    /\ {token, chatOpen, typing, overlap} \subseteq BOOLEAN
    /\ ws \in Sockets \cup {NoSocket}
    /\ sock \in [Sockets -> {"none", "connecting", "open"}]
    /\ retry \in 0..MaxRetries /\ timers \in 0..MaxTimers
    /\ status \in Status
    /\ up \in [Sockets -> Seq({"join", "message"})]
    /\ wire \in [Sockets -> Seq(Frame)]
    /\ room \subseteq Sockets
    /\ saved \in Seq({"me", "peer"}) /\ Len(saved) <= MaxMessages
    /\ hub \in Seq(Frame)
    /\ history \in History
    /\ shown \in Seq(Frame)

(* The service has one socket at a time, whoever asks for it and however   *)
(* many timers run, and the status on screen is that of this socket: a     *)
(* second one would deliver every message twice.                           *)
OneSocket ==
    /\ \A s \in Sockets : sock[s] # "none" <=> s = ws
    /\ status = "connected" <=> ws # NoSocket /\ sock[ws] = "open"
    /\ status = "disconnected" => ws = NoSocket

(* A message is on the page once, and the messages of each side are in the *)
(* order in which they were saved, across reconnects and visits, until the *)
(* history first holds a message that the socket is still to bring, which  *)
(* is then shown twice.  That a message is not lost is not said: it is,    *)
(* while the socket is closed and when the history replaces it.            *)
ShownOnceInOrder ==
    ~overlap =>
        \A i, j \in DOMAIN shown : i < j =>
            /\ shown[i] # shown[j]
            /\ saved[shown[i]] = saved[shown[j]] => shown[i] < shown[j]

(* Reconnecting ends, connected again or given up, unless the user signs   *)
(* out meanwhile: the timer then fires for nothing, and the status says    *)
(* "reconnecting" to whoever signs in next.                                *)
ReconnectingEnds ==
    status = "reconnecting" /\ (timers > 0 \/ ws # NoSocket)
        ~> status \in {"connected", "disconnected"} \/ ~token
=============================================================================
