-------------------------------- MODULE Chat --------------------------------
(***************************************************************************)
(* Real-time chat: the hub goroutine and the two goroutines of each        *)
(* connection (server/internal/websocket/hub.go, client.go), what          *)
(* MessageService (.../services/message.go) does for the frames a client   *)
(* sends, and NotificationService's use of the hub.                        *)
(*                                                                         *)
(* The goroutines meet in channels: Register and Unregister are            *)
(* unbuffered, Broadcast is a queue, and every connection has a queue of   *)
(* frames to write.  The maps of the hub are under a read-write lock: what *)
(* runs under the exclusive lock is one action, what runs under the shared *)
(* lock is split, because others run meanwhile.  Sending on a closed       *)
(* channel, or closing it again, ends the process: panicked.               *)
(***************************************************************************)
EXTENDS Integers, Sequences

CONSTANTS
    Users,          \* user ids
    Conns,          \* connections that can be made (Client objects)
    Owner,          \* Client.UserID of a connection
    Conversations,  \* ids of conversations
    Members,        \* the poster and the tasker of a conversation
    SendCap,        \* capacity of Client.send
    BroadcastCap,   \* capacity of Hub.Broadcast
    MaxMessages,    \* bound: message rows that can be created
    MaxInputs,      \* bound: frames read and notifications sent
    NoConn          \* nil

ASSUME OwnerAssumption == Owner \in [Conns -> Users]
ASSUME MembersAssumption == Members \in [Conversations -> SUBSET Users]
ASSUME CapAssumption == SendCap \in Nat \ {0} /\ BroadcastCap \in Nat \ {0}
ASSUME BoundAssumption == MaxMessages \in Nat /\ MaxInputs \in Nat
ASSUME NoConnAssumption == NoConn \notin Conns

VARIABLES
    clients,    \* Hub.clients: the connection of a user
    rooms,      \* Hub.conversations: the connections in a conversation
    broadcast,  \* Hub.Broadcast
    hub,        \* where the hub goroutine is
    send,       \* Client.send
    closed,     \* connections whose send channel is closed
    reader,     \* where readPump is
    open,       \* connections whose socket is open
    message,    \* messages, as stored and as handed to the hub by pointer
    notifier,   \* connection a notification is about to be sent to
    out,        \* messages written to a socket, as they were when written
    dropped,    \* connections closed because send was full
    panicked,   \* the process has ended
    inputs      \* number of frames read and notifications sent

maps == <<clients, rooms>>
logs == <<message, out, dropped>>
vars == <<maps, broadcast, hub, send, closed, reader, open, logs, notifier, panicked,
          inputs>>

(* A frame is a message, by its number, or one of those without a message  *)
(* (typing, joined, read_confirmed, notification, error).                  *)
Messages == 1..MaxMessages
OtherFrame == 0
Frames == Messages \cup {OtherFrame}

At(op) == [op |-> op]
Idle == At("idle")

Post == [conv: Conversations, frame: Frames, exclude: Users]

HubState ==
    {Idle}
    \cup [op: {"register", "unregister"}, conn: Conns]
    \cup [op: {"deliver"}, post: Post, left: SUBSET Conns]

ReaderState ==
    {At("none"), At("read"), At("reply"), At("error"), At("done")}
    \cup [op: {"queue"}, post: Post]
    \cup [op: {"confirm"}, frame: Messages]

MessageRow == [conv: Conversations, from: Conns, type: {"message", "message_sent"}]
Written == [id: Messages, type: {"message", "message_sent"}]

Goto(c, s) == reader' = [reader EXCEPT ![c] = s]

Input == inputs < MaxInputs /\ inputs' = inputs + 1

(* The exclusive lock is free: nobody holds the shared one.                *)
LockFree == notifier = NoConn /\ hub.op # "deliver"

(* A send that does not wait, as in Client.Send: a frame is dropped when   *)
(* the queue is full.                                                      *)
SendOrDrop(c, frame) ==
    IF c \in closed THEN panicked' = TRUE /\ UNCHANGED send
    ELSE /\ send' = IF Len(send[c]) < SendCap
                    THEN [send EXCEPT ![c] = Append(@, frame)] ELSE send
         /\ UNCHANGED panicked

-----------------------------------------------------------------------------
(* HandleWebSocket: the connection is offered to the hub, and the two      *)
(* pumps are started as soon as the hub has taken it.  Nothing is read     *)
(* from the socket before.                                                 *)
Connect(c) ==
    /\ ~panicked
    /\ hub = Idle
    /\ reader[c] = At("none")
    /\ hub' = [op |-> "register", conn |-> c]
    /\ Goto(c, At("read"))
    /\ open' = open \cup {c}
    /\ UNCHANGED <<maps, broadcast, send, closed, logs, notifier, panicked, inputs>>

(* The peer leaves, a deadline passes, or a write fails.                   *)
Disconnect(c) ==
    /\ ~panicked
    /\ c \in open
    /\ open' = open \ {c}
    /\ UNCHANGED <<maps, broadcast, hub, send, closed, reader, logs, notifier, panicked,
                   inputs>>

-----------------------------------------------------------------------------
(* readPump and the handlers of MessageService.                            *)

(* A frame is read from an open socket.                                    *)
Reads(c) == ~panicked /\ reader[c] = At("read") /\ c \in open /\ Input

(* handleChatMessage stores the message...                                 *)
StoreMessage(c, k) ==
    /\ Reads(c)
    /\ Owner[c] \in Members[k]
    /\ Len(message) < MaxMessages
    /\ message' = Append(message, [conv |-> k, from |-> c, type |-> "message"])
    /\ Goto(c, [op |-> "queue", post |-> [conv |-> k, frame |-> Len(message) + 1,
                                          exclude |-> Owner[c]]])
    /\ UNCHANGED <<maps, broadcast, hub, send, closed, open, out, dropped, notifier,
                   panicked>>

(* ... and handleTypingIndicator stores nothing ...                        *)
Typing(c, k) ==
    /\ Reads(c)
    /\ Owner[c] \in Members[k]
    /\ Goto(c, [op |-> "queue", post |-> [conv |-> k, frame |-> OtherFrame,
                                          exclude |-> Owner[c]]])
    /\ UNCHANGED <<maps, broadcast, hub, send, closed, open, logs, notifier, panicked>>

(* ... before they hand a pointer to the hub, waiting while the queue is   *)
(* full ...                                                                *)
QueueBroadcast(c) ==
    /\ ~panicked
    /\ reader[c].op = "queue"
    /\ Len(broadcast) < BroadcastCap
    /\ LET post == reader[c].post
       IN  /\ broadcast' = Append(broadcast, post)
           /\ Goto(c, IF post.frame = OtherFrame THEN At("read")
                      ELSE [op |-> "confirm", frame |-> post.frame])
    /\ UNCHANGED <<maps, hub, send, closed, open, logs, notifier, panicked, inputs>>

(* Mutant of Confirm: the sender's connections get a post as well.         *)
ConfirmByBroadcast(c) ==
    /\ ~panicked
    /\ reader[c].op = "confirm"
    /\ Len(broadcast) < BroadcastCap
    /\ LET frame == reader[c].frame
       IN  /\ message' = [message EXCEPT ![frame].type = "message_sent"]
           /\ broadcast' = Append(broadcast, [conv |-> message[frame].conv,
                                  frame |-> frame, exclude |-> Owner[c]])
    /\ Goto(c, At("read"))
    /\ UNCHANGED <<maps, hub, send, closed, open, out, dropped, notifier, panicked,
                   inputs>>

(* ... and the sender of a message gets the same object, as confirmation.  *)
Confirm(c) ==
    /\ ~panicked
    /\ reader[c].op = "confirm"
    /\ LET frame == reader[c].frame
       IN  /\ message' = [message EXCEPT ![frame].type = "message_sent"]
           /\ SendOrDrop(c, frame)
    /\ Goto(c, At("read"))
    /\ UNCHANGED <<maps, broadcast, hub, closed, open, out, dropped, notifier, inputs>>

(* handleJoinConversation and Hub.JoinConversation ...                     *)
JoinConversation(c, k) ==
    /\ Reads(c)
    /\ Owner[c] \in Members[k]
    /\ LockFree
    /\ rooms' = [rooms EXCEPT ![k] = @ \cup {c}]
    /\ Goto(c, At("reply"))
    /\ UNCHANGED <<clients, broadcast, hub, send, closed, open, logs, notifier, panicked>>

(* ... and handleReadReceipt, whose flags in the messages table are not    *)
(* kept here ...                                                           *)
ReadReceipt(c) ==
    /\ Reads(c)
    /\ Goto(c, At("reply"))
    /\ UNCHANGED <<maps, broadcast, hub, send, closed, open, logs, notifier, panicked>>

(* ... are confirmed.                                                      *)
Reply(c) ==
    /\ ~panicked
    /\ reader[c] = At("reply")
    /\ SendOrDrop(c, OtherFrame)
    /\ Goto(c, At("read"))
    /\ UNCHANGED <<maps, broadcast, hub, closed, open, logs, notifier, inputs>>

(* A frame of an unknown type, a conversation that does not exist or is    *)
(* others', a failed query: the error is sent back, waiting for room.      *)
HandleFails(c) ==
    /\ Reads(c)
    /\ Goto(c, At("error"))
    /\ UNCHANGED <<maps, broadcast, hub, send, closed, open, logs, notifier, panicked>>

SendError(c) ==
    /\ ~panicked
    /\ reader[c] = At("error")
    /\ c \in closed \/ Len(send[c]) < SendCap
    /\ SendOrDrop(c, OtherFrame)
    /\ Goto(c, At("read"))
    /\ UNCHANGED <<maps, broadcast, hub, closed, open, logs, notifier, inputs>>

(* Reading fails once the socket is closed, or because what came is not    *)
(* JSON.  readPump then waits until the hub takes the connection, closes   *)
(* the socket and ends.                                                    *)
Leave(c) ==
    /\ ~panicked
    /\ hub = Idle
    /\ reader[c] = At("read")
    /\ hub' = [op |-> "unregister", conn |-> c]
    /\ open' = open \ {c}
    /\ Goto(c, At("done"))
    /\ UNCHANGED <<maps, broadcast, send, closed, logs, notifier, panicked, inputs>>

-----------------------------------------------------------------------------
(* writePump.  Once the socket is closed it writes nothing any more, and   *)
(* ends with the next frame or ping.                                       *)

(* The object is encoded now, whatever it was when it was queued.          *)
WriteFrame(c) ==
    /\ ~panicked
    /\ c \in open
    /\ send[c] # <<>>
    /\ LET frame == Head(send[c])
       IN  out' = IF frame = OtherFrame THEN out
                  ELSE [out EXCEPT ![c] =
                          Append(@, [id |-> frame, type |-> message[frame].type])]
    /\ send' = [send EXCEPT ![c] = Tail(@)]
    /\ UNCHANGED <<maps, broadcast, hub, closed, reader, open, message, dropped, notifier,
                   panicked, inputs>>

(* A closed channel is emptied first; then the socket is closed.           *)
WriterEnds(c) ==
    /\ ~panicked
    /\ c \in open
    /\ c \in closed /\ send[c] = <<>>
    /\ open' = open \ {c}
    /\ UNCHANGED <<maps, broadcast, hub, send, closed, reader, logs, notifier, panicked,
                   inputs>>

-----------------------------------------------------------------------------
(* Hub.Run.                                                                *)

RegisterClient(c) ==
    /\ ~panicked
    /\ hub = [op |-> "register", conn |-> c]
    /\ LockFree
    /\ clients' = [clients EXCEPT ![Owner[c]] = c]
    /\ hub' = Idle
    /\ UNCHANGED <<rooms, broadcast, send, closed, reader, open, logs, notifier, panicked,
                   inputs>>

(* The entry of the user is removed whichever connection it is, and the    *)
(* channel of this connection is closed only if there was an entry.        *)
Unregistered(c) ==
    /\ ~panicked
    /\ hub = [op |-> "unregister", conn |-> c]
    /\ LockFree
    /\ IF clients[Owner[c]] = NoConn THEN UNCHANGED <<clients, closed, panicked>>
       ELSE /\ clients' = [clients EXCEPT ![Owner[c]] = NoConn]
            /\ closed' = closed \cup {c}
            /\ panicked' = (c \in closed)
    /\ hub' = Idle
    /\ UNCHANGED <<broadcast, send, reader, open, logs, notifier, inputs>>

(* Mutant of UnregisterClient: the connection stays in its conversations.  *)
UnregisterFromMap(c) == Unregistered(c) /\ UNCHANGED rooms

UnregisterClient(c) ==
    /\ Unregistered(c)
    /\ rooms' = [k \in Conversations |-> rooms[k] \ {c}]

(* broadcastMessage iterates over the conversation's connections, in any   *)
(* order, under the shared lock.                                           *)
Delivering(post, left) ==
    hub' = IF left = {} THEN Idle ELSE [op |-> "deliver", post |-> post, left |-> left]

TakeBroadcast ==
    /\ ~panicked
    /\ hub = Idle
    /\ broadcast # <<>>
    /\ LET post == Head(broadcast)
       IN  Delivering(post, {c \in rooms[post.conv] : Owner[c] # post.exclude})
    /\ broadcast' = Tail(broadcast)
    /\ UNCHANGED <<maps, send, closed, reader, open, logs, notifier, panicked, inputs>>

(* Mutant of Deliver: a full queue loses the frame, as in Client.Send.     *)
DeliverOrSkip(c) ==
    /\ ~panicked
    /\ hub.op = "deliver" /\ c \in hub.left
    /\ SendOrDrop(c, hub.post.frame)
    /\ Delivering(hub.post, hub.left \ {c})
    /\ UNCHANGED <<maps, broadcast, closed, reader, open, logs, notifier, inputs>>

Deliver(c) ==
    /\ ~panicked
    /\ hub.op = "deliver" /\ c \in hub.left
    /\ c \in closed \/ Len(send[c]) < SendCap
    /\ SendOrDrop(c, hub.post.frame)
    /\ Delivering(hub.post, hub.left \ {c})
    /\ UNCHANGED <<maps, broadcast, closed, reader, open, logs, notifier, inputs>>

(* The queue is full: the channel is closed, and the connection leaves     *)
(* this conversation ...  The maps are changed under the shared lock only: *)
(* the runtime ends the process when it catches another goroutine reading  *)
(* the users' map meanwhile.                                               *)
Dropped(c) ==
    /\ ~panicked
    /\ hub.op = "deliver" /\ c \in hub.left
    /\ c \notin closed /\ Len(send[c]) = SendCap
    /\ closed' = closed \cup {c}
    /\ rooms' = [rooms EXCEPT ![hub.post.conv] = @ \ {c}]
    /\ dropped' = dropped \cup {c}
    /\ Delivering(hub.post, hub.left \ {c})
    /\ panicked' \in BOOLEAN
    /\ UNCHANGED <<broadcast, send, reader, open, message, out, notifier, inputs>>

(* Mutant of DropClient: the user's entry is kept.                         *)
DropFromRoom(c) == Dropped(c) /\ UNCHANGED clients

(* ... and the user's entry is removed, whichever connection it is.        *)
DropClient(c) ==
    /\ Dropped(c)
    /\ clients' = [clients EXCEPT ![Owner[c]] = NoConn]

-----------------------------------------------------------------------------
(* NotificationService.CreateNotification: IsUserOnline, and SendToUser,   *)
(* which looks the user up again and sends, all under the shared lock.     *)
(* While the hub waits for the exclusive lock nobody gets the shared one.  *)

Notify(u) ==
    /\ ~panicked
    /\ notifier = NoConn
    /\ hub.op \notin {"register", "unregister"}
    /\ clients[u] # NoConn
    /\ notifier' = clients[u]
    /\ Input
    /\ UNCHANGED <<maps, broadcast, hub, send, closed, reader, open, logs, panicked>>

(* Mutant of SendToUser: sends whether or not there is room.               *)
SendUnchecked ==
    /\ ~panicked
    /\ notifier # NoConn
    /\ send' = IF notifier \notin closed
               THEN [send EXCEPT ![notifier] = Append(@, OtherFrame)] ELSE send
    /\ notifier' = NoConn
    /\ UNCHANGED <<maps, broadcast, hub, closed, reader, open, logs, panicked, inputs>>

(* A full queue drops the notification; a panic in a request handler is    *)
(* recovered by gin and ends the request only.                             *)
SendToUser ==
    /\ ~panicked
    /\ notifier # NoConn
    /\ send' = IF notifier \notin closed /\ Len(send[notifier]) < SendCap
               THEN [send EXCEPT ![notifier] = Append(@, OtherFrame)] ELSE send
    /\ notifier' = NoConn
    /\ UNCHANGED <<maps, broadcast, hub, closed, reader, open, logs, panicked, inputs>>

-----------------------------------------------------------------------------
Init ==
    /\ clients = [u \in Users |-> NoConn]
    /\ rooms = [k \in Conversations |-> {}]
    /\ broadcast = <<>>
    /\ hub = Idle
    /\ send = [c \in Conns |-> <<>>]
    /\ closed = {}
    /\ reader = [c \in Conns |-> At("none")]
    /\ open = {}
    /\ message = <<>>
    /\ notifier = NoConn
    /\ out = [c \in Conns |-> <<>>]
    /\ dropped = {}
    /\ panicked = FALSE
    /\ inputs = 0

ClientStep(c) ==
    \/ Connect(c) \/ Disconnect(c)
    \/ \E k \in Conversations :
          StoreMessage(c, k) \/ Typing(c, k) \/ JoinConversation(c, k)
    \/ ReadReceipt(c) \/ HandleFails(c)

ReaderStep(c) == QueueBroadcast(c) \/ Confirm(c) \/ Reply(c) \/ SendError(c)

WriterStep(c) == WriteFrame(c) \/ WriterEnds(c)

HubStep ==
    \/ TakeBroadcast
    \/ \E c \in Conns :
          RegisterClient(c) \/ UnregisterClient(c) \/ Deliver(c) \/ DropClient(c)

Next ==
    \/ \E c \in Conns : ClientStep(c) \/ ReaderStep(c) \/ Leave(c) \/ WriterStep(c)
    \/ HubStep
    \/ \E u \in Users : Notify(u)
    \/ SendToUser

Spec == Init /\ [][Next]_vars

(* The goroutines of the server run on.  Clients need not do anything.     *)
FairSpec ==
    /\ Spec
    /\ WF_vars(HubStep)
    /\ WF_vars(SendToUser)
    /\ \A c \in Conns : WF_vars(WriterStep(c))

-----------------------------------------------------------------------------
(* Properties.                                                             *)

(* Maps, channels and local variables have their types.                    *)
ChatTypeOK ==
    /\ clients \in [Users -> Conns \cup {NoConn}]
    /\ rooms \in [Conversations -> SUBSET Conns]
    /\ broadcast \in Seq(Post) /\ Len(broadcast) <= BroadcastCap
    /\ hub \in HubState
    /\ send \in [Conns -> Seq(Frames)]
    /\ \A c \in Conns : Len(send[c]) <= SendCap
    /\ closed \in SUBSET Conns /\ dropped \in SUBSET Conns
    /\ reader \in [Conns -> ReaderState]
    /\ open \in SUBSET Conns
    /\ message \in Seq(MessageRow) /\ Len(message) <= MaxMessages
    /\ notifier \in Conns \cup {NoConn}
    /\ out \in [Conns -> Seq(Written)]
    /\ panicked \in BOOLEAN
    /\ inputs \in 0..MaxInputs

(* However connections come and go, replace each other in the map and      *)
(* unregister out of turn, the server goes down only after a connection    *)
(* was dropped because its queue was full: no goroutine of the chat sends  *)
(* on a channel that unregisterClient closed, and none is closed twice.    *)
PanicOnlyAfterDrop == panicked => dropped # {}

(* The map never leads SendToUser to a closed channel, although one        *)
(* connection's end removes another one's entry.                           *)
ClientsAreUsable ==
    \A u \in Users : clients[u] # NoConn =>
        Owner[clients[u]] = u /\ clients[u] \notin closed

(* A connection is written the messages of one sender's connection in the  *)
(* order in which they were stored, none twice.                            *)
InOrder ==
    \A c \in Conns : \A i, j \in DOMAIN out[c] :
        i < j /\ message[out[c][i].id].from = message[out[c][j].id].from
            => out[c][i].id < out[c][j].id

(* Where a message stands on its way to a connection: in the hub's queue,  *)
(* with the connection in its conversation, in the delivery under way, in  *)
(* the connection's queue, or written.                                     *)
Queued(m) == \E i \in DOMAIN broadcast : broadcast[i].frame = m

Awaited(m, c) ==
    Queued(m) /\ c \in rooms[message[m].conv] /\ Owner[c] # Owner[message[m].from]

UnderDelivery(m, c) == hub.op = "deliver" /\ hub.post.frame = m /\ c \in hub.left

InLine(m, c) == \E i \in DOMAIN send[c] : send[c][i] = m

Wrote(m, c) == \E i \in DOMAIN out[c] : out[c][i].id = m

(* A message that was handed to the hub is written to every connection     *)
(* that is in the conversation then, unless the connection closes first.   *)
EveryoneInRoomGetsIt ==
    \A m \in Messages, c \in Conns :
        Awaited(m, c) ~> (Wrote(m, c) \/ c \notin open \/ panicked)

(* No step loses a message on its way: where it is no longer, it is        *)
(* further on, or its connection is closed or was dropped.                 *)
OnItsWay(m, c) == Awaited(m, c) \/ UnderDelivery(m, c) \/ InLine(m, c) \/ Wrote(m, c)

Kept(m, c) == OnItsWay(m, c)' \/ c \notin open' \/ c \in dropped' \/ panicked'

NoneIsLost == [][\A m \in Messages, c \in Conns : OnItsWay(m, c) => Kept(m, c)]_vars

(* A user with a working connection is online for the notifications, which *)
(* CreateNotification sends "if user is online".                           *)
Working(c) ==
    /\ reader[c] = At("read") /\ c \in open /\ c \notin closed
    /\ hub # [op |-> "register", conn |-> c]

ConnectedIsOnline ==
    \A c \in Conns : Working(c) => clients[Owner[c]] # NoConn
=============================================================================
