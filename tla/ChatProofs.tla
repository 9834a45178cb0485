----------------------------- MODULE ChatProofs -----------------------------
(***************************************************************************)
(* Theorems about Chat, for any users, connections and conversations, any  *)
(* capacity of the channels, and every interleaving of the goroutines.     *)
(***************************************************************************)
EXTENDS Chat, SequenceTheorems, TLAPS

-----------------------------------------------------------------------------
(* The type invariant is inductive together with this: a frame that is on  *)
(* its way is one of a message that was stored.                            *)
Known(frame) == frame <= Len(message)

Carries(s, n) ==
    /\ s.op = "queue" => s.post.frame <= n
    /\ s.op = "confirm" => s.frame <= n

KnownFrames ==
    /\ \A i \in DOMAIN broadcast : Known(broadcast[i].frame)
    /\ hub.op = "deliver" => Known(hub.post.frame)
    /\ \A c \in Conns :
          /\ \A i \in DOMAIN send[c] : Known(send[c][i])
          /\ Carries(reader[c], Len(message))

TypeInv == ChatTypeOK /\ KnownFrames

(* The conjuncts that make PanicOnlyAfterDrop and ClientsAreUsable         *)
(* inductive.  A connection that registers is open, because it is new; one *)
(* in a conversation is not new ...                                        *)
NewIsOpen == \A c \in Conns : reader[c].op = "none" => c \notin closed

RegistersOpen == hub.op = "register" => hub.conn \notin closed

JoinedIsNotNew ==
    \A c \in Conns :
        (\E k \in Conversations : c \in rooms[k]) \/ (hub.op = "deliver" /\ c \in hub.left)
            => reader[c].op # "none"

(* ... one that unregisters has ended its reader ...                       *)
UnregistersDone == hub.op = "unregister" => reader[hub.conn].op = "done"

(* ... and one that was closed, but not because its queue was full, is     *)
(* gone: nobody can reach it any more.                                     *)
Gone(c) ==
    /\ reader[c].op = "done"
    /\ \A k \in Conversations : c \notin rooms[k]
    /\ hub.op = "deliver" => c \notin hub.left
    /\ hub.op = "unregister" => hub.conn # c

ClosedIsGone == \A c \in closed \ dropped : Gone(c)

Safe ==
    /\ PanicOnlyAfterDrop
    /\ ClientsAreUsable
    /\ NewIsOpen
    /\ RegistersOpen
    /\ JoinedIsNotNew
    /\ UnregistersDone
    /\ ClosedIsGone

IInv == TypeInv /\ Safe

-----------------------------------------------------------------------------
(* What a place of the hub or of a reader carries.                         *)
LEMMA HubFacts ==
    ASSUME hub \in HubState
    PROVE  /\ hub.op \in {"idle", "register", "unregister", "deliver"}
           /\ hub.op = "idle" => hub = Idle
           /\ hub.op \in {"register", "unregister"} => hub.conn \in Conns
           /\ hub.op = "deliver" => hub.post \in Post /\ hub.left \in SUBSET Conns
  BY DEF HubState, Idle, At

LEMMA ReaderFacts ==
    ASSUME NEW s \in ReaderState
    PROVE  /\ s.op = "queue" => s.post \in Post
           /\ s.op = "confirm" => s.frame \in Messages
  BY DEF ReaderState, At

-----------------------------------------------------------------------------
(* TypeInv is inductive.                                                   *)

(* A queue of things that are known is one after an append, and after its  *)
(* head is taken.                                                          *)
LEMMA QueueFacts ==
    ASSUME NEW S, NEW q \in Seq(S), NEW x \in S
    PROVE  /\ Append(q, x) \in Seq(S) /\ Len(Append(q, x)) = Len(q) + 1
           /\ Len(q) \in Nat
           /\ \A i \in DOMAIN Append(q, x) :
                 Append(q, x)[i] = x \/ \E j \in DOMAIN q : Append(q, x)[i] = q[j]
  BY LenProperties, AppendProperties

LEMMA TailFacts ==
    ASSUME NEW S, NEW q \in Seq(S), q # <<>>
    PROVE  /\ Head(q) \in S /\ Tail(q) \in Seq(S) /\ Len(Tail(q)) <= Len(q)
           /\ \E j \in DOMAIN q : Head(q) = q[j]
           /\ \A i \in DOMAIN Tail(q) : \E j \in DOMAIN q : Tail(q)[i] = q[j]
<1>1. /\ DOMAIN q = 1..Len(q) /\ Len(q) \in Nat /\ Len(q) # 0
      /\ Head(q) \in S /\ Tail(q) \in Seq(S) /\ Len(Tail(q)) = Len(q) - 1
      /\ \A i \in 1..Len(Tail(q)) : Tail(q)[i] = q[i + 1]
  BY LenProperties, HeadTailProperties, EmptySeq
<1>2. DOMAIN Tail(q) = 1..Len(Tail(q))
  BY <1>1, LenProperties
<1>3. Head(q) = q[1]
  OBVIOUS
<1>. QED
  BY <1>1, <1>2, <1>3

(* Where the hub is after a step of a delivery.                            *)
LEMMA DeliveringFacts ==
    ASSUME NEW post, NEW left, Delivering(post, left)
    PROVE  /\ hub'.op \in {"idle", "deliver"}
           /\ hub'.op = "deliver" => hub'.left = left /\ hub'.post = post
  BY DEF Delivering, Idle, At

(* The steps of a reader that change neither the maps nor the hub ...      *)
ReaderAction(c) ==
    \/ \E k \in Conversations : StoreMessage(c, k) \/ Typing(c, k)
    \/ ReadReceipt(c) \/ HandleFails(c)
    \/ QueueBroadcast(c) \/ Confirm(c) \/ Reply(c) \/ SendError(c)

(* ... lead from one place of a reader to another, and to a message only   *)
(* once it is stored.                                                      *)
LEMMA ReaderGoes ==
    ASSUME TypeInv, NEW c \in Conns, ReaderAction(c)
    PROVE  /\ reader[c].op \notin {"none", "done"}
           /\ \E s \in ReaderState : s.op # "none" /\ Goto(c, s) /\ Carries(s, Len(message'))
<1>1. reader[c] \in ReaderState /\ message \in Seq(MessageRow)
  BY DEF TypeInv, ChatTypeOK
<1>2. CASE \E k \in Conversations : StoreMessage(c, k)
  <2>1. PICK k \in Conversations : StoreMessage(c, k)
    BY <1>2
  <2>. DEFINE row == [conv |-> k, from |-> c, type |-> "message"]
              post == [conv |-> k, frame |-> Len(message) + 1, exclude |-> Owner[c]]
  <2>. PICK s : s = [op |-> "queue", post |-> post]
    OBVIOUS
  <2>2. Len(message) + 1 \in Messages
    BY <1>1, <2>1, BoundAssumption, LenProperties DEF StoreMessage, Messages
  <2>3. post \in Post
    BY <2>2, OwnerAssumption DEF Post, Frames
  <2>4. s \in ReaderState
    BY <2>3 DEF ReaderState
  <2>5. message' = Append(message, row) /\ row \in MessageRow
    BY <2>1 DEF StoreMessage, MessageRow
  <2>6. Len(message') = Len(message) + 1
    BY <1>1, <2>5, AppendProperties
  <2>7. s.op = "queue" /\ s.post.frame = Len(message) + 1 /\ Goto(c, s)
        /\ reader[c].op = "read"
    BY <2>1 DEF StoreMessage, Reads, At
  <2>8. Carries(s, Len(message'))
    BY <1>1, <2>6, <2>7, LenProperties DEF Carries
  <2>. QED
    BY <2>4, <2>7, <2>8
<1>3. CASE \E k \in Conversations : Typing(c, k)
  <2>1. PICK k \in Conversations : Typing(c, k)
    BY <1>3
  <2>. DEFINE post == [conv |-> k, frame |-> OtherFrame, exclude |-> Owner[c]]
  <2>. PICK s : s = [op |-> "queue", post |-> post]
    OBVIOUS
  <2>2. post \in Post
    BY OwnerAssumption DEF Post, Frames
  <2>3. s \in ReaderState
    BY <2>2 DEF ReaderState
  <2>4. s.op = "queue" /\ s.post.frame = 0 /\ Goto(c, s) /\ message' = message
        /\ reader[c].op = "read"
    BY <2>1 DEF Typing, Reads, At, OtherFrame, logs
  <2>5. Carries(s, Len(message'))
    BY <1>1, <2>4, LenProperties DEF Carries
  <2>. QED
    BY <2>3, <2>4, <2>5
<1>4. CASE ReadReceipt(c) \/ HandleFails(c) \/ Confirm(c) \/ Reply(c) \/ SendError(c)
  <2>1. reader[c].op \in {"read", "confirm", "reply", "error"}
    BY <1>4 DEF ReadReceipt, HandleFails, Confirm, Reply, SendError, Reads, At
  <2>2. \E s \in {At("read"), At("reply"), At("error")} : Goto(c, s)
    BY <1>4 DEF ReadReceipt, HandleFails, Confirm, Reply, SendError
  <2>3. \A s \in {At("read"), At("reply"), At("error")} :
           s \in ReaderState /\ s.op \in {"read", "reply", "error"}
    BY DEF ReaderState, At
  <2>. QED
    BY <2>1, <2>2, <2>3 DEF Carries
<1>5. CASE QueueBroadcast(c)
  <2>. PICK frame : frame = reader[c].post.frame
    OBVIOUS
  <2>. PICK s : s = IF frame = OtherFrame THEN At("read")
                    ELSE [op |-> "confirm", frame |-> frame]
    OBVIOUS
  <2>1. reader[c].op = "queue" /\ Goto(c, s) /\ message' = message
    BY <1>5 DEF QueueBroadcast, logs
  <2>2. frame \in Frames /\ frame <= Len(message)
    BY <1>1, <2>1, ReaderFacts DEF Post, TypeInv, KnownFrames, Carries
  <2>3. CASE frame = OtherFrame
    BY <2>1, <2>3 DEF ReaderState, At, Carries
  <2>4. CASE frame # OtherFrame
    <3>1. s = [op |-> "confirm", frame |-> frame] /\ s.op = "confirm" /\ s.frame = frame
      BY <2>4
    <3>2. s \in ReaderState
      BY <2>2, <2>4, <3>1 DEF Frames, ReaderState
    <3>3. Carries(s, Len(message'))
      BY <2>1, <2>2, <3>1 DEF Carries
    <3>. QED
      BY <2>1, <3>1, <3>2, <3>3
  <2>. QED
    BY <2>3, <2>4
<1>. QED
  BY <1>2, <1>3, <1>4, <1>5 DEF ReaderAction

LEMMA InitTypeInv == Init => TypeInv
<1>. SUFFICES ASSUME Init PROVE TypeInv
  OBVIOUS
<1>1. \A S : <<>> \in Seq(S)
  BY EmptySeq
<1>2. Len(<<>>) = 0 /\ DOMAIN <<>> = {}
  OBVIOUS
<1>3. Idle \in HubState /\ At("none") \in ReaderState
  BY DEF HubState, ReaderState
<1>4. ChatTypeOK
  <2>1. /\ send \in [Conns -> Seq(Frames)] /\ \A c \in Conns : Len(send[c]) <= SendCap
        /\ out \in [Conns -> Seq(Written)]
        /\ reader \in [Conns -> ReaderState] /\ hub \in HubState
    BY <1>1, <1>2, <1>3, CapAssumption DEF Init
  <2>2. /\ broadcast \in Seq(Post) /\ Len(broadcast) <= BroadcastCap
        /\ message \in Seq(MessageRow) /\ Len(message) <= MaxMessages
        /\ inputs \in 0..MaxInputs
    BY <1>1, <1>2, CapAssumption, BoundAssumption DEF Init
  <2>3. /\ clients \in [Users -> Conns \cup {NoConn}]
        /\ rooms \in [Conversations -> SUBSET Conns]
        /\ closed \in SUBSET Conns /\ dropped \in SUBSET Conns /\ open \in SUBSET Conns
        /\ notifier \in Conns \cup {NoConn} /\ panicked \in BOOLEAN
    BY DEF Init
  <2>. QED
    BY <2>1, <2>2, <2>3 DEF ChatTypeOK
<1>5. KnownFrames
  BY <1>2 DEF Init, KnownFrames, Idle, At, Carries
<1>. QED
  BY <1>4, <1>5 DEF TypeInv

(* Which actions change what: the rest of a step leaves it alone.          *)
Writers ==
    /\ \/ message' = message
       \/ \E c \in Conns : Confirm(c) \/ \E k \in Conversations : StoreMessage(c, k)
    /\ \/ broadcast' = broadcast \/ TakeBroadcast
       \/ \E c \in Conns : QueueBroadcast(c)
    /\ \/ hub' = hub \/ hub' = Idle \/ TakeBroadcast
       \/ \E c \in Conns : Connect(c) \/ Leave(c) \/ Deliver(c) \/ DropClient(c)
    /\ \/ reader' = reader
       \/ \E c \in Conns : \/ ReaderAction(c) \/ Connect(c) \/ Leave(c)
                           \/ \E k \in Conversations : JoinConversation(c, k)
    /\ \/ send' = send \/ SendToUser
       \/ \E c \in Conns :
             Confirm(c) \/ Reply(c) \/ SendError(c) \/ Deliver(c) \/ WriteFrame(c)
    /\ \/ out' = out
       \/ \E c \in Conns : WriteFrame(c)

LEMMA NextWriters == Next => Writers
<1>1. ASSUME NEW c \in Conns, ClientStep(c) PROVE Writers
  <2>1. CASE Connect(c)
    BY <2>1 DEF Writers, Connect, logs
  <2>2. CASE Disconnect(c)
    BY <2>2 DEF Writers, Disconnect, logs
  <2>3. CASE \E k \in Conversations : StoreMessage(c, k)
    BY <2>3 DEF Writers, StoreMessage, ReaderAction
  <2>4. CASE \E k \in Conversations : Typing(c, k)
    BY <2>4 DEF Writers, Typing, logs, ReaderAction
  <2>5. CASE \E k \in Conversations : JoinConversation(c, k)
    BY <2>5 DEF Writers, JoinConversation, logs
  <2>6. CASE ReadReceipt(c) \/ HandleFails(c)
    BY <2>6 DEF Writers, ReadReceipt, HandleFails, logs, ReaderAction
  <2>. QED
    BY <1>1, <2>1, <2>2, <2>3, <2>4, <2>5, <2>6 DEF ClientStep
<1>2. ASSUME NEW c \in Conns, ReaderStep(c) PROVE Writers
  <2>1. ReaderAction(c)
    BY <1>2 DEF ReaderStep, ReaderAction
  <2>2. CASE QueueBroadcast(c)
    BY <2>1, <2>2 DEF Writers, QueueBroadcast, logs
  <2>3. CASE Confirm(c)
    BY <2>1, <2>3 DEF Writers, Confirm
  <2>4. CASE Reply(c)
    BY <2>1, <2>4 DEF Writers, Reply, logs
  <2>5. CASE SendError(c)
    BY <2>1, <2>5 DEF Writers, SendError, logs
  <2>. QED
    BY <1>2, <2>2, <2>3, <2>4, <2>5 DEF ReaderStep
<1>3. ASSUME NEW c \in Conns, Leave(c) \/ WriterStep(c) PROVE Writers
  BY <1>3 DEF Writers, Leave, WriterStep, WriteFrame, WriterEnds, logs
<1>4. ASSUME HubStep PROVE Writers
  <2>1. CASE TakeBroadcast
    BY <2>1 DEF Writers, TakeBroadcast, logs
  <2>2. ASSUME NEW c \in Conns, RegisterClient(c) \/ UnregisterClient(c) PROVE Writers
    BY <2>2 DEF Writers, RegisterClient, UnregisterClient, Unregistered, logs
  <2>3. ASSUME NEW c \in Conns, Deliver(c) \/ DropClient(c) PROVE Writers
    BY <2>3 DEF Writers, Deliver, DropClient, Dropped, logs
  <2>. QED
    BY <1>4, <2>1, <2>2, <2>3 DEF HubStep
<1>5. ASSUME (\E u \in Users : Notify(u)) \/ SendToUser PROVE Writers
  BY <1>5 DEF Writers, Notify, SendToUser, logs
<1>. QED
  BY <1>1, <1>2, <1>3, <1>4, <1>5 DEF Next

(* Messages are stored one by one, and a confirmation only changes a type. *)
LEMMA NextMessages ==
    ASSUME TypeInv, Next
    PROVE  /\ message' \in Seq(MessageRow) /\ Len(message') <= MaxMessages
           /\ Len(message) \in Nat /\ Len(message') \in Nat
           /\ Len(message) <= Len(message')
<1>1. /\ message \in Seq(MessageRow) /\ Len(message) <= MaxMessages
      /\ Len(message) \in Nat /\ DOMAIN message = 1..Len(message)
      /\ \A c \in Conns : reader[c] \in ReaderState
  BY LenProperties DEF TypeInv, ChatTypeOK
<1>2. ASSUME NEW c \in Conns, NEW k \in Conversations, StoreMessage(c, k)
      PROVE  /\ message' \in Seq(MessageRow)
             /\ Len(message) < MaxMessages /\ Len(message') = Len(message) + 1
  <2>. PICK row \in MessageRow : message' = Append(message, row)
    BY <1>2 DEF StoreMessage, MessageRow
  <2>1. Len(message) < MaxMessages
    BY <1>2 DEF StoreMessage
  <2>. QED
    BY <1>1, <2>1, AppendProperties
<1>3. ASSUME NEW c \in Conns, Confirm(c)
      PROVE  message' \in Seq(MessageRow) /\ Len(message') = Len(message)
  <2>. DEFINE frame == reader[c].frame
              row == [message[frame] EXCEPT !.type = "message_sent"]
  <2>1. frame \in 1..Len(message)
    BY <1>1, <1>3, ReaderFacts DEF TypeInv, KnownFrames, Carries, Confirm, Messages
  <2>2. message[frame] \in MessageRow
    BY <1>1, <2>1, ElementOfSeq
  <2>3. row \in MessageRow
    BY <2>2 DEF MessageRow
  <2>4. message' = [message EXCEPT ![frame] = row]
    BY <1>3 DEF Confirm
  <2>. HIDE DEF row, frame
  <2>. QED
    BY <1>1, <2>1, <2>3, <2>4, ExceptSeq
<1>. QED
  BY <1>1, <1>2, <1>3, NextWriters, BoundAssumption DEF Writers

(* The hub's queue holds posts that are known, up to its capacity ...      *)
LEMMA NextBroadcast ==
    ASSUME TypeInv, Next
    PROVE  /\ broadcast' \in Seq(Post) /\ Len(broadcast') <= BroadcastCap
           /\ \A i \in DOMAIN broadcast' : broadcast'[i].frame <= Len(message')
<1>1. /\ broadcast \in Seq(Post) /\ Len(broadcast) <= BroadcastCap
      /\ \A i \in DOMAIN broadcast : broadcast[i].frame <= Len(message)
      /\ \A i \in DOMAIN broadcast : broadcast[i] \in Post
  BY LenProperties DEF TypeInv, ChatTypeOK, KnownFrames, Known
<1>2. /\ Len(message) \in Nat /\ Len(message') \in Nat /\ Len(message) <= Len(message')
      /\ Frames \subseteq Int /\ \A post \in Post : post.frame \in Int
  BY NextMessages DEF Frames, Messages, OtherFrame, Post
<1>3. CASE broadcast' = broadcast
  BY <1>1, <1>2, <1>3
<1>4. ASSUME NEW c \in Conns, QueueBroadcast(c)
      PROVE  /\ broadcast' \in Seq(Post) /\ Len(broadcast') <= BroadcastCap
             /\ \A i \in DOMAIN broadcast' : broadcast'[i].frame <= Len(message')
  <2>1. PICK post : post = reader[c].post
    OBVIOUS
  <2>2. post \in Post /\ post.frame <= Len(message)
    BY <1>4, <2>1, ReaderFacts DEF TypeInv, ChatTypeOK, KnownFrames, Carries, QueueBroadcast
  <2>3. broadcast' = Append(broadcast, post) /\ Len(broadcast) < BroadcastCap
    BY <1>4, <2>1 DEF QueueBroadcast
  <2>. QED
    BY <1>1, <1>2, <2>2, <2>3, QueueFacts, CapAssumption
<1>5. CASE TakeBroadcast
  <2>1. broadcast' = Tail(broadcast) /\ broadcast # <<>>
    BY <1>5 DEF TakeBroadcast
  <2>2. /\ Tail(broadcast) \in Seq(Post) /\ Len(Tail(broadcast)) <= Len(broadcast)
        /\ \A i \in DOMAIN Tail(broadcast) :
              \E j \in DOMAIN broadcast : Tail(broadcast)[i] = broadcast[j]
        /\ Len(broadcast) \in Nat /\ Len(Tail(broadcast)) \in Nat
    BY <1>1, <2>1, TailFacts, LenProperties
  <2>. QED
    BY <1>1, <1>2, <2>1, <2>2, CapAssumption
<1>. QED
  BY <1>3, <1>4, <1>5, NextWriters DEF Writers

(* ... and what the hub delivers was in the queue ...                      *)
LEMMA NextHub ==
    ASSUME TypeInv, Next
    PROVE  hub' \in HubState /\ (hub'.op = "deliver" => hub'.post.frame <= Len(message'))
<1>1. /\ hub \in HubState
      /\ hub.op = "deliver" => /\ hub.post \in Post /\ hub.left \in SUBSET Conns
                               /\ hub.post.frame <= Len(message)
      /\ broadcast \in Seq(Post) /\ rooms \in [Conversations -> SUBSET Conns]
  BY HubFacts DEF TypeInv, ChatTypeOK, KnownFrames, Known
<1>2. /\ Len(message) \in Nat /\ Len(message') \in Nat /\ Len(message) <= Len(message')
      /\ Frames \subseteq Int /\ \A post \in Post : post.frame \in Int
  BY NextMessages DEF Frames, Messages, OtherFrame, Post
<1>3. CASE hub' = hub \/ hub' = Idle
  BY <1>1, <1>2, <1>3 DEF HubState, Idle, At
<1>4. ASSUME NEW c \in Conns, Connect(c) \/ Leave(c)
      PROVE  hub' \in HubState /\ hub'.op # "deliver"
  <2>1. PICK op \in {"register", "unregister"} : hub' = [op |-> op, conn |-> c]
    BY <1>4 DEF Connect, Leave
  <2>. QED
    BY <2>1 DEF HubState
<1>5. ASSUME NEW post \in Post, NEW left \in SUBSET Conns, post.frame <= Len(message),
             Delivering(post, left)
      PROVE  hub' \in HubState /\ (hub'.op = "deliver" => hub'.post.frame <= Len(message'))
  <2>1. hub' \in HubState
    BY <1>5 DEF Delivering, HubState
  <2>2. hub'.op = "deliver" => hub'.post = post
    BY <1>5, DeliveringFacts
  <2>. QED
    BY <1>2, <1>5, <2>1, <2>2
<1>6. CASE TakeBroadcast
  <2>1. broadcast # <<>>
    BY <1>6 DEF TakeBroadcast
  <2>2. PICK post : post = Head(broadcast)
    OBVIOUS
  <2>3. post \in Post /\ post.frame <= Len(message)
    BY <1>1, <2>1, <2>2, TailFacts DEF TypeInv, KnownFrames, Known
  <2>4. PICK left : left = {c \in rooms[post.conv] : Owner[c] # post.exclude}
    OBVIOUS
  <2>5. left \in SUBSET Conns
    BY <1>1, <2>3, <2>4 DEF Post
  <2>6. Delivering(post, left)
    BY <1>6, <2>2, <2>4 DEF TakeBroadcast
  <2>. QED
    BY <1>5, <2>3, <2>5, <2>6
<1>7. ASSUME NEW c \in Conns, Deliver(c) \/ DropClient(c)
      PROVE  hub' \in HubState /\ (hub'.op = "deliver" => hub'.post.frame <= Len(message'))
  <2>1. hub.op = "deliver" /\ Delivering(hub.post, hub.left \ {c})
    BY <1>7 DEF Deliver, DropClient, Dropped
  <2>2. hub.left \ {c} \in SUBSET Conns
    BY <1>1, <2>1
  <2>. QED
    BY <1>1, <1>5, <2>1, <2>2
<1>. QED
  BY <1>3, <1>4, <1>6, <1>7, NextWriters DEF Writers

(* ... as what readers hold was stored.                                    *)
LEMMA NextReader ==
    ASSUME TypeInv, Next
    PROVE  /\ reader' \in [Conns -> ReaderState]
           /\ \A c \in Conns : Carries(reader'[c], Len(message'))
<1>1. /\ reader \in [Conns -> ReaderState]
      /\ \A c \in Conns : Carries(reader[c], Len(message))
  BY DEF TypeInv, ChatTypeOK, KnownFrames
<1>2. /\ Len(message) \in Nat /\ Len(message') \in Nat /\ Len(message) <= Len(message')
      /\ Messages \subseteq Int /\ \A post \in Post : post.frame \in Int
  BY NextMessages DEF Frames, Messages, OtherFrame, Post
<1>3. \A c \in Conns : Carries(reader[c], Len(message'))
  <2>. SUFFICES ASSUME NEW c \in Conns PROVE Carries(reader[c], Len(message'))
    OBVIOUS
  <2>1. /\ reader[c].op = "queue" => reader[c].post.frame \in Int
        /\ reader[c].op = "confirm" => reader[c].frame \in Int
    BY <1>1, <1>2, ReaderFacts
  <2>. QED
    BY <1>1, <1>2, <2>1 DEF Carries
<1>4. ASSUME NEW c \in Conns, NEW s \in ReaderState, Goto(c, s), Carries(s, Len(message'))
      PROVE  /\ reader' \in [Conns -> ReaderState]
             /\ \A d \in Conns : Carries(reader'[d], Len(message'))
  <2>1. /\ reader' \in [Conns -> ReaderState]
        /\ \A d \in Conns : reader'[d] = IF d = c THEN s ELSE reader[d]
    BY <1>1, <1>4 DEF Goto
  <2>. QED
    BY <1>3, <1>4, <2>1
<1>5. ASSUME NEW c \in Conns,
             Connect(c) \/ Leave(c) \/ \E k \in Conversations : JoinConversation(c, k)
      PROVE  \E s \in ReaderState : Goto(c, s) /\ Carries(s, Len(message'))
  <2>1. PICK s \in {At("read"), At("reply"), At("done")} : Goto(c, s)
    BY <1>5 DEF Connect, Leave, JoinConversation
  <2>. QED
    BY <2>1 DEF At, ReaderState, Carries
<1>. QED
  BY <1>1, <1>3, <1>4, <1>5, ReaderGoes, NextWriters DEF Writers

(* A connection's queue holds what is known, up to its capacity ...        *)
LEMMA NextSend ==
    ASSUME TypeInv, Next
    PROVE  /\ send' \in [Conns -> Seq(Frames)]
           /\ \A c \in Conns : /\ Len(send'[c]) <= SendCap
                               /\ \A i \in DOMAIN send'[c] : send'[c][i] <= Len(message')
<1>. DEFINE Fits(q) == /\ q \in Seq(Frames) /\ Len(q) <= SendCap
                       /\ \A i \in DOMAIN q : q[i] <= Len(message')
<1>1. /\ send \in [Conns -> Seq(Frames)]
      /\ \A c \in Conns : Len(send[c]) <= SendCap
      /\ \A c \in Conns : \A i \in DOMAIN send[c] : send[c][i] <= Len(message)
      /\ notifier \in Conns \cup {NoConn}
  BY DEF TypeInv, ChatTypeOK, KnownFrames, Known
<1>2. /\ Len(message) \in Nat /\ Len(message') \in Nat /\ Len(message) <= Len(message')
      /\ Frames \subseteq Int
  BY NextMessages DEF Frames, Messages, OtherFrame
<1>3. ASSUME NEW c \in Conns PROVE Fits(send[c])
  <2>1. \A i \in DOMAIN send[c] : send[c][i] \in Int
    BY <1>1, <1>2, LenProperties
  <2>. QED
    BY <1>1, <1>2, <2>1
<1>. HIDE DEF Fits
<1>4. ASSUME NEW c \in Conns, NEW q, Fits(q), send' = [send EXCEPT ![c] = q]
      PROVE  send' \in [Conns -> Seq(Frames)] /\ \A d \in Conns : Fits(send'[d])
  <2>1. \A d \in Conns : send'[d] = IF d = c THEN q ELSE send[d]
    BY <1>1, <1>4
  <2>2. q \in Seq(Frames)
    BY <1>4 DEF Fits
  <2>. QED
    BY <1>1, <1>3, <1>4, <2>1, <2>2
<1>5. ASSUME NEW c \in Conns, NEW frame \in Frames, frame <= Len(message'),
             Len(send[c]) < SendCap
      PROVE  Fits(Append(send[c], frame))
  <2>1. PICK q \in Seq(Frames) : q = send[c]
    BY <1>1
  <2>2. /\ Append(q, frame) \in Seq(Frames) /\ Len(Append(q, frame)) = Len(q) + 1
        /\ Len(q) \in Nat
        /\ \A i \in DOMAIN Append(q, frame) :
              Append(q, frame)[i] = frame \/ \E j \in DOMAIN q : Append(q, frame)[i] = q[j]
    BY QueueFacts
  <2>3. \A j \in DOMAIN q : q[j] <= Len(message')
    BY <1>3, <2>1 DEF Fits
  <2>4. Len(Append(q, frame)) <= SendCap
    BY <1>5, <2>1, <2>2, CapAssumption
  <2>. QED
    BY <1>5, <2>1, <2>2, <2>3, <2>4 DEF Fits
<1>6. ASSUME NEW c \in Conns, NEW frame \in Frames, frame <= Len(message'),
             SendOrDrop(c, frame)
      PROVE  send' \in [Conns -> Seq(Frames)] /\ \A d \in Conns : Fits(send'[d])
  BY <1>1, <1>3, <1>4, <1>5, <1>6 DEF SendOrDrop
<1>7. OtherFrame \in Frames /\ OtherFrame <= Len(message')
  BY <1>2 DEF Frames, OtherFrame
<1>8. ASSUME NEW c \in Conns, Confirm(c) \/ Deliver(c)
      PROVE  \E frame \in Frames : frame <= Len(message') /\ SendOrDrop(c, frame)
  <2>1. CASE Confirm(c)
    <3>1. /\ reader[c].frame \in Messages /\ reader[c].frame <= Len(message)
          /\ SendOrDrop(c, reader[c].frame)
      BY <2>1, ReaderFacts DEF Confirm, TypeInv, ChatTypeOK, KnownFrames, Carries
    <3>. QED
      BY <1>2, <3>1 DEF Frames
  <2>2. CASE Deliver(c)
    <3>1. /\ hub.post \in Post /\ hub.post.frame <= Len(message)
          /\ SendOrDrop(c, hub.post.frame)
      BY <2>2, HubFacts DEF Deliver, TypeInv, ChatTypeOK, KnownFrames, Known
    <3>2. PICK frame \in Frames : frame = hub.post.frame
      BY <3>1 DEF Post
    <3>. QED
      BY <1>2, <3>1, <3>2
  <2>. QED
    BY <1>8, <2>1, <2>2
<1>9. ASSUME NEW c \in Conns, Reply(c) \/ SendError(c) PROVE SendOrDrop(c, OtherFrame)
  BY <1>9 DEF Reply, SendError
<1>10. ASSUME NEW c \in Conns, WriteFrame(c)
       PROVE  send' \in [Conns -> Seq(Frames)] /\ \A d \in Conns : Fits(send'[d])
  <2>1. PICK q \in Seq(Frames) : q = send[c]
    BY <1>1
  <2>2. q # <<>> /\ send' = [send EXCEPT ![c] = Tail(q)]
    BY <1>10, <2>1 DEF WriteFrame
  <2>3. /\ Tail(q) \in Seq(Frames) /\ Len(Tail(q)) <= Len(q)
        /\ \A i \in DOMAIN Tail(q) : \E j \in DOMAIN q : Tail(q)[i] = q[j]
        /\ Len(q) \in Nat /\ Len(Tail(q)) \in Nat
    BY <2>2, TailFacts, LenProperties
  <2>4. Fits(Tail(q))
    BY <1>3, <2>1, <2>3, CapAssumption DEF Fits
  <2>. QED
    BY <1>4, <2>2, <2>4
<1>11. ASSUME SendToUser
       PROVE  send' \in [Conns -> Seq(Frames)] /\ \A d \in Conns : Fits(send'[d])
  <2>1. \/ send' = send
        \/ /\ notifier \in Conns /\ Len(send[notifier]) < SendCap
           /\ send' = [send EXCEPT ![notifier] = Append(send[notifier], OtherFrame)]
    BY <1>1, <1>11 DEF SendToUser
  <2>2. CASE send' = send
    BY <1>1, <1>3, <2>2
  <2>3. CASE send' # send
    BY <1>4, <1>5, <1>7, <2>1, <2>3
  <2>. QED
    BY <2>2, <2>3
<1>12. ASSUME NEW c \in Conns, Confirm(c) \/ Reply(c) \/ SendError(c) \/ Deliver(c)
       PROVE  send' \in [Conns -> Seq(Frames)] /\ \A d \in Conns : Fits(send'[d])
  <2>1. PICK frame \in Frames : frame <= Len(message') /\ SendOrDrop(c, frame)
    BY <1>7, <1>8, <1>9, <1>12
  <2>. QED
    BY <1>6, <2>1
<1>13. CASE send' = send
  BY <1>1, <1>3, <1>13 DEF Fits
<1>14. send' = send \/ SendToUser
          \/ \E c \in Conns :
                Confirm(c) \/ Reply(c) \/ SendError(c) \/ Deliver(c) \/ WriteFrame(c)
  BY NextWriters DEF Writers
<1>15. send' # send => send' \in [Conns -> Seq(Frames)] /\ \A d \in Conns : Fits(send'[d])
  BY <1>10, <1>11, <1>12, <1>14
<1>. QED
  BY <1>13, <1>15 DEF Fits

(* ... so that every frame that is written is one of a message.            *)
LEMMA NextOut ==
    ASSUME TypeInv, Next
    PROVE  out' \in [Conns -> Seq(Written)]
<1>1. /\ out \in [Conns -> Seq(Written)] /\ message \in Seq(MessageRow)
      /\ send \in [Conns -> Seq(Frames)]
  BY DEF TypeInv, ChatTypeOK
<1>2. ASSUME NEW c \in Conns, WriteFrame(c) PROVE out' \in [Conns -> Seq(Written)]
  <2>1. PICK frame : frame = Head(send[c])
    OBVIOUS
  <2>2. frame \in Frames /\ frame <= Len(message)
    BY <1>1, <1>2, <2>1, TailFacts DEF WriteFrame, TypeInv, KnownFrames, Known
  <2>3. CASE frame = OtherFrame
    BY <1>1, <1>2, <2>1, <2>3 DEF WriteFrame
  <2>4. CASE frame # OtherFrame
    <3>1. PICK w : w = [id |-> frame, type |-> message[frame].type]
      OBVIOUS
    <3>2. frame \in Messages
      BY <2>2, <2>4 DEF Frames
    <3>3. frame \in 1..Len(message)
      BY <1>1, <2>2, <3>2, LenProperties DEF Messages
    <3>4. message[frame] \in MessageRow
      BY <1>1, <3>3, ElementOfSeq
    <3>5. w \in Written
      BY <3>1, <3>2, <3>4 DEF MessageRow, Written
    <3>6. Append(out[c], w) \in Seq(Written)
      BY <1>1, <3>5, AppendProperties
    <3>7. out' = [out EXCEPT ![c] = Append(out[c], w)]
      BY <1>2, <2>1, <2>4, <3>1 DEF WriteFrame
    <3>. QED
      BY <1>1, <3>6, <3>7
  <2>. QED
    BY <2>3, <2>4
<1>. QED
  BY <1>1, <1>2, NextWriters DEF Writers

(* The maps, and the sets of connections.                                  *)
LEMMA NextMaps ==
    ASSUME TypeInv, Next
    PROVE  /\ clients' \in [Users -> Conns \cup {NoConn}]
           /\ rooms' \in [Conversations -> SUBSET Conns]
           /\ closed' \in SUBSET Conns /\ dropped' \in SUBSET Conns
           /\ open' \in SUBSET Conns
<1>. DEFINE Goal == /\ clients' \in [Users -> Conns \cup {NoConn}]
                    /\ rooms' \in [Conversations -> SUBSET Conns]
                    /\ closed' \in SUBSET Conns /\ dropped' \in SUBSET Conns
                    /\ open' \in SUBSET Conns
<1>1. /\ clients \in [Users -> Conns \cup {NoConn}]
      /\ rooms \in [Conversations -> SUBSET Conns]
      /\ closed \in SUBSET Conns /\ dropped \in SUBSET Conns /\ open \in SUBSET Conns
  BY DEF TypeInv, ChatTypeOK
<1>2. ASSUME NEW c \in Conns, ClientStep(c) \/ ReaderStep(c) \/ Leave(c) \/ WriterStep(c)
      PROVE  Goal
  <2>1. CASE \E k \in Conversations : JoinConversation(c, k)
    BY <1>1, <2>1 DEF JoinConversation, logs
  <2>2. CASE ~\E k \in Conversations : JoinConversation(c, k)
    <3>1. UNCHANGED <<clients, rooms, closed, dropped>> /\ open' \subseteq open \cup {c}
      BY <1>2, <2>2 DEF ClientStep, ReaderStep, WriterStep, Connect, Disconnect, StoreMessage,
         Typing, ReadReceipt, HandleFails, QueueBroadcast, Confirm, Reply, SendError, Leave,
         WriteFrame, WriterEnds, maps, logs
    <3>. QED
      BY <1>1, <3>1
  <2>. QED
    BY <2>1, <2>2
<1>3. ASSUME NEW c \in Conns, RegisterClient(c) \/ UnregisterClient(c) PROVE Goal
  BY <1>1, <1>3 DEF RegisterClient, UnregisterClient, Unregistered, logs
<1>4. ASSUME NEW c \in Conns, Deliver(c) \/ DropClient(c) PROVE Goal
  BY <1>1, <1>4 DEF Deliver, DropClient, Dropped, maps, logs
<1>5. CASE TakeBroadcast \/ (\E u \in Users : Notify(u)) \/ SendToUser
  BY <1>1, <1>5 DEF TakeBroadcast, Notify, SendToUser, maps, logs
<1>. QED
  BY <1>2, <1>3, <1>4, <1>5 DEF Next, HubStep

(* The notification on its way, the end of the process, and the bound.     *)
LEMMA NextRest ==
    ASSUME TypeInv, Next
    PROVE  /\ notifier' \in Conns \cup {NoConn} /\ panicked' \in BOOLEAN
           /\ inputs' \in 0..MaxInputs
<1>1. /\ notifier \in Conns \cup {NoConn} /\ panicked \in BOOLEAN /\ inputs \in 0..MaxInputs
      /\ clients \in [Users -> Conns \cup {NoConn}]
  BY DEF TypeInv, ChatTypeOK
<1>2. Input => inputs' \in 0..MaxInputs
  BY <1>1, BoundAssumption DEF Input
<1>3. \A c, frame : SendOrDrop(c, frame) => panicked' \in BOOLEAN
  BY <1>1 DEF SendOrDrop
<1>4. ASSUME NEW c \in Conns, ClientStep(c)
      PROVE  UNCHANGED <<notifier, panicked>> /\ inputs' \in 0..MaxInputs
  BY <1>1, <1>2, <1>4 DEF ClientStep, Connect, Disconnect, StoreMessage, Typing,
     JoinConversation, ReadReceipt, HandleFails, Reads
<1>5. ASSUME NEW c \in Conns, ReaderStep(c) \/ Deliver(c)
      PROVE  UNCHANGED <<notifier, inputs>> /\ panicked' \in BOOLEAN
  BY <1>1, <1>3, <1>5 DEF ReaderStep, QueueBroadcast, Confirm, Reply, SendError, Deliver
<1>6. ASSUME NEW c \in Conns,
             Leave(c) \/ WriterStep(c) \/ RegisterClient(c) \/ DropClient(c)
      PROVE  UNCHANGED <<notifier, inputs>> /\ panicked' \in BOOLEAN
  BY <1>1, <1>6
     DEF Leave, WriterStep, WriteFrame, WriterEnds, RegisterClient, DropClient, Dropped
<1>7. ASSUME NEW c \in Conns, UnregisterClient(c)
      PROVE  UNCHANGED <<notifier, inputs>> /\ panicked' \in BOOLEAN
  <2>1. panicked' \in BOOLEAN
    <3>1. CASE clients[Owner[c]] = NoConn
      BY <1>1, <1>7, <3>1 DEF UnregisterClient, Unregistered
    <3>2. CASE clients[Owner[c]] # NoConn
      <4>1. panicked' = (c \in closed)
        BY <1>7, <3>2 DEF UnregisterClient, Unregistered
      <4>2. (c \in closed) \in BOOLEAN
        OBVIOUS
      <4>. QED
        BY <4>1, <4>2
    <3>. QED
      BY <3>1, <3>2
  <2>2. UNCHANGED <<notifier, inputs>>
    BY <1>7 DEF UnregisterClient, Unregistered
  <2>. QED
    BY <2>1, <2>2
<1>8. CASE TakeBroadcast
  BY <1>1, <1>8 DEF TakeBroadcast
<1>9. ASSUME NEW u \in Users, Notify(u)
      PROVE  /\ notifier' \in Conns \cup {NoConn} /\ inputs' \in 0..MaxInputs
             /\ UNCHANGED panicked
  BY <1>1, <1>2, <1>9 DEF Notify
<1>10. CASE SendToUser
  BY <1>1, <1>10 DEF SendToUser
<1>. QED
  BY <1>1, <1>4, <1>5, <1>6, <1>7, <1>8, <1>9, <1>10 DEF Next, HubStep

LEMMA NextTypeInv == TypeInv /\ [Next]_vars => TypeInv'
<1>. SUFFICES ASSUME TypeInv, [Next]_vars PROVE TypeInv'
  OBVIOUS
<1>1. CASE Next
  <2>1. ChatTypeOK'
    BY <1>1, NextMessages, NextBroadcast, NextHub, NextReader, NextSend, NextOut, NextMaps,
       NextRest DEF ChatTypeOK
  <2>2. KnownFrames'
    BY <1>1, NextBroadcast, NextHub, NextReader, NextSend DEF KnownFrames, Known
  <2>. QED
    BY <2>1, <2>2 DEF TypeInv
<1>2. CASE UNCHANGED vars
  BY <1>2 DEF vars, maps, logs, TypeInv, ChatTypeOK, KnownFrames, Known, Carries
<1>. QED
  BY <1>1, <1>2

-----------------------------------------------------------------------------
(* Safe is inductive.                                                      *)

LEMMA InitSafe == Init => Safe
  BY DEF Init, Safe, PanicOnlyAfterDrop, ClientsAreUsable, NewIsOpen, RegistersOpen,
         JoinedIsNotNew, UnregistersDone, ClosedIsGone, Idle, At

(* A step of a reader that leaves the maps, the hub and the closed         *)
(* connections alone: the reader was not done, and is not new afterwards.  *)
LEMMA ReaderKeepsSafe ==
    ASSUME TypeInv, Safe, NEW c \in Conns, NEW s \in ReaderState,
           reader[c].op # "done", s.op # "none", Goto(c, s),
           UNCHANGED <<maps, hub, closed, dropped>>, panicked' => dropped # {}
    PROVE  Safe'
<1>1. /\ reader \in [Conns -> ReaderState]
      /\ closed \in SUBSET Conns
      /\ reader' = [reader EXCEPT ![c] = s]
  BY DEF TypeInv, ChatTypeOK, Goto
<1>2. \A d \in Conns : reader'[d] = IF d = c THEN s ELSE reader[d]
  BY <1>1
<1>3. UNCHANGED <<clients, rooms, hub, closed, dropped>>
  BY DEF maps
<1>4. PanicOnlyAfterDrop' /\ ClientsAreUsable' /\ RegistersOpen'
  BY <1>3 DEF Safe, PanicOnlyAfterDrop, ClientsAreUsable, RegistersOpen
<1>5. NewIsOpen' /\ JoinedIsNotNew'
  BY <1>2, <1>3 DEF Safe, NewIsOpen, JoinedIsNotNew
<1>6. UnregistersDone'
  <2>. SUFFICES ASSUME hub.op = "unregister" PROVE reader'[hub.conn].op = "done"
    BY <1>3 DEF UnregistersDone
  <2>. QED
    BY <1>2, HubFacts DEF Safe, UnregistersDone, TypeInv, ChatTypeOK
<1>7. ClosedIsGone'
  BY <1>1, <1>2, <1>3 DEF Safe, ClosedIsGone, Gone
<1>. QED
  BY <1>4, <1>5, <1>6, <1>7 DEF Safe

(* A send by somebody who reaches a connection that is not gone does not   *)
(* end the process, unless connections were dropped.                       *)
LEMMA SendOrDropSafe ==
    ASSUME Safe, ~panicked, NEW c \in Conns, ~Gone(c), NEW frame, SendOrDrop(c, frame)
    PROVE  panicked' => dropped # {}
  BY DEF Safe, ClosedIsGone, SendOrDrop

(* The steps of a reader that do not involve the maps.                     *)
LEMMA ReaderSafe ==
    ASSUME TypeInv, Safe, ~panicked, NEW c \in Conns, ReaderAction(c)
    PROVE  Safe'
<1>1. PICK s \in ReaderState : s.op # "none" /\ Goto(c, s)
  BY ReaderGoes
<1>2. reader[c].op # "done"
  BY ReaderGoes
<1>3. UNCHANGED <<maps, hub, closed, dropped>>
  BY DEF ReaderAction, StoreMessage, Typing, ReadReceipt, HandleFails, QueueBroadcast, Confirm,
         Reply, SendError, logs
<1>4. panicked' => dropped # {}
  <2>1. panicked' = panicked \/ \E frame : SendOrDrop(c, frame)
    BY DEF ReaderAction, StoreMessage, Typing, ReadReceipt, HandleFails, QueueBroadcast,
           Confirm, Reply, SendError
  <2>. QED
    BY <1>2, <2>1, SendOrDropSafe DEF Gone
<1>. QED
  BY <1>1, <1>2, <1>3, <1>4, ReaderKeepsSafe

(* A connection enters a conversation only while it reads.                 *)
LEMMA JoinConversationSafe ==
    ASSUME TypeInv, Safe, NEW c \in Conns, NEW k \in Conversations, JoinConversation(c, k)
    PROVE  Safe'
<1>1. /\ rooms \in [Conversations -> SUBSET Conns]
      /\ reader \in [Conns -> ReaderState]
      /\ closed \in SUBSET Conns
      /\ hub \in HubState
  BY DEF TypeInv, ChatTypeOK
<1>2. /\ reader[c].op = "read" /\ At("reply").op = "reply"
      /\ \A d \in Conns : reader'[d] = IF d = c THEN At("reply") ELSE reader[d]
      /\ \A j \in Conversations : rooms'[j] \subseteq rooms[j] \cup {c}
      /\ UNCHANGED <<clients, hub, closed, dropped, panicked>>
  BY <1>1 DEF JoinConversation, Reads, Goto, At, logs
<1>3. PanicOnlyAfterDrop' /\ ClientsAreUsable' /\ RegistersOpen'
  BY <1>2 DEF Safe, PanicOnlyAfterDrop, ClientsAreUsable, RegistersOpen
<1>4. NewIsOpen' /\ JoinedIsNotNew'
  BY <1>2 DEF Safe, NewIsOpen, JoinedIsNotNew
<1>5. UnregistersDone'
  BY <1>1, <1>2, HubFacts DEF Safe, UnregistersDone
<1>6. ClosedIsGone'
  BY <1>1, <1>2 DEF Safe, ClosedIsGone, Gone
<1>. QED
  BY <1>3, <1>4, <1>5, <1>6 DEF Safe

(* What the safety conjuncts do not look at.                               *)
LEMMA UnchangedSafe ==
    ASSUME Safe, UNCHANGED <<maps, hub, closed, reader, dropped, panicked>>
    PROVE  Safe'
  BY DEF Safe, PanicOnlyAfterDrop, ClientsAreUsable, NewIsOpen, RegistersOpen,
         JoinedIsNotNew, UnregistersDone, ClosedIsGone, Gone, maps

LEMMA OtherSafe ==
    ASSUME Safe,
           \/ \E c \in Conns : Disconnect(c) \/ WriteFrame(c) \/ WriterEnds(c)
           \/ \E u \in Users : Notify(u)
           \/ SendToUser
    PROVE  Safe'
<1>1. UNCHANGED <<maps, hub, closed, reader, dropped, panicked>>
  BY DEF Disconnect, WriteFrame, WriterEnds, Notify, SendToUser, logs
<1>. QED
  BY <1>1, UnchangedSafe

(* A new connection is open, and nobody knows it.                          *)
LEMMA ConnectSafe ==
    ASSUME TypeInv, Safe, NEW c \in Conns, Connect(c)
    PROVE  Safe'
<1>1. reader \in [Conns -> ReaderState] /\ closed \in SUBSET Conns
  BY DEF TypeInv, ChatTypeOK
<1>2. /\ reader[c].op = "none" /\ At("read").op = "read" /\ hub.op = "idle"
      /\ \A d \in Conns : reader'[d] = IF d = c THEN At("read") ELSE reader[d]
      /\ hub'.op = "register" /\ hub'.conn = c
      /\ UNCHANGED <<clients, rooms, closed, dropped, panicked>>
  BY <1>1 DEF Connect, Goto, At, Idle, maps, logs
<1>3. PanicOnlyAfterDrop' /\ ClientsAreUsable'
  BY <1>2 DEF Safe, PanicOnlyAfterDrop, ClientsAreUsable
<1>4. NewIsOpen' /\ RegistersOpen' /\ JoinedIsNotNew'
  BY <1>2 DEF Safe, NewIsOpen, RegistersOpen, JoinedIsNotNew
<1>5. UnregistersDone' /\ ClosedIsGone'
  BY <1>1, <1>2 DEF Safe, UnregistersDone, ClosedIsGone, Gone
<1>. QED
  BY <1>3, <1>4, <1>5 DEF Safe

(* A connection that unregisters was reading until now: it is not gone.    *)
LEMMA LeaveSafe ==
    ASSUME TypeInv, Safe, NEW c \in Conns, Leave(c)
    PROVE  Safe'
<1>1. reader \in [Conns -> ReaderState] /\ closed \in SUBSET Conns
  BY DEF TypeInv, ChatTypeOK
<1>2. /\ reader[c].op = "read" /\ At("done").op = "done" /\ hub.op = "idle"
      /\ \A d \in Conns : reader'[d] = IF d = c THEN At("done") ELSE reader[d]
      /\ hub'.op = "unregister" /\ hub'.conn = c
      /\ UNCHANGED <<clients, rooms, closed, dropped, panicked>>
  BY <1>1 DEF Leave, Goto, At, Idle, maps, logs
<1>3. PanicOnlyAfterDrop' /\ ClientsAreUsable' /\ NewIsOpen' /\ RegistersOpen'
  BY <1>2 DEF Safe, PanicOnlyAfterDrop, ClientsAreUsable, NewIsOpen, RegistersOpen
<1>4. JoinedIsNotNew' /\ UnregistersDone'
  BY <1>2 DEF Safe, JoinedIsNotNew, UnregistersDone
<1>5. ClosedIsGone'
  BY <1>1, <1>2 DEF Safe, ClosedIsGone, Gone
<1>. QED
  BY <1>3, <1>4, <1>5 DEF Safe

(* The hub registers an open connection, whatever was in the map.          *)
LEMMA RegisterClientSafe ==
    ASSUME TypeInv, Safe, NEW c \in Conns, RegisterClient(c)
    PROVE  Safe'
<1>1. clients \in [Users -> Conns \cup {NoConn}] /\ Owner[c] \in Users
  BY OwnerAssumption DEF TypeInv, ChatTypeOK
<1>2. /\ hub.op = "register" /\ hub.conn = c /\ hub'.op = "idle"
      /\ \A u \in Users : clients'[u] = IF u = Owner[c] THEN c ELSE clients[u]
      /\ UNCHANGED <<rooms, closed, reader, dropped, panicked>>
  BY <1>1 DEF RegisterClient, Idle, At, logs
<1>3. PanicOnlyAfterDrop' /\ NewIsOpen' /\ RegistersOpen' /\ JoinedIsNotNew'
      /\ UnregistersDone'
  BY <1>2 DEF Safe, PanicOnlyAfterDrop, NewIsOpen, RegistersOpen, JoinedIsNotNew,
              UnregistersDone
<1>4. ClientsAreUsable'
  BY <1>2 DEF Safe, ClientsAreUsable, RegistersOpen
<1>5. ClosedIsGone'
  BY <1>2 DEF Safe, ClosedIsGone, Gone
<1>. QED
  BY <1>3, <1>4, <1>5 DEF Safe

(* What unregisters leaves the map and the conversations, and is done: it  *)
(* is gone when it is closed.  It was closed before only if it was dropped.*)
LEMMA UnregisterClientSafe ==
    ASSUME TypeInv, Safe, ~panicked, NEW c \in Conns, UnregisterClient(c)
    PROVE  Safe'
<1>1. /\ clients \in [Users -> Conns \cup {NoConn}] /\ Owner[c] \in Users
      /\ rooms \in [Conversations -> SUBSET Conns]
  BY OwnerAssumption DEF TypeInv, ChatTypeOK
<1>2. /\ hub.op = "unregister" /\ hub.conn = c /\ hub'.op = "idle"
      /\ \A u \in Users : clients'[u] = IF u = Owner[c] THEN NoConn ELSE clients[u]
      /\ \A k \in Conversations : rooms'[k] = rooms[k] \ {c}
      /\ closed' \subseteq closed \cup {c}
      /\ UNCHANGED <<reader, dropped>>
  BY <1>1 DEF UnregisterClient, Unregistered, Idle, At, logs
<1>3. c \in closed => c \in dropped
  BY <1>2 DEF Safe, ClosedIsGone, Gone
<1>4. PanicOnlyAfterDrop'
  BY <1>2, <1>3 DEF PanicOnlyAfterDrop, UnregisterClient, Unregistered
<1>5. ClientsAreUsable'
  BY <1>1, <1>2 DEF Safe, ClientsAreUsable
<1>6. reader[c].op = "done"
  BY <1>2 DEF Safe, UnregistersDone
<1>7. NewIsOpen' /\ RegistersOpen' /\ JoinedIsNotNew' /\ UnregistersDone'
  BY <1>2, <1>6 DEF Safe, NewIsOpen, RegistersOpen, JoinedIsNotNew, UnregistersDone
<1>8. ClosedIsGone'
  BY <1>2, <1>6 DEF Safe, ClosedIsGone, Gone
<1>. QED
  BY <1>4, <1>5, <1>7, <1>8 DEF Safe

(* The hub delivers to connections of the conversation, none of them gone. *)
LEMMA TakeBroadcastSafe ==
    ASSUME TypeInv, Safe, TakeBroadcast
    PROVE  Safe'
<1>. DEFINE post == Head(broadcast)
            left == {c \in rooms[post.conv] : Owner[c] # post.exclude}
<1>1. broadcast \in Seq(Post) /\ broadcast # <<>> /\ Delivering(post, left)
      /\ UNCHANGED <<clients, rooms, closed, reader, dropped, panicked>>
  BY DEF TypeInv, ChatTypeOK, TakeBroadcast, maps, logs
<1>2. post.conv \in Conversations
  <2>1. Head(broadcast) \in Post
    BY <1>1, HeadTailProperties
  <2>. QED
    BY <2>1 DEF Post
<1>3. \A c \in left : c \in rooms[post.conv]
  OBVIOUS
<1>4. /\ hub'.op \in {"idle", "deliver"}
      /\ hub'.op = "deliver" => hub'.left = left
  BY <1>1, DeliveringFacts
<1>5. PanicOnlyAfterDrop' /\ ClientsAreUsable' /\ NewIsOpen' /\ RegistersOpen'
      /\ UnregistersDone'
  BY <1>1, <1>4 DEF Safe, PanicOnlyAfterDrop, ClientsAreUsable, NewIsOpen, RegistersOpen,
              UnregistersDone
<1>. HIDE DEF left, post
<1>6. JoinedIsNotNew' /\ ClosedIsGone'
  BY <1>1, <1>2, <1>3, <1>4 DEF Safe, JoinedIsNotNew, ClosedIsGone, Gone
<1>. QED
  BY <1>5, <1>6 DEF Safe

LEMMA DeliverSafe ==
    ASSUME TypeInv, Safe, ~panicked, NEW c \in Conns, Deliver(c)
    PROVE  Safe'
<1>1. /\ hub.op = "deliver" /\ c \in hub.left
      /\ Delivering(hub.post, hub.left \ {c})
      /\ SendOrDrop(c, hub.post.frame)
      /\ UNCHANGED <<clients, rooms, closed, reader, dropped>>
  BY DEF Deliver, maps, logs
<1>2. /\ hub'.op \in {"idle", "deliver"}
      /\ hub'.op = "deliver" => hub'.left = hub.left \ {c}
  BY <1>1, DeliveringFacts
<1>3. PanicOnlyAfterDrop'
  BY <1>1, SendOrDropSafe DEF PanicOnlyAfterDrop, Gone
<1>4. ClientsAreUsable' /\ NewIsOpen' /\ RegistersOpen' /\ UnregistersDone'
  BY <1>1, <1>2 DEF Safe, ClientsAreUsable, NewIsOpen, RegistersOpen, UnregistersDone
<1>5. JoinedIsNotNew' /\ ClosedIsGone'
  BY <1>1, <1>2 DEF Safe, JoinedIsNotNew, ClosedIsGone, Gone
<1>. QED
  BY <1>3, <1>4, <1>5 DEF Safe

(* A dropped connection leaves the map, and ClosedIsGone excepts it.       *)
LEMMA DropClientSafe ==
    ASSUME TypeInv, Safe, ~panicked, NEW c \in Conns, DropClient(c)
    PROVE  Safe'
<1>1. /\ clients \in [Users -> Conns \cup {NoConn}] /\ Owner[c] \in Users
      /\ rooms \in [Conversations -> SUBSET Conns]
  BY OwnerAssumption DEF TypeInv, ChatTypeOK
<1>2. /\ hub.op = "deliver" /\ c \in hub.left
      /\ Delivering(hub.post, hub.left \ {c})
      /\ \A u \in Users : clients'[u] = IF u = Owner[c] THEN NoConn ELSE clients[u]
      /\ \A k \in Conversations : rooms'[k] \subseteq rooms[k]
      /\ closed' = closed \cup {c} /\ dropped' = dropped \cup {c}
      /\ UNCHANGED reader
  BY <1>1 DEF DropClient, Dropped
<1>3. /\ hub'.op \in {"idle", "deliver"}
      /\ hub'.op = "deliver" => hub'.left = hub.left \ {c}
  BY <1>2, DeliveringFacts
<1>4. PanicOnlyAfterDrop' /\ ClientsAreUsable'
  BY <1>1, <1>2 DEF Safe, PanicOnlyAfterDrop, ClientsAreUsable
<1>5. reader[c].op # "none"
  BY <1>2 DEF Safe, JoinedIsNotNew
<1>6. NewIsOpen' /\ RegistersOpen' /\ JoinedIsNotNew' /\ UnregistersDone'
  BY <1>2, <1>3, <1>5 DEF Safe, NewIsOpen, RegistersOpen, JoinedIsNotNew, UnregistersDone
<1>7. ClosedIsGone'
  BY <1>2, <1>3 DEF Safe, ClosedIsGone, Gone
<1>. QED
  BY <1>4, <1>6, <1>7 DEF Safe

(* A process that has ended does nothing.                                  *)
LEMMA NextRunning == Next => ~panicked
  BY DEF Next, ClientStep, Connect, Disconnect, StoreMessage, Typing, JoinConversation,
     ReadReceipt, HandleFails, Reads, ReaderStep, QueueBroadcast, Confirm, Reply, SendError,
     Leave, WriterStep, WriteFrame, WriterEnds, HubStep, TakeBroadcast, RegisterClient,
     UnregisterClient, Unregistered, Deliver, DropClient, Dropped, Notify, SendToUser

LEMMA NextSafe == TypeInv /\ Safe /\ [Next]_vars => Safe'
<1>. SUFFICES ASSUME TypeInv, Safe, [Next]_vars PROVE Safe'
  OBVIOUS
<1>1. ASSUME NEW c \in Conns, ~panicked,
             ClientStep(c) \/ ReaderStep(c) \/ Leave(c) \/ WriterStep(c)
      PROVE  Safe'
  BY <1>1, ConnectSafe, ReaderSafe, JoinConversationSafe, LeaveSafe, OtherSafe
     DEF ClientStep, ReaderStep, WriterStep, ReaderAction
<1>2. ASSUME ~panicked, HubStep PROVE Safe'
  BY <1>2, TakeBroadcastSafe, RegisterClientSafe, UnregisterClientSafe, DeliverSafe,
     DropClientSafe DEF HubStep
<1>3. ASSUME (\E u \in Users : Notify(u)) \/ SendToUser PROVE Safe'
  BY <1>3, OtherSafe
<1>4. CASE UNCHANGED vars
  BY <1>4, UnchangedSafe DEF vars, logs
<1>. QED
  BY <1>1, <1>2, <1>3, <1>4, NextRunning DEF Next

-----------------------------------------------------------------------------
(* In every reachable state of every interleaving the inductive invariant  *)
(* of the hub and its connections holds.                                   *)
THEOREM Invariance == Spec => []IInv
<1>1. Init => IInv
  BY InitTypeInv, InitSafe DEF IInv
<1>2. IInv /\ [Next]_vars => IInv'
  BY NextTypeInv, NextSafe DEF IInv
<1>. QED
  BY <1>1, <1>2, PTL DEF Spec

(* Maps, channels and sockets hold what they should: no channel is over    *)
(* its capacity, and every frame in one belongs to a message that was      *)
(* stored.                                                                 *)
THEOREM TypeCorrect == Spec => []ChatTypeOK
<1>1. IInv => ChatTypeOK
  BY DEF IInv, TypeInv
<1>. QED
  BY <1>1, Invariance, PTL

(* Connections that replace each other in the map and unregister out of    *)
(* turn never make the server send on a closed channel or close one twice: *)
(* that takes a connection whose queue was full.                           *)
THEOREM PanicOnlyAfterDropHolds == Spec => []PanicOnlyAfterDrop
<1>1. IInv => PanicOnlyAfterDrop
  BY DEF IInv, Safe
<1>. QED
  BY <1>1, Invariance, PTL

(* A connection in the map is its user's and can be sent to.               *)
THEOREM ClientsAreUsableHolds == Spec => []ClientsAreUsable
<1>1. IInv => ClientsAreUsable
  BY DEF IInv, Safe
<1>. QED
  BY <1>1, Invariance, PTL
-----------------------------------------------------------------------------
(* The order of messages, along the whole way from a reader through the    *)
(* hub to the socket.  What follows is about given senders S, readers R,   *)
(* posts B in the hub's queue, place h of the hub, queues q and sockets o. *)

Sender ==
    [m \in Messages |-> IF m \in DOMAIN message THEN message[m].from ELSE NoConn]

(* Of two messages of one connection the first was stored first.           *)
Precedes(S, m, n) == m # OtherFrame /\ n # OtherFrame /\ S[m] = S[n] => m < n

(* The message that a reader holds.                                        *)
Holds(s) ==
    IF s.op = "queue" THEN s.post.frame
    ELSE IF s.op = "confirm" THEN s.frame ELSE OtherFrame

(* A message was sent to a connection.                                     *)
Reached(line, socket, m) ==
    (\E i \in DOMAIN line : line[i] = m) \/ (\E i \in DOMAIN socket : socket[i].id = m)

(* A post is kept from the user who sent it.                               *)
Addressed(S, post) ==
    post.frame # OtherFrame =>
        S[post.frame] \in Conns /\ post.exclude = Owner[S[post.frame]]

PostsInOrder(S, B) ==
    /\ \A i \in DOMAIN B : Addressed(S, B[i])
    /\ \A i, j \in DOMAIN B : i < j => Precedes(S, B[i].frame, B[j].frame)

DeliveryInOrder(S, B, h) ==
    h.op = "deliver" =>
        /\ Addressed(S, h.post)
        /\ \A i \in DOMAIN B : Precedes(S, h.post.frame, B[i].frame)
        /\ \A c \in h.left : Owner[c] # h.post.exclude

LineInOrder(S, line, socket) ==
    /\ \A i, j \in DOMAIN socket : i < j => Precedes(S, socket[i].id, socket[j].id)
    /\ \A i \in DOMAIN socket, j \in DOMAIN line : Precedes(S, socket[i].id, line[j])
    /\ \A i, j \in DOMAIN line : i < j => Precedes(S, line[i], line[j])

(* What reached a connection is its own message, or one of another user    *)
(* and older than all that are still to come from there.                   *)
CameInOrder(S, B, h, c, m) ==
    /\ S[m] \in Conns
    /\ S[m] = c \/ Owner[S[m]] # Owner[c]
    /\ S[m] # c =>
          /\ \A i \in DOMAIN B : Precedes(S, m, B[i].frame)
          /\ h.op = "deliver" /\ c \in h.left => Precedes(S, m, h.post.frame)

(* A reader holds the latest message of its connection, which was sent to  *)
(* nobody before it is in the queue of the hub, and not back to its sender *)
(* before it is confirmed.                                                 *)
HoldsLatest(S, c, s, B, h, q, o) ==
    \A m \in Messages : Holds(s) = m =>
        /\ S[m] = c
        /\ \A n \in Messages : S[n] = c => n <= m
        /\ ~Reached(q[c], o[c], m)
        /\ s.op = "queue" =>
              /\ s.post.exclude = Owner[c]
              /\ \A i \in DOMAIN B : B[i].frame # m
              /\ h.op = "deliver" => h.post.frame # m
              /\ \A d \in Conns : ~Reached(q[d], o[d], m)

Ordered(S, R, B, h, q, o) ==
    /\ PostsInOrder(S, B)
    /\ DeliveryInOrder(S, B, h)
    /\ \A c \in Conns : LineInOrder(S, q[c], o[c])
    /\ \A c \in Conns, m \in Messages :
          Reached(q[c], o[c], m) => CameInOrder(S, B, h, c, m)
    /\ \A c \in Conns : HoldsLatest(S, c, R[c], B, h, q, o)

Typed(S, R, B, q, o) ==
    /\ S \in [Messages -> Conns \cup {NoConn}]
    /\ R \in [Conns -> ReaderState]
    /\ B \in Seq(Post)
    /\ q \in [Conns -> Seq(Frames)] /\ o \in [Conns -> Seq(Written)]

OrderInv == Ordered(Sender, reader, broadcast, hub, send, out)

(* How a step changes the readers, the hub, the queues and the sockets.    *)
OthersKeep(R, R2, c) == \A g \in Conns : g # c => R2[g] = R[g]
Newest(S, f) == \A m \in Messages : S[m] \in Conns => m < f
NextDelivery(h, h2, c) ==
    h2.op = "deliver" => h2.post = h.post /\ h2.left = h.left \ {c}
Writes(q, q2, o, o2, c) ==
    /\ q2 = [q EXCEPT ![c] = Tail(q[c])]
    /\ \/ Head(q[c]) = OtherFrame /\ o2 = o
       \/ \E w \in Written : w.id = Head(q[c]) /\ o2 = [o EXCEPT ![c] = Append(o[c], w)]

-----------------------------------------------------------------------------
(* Queues, element by element.                                             *)

Longer(s, t, x) ==
    \E n \in Nat :
       /\ DOMAIN s = 1..n /\ DOMAIN t = 1..(n + 1)
       /\ \A i \in 1..n : t[i] = s[i]
       /\ t[n + 1] = x

LEMMA AppendParts ==
    ASSUME NEW T, NEW s \in Seq(T), NEW x \in T
    PROVE  Longer(s, Append(s, x), x)
<1>1. /\ Len(s) \in Nat /\ DOMAIN s = 1..Len(s)
      /\ Append(s, x) \in Seq(T) /\ Len(Append(s, x)) = Len(s) + 1
      /\ \A i \in 1..Len(s) : Append(s, x)[i] = s[i]
      /\ Append(s, x)[Len(s) + 1] = x
  BY LenProperties, AppendProperties
<1>2. DOMAIN Append(s, x) = 1..(Len(s) + 1)
  BY <1>1, LenProperties
<1> QED
  BY <1>1, <1>2 DEF Longer

LEMMA TailParts ==
    ASSUME NEW T, NEW s \in Seq(T), s # <<>>
    PROVE  \E n \in Nat : /\ DOMAIN s = 1..(n + 1) /\ DOMAIN Tail(s) = 1..n
                          /\ Head(s) = s[1]
                          /\ \A i \in 1..n : Tail(s)[i] = s[i + 1]
<1>1. /\ Len(s) \in Nat /\ DOMAIN s = 1..Len(s) /\ Len(s) # 0
      /\ Tail(s) \in Seq(T) /\ Len(Tail(s)) = Len(s) - 1
      /\ \A i \in 1..Len(Tail(s)) : Tail(s)[i] = s[i + 1]
  BY LenProperties, HeadTailProperties, EmptySeq
<1>2. DOMAIN Tail(s) = 1..Len(Tail(s))
  BY <1>1, LenProperties
<1>3. Head(s) = s[1]
  OBVIOUS
<1>4. PICK k \in Nat : k = Len(s)
  BY <1>1
<1>5. k # 0 /\ Len(Tail(s)) = k - 1
  BY <1>1, <1>4
<1>6. PICK n \in Nat : n = k - 1
  BY <1>5
<1>7. DOMAIN s = 1..(n + 1) /\ DOMAIN Tail(s) = 1..n
  <2>1. k = n + 1 /\ Len(Tail(s)) = n
    BY <1>5, <1>6
  <2> QED
    BY <1>1, <1>2, <1>4, <2>1
<1>8. \A i \in 1..n : Tail(s)[i] = s[i + 1]
  BY <1>1, <1>5, <1>6
<1> QED
  BY <1>3, <1>7, <1>8

(* A message newer than those of its sender that were sent.                *)
LEMMA LineAppend ==
    ASSUME NEW S, NEW line \in Seq(Frames), NEW socket \in Seq(Written), NEW f \in Frames,
           LineInOrder(S, line, socket),
           \A m \in Messages : Reached(line, socket, m) => Precedes(S, m, f)
    PROVE  /\ LineInOrder(S, Append(line, f), socket)
           /\ \A m : Reached(Append(line, f), socket, m) => m = f \/ Reached(line, socket, m)
<1>1. PICK n \in Nat : /\ DOMAIN line = 1..n /\ DOMAIN Append(line, f) = 1..(n + 1)
                       /\ \A i \in 1..n : Append(line, f)[i] = line[i]
                       /\ Append(line, f)[n + 1] = f
  <2>1. Longer(line, Append(line, f), f)
    BY AppendParts
  <2> QED
    BY <2>1 DEF Longer
<1>2. PICK longer : longer = Append(line, f)
  OBVIOUS
<1>3. \A i \in 1..n : line[i] \in Frames
  BY <1>1, LenProperties
<1>4. \A i \in DOMAIN socket : socket[i] \in Written
  BY LenProperties
<1>5. \A i \in 1..n : Precedes(S, line[i], f)
  <2>1. ASSUME NEW i \in 1..n PROVE Precedes(S, line[i], f)
    <3>1. CASE line[i] = OtherFrame
      BY <3>1 DEF Precedes
    <3>2. CASE line[i] # OtherFrame
      <4>1. line[i] \in Messages /\ Reached(line, socket, line[i])
        BY <1>1, <1>3, <3>2 DEF Frames, Reached
      <4> QED
        BY <4>1
    <3> QED
      BY <3>1, <3>2
  <2> QED
    BY <2>1
<1>6. \A i \in DOMAIN socket : Precedes(S, socket[i].id, f)
  BY <1>4 DEF Reached, Written
<1>7. \A i \in DOMAIN longer : (i \in 1..n /\ longer[i] = line[i]) \/ (i = n + 1 /\ longer[i] = f)
  BY <1>1, <1>2
<1>8. LineInOrder(S, longer, socket)
  <2>1. \A i \in DOMAIN socket, j \in DOMAIN longer : Precedes(S, socket[i].id, longer[j])
    BY <1>1, <1>6, <1>7 DEF LineInOrder
  <2>2. ASSUME NEW i \in DOMAIN longer, NEW j \in DOMAIN longer, i < j
        PROVE  Precedes(S, longer[i], longer[j])
    <3>1. i \in 1..n /\ longer[i] = line[i]
      BY <1>1, <1>2, <1>7, <2>2
    <3>2. CASE j = n + 1
      BY <1>5, <1>7, <3>1, <3>2
    <3>3. CASE j # n + 1
      BY <1>1, <1>7, <2>2, <3>1, <3>3 DEF LineInOrder
    <3> QED
      BY <3>2, <3>3
  <2> QED
    BY <2>1, <2>2 DEF LineInOrder
<1>9. \A m : Reached(longer, socket, m) => m = f \/ Reached(line, socket, m)
  BY <1>1, <1>7 DEF Reached
<1> QED
  BY <1>2, <1>8, <1>9

(* The head of the line is written, or nothing if it is no message.        *)
LEMMA LineWrite ==
    ASSUME NEW S, NEW line \in Seq(Frames), NEW socket \in Seq(Written), line # <<>>,
           LineInOrder(S, line, socket), NEW written,
           \/ Head(line) = OtherFrame /\ written = socket
           \/ \E w \in Written : w.id = Head(line) /\ written = Append(socket, w)
    PROVE  /\ LineInOrder(S, Tail(line), written)
           /\ \A m : Reached(Tail(line), written, m) => Reached(line, socket, m)
<1>1. PICK n \in Nat : /\ DOMAIN line = 1..(n + 1) /\ DOMAIN Tail(line) = 1..n
                       /\ Head(line) = line[1]
                       /\ \A i \in 1..n : Tail(line)[i] = line[i + 1]
  BY TailParts
<1>2. PICK rest : rest = Tail(line)
  OBVIOUS
<1>3. /\ 1 \in DOMAIN line
      /\ \A i \in DOMAIN rest : /\ i \in Nat /\ i + 1 \in DOMAIN line /\ i + 1 > 1
                                /\ rest[i] = line[i + 1]
  BY <1>1, <1>2
<1>4. \A i, j \in DOMAIN rest : i < j => Precedes(S, rest[i], rest[j])
  BY <1>3 DEF LineInOrder
<1>5. CASE written = socket
  <2>1. LineInOrder(S, rest, written)
    BY <1>3, <1>4, <1>5 DEF LineInOrder
  <2>2. \A m : Reached(rest, written, m) => Reached(line, socket, m)
    BY <1>3, <1>5 DEF Reached
  <2> QED
    BY <1>2, <2>1, <2>2
<1>6. ASSUME NEW w \in Written, w.id = Head(line), written = Append(socket, w)
      PROVE  /\ LineInOrder(S, rest, written)
             /\ \A m : Reached(rest, written, m) => Reached(line, socket, m)
  <2>1. PICK k \in Nat : /\ DOMAIN socket = 1..k /\ DOMAIN written = 1..(k + 1)
                         /\ \A i \in 1..k : written[i] = socket[i]
                         /\ written[k + 1] = w
    <3>1. Longer(socket, Append(socket, w), w)
      BY AppendParts
    <3> QED
      BY <1>6, <3>1 DEF Longer
  <2>2. \A i \in DOMAIN written :
            \/ i \in DOMAIN socket /\ written[i] = socket[i]
            \/ i = k + 1 /\ written[i].id = line[1]
    BY <1>1, <1>6, <2>1
  <2>3. ASSUME NEW i \in DOMAIN written, NEW j \in DOMAIN written, i < j
        PROVE  Precedes(S, written[i].id, written[j].id)
    <3>1. i \in DOMAIN socket /\ written[i] = socket[i]
      BY <2>1, <2>2, <2>3
    <3>2. CASE j = k + 1
      BY <1>3, <2>1, <2>2, <3>1, <3>2 DEF LineInOrder
    <3>3. CASE j # k + 1
      BY <2>2, <2>3, <3>1, <3>3 DEF LineInOrder
    <3> QED
      BY <3>2, <3>3
  <2>4. ASSUME NEW i \in DOMAIN written, NEW j \in DOMAIN rest
        PROVE  Precedes(S, written[i].id, rest[j])
    <3>1. CASE i = k + 1
      BY <1>3, <2>1, <2>2, <3>1 DEF LineInOrder
    <3>2. CASE i # k + 1
      BY <1>3, <2>2, <3>2 DEF LineInOrder
    <3> QED
      BY <3>1, <3>2
  <2>5. \A m : Reached(rest, written, m) => Reached(line, socket, m)
    BY <1>3, <2>2 DEF Reached
  <2> QED
    BY <1>4, <2>3, <2>4, <2>5 DEF LineInOrder
<1> QED
  BY <1>2, <1>5, <1>6

-----------------------------------------------------------------------------
(* What steps do to the order.                                             *)

LEMMA HoldsFrame == ASSUME NEW s \in ReaderState PROVE Holds(s) \in Frames
<1>1. /\ s.op = "queue" => s.post \in Post
      /\ s.op = "confirm" => s.frame \in Messages
  BY ReaderFacts
<1> QED
  BY <1>1 DEF Holds, Post, Frames

(* Readers let go of what they held, and the hub goes on with a delivery   *)
(* or ends it.                                                             *)
LEMMA QuietOrder ==
    ASSUME NEW S, NEW R, NEW B, NEW h, NEW q, NEW o, Ordered(S, R, B, h, q, o),
           NEW R2, \A c \in Conns : R2[c] = R[c] \/ Holds(R2[c]) = OtherFrame,
           NEW h2, \/ h2 = h \/ h2.op # "deliver"
                   \/ h.op = "deliver" /\ h2.post = h.post /\ h2.left \subseteq h.left
    PROVE  Ordered(S, R2, B, h2, q, o)
<1>1. PostsInOrder(S, B) /\ \A c \in Conns : LineInOrder(S, q[c], o[c])
  BY DEF Ordered
<1>2. DeliveryInOrder(S, B, h2)
  BY DEF Ordered, DeliveryInOrder
<1>3. ASSUME NEW c \in Conns, NEW m \in Messages, Reached(q[c], o[c], m)
      PROVE  CameInOrder(S, B, h2, c, m)
  <2>1. CameInOrder(S, B, h, c, m)
    BY <1>3 DEF Ordered
  <2> QED
    BY <2>1 DEF CameInOrder
<1>4. ASSUME NEW c \in Conns PROVE HoldsLatest(S, c, R2[c], B, h2, q, o)
  <2>1. HoldsLatest(S, c, R[c], B, h, q, o)
    BY DEF Ordered
  <2>2. CASE R2[c] = R[c]
    BY <2>1, <2>2 DEF HoldsLatest
  <2>3. CASE Holds(R2[c]) = OtherFrame
    BY <2>3 DEF HoldsLatest, Messages, OtherFrame
  <2> QED
    BY <2>2, <2>3
<1> QED
  BY <1>1, <1>2, <1>3, <1>4 DEF Ordered

(* A frame is sent to a connection.                                        *)
LEMMA AppendedOrder ==
    ASSUME NEW S, NEW R, NEW B, NEW h, NEW q, NEW o, Ordered(S, R, B, h, q, o),
           Typed(S, R, B, q, o), NEW c \in Conns, NEW f \in Frames,
           \A m \in Messages : Reached(q[c], o[c], m) => Precedes(S, m, f),
           f # OtherFrame => CameInOrder(S, B, h, c, f),
           f # OtherFrame => \A g \in Conns : Holds(R[g]) = f => g # c /\ R[g].op # "queue",
           NEW q2, q2 = q \/ q2 = [q EXCEPT ![c] = Append(q[c], f)]
    PROVE  Ordered(S, R, B, h, q2, o)
<1>1. CASE q2 = q
  BY <1>1
<1>2. CASE q2 = [q EXCEPT ![c] = Append(q[c], f)]
  <2>1. PICK line \in Seq(Frames), socket \in Seq(Written) : line = q[c] /\ socket = o[c]
    BY DEF Typed
  <2>2. PICK longer : longer = Append(line, f)
    OBVIOUS
  <2>3. LineInOrder(S, line, socket)
    BY <2>1 DEF Ordered
  <2>4. \A m \in Messages : Reached(line, socket, m) => Precedes(S, m, f)
    BY <2>1
  <2>5. /\ LineInOrder(S, longer, socket)
        /\ \A m : Reached(longer, socket, m) => m = f \/ Reached(line, socket, m)
    BY <2>2, <2>3, <2>4, LineAppend
  <2>6. q2[c] = longer /\ \A d \in Conns : d # c => q2[d] = q[d]
    BY <1>2, <2>1, <2>2 DEF Typed
  <2>7. \A d \in Conns : LineInOrder(S, q2[d], o[d])
    BY <2>1, <2>5, <2>6 DEF Ordered
  <2>8. ASSUME NEW d \in Conns, NEW m \in Messages, Reached(q2[d], o[d], m)
        PROVE  (d = c /\ m = f /\ f # OtherFrame) \/ Reached(q[d], o[d], m)
    BY <2>1, <2>5, <2>6, <2>8 DEF Messages, OtherFrame
  <2>9. \A d \in Conns, m \in Messages :
            Reached(q2[d], o[d], m) => CameInOrder(S, B, h, d, m)
    BY <2>8 DEF Ordered
  <2>10. ASSUME NEW g \in Conns PROVE HoldsLatest(S, g, R[g], B, h, q2, o)
    <3>1. HoldsLatest(S, g, R[g], B, h, q, o)
      BY DEF Ordered
    <3>2. ASSUME NEW m \in Messages, Holds(R[g]) = m
          PROVE  /\ ~Reached(q2[g], o[g], m)
                 /\ R[g].op = "queue" => \A d \in Conns : ~Reached(q2[d], o[d], m)
      BY <2>8, <3>1, <3>2 DEF HoldsLatest
    <3> QED
      BY <3>1, <3>2 DEF HoldsLatest
  <2> QED
    BY <2>7, <2>9, <2>10 DEF Ordered
<1> QED
  BY <1>1, <1>2

(* A message is written to a socket.                                       *)
LEMMA WrittenOrder ==
    ASSUME NEW S, NEW R, NEW B, NEW h, NEW q, NEW o, Ordered(S, R, B, h, q, o),
           Typed(S, R, B, q, o), NEW c \in Conns, q[c] # <<>>,
           NEW q2, NEW o2, Writes(q, q2, o, o2, c)
    PROVE  Ordered(S, R, B, h, q2, o2)
<1>1. PICK line \in Seq(Frames), socket \in Seq(Written) : line = q[c] /\ socket = o[c]
  BY DEF Typed
<1>2. LineInOrder(S, line, socket)
  BY <1>1 DEF Ordered
<1>3. /\ q2[c] = Tail(line) /\ \A d \in Conns : d # c => q2[d] = q[d] /\ o2[d] = o[d]
      /\ \/ Head(line) = OtherFrame /\ o2[c] = socket
         \/ \E w \in Written : w.id = Head(line) /\ o2[c] = Append(socket, w)
  BY <1>1 DEF Typed, Writes
<1>4. /\ LineInOrder(S, Tail(line), o2[c])
      /\ \A m : Reached(Tail(line), o2[c], m) => Reached(line, socket, m)
  BY <1>1, <1>2, <1>3, LineWrite
<1>5. \A d \in Conns : \A m : Reached(q2[d], o2[d], m) => Reached(q[d], o[d], m)
  BY <1>1, <1>3, <1>4
<1>6. \A d \in Conns : LineInOrder(S, q2[d], o2[d])
  BY <1>3, <1>4 DEF Ordered
<1>7. \A d \in Conns : HoldsLatest(S, d, R[d], B, h, q2, o2)
  BY <1>5 DEF Ordered, HoldsLatest
<1> QED
  BY <1>5, <1>6, <1>7 DEF Ordered

(* A reader hands what it holds to the hub's queue.                        *)
LEMMA QueuedOrder ==
    ASSUME NEW S, NEW R, NEW B, NEW h, NEW q, NEW o, Ordered(S, R, B, h, q, o),
           Typed(S, R, B, q, o), NEW c \in Conns, R[c].op = "queue",
           NEW post \in Post, post = R[c].post,
           h.op = "deliver" => h.post \in Post,
           NEW R2, \A g \in Conns : g # c => R2[g] = R[g],
           Holds(R2[c]) = post.frame, R2[c].op # "queue"
    PROVE  Ordered(S, R2, Append(B, post), h, q, o)
<1>1. PICK f \in Frames : f = post.frame
  BY DEF Post
<1>2. HoldsLatest(S, c, R[c], B, h, q, o) /\ Holds(R[c]) = f
  BY <1>1 DEF Ordered, Holds
<1>3. PICK n \in Nat : /\ DOMAIN B = 1..n /\ DOMAIN Append(B, post) = 1..(n + 1)
                       /\ \A i \in 1..n : Append(B, post)[i] = B[i]
                       /\ Append(B, post)[n + 1] = post
  <2>1. B \in Seq(Post)
    BY DEF Typed
  <2>2. Longer(B, Append(B, post), post)
    BY <2>1, AppendParts
  <2> QED
    BY <2>2 DEF Longer
<1>4. PICK B2 : B2 = Append(B, post)
  OBVIOUS
<1>5. /\ \A i \in DOMAIN B2 : (i \in DOMAIN B /\ B2[i] = B[i]) \/ (i = n + 1 /\ B2[i] = post)
      /\ \A i, j \in DOMAIN B2 : i < j => i \in DOMAIN B /\ B2[i] = B[i]
  BY <1>3, <1>4
<1>6. ASSUME f # OtherFrame
      PROVE  /\ f \in Messages /\ S[f] = c /\ post.exclude = Owner[c]
             /\ \A m \in Messages : S[m] = c => m <= f
             /\ \A i \in DOMAIN B : B[i].frame # f
             /\ h.op = "deliver" => h.post.frame # f
             /\ \A d \in Conns : ~Reached(q[d], o[d], f)
  BY <1>1, <1>2, <1>6 DEF HoldsLatest, Frames
<1>7. ASSUME NEW m \in Frames, m # f PROVE Precedes(S, m, f)
  BY <1>1, <1>6, <1>7 DEF Precedes, Frames, Messages
<1>8. \A i \in DOMAIN B : B[i].frame \in Frames /\ Precedes(S, B[i].frame, f)
  <2>1. ASSUME NEW i \in DOMAIN B PROVE B[i].frame \in Frames /\ Precedes(S, B[i].frame, f)
    <3>1. B[i].frame \in Frames
      <4>1. B[i] \in Post
        BY LenProperties DEF Typed
      <4> QED
        BY <4>1 DEF Post
    <3>2. CASE f = OtherFrame
      BY <3>1, <3>2 DEF Precedes
    <3>3. CASE f # OtherFrame
      BY <1>6, <1>7, <3>1, <3>3
    <3> QED
      BY <3>1, <3>2, <3>3
  <2> QED
    BY <2>1
<1>9. PostsInOrder(S, B2)
  <2>1. Addressed(S, post)
    BY <1>1, <1>6 DEF Addressed
  <2>2. \A i \in DOMAIN B2 : Addressed(S, B2[i])
    BY <1>5, <2>1 DEF Ordered, PostsInOrder
  <2>3. \A i, j \in DOMAIN B2 : i < j => Precedes(S, B2[i].frame, B2[j].frame)
    BY <1>1, <1>5, <1>8 DEF Ordered, PostsInOrder
  <2> QED
    BY <2>2, <2>3 DEF PostsInOrder
<1>10. DeliveryInOrder(S, B2, h)
  <2>1. CASE h.op # "deliver"
    BY <2>1 DEF DeliveryInOrder
  <2>2. CASE h.op = "deliver"
    <3>1. DeliveryInOrder(S, B, h)
      BY DEF Ordered
    <3>2. Precedes(S, h.post.frame, f)
      <4>1. CASE f = OtherFrame \/ h.post.frame = OtherFrame
        BY <4>1 DEF Precedes
      <4>2. CASE f # OtherFrame /\ h.post.frame # OtherFrame
        <5>1. S[h.post.frame] \in Conns
          BY <2>2, <3>1, <4>2 DEF DeliveryInOrder, Addressed
        <5>2. h.post.frame \in Messages
          BY <2>2, <4>2 DEF Post, Frames
        <5>3. PICK m \in Messages : m = h.post.frame
          BY <5>2
        <5>4. S[m] = c => m <= f /\ m # f
          BY <1>6, <1>7, <2>2, <4>2, <5>3
        <5>5. S[m] = S[f] => m < f
          BY <1>6, <4>2, <5>4 DEF Messages
        <5> QED
          BY <5>3, <5>5 DEF Precedes
      <4> QED
        BY <4>1, <4>2
    <3>3. \A i \in DOMAIN B2 : Precedes(S, h.post.frame, B2[i].frame)
      BY <1>1, <1>5, <2>2, <3>1, <3>2 DEF DeliveryInOrder
    <3> QED
      BY <2>2, <3>1, <3>3 DEF DeliveryInOrder
  <2> QED
    BY <2>1, <2>2
<1>11. ASSUME NEW d \in Conns, NEW m \in Messages, Reached(q[d], o[d], m)
       PROVE  CameInOrder(S, B2, h, d, m)
  <2>1. CameInOrder(S, B, h, d, m)
    BY <1>11 DEF Ordered
  <2>2. Precedes(S, m, f)
    <3>1. CASE f = OtherFrame
      BY <3>1 DEF Precedes
    <3>2. CASE f # OtherFrame
      BY <1>6, <1>7, <1>11, <3>2 DEF Frames
    <3> QED
      BY <3>1, <3>2
  <2>3. S[m] # d => \A i \in DOMAIN B2 : Precedes(S, m, B2[i].frame)
    BY <1>1, <1>5, <2>1, <2>2 DEF CameInOrder
  <2> QED
    BY <2>1, <2>3 DEF CameInOrder
<1>12. ASSUME NEW g \in Conns PROVE HoldsLatest(S, g, R2[g], B2, h, q, o)
  <2>1. CASE g = c
    BY <1>1, <1>2, <2>1 DEF HoldsLatest
  <2>2. CASE g # c
    <3>1. HoldsLatest(S, g, R[g], B, h, q, o) /\ R2[g] = R[g]
      BY <2>2 DEF Ordered
    <3>2. ASSUME NEW m \in Messages, Holds(R[g]) = m, NEW i \in DOMAIN B2, R[g].op = "queue"
          PROVE  B2[i].frame # m
      <4>1. S[m] = g /\ \A j \in DOMAIN B : B[j].frame # m
        BY <3>1, <3>2 DEF HoldsLatest
      <4>2. m # f
        BY <1>6, <2>2, <3>2, <4>1 DEF Messages, OtherFrame
      <4> QED
        BY <1>1, <1>5, <4>1, <4>2
    <3> QED
      BY <3>1, <3>2 DEF HoldsLatest
  <2> QED
    BY <2>1, <2>2
<1>13. Ordered(S, R2, B2, h, q, o)
  BY <1>9, <1>10, <1>11, <1>12 DEF Ordered
<1> QED
  BY <1>4, <1>13

(* The hub takes the first post of its queue.                              *)
LEMMA TakenOrder ==
    ASSUME NEW S, NEW R, NEW B, NEW h, NEW q, NEW o, Ordered(S, R, B, h, q, o),
           Typed(S, R, B, q, o), B # <<>>, NEW h2,
           h2.op = "deliver" =>
               h2.post = Head(B) /\ \A c \in h2.left : c \in Conns /\ Owner[c] # Head(B).exclude
    PROVE  Ordered(S, R, Tail(B), h2, q, o)
<1>1. PICK n \in Nat : /\ DOMAIN B = 1..(n + 1) /\ DOMAIN Tail(B) = 1..n
                       /\ Head(B) = B[1]
                       /\ \A i \in 1..n : Tail(B)[i] = B[i + 1]
  BY TailParts DEF Typed
<1>2. PICK rest : rest = Tail(B)
  OBVIOUS
<1>3. /\ 1 \in DOMAIN B
      /\ \A i \in DOMAIN rest : /\ i \in Nat /\ i + 1 \in DOMAIN B /\ 1 < i + 1
                                /\ rest[i] = B[i + 1]
  BY <1>1, <1>2
<1>4. PostsInOrder(S, B)
  BY DEF Ordered
<1>5. PostsInOrder(S, rest)
  <2>1. \A i, j \in DOMAIN rest : i < j => i + 1 < j + 1
    BY <1>3
  <2> QED
    BY <1>3, <1>4, <2>1 DEF PostsInOrder
<1>6. DeliveryInOrder(S, rest, h2)
  BY <1>1, <1>3, <1>4 DEF DeliveryInOrder, PostsInOrder
<1>7. ASSUME NEW c \in Conns, NEW m \in Messages, Reached(q[c], o[c], m)
      PROVE  CameInOrder(S, rest, h2, c, m)
  <2>1. CameInOrder(S, B, h, c, m)
    BY <1>7 DEF Ordered
  <2> QED
    BY <1>1, <1>3, <2>1 DEF CameInOrder
<1>8. ASSUME NEW c \in Conns PROVE HoldsLatest(S, c, R[c], rest, h2, q, o)
  <2>1. HoldsLatest(S, c, R[c], B, h, q, o)
    BY DEF Ordered
  <2> QED
    BY <1>1, <1>3, <2>1 DEF HoldsLatest
<1> QED
  BY <1>2, <1>5, <1>6, <1>7, <1>8 DEF Ordered

(* The hub sends the post it delivers to one of the connections left.      *)
LEMMA DeliveredOrder ==
    ASSUME NEW S, NEW R, NEW B, NEW h, NEW q, NEW o, Ordered(S, R, B, h, q, o),
           Typed(S, R, B, q, o), h.op = "deliver", NEW c \in Conns, c \in h.left,
           NEW f \in Frames, f = h.post.frame,
           NEW q2, q2 = q \/ q2 = [q EXCEPT ![c] = Append(q[c], f)],
           NEW h2, NextDelivery(h, h2, c)
    PROVE  Ordered(S, R, B, h2, q2, o)
<1>1. Ordered(S, R, B, h2, q, o)
  <2>1. \/ h2 = h \/ h2.op # "deliver"
        \/ h.op = "deliver" /\ h2.post = h.post /\ h2.left \subseteq h.left
    BY DEF NextDelivery
  <2>2. \A g \in Conns : R[g] = R[g] \/ Holds(R[g]) = OtherFrame
    OBVIOUS
  <2> QED
    BY <2>1, <2>2, QuietOrder
<1>2. DeliveryInOrder(S, B, h)
  BY DEF Ordered
<1>3. f # OtherFrame => S[f] \in Conns /\ Owner[S[f]] # Owner[c] /\ S[f] # c
  BY <1>2 DEF DeliveryInOrder, Addressed
<1>4. ASSUME NEW m \in Messages, Reached(q[c], o[c], m) PROVE Precedes(S, m, f)
  <2>1. CameInOrder(S, B, h, c, m)
    BY <1>4 DEF Ordered
  <2>2. CASE S[m] # c
    BY <2>1, <2>2 DEF CameInOrder
  <2>3. CASE S[m] = c
    BY <1>3, <2>3 DEF Precedes
  <2> QED
    BY <2>2, <2>3
<1>5. f # OtherFrame => CameInOrder(S, B, h2, c, f)
  BY <1>2, <1>3 DEF CameInOrder, DeliveryInOrder, NextDelivery
<1>6. f # OtherFrame => \A g \in Conns : Holds(R[g]) = f => g # c /\ R[g].op # "queue"
  <2>1. ASSUME f # OtherFrame, NEW g \in Conns, Holds(R[g]) = f
        PROVE  g # c /\ R[g].op # "queue"
    <3>1. HoldsLatest(S, g, R[g], B, h, q, o) /\ f \in Messages
      BY <2>1 DEF Ordered, Frames
    <3> QED
      BY <1>3, <2>1, <3>1 DEF HoldsLatest
  <2> QED
    BY <2>1
<1> QED
  BY <1>1, <1>4, <1>5, <1>6, AppendedOrder

(* A connection's message is confirmed to it.                              *)
LEMMA ConfirmedOrder ==
    ASSUME NEW S, NEW R, NEW B, NEW h, NEW q, NEW o, Ordered(S, R, B, h, q, o),
           Typed(S, R, B, q, o), NEW c \in Conns, NEW f \in Messages,
           Holds(R[c]) = f, R[c].op # "queue",
           NEW R2 \in [Conns -> ReaderState], \A g \in Conns : g # c => R2[g] = R[g],
           Holds(R2[c]) = OtherFrame,
           NEW q2, q2 = q \/ q2 = [q EXCEPT ![c] = Append(q[c], f)]
    PROVE  Ordered(S, R2, B, h, q2, o)
<1>1. /\ S[f] = c /\ ~Reached(q[c], o[c], f)
      /\ \A m \in Messages : S[m] = c => m <= f
  BY DEF Ordered, HoldsLatest
<1>2. Ordered(S, R2, B, h, q, o)
  <2>1. \A g \in Conns : R2[g] = R[g] \/ Holds(R2[g]) = OtherFrame
    OBVIOUS
  <2> QED
    BY <2>1, QuietOrder
<1>3. ASSUME NEW m \in Messages, Reached(q[c], o[c], m) PROVE Precedes(S, m, f)
  BY <1>1, <1>3 DEF Precedes, Messages
<1>4. CameInOrder(S, B, h, c, f)
  BY <1>1 DEF CameInOrder
<1>5. ASSUME NEW g \in Conns, Holds(R2[g]) = f PROVE g # c /\ R2[g].op # "queue"
  <2>1. g # c
    BY <1>5 DEF Messages, OtherFrame
  <2>2. HoldsLatest(S, g, R[g], B, h, q, o) /\ R2[g] = R[g]
    BY <2>1 DEF Ordered
  <2> QED
    BY <1>1, <1>5, <2>1, <2>2 DEF HoldsLatest
<1>6. f \in Frames
  BY DEF Frames
<1>7. Typed(S, R2, B, q, o)
  BY DEF Typed
<1> QED
  BY <1>2, <1>3, <1>4, <1>5, <1>6, <1>7, AppendedOrder

(* A connection's message is stored, newer than all.                       *)
LEMMA StoredOrder ==
    ASSUME NEW S, NEW R, NEW B, NEW h, NEW q, NEW o, Ordered(S, R, B, h, q, o),
           Typed(S, R, B, q, o), NEW c \in Conns, NEW f \in Messages,
           Newest(S, f),
           h.op = "deliver" => h.post \in Post,
           NEW S2, S2 = [S EXCEPT ![f] = c],
           NEW R2, OthersKeep(R, R2, c), Holds(R2[c]) = f, R2[c].post.exclude = Owner[c]
    PROVE  Ordered(S2, R2, B, h, q, o)
<1>1. /\ S[f] \notin Conns
      /\ \A m \in Messages : S[m] \in Conns => m < f
      /\ \A g \in Conns : g # c => R2[g] = R[g]
  BY DEF Messages, Newest, OthersKeep
<1>2. /\ S2[f] = c /\ \A m \in Messages : m # f => S2[m] = S[m]
      /\ f # OtherFrame
  BY DEF Typed, Messages, OtherFrame
<1>3. ASSUME NEW post \in Post, Addressed(S, post)
      PROVE  /\ post.frame # f /\ post.frame \in Frames /\ Addressed(S2, post)
             /\ post.frame # OtherFrame => S[post.frame] \in Conns
  BY <1>1, <1>2, <1>3 DEF Addressed, Post, Frames
<1>4. \A i \in DOMAIN B : /\ B[i].frame # f /\ B[i].frame \in Frames /\ Addressed(S2, B[i])
                          /\ B[i].frame # OtherFrame => S[B[i].frame] \in Conns
  <2>1. \A i \in DOMAIN B : B[i] \in Post
    BY LenProperties DEF Typed
  <2>2. \A i \in DOMAIN B : Addressed(S, B[i])
    BY DEF Ordered, PostsInOrder
  <2> QED
    BY <1>3, <2>1, <2>2
<1>5. ASSUME NEW m \in Frames, NEW k \in Frames, m # f, k # f, Precedes(S, m, k)
      PROVE  Precedes(S2, m, k)
  BY <1>2, <1>5 DEF Precedes, Frames
<1>6. PostsInOrder(S2, B)
  BY <1>4, <1>5 DEF Ordered, PostsInOrder
<1>7. h.op = "deliver" => h.post.frame # f /\ h.post.frame \in Frames
  BY <1>3 DEF Ordered, DeliveryInOrder
<1>8. DeliveryInOrder(S2, B, h)
  <2>1. DeliveryInOrder(S, B, h)
    BY DEF Ordered
  <2> QED
    BY <1>3, <1>4, <1>5, <1>7, <2>1 DEF DeliveryInOrder
<1>9. ASSUME NEW d \in Conns, NEW m \in Messages, Reached(q[d], o[d], m)
      PROVE  m # f /\ CameInOrder(S, B, h, d, m)
  BY <1>1, <1>9 DEF Ordered, CameInOrder
<1>10. ASSUME NEW d \in Conns, NEW m \in Messages, Reached(q[d], o[d], m)
       PROVE  CameInOrder(S2, B, h, d, m)
  <2>1. m # f /\ CameInOrder(S, B, h, d, m) /\ S2[m] = S[m] /\ m \in Frames
    BY <1>2, <1>9, <1>10 DEF Frames
  <2>2. S[m] # d => \A i \in DOMAIN B : Precedes(S2, m, B[i].frame)
    BY <1>4, <1>5, <2>1 DEF CameInOrder
  <2>3. S[m] # d /\ h.op = "deliver" /\ d \in h.left => Precedes(S2, m, h.post.frame)
    BY <1>5, <1>7, <2>1 DEF CameInOrder
  <2>4. S[m] \in Conns /\ (S[m] = d \/ Owner[S[m]] # Owner[d])
    BY <2>1 DEF CameInOrder
  <2>5. S2[m] \in Conns /\ (S2[m] = d \/ Owner[S2[m]] # Owner[d])
    BY <2>1, <2>4
  <2>6. S2[m] # d => S[m] # d
    BY <2>1
  <2> QED
    BY <2>2, <2>3, <2>5, <2>6 DEF CameInOrder
<1>11. ASSUME NEW d \in Conns PROVE LineInOrder(S2, q[d], o[d])
  <2>1. PICK line \in Seq(Frames), socket \in Seq(Written) : line = q[d] /\ socket = o[d]
    BY DEF Typed
  <2>2. \A i \in DOMAIN line : line[i] \in Frames /\ line[i] # f
    <3>1. \A i \in DOMAIN line : line[i] \in Frames
      BY LenProperties
    <3> QED
      BY <1>9, <2>1, <3>1 DEF Reached
  <2>3. \A i \in DOMAIN socket : socket[i].id \in Frames /\ socket[i].id # f
    <3>1. \A i \in DOMAIN socket : socket[i] \in Written
      BY LenProperties
    <3>2. \A i \in DOMAIN socket : socket[i].id \in Messages
      BY <3>1 DEF Written
    <3> QED
      BY <1>9, <2>1, <3>2 DEF Reached, Frames
  <2>4. LineInOrder(S, line, socket)
    BY <2>1 DEF Ordered
  <2>5. LineInOrder(S2, line, socket)
    BY <1>5, <2>2, <2>3, <2>4 DEF LineInOrder
  <2> QED
    BY <2>1, <2>5
<1>12. ASSUME NEW g \in Conns PROVE HoldsLatest(S2, g, R2[g], B, h, q, o)
  <2>1. CASE g = c
    <3>1. \A m \in Messages : S2[m] = c => m <= f
      BY <1>1, <1>2 DEF Messages
    <3>2. \A d \in Conns : ~Reached(q[d], o[d], f)
      BY <1>9
    <3> QED
      BY <1>2, <1>4, <1>7, <2>1, <3>1, <3>2 DEF HoldsLatest
  <2>2. CASE g # c
    <3>1. HoldsLatest(S, g, R[g], B, h, q, o) /\ R2[g] = R[g]
      BY <1>1, <2>2 DEF Ordered
    <3>2. \A m \in Messages : S2[m] = g => S[m] = g
      BY <1>2, <2>2
    <3>3. \A m \in Messages : S[m] = g => S2[m] = g
      BY <1>1, <1>2
    <3> QED
      BY <3>1, <3>2, <3>3 DEF HoldsLatest
  <2> QED
    BY <2>1, <2>2
<1> QED
  BY <1>6, <1>8, <1>10, <1>11, <1>12 DEF Ordered

-----------------------------------------------------------------------------
(* The order is kept by every step.                                        *)

LEMMA SenderFacts ==
    ASSUME ChatTypeOK
    PROVE  /\ Sender \in [Messages -> Conns \cup {NoConn}]
           /\ \A m \in Messages : Sender[m] \in Conns => m <= Len(message)
           /\ \A m \in Messages : m <= Len(message) => Sender[m] = message[m].from
<1>1. /\ Len(message) \in Nat /\ DOMAIN message = 1..Len(message)
      /\ \A m \in DOMAIN message : message[m] \in MessageRow
  BY LenProperties DEF ChatTypeOK
<1>2. \A m \in DOMAIN message : message[m].from \in Conns
  BY <1>1 DEF MessageRow
<1>3. \A m \in Messages : m <= Len(message) => m \in DOMAIN message
  BY <1>1 DEF Messages
<1> QED
  BY <1>1, <1>2, <1>3, NoConnAssumption DEF Sender

LEMMA TypedNow == ASSUME ChatTypeOK PROVE Typed(Sender, reader, broadcast, send, out)
  BY SenderFacts DEF ChatTypeOK, Typed

LEMMA SenderStays ==
    ASSUME ChatTypeOK, ChatTypeOK', UNCHANGED message \/ \E c \in Conns : Confirm(c)
    PROVE  Sender' = Sender
<1>1. CASE UNCHANGED message
  BY <1>1 DEF Sender
<1>2. ASSUME NEW c \in Conns, Confirm(c) PROVE Sender' = Sender
  <2>1. PICK f : f = reader[c].frame
    OBVIOUS
  <2>2. message' = [message EXCEPT ![f].type = "message_sent"]
    BY <1>2, <2>1 DEF Confirm
  <2>3. DOMAIN message' = DOMAIN message
    BY <2>2
  <2>4. \A m \in DOMAIN message : message[m] \in MessageRow
    BY LenProperties DEF ChatTypeOK
  <2>5. ASSUME NEW m \in DOMAIN message PROVE message'[m].from = message[m].from
    <3>1. PICK r \in MessageRow : r = message[m]
      BY <2>4
    <3>2. message'[m] = r \/ message'[m] = [r EXCEPT !.type = "message_sent"]
      BY <2>2, <3>1
    <3> QED
      BY <3>1, <3>2 DEF MessageRow
  <2> QED
    BY <2>3, <2>5 DEF Sender
<1> QED
  BY <1>1, <1>2

LEMMA HoldsAt ==
    \A s \in {At("read"), At("reply"), At("error"), At("done"), At("none")} :
        Holds(s) = OtherFrame
  BY DEF Holds, At

(* Steps of which nothing is sent, queued or stored.                       *)
LEMMA QuietSteps ==
    ASSUME ChatTypeOK, OrderInv, UNCHANGED <<message, broadcast, send, out>>,
           \A c \in Conns : reader'[c] = reader[c] \/ Holds(reader'[c]) = OtherFrame,
           \/ hub' = hub \/ hub'.op # "deliver"
           \/ hub.op = "deliver" /\ hub'.post = hub.post /\ hub'.left \subseteq hub.left
    PROVE  OrderInv'
<1>1. Sender' = Sender
  BY DEF Sender
<1>2. PICK S, R, B, h, q, o : /\ S = Sender /\ R = reader /\ B = broadcast /\ h = hub
                              /\ q = send /\ o = out
  OBVIOUS
<1>3. PICK R2, h2 : R2 = reader' /\ h2 = hub'
  OBVIOUS
<1>4. \A c \in Conns : R2[c] = R[c] \/ Holds(R2[c]) = OtherFrame
  BY <1>2, <1>3
<1>5. \/ h2 = h \/ h2.op # "deliver"
      \/ h.op = "deliver" /\ h2.post = h.post /\ h2.left \subseteq h.left
  BY <1>2, <1>3
<1>6. Ordered(S, R, B, h, q, o)
  BY <1>2 DEF OrderInv
<1>7. Ordered(S, R2, B, h2, q, o)
  BY <1>4, <1>5, <1>6, QuietOrder
<1> QED
  BY <1>1, <1>2, <1>3, <1>7 DEF OrderInv

(* Steps that send a frame that is no message.                             *)
LEMMA ReplySteps ==
    ASSUME ChatTypeOK, ChatTypeOK', OrderInv, UNCHANGED <<message, broadcast, hub, out>>,
           \A c \in Conns : reader'[c] = reader[c] \/ Holds(reader'[c]) = OtherFrame,
           \/ send' = send
           \/ \E c \in Conns : send' = [send EXCEPT ![c] = Append(send[c], OtherFrame)]
    PROVE  OrderInv'
<1>1. Sender' = Sender
  BY DEF Sender
<1>2. PICK S, R, B, h, q, o : /\ S = Sender /\ R = reader' /\ B = broadcast /\ h = hub
                              /\ q = send /\ o = out
  OBVIOUS
<1>3. Ordered(S, R, B, h, q, o)
  <2>1. PICK R1 : R1 = reader
    OBVIOUS
  <2>2. Ordered(S, R1, B, h, q, o)
    BY <1>2, <2>1 DEF OrderInv
  <2>3. \A c \in Conns : R[c] = R1[c] \/ Holds(R[c]) = OtherFrame
    BY <1>2, <2>1
  <2> QED
    BY <2>2, <2>3, QuietOrder
<1>4. Typed(S, R, B, q, o)
  BY <1>2, TypedNow DEF Typed, ChatTypeOK
<1>5. PICK q2 : q2 = send'
  OBVIOUS
<1>6. CASE q2 = q
  BY <1>1, <1>2, <1>3, <1>5, <1>6 DEF OrderInv
<1>7. ASSUME NEW c \in Conns, q2 = [q EXCEPT ![c] = Append(q[c], OtherFrame)]
      PROVE  OrderInv'
  <2>1. /\ OtherFrame \in Frames
        /\ \A m \in Messages : Reached(q[c], o[c], m) => Precedes(S, m, OtherFrame)
    BY DEF Frames, Precedes
  <2>2. Ordered(S, R, B, h, q2, o)
    BY <1>3, <1>4, <1>7, <2>1, AppendedOrder
  <2> QED
    BY <1>1, <1>2, <1>5, <2>2 DEF OrderInv
<1> QED
  BY <1>2, <1>5, <1>6, <1>7

LEMMA StoreOrder ==
    ASSUME TypeInv, TypeInv', OrderInv, NEW c \in Conns, NEW k \in Conversations,
           StoreMessage(c, k)
    PROVE  OrderInv'
<1>1. PICK S, R, B, h, q, o : /\ S = Sender /\ R = reader /\ B = broadcast /\ h = hub
                              /\ q = send /\ o = out
  OBVIOUS
<1>2. Ordered(S, R, B, h, q, o) /\ Typed(S, R, B, q, o)
  BY <1>1, TypedNow DEF OrderInv, TypeInv
<1>3. PICK f \in Nat : f = Len(message) + 1
  BY LenProperties DEF TypeInv, ChatTypeOK
<1>4. f \in Messages /\ f = Len(message')
  <2>1. /\ message \in Seq(MessageRow) /\ Len(message) \in Nat /\ Len(message) < MaxMessages
        /\ message' = Append(message, [conv |-> k, from |-> c, type |-> "message"])
    BY LenProperties DEF TypeInv, ChatTypeOK, StoreMessage
  <2>2. [conv |-> k, from |-> c, type |-> "message"] \in MessageRow
    BY DEF MessageRow
  <2>3. Len(message') = Len(message) + 1
    BY <2>1, <2>2, AppendProperties
  <2> QED
    BY <1>3, <2>1, <2>3, BoundAssumption DEF Messages
<1>5. \A m \in Messages : S[m] \in Conns => m < f
  <2>1. Len(message) \in Nat /\ \A m \in Messages : S[m] \in Conns => m <= Len(message)
    BY <1>1, SenderFacts, LenProperties DEF TypeInv, ChatTypeOK
  <2> QED
    BY <1>3, <2>1 DEF Messages
<1>6. Sender' = [S EXCEPT ![f] = c]
  <2>1. PICK n \in Nat : n = Len(message)
    BY LenProperties DEF TypeInv, ChatTypeOK
  <2>2. PICK r \in MessageRow : /\ r.from = c /\ message' = Append(message, r)
    BY DEF StoreMessage, MessageRow
  <2>3. /\ DOMAIN message = 1..n /\ DOMAIN message' = 1..(n + 1)
        /\ \A m \in 1..n : message'[m] = message[m]
        /\ message'[n + 1] = r
    <3>1. PICK j \in Nat : /\ DOMAIN message = 1..j /\ DOMAIN message' = 1..(j + 1)
                           /\ \A m \in 1..j : message'[m] = message[m]
                           /\ message'[j + 1] = r
      <4>1. PICK T, M : T = MessageRow /\ M = message
        OBVIOUS
      <4>2. M \in Seq(T) /\ r \in T
        BY <4>1 DEF TypeInv, ChatTypeOK
      <4>3. Longer(M, Append(M, r), r)
        BY <4>2, AppendParts
      <4>4. message' = Append(M, r)
        BY <2>2, <4>1
      <4>5. PICK N : N = message'
        OBVIOUS
      <4>6. Longer(M, N, r)
        BY <4>3, <4>4, <4>5
      <4>7. PICK j \in Nat : /\ DOMAIN M = 1..j /\ DOMAIN N = 1..(j + 1)
                             /\ \A m \in 1..j : N[m] = M[m]
                             /\ N[j + 1] = r
        BY ONLY <4>6 DEF Longer
      <4>8. /\ DOMAIN message = 1..j /\ DOMAIN message' = 1..(j + 1)
            /\ \A m \in 1..j : message'[m] = message[m]
            /\ message'[j + 1] = r
        BY <4>1, <4>5, <4>7
      <4> QED
        BY <4>8
    <3>2. j = n
      BY <2>1, <3>1, LenProperties DEF TypeInv, ChatTypeOK
    <3> QED
      BY <3>1, <3>2
  <2>4. S \in [Messages -> Conns \cup {NoConn}] /\ f = n + 1
    BY <1>2, <1>3, <2>1 DEF Typed
  <2>5. ASSUME NEW m \in Messages
        PROVE  Sender'[m] = IF m = f THEN c ELSE S[m]
    <3>1. CASE m = f
      BY <2>2, <2>3, <2>4, <3>1 DEF Sender
    <3>2. CASE m # f
      <4>1. m \in DOMAIN message' <=> m \in DOMAIN message
        BY <2>3, <2>4, <3>2 DEF Messages
      <4> QED
        BY <1>1, <2>3, <3>2, <4>1 DEF Sender
    <3> QED
      BY <3>1, <3>2
  <2>6. Sender' = [m \in Messages |-> Sender'[m]]
    BY DEF Sender
  <2> QED
    BY <2>4, <2>5, <2>6
<1>7. PICK S2, R2 : S2 = [S EXCEPT ![f] = c] /\ R2 = reader'
  OBVIOUS
<1>8. /\ \A g \in Conns : g # c => R2[g] = R[g]
      /\ Holds(R2[c]) = f /\ R2[c].post.exclude = Owner[c]
  <2>1. R \in [Conns -> ReaderState]
    BY <1>2 DEF Typed
  <2>2. PICK s : s = [op |-> "queue", post |-> [conv |-> k, frame |-> f, exclude |-> Owner[c]]]
    OBVIOUS
  <2>3. R2 = [R EXCEPT ![c] = s]
    BY <1>1, <1>3, <1>7, <2>2 DEF StoreMessage, Goto
  <2>4. s.op = "queue" /\ s.post.frame = f /\ s.post.exclude = Owner[c]
    BY <2>2
  <2>5. Holds(s) = f
    BY <2>4 DEF Holds
  <2>6. R2[c] = s /\ \A g \in Conns : g # c => R2[g] = R[g]
    BY <2>1, <2>3
  <2> QED
    BY <2>4, <2>5, <2>6
<1>9. h.op = "deliver" => h.post \in Post
  BY <1>1, HubFacts DEF TypeInv, ChatTypeOK
<1>10. Ordered(S2, R2, B, h, q, o)
  <2>1. /\ Newest(S, f) /\ OthersKeep(R, R2, c)
        /\ Holds(R2[c]) = f /\ R2[c].post.exclude = Owner[c]
    BY <1>5, <1>8 DEF Newest, OthersKeep
  <2>2. S2 = [S EXCEPT ![f] = c]
    BY <1>7
  <2> QED
    BY <1>2, <1>4, <1>9, <2>1, <2>2, StoredOrder
<1>11. UNCHANGED <<broadcast, hub, send, out>>
  BY DEF StoreMessage
<1> QED
  BY <1>1, <1>6, <1>7, <1>10, <1>11 DEF OrderInv

LEMMA QueueOrder ==
    ASSUME TypeInv, OrderInv, NEW c \in Conns, QueueBroadcast(c)
    PROVE  OrderInv'
<1>1. PICK S, R, B, h, q, o : /\ S = Sender /\ R = reader /\ B = broadcast /\ h = hub
                              /\ q = send /\ o = out
  OBVIOUS
<1>2. Ordered(S, R, B, h, q, o) /\ Typed(S, R, B, q, o)
  BY <1>1, TypedNow DEF OrderInv, TypeInv
<1>3. R[c].op = "queue" /\ R \in [Conns -> ReaderState]
  BY <1>1, <1>2 DEF QueueBroadcast, Typed
<1>4. PICK post \in Post : post = R[c].post
  BY <1>3, ReaderFacts
<1>5. PICK R2 : R2 = reader'
  OBVIOUS
<1>6. PICK s : s = IF post.frame = OtherFrame THEN At("read")
                   ELSE [op |-> "confirm", frame |-> post.frame]
  OBVIOUS
<1>7. R2 = [R EXCEPT ![c] = s] /\ broadcast' = Append(B, post)
  BY <1>1, <1>4, <1>5, <1>6 DEF QueueBroadcast, Goto
<1>8. Holds(s) = post.frame /\ s.op # "queue"
  <2>1. CASE post.frame = OtherFrame
    BY <1>6, <2>1 DEF Holds, At
  <2>2. CASE post.frame # OtherFrame
    <3>1. s.op = "confirm" /\ s.frame = post.frame
      BY <1>6, <2>2
    <3> QED
      BY <3>1 DEF Holds
  <2> QED
    BY <2>1, <2>2
<1>9. /\ \A g \in Conns : g # c => R2[g] = R[g]
      /\ Holds(R2[c]) = post.frame /\ R2[c].op # "queue"
  BY <1>3, <1>7, <1>8
<1>10. Ordered(S, R2, Append(B, post), h, q, o)
  <2>1. h.op = "deliver" => h.post \in Post
    BY <1>1, HubFacts DEF TypeInv, ChatTypeOK
  <2> QED
    BY <1>2, <1>3, <1>4, <1>9, <2>1, QueuedOrder
<1>11. UNCHANGED <<message, hub, send, out>>
  BY DEF QueueBroadcast, logs
<1>12. Sender' = Sender
  BY <1>11 DEF Sender
<1> QED
  BY <1>1, <1>5, <1>7, <1>10, <1>11, <1>12 DEF OrderInv

LEMMA ConfirmOrder ==
    ASSUME TypeInv, TypeInv', OrderInv, NEW c \in Conns, Confirm(c)
    PROVE  OrderInv'
<1>1. PICK S, R, B, h, q, o : /\ S = Sender /\ R = reader /\ B = broadcast /\ h = hub
                              /\ q = send /\ o = out
  OBVIOUS
<1>2. Ordered(S, R, B, h, q, o) /\ Typed(S, R, B, q, o)
  BY <1>1, TypedNow DEF OrderInv, TypeInv
<1>3. R[c].op = "confirm" /\ R \in [Conns -> ReaderState]
  BY <1>1, <1>2 DEF Confirm, Typed
<1>4. PICK f \in Messages : f = R[c].frame
  BY <1>3, ReaderFacts
<1>5. Holds(R[c]) = f /\ R[c].op # "queue"
  BY <1>3, <1>4 DEF Holds
<1>6. PICK R2 \in [Conns -> ReaderState] : R2 = reader'
  BY DEF TypeInv, ChatTypeOK
<1>7. (\A g \in Conns : g # c => R2[g] = R[g]) /\ Holds(R2[c]) = OtherFrame
  BY <1>1, <1>3, <1>6, HoldsAt DEF Confirm, Goto
<1>8. PICK q2 : q2 = send'
  OBVIOUS
<1>9. q2 = q \/ q2 = [q EXCEPT ![c] = Append(q[c], f)]
  BY <1>1, <1>4, <1>8 DEF Confirm, SendOrDrop
<1>10. Ordered(S, R2, B, h, q2, o)
  BY <1>2, <1>5, <1>7, <1>9, ConfirmedOrder
<1>11. UNCHANGED <<broadcast, hub, out>>
  BY DEF Confirm
<1>12. Sender' = Sender
  BY SenderStays DEF TypeInv
<1> QED
  BY <1>1, <1>6, <1>8, <1>10, <1>11, <1>12 DEF OrderInv

LEMMA TakeOrder == ASSUME TypeInv, OrderInv, TakeBroadcast PROVE OrderInv'
<1>1. PICK S, R, B, h, q, o : /\ S = Sender /\ R = reader /\ B = broadcast /\ h = hub
                              /\ q = send /\ o = out
  OBVIOUS
<1>2. Ordered(S, R, B, h, q, o) /\ Typed(S, R, B, q, o) /\ B # <<>>
  BY <1>1, TypedNow DEF OrderInv, TypeInv, TakeBroadcast
<1>3. PICK h2 : h2 = hub'
  OBVIOUS
<1>4. PICK post : post = Head(B)
  OBVIOUS
<1>5. h2.op = "deliver" =>
          h2.post = post /\ \A c \in h2.left : c \in Conns /\ Owner[c] # post.exclude
  <2>1. PICK left : left = {c \in rooms[post.conv] : Owner[c] # post.exclude}
    OBVIOUS
  <2>2. Delivering(post, left)
    BY <1>1, <1>4, <2>1 DEF TakeBroadcast
  <2>3. left \subseteq Conns
    <3>1. post \in Post
      BY <1>2, <1>4, TailFacts DEF Typed
    <3> QED
      BY <2>1, <3>1 DEF Post, TypeInv, ChatTypeOK
  <2> QED
    BY <1>3, <2>1, <2>2, <2>3, DeliveringFacts
<1>6. Ordered(S, R, Tail(B), h2, q, o)
  BY <1>2, <1>4, <1>5, TakenOrder
<1>7. UNCHANGED <<message, reader, send, out>> /\ broadcast' = Tail(B)
  BY <1>1 DEF TakeBroadcast, logs
<1>8. Sender' = Sender
  BY <1>7 DEF Sender
<1> QED
  BY <1>1, <1>3, <1>6, <1>7, <1>8 DEF OrderInv

LEMMA DeliverOrder == ASSUME TypeInv, OrderInv, NEW c \in Conns, Deliver(c) PROVE OrderInv'
<1>1. PICK S, R, B, h, q, o : /\ S = Sender /\ R = reader /\ B = broadcast /\ h = hub
                              /\ q = send /\ o = out
  OBVIOUS
<1>2. Ordered(S, R, B, h, q, o) /\ Typed(S, R, B, q, o)
  BY <1>1, TypedNow DEF OrderInv, TypeInv
<1>3. h.op = "deliver" /\ c \in h.left /\ h.post \in Post
  BY <1>1, HubFacts DEF Deliver, TypeInv, ChatTypeOK
<1>4. PICK f \in Frames : f = h.post.frame
  BY <1>3 DEF Post
<1>5. PICK q2, h2 : q2 = send' /\ h2 = hub'
  OBVIOUS
<1>6. q2 = q \/ q2 = [q EXCEPT ![c] = Append(q[c], f)]
  BY <1>1, <1>4, <1>5 DEF Deliver, SendOrDrop
<1>7. h2.op = "deliver" => h2.post = h.post /\ h2.left = h.left \ {c}
  <2>1. PICK post, left : post = hub.post /\ left = hub.left \ {c}
    OBVIOUS
  <2>2. Delivering(post, left)
    BY <2>1 DEF Deliver
  <2>3. hub'.op = "deliver" => hub'.left = left /\ hub'.post = post
    BY <2>2, DeliveringFacts
  <2> QED
    BY <1>1, <1>5, <2>1, <2>3
<1>8. Ordered(S, R, B, h2, q2, o)
  <2>1. NextDelivery(h, h2, c)
    BY <1>7 DEF NextDelivery
  <2> QED
    BY <1>2, <1>3, <1>4, <1>6, <2>1, DeliveredOrder
<1>9. UNCHANGED <<message, broadcast, reader, out>>
  BY DEF Deliver, logs
<1>10. Sender' = Sender
  BY <1>9 DEF Sender
<1> QED
  BY <1>1, <1>5, <1>8, <1>9, <1>10 DEF OrderInv

LEMMA WriteOrder == ASSUME TypeInv, OrderInv, NEW c \in Conns, WriteFrame(c) PROVE OrderInv'
<1>1. PICK S, R, B, h, q, o : /\ S = Sender /\ R = reader /\ B = broadcast /\ h = hub
                              /\ q = send /\ o = out
  OBVIOUS
<1>2. Ordered(S, R, B, h, q, o) /\ Typed(S, R, B, q, o)
  BY <1>1, TypedNow DEF OrderInv, TypeInv
<1>3. PICK q2, o2 : q2 = send' /\ o2 = out'
  OBVIOUS
<1>4. q[c] # <<>> /\ q2 = [q EXCEPT ![c] = Tail(q[c])]
  BY <1>1, <1>3 DEF WriteFrame
<1>5. \/ Head(q[c]) = OtherFrame /\ o2 = o
      \/ \E w \in Written : w.id = Head(q[c]) /\ o2 = [o EXCEPT ![c] = Append(o[c], w)]
  <2>1. PICK f : f = Head(q[c])
    OBVIOUS
  <2>2. CASE f = OtherFrame
    BY <1>1, <1>3, <2>1, <2>2 DEF WriteFrame
  <2>3. CASE f # OtherFrame
    <3>1. f \in Frames /\ f <= Len(message)
      <4>1. PICK line \in Seq(Frames) : line = q[c]
        BY <1>2 DEF Typed
      <4>2. f \in Frames /\ \E j \in DOMAIN line : f = line[j]
        BY <1>4, <2>1, <4>1, TailFacts
      <4>3. \A j \in DOMAIN line : line[j] <= Len(message)
        BY <1>1, <4>1 DEF TypeInv, KnownFrames, Known
      <4> QED
        BY <4>2, <4>3
    <3>2. f \in Messages
      BY <2>3, <3>1 DEF Frames
    <3>3. message[f] \in MessageRow
      <4>1. Len(message) \in Nat /\ f \in 1..Len(message)
        BY <3>1, <3>2, LenProperties DEF Messages, TypeInv, ChatTypeOK
      <4> QED
        BY <4>1, ElementOfSeq DEF TypeInv, ChatTypeOK
    <3>4. PICK w \in Written : w = [id |-> f, type |-> message[f].type]
      BY <3>2, <3>3 DEF MessageRow, Written
    <3>5. o2 = [o EXCEPT ![c] = Append(o[c], w)]
      BY <1>1, <1>3, <2>1, <2>3, <3>4 DEF WriteFrame
    <3>6. w.id = Head(q[c])
      BY <2>1, <3>4
    <3> QED
      BY <3>5, <3>6
  <2> QED
    BY <2>2, <2>3
<1>6. Ordered(S, R, B, h, q2, o2)
  <2>1. q[c] # <<>> /\ Writes(q, q2, o, o2, c)
    BY <1>4, <1>5 DEF Writes
  <2> QED
    BY <1>2, <2>1, WrittenOrder
<1>7. UNCHANGED <<message, broadcast, reader, hub>>
  BY DEF WriteFrame
<1>8. Sender' = Sender
  BY <1>7 DEF Sender
<1> QED
  BY <1>1, <1>3, <1>6, <1>7, <1>8 DEF OrderInv

LEMMA InitOrder == Init => OrderInv
<1> SUFFICES ASSUME Init PROVE OrderInv
  OBVIOUS
<1>1. DOMAIN <<>> = {}
  OBVIOUS
<1>2. PICK S, R, B, h, q, o : /\ S = Sender /\ R = reader /\ B = broadcast /\ h = hub
                              /\ q = send /\ o = out
  OBVIOUS
<1>3. /\ DOMAIN B = {} /\ h.op # "deliver"
      /\ \A c \in Conns : /\ DOMAIN q[c] = {} /\ DOMAIN o[c] = {}
                          /\ Holds(R[c]) = OtherFrame
  BY <1>1, <1>2, HoldsAt DEF Init, Idle, At
<1>4. Ordered(S, R, B, h, q, o)
  BY <1>3 DEF Ordered, PostsInOrder, DeliveryInOrder, LineInOrder, Reached, HoldsLatest,
              Messages, OtherFrame
<1> QED
  BY <1>2, <1>4 DEF OrderInv

LEMMA NextOrder == TypeInv /\ OrderInv /\ [Next]_vars => OrderInv'
<1> SUFFICES ASSUME TypeInv, OrderInv, [Next]_vars PROVE OrderInv'
  OBVIOUS
<1>1. TypeInv' /\ ChatTypeOK /\ ChatTypeOK' /\ reader \in [Conns -> ReaderState]
  <2>1. TypeInv'
    BY NextTypeInv
  <2> QED
    BY <2>1 DEF TypeInv, ChatTypeOK
<1>2. ASSUME NEW c \in Conns, NEW s, Goto(c, s), Holds(s) = OtherFrame
      PROVE  \A g \in Conns : reader'[g] = reader[g] \/ Holds(reader'[g]) = OtherFrame
  BY <1>1, <1>2 DEF Goto
<1>3. ASSUME NEW c \in Conns, ClientStep(c) PROVE OrderInv'
  <2>1. ASSUME NEW k \in Conversations, StoreMessage(c, k) PROVE OrderInv'
    BY <1>1, <2>1, StoreOrder
  <2>2. CASE Connect(c)
    <3>1. /\ UNCHANGED <<message, broadcast, send, out>> /\ Goto(c, At("read"))
          /\ hub'.op = "register"
      BY <2>2 DEF Connect, logs
    <3> QED
      BY <1>1, <1>2, <3>1, HoldsAt, QuietSteps
  <2>3. CASE Disconnect(c)
    BY <1>1, <2>3, QuietSteps DEF Disconnect, logs
  <2>4. ASSUME NEW k \in Conversations, JoinConversation(c, k) PROVE OrderInv'
    <3>1. /\ UNCHANGED <<message, broadcast, hub, send, out>> /\ Goto(c, At("reply"))
      BY <2>4 DEF JoinConversation, logs
    <3> QED
      BY <1>1, <1>2, <3>1, HoldsAt, QuietSteps
  <2>5. ASSUME NEW k \in Conversations, Typing(c, k) PROVE OrderInv'
    <3>1. PICK s : s = [op |-> "queue", post |-> [conv |-> k, frame |-> OtherFrame,
                                                 exclude |-> Owner[c]]]
      OBVIOUS
    <3>2. Holds(s) = OtherFrame
      BY <3>1 DEF Holds
    <3>3. /\ UNCHANGED <<message, broadcast, hub, send, out>> /\ Goto(c, s)
      BY <2>5, <3>1 DEF Typing, logs
    <3> QED
      BY <1>1, <1>2, <3>2, <3>3, QuietSteps
  <2>6. CASE ReadReceipt(c) \/ HandleFails(c)
    <3>1. /\ UNCHANGED <<message, broadcast, hub, send, out>>
          /\ Goto(c, At("reply")) \/ Goto(c, At("error"))
      BY <2>6 DEF ReadReceipt, HandleFails, logs
    <3> QED
      BY <1>1, <1>2, <3>1, HoldsAt, QuietSteps
  <2> QED
    BY <1>3, <2>1, <2>2, <2>3, <2>4, <2>5, <2>6 DEF ClientStep
<1>4. ASSUME NEW c \in Conns, ReaderStep(c) PROVE OrderInv'
  <2>1. CASE Reply(c) \/ SendError(c)
    <3>1. /\ UNCHANGED <<message, broadcast, hub, out>> /\ Goto(c, At("read"))
          /\ \/ send' = send
             \/ send' = [send EXCEPT ![c] = Append(send[c], OtherFrame)]
      BY <2>1 DEF Reply, SendError, SendOrDrop, logs
    <3> QED
      BY <1>1, <1>2, <3>1, HoldsAt, ReplySteps
  <2> QED
    BY <1>1, <1>4, <2>1, QueueOrder, ConfirmOrder DEF ReaderStep
<1>5. ASSUME NEW c \in Conns, Leave(c) PROVE OrderInv'
  <2>1. /\ UNCHANGED <<message, broadcast, send, out>> /\ Goto(c, At("done"))
        /\ hub'.op = "unregister"
    BY <1>5 DEF Leave, logs
  <2> QED
    BY <1>1, <1>2, <2>1, HoldsAt, QuietSteps
<1>6. ASSUME NEW c \in Conns, WriterStep(c) PROVE OrderInv'
  <2>1. CASE WriterEnds(c)
    BY <1>1, <2>1, QuietSteps DEF WriterEnds, logs
  <2> QED
    BY <1>6, <2>1, WriteOrder DEF WriterStep
<1>7. CASE HubStep
  <2>1. ASSUME NEW c \in Conns, RegisterClient(c) \/ UnregisterClient(c) PROVE OrderInv'
    <3>1. UNCHANGED <<message, broadcast, send, out, reader>> /\ hub'.op = "idle"
      BY <2>1 DEF RegisterClient, UnregisterClient, Unregistered, logs, Idle, At
    <3> QED
      BY <1>1, <3>1, QuietSteps
  <2>2. ASSUME NEW c \in Conns, DropClient(c) PROVE OrderInv'
    <3>1. /\ UNCHANGED <<message, broadcast, send, out, reader>> /\ hub.op = "deliver"
          /\ Delivering(hub.post, hub.left \ {c})
      BY <2>2 DEF DropClient, Dropped, logs
    <3>2. hub'.op = "deliver" => hub'.left = hub.left \ {c} /\ hub'.post = hub.post
      BY <3>1, DeliveringFacts
    <3> QED
      BY <1>1, <3>1, <3>2, QuietSteps
  <2> QED
    BY <1>7, <2>1, <2>2, TakeOrder, DeliverOrder DEF HubStep
<1>8. ASSUME NEW u \in Users, Notify(u) PROVE OrderInv'
  BY <1>1, <1>8, QuietSteps DEF Notify, logs
<1>9. CASE SendToUser
  <2>1. /\ UNCHANGED <<message, broadcast, hub, out, reader>>
        /\ \/ send' = send
           \/ /\ notifier \in Conns
              /\ send' = [send EXCEPT ![notifier] = Append(send[notifier], OtherFrame)]
    BY <1>1, <1>9 DEF SendToUser, logs, ChatTypeOK
  <2> QED
    BY <1>1, <2>1, ReplySteps
<1>10. CASE UNCHANGED vars
  BY <1>1, <1>10, QuietSteps DEF vars, logs
<1> QED
  BY <1>3, <1>4, <1>5, <1>6, <1>7, <1>8, <1>9, <1>10 DEF Next

(* However readers, hub and writers interleave, and whatever is dropped on *)
(* the way, a socket shows the messages of a connection in the order in    *)
(* which they were stored, none twice.                                     *)
THEOREM InOrderHolds == Spec => []InOrder
<1>1. TypeInv /\ OrderInv => InOrder
  <2> SUFFICES ASSUME TypeInv, OrderInv, NEW c \in Conns,
                      NEW i \in DOMAIN out[c], NEW j \in DOMAIN out[c], i < j,
                      message[out[c][i].id].from = message[out[c][j].id].from
               PROVE  out[c][i].id < out[c][j].id
    BY DEF InOrder
  <2>1. out[c] \in Seq(Written)
    BY DEF TypeInv, ChatTypeOK
  <2>2. \A k \in DOMAIN out[c] : out[c][k] \in Written
    BY <2>1, LenProperties
  <2>3. PICK m \in Messages, n \in Messages : m = out[c][i].id /\ n = out[c][j].id
    BY <2>2 DEF Written
  <2>4. Precedes(Sender, m, n)
    BY <2>3 DEF OrderInv, Ordered, LineInOrder
  <2>5. Reached(send[c], out[c], m) /\ Reached(send[c], out[c], n)
    BY <2>3 DEF Reached
  <2>6. Sender[m] \in Conns /\ Sender[n] \in Conns
    BY <2>5 DEF OrderInv, Ordered, CameInOrder
  <2>7. Sender[m] = Sender[n]
    BY <2>3, <2>6, SenderFacts DEF TypeInv
  <2> QED
    BY <2>3, <2>4, <2>7 DEF Precedes, Messages, OtherFrame
<1>2. Init => TypeInv /\ OrderInv
  BY InitTypeInv, InitOrder
<1>3. TypeInv /\ OrderInv /\ [Next]_vars => (TypeInv /\ OrderInv)'
  BY NextTypeInv, NextOrder
<1> QED
  BY <1>1, <1>2, <1>3, PTL DEF Spec

-----------------------------------------------------------------------------
(* No message is lost.  A post is about the message it carries, and a      *)
(* connection whose reader is done is not open: what unregisters loses     *)
(* nothing that it could still be written.                                 *)
About(post, rows) ==
    post.frame # OtherFrame =>
        /\ post.conv = rows[post.frame].conv
        /\ post.exclude = Owner[rows[post.frame].from]

PostsAreAbout ==
    /\ \A i \in DOMAIN broadcast : About(broadcast[i], message)
    /\ \A c \in Conns : reader[c].op = "queue" => About(reader[c].post, message)

DoneIsShut == \A c \in Conns : reader[c].op = "done" => c \notin open

KeptInv == IInv /\ PostsAreAbout /\ DoneIsShut

(* Conversation and sender of a message stay what they are.                *)
MessagesStay ==
    \A m \in Messages : m <= Len(message) =>
        message'[m].conv = message[m].conv /\ message'[m].from = message[m].from

LEMMA NextMessagesStay == ASSUME TypeInv, Next PROVE MessagesStay
<1>1. message \in Seq(MessageRow) /\ DOMAIN message = 1..Len(message) /\ Len(message) \in Nat
  BY LenProperties DEF TypeInv, ChatTypeOK
<1>2. ASSUME NEW c \in Conns, NEW k \in Conversations, StoreMessage(c, k) PROVE MessagesStay
  <2>. PICK row \in MessageRow : message' = Append(message, row)
    BY <1>2 DEF StoreMessage, MessageRow
  <2>1. \A m \in 1..Len(message) : message'[m] = message[m]
    BY <1>1, AppendProperties
  <2>. QED
    BY <1>1, <2>1 DEF MessagesStay, Messages
<1>3. ASSUME NEW c \in Conns, Confirm(c) PROVE MessagesStay
  <2>. SUFFICES ASSUME NEW m \in Messages, m <= Len(message)
                PROVE  /\ message'[m].conv = message[m].conv
                       /\ message'[m].from = message[m].from
    BY DEF MessagesStay
  <2>1. m \in DOMAIN message /\ message[m] \in MessageRow
    BY <1>1, ElementOfSeq, BoundAssumption DEF Messages
  <2>2. message' = [message EXCEPT ![reader[c].frame].type = "message_sent"]
    BY <1>3 DEF Confirm
  <2>3. \/ message'[m] = message[m]
        \/ message'[m] = [message[m] EXCEPT !.type = "message_sent"]
    BY <2>1, <2>2
  <2>. QED
    BY <2>1, <2>3 DEF MessageRow
<1>. QED
  BY <1>2, <1>3, NextWriters DEF Writers, MessagesStay

(* A post stays about its message ...                                      *)
LEMMA AboutStays ==
    ASSUME MessagesStay, NEW post \in Post, Known(post.frame), About(post, message)
    PROVE  About(post, message')
  BY DEF About, MessagesStay, Known, Post, Frames

(* ... and is, when it is made.                                            *)
LEMMA StoredIsAbout ==
    ASSUME TypeInv, NEW c \in Conns, NEW k \in Conversations, StoreMessage(c, k)
    PROVE  \E post : /\ Goto(c, [op |-> "queue", post |-> post])
                     /\ About(post, message')
<1>. DEFINE row == [conv |-> k, from |-> c, type |-> "message"]
            post == [conv |-> k, frame |-> Len(message) + 1, exclude |-> Owner[c]]
<1>1. Goto(c, [op |-> "queue", post |-> post]) /\ message' = Append(message, row)
  BY DEF StoreMessage
<1>2. message \in Seq(MessageRow) /\ row \in MessageRow
  BY DEF TypeInv, ChatTypeOK, MessageRow
<1>3. message'[Len(message) + 1] = row
  BY <1>1, <1>2, AppendProperties
<1>4. About(post, message')
  BY <1>3 DEF About
<1>. QED
  BY <1>1, <1>4

LEMMA NextAbout == ASSUME KeptInv, Next PROVE PostsAreAbout'
<1>1. /\ TypeInv /\ MessagesStay /\ broadcast \in Seq(Post)
      /\ \A i \in DOMAIN broadcast : broadcast[i] \in Post /\ Known(broadcast[i].frame)
      /\ reader \in [Conns -> ReaderState]
      /\ \A c \in Conns : reader[c].op = "queue" =>
            reader[c].post \in Post /\ Known(reader[c].post.frame)
  BY NextMessagesStay, LenProperties, ReaderFacts
     DEF KeptInv, IInv, TypeInv, ChatTypeOK, KnownFrames, Carries, Known
<1>2. /\ \A i \in DOMAIN broadcast : About(broadcast[i], message')
      /\ \A c \in Conns : reader[c].op = "queue" => About(reader[c].post, message')
  BY <1>1, AboutStays DEF KeptInv, PostsAreAbout
<1>3. \A i \in DOMAIN broadcast' : About(broadcast'[i], message')
  <2>1. ASSUME NEW c \in Conns, QueueBroadcast(c)
        PROVE  \A i \in DOMAIN broadcast' : About(broadcast'[i], message')
    <3>1. /\ reader[c].op = "queue" /\ broadcast' = Append(broadcast, reader[c].post)
      BY <2>1 DEF QueueBroadcast
    <3>2. \A i \in DOMAIN broadcast' :
             broadcast'[i] = reader[c].post \/ \E j \in DOMAIN broadcast : broadcast'[i] = broadcast[j]
      BY <1>1, <3>1, QueueFacts
    <3>. QED
      BY <1>2, <3>1, <3>2
  <2>2. CASE TakeBroadcast
    <3>1. \A i \in DOMAIN broadcast' : \E j \in DOMAIN broadcast : broadcast'[i] = broadcast[j]
      BY <1>1, <2>2, TailFacts DEF TakeBroadcast
    <3>. QED
      BY <1>2, <3>1
  <2>. QED
    BY <1>1, <1>2, <2>1, <2>2, NextWriters DEF Writers
<1>4. ASSUME NEW c \in Conns, NEW s, Goto(c, s), s.op = "queue" => About(s.post, message')
      PROVE  \A d \in Conns : reader'[d].op = "queue" => About(reader'[d].post, message')
  BY <1>1, <1>2, <1>4 DEF Goto
<1>5. \A d \in Conns : reader'[d].op = "queue" => About(reader'[d].post, message')
  <2>1. ASSUME NEW c \in Conns, NEW k \in Conversations, StoreMessage(c, k)
        PROVE  \E s : Goto(c, s) /\ (s.op = "queue" => About(s.post, message'))
    <3>1. PICK post : Goto(c, [op |-> "queue", post |-> post]) /\ About(post, message')
      BY <1>1, <2>1, StoredIsAbout
    <3>2. [op |-> "queue", post |-> post].post = post
      OBVIOUS
    <3>. QED
      BY <3>1, <3>2
  <2>2. ASSUME NEW c \in Conns, NEW k \in Conversations, Typing(c, k)
        PROVE  \E s : Goto(c, s) /\ (s.op = "queue" => About(s.post, message'))
    BY <2>2 DEF Typing, About
  <2>3. ASSUME NEW c \in Conns,
               \/ ReadReceipt(c) \/ HandleFails(c) \/ QueueBroadcast(c) \/ Confirm(c) \/ Reply(c)
               \/ SendError(c) \/ Connect(c) \/ Leave(c)
               \/ \E k \in Conversations : JoinConversation(c, k)
        PROVE  \E s : Goto(c, s) /\ s.op # "queue"
    BY <2>3 DEF ReadReceipt, HandleFails, QueueBroadcast, Confirm, Reply, SendError, Connect,
       Leave, JoinConversation, At
  <2>. QED
    BY <1>2, <1>4, <2>1, <2>2, <2>3, NextWriters DEF Writers, ReaderAction
<1>. QED
  BY <1>3, <1>5 DEF PostsAreAbout

(* A reader ends with its socket, which is opened by a new one only.       *)
LEMMA NextShut == ASSUME KeptInv, Next PROVE DoneIsShut'
<1>1. reader \in [Conns -> ReaderState] /\ DoneIsShut /\ TypeInv
  BY DEF KeptInv, IInv, TypeInv, ChatTypeOK
<1>2. ASSUME NEW c \in Conns, NEW s, Goto(c, s), s.op # "done", open' \subseteq open \cup {c}
      PROVE  DoneIsShut'
  BY <1>1, <1>2 DEF DoneIsShut, Goto
<1>3. CASE reader' = reader /\ open' \subseteq open
  BY <1>1, <1>3 DEF DoneIsShut
<1>4. ASSUME NEW c \in Conns, Leave(c) PROVE DoneIsShut'
  BY <1>1, <1>4 DEF DoneIsShut, Leave, Goto, At
<1>5. ASSUME NEW c \in Conns, ClientStep(c), ~Disconnect(c)
      PROVE  \E s : Goto(c, s) /\ s.op # "done" /\ open' \subseteq open \cup {c}
  BY <1>5 DEF ClientStep, Connect, StoreMessage, Typing, JoinConversation, ReadReceipt,
     HandleFails, At
<1>6. ASSUME NEW c \in Conns, ReaderStep(c)
      PROVE  \E s : Goto(c, s) /\ s.op # "done" /\ open' \subseteq open \cup {c}
  BY <1>6 DEF ReaderStep, QueueBroadcast, Confirm, Reply, SendError, At
<1>7. ASSUME NEW c \in Conns, Disconnect(c) \/ WriterStep(c)
      PROVE  reader' = reader /\ open' \subseteq open
  BY <1>7 DEF Disconnect, WriterStep, WriteFrame, WriterEnds
<1>8. ASSUME HubStep \/ (\E u \in Users : Notify(u)) \/ SendToUser
      PROVE  reader' = reader /\ open' \subseteq open
  BY <1>8 DEF HubStep, TakeBroadcast, RegisterClient, UnregisterClient, Unregistered, Deliver,
     DropClient, Dropped, Notify, SendToUser
<1>. QED
  BY <1>2, <1>3, <1>4, <1>5, <1>6, <1>7, <1>8 DEF Next

LEMMA NextKept == KeptInv /\ [Next]_vars => KeptInv'
<1>. SUFFICES ASSUME KeptInv, [Next]_vars PROVE KeptInv'
  OBVIOUS
<1>1. IInv'
  BY NextTypeInv, NextSafe DEF KeptInv, IInv
<1>2. CASE UNCHANGED vars
  BY <1>1, <1>2 DEF vars, logs, KeptInv, PostsAreAbout, DoneIsShut
<1>. QED
  BY <1>1, <1>2, NextAbout, NextShut DEF KeptInv

(* What is on its way to a connection stays so, when only more is queued.  *)
LEMMA AwaitedStays ==
    ASSUME TypeInv, MessagesStay, NEW m \in Messages, NEW c \in Conns, Awaited(m, c),
           Queued(m)', \A k \in Conversations : c \in rooms[k] => c \in rooms'[k]
    PROVE  Awaited(m, c)'
<1>1. m <= Len(message) /\ message \in Seq(MessageRow)
  BY DEF Awaited, Queued, TypeInv, ChatTypeOK, KnownFrames, Known
<1>2. message[m] \in MessageRow
  BY <1>1, ElementOfSeq, LenProperties, BoundAssumption DEF Messages
<1>3. message'[m].conv = message[m].conv /\ message'[m].from = message[m].from
  BY <1>1 DEF MessagesStay
<1>. QED
  BY <1>2, <1>3 DEF Awaited, MessageRow

LEMMA WayStays ==
    ASSUME TypeInv, MessagesStay, NEW m \in Messages, NEW c \in Conns, OnItsWay(m, c),
           Queued(m) => Queued(m)',
           \A k \in Conversations : c \in rooms[k] => c \in rooms'[k],
           UnderDelivery(m, c) => OnItsWay(m, c)',
           InLine(m, c) => OnItsWay(m, c)',
           Wrote(m, c) => Wrote(m, c)'
    PROVE  OnItsWay(m, c)'
<1>1. CASE Awaited(m, c)
  BY <1>1, AwaitedStays DEF OnItsWay, Awaited
<1>. QED
  BY <1>1 DEF OnItsWay

(* A queue has what it had, and what was put at its end.                   *)
LEMMA AppendKeeps ==
    ASSUME NEW S, NEW q \in Seq(S), NEW x
    PROVE  /\ \A i \in DOMAIN q : i \in DOMAIN Append(q, x) /\ Append(q, x)[i] = q[i]
           /\ \E i \in DOMAIN Append(q, x) : Append(q, x)[i] = x
<1>0. q \in Seq(S \cup {x})
  BY SeqDef
<1>1. /\ DOMAIN q = 1..Len(q) /\ Len(q) \in Nat
      /\ DOMAIN Append(q, x) = 1..(Len(q) + 1)
      /\ \A i \in 1..Len(q) : Append(q, x)[i] = q[i]
      /\ Append(q, x)[Len(q) + 1] = x
  BY <1>0, LenProperties, AppendProperties
<1>. QED
  BY <1>1

LEMMA TailKeeps ==
    ASSUME NEW S, NEW q \in Seq(S), NEW i \in DOMAIN q
    PROVE  q[i] = Head(q) \/ \E j \in DOMAIN Tail(q) : Tail(q)[j] = q[i]
<1>1. /\ DOMAIN q = 1..Len(q) /\ Len(q) \in Nat /\ i \in 1..Len(q) /\ q # <<>>
      /\ Head(q) = q[1]
  BY LenProperties, EmptySeq
<1>2. /\ Tail(q) \in Seq(S) /\ Len(Tail(q)) = Len(q) - 1
      /\ \A j \in 1..Len(Tail(q)) : Tail(q)[j] = q[j + 1]
  BY <1>1, HeadTailProperties
<1>3. DOMAIN Tail(q) = 1..(Len(q) - 1)
  BY <1>2, LenProperties
<1>4. CASE i # 1
  <2>1. i - 1 \in DOMAIN Tail(q) /\ Tail(q)[i - 1] = q[i]
    BY <1>1, <1>2, <1>3, <1>4
  <2>. QED
    BY <2>1
<1>. QED
  BY <1>1, <1>4

(* A send loses nothing that was queued, and queues the frame if it may.   *)
LEMMA SendKeeps ==
    ASSUME TypeInv, NEW d \in Conns, NEW frame \in Frames, SendOrDrop(d, frame)
    PROVE  /\ \A m : \A c \in Conns : InLine(m, c) => InLine(m, c)'
           /\ d \notin closed /\ Len(send[d]) < SendCap => InLine(frame, d)'
           /\ d \in closed => panicked'
<1>. USE DEF InLine
<1>1. send \in [Conns -> Seq(Frames)]
  BY DEF TypeInv, ChatTypeOK
<1>2. CASE d \notin closed /\ send' = [send EXCEPT ![d] = Append(@, frame)]
  <2>1. \A c \in Conns : send'[c] = IF c = d THEN Append(send[d], frame) ELSE send[c]
    BY <1>1, <1>2
  <2>2. PICK q \in Seq(Frames) : q = send[d]
    BY <1>1
  <2>3. /\ \A i \in DOMAIN q : i \in DOMAIN Append(q, frame) /\ Append(q, frame)[i] = q[i]
        /\ \E i \in DOMAIN Append(q, frame) : Append(q, frame)[i] = frame
    BY AppendKeeps
  <2>4. send'[d] = Append(q, frame)
    BY <2>1, <2>2
  <2>5. ASSUME NEW m, NEW c \in Conns, InLine(m, c) PROVE InLine(m, c)'
    BY <2>1, <2>2, <2>3, <2>4, <2>5
  <2>. QED
    BY <1>2, <2>3, <2>4, <2>5
<1>3. CASE UNCHANGED send /\ (d \in closed \/ ~(Len(send[d]) < SendCap))
  BY <1>3 DEF SendOrDrop
<1>. QED
  BY <1>2, <1>3 DEF SendOrDrop

(* Connections, readers and notifications.                                 *)
LEMMA ClientsLoseNothing ==
    ASSUME TypeInv, MessagesStay, NEW m \in Messages, NEW c \in Conns, OnItsWay(m, c),
           NEW d \in Conns, ClientStep(d) \/ ReaderStep(d) \/ Leave(d)
    PROVE  OnItsWay(m, c)'
<1>. DEFINE Rest == /\ \A k \in Conversations : c \in rooms[k] => c \in rooms'[k]
                    /\ hub.op = "deliver" => hub' = hub
                    /\ out' = out
<1>1. /\ broadcast \in Seq(Post) /\ rooms \in [Conversations -> SUBSET Conns]
      /\ reader \in [Conns -> ReaderState]
  BY DEF TypeInv, ChatTypeOK
<1>2. ASSUME Rest, Queued(m) => Queued(m)', InLine(m, c) => InLine(m, c)'
      PROVE  OnItsWay(m, c)'
  BY <1>2, WayStays DEF OnItsWay, UnderDelivery, Wrote
<1>3. CASE ClientStep(d) \/ Leave(d)
  <2>1. ASSUME NEW k \in Conversations, JoinConversation(d, k)
        PROVE  UNCHANGED <<broadcast, send>> /\ Rest
    BY <1>1, <2>1 DEF JoinConversation, logs
  <2>2. ASSUME Connect(d) \/ Leave(d)
        PROVE  UNCHANGED <<broadcast, send>> /\ Rest
    BY <2>2 DEF Connect, Leave, maps, logs, Idle, At
  <2>3. ASSUME \/ Disconnect(d) \/ ReadReceipt(d) \/ HandleFails(d)
               \/ \E k \in Conversations : StoreMessage(d, k) \/ Typing(d, k)
        PROVE  UNCHANGED <<broadcast, send>> /\ Rest
    BY <2>3 DEF Disconnect, StoreMessage, Typing, ReadReceipt, HandleFails, maps, logs
  <2>4. UNCHANGED <<broadcast, send>> /\ Rest
    BY <1>3, <2>1, <2>2, <2>3 DEF ClientStep
  <2>. QED
    BY <1>2, <2>4 DEF Queued, InLine
<1>4. CASE QueueBroadcast(d)
  <2>1. Rest /\ UNCHANGED send /\ broadcast' = Append(broadcast, reader[d].post)
    BY <1>4 DEF QueueBroadcast, maps, logs
  <2>2. reader[d].post \in Post
    BY <1>1, <1>4, ReaderFacts DEF QueueBroadcast
  <2>3. \A i \in DOMAIN broadcast : i \in DOMAIN broadcast' /\ broadcast'[i] = broadcast[i]
    BY <1>1, <2>1, <2>2, AppendKeeps
  <2>. QED
    BY <1>2, <2>1, <2>3 DEF Queued, InLine
<1>5. CASE Confirm(d) \/ Reply(d) \/ SendError(d)
  <2>1. Rest /\ UNCHANGED broadcast
    BY <1>5 DEF Confirm, Reply, SendError, maps, logs
  <2>2. \E frame \in Frames : SendOrDrop(d, frame)
    BY <1>1, <1>5, ReaderFacts DEF Confirm, Reply, SendError, Frames
  <2>. QED
    BY <1>2, <2>1, <2>2, SendKeeps DEF Queued
<1>. QED
  BY <1>3, <1>4, <1>5 DEF ReaderStep

LEMMA NotifierLosesNothing ==
    ASSUME TypeInv, MessagesStay, NEW m \in Messages, NEW c \in Conns, OnItsWay(m, c),
           SendToUser \/ \E u \in Users : Notify(u)
    PROVE  OnItsWay(m, c)'
<1>1. UNCHANGED <<broadcast, rooms, hub, out>>
  BY DEF SendToUser, Notify, maps, logs
<1>2. send \in [Conns -> Seq(Frames)] /\ notifier \in Conns \cup {NoConn}
  BY DEF TypeInv, ChatTypeOK
<1>3. InLine(m, c) => InLine(m, c)'
  <2>1. CASE send' = send
    BY <2>1 DEF InLine
  <2>2. CASE notifier \in Conns /\ send' = [send EXCEPT ![notifier] = Append(@, OtherFrame)]
    <3>1. send'[c] = send[c] \/ send'[c] = Append(send[c], OtherFrame)
      BY <1>2, <2>2
    <3>2. send[c] \in Seq(Frames) /\ OtherFrame \in Frames
      BY <1>2 DEF Frames
    <3>. QED
      BY <3>1, <3>2, AppendKeeps DEF InLine
  <2>. QED
    BY <1>2, <2>1, <2>2 DEF SendToUser, Notify
<1>. QED
  BY <1>1, <1>3, WayStays DEF Queued, UnderDelivery, Wrote, OnItsWay

(* Writing takes a message from the queue to the socket.                   *)
LEMMA WriterLosesNothing ==
    ASSUME TypeInv, MessagesStay, NEW m \in Messages, NEW c \in Conns, OnItsWay(m, c),
           NEW d \in Conns, WriterStep(d)
    PROVE  OnItsWay(m, c)'
<1>1. send \in [Conns -> Seq(Frames)] /\ out \in [Conns -> Seq(Written)]
  BY DEF TypeInv, ChatTypeOK
<1>2. UNCHANGED <<broadcast, rooms, hub, message>>
  BY DEF WriterStep, WriterEnds, WriteFrame, maps, logs
<1>3. ASSUME InLine(m, c) => InLine(m, c)' \/ Wrote(m, c)', Wrote(m, c) => Wrote(m, c)'
      PROVE  OnItsWay(m, c)'
  BY <1>2, <1>3, WayStays DEF Queued, UnderDelivery, OnItsWay
<1>4. CASE WriterEnds(d)
  BY <1>3, <1>4 DEF WriterEnds, logs, InLine, Wrote
<1>5. CASE WriteFrame(d) /\ c # d
  <2>1. send'[c] = send[c] /\ out'[c] = out[c]
    BY <1>1, <1>5 DEF WriteFrame
  <2>. QED
    BY <1>3, <2>1 DEF InLine, Wrote
<1>6. CASE WriteFrame(d) /\ c = d
  <2>1. PICK frame : frame = Head(send[c])
    OBVIOUS
  <2>2. send'[c] = Tail(send[c])
    BY <1>1, <1>6 DEF WriteFrame
  <2>3. \/ frame = OtherFrame /\ out'[c] = out[c]
        \/ out'[c] = Append(out[c], [id |-> frame, type |-> message[frame].type])
    BY <1>1, <1>6, <2>1 DEF WriteFrame
  <2>4. send[c] \in Seq(Frames) /\ out[c] \in Seq(Written)
    BY <1>1
  <2>5. Wrote(m, c) => Wrote(m, c)'
    <3>1. \A w : \A i \in DOMAIN out[c] :
             i \in DOMAIN Append(out[c], w) /\ Append(out[c], w)[i] = out[c][i]
      BY <2>4, AppendKeeps
    <3>. QED
      BY <2>3, <3>1 DEF Wrote
  <2>6. frame = m => Wrote(m, c)'
    <3>1. \A w : \E i \in DOMAIN Append(out[c], w) : Append(out[c], w)[i] = w
      BY <2>4, AppendKeeps
    <3>2. m # OtherFrame
      BY DEF Messages, OtherFrame
    <3>. QED
      BY <2>3, <3>1, <3>2 DEF Wrote
  <2>7. InLine(m, c) => InLine(m, c)' \/ Wrote(m, c)'
    BY <2>1, <2>2, <2>4, <2>6, TailKeeps DEF InLine
  <2>. QED
    BY <1>3, <2>5, <2>7
<1>. QED
  BY <1>4, <1>5, <1>6 DEF WriterStep

(* What the hub takes it delivers to all of the conversation but its       *)
(* sender's connections ...                                                *)
LEMMA TakingLosesNothing ==
    ASSUME TypeInv, MessagesStay, PostsAreAbout, NEW m \in Messages, NEW c \in Conns,
           OnItsWay(m, c), TakeBroadcast
    PROVE  OnItsWay(m, c)'
<1>. DEFINE post == Head(broadcast)
            left == {d \in rooms[post.conv] : Owner[d] # post.exclude}
<1>1. /\ UNCHANGED <<rooms, send, out>> /\ hub = Idle /\ broadcast # <<>>
      /\ Delivering(post, left) /\ broadcast' = Tail(broadcast)
  BY DEF TakeBroadcast, maps, logs
<1>2. CASE Awaited(m, c) /\ post.frame = m
  <2>1. About(post, message)
    BY <1>1, TailFacts DEF PostsAreAbout, TypeInv, ChatTypeOK
  <2>2. c \in left
    BY <1>2, <2>1 DEF Awaited, About, Messages, OtherFrame
  <2>3. hub' = [op |-> "deliver", post |-> post, left |-> left]
    BY <1>1, <2>2 DEF Delivering
  <2>. QED
    BY <1>2, <2>2, <2>3 DEF OnItsWay, UnderDelivery
<1>3. CASE Awaited(m, c) /\ post.frame # m
  <2>1. PICK i \in DOMAIN broadcast : broadcast[i].frame = m
    BY <1>3 DEF Awaited, Queued
  <2>2. \E j \in DOMAIN Tail(broadcast) : Tail(broadcast)[j] = broadcast[i]
    BY <1>3, <2>1, TailKeeps DEF TypeInv, ChatTypeOK
  <2>3. Queued(m)'
    BY <1>1, <2>1, <2>2 DEF Queued
  <2>. QED
    BY <1>1, <1>3, <2>3, AwaitedStays DEF OnItsWay
<1>4. CASE InLine(m, c) \/ Wrote(m, c)
  BY <1>1, <1>4 DEF InLine, Wrote, OnItsWay
<1>5. ~UnderDelivery(m, c)
  BY <1>1 DEF UnderDelivery, Idle, At
<1>. QED
  BY <1>2, <1>3, <1>4, <1>5 DEF OnItsWay

(* ... each of which gets it in its queue ...                              *)
LEMMA DeliveringLosesNothing ==
    ASSUME TypeInv, MessagesStay, NEW m \in Messages, NEW c \in Conns, OnItsWay(m, c),
           NEW d \in Conns, Deliver(d)
    PROVE  OnItsWay(m, c)' \/ panicked'
<1>1. /\ UNCHANGED <<broadcast, rooms, out>>
      /\ hub.op = "deliver" /\ Delivering(hub.post, hub.left \ {d})
      /\ d \in closed \/ Len(send[d]) < SendCap
      /\ SendOrDrop(d, hub.post.frame)
  BY DEF Deliver, maps, logs
<1>2. hub.post.frame \in Frames
  BY <1>1, HubFacts DEF TypeInv, ChatTypeOK, Post
<1>3. InLine(m, c) => InLine(m, c)'
  BY <1>1, <1>2, SendKeeps
<1>4. CASE UnderDelivery(m, c) /\ c = d
  BY <1>1, <1>2, <1>4, SendKeeps DEF UnderDelivery, OnItsWay
<1>5. CASE UnderDelivery(m, c) /\ c # d
  <2>1. hub' = [op |-> "deliver", post |-> hub.post, left |-> hub.left \ {d}]
    BY <1>1, <1>5 DEF Delivering, UnderDelivery
  <2>. QED
    BY <1>5, <2>1 DEF UnderDelivery, OnItsWay
<1>6. CASE ~UnderDelivery(m, c)
  BY <1>1, <1>3, <1>6, WayStays DEF Queued, Wrote, OnItsWay
<1>. QED
  BY <1>4, <1>5, <1>6

(* ... unless it is full, when only that connection is dropped.            *)
LEMMA DroppingLosesNothing ==
    ASSUME TypeInv, MessagesStay, NEW m \in Messages, NEW c \in Conns, OnItsWay(m, c),
           NEW d \in Conns, DropClient(d)
    PROVE  OnItsWay(m, c)' \/ c \in dropped'
<1>1. /\ UNCHANGED <<broadcast, send, out>>
      /\ hub.op = "deliver" /\ Delivering(hub.post, hub.left \ {d})
      /\ rooms' = [rooms EXCEPT ![hub.post.conv] = @ \ {d}]
      /\ dropped' = dropped \cup {d}
  BY DEF DropClient, Dropped
<1>2. SUFFICES ASSUME c # d PROVE OnItsWay(m, c)'
  BY <1>1
<1>3. \A k \in Conversations : c \in rooms[k] => c \in rooms'[k]
  BY <1>1, <1>2 DEF TypeInv, ChatTypeOK
<1>4. UnderDelivery(m, c) => UnderDelivery(m, c)'
  <2>. SUFFICES ASSUME UnderDelivery(m, c) PROVE UnderDelivery(m, c)'
    OBVIOUS
  <2>1. hub' = [op |-> "deliver", post |-> hub.post, left |-> hub.left \ {d}]
    BY <1>1, <1>2 DEF Delivering, UnderDelivery
  <2>. QED
    BY <1>2, <2>1 DEF UnderDelivery
<1>. QED
  BY <1>1, <1>3, <1>4, WayStays DEF Queued, InLine, Wrote, OnItsWay

(* Who unregisters has closed its socket.                                  *)
LEMMA RegisteringLosesNothing ==
    ASSUME KeptInv, MessagesStay, NEW m \in Messages, NEW c \in Conns, OnItsWay(m, c),
           NEW d \in Conns, RegisterClient(d) \/ UnregisterClient(d)
    PROVE  OnItsWay(m, c)' \/ c \notin open'
<1>1. /\ UNCHANGED <<broadcast, send, out, open>> /\ hub.op # "deliver"
      /\ \/ rooms' = rooms
         \/ /\ hub.op = "unregister" /\ hub.conn = d
            /\ rooms' = [k \in Conversations |-> rooms[k] \ {d}]
  <2>1. ASSUME RegisterClient(d)
        PROVE  UNCHANGED <<broadcast, send, out, open, rooms>> /\ hub.op = "register"
    BY <2>1 DEF RegisterClient, logs
  <2>2. ASSUME UnregisterClient(d)
        PROVE  /\ UNCHANGED <<broadcast, send, out, open>>
               /\ hub.op = "unregister" /\ hub.conn = d
               /\ rooms' = [k \in Conversations |-> rooms[k] \ {d}]
    BY <2>2 DEF UnregisterClient, Unregistered, logs
  <2>. QED
    BY <2>1, <2>2
<1>2. CASE c = d /\ rooms' # rooms
  BY <1>1, <1>2 DEF KeptInv, IInv, Safe, UnregistersDone, DoneIsShut
<1>3. CASE c # d \/ rooms' = rooms
  <2>1. \A k \in Conversations : c \in rooms[k] => c \in rooms'[k]
    BY <1>1, <1>3
  <2>. QED
    BY <1>1, <2>1, WayStays DEF KeptInv, IInv, Queued, UnderDelivery, InLine, Wrote, OnItsWay
<1>. QED
  BY <1>2, <1>3

LEMMA NextKeeps ==
    ASSUME KeptInv, Next, NEW m \in Messages, NEW c \in Conns, OnItsWay(m, c)
    PROVE  Kept(m, c)
<1>1. TypeInv /\ MessagesStay /\ PostsAreAbout
  BY NextMessagesStay DEF KeptInv, IInv
<1>2. ASSUME HubStep PROVE Kept(m, c)
  BY <1>1, <1>2, TakingLosesNothing, DeliveringLosesNothing, DroppingLosesNothing,
     RegisteringLosesNothing DEF HubStep, Kept
<1>3. ASSUME ~HubStep PROVE OnItsWay(m, c)'
  BY <1>1, <1>3, ClientsLoseNothing, WriterLosesNothing, NotifierLosesNothing DEF Next
<1>. QED
  BY <1>2, <1>3 DEF Kept

(* However readers, hub, writers and notifications interleave, a message   *)
(* that was handed to the hub is never lost between the hub's queue and    *)
(* the socket of a connection in its conversation, unless that connection  *)
(* closes or is dropped: what is left to liveness is that the goroutines   *)
(* go on.                                                                  *)
THEOREM NoneIsLostHolds == Spec => NoneIsLost
<1>1. Init => KeptInv
  BY InitTypeInv, InitSafe DEF Init, KeptInv, IInv, PostsAreAbout, DoneIsShut, At
<1>2. KeptInv /\ [Next]_vars => KeptInv'
  BY NextKept
<1>3. KeptInv /\ [Next]_vars
        => [\A m \in Messages, c \in Conns : OnItsWay(m, c) => Kept(m, c)]_vars
  BY NextKeeps
<1>. QED
  BY <1>1, <1>2, <1>3, PTL DEF Spec, NoneIsLost
=============================================================================
