-------------------------- MODULE WebSessionProofs --------------------------
(***************************************************************************)
(* What the web client promises about who is signed in and what its        *)
(* connection brings, for any accounts, numbers, addresses, sockets,       *)
(* retries, messages and number of requests in flight.                     *)
(***************************************************************************)
EXTENDS MCWebSession, SequenceTheorems, TLAPS

-----------------------------------------------------------------------------
(* The socket of the service.                                              *)
(* What OneSocket rests on: the variables of the service.                  *)
SocketInv ==
    /\ ws \in Sockets \cup {NoSocket}
    /\ sock \in [Sockets -> {"none", "connecting", "open"}]
    /\ OneSocket

LEMMA InitSocketInv == RealtimeInit => SocketInv
  BY SocketsAssumption DEF RealtimeInit, SocketInv, OneSocket

(* Connect keeps it: it makes a socket only when there is none.            *)
LEMMA ConnectKeepsSocketInv == SocketInv /\ Connect => SocketInv'
<1> SUFFICES ASSUME SocketInv, Connect PROVE SocketInv'
  OBVIOUS
<1>1. CASE UNCHANGED <<ws, sock, status>>
  BY <1>1 DEF SocketInv, OneSocket
<1>2. CASE ws = NoSocket /\ Open(NewSocket)
  <2>1. \A s \in Sockets : sock[s] = "none"
    BY <1>2, SocketsAssumption DEF SocketInv, OneSocket
  <2>2. NewSocket \in Sockets
    BY <2>1, SocketsAssumption DEF NewSocket
  <2> QED
    BY <1>2, <2>1, <2>2, SocketsAssumption DEF Open, SocketInv, OneSocket
<1> QED
  BY <1>1, <1>2 DEF Connect

LEMMA StepSocketInv == SocketInv /\ [RealtimeNext]_realtimeVars => SocketInv'
<1> SUFFICES ASSUME SocketInv, [RealtimeNext]_realtimeVars PROVE SocketInv'
  OBVIOUS
<1>1. ASSUME Connect PROVE SocketInv'
  BY <1>1, ConnectKeepsSocketInv
<1>2. ASSUME NEW s \in Sockets, SocketOpens(s) PROVE SocketInv'
  BY <1>2, SocketsAssumption DEF SocketOpens, SocketInv, OneSocket
<1>3. ASSUME NEW s \in Sockets, SocketCloses(s) PROVE SocketInv'
  <2>1. status' \in {"disconnected", "reconnecting"}
    BY <1>3 DEF SocketCloses, ScheduleReconnect
  <2> QED
    BY <1>3, <2>1, SocketsAssumption DEF SocketCloses, SocketInv, OneSocket
<1>4. ASSUME UNCHANGED <<ws, sock, status>> PROVE SocketInv'
  BY <1>4 DEF SocketInv, OneSocket
<1> QED
  BY <1>1, <1>2, <1>3, <1>4
     DEF RealtimeNext, realtimeVars, serviceVars, serverVars, chatVars, PeerSends, PeerTypes,
         HubBroadcasts, HistoryRead, HistoryArrives, HistoryFails, LeaveChat, SendMessage,
         TypingTimeout, SignOut, SignIn, ShellConnects, OpenChat, TimerFires, ServerReads,
         FrameArrives

(* The service never has two sockets, and the status on screen is that of  *)
(* the one it has.                                                         *)
THEOREM OneSocketHolds == RealtimeSpec => []OneSocket
<1>1. SocketInv => OneSocket
  BY DEF SocketInv
<1> QED
  BY <1>1, InitSocketInv, StepSocketInv, PTL DEF RealtimeSpec

-----------------------------------------------------------------------------
(* Sequences of frames.  `by` says who sent each message; 0 is typing.     *)

(* x is shown before y: they differ, and of one sender the older is first. *)
Prec(by, x, y) == x > 0 /\ y > 0 => x # y /\ (by[x] = by[y] => x < y)

Ordered(by, q) == \A i, j \in DOMAIN q : i < j => Prec(by, q[i], q[j])
Before(by, p, q) == \A i \in DOMAIN p, j \in DOMAIN q : Prec(by, p[i], q[j])
Known(by, q) == \A i \in DOMAIN q : q[i] <= Len(by)

(* Elements of a sequence to which one is appended.                        *)
LEMMA AppendElements ==
    ASSUME NEW S, NEW p \in Seq(S), NEW x \in S
    PROVE  /\ Append(p, x) \in Seq(S)
           /\ \A i \in DOMAIN Append(p, x) :
                 \/ i \in DOMAIN p /\ Append(p, x)[i] = p[i]
                 \/ i = Len(p) + 1 /\ Append(p, x)[i] = x
  BY AppendProperties

(* Elements of the tail.                                                   *)
LEMMA TailElements ==
    ASSUME NEW S, NEW p \in Seq(S), p # <<>>
    PROVE  /\ Tail(p) \in Seq(S) /\ Head(p) \in S
           /\ 1 \in DOMAIN p /\ Head(p) = p[1]
           /\ \A i \in DOMAIN Tail(p) :
                 i \in Nat \ {0} /\ i + 1 \in DOMAIN p /\ Tail(p)[i] = p[i + 1]
  BY HeadTailProperties, EmptySeq, LenProperties

(* A frame that every other one precedes can be appended.                  *)
LEMMA OrderedAppend ==
    ASSUME NEW by, NEW p \in Seq(Nat), NEW x \in Nat, Ordered(by, p),
           \A i \in DOMAIN p : Prec(by, p[i], x)
    PROVE  Ordered(by, Append(p, x))
<1> SUFFICES ASSUME NEW i \in DOMAIN Append(p, x), NEW j \in DOMAIN Append(p, x), i < j
             PROVE  Prec(by, Append(p, x)[i], Append(p, x)[j])
  BY DEF Ordered
<1>1. /\ i \in DOMAIN p \/ i = Len(p) + 1
      /\ j \in DOMAIN p \/ j = Len(p) + 1
      /\ \A k \in DOMAIN p : k \in 1..Len(p)
  BY AppendElements, LenProperties
<1>2. i \in DOMAIN p
  BY <1>1, LenProperties
<1>3. Append(p, x)[i] = p[i]
  BY <1>1, <1>2, AppendElements, LenProperties
<1>4. CASE j \in DOMAIN p
  <2>1. Append(p, x)[j] = p[j]
    BY <1>1, <1>4, AppendElements, LenProperties
  <2> QED BY <1>2, <1>3, <1>4, <2>1 DEF Ordered
<1>5. CASE j = Len(p) + 1
  <2>1. Append(p, x)[j] = x
    BY <1>5, AppendProperties
  <2> QED BY <1>2, <1>3, <2>1
<1> QED
  BY <1>1, <1>4, <1>5

(* What is first can be taken away.                                        *)
LEMMA OrderedTail ==
    ASSUME NEW by, NEW p \in Seq(Nat), p # <<>>, Ordered(by, p)
    PROVE  /\ Ordered(by, Tail(p))
           /\ \A i \in DOMAIN Tail(p) : Prec(by, Head(p), Tail(p)[i])
  BY TailElements DEF Ordered

LEMMA BeforeAppendLeft ==
    ASSUME NEW by, NEW p \in Seq(Nat), NEW q \in Seq(Nat), NEW x \in Nat,
           Before(by, p, q), \A j \in DOMAIN q : Prec(by, x, q[j])
    PROVE  Before(by, Append(p, x), q)
  BY AppendElements DEF Before

LEMMA BeforeAppendRight ==
    ASSUME NEW by, NEW p \in Seq(Nat), NEW q \in Seq(Nat), NEW x \in Nat,
           Before(by, p, q), \A i \in DOMAIN p : Prec(by, p[i], x)
    PROVE  Before(by, p, Append(q, x))
  BY AppendElements DEF Before

LEMMA BeforeTailLeft ==
    ASSUME NEW by, NEW p \in Seq(Nat), NEW q \in Seq(Nat), p # <<>>, Before(by, p, q)
    PROVE  /\ Before(by, Tail(p), q)
           /\ \A j \in DOMAIN q : Prec(by, Head(p), q[j])
  BY TailElements DEF Before

LEMMA BeforeTailRight ==
    ASSUME NEW by, NEW p \in Seq(Nat), NEW q \in Seq(Nat), q # <<>>, Before(by, p, q)
    PROVE  /\ Before(by, p, Tail(q))
           /\ \A i \in DOMAIN p : Prec(by, p[i], Head(q))
  BY TailElements DEF Before

(* A message that is saved later changes nothing between known ones, and   *)
(* every known one precedes it.                                            *)
LEMMA KnownPrec ==
    ASSUME NEW S, NEW by \in Seq(S), NEW w \in S, NEW x \in Nat, x <= Len(by)
    PROVE  /\ \A y \in Nat : y <= Len(by) /\ Prec(by, x, y) => Prec(Append(by, w), x, y)
           /\ Prec(Append(by, w), x, Len(by) + 1)
<1>1. Len(by) \in Nat /\ \A k \in 1..Len(by) : Append(by, w)[k] = by[k]
  BY AppendProperties, LenProperties
<1>2. ASSUME NEW y \in Nat, y <= Len(by), Prec(by, x, y) PROVE Prec(Append(by, w), x, y)
  BY <1>1, <1>2 DEF Prec
<1> QED
  BY <1>1, <1>2 DEF Prec

LEMMA KnownGrows ==
    ASSUME NEW S, NEW by \in Seq(S), NEW w \in S, NEW p \in Seq(Nat), NEW q \in Seq(Nat),
           Known(by, p), Known(by, q)
    PROVE  /\ Known(Append(by, w), p)
           /\ Ordered(by, p) => Ordered(Append(by, w), p)
           /\ Before(by, p, q) => Before(Append(by, w), p, q)
           /\ \A i \in DOMAIN p : Prec(Append(by, w), p[i], Len(by) + 1)
<1>1. /\ \A i \in DOMAIN p : p[i] \in Nat
      /\ \A i \in DOMAIN q : q[i] \in Nat
  BY ElementOfSeq, LenProperties
<1>2. Len(by) \in Nat /\ Len(Append(by, w)) = Len(by) + 1
  BY AppendProperties, LenProperties
<1>3. Known(Append(by, w), p)
  BY <1>1, <1>2 DEF Known
<1>4. ASSUME Ordered(by, p) PROVE Ordered(Append(by, w), p)
  BY <1>1, <1>4, KnownPrec DEF Ordered, Known
<1>5. ASSUME Before(by, p, q) PROVE Before(Append(by, w), p, q)
  BY <1>1, <1>5, KnownPrec DEF Before, Known
<1>6. \A i \in DOMAIN p : Prec(Append(by, w), p[i], Len(by) + 1)
  BY <1>1, KnownPrec DEF Known
<1> QED
  BY <1>3, <1>4, <1>5, <1>6

-----------------------------------------------------------------------------
(* The inductive invariant of the frames on their way.                     *)

FrameTypes ==
    /\ saved \in Seq({"me", "peer"})
    /\ hub \in Seq(Nat) /\ shown \in Seq(Nat)
    /\ wire \in [Sockets -> Seq(Nat)]
    /\ up \in [Sockets -> Seq({"join", "message"})]
    /\ room \subseteq Sockets /\ overlap \in BOOLEAN
    /\ history.op = "read" => history.upTo \in 0..Len(saved)

(* A socket that is gone brings nothing and is in no room.                 *)
OnlyLiveSocket ==
    \A s \in Sockets : s # ws => wire[s] = <<>> /\ up[s] = <<>> /\ s \notin room

(* Frames carry saved messages; the hub has those of the peer.             *)
FramesAreKnown ==
    /\ Known(saved, hub) /\ Known(saved, shown)
    /\ \A s \in Sockets : Known(saved, wire[s])
    /\ \A i \in DOMAIN hub : hub[i] > 0 => saved[hub[i]] = "peer"
    /\ \A i \in DOMAIN shown : shown[i] > 0

(* What is on the wire is ahead of what the hub has.                       *)
InFlightInOrder ==
    /\ Ordered(saved, hub)
    /\ \A s \in Sockets : Ordered(saved, wire[s]) /\ Before(saved, wire[s], hub)

(* What is shown is ahead of both.                                         *)
ShownFirst ==
    ~overlap => /\ Ordered(saved, shown) /\ Before(saved, shown, hub)
                /\ \A s \in Sockets : Before(saved, shown, wire[s])

FrameInv ==
    FrameTypes /\ OnlyLiveSocket /\ FramesAreKnown /\ InFlightInOrder /\ ShownFirst

(* Nothing is before or after nothing.                                     *)
LEMMA EmptyFrames ==
    ASSUME NEW by, NEW q
    PROVE  /\ <<>> \in Seq(Nat) /\ Ordered(by, <<>>) /\ Known(by, <<>>)
           /\ Before(by, <<>>, q) /\ Before(by, q, <<>>)
  BY EmptySeq DEF Ordered, Known, Before

LEMMA InitFrameInv == RealtimeInit => FrameInv
<1> SUFFICES ASSUME RealtimeInit PROVE FrameInv
  OBVIOUS
<1>1. /\ saved = <<>> /\ hub = <<>> /\ shown = <<>>
      /\ \A s \in Sockets : wire[s] = <<>> /\ up[s] = <<>>
  BY DEF RealtimeInit
<1>2. FrameTypes /\ OnlyLiveSocket
  BY EmptySeq DEF RealtimeInit, FrameTypes, OnlyLiveSocket, NotAsked
<1>3. FramesAreKnown
  BY <1>1, EmptyFrames, EmptySeq DEF FramesAreKnown
<1>4. InFlightInOrder /\ ShownFirst
  BY <1>1, EmptyFrames DEF InFlightInOrder, ShownFirst
<1> QED
  BY <1>2, <1>3, <1>4 DEF FrameInv

-----------------------------------------------------------------------------
(* Steps that leave the frames alone.                                      *)
LEMMA FramesStay ==
    ASSUME FrameInv, UNCHANGED <<ws, up, wire, room, saved, hub, shown, overlap>>,
           history'.op = "read" => history'.upTo \in 0..Len(saved)
    PROVE  FrameInv'
<1>1. FrameTypes'
  BY DEF FrameInv, FrameTypes
<1>2. OnlyLiveSocket' /\ FramesAreKnown' /\ InFlightInOrder' /\ ShownFirst'
  BY DEF FrameInv, OnlyLiveSocket, FramesAreKnown, InFlightInOrder, ShownFirst
<1> QED
  BY <1>1, <1>2 DEF FrameInv

(* A page that opens or is left shows nothing.                             *)
LEMMA PageEmpties ==
    ASSUME FrameInv, UNCHANGED <<wire, room, saved, hub>>, shown' = <<>>, overlap' = FALSE,
           history'.op # "read",
           up' \in [Sockets -> Seq({"join", "message"})], OnlyLiveSocket'
    PROVE  FrameInv'
<1>1. FrameTypes'
  BY EmptySeq DEF FrameInv, FrameTypes
<1>2. FramesAreKnown' /\ InFlightInOrder' /\ ShownFirst'
  BY EmptyFrames, EmptySeq DEF FrameInv, FramesAreKnown, InFlightInOrder, ShownFirst
<1> QED
  BY <1>1, <1>2 DEF FrameInv

(* Connect brings no frames.                                               *)
LEMMA ConnectKeepsLive ==
    ASSUME SocketInv, FrameInv, Connect, UNCHANGED <<wire, up, room>>
    PROVE  OnlyLiveSocket'
<1>1. ws' = ws \/ \A s \in Sockets : s # ws
  BY SocketsAssumption DEF Connect, Open
<1> QED
  BY <1>1 DEF FrameInv, OnlyLiveSocket

LEMMA StepConnect ==
    ASSUME SocketInv, FrameInv, Connect,
           UNCHANGED <<wire, up, room, saved, hub, shown, overlap, history>>
    PROVE  FrameInv'
<1>1. OnlyLiveSocket'
  BY ConnectKeepsLive
<1>2. FrameTypes' /\ FramesAreKnown' /\ InFlightInOrder' /\ ShownFirst'
  BY DEF FrameInv, FrameTypes, FramesAreKnown, InFlightInOrder, ShownFirst
<1> QED
  BY <1>1, <1>2 DEF FrameInv

(* What send adds goes to the live socket.                                 *)
LEMMA SentFacts ==
    ASSUME SocketInv, FrameInv, NEW f \in {"join", "message"}
    PROVE  /\ Sent(f) \in [Sockets -> Seq({"join", "message"})]
           /\ \A s \in Sockets : s # ws => Sent(f)[s] = <<>>
           /\ ws = NoSocket => Sent(f) = up
<1> USE DEF FrameInv, FrameTypes, OnlyLiveSocket, SocketInv
<1>1. CASE ws # NoSocket /\ sock[ws] = "open"
  <2>1. Append(up[ws], f) \in Seq({"join", "message"})
    BY <1>1, AppendProperties
  <2> QED BY <1>1, <2>1 DEF Sent
<1>2. CASE ~(ws # NoSocket /\ sock[ws] = "open")
  BY <1>2 DEF Sent
<1> QED
  BY <1>1, <1>2

LEMMA StepOpenChat == SocketInv /\ FrameInv /\ OpenChat => FrameInv'
<1> SUFFICES ASSUME SocketInv, FrameInv, OpenChat PROVE FrameInv'
  OBVIOUS
<1>1. up' \in [Sockets -> Seq({"join", "message"})]
  BY SentFacts DEF OpenChat
<1>2. OnlyLiveSocket'
  <2>1. ws' = ws \/ ws = NoSocket
    BY DEF OpenChat, Connect, Open
  <2> QED
    BY <2>1, SentFacts, SocketsAssumption DEF OpenChat, serverVars, FrameInv, OnlyLiveSocket
<1> QED
  BY <1>1, <1>2, PageEmpties DEF OpenChat, serverVars

LEMMA StepLeave ==
    ASSUME FrameInv, LeavePage, UNCHANGED <<ws, up, wire, room, saved, hub>>
    PROVE  FrameInv'
<1>1. OnlyLiveSocket' /\ up' \in [Sockets -> Seq({"join", "message"})]
  BY DEF FrameInv, FrameTypes, OnlyLiveSocket
<1> QED
  BY <1>1, PageEmpties DEF LeavePage, NotAsked

LEMMA StepSendMessage == SocketInv /\ FrameInv /\ SendMessage => FrameInv'
<1> SUFFICES ASSUME SocketInv, FrameInv, SendMessage PROVE FrameInv'
  OBVIOUS
<1> USE DEF SendMessage, serviceVars, serverVars, chatVars
<1>1. FrameTypes'
  BY SentFacts DEF FrameInv, FrameTypes
<1>2. OnlyLiveSocket'
  BY SentFacts DEF FrameInv, OnlyLiveSocket
<1>3. FramesAreKnown' /\ InFlightInOrder' /\ ShownFirst'
  BY DEF FrameInv, FramesAreKnown, InFlightInOrder, ShownFirst
<1> QED
  BY <1>1, <1>2, <1>3 DEF FrameInv

(* A connection that is lost takes along what is on its way.               *)
LEMMA StepSocketCloses ==
    ASSUME SocketInv, FrameInv, NEW s \in Sockets, SocketCloses(s)
    PROVE  FrameInv'
<1> USE DEF SocketCloses, chatVars
<1>1. s = ws
  BY DEF SocketInv, OneSocket
<1>2. \A t \in Sockets : wire'[t] = <<>> /\ up'[t] = <<>> /\ t \notin room'
  BY <1>1 DEF FrameInv, FrameTypes, OnlyLiveSocket
<1>3. FrameTypes'
  BY EmptySeq DEF FrameInv, FrameTypes
<1>4. FramesAreKnown'
  BY <1>2, EmptyFrames DEF FrameInv, FramesAreKnown
<1>5. InFlightInOrder' /\ ShownFirst'
  BY <1>2, EmptyFrames DEF FrameInv, InFlightInOrder, ShownFirst
<1> QED
  BY <1>2, <1>3, <1>4, <1>5 DEF FrameInv, OnlyLiveSocket

-----------------------------------------------------------------------------
(* The server's steps.                                                     *)

(* A saved message leaves the order of what is already on its way.         *)
LEMMA SavingKeepsOrder ==
    ASSUME FrameInv, NEW w \in {"me", "peer"}, NEW s \in Sockets
    PROVE  LET grown == Append(saved, w) IN
           /\ Known(grown, hub) /\ Known(grown, shown) /\ Known(grown, wire[s])
           /\ \A i \in DOMAIN hub : hub[i] > 0 => grown[hub[i]] = "peer"
           /\ Ordered(grown, hub) /\ Ordered(grown, wire[s]) /\ Before(grown, wire[s], hub)
           /\ ~overlap => /\ Ordered(grown, shown) /\ Before(grown, shown, hub)
                          /\ Before(grown, shown, wire[s])
           /\ \A i \in DOMAIN hub : Prec(grown, hub[i], Len(saved) + 1)
           /\ \A i \in DOMAIN shown : Prec(grown, shown[i], Len(saved) + 1)
           /\ \A i \in DOMAIN wire[s] : Prec(grown, wire[s][i], Len(saved) + 1)
<1> DEFINE grown == Append(saved, w)
<1> USE DEF FrameInv, FrameTypes, FramesAreKnown, InFlightInOrder, ShownFirst
<1>1. saved \in Seq({"me", "peer"}) /\ hub \in Seq(Nat) /\ shown \in Seq(Nat)
        /\ wire[s] \in Seq(Nat)
  OBVIOUS
<1>2. \A i \in DOMAIN hub : hub[i] > 0 => grown[hub[i]] = "peer"
  BY <1>1, AppendProperties, ElementOfSeq, LenProperties DEF Known
<1> QED
  BY <1>1, <1>2, KnownGrows

LEMMA StepPeerSends == FrameInv /\ PeerSends => FrameInv'
<1> SUFFICES ASSUME FrameInv, PeerSends PROVE FrameInv'
  OBVIOUS
<1> USE DEF PeerSends, serviceVars, chatVars
<1>n. PICK n : n = Len(saved) + 1
  OBVIOUS
<1>1. /\ saved' = Append(saved, "peer") /\ saved' \in Seq({"me", "peer"})
      /\ Len(saved') = n /\ n \in Nat /\ n > 0 /\ saved'[n] = "peer"
      /\ hub' = Append(hub, n) /\ hub' \in Seq(Nat)
  BY <1>n, AppendProperties, LenProperties DEF FrameInv, FrameTypes
<1>2. FrameTypes'
  BY <1>n, <1>1 DEF FrameInv, FrameTypes
<1>3. OnlyLiveSocket'
  BY DEF FrameInv, OnlyLiveSocket
<1>4. hub \in Seq(Nat) /\ shown \in Seq(Nat) /\ \A s \in Sockets : wire[s] \in Seq(Nat)
  BY DEF FrameInv, FrameTypes
<1>5. /\ Known(saved', hub) /\ Known(saved', shown) /\ Ordered(saved', hub)
      /\ \A i \in DOMAIN hub : hub[i] > 0 => saved'[hub[i]] = "peer"
      /\ \A i \in DOMAIN hub : Prec(saved', hub[i], n)
      /\ \A i \in DOMAIN shown : Prec(saved', shown[i], n)
      /\ ~overlap => Ordered(saved', shown) /\ Before(saved', shown, hub)
  <2>1. PICK s \in Sockets : TRUE
    BY SocketsAssumption
  <2> QED
    BY <1>n, <1>1, <2>1, SavingKeepsOrder
<1>6. ASSUME NEW s \in Sockets
      PROVE  /\ Known(saved', wire[s]) /\ Ordered(saved', wire[s])
             /\ Before(saved', wire[s], hub)
             /\ \A i \in DOMAIN wire[s] : Prec(saved', wire[s][i], n)
             /\ ~overlap => Before(saved', shown, wire[s])
  BY <1>n, <1>1, SavingKeepsOrder
<1>7. FramesAreKnown'
  <2>1. Known(saved', hub') /\ \A i \in DOMAIN hub' : hub'[i] > 0 => saved'[hub'[i]] = "peer"
    BY <1>1, <1>4, <1>5, AppendElements DEF Known
  <2> QED
    BY <2>1, <1>5, <1>6 DEF FrameInv, FramesAreKnown
<1>8. InFlightInOrder'
  <2>1. Ordered(saved', hub')
    BY <1>1, <1>4, <1>5, OrderedAppend
  <2>2. ASSUME NEW s \in Sockets PROVE Before(saved', wire[s], hub')
    BY <1>1, <1>4, <1>6, BeforeAppendRight
  <2> QED
    BY <2>1, <2>2, <1>6 DEF InFlightInOrder
<1>9. ShownFirst'
  <2>1. ~overlap => Before(saved', shown, hub')
    BY <1>1, <1>4, <1>5, BeforeAppendRight
  <2> QED
    BY <2>1, <1>5, <1>6 DEF ShownFirst
<1> QED
  BY <1>2, <1>3, <1>7, <1>8, <1>9 DEF FrameInv

LEMMA StepPeerTypes == FrameInv /\ PeerTypes => FrameInv'
<1> SUFFICES ASSUME FrameInv, PeerTypes PROVE FrameInv'
  OBVIOUS
<1> USE DEF PeerTypes, serviceVars, chatVars, TYPING
<1>z. PICK z \in Nat : z = 0
  OBVIOUS
<1>0. \A x : Prec(saved, x, z)
  BY <1>z DEF Prec
<1>1. /\ hub \in Seq(Nat) /\ shown \in Seq(Nat) /\ \A s \in Sockets : wire[s] \in Seq(Nat)
      /\ saved \in Seq({"me", "peer"}) /\ Len(saved) \in Nat
  BY LenProperties DEF FrameInv, FrameTypes
<1>2. hub' = Append(hub, z) /\ hub' \in Seq(Nat)
  BY <1>1, <1>z, AppendProperties
<1>3. FrameTypes' /\ OnlyLiveSocket'
  BY <1>2 DEF FrameInv, FrameTypes, OnlyLiveSocket
<1>4. FramesAreKnown'
  BY <1>1, <1>2, <1>z, AppendElements DEF FrameInv, FramesAreKnown, Known
<1>5. InFlightInOrder'
  <2>1. Ordered(saved, hub')
    BY <1>0, <1>1, <1>2, OrderedAppend
       DEF FrameInv, InFlightInOrder
  <2>2. ASSUME NEW s \in Sockets PROVE Before(saved, wire[s], hub')
    <3>1. Before(saved, wire[s], hub)
      BY DEF FrameInv, InFlightInOrder
    <3> QED
      BY <1>0, <1>1, <1>2, <3>1, BeforeAppendRight
  <2> QED
    BY <2>1, <2>2 DEF FrameInv, InFlightInOrder
<1>6. ShownFirst'
  <2>1. ~overlap => Before(saved, shown, hub')
    <3>1. ~overlap => Before(saved, shown, hub)
      BY DEF FrameInv, ShownFirst
    <3> QED
      BY <1>0, <1>1, <1>2, <3>1, BeforeAppendRight
  <2> QED
    BY <2>1 DEF FrameInv, ShownFirst
<1> QED
  BY <1>3, <1>4, <1>5, <1>6 DEF FrameInv

(* The hub's oldest frame goes to the end of the wires.                    *)
LEMMA StepHubBroadcasts == FrameInv /\ HubBroadcasts => FrameInv'
<1> SUFFICES ASSUME FrameInv, HubBroadcasts PROVE FrameInv'
  OBVIOUS
<1> USE DEF HubBroadcasts, serviceVars, chatVars
<1>1. /\ hub \in Seq(Nat) /\ hub # <<>> /\ shown \in Seq(Nat)
      /\ \A s \in Sockets : wire[s] \in Seq(Nat)
  BY DEF FrameInv, FrameTypes
<1>2. PICK f \in Nat : f = Head(hub)
  BY <1>1, TailElements
<1>3. hub' = Tail(hub) /\ hub' \in Seq(Nat)
  BY <1>1, TailElements
<1>4. ASSUME NEW s \in Sockets
      PROVE  /\ wire'[s] = IF s \in room THEN Append(wire[s], f) ELSE wire[s]
             /\ wire'[s] \in Seq(Nat)
  BY <1>1, <1>2, AppendProperties
<1>5. FrameTypes'
  <2>1. wire' \in [Sockets -> Seq(Nat)]
    BY <1>4
  <2> QED
    BY <2>1, <1>3 DEF FrameInv, FrameTypes
<1>6. OnlyLiveSocket'
  BY <1>4 DEF FrameInv, OnlyLiveSocket
<1>7. FramesAreKnown'
  <2>1. f <= Len(saved)
    BY <1>1, <1>2, TailElements DEF FrameInv, FramesAreKnown, Known
  <2>2. ASSUME NEW s \in Sockets PROVE Known(saved, wire'[s])
    BY <1>1, <1>4, <2>1, AppendElements DEF FrameInv, FramesAreKnown, Known
  <2>3. Known(saved, hub') /\ \A i \in DOMAIN hub' : hub'[i] > 0 => saved[hub'[i]] = "peer"
    BY <1>1, <1>3, TailElements DEF FrameInv, FramesAreKnown, Known
  <2> QED
    BY <2>2, <2>3 DEF FrameInv, FramesAreKnown
<1>8. InFlightInOrder'
  <2>1. Ordered(saved, hub') /\ \A j \in DOMAIN hub' : Prec(saved, f, hub'[j])
    BY <1>1, <1>2, <1>3, OrderedTail DEF FrameInv, InFlightInOrder
  <2>2. ASSUME NEW s \in Sockets PROVE Ordered(saved, wire'[s])
    <3>1. \A i \in DOMAIN wire[s] : Prec(saved, wire[s][i], f)
      BY <1>1, <1>2, BeforeTailRight DEF FrameInv, InFlightInOrder
    <3> QED
      BY <1>1, <1>4, <3>1, OrderedAppend DEF FrameInv, InFlightInOrder
  <2>3. ASSUME NEW s \in Sockets PROVE Before(saved, wire'[s], hub')
    <3>1. Before(saved, wire[s], hub')
      BY <1>1, <1>3, BeforeTailRight DEF FrameInv, InFlightInOrder
    <3> QED
      BY <1>1, <1>3, <1>4, <2>1, <3>1, BeforeAppendLeft
  <2> QED
    BY <2>1, <2>2, <2>3 DEF InFlightInOrder
<1>9. ShownFirst'
  <2>1. ~overlap => /\ Before(saved, shown, hub')
                    /\ \A i \in DOMAIN shown : Prec(saved, shown[i], f)
    BY <1>1, <1>2, <1>3, BeforeTailRight DEF FrameInv, ShownFirst
  <2>2. ASSUME NEW s \in Sockets PROVE ~overlap => Before(saved, shown, wire'[s])
    BY <1>1, <1>4, <2>1, BeforeAppendRight DEF FrameInv, ShownFirst
  <2> QED
    BY <2>1, <2>2 DEF FrameInv, ShownFirst
<1> QED
  BY <1>5, <1>6, <1>7, <1>8, <1>9 DEF FrameInv

LEMMA StepServerReads ==
    ASSUME SocketInv, FrameInv, NEW s \in Sockets, ServerReads(s)
    PROVE  FrameInv'
<1>1. /\ hub \in Seq(Nat) /\ shown \in Seq(Nat) /\ \A t \in Sockets : wire[t] \in Seq(Nat)
      /\ saved \in Seq({"me", "peer"}) /\ up[s] # <<>>
      /\ up \in [Sockets -> Seq({"join", "message"})]
  BY DEF FrameInv, FrameTypes, ServerReads
<1>2. s = ws
  BY DEF FrameInv, OnlyLiveSocket, ServerReads
<1>3. up' \in [Sockets -> Seq({"join", "message"})]
  BY <1>1, TailElements DEF ServerReads
<1>4. CASE Head(up[s]) = "join"
  <2>1. FrameTypes' /\ OnlyLiveSocket'
    BY <1>2, <1>3, <1>4 DEF FrameInv, FrameTypes, OnlyLiveSocket, ServerReads, serviceVars, chatVars
  <2>2. FramesAreKnown' /\ InFlightInOrder' /\ ShownFirst'
    BY <1>4 DEF FrameInv, FramesAreKnown, InFlightInOrder, ShownFirst, ServerReads, serviceVars,
                chatVars
  <2> QED
    BY <2>1, <2>2 DEF FrameInv
<1>5. CASE Head(up[s]) # "join"
  <2>n. PICK n : n = Len(saved) + 1
    OBVIOUS
  <2>0. /\ saved' = Append(saved, "me")
        /\ wire' = [wire EXCEPT ![s] = Append(@, Len(saved'))]
        /\ UNCHANGED <<room, hub, shown, overlap, history, ws>>
    BY <1>5 DEF ServerReads, serviceVars, chatVars
  <2>1. /\ saved' = Append(saved, "me") /\ saved' \in Seq({"me", "peer"})
        /\ Len(saved') = n /\ n \in Nat /\ n > 0 /\ Len(saved) < n /\ saved'[n] = "me"
    BY <1>1, <2>0, <2>n, AppendProperties, LenProperties
  <2>2. ASSUME NEW t \in Sockets
        PROVE  /\ wire'[t] = IF t = s THEN Append(wire[t], n) ELSE wire[t]
               /\ wire'[t] \in Seq(Nat)
    BY <1>1, <2>0, <2>1, AppendProperties DEF FrameInv, FrameTypes
  <2>3. FrameTypes'
    <3>1. wire' \in [Sockets -> Seq(Nat)]
      BY <2>0, <2>2 DEF FrameInv, FrameTypes
    <3> QED
      BY <1>3, <2>0, <2>n, <2>1, <3>1 DEF FrameInv, FrameTypes
  <2>4. OnlyLiveSocket'
    BY <1>2, <2>0, <2>2 DEF FrameInv, FrameTypes, OnlyLiveSocket, ServerReads
  <2>5. /\ Known(saved', hub) /\ Known(saved', shown) /\ Ordered(saved', hub)
        /\ \A i \in DOMAIN hub : hub[i] > 0 => saved'[hub[i]] = "peer"
        /\ ~overlap => Ordered(saved', shown) /\ Before(saved', shown, hub)
        /\ \A i \in DOMAIN shown : Prec(saved', shown[i], n)
    BY <2>n, <2>1, SavingKeepsOrder
  <2>6. ASSUME NEW t \in Sockets
        PROVE  /\ Known(saved', wire[t]) /\ Ordered(saved', wire[t])
               /\ Before(saved', wire[t], hub)
               /\ \A i \in DOMAIN wire[t] : Prec(saved', wire[t][i], n)
               /\ ~overlap => Before(saved', shown, wire[t])
    BY <2>n, <2>1, SavingKeepsOrder
  <2>7. \A j \in DOMAIN hub : Prec(saved', n, hub[j])
    <3>1. \A j \in DOMAIN hub : hub[j] \in Nat /\ hub[j] <= Len(saved)
      BY <1>1, ElementOfSeq, LenProperties DEF FrameInv, FramesAreKnown, Known
    <3>2. \A j \in DOMAIN hub : n # hub[j]
      BY <1>1, <2>n, <3>1, LenProperties
    <3>3. \A j \in DOMAIN hub : hub[j] > 0 => saved'[n] # saved'[hub[j]]
      BY <2>1, <2>5
    <3> QED
      BY <3>1, <3>2, <3>3 DEF Prec
  <2>8. FramesAreKnown'
    <3>1. ASSUME NEW t \in Sockets PROVE Known(saved', wire'[t])
      <4>1. CASE t = s
        <5>1. wire'[t] = Append(wire[t], n) /\ wire[t] \in Seq(Nat)
          BY <1>1, <2>2, <4>1
        <5>2. \A i \in DOMAIN Append(wire[t], n) : Append(wire[t], n)[i] <= n
          BY <2>1, <2>6, <5>1, AppendElements DEF Known
        <5> QED
          BY <2>1, <5>1, <5>2 DEF Known
      <4>2. CASE t # s
        BY <2>2, <2>6, <4>2
      <4> QED
        BY <4>1, <4>2
    <3>2. shown' = shown /\ hub' = hub /\ \A i \in DOMAIN shown : shown[i] > 0
      BY <2>0 DEF FrameInv, FramesAreKnown
    <3> QED
      BY <2>5, <3>1, <3>2 DEF FramesAreKnown
  <2>9. InFlightInOrder'
    <3>1. ASSUME NEW t \in Sockets PROVE Ordered(saved', wire'[t])
      BY <1>1, <2>1, <2>2, <2>6, OrderedAppend
    <3>2. ASSUME NEW t \in Sockets PROVE Before(saved', wire'[t], hub)
      BY <1>1, <2>1, <2>2, <2>6, <2>7, BeforeAppendLeft
    <3> QED
      BY <2>0, <2>5, <3>1, <3>2 DEF InFlightInOrder
  <2>10. ShownFirst'
    <3>1. ASSUME NEW t \in Sockets, ~overlap PROVE Before(saved', shown, wire'[t])
      <4>1. CASE t = s
        <5>1. wire'[t] = Append(wire[t], n) /\ wire[t] \in Seq(Nat)
          BY <1>1, <2>2, <4>1
        <5>2. /\ Before(saved', shown, wire[t])
              /\ \A i \in DOMAIN shown : Prec(saved', shown[i], n)
          BY <2>5, <2>6, <3>1
        <5>3. Before(saved', shown, Append(wire[t], n))
          BY <1>1, <2>1, <5>1, <5>2, BeforeAppendRight
        <5> QED
          BY <5>1, <5>3
      <4>2. CASE t # s
        BY <2>2, <2>6, <3>1, <4>2
      <4> QED
        BY <4>1, <4>2
    <3> QED
      BY <2>0, <2>5, <3>1 DEF ShownFirst
  <2> QED
    BY <2>3, <2>4, <2>8, <2>9, <2>10 DEF FrameInv
<1> QED
  BY <1>4, <1>5

-----------------------------------------------------------------------------
(* The page's steps.                                                       *)

(* The history replaces what is shown; what it overlaps with is recorded.  *)
LEMMA StepHistoryArrives == FrameInv /\ HistoryArrives => FrameInv'
<1> SUFFICES ASSUME FrameInv, HistoryArrives PROVE FrameInv'
  OBVIOUS
<1> USE DEF HistoryArrives, serviceVars, serverVars
<1>1. /\ hub \in Seq(Nat) /\ \A s \in Sockets : wire[s] \in Seq(Nat)
      /\ history.upTo \in Nat /\ history.upTo <= Len(saved) /\ Len(saved) \in Nat
  BY LenProperties DEF FrameInv, FrameTypes
<1>2. PICK m \in Nat : m = history.upTo
  BY <1>1
<1>3. /\ shown' = [i \in 1..m |-> i] /\ DOMAIN shown' = 1..m
      /\ \A i \in 1..m : shown'[i] = i
  BY <1>2
<1>4. shown' \in Seq(Nat)
  <2>1. shown' \in [1..m -> Nat]
    BY <1>3
  <2> QED
    BY <1>2, <2>1, SeqDef, IsASeq
<1>5. FrameTypes' /\ OnlyLiveSocket'
  BY <1>4 DEF FrameInv, FrameTypes, OnlyLiveSocket
<1>6. FramesAreKnown'
  <2>1. Known(saved, shown') /\ \A i \in DOMAIN shown' : shown'[i] > 0
    BY <1>1, <1>2, <1>3 DEF Known
  <2> QED
    BY <2>1 DEF FrameInv, FramesAreKnown
<1>7. InFlightInOrder'
  BY DEF FrameInv, InFlightInOrder
<1>8. ShownFirst'
  <2> SUFFICES ASSUME ~overlap'
               PROVE  /\ Ordered(saved, shown') /\ Before(saved, shown', hub)
                      /\ \A s \in Sockets : Before(saved, shown', wire[s])
    BY DEF ShownFirst
  <2>1. Ordered(saved, shown')
    BY <1>3 DEF Ordered, Prec
  <2>2. \A i \in 1..m : i \notin ToSet(hub) /\ \A s \in Sockets : i \notin ToSet(wire[s])
    BY <1>2
  <2>3. ASSUME NEW q \in Seq(Nat), \A i \in 1..m : i \notin ToSet(q)
        PROVE  Before(saved, shown', q)
    <3> SUFFICES ASSUME NEW i \in DOMAIN shown', NEW j \in DOMAIN q
                 PROVE  Prec(saved, shown'[i], q[j])
      BY DEF Before
    <3>1. q[j] \in ToSet(q) /\ q[j] \in Nat
      BY ElementOfSeq, LenProperties DEF ToSet
    <3>2. i \in 1..m /\ shown'[i] = i
      BY <1>3
    <3>3. q[j] > 0 => q[j] > m
      BY <2>3, <3>1
    <3> QED
      BY <3>1, <3>2, <3>3 DEF Prec
  <2> QED
    BY <1>1, <2>1, <2>2, <2>3
<1> QED
  BY <1>5, <1>6, <1>7, <1>8 DEF FrameInv

(* A frame leaves the wire, for the page or for nobody.                    *)
LEMMA StepFrameArrives ==
    ASSUME FrameInv, NEW s \in Sockets, FrameArrives(s)
    PROVE  FrameInv'
<1> USE DEF FrameArrives, serviceVars, serverVars
<1>1. /\ hub \in Seq(Nat) /\ shown \in Seq(Nat) /\ \A t \in Sockets : wire[t] \in Seq(Nat)
      /\ wire[s] # <<>>
  BY DEF FrameInv, FrameTypes
<1>2. PICK f \in Nat : f = Head(wire[s])
  BY <1>1, TailElements
<1>3. ASSUME NEW t \in Sockets
      PROVE  /\ wire'[t] = IF t = s THEN Tail(wire[t]) ELSE wire[t]
             /\ wire'[t] \in Seq(Nat)
  BY <1>1, TailElements DEF FrameInv, FrameTypes
<1>4. shown' = shown \/ (f > 0 /\ shown' = Append(shown, f))
  BY <1>2 DEF HandleFrame, TYPING
<1>5. s = ws
  BY <1>1 DEF FrameInv, OnlyLiveSocket
<1>6. FrameTypes'
  <2>1. wire' \in [Sockets -> Seq(Nat)]
    BY <1>3 DEF FrameInv, FrameTypes
  <2>2. shown' \in Seq(Nat)
    BY <1>1, <1>4, AppendProperties
  <2> QED
    BY <2>1, <2>2 DEF FrameInv, FrameTypes
<1>7. OnlyLiveSocket'
  BY <1>3, <1>5 DEF FrameInv, OnlyLiveSocket
<1>8. FramesAreKnown'
  <2>1. f <= Len(saved)
    BY <1>1, <1>2, TailElements DEF FrameInv, FramesAreKnown, Known
  <2>2. ASSUME NEW t \in Sockets PROVE Known(saved, wire'[t])
    BY <1>1, <1>3, TailElements DEF FrameInv, FramesAreKnown, Known
  <2>3. Known(saved, shown') /\ \A i \in DOMAIN shown' : shown'[i] > 0
    BY <1>1, <1>4, <2>1, AppendElements DEF FrameInv, FramesAreKnown, Known
  <2> QED
    BY <2>2, <2>3 DEF FrameInv, FramesAreKnown
<1>9. InFlightInOrder'
  <2>1. ASSUME NEW t \in Sockets PROVE Ordered(saved, wire'[t]) /\ Before(saved, wire'[t], hub)
    BY <1>1, <1>3, OrderedTail, BeforeTailLeft DEF FrameInv, InFlightInOrder
  <2> QED
    BY <2>1 DEF FrameInv, InFlightInOrder
<1>10. ShownFirst'
  <2> SUFFICES ASSUME ~overlap
               PROVE  /\ Ordered(saved, shown') /\ Before(saved, shown', hub)
                      /\ \A t \in Sockets : Before(saved, shown', wire'[t])
    BY DEF ShownFirst
  <2>1. /\ Ordered(saved, shown) /\ Before(saved, shown, hub)
        /\ \A t \in Sockets : Before(saved, shown, wire[t])
    BY DEF FrameInv, ShownFirst
  <2>2. ASSUME NEW t \in Sockets PROVE Before(saved, shown, wire'[t])
    BY <1>1, <1>3, <2>1, BeforeTailRight
  <2>3. CASE shown' = shown
    BY <2>1, <2>2, <2>3
  <2>4. CASE shown' = Append(shown, f)
    <3>1. Ordered(saved, shown')
      <4>1. \A i \in DOMAIN shown : Prec(saved, shown[i], f)
        BY <1>1, <1>2, <2>1, BeforeTailRight
      <4> QED
        BY <1>1, <2>1, <2>4, <4>1, OrderedAppend
    <3>2. Before(saved, shown', hub)
      <4>1. \A j \in DOMAIN hub : Prec(saved, f, hub[j])
        BY <1>1, <1>2, BeforeTailLeft DEF FrameInv, InFlightInOrder
      <4> QED
        BY <1>1, <2>1, <2>4, <4>1, BeforeAppendLeft
    <3>3. ASSUME NEW t \in Sockets PROVE Before(saved, shown', wire'[t])
      <4>1. CASE t = s
        <5>1. \A j \in DOMAIN wire'[t] : Prec(saved, f, wire'[t][j])
          BY <1>1, <1>2, <1>3, <4>1, OrderedTail DEF FrameInv, InFlightInOrder
        <5> QED
          BY <1>1, <1>3, <2>2, <2>4, <5>1, BeforeAppendLeft
      <4>2. CASE t # s
        <5>1. wire'[t] = <<>>
          BY <1>3, <1>5, <4>2 DEF FrameInv, OnlyLiveSocket
        <5> QED
          BY <5>1, EmptyFrames
      <4> QED
        BY <4>1, <4>2
    <3> QED
      BY <3>1, <3>2, <3>3
  <2> QED
    BY <1>4, <2>3, <2>4
<1> QED
  BY <1>6, <1>7, <1>8, <1>9, <1>10 DEF FrameInv

LEMMA StepFrameInv == SocketInv /\ FrameInv /\ [RealtimeNext]_realtimeVars => FrameInv'
<1> SUFFICES ASSUME SocketInv, FrameInv, [RealtimeNext]_realtimeVars PROVE FrameInv'
  OBVIOUS
<1> USE DEF serviceVars, serverVars, chatVars
<1>0. history.op = "read" => history.upTo \in 0..Len(saved)
  BY DEF FrameInv, FrameTypes
<1>1. CASE PeerSends
  BY <1>1, StepPeerSends
<1>2. CASE PeerTypes
  BY <1>2, StepPeerTypes
<1>3. CASE HubBroadcasts
  BY <1>3, StepHubBroadcasts
<1>4. CASE HistoryRead
  <2>1. history'.upTo \in 0..Len(saved)
    BY <1>4, LenProperties DEF HistoryRead, FrameInv, FrameTypes
  <2> QED
    BY <1>4, <2>1, FramesStay DEF HistoryRead
<1>5. CASE HistoryArrives
  BY <1>5, StepHistoryArrives
<1>6. CASE HistoryFails
  BY <1>6, FramesStay DEF HistoryFails
<1>7. CASE LeaveChat
  BY <1>7, StepLeave DEF LeaveChat
<1>8. CASE SendMessage
  BY <1>8, StepSendMessage
<1>9. CASE TypingTimeout
  BY <1>0, <1>9, FramesStay DEF TypingTimeout
<1>10. CASE SignOut
  BY <1>10, StepLeave DEF SignOut
<1>11. CASE SignIn
  BY <1>0, <1>11, FramesStay DEF SignIn
<1>12. CASE ShellConnects
  BY <1>12, StepConnect DEF ShellConnects
<1>13. CASE OpenChat
  BY <1>13, StepOpenChat
<1>14. CASE TimerFires
  BY <1>14, StepConnect DEF TimerFires
<1>15. ASSUME NEW s \in Sockets, SocketOpens(s) PROVE FrameInv'
  BY <1>0, <1>15, FramesStay DEF SocketOpens
<1>16. ASSUME NEW s \in Sockets, SocketCloses(s) PROVE FrameInv'
  BY <1>16, StepSocketCloses
<1>17. ASSUME NEW s \in Sockets, ServerReads(s) PROVE FrameInv'
  BY <1>17, StepServerReads
<1>18. ASSUME NEW s \in Sockets, FrameArrives(s) PROVE FrameInv'
  BY <1>18, StepFrameArrives
<1>19. CASE UNCHANGED realtimeVars
  BY <1>0, <1>19, FramesStay DEF realtimeVars
<1> QED
  BY <1>1, <1>2, <1>3, <1>4, <1>5, <1>6, <1>7, <1>8, <1>9, <1>10, <1>11, <1>12, <1>13, <1>14,
     <1>15, <1>16, <1>17, <1>18, <1>19 DEF RealtimeNext

LEMMA FrameInvOrders == FrameInv => ShownOnceInOrder
<1> SUFFICES ASSUME FrameInv, ~overlap, NEW i \in DOMAIN shown, NEW j \in DOMAIN shown, i < j
             PROVE  /\ shown[i] # shown[j]
                    /\ saved[shown[i]] = saved[shown[j]] => shown[i] < shown[j]
  BY DEF ShownOnceInOrder
<1>1. Prec(saved, shown[i], shown[j]) /\ shown[i] > 0 /\ shown[j] > 0
  BY DEF FrameInv, ShownFirst, Ordered, FramesAreKnown
<1> QED
  BY <1>1 DEF Prec

(* Whatever is lost, reconnected or reopened, the chat page shows a        *)
(* message once, and each side's messages in the order in which they were  *)
(* saved, as long as no history overlapped with the socket. Nothing is     *)
(* said about a message that never comes.                                  *)
THEOREM ShownOnceInOrderHolds == RealtimeSpec => []ShownOnceInOrder
<1>1. RealtimeInit => SocketInv /\ FrameInv
  BY InitSocketInv, InitFrameInv
<1>2. (SocketInv /\ FrameInv) /\ [RealtimeNext]_realtimeVars => (SocketInv /\ FrameInv)'
  BY StepSocketInv, StepFrameInv
<1> QED
  BY <1>1, <1>2, FrameInvOrders, PTL DEF RealtimeSpec

-----------------------------------------------------------------------------
(* The types of what the messages do not go through.                       *)
PageTypes ==
    /\ {token, chatOpen, typing} \subseteq BOOLEAN
    /\ retry \in 0..MaxRetries /\ timers \in 0..MaxTimers
    /\ status \in Status
    /\ Len(saved) <= MaxMessages
    /\ history \in History

LEMMA ConnectTypes == Connect => status' \in {status, "connecting", "reconnecting"}
  BY DEF Connect, Open

LEMMA HistoryTypes ==
    /\ NotAsked \in History /\ [op |-> "asked"] \in History /\ [op |-> "done"] \in History
    /\ \A n \in 0..MaxMessages : [op |-> "read", upTo |-> n] \in History
  BY DEF History

LEMMA InitPageTypes == RealtimeInit => PageTypes
<1> SUFFICES ASSUME RealtimeInit PROVE PageTypes
  OBVIOUS
<1>1. history \in History
  BY HistoryTypes DEF RealtimeInit
<1>2. Len(saved) <= MaxMessages
  <2>1. saved = <<>> /\ MaxMessages \in Nat
    BY RealtimeBoundAssumption DEF RealtimeInit
  <2> QED
    BY <2>1
<1>3. /\ token = TRUE /\ chatOpen = FALSE /\ typing = FALSE
      /\ retry = 0 /\ timers = 0 /\ status = "disconnected"
  BY DEF RealtimeInit
<1>4. retry \in 0..MaxRetries /\ timers \in 0..MaxTimers
  BY <1>3, RealtimeBoundAssumption
<1> QED
  BY <1>1, <1>2, <1>3, <1>4 DEF PageTypes, Status

LEMMA StepPageTypes == FrameTypes /\ PageTypes /\ [RealtimeNext]_realtimeVars => PageTypes'
<1> SUFFICES ASSUME FrameTypes, PageTypes, [RealtimeNext]_realtimeVars PROVE PageTypes'
  OBVIOUS
<1> USE RealtimeBoundAssumption
<1> DEFINE Stays == UNCHANGED <<token, retry, timers, status, chatOpen, typing, history>>
<1>0. saved \in Seq({"me", "peer"}) /\ Len(saved) \in Nat
  BY DEF FrameTypes
<1>1. ASSUME NEW w \in {"me", "peer"}, Stays, Len(saved) < MaxMessages, saved' = Append(saved, w)
      PROVE  PageTypes'
  <2>1. Len(saved') = Len(saved) + 1
    BY <1>0, <1>1
  <2> QED
    BY <1>0, <1>1, <2>1 DEF PageTypes
<1>2. CASE PeerSends
  BY <1>1, <1>2 DEF PeerSends, serviceVars, chatVars
<1>3. ASSUME NEW s \in Sockets, ServerReads(s) PROVE PageTypes'
  <2>1. Stays
    BY <1>3 DEF ServerReads, serviceVars, chatVars
  <2>2. CASE UNCHANGED saved
    BY <2>1, <2>2 DEF PageTypes
  <2>3. CASE ~UNCHANGED saved
    BY <1>1, <1>3, <2>1, <2>3 DEF ServerReads
  <2> QED
    BY <2>2, <2>3
<1>4. CASE HistoryRead
  <2>1. history' = [op |-> "read", upTo |-> Len(saved)] /\ Len(saved) \in 0..MaxMessages
    BY <1>0, <1>4 DEF HistoryRead, PageTypes
  <2>2. history' \in History
    BY <2>1, HistoryTypes
  <2> QED
    BY <1>4, <2>2 DEF HistoryRead, PageTypes, serviceVars, serverVars
<1>5. CASE HistoryArrives \/ HistoryFails
  <2>1. /\ UNCHANGED <<token, retry, timers, status, saved, chatOpen, typing>>
        /\ history' = [op |-> "done"]
    BY <1>5 DEF HistoryArrives, HistoryFails, serviceVars, serverVars
  <2> QED
    BY <2>1, HistoryTypes DEF PageTypes
<1>6. CASE LeaveChat \/ SignOut
  <2>1. /\ UNCHANGED <<retry, timers, status, saved>> /\ token' \in {token, FALSE}
        /\ chatOpen' = FALSE /\ typing' = FALSE /\ history' = NotAsked
    BY <1>6 DEF LeaveChat, SignOut, LeavePage, serviceVars, serverVars
  <2> QED
    BY <2>1, HistoryTypes DEF PageTypes
<1>7. CASE OpenChat
  <2>1. /\ UNCHANGED <<token, retry, timers, saved>>
        /\ chatOpen' = TRUE /\ typing' = FALSE /\ history' = [op |-> "asked"]
        /\ status' \in {status, "connecting", "reconnecting"}
    BY <1>7, ConnectTypes DEF OpenChat, serverVars
  <2> QED
    BY <2>1, HistoryTypes DEF PageTypes, Status
<1>8. CASE ShellConnects \/ TimerFires
  <2>1. /\ UNCHANGED <<token, retry, saved, chatOpen, typing, history>>
        /\ status' \in {status, "connecting", "reconnecting"}
        /\ timers' = timers \/ (timers > 0 /\ timers' = timers - 1)
    BY <1>8, ConnectTypes DEF ShellConnects, TimerFires, serverVars, chatVars
  <2>2. timers' \in 0..MaxTimers
    BY <2>1 DEF PageTypes
  <2> QED
    BY <2>1, <2>2 DEF PageTypes, Status
<1>9. ASSUME NEW s \in Sockets, SocketOpens(s) PROVE PageTypes'
  BY <1>9 DEF SocketOpens, PageTypes, Status, serverVars, chatVars
<1>10. ASSUME NEW s \in Sockets, SocketCloses(s) PROVE PageTypes'
  <2>1. /\ UNCHANGED <<token, saved, chatOpen, typing, history>>
        /\ status' \in {"disconnected", "reconnecting"}
    BY <1>10 DEF SocketCloses, ScheduleReconnect, chatVars
  <2>2. retry' \in 0..MaxRetries /\ timers' \in 0..MaxTimers
    BY <1>10 DEF SocketCloses, ScheduleReconnect, PageTypes
  <2> QED
    BY <2>1, <2>2 DEF PageTypes, Status
<1>11. ASSUME NEW s \in Sockets, FrameArrives(s) PROVE PageTypes'
  <2>1. UNCHANGED <<token, retry, timers, status, saved, chatOpen, history>>
        /\ typing' \in {typing, TRUE, FALSE}
    BY <1>11 DEF FrameArrives, HandleFrame, serviceVars, serverVars
  <2> QED
    BY <2>1 DEF PageTypes
<1>12. CASE TypingTimeout \/ SignIn
  BY <1>12 DEF TypingTimeout, SignIn, PageTypes, serviceVars, serverVars, chatVars
<1>13. CASE PeerTypes \/ HubBroadcasts \/ SendMessage
  BY <1>13 DEF PeerTypes, HubBroadcasts, SendMessage, PageTypes, serviceVars, serverVars, chatVars
<1>14. CASE UNCHANGED realtimeVars
  BY <1>14 DEF realtimeVars, PageTypes, serviceVars, serverVars, chatVars
<1> QED
  BY <1>2, <1>3, <1>4, <1>5, <1>6, <1>7, <1>8, <1>9, <1>10, <1>11, <1>12, <1>13, <1>14
     DEF RealtimeNext

(* No frame has a number that no message has.                              *)
LEMMA KnownIsFrame ==
    ASSUME NEW by, NEW q \in Seq(Nat), Known(by, q), Len(by) \in Nat, Len(by) <= MaxMessages
    PROVE  q \in Seq(Frame)
<1>1. q = [i \in 1..Len(q) |-> q[i]] /\ Len(q) \in Nat
  OBVIOUS
<1>2. ASSUME NEW i \in 1..Len(q) PROVE q[i] \in Frame
  <2>1. q[i] \in Nat /\ q[i] <= Len(by)
    BY DEF Known
  <2> QED
    BY <2>1, RealtimeBoundAssumption DEF Frame
<1> QED
  BY ONLY <1>1, <1>2

LEMMA RealtimeTypesHold == SocketInv /\ FrameInv /\ PageTypes => RealtimeTypeOK
<1> SUFFICES ASSUME SocketInv, FrameInv, PageTypes PROVE RealtimeTypeOK
  OBVIOUS
<1>1. FrameTypes /\ FramesAreKnown /\ Len(saved) \in Nat
  BY DEF FrameInv, FrameTypes
<1>2. hub \in Seq(Frame) /\ shown \in Seq(Frame)
  BY <1>1, KnownIsFrame DEF FrameTypes, FramesAreKnown, PageTypes
<1>3. ASSUME NEW s \in Sockets PROVE wire[s] \in Seq(Frame)
  BY <1>1, <1>3, KnownIsFrame DEF FrameTypes, FramesAreKnown, PageTypes
<1>4. wire \in [Sockets -> Seq(Frame)]
  BY <1>1, <1>3 DEF FrameTypes
<1> QED
  BY <1>1, <1>2, <1>4 DEF RealtimeTypeOK, SocketInv, FrameTypes, PageTypes

-----------------------------------------------------------------------------
(* Codes sent to a phone. A code is awaited by the page on screen or by    *)
(* nobody; and once the sign-in page names a number, the code that was     *)
(* sent for last, whoever awaits it, is that number's.                     *)
Sending(s) == step[s].op = "send"

PageHasItsFields == (dialog => phonePage = "profile") /\ (sent => phonePage = "phone")
MountedIsOnScreen == \A s \in Steps : Sending(s) /\ step[s].mounted => step[s].of = phonePage
NamesANumber ==
    phonePage = "phone" =>
        /\ sent => numberShown # NoNumber
        /\ \A s \in Steps : Sending(s) /\ step[s].mounted => numberShown # NoNumber
NewestIsForShown ==
    phonePage = "phone" /\ numberShown # NoNumber =>
        \A s \in Steps \ overtaken : Sending(s) => step[s].number = numberShown
LastIsForShown ==
    phonePage = "phone" /\ sent /\ ~late => firebase.confirmation \in {numberShown, NoNumber}

PhoneInv ==
    PhoneTypeOK /\ PageHasItsFields /\ MountedIsOnScreen /\ NamesANumber
    /\ NewestIsForShown /\ LastIsForShown

LEMMA PhoneInvGives == PhoneInv => PhoneTypeOK /\ CodeIsForNumberShown
  BY DEF PhoneInv, NamesANumber, NewestIsForShown, LastIsForShown, CodeIsForNumberShown, Sending

(* A call that is awaited.                                                 *)
Awaiting == [op: {"send", "confirm", "post"}, of: {"phone", "profile"}, number: Numbers,
             mounted: BOOLEAN]

LEMMA StepIsAwaiting ==
    ASSUME PhoneTypeOK, NEW s \in Steps, step[s] # Done \/ step[s].op # "done"
    PROVE  step[s] \in Awaiting
  BY DEF PhoneTypeOK, Step, Awaiting, Done

LEMMA AwaitingFacts ==
    ASSUME NEW w \in Awaiting
    PROVE  /\ w # Done
           /\ [w EXCEPT !.mounted = FALSE] \in Awaiting
           /\ [w EXCEPT !.mounted = FALSE].mounted = FALSE
           /\ [w EXCEPT !.mounted = FALSE].op = w.op
           /\ [w EXCEPT !.op = "post"] \in Awaiting
           /\ [w EXCEPT !.op = "post"].op = "post"
<1>1. w # Done
  BY DEF Awaiting, Done
<1>2. PICK v : v = [w EXCEPT !.mounted = FALSE]
  OBVIOUS
<1>3. v \in Awaiting /\ v.mounted = FALSE /\ v.op = w.op
  BY <1>2 DEF Awaiting
<1>4. PICK v1 : v1 = [w EXCEPT !.op = "post"]
  OBVIOUS
<1>5. v1 \in Awaiting /\ v1.op = "post"
  BY <1>4 DEF Awaiting
<1> QED
  BY <1>1, <1>2, <1>3, <1>4, <1>5

LEMMA InitPhone == PhoneInit => PhoneInv
<1> SUFFICES ASSUME PhoneInit PROVE PhoneInv
  OBVIOUS
<1>1. Fresh \in Service
  BY DEF Fresh, Service, Number
<1>2. PhoneTypeOK
  BY <1>1 DEF PhoneInit, PhoneTypeOK, Step, Number
<1>3. \A s \in Steps : ~Sending(s)
  BY DEF PhoneInit, Sending, Done
<1> QED
  BY <1>2, <1>3 DEF PhoneInit, PhoneInv, PageHasItsFields, MountedIsOnScreen, NamesANumber,
                    NewestIsForShown, LastIsForShown, Sending

(* No call begins to await a code, and none that goes on changes.          *)
SendsEnd ==
    \A s \in Steps : step'[s].op = "send" =>
        Sending(s) /\ step'[s].of = step[s].of /\ step'[s].number = step[s].number
        /\ (step'[s].mounted => step[s].mounted)

LEMMA SendsEndKeeps ==
    ASSUME PhoneInv, PhoneTypeOK', SendsEnd, PageHasItsFields',
           UNCHANGED <<phonePage, overtaken, late>>, numberShown' = numberShown, sent' => sent,
           sent' => firebase'.confirmation \in {firebase.confirmation, NoNumber}
    PROVE  PhoneInv'
<1> USE DEF PhoneInv, SendsEnd, Sending
<1>1. MountedIsOnScreen'
  BY DEF MountedIsOnScreen
<1>2. NamesANumber'
  BY DEF NamesANumber
<1>3. NewestIsForShown'
  BY DEF NewestIsForShown
<1>4. LastIsForShown'
  BY DEF LastIsForShown
<1> QED
  BY <1>1, <1>2, <1>3, <1>4

(* A page begins: what was awaited is nobody's.                            *)
LEMMA NewPageKeeps ==
    ASSUME PhoneInv, PhoneTypeOK', ~sent', ~dialog', numberShown' = NoNumber,
           \A s \in Steps : step'[s].op = "send" => Sending(s) /\ ~step'[s].mounted
    PROVE  PhoneInv'
  BY DEF PhoneInv, PageHasItsFields, MountedIsOnScreen, NamesANumber, NewestIsForShown,
         LastIsForShown, Sending

(* A code is sent for.                                                     *)
LEMMA SendingKeeps ==
    ASSUME PhoneInv, NEW s \in Steps, NEW n \in Numbers, NEW base \in Service,
           StartSend(s, n, base), phonePage \in {"phone", "profile"},
           UNCHANGED <<phonePage, signedIn, logging, dialog, field, profilePhone>>,
           numberShown' \in Number, sent' = FALSE,
           phonePage = "phone" => numberShown' = n
    PROVE  PhoneInv'
<1> USE DEF PhoneInv
<1>1. PICK w : w = [op |-> "send", of |-> phonePage, number |-> n, mounted |-> TRUE]
  OBVIOUS
<1>2. /\ w \in Awaiting /\ w.op = "send" /\ w.of = phonePage /\ w.number = n
      /\ w.mounted = TRUE
  BY <1>1 DEF Awaiting
<1>3. /\ step' = [step EXCEPT ![s] = w] /\ step[s] = Done
      /\ firebase' = [base EXCEPT !.sending = TRUE]
  BY <1>1 DEF StartSend
<1>4. /\ overtaken' = {t \in Steps : step[t].op = "send"} /\ late' = late
  BY DEF StartSend
<1>5. step \in [Steps -> Step] /\ w \in Step
  BY <1>2 DEF Step, Awaiting, PhoneTypeOK
<1>6. PhoneTypeOK'
  <2>1. firebase' \in Service
    BY <1>3 DEF Service
  <2>2. step' \in [Steps -> Step]
    BY <1>3, <1>5
  <2>3. /\ phonePage' = phonePage /\ signedIn' = signedIn /\ logging' = logging
        /\ dialog' = dialog /\ profilePhone' = profilePhone /\ field' = field
        /\ numberShown' \in Number /\ sent' \in BOOLEAN
    OBVIOUS
  <2>4. /\ phonePage \in {"phone", "profile", "other"} /\ signedIn \in BOOLEAN
        /\ logging \in BOOLEAN /\ dialog \in BOOLEAN /\ profilePhone \in Number
        /\ field \in Number /\ late \in BOOLEAN
    BY DEF PhoneTypeOK
  <2> QED
    BY <1>4, <2>1, <2>2, <2>3, <2>4 DEF PhoneTypeOK
<1>7. step'[s] = w /\ \A t \in Steps : t # s => step'[t] = step[t]
  BY <1>3, <1>5
<1>8. PageHasItsFields' /\ MountedIsOnScreen'
  BY <1>2, <1>7 DEF PageHasItsFields, MountedIsOnScreen, Sending
<1>9. phonePage = "phone" => numberShown' = n /\ n # NoNumber
  BY NoNumberAssumption
<1>10. NamesANumber'
  BY <1>9 DEF NamesANumber
<1>11. NewestIsForShown'
  BY <1>2, <1>4, <1>7, <1>9 DEF NewestIsForShown, Sending
<1>12. LastIsForShown'
  BY DEF LastIsForShown
<1> QED
  BY <1>6, <1>8, <1>10, <1>11, <1>12

(* The service's fields.                                                   *)
LEMMA ServiceFacts ==
    ASSUME NEW f \in Service
    PROVE  /\ Fresh \in Service /\ Fresh.confirmation = NoNumber
           /\ \A b \in BOOLEAN : [f EXCEPT !.sending = b] \in Service
           /\ \A b \in BOOLEAN : [f EXCEPT !.verifying = b] \in Service
           /\ \A b \in BOOLEAN :
                 /\ [f EXCEPT !.sending = b].confirmation = f.confirmation
                 /\ [f EXCEPT !.verifying = b].confirmation = f.confirmation
<1>1. Fresh \in Service /\ Fresh.confirmation = NoNumber
  BY DEF Fresh, Service, Number
<1>2. ASSUME NEW b \in BOOLEAN
      PROVE  /\ [f EXCEPT !.sending = b] \in Service
             /\ [f EXCEPT !.verifying = b] \in Service
             /\ [f EXCEPT !.sending = b].confirmation = f.confirmation
             /\ [f EXCEPT !.verifying = b].confirmation = f.confirmation
  BY DEF Service
<1> QED
  BY <1>1, <1>2

(* The page that opens, or the one a sign-in leads to.                     *)
LEMMA StepPage ==
    ASSUME PhoneInv, NEW p \in {"phone", "profile", "other"}, NEW gone \in SUBSET Steps,
           phonePage' = p, sent' = FALSE, numberShown' = NoNumber, logging' = FALSE,
           dialog' = FALSE, field' = NoNumber, profilePhone' = NoNumber,
           signedIn' \in BOOLEAN, UNCHANGED orderVars, firebase' \in {firebase, Fresh},
           step' = [t \in Steps |-> IF t \in gone \/ step[t] = Done THEN Done
                                    ELSE [step[t] EXCEPT !.mounted = FALSE]]
    PROVE  PhoneInv'
<1>1. ASSUME NEW t \in Steps
      PROVE  step'[t] \in Step /\ (step'[t].op = "send" => Sending(t) /\ ~step'[t].mounted)
  <2>1. CASE t \in gone \/ step[t] = Done
    BY <2>1 DEF Step, Done
  <2>2. CASE ~(t \in gone \/ step[t] = Done)
    <3>1. step[t] \in Awaiting
      BY <2>2, StepIsAwaiting DEF PhoneInv
    <3>2. step'[t] = [step[t] EXCEPT !.mounted = FALSE]
      BY <2>2
    <3>3. step'[t] \in Awaiting /\ step'[t].mounted = FALSE /\ step'[t].op = step[t].op
      BY <3>1, <3>2, AwaitingFacts
    <3> QED
      BY <3>3 DEF Step, Awaiting, Sending
  <2> QED
    BY <2>1, <2>2
<1>2. step' = [t \in Steps |-> step'[t]]
  OBVIOUS
<1>3. step' \in [Steps -> Step]
  BY ONLY <1>1, <1>2
<1>4. firebase \in Service
  BY DEF PhoneInv, PhoneTypeOK
<1>5. firebase' \in Service
  BY <1>4, ServiceFacts
<1>6. overtaken' \in SUBSET Steps /\ late' \in BOOLEAN
  BY DEF PhoneInv, PhoneTypeOK, orderVars
<1>7. PhoneTypeOK'
  BY <1>3, <1>5, <1>6 DEF PhoneTypeOK, Number
<1> QED
  BY <1>1, <1>7, NewPageKeeps

(* A code arrives at its number: the page that awaited it asks for it.     *)
LEMMA StepCodeSent == \A s \in Steps : PhoneInv /\ CodeSent(s) => PhoneInv'
<1> SUFFICES ASSUME NEW s \in Steps, PhoneInv, CodeSent(s) PROVE PhoneInv'
  OBVIOUS
<1>1. /\ Sending(s) /\ step' = [step EXCEPT ![s] = Done]
      /\ UNCHANGED <<phonePage, signedIn, numberShown, logging, overtaken>>
      /\ UNCHANGED <<dialog, field, profilePhone>>
      /\ sent' = (sent \/ (step[s].of = "phone" /\ step[s].mounted))
      /\ firebase' = [firebase EXCEPT !.confirmation = step[s].number,
                                      !.codeSent = TRUE, !.sending = FALSE]
      /\ late' = (s \in overtaken)
  BY DEF CodeSent, Sending, profileVars
<1>2. PhoneTypeOK
  BY DEF PhoneInv
<1>3. /\ step \in [Steps -> Step] /\ firebase \in Service /\ sent \in BOOLEAN
      /\ overtaken \subseteq Steps
  BY <1>2 DEF PhoneTypeOK
<1>4. step[s] \in Awaiting
  BY <1>1, <1>2, StepIsAwaiting DEF Sending
<1>5. /\ step[s].number \in Numbers /\ step[s].mounted \in BOOLEAN
      /\ step[s].of \in {"phone", "profile"}
  BY <1>4 DEF Awaiting
<1>6. firebase' \in Service /\ firebase'.confirmation = step[s].number
  BY <1>1, <1>3, <1>5 DEF Service, Number
<1>7. sent' \in BOOLEAN /\ (sent' => sent \/ (step[s].of = "phone" /\ step[s].mounted))
  <2>1. sent' = TRUE \/ sent' = FALSE
    BY <1>1, Zenon
  <2>2. sent' => sent \/ (step[s].of = "phone" /\ step[s].mounted)
    BY <1>1, Zenon
  <2> QED
    BY <2>1, <2>2
<1>8. step' \in [Steps -> Step]
  BY <1>1, <1>3 DEF Step
<1>9. late' \in BOOLEAN
  BY <1>1
<1>10. PhoneTypeOK'
  BY <1>1, <1>2, <1>6, <1>7, <1>8, <1>9 DEF PhoneTypeOK
<1>11. \A t \in Steps : step'[t].op = "send" => t # s /\ step'[t] = step[t] /\ Sending(t)
  BY <1>1, <1>3 DEF Done, Sending
<1>12. PageHasItsFields' /\ MountedIsOnScreen'
  BY <1>1, <1>7, <1>11 DEF PhoneInv, PageHasItsFields, MountedIsOnScreen, Sending
<1>13. phonePage = "phone" /\ sent' => numberShown # NoNumber
  BY <1>1, <1>7 DEF PhoneInv, NamesANumber
<1>14. NamesANumber'
  BY <1>1, <1>11, <1>13 DEF PhoneInv, NamesANumber, Sending
<1>15. NewestIsForShown'
  BY <1>1, <1>11 DEF PhoneInv, NewestIsForShown, Sending
<1>16. LastIsForShown'
  BY <1>1, <1>6, <1>13 DEF PhoneInv, NewestIsForShown, LastIsForShown, Sending
<1> QED
  BY <1>10, <1>12, <1>14, <1>15, <1>16 DEF PhoneInv

(* A call goes on, or ends, and no code is sent for.                       *)
LEMMA StepGoesOn ==
    ASSUME PhoneInv, NEW s \in Steps, NEW w \in Step, w.op # "send",
           step' = [step EXCEPT ![s] = w],
           UNCHANGED <<phonePage, signedIn, sent, numberShown, overtaken, late>>,
           logging' \in BOOLEAN, dialog' \in BOOLEAN, dialog' => dialog,
           field' \in Number, profilePhone' \in Number,
           firebase' \in Service, firebase'.confirmation \in {firebase.confirmation, NoNumber}
    PROVE  PhoneInv'
<1>1. PhoneTypeOK
  BY DEF PhoneInv
<1>2. step \in [Steps -> Step]
  BY <1>1 DEF PhoneTypeOK
<1>3. step' \in [Steps -> Step]
  BY <1>2
<1>4. PhoneTypeOK'
  BY <1>1, <1>3 DEF PhoneTypeOK
<1>5. SendsEnd
  BY <1>2 DEF SendsEnd, Sending
<1>6. PageHasItsFields'
  BY DEF PhoneInv, PageHasItsFields
<1> QED
  BY <1>4, <1>5, <1>6, SendsEndKeeps

(* The two pages send a code.                                              *)
LEMMA StepSend ==
    ASSUME PhoneInv, NEW s \in Steps,
           (\E n \in Numbers : OnSendCode(s, n)) \/ DialogSends(s) \/ OnResendCode(s)
    PROVE  PhoneInv'
<1>1. /\ firebase \in Service /\ field \in Number /\ numberShown \in Number
      /\ Fresh \in Service /\ sent \in BOOLEAN
  BY ServiceFacts DEF PhoneInv, PhoneTypeOK
<1>2. ASSUME NEW n \in Numbers, OnSendCode(s, n) PROVE PhoneInv'
  BY <1>1, <1>2, SendingKeeps DEF OnSendCode, NumberForm, profileVars, Number
<1>3. CASE DialogSends(s)
  <2>1. phonePage = "profile" /\ ~sent
    BY <1>3 DEF DialogSends, PhoneInv, PageHasItsFields
  <2>2. sent = FALSE
    BY <2>1 DEF PhoneInv, PhoneTypeOK
  <2>3. field \in Numbers
    BY <1>1, <1>3 DEF DialogSends, Number
  <2>4. /\ StartSend(s, field, firebase)
        /\ UNCHANGED <<phonePage, signedIn, logging, dialog, field, profilePhone>>
        /\ numberShown' \in Number /\ sent' = FALSE
    BY <1>1, <1>3, <2>2 DEF DialogSends, signInVars, profileVars
  <2> QED
    BY <1>1, <2>1, <2>3, <2>4, SendingKeeps
<1>4. CASE OnResendCode(s)
  <2>1. numberShown \in Numbers
    BY <1>1, <1>4 DEF OnResendCode, Number
  <2> QED
    BY <1>1, <1>4, <2>1, SendingKeeps DEF OnResendCode, CodeForm, profileVars, Number
<1> QED
  BY <1>2, <1>3, <1>4

LEMMA StepConfirm ==
    ASSUME PhoneInv, NEW s \in Steps, OnVerifyCode(s) \/ DialogConfirms(s)
    PROVE  PhoneInv'
<1>1. PhoneTypeOK /\ firebase \in Service
  BY DEF PhoneInv, PhoneTypeOK
<1>2. /\ StartConfirm(s)
      /\ UNCHANGED <<phonePage, signedIn, sent, numberShown, logging, dialog, field,
                     profilePhone, overtaken, late>>
  BY DEF OnVerifyCode, DialogConfirms, signInVars, profileVars, orderVars
<1>3. phonePage \in {"phone", "profile"} /\ firebase.confirmation \in Numbers
  <2>1. CodeForm \/ dialog
    BY DEF OnVerifyCode, DialogConfirms
  <2>2. phonePage \in {"phone", "profile"}
    BY <2>1 DEF PhoneInv, PageHasItsFields, CodeForm
  <2> QED
    BY <1>1, <1>2, <2>2 DEF StartConfirm, Service, Number
<1>4. PICK w : w = [op |-> "confirm", of |-> phonePage, number |-> firebase.confirmation,
                    mounted |-> TRUE]
  OBVIOUS
<1>5. w \in Step /\ w.op # "send"
  BY <1>3, <1>4 DEF Step
<1>6. step' = [step EXCEPT ![s] = w] /\ firebase' = [firebase EXCEPT !.verifying = TRUE]
  BY <1>2, <1>4 DEF StartConfirm
<1>7. firebase' \in Service /\ firebase'.confirmation = firebase.confirmation
  BY <1>1, <1>6, ServiceFacts
<1> QED
  BY <1>1, <1>2, <1>5, <1>6, <1>7, StepGoesOn DEF PhoneTypeOK

(* The answers that set no code.                                           *)
LEMMA StepAnswer ==
    ASSUME PhoneInv, NEW s \in Steps,
           \/ SendFails(s) \/ Confirmed(s) \/ ConfirmFails(s) \/ PhoneVerified(s) \/ PostFails(s)
    PROVE  PhoneInv'
<1>1. PhoneTypeOK /\ firebase \in Service
  BY DEF PhoneInv, PhoneTypeOK
<1>2. Done \in Step /\ Done.op # "send"
  BY DEF Done, Step
<1>3. CASE SendFails(s)
  <2>1. firebase' \in Service /\ firebase'.confirmation = firebase.confirmation
    BY <1>1, <1>3, ServiceFacts DEF SendFails
  <2> QED
    BY <1>1, <1>2, <1>3, <2>1, StepGoesOn
       DEF SendFails, PhoneTypeOK, orderVars, signInVars, profileVars
<1>4. CASE ConfirmFails(s)
  <2>1. firebase' \in Service /\ firebase'.confirmation = firebase.confirmation
    BY <1>1, <1>4, ServiceFacts DEF ConfirmFails
  <2> QED
    BY <1>1, <1>2, <1>4, <2>1, StepGoesOn
       DEF ConfirmFails, PhoneTypeOK, orderVars, signInVars, profileVars
<1>5. CASE Confirmed(s)
  <2>1. firebase' \in Service /\ firebase'.confirmation = firebase.confirmation
    BY <1>1, <1>5, ServiceFacts DEF Confirmed
  <2>2. step[s] \in Awaiting
    BY <1>1, <1>5, StepIsAwaiting DEF Confirmed
  <2>3. PICK w : w = [step[s] EXCEPT !.op = "post"]
    OBVIOUS
  <2>4. w \in Step /\ w.op # "send"
    BY <2>2, <2>3, AwaitingFacts DEF Step, Awaiting
  <2>5. step' = [step EXCEPT ![s] = w]
    BY <1>5, <2>3 DEF Confirmed
  <2>6. logging' \in BOOLEAN
    <3>1. logging' = TRUE \/ logging' = FALSE
      BY <1>5, Zenon DEF Confirmed
    <3> QED
      BY <3>1
  <2> QED
    BY <1>1, <1>5, <2>1, <2>4, <2>5, <2>6, StepGoesOn DEF Confirmed, PhoneTypeOK, orderVars, profileVars
<1>6. CASE PhoneVerified(s)
  <2>1. firebase' \in Service /\ firebase'.confirmation = NoNumber
    BY <1>1, <1>6, ServiceFacts DEF PhoneVerified
  <2>2. /\ dialog' \in BOOLEAN /\ (dialog' => dialog)
        /\ field' \in Number /\ profilePhone' \in Number
    BY <1>1, <1>6 DEF PhoneVerified, PhoneTypeOK, profileVars, Number
  <2> QED
    BY <1>1, <1>2, <1>6, <2>1, <2>2, StepGoesOn DEF PhoneVerified, PhoneTypeOK, signInVars, orderVars
<1>7. CASE PostFails(s)
  <2>1. logging' \in BOOLEAN
    <3>1. logging' = TRUE \/ logging' = FALSE
      BY <1>7, Zenon DEF PostFails
    <3> QED
      BY <3>1
  <2> QED
    BY <1>1, <1>2, <1>7, <2>1, StepGoesOn DEF PostFails, PhoneTypeOK, orderVars, profileVars
<1> QED
  BY <1>3, <1>4, <1>5, <1>6, <1>7

LEMMA StepPhone == PhoneInv /\ [PhoneNext]_phoneVars => PhoneInv'
<1> SUFFICES ASSUME PhoneInv, [PhoneNext]_phoneVars PROVE PhoneInv'
  OBVIOUS
<1>0. PhoneTypeOK
  BY DEF PhoneInv
<1>1. ASSUME NEW p \in {"phone", "profile", "other"}, OpenPhonePage(p) PROVE PhoneInv'
  <2>1. step' = [t \in Steps |-> IF t \in {} \/ step[t] = Done THEN Done
                                 ELSE [step[t] EXCEPT !.mounted = FALSE]]
    BY <1>1 DEF OpenPhonePage
  <2>2. /\ phonePage' = p /\ sent' = FALSE /\ numberShown' = NoNumber /\ logging' = FALSE
        /\ dialog' = FALSE /\ field' = NoNumber /\ profilePhone' = NoNumber
        /\ UNCHANGED orderVars /\ firebase' = firebase
    BY <1>1 DEF OpenPhonePage
  <2>3. signedIn' \in BOOLEAN /\ {} \in SUBSET Steps
    BY <1>0, <1>1 DEF OpenPhonePage, PhoneTypeOK
  <2> QED
    BY <2>1, <2>2, <2>3, StepPage
<1>2. ASSUME NEW s \in Steps, PhoneLoggedIn(s) PROVE PhoneInv'
  <2>1. step' = [t \in Steps |-> IF t \in {s} \/ step[t] = Done THEN Done
                                 ELSE [step[t] EXCEPT !.mounted = FALSE]]
    BY <1>2 DEF PhoneLoggedIn
  <2> QED
    BY <1>2, <2>1, StepPage DEF PhoneLoggedIn
<1>3. ASSUME PhoneTypeOK', UNCHANGED <<phonePage, step, numberShown, sent, overtaken, late>>,
             dialog' => phonePage = "profile",
             firebase'.confirmation \in {firebase.confirmation, NoNumber}
      PROVE  PhoneInv'
  <2>1. SendsEnd /\ PageHasItsFields'
    BY <1>3 DEF SendsEnd, Sending, PhoneInv, PageHasItsFields
  <2> QED
    BY <1>3, <2>1, SendsEndKeeps
<1>4. CASE SwitchUser \/ OpenDialog \/ \E n \in Numbers : TypeNumber(n)
  <2>1. signedIn' \in BOOLEAN
    BY <1>0, <1>4 DEF PhoneTypeOK, SwitchUser, OpenDialog, TypeNumber
  <2>2. /\ UNCHANGED <<phonePage, step, numberShown, sent, overtaken, late, firebase, logging,
                       profilePhone>>
        /\ field' \in Number
        /\ dialog' \in BOOLEAN /\ (dialog' => phonePage = "profile")
    <3>1. CASE SwitchUser
      BY <1>0, <3>1 DEF PhoneTypeOK, SwitchUser, signInVars, profileVars, orderVars, PhoneInv,
                        PageHasItsFields
    <3>2. CASE OpenDialog
      BY <1>0, <3>2 DEF PhoneTypeOK, OpenDialog, signInVars, orderVars
    <3>3. CASE \E n \in Numbers : TypeNumber(n)
      BY <1>0, <3>3 DEF PhoneTypeOK, TypeNumber, signInVars, orderVars, PhoneInv,
                        PageHasItsFields, Number
    <3> QED
      BY <1>4, <3>1, <3>2, <3>3
  <2> QED
    BY <1>0, <1>3, <2>1, <2>2 DEF PhoneTypeOK
<1>5. CASE CloseDialog
  <2>1. /\ UNCHANGED <<phonePage, signedIn, step, numberShown, sent, overtaken, late, logging,
                       profilePhone>>
        /\ dialog' = FALSE /\ field' = NoNumber /\ firebase' = Fresh
    BY <1>5 DEF CloseDialog, signInVars, orderVars
  <2>2. firebase' \in Service /\ firebase'.confirmation = NoNumber /\ field' \in Number
    BY <1>0, <2>1, ServiceFacts DEF PhoneTypeOK, Number
  <2> QED
    BY <1>0, <1>3, <2>1, <2>2 DEF PhoneTypeOK
<1>6. CASE UNCHANGED phoneVars
  <2>1. /\ UNCHANGED <<phonePage, signedIn, firebase, step, sent, numberShown, logging>>
        /\ UNCHANGED <<dialog, field, profilePhone, overtaken, late>>
    BY <1>6 DEF phoneVars
  <2> QED
    BY <1>0, <1>3, <2>1 DEF PhoneTypeOK, PhoneInv, PageHasItsFields
<1> QED
  BY <1>1, <1>2, <1>4, <1>5, <1>6, StepSend, StepConfirm, StepAnswer, StepCodeSent
     DEF PhoneNext

-----------------------------------------------------------------------------
(* Signing in by e-mail: what CodeIsForEmailShown rests on is that a code  *)
(* is asked for the address on screen, and for no other one until the      *)
(* field is changed while the request is under way.                        *)
AskedForShown ==
    ~typedOver => \A c \in EmailCalls : emailCalls[c].op = "ask" => emailCalls[c].to = email

NothingAskedForNobody ==
    email = Unknown => ~CodeSentPage /\ \A c \in EmailCalls : FreeEmail(c)

EmailInv ==
    AccountTypeOK /\ CodeIsForEmailShown /\ AskedForShown /\ NothingAskedForNobody

LEMMA InitEmail == EmailInit /\ LinksInit => EmailInv
<1> SUFFICES ASSUME EmailInit, LinksInit PROVE EmailInv
  OBVIOUS
<1>1. AccountTypeOK
  BY DEF EmailInit, LinksInit, AccountTypeOK, MailPages, BankPages
<1>2. ~CodeSentPage /\ \A c \in EmailCalls : FreeEmail(c) /\ emailCalls[c].op # "ask"
  BY DEF EmailInit, CodeSentPage, FreeEmail, NoEmailCall
<1> QED
  BY <1>1, <1>2 DEF EmailInv, CodeIsForEmailShown, AskedForShown, NothingAskedForNobody

LEMMA AskCodeKeeps ==
    ASSUME EmailInv, NEW c \in EmailCalls, AskCode(c),
           UNCHANGED <<email, askedName, entered, typedOver, linkVars>>,
           codeFor' \in {codeFor, Unknown}
    PROVE  EmailInv'
<1> USE UnknownAssumption
    DEF EmailInv, AccountTypeOK, CodeIsForEmailShown, AskedForShown, CodeSentPage, linkVars,
           NothingAskedForNobody, FreeEmail
<1>1. CASE email = Unknown
  BY <1>1 DEF AskCode
<1>2. CASE email # Unknown
  <2>1. /\ emailLoading' = TRUE /\ emailError' = FALSE
        /\ emailCalls' = [emailCalls EXCEPT ![c] = [op |-> "ask", to |-> email]]
    BY <1>2 DEF AskCode
  <2>2. [op |-> "ask", to |-> email] \in [op : {"ask", "verify"}, to : Emails]
    BY <1>2
  <2> QED
    BY <2>1, <2>2
<1> QED
  BY <1>1, <1>2

LEMMA StepEmail == EmailInv /\ [EmailNext \/ LinksNext]_accountVars => EmailInv'
<1> SUFFICES ASSUME EmailInv, [EmailNext \/ LinksNext]_accountVars PROVE EmailInv'
  OBVIOUS
<1> USE UnknownAssumption
    DEF EmailInv, AccountTypeOK, CodeIsForEmailShown, AskedForShown, CodeSentPage, linkVars,
           NothingAskedForNobody, FreeEmail
<1>1. ASSUME NEW e \in Emails, TypeEmail(e) PROVE EmailInv'
  <2>1. typedOver' \in BOOLEAN
    BY <1>1, Zenon DEF TypeEmail
  <2>2. ~typedOver' => \A c \in EmailCalls : emailCalls[c].op # "ask"
    BY <1>1 DEF TypeEmail
  <2> QED
    BY <1>1, <2>1, <2>2 DEF TypeEmail
<1>2. CASE VerifyNothing
  BY <1>2 DEF VerifyNothing
<1>3. ASSUME NEW c \in EmailCalls, RequestOTP(c) \/ ResendOTP(c) PROVE EmailInv'
  BY <1>3, AskCodeKeeps DEF RequestOTP, ResendOTP
<1>4. ASSUME NEW c \in EmailCalls, OTPSent(c) PROVE EmailInv'
  <2>1. emailCalls[c].to \in Emails
    BY <1>4 DEF OTPSent, NoEmailCall
  <2>2. email # Unknown /\ (~typedOver => codeFor' = email) /\ codeFor' \in Emails
    BY <1>4, <2>1 DEF OTPSent, NoEmailCall
  <2>3. /\ UNCHANGED <<email, emailError, entered, typedOver, linkVars>>
        /\ emailLoading' = FALSE /\ askedName' \in BOOLEAN
        /\ emailCalls' = [emailCalls EXCEPT ![c] = NoEmailCall]
    BY <1>4 DEF OTPSent, EmailCallOver
  <2>4. AccountTypeOK'
    BY <2>2, <2>3
  <2>5. AskedForShown'
    BY <2>3 DEF NoEmailCall
  <2> QED
    BY <2>2, <2>3, <2>4, <2>5
<1>5. ASSUME NEW c \in EmailCalls, VerifyOTP(c) PROVE EmailInv'
  <2>1. email \in Emails
    BY <1>5 DEF VerifyOTP
  <2>2. [op |-> "verify", to |-> email] \in [op : {"ask", "verify"}, to : Emails]
    BY <2>1
  <2> QED
    BY <1>5, <2>2 DEF VerifyOTP
<1>6. ASSUME NEW c \in EmailCalls, OTPVerified(c) PROVE EmailInv'
  BY <1>6 DEF OTPVerified, EmailCallOver, NoEmailCall
<1>7. ASSUME NEW c \in EmailCalls, EmailCallFails(c) PROVE EmailInv'
  BY <1>7 DEF EmailCallFails, EmailCallOver, NoEmailCall
<1>8. CASE LinksNext
  BY <1>8 DEF LinksNext, FollowMailLink, MailLinkAnswered, ReturnFromBank, emailVars, MailPages,
              BankPages
<1>9. CASE UNCHANGED accountVars
  BY <1>9 DEF accountVars, emailVars
<1> QED
  BY <1>1, <1>2, <1>3, <1>4, <1>5, <1>6, <1>7, <1>8, <1>9 DEF EmailNext

-----------------------------------------------------------------------------
(* The session: who is signed in.                                          *)

(* A request that verified something has been verified on the server, for  *)
(* good, for the account it was sent for.                                  *)
GrantedIsVerified ==
    \A c \in Calls : call[c].op = "granted" =>
        /\ call[c].kind = "sign_in" => call[c].by \in Accounts
        /\ call[c].kind = "verify_email" =>
             call[c].by \in Accounts /\ account[call[c].by].email
        /\ call[c].kind = "verify_phone" =>
             call[c].by \in Accounts /\ account[call[c].by].phone

SentByAccount ==
    \A c \in Calls :
        call[c].op = "sent" /\ call[c].kind \in {"sign_in", "verify_email"} =>
            call[c].by \in Accounts

(* The inductive invariant.                                                *)
SessionInv ==
    /\ SessionTypeOK
    /\ RememberedTogether
    /\ PrivatePageHasToken
    /\ SentByAccount
    /\ GrantedIsVerified
    /\ AccountsStayApart

USE NobodyAssumption

LEMMA InitSessionInv == SessionInit => SessionInv
<1> SUFFICES ASSUME SessionInit PROVE SessionInv
  OBVIOUS
<1>1. call \in [Calls -> Call] /\ \A c \in Calls : call[c].op = "idle"
  BY DEF SessionInit, Call, Idle
<1>2. account \in [Accounts -> Verified]
  <2>1. [email |-> FALSE, phone |-> FALSE] \in Verified
    BY DEF Verified
  <2> QED BY <2>1 DEF SessionInit
<1>3. SessionTypeOK
  BY <1>1, <1>2 DEF SessionInit, SessionTypeOK, Route
<1>4. RememberedTogether /\ PrivatePageHasToken /\ AccountsStayApart
  BY DEF SessionInit, RememberedTogether, PrivatePageHasToken, AccountsStayApart, SignedIn,
         NoUser
<1> QED
  BY <1>1, <1>3, <1>4 DEF SessionInv, SentByAccount, GrantedIsVerified

-----------------------------------------------------------------------------
(* The type invariant.                                                     *)
LEMMA StepTypes == SessionInv /\ [SessionNext]_sessionVars => SessionTypeOK'
<1> SUFFICES ASSUME SessionInv, [SessionNext]_sessionVars PROVE SessionTypeOK'
  OBVIOUS
<1> USE DEF SessionInv, SessionTypeOK, Verified, Route
<1> DEFINE GoodCall == call' \in [Calls -> Call]
           GoodRest == /\ {access', refresh'} \subseteq Accounts \cup {Nobody}
                       /\ {stored', current'} \subseteq User \cup {NoUser}
                       /\ account' \in [Accounts -> Verified]
                       /\ route' \in Route /\ mixed' \in BOOLEAN
<1>q. GoodCall /\ GoodRest => SessionTypeOK'
  OBVIOUS
<1>i. Idle \in Call
  BY DEF Call
<1> HIDE DEF GoodCall, GoodRest
<1>1. ASSUME NEW r \in Route, Navigate(r) PROVE SessionTypeOK'
  BY <1>1, <1>q DEF Navigate, Guarded, GoodCall, GoodRest
<1>2. CASE OpenOwnProfile
  BY <1>2, <1>q DEF OpenOwnProfile, Guarded, GoodCall, GoodRest
<1>3. CASE Reload
  BY <1>3, <1>q, <1>i DEF Reload, Guarded, GoodCall, GoodRest
<1>4. CASE LogOut
  BY <1>4, <1>q DEF LogOut, Forget, GoodCall, GoodRest
<1>5. ASSUME NEW c \in Calls, NEW k \in Kind, NEW a \in Accounts \cup {Nobody},
             Send(c, k, a)
      PROVE SessionTypeOK'
  <2>1. [op |-> "sent", kind |-> k, by |-> a] \in Call
    BY DEF Call
  <2> QED BY <1>5, <1>q, <2>1 DEF Send, GoodCall, GoodRest
<1>6. ASSUME NEW c \in Calls, Grant(c) PROVE SessionTypeOK'
  <2>1. call[c] \in [op: {"sent", "granted"}, kind: Kind, by: Accounts \cup {Nobody}]
    BY <1>6 DEF Grant, Call, Idle
  <2>2. [call[c] EXCEPT !.op = "granted"] \in Call
    BY <2>1 DEF Call
  <2>3. GoodCall
    BY <1>6, <2>2 DEF Grant, GoodCall
  <2>4. GoodRest
    BY <1>6 DEF Grant, GoodRest
  <2> QED BY <1>q, <2>3, <2>4
<1>7. ASSUME NEW c \in Calls, AnswerApi(c) \/ Refuse(c) PROVE SessionTypeOK'
  BY <1>7, <1>q, <1>i DEF AnswerApi, Refuse, Answered, GoodCall, GoodRest
<1>8. ASSUME NEW c \in Calls, AnswerSignIn(c) PROVE SessionTypeOK'
  <2>1. call[c].by \in Accounts
    BY <1>8 DEF AnswerSignIn, GrantedIsVerified
  <2>2. GoodCall
    BY <1>8, <1>i DEF AnswerSignIn, Answered, GoodCall
  <2>3. GoodRest
    BY <1>8, <2>1 DEF AnswerSignIn, Remember, GoodRest, User
  <2> QED BY <1>q, <2>2, <2>3
<1>9. ASSUME NEW c \in Calls, AnswerVerify(c) PROVE SessionTypeOK'
  <2>2. GoodCall
    BY <1>9, <1>i DEF AnswerVerify, Answered, GoodCall
  <2>1. SignedIn => /\ [current EXCEPT !.email = TRUE] \in User
                    /\ [current EXCEPT !.phone = TRUE] \in User
    BY DEF SignedIn, User
  <2>3. GoodRest
    BY <1>9, <2>1 DEF AnswerVerify, GoodRest
  <2> QED BY <1>q, <2>2, <2>3
<1>10. ASSUME NEW c \in Calls, Unauthorized(c) PROVE SessionTypeOK'
  <2>1. [op |-> "refreshing", by |-> refresh] \in Call
    BY <1>10 DEF Call, Unauthorized
  <2> QED BY <1>10, <1>q, <2>1 DEF Unauthorized, GoodCall, GoodRest
<1>11. ASSUME NEW c \in Calls, Refreshed(c) PROVE SessionTypeOK'
  <2>1. call[c] \in [op: {"refreshing", "resent"}, by: Accounts]
    BY <1>11 DEF Refreshed, Call, Idle
  <2>2. [call[c] EXCEPT !.op = "resent"] \in Call
    BY <2>1 DEF Call
  <2> QED BY <1>11, <1>q, <2>1, <2>2 DEF Refreshed, GoodCall, GoodRest
<1>12. ASSUME NEW c \in Calls, RefreshRefused(c) \/ RetryRefused(c) PROVE SessionTypeOK'
  BY <1>12, <1>q, <1>i DEF RefreshRefused, RetryRefused, Forget, Answered, GoodCall, GoodRest
<1>13. CASE UNCHANGED sessionVars
  BY <1>13, <1>q DEF sessionVars, GoodCall, GoodRest
<1> QED
  BY <1>1, <1>2, <1>3, <1>4, <1>5, <1>6, <1>7, <1>8, <1>9, <1>10, <1>11, <1>12, <1>13
     DEF SessionNext

-----------------------------------------------------------------------------
(* What is remembered of a user, and what pages are on screen.             *)
LEMMA StepRemembered ==
    SessionInv /\ [SessionNext]_sessionVars => RememberedTogether' /\ PrivatePageHasToken'
<1> SUFFICES ASSUME SessionInv, [SessionNext]_sessionVars
             PROVE  RememberedTogether' /\ PrivatePageHasToken'
  OBVIOUS
<1> USE DEF SessionInv, SessionTypeOK, RememberedTogether, PrivatePageHasToken, SignedIn
<1>1. ASSUME NEW r \in Route, Navigate(r) PROVE RememberedTogether' /\ PrivatePageHasToken'
  BY <1>1 DEF Navigate, Guarded
<1>2. CASE OpenOwnProfile
  BY <1>2 DEF OpenOwnProfile, Guarded
<1>3. CASE Reload
  BY <1>3 DEF Reload, Guarded
<1>4. ASSUME Forget PROVE RememberedTogether' /\ PrivatePageHasToken'
  BY <1>4 DEF Forget, NoUser
<1>5. ASSUME NEW c \in Calls, AnswerSignIn(c)
      PROVE RememberedTogether' /\ PrivatePageHasToken'
  <2>1. call[c].by \in Accounts
    BY <1>5 DEF AnswerSignIn, GrantedIsVerified
  <2> QED BY <1>5, <2>1 DEF AnswerSignIn, Remember, NoUser
<1>6. ASSUME NEW c \in Calls, AnswerVerify(c)
      PROVE RememberedTogether' /\ PrivatePageHasToken'
  <2>1. CASE SignedIn
    <3>1. /\ [current EXCEPT !.email = TRUE].id = current.id
          /\ [current EXCEPT !.phone = TRUE].id = current.id
      BY <2>1 DEF User
    <3> QED BY <1>6, <2>1, <3>1 DEF AnswerVerify
  <2>2. CASE ~SignedIn
    BY <1>6, <2>2 DEF AnswerVerify
  <2> QED BY <2>1, <2>2
<1>7. ASSUME NEW c \in Calls, Refreshed(c)
      PROVE RememberedTogether' /\ PrivatePageHasToken'
  <2>1. call[c].by \in Accounts
    BY <1>7 DEF Refreshed, Call, Idle
  <2> QED BY <1>7, <2>1 DEF Refreshed
<1>8. ASSUME UNCHANGED <<access, refresh, stored, current, route>>
      PROVE RememberedTogether' /\ PrivatePageHasToken'
  BY <1>8
<1> QED
  BY <1>1, <1>2, <1>3, <1>4, <1>5, <1>6, <1>7, <1>8
     DEF SessionNext, LogOut, Send, Grant, AnswerApi, Refuse, Unauthorized, RefreshRefused,
         RetryRefused, sessionVars

(* What has been verified stays verified.                                  *)
LEMMA AccountsGrow ==
    SessionInv /\ [SessionNext]_sessionVars =>
        \A a \in Accounts : /\ account[a].email => account'[a].email
                            /\ account[a].phone => account'[a].phone
<1> SUFFICES ASSUME SessionInv, [SessionNext]_sessionVars, NEW a \in Accounts
             PROVE  /\ account[a].email => account'[a].email
                    /\ account[a].phone => account'[a].phone
  OBVIOUS
<1> USE DEF SessionInv, SessionTypeOK, Verified
<1>1. ASSUME NEW c \in Calls, Grant(c)
      PROVE  /\ account[a].email => account'[a].email
             /\ account[a].phone => account'[a].phone
  BY <1>1 DEF Grant
<1>2. CASE UNCHANGED account
  BY <1>2
<1> QED
  BY <1>1, <1>2
     DEF SessionNext, Navigate, OpenOwnProfile, Reload, LogOut, Send, AnswerApi, AnswerSignIn,
         AnswerVerify, Refuse, Unauthorized, Refreshed, RefreshRefused, RetryRefused, sessionVars

(* What requests carry.                                                    *)
LEMMA StepCalls ==
    SessionInv /\ [SessionNext]_sessionVars => SentByAccount' /\ GrantedIsVerified'
<1> SUFFICES ASSUME SessionInv, [SessionNext]_sessionVars, NEW d \in Calls
    PROVE  /\ call'[d].op = "sent" /\ call'[d].kind \in {"sign_in", "verify_email"} =>
                call'[d].by \in Accounts
           /\ call'[d].op = "granted" =>
                /\ call'[d].kind = "sign_in" => call'[d].by \in Accounts
                /\ call'[d].kind = "verify_email" =>
                     call'[d].by \in Accounts /\ account'[call'[d].by].email
                /\ call'[d].kind = "verify_phone" =>
                     call'[d].by \in Accounts /\ account'[call'[d].by].phone
  BY DEF SentByAccount, GrantedIsVerified
<1> DEFINE Goal ==
      /\ call'[d].op = "sent" /\ call'[d].kind \in {"sign_in", "verify_email"} =>
           call'[d].by \in Accounts
      /\ call'[d].op = "granted" =>
           /\ call'[d].kind = "sign_in" => call'[d].by \in Accounts
           /\ call'[d].kind = "verify_email" =>
                call'[d].by \in Accounts /\ account'[call'[d].by].email
           /\ call'[d].kind = "verify_phone" =>
                call'[d].by \in Accounts /\ account'[call'[d].by].phone
<1> USE DEF SessionInv, SessionTypeOK
<1>g. \A a \in Accounts : /\ account[a].email => account'[a].email
                          /\ account[a].phone => account'[a].phone
  BY AccountsGrow
<1>s. CASE call'[d] = call[d]
  <2>1. call[d].op = "granted" /\ call[d].kind = "verify_email" =>
          call[d].by \in Accounts /\ account'[call[d].by].email
    <3> SUFFICES ASSUME call[d].op = "granted", call[d].kind = "verify_email"
                 PROVE  call[d].by \in Accounts /\ account'[call[d].by].email
      OBVIOUS
    <3>1. PICK a \in Accounts : a = call[d].by
      BY DEF GrantedIsVerified
    <3>2. account[a].email
      BY <3>1 DEF GrantedIsVerified
    <3>3. account[a].email => account'[a].email
      BY <1>g
    <3> QED BY <3>1, <3>2, <3>3
  <2>2. call[d].op = "granted" /\ call[d].kind = "verify_phone" =>
          call[d].by \in Accounts /\ account'[call[d].by].phone
    <3> SUFFICES ASSUME call[d].op = "granted", call[d].kind = "verify_phone"
                 PROVE  call[d].by \in Accounts /\ account'[call[d].by].phone
      OBVIOUS
    <3>1. PICK a \in Accounts : a = call[d].by
      BY DEF GrantedIsVerified
    <3>2. account[a].phone
      BY <3>1 DEF GrantedIsVerified
    <3>3. account[a].phone => account'[a].phone
      BY <1>g
    <3> QED BY <3>1, <3>2, <3>3
  <2> QED BY <1>s, <2>1, <2>2 DEF SentByAccount, GrantedIsVerified
<1>o. CASE call'[d].op \notin {"sent", "granted"}
  BY <1>o
<1>1. ASSUME NEW c \in Calls, NEW k \in Kind, NEW a \in Accounts \cup {Nobody},
             Send(c, k, a), d = c
      PROVE Goal
  BY <1>1 DEF Send
<1>2. ASSUME NEW c \in Calls, Grant(c), d = c PROVE Goal
  <2>1. call[c] \in [op: {"sent", "granted"}, kind: Kind, by: Accounts \cup {Nobody}]
    BY <1>2 DEF Grant, Call, Idle
  <2>2. PICK k \in Kind, a \in Accounts \cup {Nobody} :
            call[c] = [op |-> "sent", kind |-> k, by |-> a]
    BY <1>2, <2>1 DEF Grant
  <2>3. call'[d] = [op |-> "granted", kind |-> k, by |-> a]
    BY <1>2, <2>2 DEF Grant
  <2>4. k # "api" => a \in Accounts
    BY <1>2, <2>2 DEF Grant, SentByAccount, Kind
  <2>5. k = "verify_email" => account'[a].email
    BY <1>2, <2>2, <2>4 DEF Grant, Verified
  <2>6. k = "verify_phone" => account'[a].phone
    BY <1>2, <2>2, <2>4 DEF Grant, Verified
  <2> QED BY <2>3, <2>4, <2>5, <2>6
<1>3. ASSUME NEW c \in Calls, Refreshed(c), d = c PROVE Goal
  <2>1. PICK a \in Accounts : call[c] = [op |-> "refreshing", by |-> a]
    BY <1>3 DEF Refreshed, Call, Idle
  <2> QED BY <1>3, <2>1 DEF Refreshed
<1>4. ASSUME NEW c \in Calls, c # d,
             call' = [call EXCEPT ![c] = call'[c]]
      PROVE  Goal
  BY <1>4, <1>s
<1>5. ASSUME NEW c \in Calls,
             \/ AnswerApi(c) \/ AnswerSignIn(c) \/ AnswerVerify(c) \/ Refuse(c)
             \/ RefreshRefused(c) \/ RetryRefused(c) \/ Unauthorized(c)
      PROVE  Goal
  <2>1. call' = [call EXCEPT ![c] = Idle]
        \/ call' = [call EXCEPT ![c] = [op |-> "refreshing", by |-> refresh]]
    BY <1>5 DEF AnswerApi, AnswerSignIn, AnswerVerify, Refuse, RefreshRefused, RetryRefused,
                Answered, Unauthorized
  <2> QED BY <2>1, <1>s, <1>o DEF Idle
<1>6. ASSUME NEW c \in Calls, NEW k \in Kind, NEW a \in Accounts \cup {Nobody},
             Send(c, k, a)
      PROVE Goal
  BY <1>6, <1>1, <1>s DEF Send
<1>7. ASSUME NEW c \in Calls, Grant(c) PROVE Goal
  BY <1>7, <1>2, <1>s DEF Grant
<1>8. ASSUME NEW c \in Calls, Refreshed(c) PROVE Goal
  BY <1>8, <1>3, <1>s DEF Refreshed
<1>9. CASE Reload
  BY <1>9, <1>o DEF Reload, Idle
<1>10. CASE UNCHANGED call
  BY <1>10, <1>s
<1> QED
  BY <1>5, <1>6, <1>7, <1>8, <1>9, <1>10
     DEF SessionNext, Navigate, OpenOwnProfile, LogOut, sessionVars

(* The account that requests are sent for is the account on screen.        *)
LEMMA StepApart == SessionInv /\ [SessionNext]_sessionVars => AccountsStayApart'
<1> SUFFICES ASSUME SessionInv, [SessionNext]_sessionVars, ~mixed', SignedIn'
    PROVE  /\ access' = current'.id
           /\ current'.email => account'[current'.id].email
           /\ current'.phone => account'[current'.id].phone
  BY DEF AccountsStayApart
<1> DEFINE Goal == /\ access' = current'.id
                   /\ current'.email => account'[current'.id].email
                   /\ current'.phone => account'[current'.id].phone
<1> USE DEF SessionInv, SessionTypeOK
<1>g. \A a \in Accounts : /\ account[a].email => account'[a].email
                          /\ account[a].phone => account'[a].phone
  BY AccountsGrow
<1>u. SignedIn => current \in User /\ current.id \in Accounts
  BY DEF SignedIn, User
<1>k. ASSUME SignedIn, ~mixed, current' = current PROVE Goal \/ access' # current.id
  <2>1. /\ current.email => account[current.id].email
        /\ current.phone => account[current.id].phone
    BY <1>k DEF AccountsStayApart
  <2>2. /\ account[current.id].email => account'[current.id].email
        /\ account[current.id].phone => account'[current.id].phone
    <3>1. current.id \in Accounts
      BY <1>k, <1>u
    <3> QED BY <3>1, <1>g
  <2>3. /\ current.email => account'[current.id].email
        /\ current.phone => account'[current.id].phone
    BY <2>1, <2>2
  <2>4. CASE access' = current.id
    BY <1>k, <2>3, <2>4
  <2> QED BY <2>4
<1>1. CASE current' = current /\ access' = access /\ ~mixed
  <2>1. SignedIn
    BY <1>1 DEF SignedIn
  <2>2. access = current.id
    BY <1>1, <2>1 DEF AccountsStayApart
  <2> QED BY <1>1, <1>k, <2>1, <2>2
<1>2. CASE Reload
  BY <1>2, <1>1 DEF Reload, RememberedTogether
<1>3. ASSUME NEW c \in Calls, AnswerSignIn(c) PROVE Goal
  BY <1>3 DEF AnswerSignIn, Remember, Verified
<1>4. ASSUME NEW c \in Calls, AnswerVerify(c) PROVE Goal
  <2>1. SignedIn
    BY <1>4 DEF AnswerVerify, SignedIn
  <2>2. ~mixed /\ current.id = call[c].by
    BY <1>4, <2>1 DEF AnswerVerify
  <2>3. /\ access = current.id
        /\ current.email => account[current.id].email
        /\ current.phone => account[current.id].phone
    BY <2>1, <2>2 DEF AccountsStayApart
  <2>4. account' = account /\ access' = access
    BY <1>4 DEF AnswerVerify
  <2>5. CASE call[c].kind = "verify_email"
    <3>1. current' = [current EXCEPT !.email = TRUE]
      BY <1>4, <2>1, <2>5 DEF AnswerVerify
    <3>2. current'.id = current.id /\ current'.phone = current.phone
      BY <3>1, <2>1, <1>u DEF User
    <3>3. account[current.id].email
      BY <1>4, <2>2, <2>5 DEF AnswerVerify, GrantedIsVerified
    <3> QED BY <2>3, <2>4, <3>2, <3>3
  <2>6. CASE call[c].kind = "verify_phone"
    <3>1. current' = [current EXCEPT !.phone = TRUE]
      BY <1>4, <2>1, <2>6 DEF AnswerVerify
    <3>2. current'.id = current.id /\ current'.email = current.email
      BY <3>1, <2>1, <1>u DEF User
    <3>3. account[current.id].phone
      BY <1>4, <2>2, <2>6 DEF AnswerVerify, GrantedIsVerified
    <3> QED BY <2>3, <2>4, <3>2, <3>3
  <2> QED BY <1>4, <2>5, <2>6 DEF AnswerVerify
<1>5. ASSUME NEW c \in Calls, Refreshed(c) PROVE Goal
  <2>1. SignedIn
    BY <1>5 DEF Refreshed, SignedIn
  <2>2. ~mixed /\ current' = current /\ access' = current.id
    BY <1>5, <2>1 DEF Refreshed
  <2> QED BY <2>1, <2>2, <1>k
<1>6. ASSUME Forget PROVE Goal
  BY <1>6 DEF Forget, SignedIn
<1> QED
  BY <1>1, <1>2, <1>3, <1>4, <1>5, <1>6
     DEF SessionNext, Navigate, OpenOwnProfile, LogOut, Send, Grant, AnswerApi, Refuse,
         Unauthorized, RefreshRefused, RetryRefused, sessionVars

-----------------------------------------------------------------------------
(* The inductive invariant of the session: types, what is remembered, and  *)
(* what the requests in flight were granted.                               *)
THEOREM SessionInvariance == SessionSpec => []SessionInv
<1>1. SessionInit => SessionInv
  BY InitSessionInv
<1>2. SessionInv /\ [SessionNext]_sessionVars => SessionInv'
  BY StepTypes, StepRemembered, StepCalls, StepApart DEF SessionInv
<1> QED
  BY <1>1, <1>2, PTL DEF SessionSpec

(* AuthService keeps the user on screen, the stored user and the refresh   *)
(* token together, and no user without an access token, through every      *)
(* order of answers, sign-outs and reloads.                                *)
THEOREM RememberedTogetherHolds == SessionSpec => []RememberedTogether
<1>1. SessionInv => RememberedTogether
  BY DEF SessionInv
<1> QED
  BY <1>1, SessionInvariance, PTL

(* No page behind authGuard outlives the access token.                     *)
THEOREM PrivatePageHasTokenHolds == SessionSpec => []PrivatePageHasToken
<1>1. SessionInv => PrivatePageHasToken
  BY DEF SessionInv
<1> QED
  BY <1>1, SessionInvariance, PTL

(* As long as no answer has outlived its session, requests carry the token *)
(* of the account on screen, and what is shown as verified is verified.    *)
THEOREM AccountsStayApartHolds == SessionSpec => []AccountsStayApart
<1>1. SessionInv => AccountsStayApart
  BY DEF SessionInv
<1> QED
  BY <1>1, SessionInvariance, PTL
-----------------------------------------------------------------------------
(* A behaviour of the web client is one of each of its parts.              *)
LEMMA WebPlays ==
    /\ WebInit => SessionInit /\ PhoneInit /\ RealtimeInit /\ EmailInit /\ LinksInit
    /\ [WebNext]_webVars =>
          /\ [SessionNext]_sessionVars /\ [PhoneNext]_phoneVars /\ [RealtimeNext]_realtimeVars
          /\ [EmailNext \/ LinksNext]_accountVars
<1>1. ASSUME NEW s \in Scenes, Play(s)
      PROVE  /\ [SessionNext]_sessionVars /\ [PhoneNext]_phoneVars
             /\ [RealtimeNext]_realtimeVars /\ [EmailNext \/ LinksNext]_accountVars
  BY <1>1 DEF Play
<1>2. ASSUME UNCHANGED webVars
      PROVE  /\ [SessionNext]_sessionVars /\ [PhoneNext]_phoneVars
             /\ [RealtimeNext]_realtimeVars /\ [EmailNext \/ LinksNext]_accountVars
  <2>1. /\ sessionVars' = sessionVars /\ phoneVars' = phoneVars
        /\ realtimeVars' = realtimeVars /\ accountVars' = accountVars
    BY <1>2, Zenon DEF webVars
  <2> QED
    BY <2>1
<1> QED
  BY <1>1, <1>2 DEF WebInit, WebNext

(* On the two pages that sign in by a code, the code asked for belongs to  *)
(* the number or the address on screen, whatever pages are left and codes  *)
(* sent again meanwhile; CodeIsForNumberShown and CodeIsForEmailShown say  *)
(* which late code and which request are excepted. The profile's dialog    *)
(* is not in it.                                                           *)
THEOREM CodeIsForWhatIsShownHolds == WebSpec => []CodeIsForWhatIsShown
<1>1. PhoneInv /\ EmailInv => CodeIsForWhatIsShown
  BY PhoneInvGives DEF EmailInv, CodeIsForWhatIsShown
<1> QED
  BY <1>1, WebPlays, InitPhone, StepPhone, InitEmail, StepEmail, PTL DEF WebSpec

(* Every field of the four modules keeps its type.                         *)
THEOREM WebTypesHold == WebSpec => []WebTypeOK
<1>1. SessionInv /\ PhoneInv /\ EmailInv /\ SocketInv /\ FrameInv /\ PageTypes => WebTypeOK
  BY RealtimeTypesHold DEF SessionInv, PhoneInv, EmailInv, WebTypeOK
<1>2. FrameInv => FrameTypes
  BY DEF FrameInv
<1>3. SessionInv /\ [SessionNext]_sessionVars => SessionInv'
  BY StepTypes, StepRemembered, StepCalls, StepApart DEF SessionInv
<1> QED
  BY <1>1, <1>2, <1>3, WebPlays, InitSessionInv, InitPhone, StepPhone, InitEmail, StepEmail,
     InitSocketInv, StepSocketInv, InitFrameInv, StepFrameInv, InitPageTypes, StepPageTypes,
     PTL DEF WebSpec
=============================================================================
