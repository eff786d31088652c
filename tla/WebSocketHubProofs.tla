--------------------------- MODULE WebSocketHubProofs ---------------------------
(***************************************************************************)
(* What holds of the hub for any number of connections, channels and       *)
(* messages and any size of its queues: the variables keep their types, no *)
(* message is sent on a closed Send channel, the channels hold no client   *)
(* that the hub has removed, and a client whose buffer was never full gets *)
(* every event of its channels in the order of the hub.                    *)
(***************************************************************************)
EXTENDS WebSocketHub, WellFoundedInduction, SequenceTheorems, TLAPS

HubType == [at: HubPlaces, client: Clients \cup {Nobody}, chans: SUBSET Channels,
            targets: SUBSET Clients, msg: Messages]
HandlerType == [at: Places, ch: Channels]

-----------------------------------------------------------------------------
(* Facts about the operators.                                              *)

\* The sizes and bounds are numbers; Reply is a message on the team's channel.
LEMMA Bounds ==
  /\ QueueSize \in Nat \ {0} /\ SendSize \in Nat \ {0} /\ MaxMessages \in Nat /\ MaxAsks \in Nat
  /\ Team \in Channels /\ Reply \in Messages /\ Published \subseteq Channels
BY SizeAssumption, BoundAssumption, ChannelAssumption DEF Reply, Messages

\* A handler that moves keeps its channel; the others stay where they are.
LEMMA GotoTyped ==
  ASSUME handler \in [Clients -> HandlerType], NEW c \in Clients, NEW place \in Places, Goto(c, place)
  PROVE  /\ handler' \in [Clients -> HandlerType]
         /\ handler'[c].at = place /\ handler'[c].ch = handler[c].ch
         /\ \A d \in Clients : d # c => handler'[d] = handler[d]
BY DEF Goto, HandlerType

\* Close closes one client, and nobody is in the middle of a send to it.
LEMMA CloseTyped ==
  ASSUME closing \in [Clients -> BOOLEAN], NEW c \in Clients, Close(c)
  PROVE  /\ closing' \in [Clients -> BOOLEAN] /\ closing'[c] /\ ~SendLocked(c)
         /\ \A d \in Clients : d # c => closing'[d] = closing[d]
BY DEF Close

\* After Subscribe the handler reads, or acknowledges a request.
LEMMA AfterSubscribeTyped ==
  ASSUME handler \in [Clients -> HandlerType], writer \in [Clients -> {"none", "running", "done"}],
         NEW c \in Clients, AfterSubscribe(c)
  PROVE  /\ handler' \in [Clients -> HandlerType]
         /\ handler'[c].at \in {"read", "ack"} /\ handler'[c].ch = handler[c].ch
         /\ \A d \in Clients : d # c => handler'[d] = handler[d]
         /\ writer' \in [Clients -> {"none", "running", "done"}]
BY GotoTyped DEF AfterSubscribe, Places

\* A message appended to a buffer that has room.
LEMMA AppendTyped ==
  ASSUME send \in [Clients -> Seq(Messages)], \A d \in Clients : Len(send[d]) <= SendSize,
         NEW c \in Clients, NEW m \in Messages, Len(send[c]) < SendSize,
         send' = [send EXCEPT ![c] = Append(@, m)]
  PROVE  send' \in [Clients -> Seq(Messages)] /\ \A d \in Clients : Len(send'[d]) <= SendSize
<1>1. Append(send[c], m) \in Seq(Messages) /\ Len(Append(send[c], m)) = Len(send[c]) + 1
  OBVIOUS
<1>2. Len(send[c]) \in Nat /\ SendSize \in Nat
  BY Bounds
<1>3. /\ send'[c] = Append(send[c], m)
      /\ \A d \in Clients : d # c => send'[d] = send[d]
  OBVIOUS
<1>4. \A d \in Clients : Len(send'[d]) <= SendSize
  BY <1>1, <1>2, <1>3
<1> QED
  BY <1>1, <1>4

\* One more, or one less, `go h.Unregister(client)' pending.
LEMMA LeavingTyped ==
  ASSUME leaving \in [Clients -> Nat], NEW c \in Clients,
         \/ leaving' = [leaving EXCEPT ![c] = @ + 1]
         \/ leaving[c] > 0 /\ leaving' = [leaving EXCEPT ![c] = @ - 1]
  PROVE  leaving' \in [Clients -> Nat]
<1>1. leaving[c] \in Nat
  OBVIOUS
<1>2. CASE leaving' = [leaving EXCEPT ![c] = @ + 1]
  BY <1>1, <1>2
<1>3. CASE leaving[c] > 0 /\ leaving' = [leaving EXCEPT ![c] = @ - 1]
  <2>1. leaving[c] - 1 \in Nat
    BY <1>1, <1>3
  <2> QED
    BY <1>3, <2>1
<1> QED
  BY <1>2, <1>3

\* Either somebody leaves ReadPump, or such a goroutine ends.
Leaves(c) ==
  \/ At(c, "unregister") /\ Goto(c, "close") /\ UNCHANGED leaving
  \/ leaving[c] > 0 /\ leaving' = [leaving EXCEPT ![c] = @ - 1] /\ UNCHANGED handler

(* Leaving keeps the types of what it changes.                             *)
LEMMA LeavesTyped ==
  ASSUME handler \in [Clients -> HandlerType], leaving \in [Clients -> Nat],
         NEW c \in Clients, Leaves(c)
  PROVE  /\ leaving' \in [Clients -> Nat] /\ handler' \in [Clients -> HandlerType]
         /\ handler'[c].ch = handler[c].ch
         /\ handler'[c].at = handler[c].at \/ (At(c, "unregister") /\ handler'[c].at = "close")
         /\ \A d \in Clients : d # c => handler'[d] = handler[d]
<1>1. CASE At(c, "unregister") /\ Goto(c, "close") /\ UNCHANGED leaving
  BY <1>1, GotoTyped DEF Places
<1>2. CASE leaving[c] > 0 /\ leaving' = [leaving EXCEPT ![c] = @ - 1] /\ UNCHANGED handler
  BY <1>2, LeavingTyped
<1> QED
  BY <1>1, <1>2 DEF Leaves

\* What the types of the variables of the invariant are.
LEMMA Typed ==
  ASSUME TypeOK
  PROVE  /\ hub \in HubType /\ handler \in [Clients -> HandlerType]
         /\ clients \subseteq Clients /\ channels \in [Channels -> SUBSET Clients]
         /\ own \in [Clients -> SUBSET Channels] /\ closing \in [Clients -> BOOLEAN]
         /\ writer \in [Clients -> {"none", "running", "done"}]
         /\ mu \in Clients \cup {Free}
BY DEF TypeOK, HubType, HandlerType

-----------------------------------------------------------------------------
(* The types.                                                              *)

\* The goroutines of a connection keep them.
LEMMA ClientTypes ==
  ASSUME TypeOK, NEW c \in Clients,
         \/ Connect(c) \/ HandlerStep(c) \/ WriterStep(c) \/ RegisterDone(c) \/ UnregisterDone(c)
         \/ PeerCloses(c) \/ \E ch \in Channels : Read(c, ch)
  PROVE  TypeOK'
<1>1. CASE SubscribeStart(c)
  BY <1>1, Typed, AfterSubscribeTyped, GotoTyped DEF SubscribeStart, Places, TypeOK, HandlerType,
     history, outside
<1>2. CASE AddChannel(c)
  BY <1>2, Typed, GotoTyped DEF AddChannel, Places, TypeOK, HandlerType, history, outside
<1>3. CASE SubscribeLock(c)
  <2>1. CASE closing[c]
    <3>1. own' \in [Clients -> SUBSET Channels]
      BY <1>3, <2>1, Typed DEF SubscribeLock
    <3>2. /\ handler' \in [Clients -> HandlerType]
          /\ writer' \in [Clients -> {"none", "running", "done"}] /\ UNCHANGED mu
      BY <1>3, <2>1, Typed, AfterSubscribeTyped DEF SubscribeLock
    <3> QED
      BY <1>3, <3>1, <3>2 DEF SubscribeLock, TypeOK, HandlerType, history, outside
  <2>2. CASE ~closing[c]
    BY <1>3, <2>2, Typed, GotoTyped DEF SubscribeLock, Places, TypeOK, HandlerType, history, outside
  <2> QED
    BY <2>1, <2>2
<1>4. CASE SubscribeList(c)
  BY <1>4, Typed, AfterSubscribeTyped DEF SubscribeList, TypeOK, HandlerType, history, outside
<1>5. CASE RemoveChannel(c)
  BY <1>5, Typed, GotoTyped DEF RemoveChannel, Places, TypeOK, HandlerType, history, outside
<1>6. CASE Unsubscribe(c)
  BY <1>6, Typed, GotoTyped DEF Unsubscribe, Places, TypeOK, HandlerType, history, outside
<1>7. CASE Connect(c)
  BY <1>7, Typed, GotoTyped DEF Connect, Places, TypeOK, HandlerType, history, outside
<1>8. CASE RegisterDone(c)
  BY <1>8, Typed, GotoTyped, CloseTyped DEF RegisterDone, Places, TypeOK, HandlerType, history, outside
<1>9. CASE ReplyChecks(c)
  BY <1>9, Typed, GotoTyped DEF ReplyChecks, Places, TypeOK, HandlerType, history, outside
<1>10. CASE ReplySends(c)
  <2>1. send' \in [Clients -> Seq(Messages)] /\ \A d \in Clients : Len(send'[d]) <= SendSize
    BY <1>10, AppendTyped, Bounds DEF ReplySends, TypeOK
  <2> QED
    BY <1>10, <2>1, Typed, GotoTyped DEF ReplySends, Places, TypeOK, HandlerType, history, outside
<1>11. CASE ReadFails(c)
  BY <1>11, Typed, GotoTyped DEF ReadFails, Places, TypeOK, HandlerType, history, outside
<1>12. CASE UnregisterDone(c)
  <2>1. leaving' \in [Clients -> Nat] /\ handler' \in [Clients -> HandlerType]
    BY <1>12, Typed, LeavesTyped DEF UnregisterDone, Leaves, TypeOK
  <2> QED
    BY <1>12, <2>1, Typed, CloseTyped DEF UnregisterDone, TypeOK, HandlerType, history, outside
<1>13. CASE HandlerCloses(c)
  BY <1>13, Typed, GotoTyped, CloseTyped DEF HandlerCloses, Places, TypeOK, HandlerType, history, outside
<1>14. CASE HandlerReturns(c)
  BY <1>14, Typed, GotoTyped DEF HandlerReturns, Places, TypeOK, HandlerType, history, outside
<1>15. CASE WriterSends(c)
  <2>1. /\ Head(send[c]) \in Messages /\ Tail(send[c]) \in Seq(Messages)
        /\ Len(Tail(send[c])) <= SendSize
    <3>1. send[c] \in Seq(Messages) /\ send[c] # <<>> /\ Len(send[c]) <= SendSize
      BY <1>15 DEF WriterSends, TypeOK
    <3>2. Len(Tail(send[c])) = Len(send[c]) - 1 /\ Len(send[c]) \in Nat
      BY <3>1
    <3> QED
      BY <3>1, <3>2, Bounds
  <2>2. send' \in [Clients -> Seq(Messages)] /\ \A d \in Clients : Len(send'[d]) <= SendSize
    BY <1>15, <2>1 DEF WriterSends, TypeOK
  <2>3. got' \in [Clients -> Seq(Messages)]
    BY <1>15, <2>1 DEF WriterSends, TypeOK
  <2> QED
    BY <1>15, <2>2, <2>3 DEF WriterSends, TypeOK, outside
<1>16. CASE WriterStops(c)
  BY <1>16 DEF WriterStops, TypeOK, history, outside
<1>17. CASE PeerCloses(c)
  BY <1>17 DEF PeerCloses, TypeOK, history, outside
<1>18. ASSUME NEW ch \in Channels, Read(c, ch)
       PROVE  TypeOK'
  <2>1. handler' \in [Clients -> HandlerType]
    BY <1>18, Typed DEF Read, HandlerType, Places
  <2>2. asked' \in 0..MaxAsks /\ again' \subseteq Clients
    BY <1>18, Bounds DEF Read, TypeOK
  <2> QED
    BY <1>18, <2>1, <2>2 DEF Read, TypeOK, HandlerType, outside
<1> QED
  BY <1>1, <1>2, <1>3, <1>4, <1>5, <1>6, <1>7, <1>8, <1>9, <1>10, <1>11, <1>12, <1>13, <1>14, <1>15,
     <1>16, <1>17, <1>18 DEF HandlerStep, WriterStep, WriterCloses, WriterNotices

\* So does the hub's loop.
LEMMA HubTypes ==
  ASSUME TypeOK, HubClient,
         HubStep \/ HubStops \/ \E c \in Clients : HubRegister(c) \/ HubUnregister(c)
  PROVE  TypeOK'
<1> USE Typed
<1>1. CASE HubAdd
  <2>1. hub' \in HubType /\ clients' \subseteq Clients
    BY <1>1 DEF HubAdd, HubClient, HubType, HubPlaces
  <2> QED
    BY <1>1, <2>1 DEF HubAdd, HubType, TypeOK, history, outside
<1>2. CASE HubCloses
  <2>1. hub' \in HubType /\ closing' \in [Clients -> BOOLEAN]
    BY <1>2, CloseTyped DEF HubCloses, HubClient, HubType, HubPlaces, HubGoto
  <2> QED
    BY <1>2, <2>1 DEF HubCloses, HubType, TypeOK, history, outside
<1>3. CASE GetChannels
  <2>1. hub' \in HubType
    BY <1>3 DEF GetChannels, HubClient, HubType, HubPlaces
  <2> QED
    BY <1>3, <2>1 DEF GetChannels, HubType, TypeOK, history, outside
<1>4. CASE removeClient
  <2>1. hub' \in HubType
    BY <1>4 DEF removeClient, HubType, HubPlaces
  <2>2. channels' \in [Channels -> SUBSET Clients] /\ clients' \subseteq Clients
    BY <1>4 DEF removeClient
  <2> QED
    BY <1>4, <2>1, <2>2 DEF removeClient, HubType, TypeOK, history, outside
<1>5. CASE HubReceives
  <2>1. /\ Head(queue) \in Messages /\ Tail(queue) \in Seq(Messages)
        /\ Len(Tail(queue)) <= QueueSize
    <3>1. queue \in Seq(Messages) /\ queue # <<>> /\ Len(queue) <= QueueSize
      BY <1>5 DEF HubReceives, TypeOK
    <3>2. Len(Tail(queue)) = Len(queue) - 1 /\ Len(queue) \in Nat
      BY <3>1
    <3> QED
      BY <3>1, <3>2, Bounds
  <2>2. hub' \in HubType
    BY <1>5, <2>1 DEF HubReceives, HubType, HubPlaces
  <2> QED
    BY <1>5, <2>1, <2>2 DEF HubReceives, HubType, TypeOK, history, outside
<1>6. CASE HubCopies
  <2>1. hub.msg \in Messages /\ channels[hub.msg.ch] \subseteq Clients
    BY DEF HubType, Messages
  <2>2. hub' \in HubType
    BY <1>6, <2>1 DEF HubCopies, HubType, HubPlaces
  <2>3. due' \in [Clients -> Seq(Messages)]
    BY <1>6, <2>1 DEF HubCopies, TypeOK
  <2> QED
    BY <1>6, <2>2, <2>3 DEF HubCopies, HubType, TypeOK, outside
<1>7. CASE HubSends
  <2>1. hub.client \in Clients /\ hub.msg \in Messages
    BY <1>7 DEF HubSends, HubClient, HubType
  <2>2. hub' \in HubType
    BY <1>7 DEF HubSends, HubType, HubPlaces
  <2>3. /\ send' \in [Clients -> Seq(Messages)] /\ \A d \in Clients : Len(send'[d]) <= SendSize
        /\ leaving' \in [Clients -> Nat] /\ missed' \subseteq Clients
    <3>1. CASE Len(send[hub.client]) < SendSize
      BY <1>7, <2>1, <3>1, AppendTyped DEF HubSends, Push, TypeOK
    <3>2. CASE ~(Len(send[hub.client]) < SendSize)
      BY <1>7, <2>1, <3>2, LeavingTyped DEF HubSends, Push, TypeOK
    <3> QED
      BY <3>1, <3>2
  <2> QED
    BY <1>7, <2>2, <2>3 DEF HubSends, HubType, TypeOK, outside
<1>8. CASE HubLoops
  <2>1. hub' \in HubType
    BY <1>8, Bounds DEF HubLoops, HubType, HubPlaces
  <2> QED
    BY <1>8, <2>1 DEF HubLoops, HubType, TypeOK, history, outside
<1>9. CASE HubStops
  <2>1. hub' \in HubType
    BY <1>9 DEF HubStops, HubGoto, HubType, HubPlaces
  <2> QED
    BY <1>9, <2>1 DEF HubStops, HubType, TypeOK, history, outside
<1>10. ASSUME NEW c \in Clients, HubChecks(c)
       PROVE  TypeOK'
  <2>1. hub' \in HubType /\ leaving' \in [Clients -> Nat]
    <3>1. CASE closing[c]
      <4>1. leaving' \in [Clients -> Nat]
        BY <1>10, <3>1, LeavingTyped DEF HubChecks, TypeOK
      <4>2. hub' = [hub EXCEPT !.targets = @ \ {c}]
        BY <1>10, <3>1 DEF HubChecks
      <4> QED
        BY <4>1, <4>2 DEF HubType
    <3>2. CASE ~closing[c]
      <4>1. hub' = [hub EXCEPT !.at = "push", !.client = c] /\ UNCHANGED leaving
        BY <1>10, <3>2 DEF HubChecks
      <4> QED
        BY <4>1 DEF HubType, HubPlaces, TypeOK
    <3> QED
      BY <3>1, <3>2
  <2> QED
    BY <1>10, <2>1 DEF HubChecks, HubType, TypeOK, history, outside
<1>11. ASSUME NEW c \in Clients, HubRegister(c)
       PROVE  TypeOK'
  <2>1. hub' \in HubType /\ handler' \in [Clients -> HandlerType]
    BY <1>11, GotoTyped DEF HubRegister, HubType, HubPlaces, Places
  <2> QED
    BY <1>11, <2>1 DEF HubRegister, HubType, HandlerType, TypeOK, history, outside
<1>12. ASSUME NEW c \in Clients, HubUnregister(c)
       PROVE  TypeOK'
  <2>1. handler' \in [Clients -> HandlerType] /\ leaving' \in [Clients -> Nat]
    BY <1>12, LeavesTyped DEF HubUnregister, Leaves, TypeOK
  <2>2. hub' \in HubType
    BY <1>12 DEF HubUnregister, HubType, HubPlaces
  <2> QED
    BY <1>12, <2>1, <2>2 DEF HubUnregister, HubType, HandlerType, TypeOK, history, outside
<1> QED
  BY <1>1, <1>2, <1>3, <1>4, <1>5, <1>6, <1>7, <1>8, <1>9, <1>10, <1>11, <1>12 DEF HubStep

\* And so do Shutdown and the subscriber.
LEMMA OutsideTypes ==
  ASSUME TypeOK,
         \/ ShutdownStarts \/ ShutdownStep
         \/ enqueueSerialized \/ \E ch \in Published : FeedReceives(ch)
  PROVE  TypeOK'
<1>1. CASE ShutdownStarts
  BY <1>1 DEF ShutdownStarts, TypeOK, history
<1>2. CASE ShutdownCopies
  BY <1>2 DEF ShutdownCopies, TypeOK, history
<1>3. ASSUME NEW c \in Clients, ShutdownCloses(c)
      PROVE  TypeOK'
  BY <1>3, Typed, CloseTyped DEF ShutdownCloses, TypeOK, history
<1>4. CASE enqueueSerialized
  <2>1. feed.msg \in Messages /\ Len(queue) \in Nat /\ QueueSize \in Nat /\ queue \in Seq(Messages)
    BY Bounds DEF TypeOK
  <2>2. queue' \in Seq(Messages) /\ Len(queue') <= QueueSize
    <3>1. CASE Len(queue) < QueueSize /\ queue' = Append(queue, feed.msg)
      BY <2>1, <3>1
    <3>2. CASE UNCHANGED queue
      BY <3>2 DEF TypeOK
    <3> QED
      BY <1>4, <3>1, <3>2 DEF enqueueSerialized
  <2> QED
    BY <1>4, <2>2, Bounds DEF enqueueSerialized, TypeOK, history
<1>5. ASSUME NEW ch \in Published, FeedReceives(ch)
      PROVE  TypeOK'
  <2>1. received' \in 0..MaxMessages /\ feed' \in [at: {"consume", "sending"}, msg: Messages]
    BY <1>5, Bounds DEF FeedReceives, TypeOK, Messages
  <2> QED
    BY <1>5, <2>1 DEF FeedReceives, TypeOK, history
<1> QED
  BY <1>1, <1>2, <1>3, <1>4, <1>5 DEF ShutdownStep

-----------------------------------------------------------------------------
(* Who is in a channel.                                                    *)

CoreInv == /\ HubClient /\ SendsOpen /\ OutsideIsUnknown /\ GoneIsClosing /\ RemovalCloses
           /\ LockIsHeld /\ OwnsAsked /\ NotYetListed /\ OwnsListed /\ CopyCovers /\ NoGhost

\* A connection that moves on without touching the maps, and whoever is closed
\* meanwhile, changes nothing.
LEMMA Moves ==
  ASSUME HubInv, NEW c \in Clients, handler' \in [Clients -> HandlerType],
         hub' = hub /\ clients' = clients /\ channels' = channels /\ mu' = mu /\ own' = own /\ again' = again,
         \A d \in Clients : d # c => handler'[d] = handler[d],
         handler'[c].ch = handler[c].ch,
         \/ handler'[c] = handler[c]
         \/ /\ ~At(c, "unlist") /\ handler'[c].at \notin {"lock", "locked"}
            /\ handler'[c].at \in {"subscribe", "add"} => At(c, "subscribe")
            /\ handler'[c].at = "acking" => ~closing[c]
            /\ handler'[c].at \in {"idle", "register"} <=> Outside(c),
         \A d \in Clients : /\ closing[d] => closing'[d]
                            /\ closing'[d] # closing[d] => ~SendLocked(d),
         handler'[c].at = "acking" => ~closing'[c]
  PROVE  CoreInv'
<1>t. /\ hub.client \in Clients \cup {Nobody} /\ clients \subseteq Clients
      /\ \A ch \in Channels : channels[ch] \subseteq Clients
      /\ \A d \in Clients : handler[d].ch \in Channels /\ own[d] \subseteq Channels
  BY Typed DEF HubInv, HubType, HandlerType
<1>i. CoreInv
  BY DEF HubInv, CoreInv
<1>1. HubClient'
  BY <1>t, <1>i DEF CoreInv, HubClient
<1>2. SendsOpen'
  BY <1>t, <1>i DEF CoreInv, SendsOpen, SendLocked, At
<1>3. OutsideIsUnknown'
  BY <1>t, <1>i DEF CoreInv, OutsideIsUnknown, Outside, Registering, At
<1>4. GoneIsClosing'
  BY <1>t, <1>i DEF CoreInv, GoneIsClosing, Outside, Registering, At
<1>5. RemovalCloses'
  BY <1>t, <1>i DEF CoreInv, RemovalCloses, HubClient
<1>6. LockIsHeld'
  BY <1>t, <1>i DEF CoreInv, LockIsHeld, Registering, At
<1>7. OwnsAsked'
  BY <1>t, <1>i DEF CoreInv, OwnsAsked, At
<1>8. NotYetListed'
  BY <1>t, <1>i DEF CoreInv, NotYetListed, Asking, Outside, At
<1>9. OwnsListed'
  BY <1>t, <1>i DEF CoreInv, OwnsListed, Leaving, At
<1>10. CopyCovers'
  BY <1>t, <1>i DEF CoreInv, CopyCovers, HubClient, Leaving, At
<1>11. NoGhost'
  BY <1>t, <1>i DEF CoreInv, NoGhost, Listed, Registering, Leaving, At
<1> QED
  BY <1>1, <1>2, <1>3, <1>4, <1>5, <1>6, <1>7, <1>8, <1>9, <1>10, <1>11 DEF HubInv, CoreInv

\* AddChannel comes before the second look and the map.
LEMMA AddChannelKeeps ==
  ASSUME HubInv, NEW c \in Clients, AddChannel(c)
  PROVE  CoreInv'
<1>t. /\ hub.client \in Clients \cup {Nobody} /\ clients \subseteq Clients
      /\ \A ch \in Channels : channels[ch] \subseteq Clients
      /\ \A d \in Clients : handler[d].ch \in Channels /\ own[d] \subseteq Channels
  BY Typed DEF HubInv, HubType, HandlerType
<1>i. CoreInv
  BY DEF HubInv, CoreInv
<1>1. /\ At(c, "add") /\ handler'[c].at = "lock" /\ handler'[c].ch = handler[c].ch
      /\ handler[c].ch \in Channels
      /\ \A d \in Clients : d # c => handler'[d] = handler[d] /\ own'[d] = own[d]
      /\ own'[c] = own[c] \cup {handler[c].ch}
      /\ hub' = hub /\ clients' = clients /\ channels' = channels /\ mu' = mu /\ closing' = closing /\ again' = again
  BY Typed, GotoTyped DEF HubInv, HubType, HandlerType, AddChannel, history, Places
<1>2. HubClient'
  BY <1>t, <1>i, <1>1 DEF CoreInv, HubClient
<1>3. SendsOpen'
  BY <1>t, <1>i, <1>1 DEF CoreInv, SendsOpen, SendLocked, At
<1>4. OutsideIsUnknown'
  BY <1>t, <1>i, <1>1 DEF CoreInv, OutsideIsUnknown, Outside, Registering, At
<1>5. GoneIsClosing'
  BY <1>t, <1>i, <1>1 DEF CoreInv, GoneIsClosing, Outside, Registering, At
<1>6. RemovalCloses'
  BY <1>t, <1>i, <1>1 DEF CoreInv, RemovalCloses, HubClient
<1>7. LockIsHeld'
  BY <1>t, <1>i, <1>1 DEF CoreInv, LockIsHeld, Registering, At
<1>8. OwnsAsked'
  BY <1>t, <1>i, <1>1 DEF CoreInv, OwnsAsked, At
<1>9. NotYetListed'
  BY <1>t, <1>i, <1>1 DEF CoreInv, NotYetListed, Asking, Outside, At
<1>10. OwnsListed'
  BY <1>t, <1>i, <1>1 DEF CoreInv, OwnsListed, Leaving, At
<1>11. CopyCovers'
  BY <1>t, <1>i, <1>1 DEF CoreInv, CopyCovers, HubClient, Leaving, At
<1>12. NoGhost'
  BY <1>t, <1>i, <1>1 DEF CoreInv, NoGhost, Listed, Registering, Leaving, At
<1> QED
  BY <1>2, <1>3, <1>4, <1>5, <1>6, <1>7, <1>8, <1>9, <1>10, <1>11, <1>12 DEF HubInv, CoreInv

\* The second look finds a client that the hub has not removed.
LEMMA SubscribeLockKeeps ==
  ASSUME HubInv, NEW c \in Clients, SubscribeLock(c)
  PROVE  CoreInv'
<1>t. /\ hub.client \in Clients \cup {Nobody} /\ clients \subseteq Clients
      /\ \A ch \in Channels : channels[ch] \subseteq Clients
      /\ \A d \in Clients : handler[d].ch \in Channels /\ own[d] \subseteq Channels
  BY Typed DEF HubInv, HubType, HandlerType
<1>i. CoreInv
  BY DEF HubInv, CoreInv
<1>1. /\ At(c, "lock") /\ mu = Free /\ handler'[c].ch = handler[c].ch
      /\ \A d \in Clients : d # c => handler'[d] = handler[d] /\ own'[d] = own[d]
      /\ \/ /\ closing[c] /\ handler'[c].at \in {"read", "ack"}
            /\ own'[c] = own[c] \ {handler[c].ch} /\ mu' = mu
         \/ ~closing[c] /\ handler'[c].at = "locked" /\ own'[c] = own[c] /\ mu' = c
      /\ hub' = hub /\ clients' = clients /\ channels' = channels /\ closing' = closing /\ again' = again
  BY Typed, GotoTyped, AfterSubscribeTyped DEF HubInv, HubType, HandlerType, SubscribeLock, history, Places
<1>2. \A d \in Clients : ~At(d, "locked")
  BY <1>t, <1>i, <1>1, FreeAssumption DEF CoreInv, LockIsHeld
<1>3. HubClient'
  BY <1>t, <1>i, <1>1, <1>2 DEF CoreInv, HubClient
<1>4. SendsOpen'
  BY <1>t, <1>i, <1>1, <1>2 DEF CoreInv, SendsOpen, SendLocked, At
<1>5. OutsideIsUnknown'
  BY <1>t, <1>i, <1>1, <1>2 DEF CoreInv, OutsideIsUnknown, Outside, Registering, At
<1>6. GoneIsClosing'
  BY <1>t, <1>i, <1>1, <1>2 DEF CoreInv, GoneIsClosing, Outside, Registering, At
<1>7. RemovalCloses'
  BY <1>t, <1>i, <1>1, <1>2 DEF CoreInv, RemovalCloses, HubClient
<1>8. LockIsHeld'
  BY <1>t, <1>i, <1>1, <1>2 DEF CoreInv, LockIsHeld, Registering, At, GoneIsClosing, Outside
<1>9. OwnsAsked'
  BY <1>t, <1>i, <1>1, <1>2 DEF CoreInv, OwnsAsked, At
<1>10. NotYetListed'
  BY <1>t, <1>i, <1>1, <1>2 DEF CoreInv, NotYetListed, Asking, Outside, At
<1>11. OwnsListed'
  BY <1>t, <1>i, <1>1, <1>2 DEF CoreInv, OwnsListed, Leaving, At, NotYetListed, Asking, Outside
<1>12. CopyCovers'
  BY <1>t, <1>i, <1>1, <1>2 DEF CoreInv, CopyCovers, HubClient, Leaving, At, RemovalCloses,
     NotYetListed, Asking, Outside, OwnsAsked
<1>13. NoGhost'
  BY <1>t, <1>i, <1>1, <1>2 DEF CoreInv, NoGhost, Listed, Registering, Leaving, At
<1> QED
  BY <1>3, <1>4, <1>5, <1>6, <1>7, <1>8, <1>9, <1>10, <1>11, <1>12, <1>13 DEF HubInv, CoreInv

\* Who enters the channel is still held by the hub, as h.mu was not released.
LEMMA SubscribeListKeeps ==
  ASSUME HubInv, NEW c \in Clients, SubscribeList(c)
  PROVE  CoreInv'
<1>t. /\ hub.client \in Clients \cup {Nobody} /\ clients \subseteq Clients
      /\ \A ch \in Channels : channels[ch] \subseteq Clients
      /\ \A d \in Clients : handler[d].ch \in Channels /\ own[d] \subseteq Channels
  BY Typed DEF HubInv, HubType, HandlerType
<1>i. CoreInv
  BY DEF HubInv, CoreInv
<1>1. /\ At(c, "locked") /\ mu = c /\ mu' = Free /\ handler'[c].ch = handler[c].ch /\ handler'[c].at \in {"read", "ack"}
      /\ \A d \in Clients : d # c => handler'[d] = handler[d]
      /\ handler[c].ch \in Channels
      /\ \A ch \in Channels : \A d \in Clients :
           d \in channels'[ch] <=> d \in channels[ch] \/ (d = c /\ ch = handler[c].ch)
      /\ \A ch \in Channels : channels'[ch] \subseteq Clients
      /\ hub' = hub /\ clients' = clients /\ own' = own /\ closing' = closing /\ again' = again
  BY Typed, AfterSubscribeTyped DEF HubInv, HubType, HandlerType, SubscribeList, history, LockIsHeld
<1>2. \A d \in Clients : At(d, "locked") => d = c
  BY <1>t, <1>i, <1>1 DEF CoreInv, LockIsHeld
<1>3. HubClient'
  BY <1>t, <1>i, <1>1, <1>2 DEF CoreInv, HubClient
<1>4. SendsOpen'
  BY <1>t, <1>i, <1>1, <1>2 DEF CoreInv, SendsOpen, SendLocked, At
<1>5. OutsideIsUnknown'
  BY <1>t, <1>i, <1>1, <1>2 DEF CoreInv, OutsideIsUnknown, Outside, Registering, At
<1>6. GoneIsClosing'
  BY <1>t, <1>i, <1>1, <1>2 DEF CoreInv, GoneIsClosing, Outside, Registering, At
<1>7. RemovalCloses'
  BY <1>t, <1>i, <1>1, <1>2 DEF CoreInv, RemovalCloses, HubClient
<1>8. LockIsHeld'
  BY <1>t, <1>i, <1>1, <1>2 DEF CoreInv, LockIsHeld, Registering, At
<1>9. OwnsAsked'
  BY <1>t, <1>i, <1>1, <1>2 DEF CoreInv, OwnsAsked, At
<1>10. NotYetListed'
  BY <1>t, <1>i, <1>1, <1>2 DEF CoreInv, NotYetListed, Asking, Outside, At
<1>11. OwnsListed'
  BY <1>t, <1>i, <1>1, <1>2 DEF CoreInv, OwnsListed, Leaving, At, OwnsAsked
<1>12. CopyCovers'
  BY <1>t, <1>i, <1>1, <1>2 DEF CoreInv, CopyCovers, HubClient, Leaving, At
<1>13. NoGhost'
  BY <1>t, <1>i, <1>1, <1>2 DEF CoreInv, NoGhost, Listed, Registering, Leaving, At, LockIsHeld
<1> QED
  BY <1>3, <1>4, <1>5, <1>6, <1>7, <1>8, <1>9, <1>10, <1>11, <1>12, <1>13 DEF HubInv, CoreInv

\* Unsubscribe has shortened the client's own list and will take it out of the
\* channel itself.
LEMMA RemoveChannelKeeps ==
  ASSUME HubInv, NEW c \in Clients, RemoveChannel(c)
  PROVE  CoreInv'
<1>t. /\ hub.client \in Clients \cup {Nobody} /\ clients \subseteq Clients
      /\ \A ch \in Channels : channels[ch] \subseteq Clients
      /\ \A d \in Clients : handler[d].ch \in Channels /\ own[d] \subseteq Channels
  BY Typed DEF HubInv, HubType, HandlerType
<1>i. CoreInv
  BY DEF HubInv, CoreInv
<1>1. /\ At(c, "unsubscribe") /\ handler'[c].ch = handler[c].ch /\ handler'[c].at = "unlist"
      /\ \A d \in Clients : d # c => handler'[d] = handler[d] /\ own'[d] = own[d]
      /\ own'[c] = own[c] \ {handler[c].ch}
      /\ hub' = hub /\ clients' = clients /\ channels' = channels /\ mu' = mu /\ closing' = closing /\ again' = again
  BY Typed, GotoTyped DEF HubInv, HubType, HandlerType, RemoveChannel, history, Places
<1>2. HubClient'
  BY <1>t, <1>i, <1>1 DEF CoreInv, HubClient
<1>3. SendsOpen'
  BY <1>t, <1>i, <1>1 DEF CoreInv, SendsOpen, SendLocked, At
<1>4. OutsideIsUnknown'
  BY <1>t, <1>i, <1>1 DEF CoreInv, OutsideIsUnknown, Outside, Registering, At
<1>5. GoneIsClosing'
  BY <1>t, <1>i, <1>1 DEF CoreInv, GoneIsClosing, Outside, Registering, At
<1>6. RemovalCloses'
  BY <1>t, <1>i, <1>1 DEF CoreInv, RemovalCloses, HubClient
<1>7. LockIsHeld'
  BY <1>t, <1>i, <1>1 DEF CoreInv, LockIsHeld, Registering, At
<1>8. OwnsAsked'
  BY <1>t, <1>i, <1>1 DEF CoreInv, OwnsAsked, At
<1>9. NotYetListed'
  BY <1>t, <1>i, <1>1 DEF CoreInv, NotYetListed, Asking, Outside, At
<1>10. OwnsListed'
  BY <1>t, <1>i, <1>1 DEF CoreInv, OwnsListed, Leaving, At
<1>11. CopyCovers'
  BY <1>t, <1>i, <1>1 DEF CoreInv, CopyCovers, HubClient, Leaving, At
<1>12. NoGhost'
  BY <1>t, <1>i, <1>1 DEF CoreInv, NoGhost, Listed, Registering, Leaving, At
<1> QED
  BY <1>2, <1>3, <1>4, <1>5, <1>6, <1>7, <1>8, <1>9, <1>10, <1>11, <1>12 DEF HubInv, CoreInv

\* Unsubscribe takes the client out of the channel.
LEMMA UnsubscribeKeeps ==
  ASSUME HubInv, NEW c \in Clients, Unsubscribe(c)
  PROVE  CoreInv'
<1>t. /\ hub.client \in Clients \cup {Nobody} /\ clients \subseteq Clients
      /\ \A ch \in Channels : channels[ch] \subseteq Clients
      /\ \A d \in Clients : handler[d].ch \in Channels /\ own[d] \subseteq Channels
  BY Typed DEF HubInv, HubType, HandlerType
<1>i. CoreInv
  BY DEF HubInv, CoreInv
<1>1. /\ At(c, "unlist") /\ handler'[c].ch = handler[c].ch /\ handler'[c].at = "read"
      /\ \A d \in Clients : d # c => handler'[d] = handler[d]
      /\ \A ch \in Channels : \A d \in Clients :
           d \in channels'[ch] <=> d \in channels[ch] /\ ~(d = c /\ ch = handler[c].ch)
      /\ \A ch \in Channels : channels'[ch] \subseteq Clients
      /\ hub' = hub /\ clients' = clients /\ mu' = mu /\ own' = own /\ closing' = closing /\ again' = again
  BY Typed, GotoTyped DEF HubInv, HubType, HandlerType, Unsubscribe, history, Places
<1>2. HubClient'
  BY <1>t, <1>i, <1>1 DEF CoreInv, HubClient
<1>3. SendsOpen'
  BY <1>t, <1>i, <1>1 DEF CoreInv, SendsOpen, SendLocked, At
<1>4. OutsideIsUnknown'
  BY <1>t, <1>i, <1>1 DEF CoreInv, OutsideIsUnknown, Outside, Registering, At
<1>5. GoneIsClosing'
  BY <1>t, <1>i, <1>1 DEF CoreInv, GoneIsClosing, Outside, Registering, At
<1>6. RemovalCloses'
  BY <1>t, <1>i, <1>1 DEF CoreInv, RemovalCloses, HubClient
<1>7. LockIsHeld'
  BY <1>t, <1>i, <1>1 DEF CoreInv, LockIsHeld, Registering, At
<1>8. OwnsAsked'
  BY <1>t, <1>i, <1>1 DEF CoreInv, OwnsAsked, At
<1>9. NotYetListed'
  BY <1>t, <1>i, <1>1 DEF CoreInv, NotYetListed, Asking, Outside, At
<1>10. OwnsListed'
  BY <1>t, <1>i, <1>1 DEF CoreInv, OwnsListed, Leaving, At
<1>11. CopyCovers'
  BY <1>t, <1>i, <1>1 DEF CoreInv, CopyCovers, HubClient, Leaving, At
<1>12. NoGhost'
  BY <1>t, <1>i, <1>1 DEF CoreInv, NoGhost, Listed, Registering, Leaving, At
<1> QED
  BY <1>2, <1>3, <1>4, <1>5, <1>6, <1>7, <1>8, <1>9, <1>10, <1>11, <1>12 DEF HubInv, CoreInv

\* A request for a channel that the client does not have finds it outside it.
LEMMA ReadKeeps ==
  ASSUME HubInv, NEW c \in Clients, NEW ch \in Channels, Read(c, ch)
  PROVE  CoreInv'
<1>t. /\ hub.client \in Clients \cup {Nobody} /\ clients \subseteq Clients
      /\ \A k \in Channels : channels[k] \subseteq Clients
      /\ \A d \in Clients : handler[d].ch \in Channels /\ own[d] \subseteq Channels
  BY Typed DEF HubInv, HubType, HandlerType
<1>i. CoreInv
  BY DEF HubInv, CoreInv
<1>1. /\ At(c, "read") /\ handler'[c].ch = ch /\ handler'[c].at \in {"subscribe", "ack", "unsubscribe"}
      /\ \A d \in Clients : d # c => handler'[d] = handler[d]
      /\ again \subseteq again' /\ (handler'[c].at = "subscribe" /\ ch \in own[c] => c \in again')
      /\ hub' = hub /\ clients' = clients /\ channels' = channels /\ mu' = mu /\ own' = own /\ closing' = closing
  BY Typed DEF HubInv, HubType, HandlerType, Read
<1>2. HubClient'
  BY <1>t, <1>i, <1>1 DEF CoreInv, HubClient
<1>3. SendsOpen'
  BY <1>t, <1>i, <1>1 DEF CoreInv, SendsOpen, SendLocked, At
<1>4. OutsideIsUnknown'
  BY <1>t, <1>i, <1>1 DEF CoreInv, OutsideIsUnknown, Outside, Registering, At
<1>5. GoneIsClosing'
  BY <1>t, <1>i, <1>1 DEF CoreInv, GoneIsClosing, Outside, Registering, At
<1>6. RemovalCloses'
  BY <1>t, <1>i, <1>1 DEF CoreInv, RemovalCloses, HubClient
<1>7. LockIsHeld'
  BY <1>t, <1>i, <1>1 DEF CoreInv, LockIsHeld, Registering, At
<1>8. OwnsAsked'
  BY <1>t, <1>i, <1>1 DEF CoreInv, OwnsAsked, At
<1>9. NotYetListed'
  BY <1>t, <1>i, <1>1 DEF CoreInv, NotYetListed, Asking, Outside, At, OwnsListed, Leaving
<1>10. OwnsListed'
  BY <1>t, <1>i, <1>1 DEF CoreInv, OwnsListed, Leaving, At
<1>11. CopyCovers'
  BY <1>t, <1>i, <1>1 DEF CoreInv, CopyCovers, HubClient, Leaving, At
<1>12. NoGhost'
  BY <1>t, <1>i, <1>1 DEF CoreInv, NoGhost, Listed, Registering, Leaving, At
<1> QED
  BY <1>2, <1>3, <1>4, <1>5, <1>6, <1>7, <1>8, <1>9, <1>10, <1>11, <1>12 DEF HubInv, CoreInv

\* A connection that comes after Shutdown is closed and enters no map.
LEMMA RegisterDoneKeeps ==
  ASSUME HubInv, NEW c \in Clients, RegisterDone(c)
  PROVE  CoreInv'
<1>t. /\ hub.client \in Clients \cup {Nobody} /\ clients \subseteq Clients
      /\ \A ch \in Channels : channels[ch] \subseteq Clients
      /\ \A d \in Clients : handler[d].ch \in Channels /\ own[d] \subseteq Channels
  BY Typed DEF HubInv, HubType, HandlerType
<1>i. CoreInv
  BY DEF HubInv, CoreInv
<1>1. /\ At(c, "register") /\ handler'[c].ch = handler[c].ch /\ handler'[c].at = "subscribe"
      /\ \A d \in Clients : d # c => handler'[d] = handler[d] /\ closing'[d] = closing[d]
      /\ closing'[c] /\ ~SendLocked(c)
      /\ hub' = hub /\ clients' = clients /\ channels' = channels /\ mu' = mu /\ own' = own /\ again' = again
  BY Typed, GotoTyped, CloseTyped DEF HubInv, HubType, HandlerType, RegisterDone, history, Places
<1>2. HubClient'
  BY <1>t, <1>i, <1>1 DEF CoreInv, HubClient
<1>3. SendsOpen'
  BY <1>t, <1>i, <1>1 DEF CoreInv, SendsOpen, SendLocked, At
<1>4. OutsideIsUnknown'
  BY <1>t, <1>i, <1>1 DEF CoreInv, OutsideIsUnknown, Outside, Registering, At
<1>5. GoneIsClosing'
  BY <1>t, <1>i, <1>1 DEF CoreInv, GoneIsClosing, Outside, Registering, At
<1>6. RemovalCloses'
  BY <1>t, <1>i, <1>1 DEF CoreInv, RemovalCloses, HubClient
<1>7. LockIsHeld'
  BY <1>t, <1>i, <1>1 DEF CoreInv, LockIsHeld, Registering, At
<1>8. OwnsAsked'
  BY <1>t, <1>i, <1>1 DEF CoreInv, OwnsAsked, At
<1>9. NotYetListed'
  BY <1>t, <1>i, <1>1 DEF CoreInv, NotYetListed, Asking, Outside, At, OutsideIsUnknown, Registering
<1>10. OwnsListed'
  BY <1>t, <1>i, <1>1 DEF CoreInv, OwnsListed, Leaving, At
<1>11. CopyCovers'
  BY <1>t, <1>i, <1>1 DEF CoreInv, CopyCovers, HubClient, Leaving, At
<1>12. NoGhost'
  BY <1>t, <1>i, <1>1 DEF CoreInv, NoGhost, Listed, Registering, Leaving, At
<1> QED
  BY <1>2, <1>3, <1>4, <1>5, <1>6, <1>7, <1>8, <1>9, <1>10, <1>11, <1>12 DEF HubInv, CoreInv

\* The hub has the client in hand before its handler subscribes.
LEMMA HubRegisterKeeps ==
  ASSUME HubInv, NEW c \in Clients, HubRegister(c)
  PROVE  CoreInv'
<1>t. /\ hub.client \in Clients \cup {Nobody} /\ clients \subseteq Clients
      /\ \A ch \in Channels : channels[ch] \subseteq Clients
      /\ \A d \in Clients : handler[d].ch \in Channels /\ own[d] \subseteq Channels
  BY Typed DEF HubInv, HubType, HandlerType
<1>i. CoreInv
  BY DEF HubInv, CoreInv
<1>1. /\ At(c, "register") /\ handler'[c].ch = handler[c].ch /\ handler'[c].at = "subscribe"
      /\ \A d \in Clients : d # c => handler'[d] = handler[d]
      /\ hub.at = "select" /\ hub'.at = "add" /\ hub'.client = c
      /\ clients' = clients /\ channels' = channels /\ mu' = mu /\ own' = own /\ closing' = closing /\ again' = again
  BY Typed, GotoTyped DEF HubInv, HubType, HandlerType, HubRegister, history, Places
<1>2. HubClient'
  BY <1>t, <1>i, <1>1 DEF CoreInv, HubClient
<1>3. SendsOpen'
  BY <1>t, <1>i, <1>1 DEF CoreInv, SendsOpen, SendLocked, At
<1>4. OutsideIsUnknown'
  BY <1>t, <1>i, <1>1 DEF CoreInv, OutsideIsUnknown, Outside, Registering, At
<1>5. GoneIsClosing'
  BY <1>t, <1>i, <1>1 DEF CoreInv, GoneIsClosing, Outside, Registering, At
<1>6. RemovalCloses'
  BY <1>t, <1>i, <1>1 DEF CoreInv, RemovalCloses, HubClient
<1>7. LockIsHeld'
  BY <1>t, <1>i, <1>1 DEF CoreInv, LockIsHeld, Registering, At
<1>8. OwnsAsked'
  BY <1>t, <1>i, <1>1 DEF CoreInv, OwnsAsked, At
<1>9. NotYetListed'
  BY <1>t, <1>i, <1>1 DEF CoreInv, NotYetListed, Asking, Outside, At, OutsideIsUnknown, Registering
<1>10. OwnsListed'
  BY <1>t, <1>i, <1>1 DEF CoreInv, OwnsListed, Leaving, At
<1>11. CopyCovers'
  BY <1>t, <1>i, <1>1 DEF CoreInv, CopyCovers, HubClient, Leaving, At
<1>12. NoGhost'
  BY <1>t, <1>i, <1>1 DEF CoreInv, NoGhost, Listed, Registering, Leaving, At
<1> QED
  BY <1>2, <1>3, <1>4, <1>5, <1>6, <1>7, <1>8, <1>9, <1>10, <1>11, <1>12 DEF HubInv, CoreInv

\* The hub adds the client.
LEMMA HubAddKeeps ==
  ASSUME HubInv, HubAdd
  PROVE  CoreInv'
<1>t. /\ hub.client \in Clients \cup {Nobody} /\ clients \subseteq Clients
      /\ \A ch \in Channels : channels[ch] \subseteq Clients
      /\ \A d \in Clients : handler[d].ch \in Channels /\ own[d] \subseteq Channels
  BY Typed DEF HubInv, HubType, HandlerType
<1>i. CoreInv
  BY DEF HubInv, CoreInv
<1>1. /\ hub.at = "add" /\ hub.client \in Clients /\ hub'.at = "select"
      /\ clients' = clients \cup {hub.client}
      /\ channels' = channels /\ mu' = mu /\ handler' = handler /\ own' = own /\ closing' = closing /\ again' = again
  BY Typed DEF HubInv, HubType, HandlerType, HubAdd, history, HubClient
<1>2. HubClient'
  BY <1>t, <1>i, <1>1 DEF CoreInv, HubClient
<1>3. SendsOpen'
  BY <1>t, <1>i, <1>1 DEF CoreInv, SendsOpen, SendLocked, At
<1>4. OutsideIsUnknown'
  BY <1>t, <1>i, <1>1 DEF CoreInv, OutsideIsUnknown, Outside, Registering, At
<1>5. GoneIsClosing'
  BY <1>t, <1>i, <1>1 DEF CoreInv, GoneIsClosing, Outside, Registering, At
<1>6. RemovalCloses'
  BY <1>t, <1>i, <1>1 DEF CoreInv, RemovalCloses, HubClient
<1>7. LockIsHeld'
  BY <1>t, <1>i, <1>1 DEF CoreInv, LockIsHeld, Registering, At
<1>8. OwnsAsked'
  BY <1>t, <1>i, <1>1 DEF CoreInv, OwnsAsked, At
<1>9. NotYetListed'
  BY <1>t, <1>i, <1>1 DEF CoreInv, NotYetListed, Asking, Outside, At
<1>10. OwnsListed'
  BY <1>t, <1>i, <1>1 DEF CoreInv, OwnsListed, Leaving, At
<1>11. CopyCovers'
  BY <1>t, <1>i, <1>1 DEF CoreInv, CopyCovers, HubClient, Leaving, At
<1>12. NoGhost'
  BY <1>t, <1>i, <1>1 DEF CoreInv, NoGhost, Listed, Registering, Leaving, At
<1> QED
  BY <1>2, <1>3, <1>4, <1>5, <1>6, <1>7, <1>8, <1>9, <1>10, <1>11, <1>12 DEF HubInv, CoreInv

\* The hub takes up a client that leaves.
LEMMA HubUnregisterKeeps ==
  ASSUME HubInv, NEW c \in Clients, HubUnregister(c)
  PROVE  CoreInv'
<1>t. /\ hub.client \in Clients \cup {Nobody} /\ clients \subseteq Clients
      /\ \A ch \in Channels : channels[ch] \subseteq Clients
      /\ \A d \in Clients : handler[d].ch \in Channels /\ own[d] \subseteq Channels
  BY Typed DEF HubInv, HubType, HandlerType
<1>i. CoreInv
  BY DEF HubInv, CoreInv
<1>1. /\ handler'[c].ch = handler[c].ch
      /\ handler'[c].at = handler[c].at \/ (At(c, "unregister") /\ handler'[c].at = "close")
      /\ \A d \in Clients : d # c => handler'[d] = handler[d]
      /\ hub.at = "select" /\ hub'.at = "close" /\ hub'.client = c
      /\ clients' = clients /\ channels' = channels /\ mu' = mu /\ own' = own /\ closing' = closing /\ again' = again
  BY Typed, LeavesTyped DEF HubInv, HubType, HandlerType, HubUnregister, Leaves, history, TypeOK
<1>2. HubClient'
  BY <1>t, <1>i, <1>1 DEF CoreInv, HubClient
<1>3. SendsOpen'
  BY <1>t, <1>i, <1>1 DEF CoreInv, SendsOpen, SendLocked, At
<1>4. OutsideIsUnknown'
  BY <1>t, <1>i, <1>1 DEF CoreInv, OutsideIsUnknown, Outside, Registering, At
<1>5. GoneIsClosing'
  BY <1>t, <1>i, <1>1 DEF CoreInv, GoneIsClosing, Outside, Registering, At
<1>6. RemovalCloses'
  BY <1>t, <1>i, <1>1 DEF CoreInv, RemovalCloses, HubClient
<1>7. LockIsHeld'
  BY <1>t, <1>i, <1>1 DEF CoreInv, LockIsHeld, Registering, At
<1>8. OwnsAsked'
  BY <1>t, <1>i, <1>1 DEF CoreInv, OwnsAsked, At
<1>9. NotYetListed'
  BY <1>t, <1>i, <1>1 DEF CoreInv, NotYetListed, Asking, Outside, At
<1>10. OwnsListed'
  BY <1>t, <1>i, <1>1 DEF CoreInv, OwnsListed, Leaving, At
<1>11. CopyCovers'
  BY <1>t, <1>i, <1>1 DEF CoreInv, CopyCovers, HubClient, Leaving, At
<1>12. NoGhost'
  BY <1>t, <1>i, <1>1 DEF CoreInv, NoGhost, Listed, Registering, Leaving, At
<1> QED
  BY <1>2, <1>3, <1>4, <1>5, <1>6, <1>7, <1>8, <1>9, <1>10, <1>11, <1>12 DEF HubInv, CoreInv

\* The hub closes it.
LEMMA HubClosesKeeps ==
  ASSUME HubInv, HubCloses
  PROVE  CoreInv'
<1>t. /\ hub.client \in Clients \cup {Nobody} /\ clients \subseteq Clients
      /\ \A ch \in Channels : channels[ch] \subseteq Clients
      /\ \A d \in Clients : handler[d].ch \in Channels /\ own[d] \subseteq Channels
  BY Typed DEF HubInv, HubType, HandlerType
<1>i. CoreInv
  BY DEF HubInv, CoreInv
<1>1. /\ hub.at = "close" /\ hub.client \in Clients /\ hub'.at = "snapshot" /\ hub'.client = hub.client
      /\ \A d \in Clients : d # hub.client => closing'[d] = closing[d]
      /\ closing'[hub.client] /\ ~SendLocked(hub.client)
      /\ clients' = clients /\ channels' = channels /\ mu' = mu /\ handler' = handler /\ own' = own /\ again' = again
  BY Typed, CloseTyped DEF HubInv, HubType, HandlerType, HubCloses, HubGoto, history, HubClient
<1>2. HubClient'
  BY <1>t, <1>i, <1>1 DEF CoreInv, HubClient
<1>3. SendsOpen'
  BY <1>t, <1>i, <1>1 DEF CoreInv, SendsOpen, SendLocked, At
<1>4. OutsideIsUnknown'
  BY <1>t, <1>i, <1>1 DEF CoreInv, OutsideIsUnknown, Outside, Registering, At
<1>5. GoneIsClosing'
  BY <1>t, <1>i, <1>1 DEF CoreInv, GoneIsClosing, Outside, Registering, At
<1>6. RemovalCloses'
  BY <1>t, <1>i, <1>1 DEF CoreInv, RemovalCloses, HubClient
<1>7. LockIsHeld'
  BY <1>t, <1>i, <1>1 DEF CoreInv, LockIsHeld, Registering, At
<1>8. OwnsAsked'
  BY <1>t, <1>i, <1>1 DEF CoreInv, OwnsAsked, At
<1>9. NotYetListed'
  BY <1>t, <1>i, <1>1 DEF CoreInv, NotYetListed, Asking, Outside, At
<1>10. OwnsListed'
  BY <1>t, <1>i, <1>1 DEF CoreInv, OwnsListed, Leaving, At
<1>11. CopyCovers'
  BY <1>t, <1>i, <1>1 DEF CoreInv, CopyCovers, HubClient, Leaving, At
<1>12. NoGhost'
  BY <1>t, <1>i, <1>1 DEF CoreInv, NoGhost, Listed, Registering, Leaving, At
<1> QED
  BY <1>2, <1>3, <1>4, <1>5, <1>6, <1>7, <1>8, <1>9, <1>10, <1>11, <1>12 DEF HubInv, CoreInv

\* The hub copies its channels.
LEMMA GetChannelsKeeps ==
  ASSUME HubInv, GetChannels
  PROVE  CoreInv'
<1>t. /\ hub.client \in Clients \cup {Nobody} /\ clients \subseteq Clients
      /\ \A ch \in Channels : channels[ch] \subseteq Clients
      /\ \A d \in Clients : handler[d].ch \in Channels /\ own[d] \subseteq Channels
  BY Typed DEF HubInv, HubType, HandlerType
<1>i. CoreInv
  BY DEF HubInv, CoreInv
<1>1. /\ hub.at = "snapshot" /\ hub.client \in Clients /\ hub'.at = "remove" /\ hub'.client = hub.client
      /\ hub'.chans = own[hub.client]
      /\ clients' = clients /\ channels' = channels /\ mu' = mu /\ handler' = handler /\ own' = own /\ closing' = closing /\ again' = again
  BY Typed DEF HubInv, HubType, HandlerType, GetChannels, history, HubClient
<1>2. HubClient'
  BY <1>t, <1>i, <1>1 DEF CoreInv, HubClient
<1>3. SendsOpen'
  BY <1>t, <1>i, <1>1 DEF CoreInv, SendsOpen, SendLocked, At
<1>4. OutsideIsUnknown'
  BY <1>t, <1>i, <1>1 DEF CoreInv, OutsideIsUnknown, Outside, Registering, At
<1>5. GoneIsClosing'
  BY <1>t, <1>i, <1>1 DEF CoreInv, GoneIsClosing, Outside, Registering, At
<1>6. RemovalCloses'
  BY <1>t, <1>i, <1>1 DEF CoreInv, RemovalCloses, HubClient
<1>7. LockIsHeld'
  BY <1>t, <1>i, <1>1 DEF CoreInv, LockIsHeld, Registering, At
<1>8. OwnsAsked'
  BY <1>t, <1>i, <1>1 DEF CoreInv, OwnsAsked, At
<1>9. NotYetListed'
  BY <1>t, <1>i, <1>1 DEF CoreInv, NotYetListed, Asking, Outside, At
<1>10. OwnsListed'
  BY <1>t, <1>i, <1>1 DEF CoreInv, OwnsListed, Leaving, At
<1>11. CopyCovers'
  BY <1>t, <1>i, <1>1 DEF CoreInv, CopyCovers, HubClient, Leaving, At, OwnsListed, OwnsAsked
<1>12. NoGhost'
  BY <1>t, <1>i, <1>1 DEF CoreInv, NoGhost, Listed, Registering, Leaving, At
<1> QED
  BY <1>2, <1>3, <1>4, <1>5, <1>6, <1>7, <1>8, <1>9, <1>10, <1>11, <1>12 DEF HubInv, CoreInv

\* The hub takes it out of its maps, while nobody holds h.mu.
LEMMA removeClientKeeps ==
  ASSUME HubInv, removeClient
  PROVE  CoreInv'
<1>t. /\ hub.client \in Clients \cup {Nobody} /\ clients \subseteq Clients
      /\ \A ch \in Channels : channels[ch] \subseteq Clients
      /\ \A d \in Clients : handler[d].ch \in Channels /\ own[d] \subseteq Channels
  BY Typed DEF HubInv, HubType, HandlerType
<1>i. CoreInv
  BY DEF HubInv, CoreInv
<1>1. /\ hub.at = "remove" /\ hub.client \in Clients /\ hub'.at = "select" /\ mu = Free
      /\ clients' = clients \ {hub.client}
      /\ \A ch \in Channels : \A d \in Clients :
           d \in channels'[ch] <=>
             d \in channels[ch] /\ ~(hub.client \in clients /\ d = hub.client /\ ch \in hub.chans)
      /\ \A ch \in Channels : channels'[ch] \subseteq Clients
      /\ mu' = mu /\ handler' = handler /\ own' = own /\ closing' = closing /\ again' = again
  BY Typed DEF HubInv, HubType, HandlerType, removeClient, history, HubClient
<1>2. \A d \in Clients : ~At(d, "locked")
  BY <1>t, <1>i, <1>1, FreeAssumption DEF CoreInv, LockIsHeld
<1>3. HubClient'
  BY <1>t, <1>i, <1>1, <1>2 DEF CoreInv, HubClient
<1>4. SendsOpen'
  BY <1>t, <1>i, <1>1, <1>2 DEF CoreInv, SendsOpen, SendLocked, At
<1>5. OutsideIsUnknown'
  BY <1>t, <1>i, <1>1, <1>2 DEF CoreInv, OutsideIsUnknown, Outside, Registering, At
<1>6. GoneIsClosing'
  BY <1>t, <1>i, <1>1, <1>2 DEF CoreInv, GoneIsClosing, Outside, Registering, At, RemovalCloses, HubClient
<1>7. RemovalCloses'
  BY <1>t, <1>i, <1>1, <1>2 DEF CoreInv, RemovalCloses, HubClient
<1>8. LockIsHeld'
  BY <1>t, <1>i, <1>1, <1>2 DEF CoreInv, LockIsHeld, Registering, At
<1>9. OwnsAsked'
  BY <1>t, <1>i, <1>1, <1>2 DEF CoreInv, OwnsAsked, At
<1>10. NotYetListed'
  BY <1>t, <1>i, <1>1, <1>2 DEF CoreInv, NotYetListed, Asking, Outside, At
<1>11. OwnsListed'
  BY <1>t, <1>i, <1>1, <1>2 DEF CoreInv, OwnsListed, Leaving, At
<1>12. CopyCovers'
  BY <1>t, <1>i, <1>1, <1>2 DEF CoreInv, CopyCovers, HubClient, Leaving, At
<1>13. NoGhost'
  BY <1>t, <1>i, <1>1, <1>2 DEF CoreInv, NoGhost, Listed, Registering, Leaving, At, CopyCovers, HubClient
<1> QED
  BY <1>3, <1>4, <1>5, <1>6, <1>7, <1>8, <1>9, <1>10, <1>11, <1>12, <1>13 DEF HubInv, CoreInv

\* What a step of a broadcast leaves alone.
Broadcasts ==
  /\ hub.at \notin {"add", "close", "snapshot", "remove"}
  /\ hub'.at \notin {"add", "close", "snapshot", "remove"}
  /\ hub'.at = "push" => hub'.client \in Clients /\ ~closing[hub'.client]
  /\ clients' = clients /\ channels' = channels /\ mu' = mu /\ handler' = handler
  /\ own' = own /\ closing' = closing /\ again' = again

\* A broadcast touches no map; a send begins only to a client that is open.
LEMMA HubLoopKeeps ==
  ASSUME HubInv,
         HubReceives \/ HubCopies \/ HubSends \/ HubLoops \/ HubStops \/ \E c \in Clients : HubChecks(c)
  PROVE  CoreInv'
<1>t. /\ hub.client \in Clients \cup {Nobody} /\ clients \subseteq Clients
      /\ \A ch \in Channels : channels[ch] \subseteq Clients
      /\ \A d \in Clients : handler[d].ch \in Channels /\ own[d] \subseteq Channels
  BY Typed DEF HubInv, HubType, HandlerType
<1>i. CoreInv
  BY DEF HubInv, CoreInv
<1>1. Broadcasts
  <2>1. hub \in HubType
    BY Typed DEF HubInv
  <2>2. CASE HubReceives
    BY <2>1, <2>2 DEF HubReceives, history, Broadcasts, HubType
  <2>3. CASE HubCopies
    BY <2>1, <2>3 DEF HubCopies, Broadcasts, HubType
  <2>4. CASE HubSends
    BY <2>1, <2>4 DEF HubSends, Broadcasts, HubType
  <2>5. CASE HubLoops
    BY <2>1, <2>5 DEF HubLoops, history, Broadcasts, HubType
  <2>6. CASE HubStops
    BY <2>1, <2>6 DEF HubStops, HubGoto, history, Broadcasts, HubType
  <2>7. ASSUME NEW c \in Clients, HubChecks(c)
        PROVE  Broadcasts
    <3>1. CASE closing[c]
      BY <2>1, <2>7, <3>1 DEF HubChecks, history, Broadcasts, HubType
    <3>2. CASE ~closing[c]
      BY <2>1, <2>7, <3>2 DEF HubChecks, history, Broadcasts, HubType
    <3> QED
      BY <3>1, <3>2
  <2> QED
    BY <2>2, <2>3, <2>4, <2>5, <2>6, <2>7
<1>2. HubClient'
  BY <1>t, <1>i, <1>1 DEF Broadcasts, CoreInv, HubClient
<1>3. SendsOpen'
  BY <1>t, <1>i, <1>1 DEF Broadcasts, CoreInv, SendsOpen, SendLocked, At
<1>4. OutsideIsUnknown'
  BY <1>t, <1>i, <1>1 DEF Broadcasts, CoreInv, OutsideIsUnknown, Outside, Registering, At
<1>5. GoneIsClosing'
  BY <1>t, <1>i, <1>1 DEF Broadcasts, CoreInv, GoneIsClosing, Outside, Registering, At
<1>6. RemovalCloses'
  BY <1>t, <1>i, <1>1 DEF Broadcasts, CoreInv, RemovalCloses, HubClient
<1>7. LockIsHeld'
  BY <1>t, <1>i, <1>1 DEF Broadcasts, CoreInv, LockIsHeld, Registering, At
<1>8. OwnsAsked'
  BY <1>t, <1>i, <1>1 DEF Broadcasts, CoreInv, OwnsAsked, At
<1>9. NotYetListed'
  BY <1>t, <1>i, <1>1 DEF Broadcasts, CoreInv, NotYetListed, Asking, Outside, At
<1>10. OwnsListed'
  BY <1>t, <1>i, <1>1 DEF Broadcasts, CoreInv, OwnsListed, Leaving, At
<1>11. CopyCovers'
  BY <1>t, <1>i, <1>1 DEF Broadcasts, CoreInv, CopyCovers, HubClient, Leaving, At
<1>12. NoGhost'
  BY <1>t, <1>i, <1>1 DEF Broadcasts, CoreInv, NoGhost, Listed, Registering, Leaving, At
<1> QED
  BY <1>2, <1>3, <1>4, <1>5, <1>6, <1>7, <1>8, <1>9, <1>10, <1>11, <1>12 DEF HubInv, CoreInv

\* Nor do WritePump, Shutdown and the subscriber touch what it is about.
LEMMA ApartKeeps ==
  ASSUME HubInv,
         UNCHANGED <<hub, clients, channels, mu, handler, own, closing, again>>
  PROVE  CoreInv'
<1>t. /\ hub.client \in Clients \cup {Nobody} /\ clients \subseteq Clients
      /\ \A ch \in Channels : channels[ch] \subseteq Clients
      /\ \A d \in Clients : handler[d].ch \in Channels /\ own[d] \subseteq Channels
  BY Typed DEF HubInv, HubType, HandlerType
<1>i. CoreInv
  BY DEF HubInv, CoreInv
<1>1. hub' = hub /\ clients' = clients /\ channels' = channels /\ mu' = mu /\ handler' = handler
      /\ own' = own /\ closing' = closing /\ again' = again
  OBVIOUS
<1>2. HubClient'
  BY <1>t, <1>i, <1>1 DEF CoreInv, HubClient
<1>3. SendsOpen'
  BY <1>t, <1>i, <1>1 DEF CoreInv, SendsOpen, SendLocked, At
<1>4. OutsideIsUnknown'
  BY <1>t, <1>i, <1>1 DEF CoreInv, OutsideIsUnknown, Outside, Registering, At
<1>5. GoneIsClosing'
  BY <1>t, <1>i, <1>1 DEF CoreInv, GoneIsClosing, Outside, Registering, At
<1>6. RemovalCloses'
  BY <1>t, <1>i, <1>1 DEF CoreInv, RemovalCloses, HubClient
<1>7. LockIsHeld'
  BY <1>t, <1>i, <1>1 DEF CoreInv, LockIsHeld, Registering, At
<1>8. OwnsAsked'
  BY <1>t, <1>i, <1>1 DEF CoreInv, OwnsAsked, At
<1>9. NotYetListed'
  BY <1>t, <1>i, <1>1 DEF CoreInv, NotYetListed, Asking, Outside, At
<1>10. OwnsListed'
  BY <1>t, <1>i, <1>1 DEF CoreInv, OwnsListed, Leaving, At
<1>11. CopyCovers'
  BY <1>t, <1>i, <1>1 DEF CoreInv, CopyCovers, HubClient, Leaving, At
<1>12. NoGhost'
  BY <1>t, <1>i, <1>1 DEF CoreInv, NoGhost, Listed, Registering, Leaving, At
<1> QED
  BY <1>2, <1>3, <1>4, <1>5, <1>6, <1>7, <1>8, <1>9, <1>10, <1>11, <1>12 DEF HubInv, CoreInv

-----------------------------------------------------------------------------
(* The invariant.                                                          *)

\* It holds initially: nobody is registered.
LEMMA HubStarts == Init => HubInv
<1> SUFFICES ASSUME Init PROVE HubInv
  OBVIOUS
<1>1. TypeOK
  BY Bounds DEF Init, TypeOK, HubPlaces, Places
<1>2. CoreInv
  BY DEF Init, CoreInv, HubClient, SendsOpen, SendLocked, OutsideIsUnknown, Outside, GoneIsClosing,
     RemovalCloses, LockIsHeld, OwnsAsked, NotYetListed, Asking, OwnsListed, CopyCovers, NoGhost, Registering, At
<1> QED
  BY <1>1, <1>2 DEF HubInv, CoreInv

\* What a connection's own steps do to who is in a channel.
LEMMA ClientKeeps ==
  ASSUME HubInv, NEW c \in Clients,
         \/ Connect(c) \/ HandlerStep(c) \/ WriterStep(c) \/ RegisterDone(c) \/ UnregisterDone(c)
         \/ PeerCloses(c) \/ \E ch \in Channels : Read(c, ch)
  PROVE  CoreInv'
<1>t. /\ handler \in [Clients -> HandlerType] /\ closing \in [Clients -> BOOLEAN]
      /\ writer \in [Clients -> {"none", "running", "done"}] /\ leaving \in [Clients -> Nat]
  BY Typed DEF HubInv, TypeOK
<1>1. CASE SubscribeStart(c)
  <2>1. CASE closing[c]
    BY <1>t, <1>1, <2>1, AfterSubscribeTyped, Moves DEF SubscribeStart, At, Outside, history
  <2>2. CASE ~closing[c]
    BY <1>t, <1>1, <2>2, GotoTyped, Moves DEF SubscribeStart, At, Outside, Places, history
  <2> QED
    BY <2>1, <2>2
<1>2. CASE AddChannel(c)
  BY <1>2, AddChannelKeeps
<1>3. CASE SubscribeLock(c)
  BY <1>3, SubscribeLockKeeps
<1>4. CASE SubscribeList(c)
  BY <1>4, SubscribeListKeeps
<1>5. CASE RemoveChannel(c)
  BY <1>5, RemoveChannelKeeps
<1>6. CASE Unsubscribe(c)
  BY <1>6, UnsubscribeKeeps
<1>7. CASE Connect(c)
  BY <1>t, <1>7, GotoTyped, Moves DEF Connect, At, Outside, Places, history
<1>8. CASE RegisterDone(c)
  BY <1>8, RegisterDoneKeeps
<1>9. CASE ReplyChecks(c)
  BY <1>t, <1>9, GotoTyped, Moves DEF ReplyChecks, At, Outside, Places, history
<1>10. CASE ReplySends(c)
  BY <1>t, <1>10, GotoTyped, Moves DEF ReplySends, At, Outside, Places, history
<1>11. CASE ReadFails(c)
  BY <1>t, <1>11, GotoTyped, Moves DEF ReadFails, At, Outside, Places, history
<1>12. CASE UnregisterDone(c)
  <2>1. /\ handler' \in [Clients -> HandlerType] /\ handler'[c].ch = handler[c].ch
        /\ handler'[c] = handler[c] \/ (At(c, "unregister") /\ handler'[c].at = "close")
        /\ \A d \in Clients : d # c => handler'[d] = handler[d]
    <3>1. CASE At(c, "unregister") /\ Goto(c, "close")
      BY <1>t, <3>1, GotoTyped DEF Places
    <3>2. CASE UNCHANGED handler
      BY <1>t, <3>2
    <3> QED
      BY <1>12, <3>1, <3>2 DEF UnregisterDone
  <2>2. /\ closing'[c] /\ ~SendLocked(c)
        /\ \A d \in Clients : d # c => closing'[d] = closing[d]
    BY <1>t, <1>12, CloseTyped DEF UnregisterDone
  <2> QED
    BY <1>12, <2>1, <2>2, Moves DEF UnregisterDone, At, Outside, SendLocked, history
<1>13. CASE HandlerCloses(c)
  <2>1. /\ closing'[c] /\ ~SendLocked(c)
        /\ \A d \in Clients : d # c => closing'[d] = closing[d]
    BY <1>t, <1>13, CloseTyped DEF HandlerCloses
  <2> QED
    BY <1>t, <1>13, <2>1, GotoTyped, Moves DEF HandlerCloses, At, Outside, Places, history
<1>14. CASE HandlerReturns(c)
  BY <1>t, <1>14, GotoTyped, Moves DEF HandlerReturns, At, Outside, Places, history
<1>15. CASE WriterSends(c)
  BY <1>15, ApartKeeps DEF WriterSends
<1>16. CASE WriterStops(c)
  BY <1>16, ApartKeeps DEF WriterStops, history
<1>17. CASE PeerCloses(c)
  BY <1>17, ApartKeeps DEF PeerCloses, history
<1>18. ASSUME NEW ch \in Channels, Read(c, ch)
       PROVE  CoreInv'
  BY <1>18, ReadKeeps
<1> QED
  BY <1>1, <1>2, <1>3, <1>4, <1>5, <1>6, <1>7, <1>8, <1>9, <1>10, <1>11, <1>12, <1>13, <1>14, <1>15,
     <1>16, <1>17, <1>18 DEF HandlerStep, WriterStep, WriterCloses, WriterNotices

\* What Shutdown and the subscriber do to it.
LEMMA OutsideKeeps ==
  ASSUME HubInv,
         \/ ShutdownStarts \/ ShutdownStep
         \/ enqueueSerialized \/ \E ch \in Published : FeedReceives(ch)
  PROVE  CoreInv'
<1>1. CASE ShutdownStarts
  BY <1>1, ApartKeeps DEF ShutdownStarts, history
<1>2. CASE ShutdownCopies
  BY <1>2, ApartKeeps DEF ShutdownCopies, history
<1>3. ASSUME NEW c \in Clients, ShutdownCloses(c)
      PROVE  CoreInv'
  <2>1. /\ closing'[c] /\ ~SendLocked(c)
        /\ \A d \in Clients : d # c => closing'[d] = closing[d]
    BY <1>3, Typed, CloseTyped DEF ShutdownCloses, HubInv
  <2>2. handler' = handler /\ handler \in [Clients -> HandlerType]
    BY <1>3, Typed DEF ShutdownCloses, HubInv
  <2> QED
    BY <1>3, <2>1, <2>2, Moves DEF ShutdownCloses, SendLocked, At, history
<1>4. CASE enqueueSerialized
  BY <1>4, ApartKeeps DEF enqueueSerialized, history
<1>5. ASSUME NEW ch \in Published, FeedReceives(ch)
      PROVE  CoreInv'
  BY <1>5, ApartKeeps DEF FeedReceives, history
<1> QED
  BY <1>1, <1>2, <1>3, <1>4, <1>5 DEF ShutdownStep

\* Every step keeps it.
LEMMA HubMoves == HubInv /\ [Next]_vars => HubInv'
<1> SUFFICES ASSUME HubInv, [Next]_vars PROVE HubInv'
  OBVIOUS
<1> SUFFICES TypeOK' /\ CoreInv'
  BY DEF HubInv, CoreInv
<1>t. TypeOK /\ HubClient
  BY DEF HubInv
<1>1. CASE UNCHANGED vars
  <2>1. TypeOK'
    BY <1>t, <1>1 DEF TypeOK, vars
  <2> QED
    BY <1>1, <2>1, ApartKeeps DEF vars
<1>2. CASE HubStep \/ HubStops
  <2>1. TypeOK'
    BY <1>t, <1>2, HubTypes
  <2>2. CASE HubAdd
    BY <2>1, <2>2, HubAddKeeps
  <2>3. CASE HubCloses
    BY <2>1, <2>3, HubClosesKeeps
  <2>4. CASE GetChannels
    BY <2>1, <2>4, GetChannelsKeeps
  <2>5. CASE removeClient
    BY <2>1, <2>5, removeClientKeeps
  <2>6. CASE HubReceives \/ HubCopies \/ HubSends \/ HubLoops \/ HubStops \/ \E c \in Clients : HubChecks(c)
    BY <2>1, <2>6, HubLoopKeeps
  <2> QED
    BY <1>2, <2>2, <2>3, <2>4, <2>5, <2>6 DEF HubStep
<1>3. CASE \/ ShutdownStarts \/ ShutdownStep
           \/ enqueueSerialized \/ \E ch \in Published : FeedReceives(ch)
  BY <1>t, <1>3, OutsideTypes, OutsideKeeps
<1>4. ASSUME NEW c \in Clients, HubRegister(c)
      PROVE  TypeOK' /\ CoreInv'
  BY <1>t, <1>4, HubTypes, HubRegisterKeeps
<1>5. ASSUME NEW c \in Clients, HubUnregister(c)
      PROVE  TypeOK' /\ CoreInv'
  BY <1>t, <1>5, HubTypes, HubUnregisterKeeps
<1>6. ASSUME NEW c \in Clients,
             \/ Connect(c) \/ HandlerStep(c) \/ WriterStep(c) \/ RegisterDone(c) \/ UnregisterDone(c)
             \/ PeerCloses(c) \/ \E ch \in Channels : Read(c, ch)
      PROVE  TypeOK' /\ CoreInv'
  BY <1>t, <1>6, ClientTypes, ClientKeeps
<1> QED
  BY <1>1, <1>2, <1>3, <1>4, <1>5, <1>6 DEF Next, Rendezvous

-----------------------------------------------------------------------------
(* The messages of a buffer without the replies.  Events is a recursive    *)
(* function; what it does to a longer and to a shorter buffer follows by   *)
(* induction, from the least element that a set of numbers has.            *)

Before == {p \in Nat \X Nat : p[1] < p[2]}

\* Every set of numbers that is not empty has a least element.
LEMMA LeastNumber ==
  ASSUME NEW S, S \subseteq Nat, S # {}
  PROVE  \E n \in S : \A m \in S : n <= m
<1>1. OpToRel(<, Nat) = Before
  BY DEF OpToRel, Before
<1>2. IsWellFoundedOn(Before, Nat)
  BY <1>1, NatLessThanWellFounded
<1>3. PICK n \in S : \A m \in S : ~ (<<m, n>> \in Before)
  BY <1>2, WFMin, Zenon
<1>4. \A m \in Nat : m < n => <<m, n>> \in Before
  BY <1>3 DEF Before
<1>5. \A m \in Nat : ~ (m < n) => n <= m
  BY <1>3
<1> QED
  BY <1>3, <1>4, <1>5

\* A set that holds 0 and with each number the next one holds all numbers.
LEMMA NumberInduction ==
  ASSUME NEW S, S \subseteq Nat, 0 \in S, \A n \in S : n + 1 \in S
  PROVE  S = Nat
<1> SUFFICES ASSUME S # Nat PROVE FALSE
  OBVIOUS
<1>1. PICK n \in Nat \ S : \A m \in Nat \ S : n <= m
  BY LeastNumber
<1>2. n - 1 \in Nat /\ ~(n <= n - 1) /\ (n - 1) + 1 = n
  BY <1>1
<1> QED
  BY <1>1, <1>2

\* What seen[n] is, in the definition of Events, from the f[i] for i < n.
Sift(s, f, n) ==
  IF n = 0 THEN <<>> ELSE IF s[n] = Reply THEN f[n - 1] ELSE Append(f[n - 1], s[n])
Sifts(s, n, f) == f \in [0..n -> Seq(Messages)] /\ \A i \in 0..n : f[i] = Sift(s, f, i)

\* Such a function exists up to every length.
LEMMA SiftExists ==
  ASSUME NEW s \in Seq(Messages)
  PROVE  \E f : Sifts(s, Len(s), f)
<1> DEFINE S == {n \in Nat : n <= Len(s) => \E f : Sifts(s, n, f)}
<1>1. 0 \in S
  <2>1. Sifts(s, 0, [i \in 0..0 |-> <<>>])
    BY DEF Sifts, Sift
  <2> QED
    BY <2>1
<1>2. ASSUME NEW n \in S, n + 1 <= Len(s)
      PROVE  \E f : Sifts(s, n + 1, f)
  <2>1. n \in Nat /\ n <= Len(s) /\ Len(s) \in Nat
    BY <1>2
  <2>2. PICK f : Sifts(s, n, f)
    BY <1>2, <2>1
  <2>3. s[n + 1] \in Messages /\ f[n] \in Seq(Messages)
    BY <1>2, <2>1, <2>2 DEF Sifts
  <2> DEFINE v == IF s[n + 1] = Reply THEN f[n] ELSE Append(f[n], s[n + 1])
             g == [i \in 0..(n + 1) |-> IF i = n + 1 THEN v ELSE f[i]]
  <2>4. v \in Seq(Messages)
    BY <2>3
  <2>5. \A i \in 0..(n + 1) : i # n + 1 => i \in 0..n
    BY <2>1
  <2>6. g \in [0..(n + 1) -> Seq(Messages)]
    BY <2>2, <2>4, <2>5 DEF Sifts
  <2>7. \A i \in 0..n : g[i] = f[i]
    BY <2>1
  <2>8. g[n + 1] = Sift(s, g, n + 1)
    BY <2>1, <2>7 DEF Sift
  <2>9. \A i \in 0..n : g[i] = Sift(s, g, i)
    <3>1. ASSUME NEW i \in 0..n
          PROVE  Sift(s, g, i) = Sift(s, f, i)
      <4>1. i # 0 => i - 1 \in 0..n
        BY <2>1
      <4> HIDE DEF g
      <4> QED
        BY <2>7, <4>1 DEF Sift
    <3> HIDE DEF g
    <3> QED
      BY <2>2, <2>7, <3>1 DEF Sifts
  <2>10. Sifts(s, n + 1, g)
    <3> HIDE DEF g
    <3> QED
      BY <2>5, <2>6, <2>8, <2>9 DEF Sifts
  <2> QED
    BY <2>10
<1>3. S = Nat
  <2>1. \A n \in S : n + 1 \in S
    BY <1>2
  <2> QED
    BY <1>1, <2>1, NumberInduction
<1> QED
  BY <1>3

\* Two sequences that agree on their first n elements are sifted alike so far.
LEMMA SiftAlike ==
  ASSUME NEW s, NEW t, NEW k \in Nat, NEW f, NEW l \in Nat, NEW g, Sifts(s, k, f), Sifts(t, l, g),
         NEW n \in Nat, n <= k, n <= l, \A i \in 1..n : s[i] = t[i]
  PROVE  f[n] = g[n]
<1> DEFINE S == {m \in Nat : m <= n => f[m] = g[m]}
<1>1. 0 \in S
  BY DEF Sifts, Sift
<1>2. ASSUME NEW m \in S, m + 1 <= n
      PROVE  f[m + 1] = g[m + 1]
  <2>1. /\ m \in Nat /\ m + 1 # 0 /\ (m + 1) - 1 = m /\ m <= n
        /\ m + 1 \in 0..k /\ m + 1 \in 0..l /\ m + 1 \in 1..n
    BY <1>2
  <2>2. f[m] = g[m]
    BY <2>1
  <2>3. f[m + 1] = Sift(s, f, m + 1) /\ g[m + 1] = Sift(t, g, m + 1) /\ s[m + 1] = t[m + 1]
    BY <2>1 DEF Sifts
  <2> QED
    BY <2>1, <2>2, <2>3 DEF Sift
<1>3. S = Nat
  <2>1. \A m \in S : m + 1 \in S
    BY <1>2
  <2> QED
    BY <1>1, <2>1, NumberInduction
<1> QED
  BY <1>3

\* Events is the last value of such a function.
LEMMA EventsSifts ==
  ASSUME NEW s \in Seq(Messages)
  PROVE  \E f : Sifts(s, Len(s), f) /\ Events(s) = f[Len(s)]
<1> DEFINE D(f) == f = [n \in 0..Len(s) |-> Sift(s, f, n)]
<1>1. Events(s) = (CHOOSE f : D(f))[Len(s)]
  BY DEF Events, Sift
<1>2. PICK h : Sifts(s, Len(s), h)
  BY SiftExists
<1>3. D(h)
  BY <1>2 DEF Sifts
<1>4. PICK f : f = (CHOOSE e : D(e))
  OBVIOUS
<1>5. D(f)
  BY <1>3, <1>4
<1>6. \A n \in 0..Len(s) : f[n] = Sift(s, f, n)
  BY <1>5
<1>7. f = h
  <2> DEFINE S == {n \in Nat : n <= Len(s) => f[n] = h[n]}
  <2>1. 0 \in S
    BY <1>2, <1>6 DEF Sifts, Sift
  <2>2. ASSUME NEW n \in S, n + 1 <= Len(s)
        PROVE  f[n + 1] = h[n + 1]
    <3>1. n \in Nat /\ n + 1 # 0 /\ (n + 1) - 1 = n /\ n <= Len(s) /\ n + 1 \in 0..Len(s)
      BY <2>2
    <3>2. f[n] = h[n]
      BY <3>1
    <3>3. f[n + 1] = Sift(s, f, n + 1) /\ h[n + 1] = Sift(s, h, n + 1)
      BY <1>2, <1>6, <3>1 DEF Sifts
    <3> QED
      BY <3>1, <3>2, <3>3 DEF Sift
  <2>3. S = Nat
    <3>1. \A n \in S : n + 1 \in S
      BY <2>2
    <3> QED
      BY <2>1, <3>1, NumberInduction
  <2>4. \A n \in 0..Len(s) : f[n] = h[n]
    BY <2>3
  <2>5. f = [n \in 0..Len(s) |-> f[n]] /\ h = [n \in 0..Len(s) |-> h[n]]
    BY <1>2, <1>5 DEF Sifts
  <2> QED
    BY <2>4, <2>5
<1> QED
  BY <1>1, <1>2, <1>4, <1>7
\* The events of an empty buffer, and of one that a message is appended to.
LEMMA EventsOfNone == Events(<<>>) = <<>>
<1>1. <<>> \in Seq(Messages) /\ Len(<<>>) = 0
  OBVIOUS
<1>2. PICK f : Sifts(<<>>, 0, f) /\ Events(<<>>) = f[0]
  BY <1>1, EventsSifts
<1> QED
  BY <1>2 DEF Sifts, Sift

LEMMA EventsOfAppend ==
  ASSUME NEW s \in Seq(Messages), NEW m \in Messages
  PROVE  /\ Events(s) \in Seq(Messages)
         /\ Events(Append(s, m)) = IF m = Reply THEN Events(s) ELSE Append(Events(s), m)
<1> DEFINE t == Append(s, m)
           n == Len(s)
<1>1. /\ t \in Seq(Messages) /\ Len(t) = n + 1 /\ n \in Nat /\ t[n + 1] = m
      /\ \A i \in 1..n : s[i] = t[i]
  OBVIOUS
<1>2. PICK f : Sifts(s, n, f) /\ Events(s) = f[n]
  BY EventsSifts
<1> HIDE DEF t
<1>3. PICK g : Sifts(t, n + 1, g) /\ Events(t) = g[n + 1]
  BY <1>1, EventsSifts
<1> HIDE DEF n
<1>4. n + 1 \in Nat /\ n <= n + 1 /\ n <= n /\ n + 1 # 0 /\ (n + 1) - 1 = n /\ n + 1 \in 0..(n + 1) /\ n \in 0..n
  BY <1>1
<1>5. f[n] = g[n]
  BY <1>1, <1>2, <1>3, <1>4, SiftAlike
<1>6. g[n + 1] = Sift(t, g, n + 1)
  BY <1>3, <1>4 DEF Sifts
<1>7. f[n] \in Seq(Messages)
  BY <1>2, <1>4 DEF Sifts
<1>8. Events(t) = IF m = Reply THEN Events(s) ELSE Append(Events(s), m)
  BY <1>1, <1>2, <1>3, <1>4, <1>5, <1>6 DEF Sift
<1> QED
  BY <1>2, <1>7, <1>8 DEF t

\* A buffer of one message.
LEMMA OneMessage ==
  ASSUME NEW s \in Seq(Messages), Len(s) = 1
  PROVE  /\ Head(s) \in Messages /\ Tail(s) = <<>> /\ <<>> \in Seq(Messages)
         /\ s = Append(<<>>, Head(s))
<1>1. <<>> \in Seq(Messages) /\ Len(<<>>) = 0
  BY EmptySeq
<1>2. s # <<>>
  <2>1. s = <<>> => Len(s) = 0
    BY <1>1, Zenon
  <2> QED
    BY <2>1
<1>3. PICK t \in Seq(Messages), x \in Messages : s = Append(t, x)
  BY <1>2, SequenceEmptyOrAppend
<1>4. Len(t) = 0
  BY <1>3, AppendProperties
<1>5. t = <<>>
  BY <1>4, EmptySeq
<1> QED
  BY <1>1, <1>3, <1>5, HeadTailAppend

\* The events of a buffer that is not empty begin with its head, if that is one.
LEMMA EventsOfTail ==
  ASSUME NEW s \in Seq(Messages), s # <<>>
  PROVE  Events(s) = IF Head(s) = Reply THEN Events(Tail(s)) ELSE <<Head(s)>> \o Events(Tail(s))
<1> DEFINE First(u) == IF Head(u) = Reply THEN Events(Tail(u)) ELSE <<Head(u)>> \o Events(Tail(u))
           S == {n \in Nat : \A u \in Seq(Messages) : Len(u) = n + 1 => Events(u) = First(u)}
<1>1. 0 \in S
  <2>1. ASSUME NEW u \in Seq(Messages), Len(u) = 1
        PROVE  Events(u) = First(u)
    <3>1. /\ Head(u) \in Messages /\ Tail(u) = <<>> /\ <<>> \in Seq(Messages)
          /\ u = Append(<<>>, Head(u))
      BY <2>1, OneMessage
    <3>3. Events(u) = IF Head(u) = Reply THEN <<>> ELSE Append(<<>>, Head(u))
      <4> DEFINE h == Head(u)
      <4> HIDE DEF h
      <4>1. Events(Append(<<>>, h)) = IF h = Reply THEN <<>> ELSE Append(<<>>, h)
        BY <3>1, EventsOfAppend, EventsOfNone DEF h
      <4> QED
        BY <3>1, <4>1 DEF h
    <3>4. <<Head(u)>> \o <<>> = Append(<<>>, Head(u))
      BY <3>1
    <3> QED
      BY <3>1, <3>3, <3>4, EventsOfNone
  <2> QED
    BY <2>1
<1>2. ASSUME NEW n \in S
      PROVE  n + 1 \in S
  <2>1. ASSUME NEW u \in Seq(Messages), Len(u) = (n + 1) + 1
        PROVE  Events(u) = First(u)
    <3>n. n \in Nat
      BY <1>2
    <3>1. PICK t \in Seq(Messages), x \in Messages : u = Append(t, x)
      <4>1. u # <<>>
        BY <2>1, <3>n
      <4> QED
        BY <4>1, SequenceEmptyOrAppend
    <3>2. Len(t) = n + 1 /\ t # <<>> /\ Head(t) \in Messages /\ Tail(t) \in Seq(Messages)
      BY <2>1, <3>1, <3>n
    <3>4. Head(u) = Head(t) /\ Tail(u) = Append(Tail(t), x)
      BY <3>1, <3>2, HeadTailAppend
    <3>5. Events(t) = First(t)
      BY <1>2, <3>1, <3>2
    <3>6. Events(u) = IF x = Reply THEN Events(t) ELSE Append(Events(t), x)
      BY <3>1, EventsOfAppend
    <3>7. /\ Events(Tail(t)) \in Seq(Messages)
          /\ Events(Append(Tail(t), x)) = IF x = Reply THEN Events(Tail(t)) ELSE Append(Events(Tail(t)), x)
      BY <3>1, <3>2, EventsOfAppend
    <3>8. Append(<<Head(t)>> \o Events(Tail(t)), x) = <<Head(t)>> \o Append(Events(Tail(t)), x)
      <4>1. <<Head(t)>> \in Seq(Messages)
        BY <3>2
      <4> QED
        BY <3>1, <3>7, <4>1, ConcatAssociative, AppendIsConcat
    <3> QED
      BY <3>4, <3>5, <3>6, <3>7, <3>8
  <2> QED
    BY <1>2, <2>1
<1>3. S = Nat
  <2>1. \A n \in S : n + 1 \in S
    BY <1>2
  <2> HIDE DEF S
  <2>2. S \subseteq Nat
    BY DEF S
  <2> QED
    BY <1>1, <2>1, <2>2, NumberInduction
<1>4. Len(s) - 1 \in Nat /\ Len(s) = (Len(s) - 1) + 1
  OBVIOUS
<1> QED
  BY <1>3, <1>4

\* A message between two sequences belongs to either.
LEMMA Shifted ==
  ASSUME NEW a \in Seq(Messages), NEW b \in Seq(Messages), NEW m \in Messages
  PROVE  /\ Append(a, m) \o b = a \o (<<m>> \o b)
         /\ a \o (b \o <<m>>) = (a \o b) \o <<m>>
<1>1. <<m>> \in Seq(Messages)
  OBVIOUS
<1>2. (a \o <<m>>) \o b = a \o (<<m>> \o b)
  BY <1>1, ConcatAssociative
<1>3. Append(a, m) = a \o <<m>>
  BY AppendIsConcat
<1>4. (a \o b) \o <<m>> = a \o (b \o <<m>>)
  BY <1>1, ConcatAssociative
<1> QED
  BY <1>2, <1>3, <1>4

-----------------------------------------------------------------------------
(* No silent gap.                                                          *)

\* What NoSilentGap says of one client.
Gap(c) ==
  ~closing[c] /\ c \notin missed => got[c] \o Events(send[c]) \o Coming(c) = due[c]

\* The types of what it speaks of.
LEMMA GapTyped ==
  ASSUME TypeOK, NEW c \in Clients
  PROVE  /\ got[c] \in Seq(Messages) /\ send[c] \in Seq(Messages) /\ due[c] \in Seq(Messages)
         /\ hub \in HubType /\ hub.msg \in Messages /\ queue \in Seq(Messages)
         /\ Events(send[c]) \in Seq(Messages) /\ Coming(c) \in Seq(Messages)
<1>1. /\ got[c] \in Seq(Messages) /\ send[c] \in Seq(Messages) /\ due[c] \in Seq(Messages)
      /\ hub \in HubType /\ hub.msg \in Messages /\ queue \in Seq(Messages)
  BY DEF TypeOK, HubType
<1>2. Reply \in Messages
  BY Bounds
<1>3. Events(send[c]) \in Seq(Messages)
  BY <1>1, <1>2, EventsOfAppend
<1>4. Coming(c) \in Seq(Messages)
  <2>1. <<>> \in Seq(Messages) /\ <<hub.msg>> \in Seq(Messages)
    BY <1>1
  <2> QED
    BY <2>1 DEF Coming
<1> QED
  BY <1>1, <1>3, <1>4

\* Nobody opens a client again, and none is struck from those that missed a message.
OnlyCloses == \A c \in Clients : closing[c] => closing'[c]

(* A client keeps its balance when nothing of it moves.                    *)
LEMMA GapStays ==
  ASSUME NEW c \in Clients, Gap(c), OnlyCloses, missed \subseteq missed',
         got'[c] = got[c], send'[c] = send[c], due'[c] = due[c], Coming(c)' = Coming(c)
  PROVE  Gap(c)'
<1>1. Events(send[c])' = Events(send'[c])
  OBVIOUS
<1>2. Events(send'[c]) = Events(send[c])
  OBVIOUS
<1> QED
  BY <1>1, <1>2 DEF Gap, OnlyCloses

\* All of the invariant but the types.
Balanced == EventsAreEvents /\ TargetsAreSentTo /\ NoSilentGap

\* The balance of all clients is that of each one.
LEMMA GapByClient ==
  /\ NoSilentGap <=> \A c \in Clients : Gap(c)
  /\ (\A c \in Clients : Gap(c)') => NoSilentGap'
BY DEF NoSilentGap, Gap

\* A step of a goroutine that delivers nothing.
Apart ==
  /\ OnlyCloses
  /\ queue' = queue /\ feed' = feed /\ due' = due /\ got' = got /\ send' = send /\ missed' = missed
  /\ hub'.targets = hub.targets /\ hub'.msg = hub.msg
  /\ hub' = hub \/ {hub.at, hub'.at} \cap {"copy", "send", "push"} = {}

(* It keeps the balance.                                                   *)
LEMMA ApartBalances ==
  ASSUME TypeOK, Balanced, Apart
  PROVE  Balanced'
<1>1. EventsAreEvents'
  BY DEF Apart, Balanced, EventsAreEvents
<1>2. TargetsAreSentTo'
  BY DEF Apart, Balanced, TargetsAreSentTo
<1>3. ASSUME NEW c \in Clients
      PROVE  Gap(c)'
  <2>1. Gap(c)
    BY GapByClient DEF Balanced
  <2>2. Coming(c)' = Coming(c)
    BY DEF Apart, Coming
  <2> QED
    BY <2>1, <2>2, GapStays DEF Apart
<1> QED
  BY <1>1, <1>2, <1>3, GapByClient DEF Balanced

\* No step but a Close touches closing.
LEMMA Closings ==
  ASSUME TypeOK, closing' = closing \/ \E c \in Clients : Close(c)
  PROVE  OnlyCloses
<1>1. ASSUME NEW c \in Clients, Close(c)
      PROVE  OnlyCloses
  BY <1>1, Typed, CloseTyped DEF OnlyCloses
<1>2. CASE closing' = closing
  BY <1>2 DEF OnlyCloses
<1> QED
  BY <1>1, <1>2

\* The goroutines of a connection deliver nothing, except WritePump and the replies.
LEMMA ClientApart ==
  ASSUME TypeOK, NEW c \in Clients,
         \/ Connect(c) \/ RegisterDone(c) \/ UnregisterDone(c) \/ PeerCloses(c)
         \/ \E ch \in Channels : Read(c, ch)
         \/ HandlerStep(c) /\ ~ReplySends(c)
         \/ WriterStep(c) /\ ~WriterSends(c)
  PROVE  Apart
<1>1. /\ UNCHANGED <<hub, queue, feed, due, got, send, missed>>
      /\ closing' = closing \/ Close(c)
  BY DEF Connect, RegisterDone, UnregisterDone, PeerCloses, Read, HandlerStep, WriterStep,
     SubscribeStart, AddChannel, SubscribeLock, SubscribeList, RemoveChannel, Unsubscribe,
     ReplyChecks, ReadFails, HandlerCloses, HandlerReturns, WriterCloses, WriterNotices,
     WriterStops, outside, history
<1> QED
  BY <1>1, Closings DEF Apart

\* Nor do Shutdown and the steps of the hub that are no broadcast.
LEMMA HubApart ==
  ASSUME TypeOK, HubClient,
         \/ HubAdd \/ HubCloses \/ GetChannels \/ removeClient \/ HubStops
         \/ ShutdownStarts \/ ShutdownStep
         \/ \E c \in Clients : HubRegister(c) \/ HubUnregister(c)
  PROVE  Apart
<1>t. hub \in HubType
  BY Typed
<1>1. CASE HubAdd
  BY <1>t, <1>1, Closings DEF HubAdd, HubType, Apart, outside, history
<1>2. CASE HubCloses
  BY <1>t, <1>2, Closings DEF HubCloses, HubClient, HubGoto, HubType, Apart, outside, history
<1>3. CASE GetChannels
  BY <1>t, <1>3, Closings DEF GetChannels, HubType, Apart, outside, history
<1>4. CASE removeClient
  BY <1>t, <1>4, Closings DEF removeClient, HubType, Apart, outside, history
<1>5. CASE HubStops
  BY <1>t, <1>5, Closings DEF HubStops, HubGoto, HubType, Apart, outside, history
<1>6. CASE ShutdownStarts \/ ShutdownStep
  BY <1>6, Closings DEF ShutdownStarts, ShutdownStep, ShutdownCopies, ShutdownCloses, Apart, history
<1>7. ASSUME NEW c \in Clients, HubRegister(c) \/ HubUnregister(c)
      PROVE  Apart
  BY <1>t, <1>7, Closings DEF HubRegister, HubUnregister, HubType, Apart, outside, history
<1> QED
  BY <1>1, <1>2, <1>3, <1>4, <1>5, <1>6, <1>7

\* A message that the subscriber received and the hub took from its queue is an event.
LEMMA FeedBalances ==
  ASSUME TypeOK, Balanced, enqueueSerialized \/ \E ch \in Published : FeedReceives(ch)
  PROVE  Balanced'
<1>1. /\ UNCHANGED <<hub, closing, due, got, send, missed>>
  BY DEF enqueueSerialized, FeedReceives, history
<1>2. EventsAreEvents'
  <2>1. CASE enqueueSerialized
    <3>1. queue \in Seq(Messages) /\ feed.msg \in Messages /\ feed.msg # Reply
      BY <2>1 DEF enqueueSerialized, Balanced, EventsAreEvents, TypeOK
    <3>2. \A n \in 1..Len(queue) : queue[n] # Reply
      BY DEF Balanced, EventsAreEvents
    <3>3. \A n \in 1..Len(queue') : queue'[n] # Reply
      <4>1. CASE UNCHANGED queue
        BY <3>2, <4>1
      <4>2. CASE queue' = Append(queue, feed.msg)
        BY <3>1, <3>2, <4>2
      <4> QED
        BY <2>1, <4>1, <4>2 DEF enqueueSerialized
    <3> QED
      BY <1>1, <2>1, <3>3 DEF enqueueSerialized, Balanced, EventsAreEvents
  <2>2. ASSUME NEW ch \in Published, FeedReceives(ch)
        PROVE  EventsAreEvents'
    <3>1. received + 1 # 0
      BY Bounds DEF TypeOK
    <3>2. feed'.msg # Reply
      BY <2>2, <3>1 DEF FeedReceives, Reply
    <3> QED
      BY <1>1, <2>2, <3>2 DEF FeedReceives, Balanced, EventsAreEvents
  <2> QED
    BY <2>1, <2>2
<1>3. TargetsAreSentTo'
  BY <1>1 DEF Balanced, TargetsAreSentTo
<1>4. ASSUME NEW c \in Clients
      PROVE  Gap(c)'
  <2>1. Gap(c)
    BY GapByClient DEF Balanced
  <2>2. Coming(c)' = Coming(c) /\ OnlyCloses
    BY <1>1 DEF Coming, OnlyCloses
  <2> QED
    BY <1>1, <2>1, <2>2, GapStays
<1> QED
  BY <1>2, <1>3, <1>4, GapByClient DEF Balanced

\* WritePump moves the head of the buffer to the socket, or drops a reply.
LEMMA WriterBalances ==
  ASSUME TypeOK, Balanced, NEW c \in Clients, WriterSends(c)
  PROVE  Balanced'
<1>1. UNCHANGED <<hub, closing, due, missed, queue, feed>>
  BY DEF WriterSends, outside
<1>2. EventsAreEvents' /\ TargetsAreSentTo'
  BY <1>1 DEF Balanced, EventsAreEvents, TargetsAreSentTo
<1>3. OnlyCloses
  BY <1>1 DEF OnlyCloses
<1>4. ASSUME NEW d \in Clients
      PROVE  Gap(d)'
  <2>1. Gap(d)
    BY GapByClient DEF Balanced
  <2>2. Coming(d)' = Coming(d)
    BY <1>1 DEF Coming
  <2>3. CASE d # c
    <3>1. got'[d] = got[d] /\ send'[d] = send[d] /\ due'[d] = due[d]
      BY <1>1, <2>3 DEF WriterSends, TypeOK
    <3> QED
      BY <1>1, <1>3, <2>1, <2>2, <3>1, GapStays
  <2>4. CASE d = c
    <3> DEFINE h == Head(send[c])
               t == Tail(send[c])
    <3>1. /\ send[c] \in Seq(Messages) /\ send[c] # <<>> /\ got[c] \in Seq(Messages)
          /\ Coming(c) \in Seq(Messages)
      BY GapTyped DEF WriterSends
    <3>2. h \in Messages /\ t \in Seq(Messages)
      BY <3>1
    <3>3. Events(t) \in Seq(Messages) /\ <<h>> \in Seq(Messages)
      <4> HIDE DEF h, t
      <4>1. Events(t) \in Seq(Messages)
        BY <3>2, Bounds, EventsOfAppend
      <4> QED
        BY <3>2, <4>1
    <3>4. Events(send[c]) = IF h = Reply THEN Events(t) ELSE <<h>> \o Events(t)
      BY <3>1, EventsOfTail
    <3>5. send'[c] = t /\ got'[c] = (IF h = Reply THEN got[c] ELSE Append(got[c], h))
      BY DEF WriterSends, TypeOK
    <3> HIDE DEF h, t
    <3>6. Append(got[c], h) \o Events(t) = got[c] \o (<<h>> \o Events(t))
      BY <3>1, <3>2, <3>3, Shifted
    <3>7. got'[c] \o Events(send'[c]) = got[c] \o Events(send[c])
      BY <3>4, <3>5, <3>6
    <3>8. Gap(c)' <=> (~closing'[c] /\ c \notin missed' =>
                         got'[c] \o Events(send'[c]) \o Coming(c)' = due'[c])
      BY DEF Gap
    <3>9. Gap(c) <=> (~closing[c] /\ c \notin missed =>
                         got[c] \o Events(send[c]) \o Coming(c) = due[c])
      BY DEF Gap
    <3> QED
      BY <1>1, <2>1, <2>2, <2>4, <3>7, <3>8, <3>9
  <2> QED
    BY <2>3, <2>4
<1> QED
  BY <1>2, <1>4, GapByClient DEF Balanced

\* A reply is no event, whether it finds room or not.
LEMMA ReplyBalances ==
  ASSUME TypeOK, Balanced, NEW c \in Clients, ReplySends(c)
  PROVE  Balanced'
<1>1. UNCHANGED <<hub, closing, due, got, missed, queue, feed>>
  BY DEF ReplySends, outside, history
<1>2. EventsAreEvents' /\ TargetsAreSentTo'
  BY <1>1 DEF Balanced, EventsAreEvents, TargetsAreSentTo
<1>3. ASSUME NEW d \in Clients
      PROVE  Gap(d)'
  <2>1. Gap(d)
    BY GapByClient DEF Balanced
  <2>2. Coming(d)' = Coming(d)
    BY <1>1 DEF Coming
  <2>3. send'[d] = send[d] \/ send'[d] = Append(send[d], Reply)
    BY DEF ReplySends, TypeOK
  <2>4. Events(send'[d]) = Events(send[d])
    <3>1. send[d] \in Seq(Messages) /\ Reply \in Messages
      BY GapTyped, Bounds
    <3>2. Events(Append(send[d], Reply)) = Events(send[d])
      BY <3>1, EventsOfAppend
    <3> QED
      BY <2>3, <3>2
  <2>5. Gap(d)' <=> (~closing'[d] /\ d \notin missed' =>
                       got'[d] \o Events(send'[d]) \o Coming(d)' = due'[d])
    BY DEF Gap
  <2>6. Gap(d) <=> (~closing[d] /\ d \notin missed =>
                       got[d] \o Events(send[d]) \o Coming(d) = due[d])
    BY DEF Gap
  <2> QED
    BY <1>1, <2>1, <2>2, <2>4, <2>5, <2>6
<1> QED
  BY <1>2, <1>3, GapByClient DEF Balanced

\* The hub takes a message from its queue, which is an event, and has no targets yet.
LEMMA HubReceivesBalances ==
  ASSUME TypeOK, Balanced, HubReceives
  PROVE  Balanced'
<1>1. /\ hub \in HubType /\ hub.at = "select" /\ hub'.at = "copy" /\ hub'.targets = hub.targets
      /\ hub'.msg = Head(queue) /\ queue' = Tail(queue) /\ hub.targets = {}
      /\ UNCHANGED <<closing, due, got, send, missed, feed>>
  BY Typed DEF HubReceives, HubType, outside, history, Balanced, TargetsAreSentTo
<1>2. EventsAreEvents'
  <2>1. queue \in Seq(Messages) /\ queue # <<>>
    BY DEF HubReceives, TypeOK
  <2>2. /\ Len(queue) \in Nat /\ Len(queue) > 0 /\ Head(queue) = queue[1]
        /\ Len(Tail(queue)) = Len(queue) - 1 /\ \A n \in 1..Len(Tail(queue)) : Tail(queue)[n] = queue[n + 1]
    BY <2>1
  <2>3. \A n \in 1..Len(queue) : queue[n] # Reply
    BY DEF Balanced, EventsAreEvents
  <2>4. Head(queue) # Reply
    BY <2>2, <2>3
  <2>5. \A n \in 1..Len(queue') : queue'[n] # Reply
    <3>1. \A n \in 1..(Len(queue) - 1) : n + 1 \in 1..Len(queue)
      BY <2>2
    <3> QED
      BY <1>1, <2>2, <2>3, <3>1
  <2> QED
    BY <1>1, <2>4, <2>5 DEF Balanced, EventsAreEvents
<1>3. TargetsAreSentTo'
  BY <1>1 DEF TargetsAreSentTo
<1>4. ASSUME NEW c \in Clients
      PROVE  Gap(c)'
  <2>1. Gap(c)
    BY GapByClient DEF Balanced
  <2>2. Coming(c)' = Coming(c) /\ OnlyCloses
    BY <1>1 DEF Coming, OnlyCloses
  <2> QED
    BY <1>1, <2>1, <2>2, GapStays
<1> QED
  BY <1>2, <1>3, <1>4, GapByClient DEF Balanced

\* What a client is due grows by what is now coming to it.
LEMMA HubCopiesBalances ==
  ASSUME TypeOK, Balanced, HubCopies
  PROVE  Balanced'
<1>1. /\ hub \in HubType /\ hub.at = "copy" /\ hub'.at = "send" /\ hub'.targets = channels[hub.msg.ch]
      /\ hub'.msg = hub.msg /\ hub.targets = {}
      /\ UNCHANGED <<closing, got, send, missed, queue, feed>>
  BY Typed DEF HubCopies, HubType, outside, Balanced, TargetsAreSentTo
<1>2. EventsAreEvents' /\ TargetsAreSentTo'
  BY <1>1 DEF Balanced, EventsAreEvents, TargetsAreSentTo
<1>3. ASSUME NEW c \in Clients
      PROVE  Gap(c)'
  <2>1. Gap(c)
    BY GapByClient DEF Balanced
  <2>2. Coming(c) = <<>>
    BY <1>1 DEF Coming
  <2>3. CASE c \notin channels[hub.msg.ch]
    <3>1. due'[c] = due[c]
      BY <2>3 DEF HubCopies
    <3>2. Coming(c)' = Coming(c) /\ OnlyCloses
      BY <1>1, <2>2, <2>3 DEF Coming, OnlyCloses
    <3> QED
      BY <1>1, <2>1, <3>1, <3>2, GapStays
  <2>4. CASE c \in channels[hub.msg.ch]
    <3>1. due'[c] = Append(due[c], hub.msg)
      BY <2>4 DEF HubCopies
    <3>2. Coming(c)' = <<hub.msg>>
      BY <1>1, <2>4 DEF Coming
    <3>3. /\ got[c] \in Seq(Messages) /\ Events(send[c]) \in Seq(Messages) /\ due[c] \in Seq(Messages)
          /\ hub.msg \in Messages
      BY GapTyped
    <3>4. (got[c] \o Events(send[c])) \o <<>> = got[c] \o Events(send[c])
      BY <3>3, ConcatProperties, ConcatEmptySeq
    <3>5. Append(due[c], hub.msg) = due[c] \o <<hub.msg>>
      BY <3>3, AppendIsConcat
    <3>6. Events(send'[c]) = Events(send[c])
      BY <1>1
    <3>7. Gap(c)' <=> (~closing'[c] /\ c \notin missed' =>
                         got'[c] \o Events(send'[c]) \o Coming(c)' = due'[c])
      BY DEF Gap
    <3>8. Gap(c) <=> (~closing[c] /\ c \notin missed =>
                         got[c] \o Events(send[c]) \o Coming(c) = due[c])
      BY DEF Gap
    <3> QED
      BY <1>1, <2>1, <2>2, <3>1, <3>2, <3>4, <3>5, <3>6, <3>7, <3>8
  <2> QED
    BY <2>3, <2>4
<1> QED
  BY <1>2, <1>3, GapByClient DEF Balanced

\* A target is dropped only if it is closing.
LEMMA HubChecksBalances ==
  ASSUME TypeOK, Balanced, NEW c \in Clients, HubChecks(c)
  PROVE  Balanced'
<1>1. /\ hub \in HubType /\ hub.at = "send" /\ c \in hub.targets /\ hub'.msg = hub.msg
      /\ \/ closing[c] /\ hub'.at = "send" /\ hub'.targets = hub.targets \ {c}
         \/ hub'.at = "push" /\ hub'.client = c /\ hub'.targets = hub.targets
      /\ UNCHANGED <<closing, due, got, send, missed, queue, feed>>
  <2>1. CASE closing[c]
    BY <2>1, Typed DEF HubChecks, HubType, outside, history
  <2>2. CASE ~closing[c]
    BY <2>2, Typed DEF HubChecks, HubType, outside, history
  <2> QED
    BY <2>1, <2>2
<1>2. EventsAreEvents' /\ TargetsAreSentTo'
  BY <1>1 DEF Balanced, EventsAreEvents, TargetsAreSentTo
<1>3. OnlyCloses
  BY <1>1 DEF OnlyCloses
<1>4. ASSUME NEW d \in Clients
      PROVE  Gap(d)'
  <2>1. Gap(d)
    BY GapByClient DEF Balanced
  <2>2. CASE closing[d]
    BY <1>3, <2>2 DEF Gap, OnlyCloses
  <2>3. CASE ~closing[d]
    <3>1. Coming(d)' = Coming(d)
      BY <1>1, <2>3 DEF Coming
    <3> QED
      BY <1>1, <1>3, <2>1, <3>1, GapStays
  <2> QED
    BY <2>2, <2>3
<1> QED
  BY <1>2, <1>4, GapByClient DEF Balanced

\* What was coming to the client is in its buffer, or it has missed a message.
LEMMA HubSendsBalances ==
  ASSUME TypeOK, HubClient, Balanced, HubSends
  PROVE  Balanced'
<1>c. PICK c \in Clients : c = hub.client
  BY DEF HubClient, HubSends
<1>1. /\ hub \in HubType /\ hub.at = "push" /\ c \in hub.targets /\ hub.msg # Reply
      /\ hub'.msg = hub.msg /\ hub'.at = "send" /\ hub'.targets = hub.targets \ {c}
      /\ UNCHANGED <<closing, due, got, queue, feed>>
  BY <1>c, Typed DEF HubSends, HubType, outside, Balanced, TargetsAreSentTo, EventsAreEvents
<1>2. \/ missed' = missed /\ send' = [send EXCEPT ![c] = Append(@, hub.msg)]
      \/ missed' = missed \cup {c} /\ send' = send
  BY <1>c DEF HubSends, Push
<1>3. EventsAreEvents' /\ TargetsAreSentTo'
  BY <1>1 DEF Balanced, EventsAreEvents, TargetsAreSentTo
<1>4. OnlyCloses
  BY <1>1 DEF OnlyCloses
<1>5. ASSUME NEW d \in Clients
      PROVE  Gap(d)'
  <2>1. Gap(d)
    BY GapByClient DEF Balanced
  <2>2. CASE d # c
    <3>1. send'[d] = send[d] /\ missed \subseteq missed'
      BY <1>2, <2>2 DEF TypeOK
    <3>2. Coming(d)' = Coming(d)
      BY <1>1, <2>2 DEF Coming
    <3> QED
      BY <1>1, <1>4, <2>1, <3>1, <3>2, GapStays
  <2>3. CASE d = c /\ c \in missed'
    BY <2>3 DEF Gap
  <2>4. CASE d = c /\ c \notin missed'
    <3>1. send'[c] = Append(send[c], hub.msg) /\ missed' = missed
      BY <1>1, <1>2, <2>4 DEF TypeOK
    <3>2. Coming(c) = <<hub.msg>> /\ Coming(c)' = <<>>
      BY <1>1 DEF Coming
    <3>3. /\ got[c] \in Seq(Messages) /\ send[c] \in Seq(Messages) /\ hub.msg \in Messages
          /\ Events(send[c]) \in Seq(Messages) /\ <<hub.msg>> \in Seq(Messages)
      <4>1. hub.msg \in Messages /\ got[c] \in Seq(Messages) /\ send[c] \in Seq(Messages)
            /\ Events(send[c]) \in Seq(Messages)
        BY <1>1, GapTyped
      <4> QED
        BY <4>1
    <3>4. Events(send'[c]) = Events(send[c]) \o <<hub.msg>>
      <4>1. Events(Append(send[c], hub.msg)) = Append(Events(send[c]), hub.msg)
        BY <1>1, <3>3, EventsOfAppend
      <4>2. Append(Events(send[c]), hub.msg) = Events(send[c]) \o <<hub.msg>>
        BY <3>3, AppendIsConcat
      <4> QED
        BY <3>1, <4>1, <4>2
    <3>5. got[c] \o (Events(send[c]) \o <<hub.msg>>) = (got[c] \o Events(send[c])) \o <<hub.msg>>
      BY <3>3, Shifted
    <3>6. got[c] \o Events(send'[c]) \in Seq(Messages)
      <4>1. Events(send[c]) \o <<hub.msg>> \in Seq(Messages)
        BY <3>3, ConcatProperties
      <4> QED
        BY <3>3, <3>4, <4>1, ConcatProperties
    <3>7. (got[c] \o Events(send'[c])) \o <<>> = got[c] \o Events(send'[c])
      BY <3>6, ConcatEmptySeq
    <3>8. Gap(c)' <=> (~closing'[c] /\ c \notin missed' =>
                         got'[c] \o Events(send'[c]) \o Coming(c)' = due'[c])
      BY DEF Gap
    <3>9. Gap(c) <=> (~closing[c] /\ c \notin missed =>
                         got[c] \o Events(send[c]) \o Coming(c) = due[c])
      BY DEF Gap
    <3> QED
      BY <1>1, <2>1, <2>4, <3>1, <3>2, <3>4, <3>5, <3>7, <3>8, <3>9
  <2> QED
    BY <2>2, <2>3, <2>4
<1> QED
  BY <1>3, <1>5, GapByClient DEF Balanced

\* When it has sent to all targets the hub forgets the message.
LEMMA HubLoopsBalances ==
  ASSUME TypeOK, Balanced, HubLoops
  PROVE  Balanced'
<1>1. /\ hub \in HubType /\ hub.targets = {} /\ hub'.targets = {} /\ hub'.at = "select"
      /\ UNCHANGED <<closing, due, got, send, missed, queue, feed>>
  BY Typed DEF HubLoops, HubType, outside, history
<1>2. EventsAreEvents' /\ TargetsAreSentTo'
  BY <1>1 DEF Balanced, EventsAreEvents, TargetsAreSentTo
<1>3. ASSUME NEW c \in Clients
      PROVE  Gap(c)'
  <2>1. Gap(c)
    BY GapByClient DEF Balanced
  <2>2. Coming(c)' = Coming(c) /\ OnlyCloses
    BY <1>1 DEF Coming, OnlyCloses
  <2> QED
    BY <1>1, <2>1, <2>2, GapStays
<1> QED
  BY <1>2, <1>3, GapByClient DEF Balanced

\* Every step keeps the balance.
LEMMA GapMoves == GapInv /\ [Next]_vars => Balanced'
<1> SUFFICES ASSUME GapInv, [Next]_vars PROVE Balanced'
  OBVIOUS
<1>i. TypeOK /\ HubClient /\ Balanced
  BY DEF GapInv, HubInv, Balanced
<1>1. CASE UNCHANGED vars
  <2>1. Apart
    BY <1>1 DEF vars, Apart, OnlyCloses
  <2> QED
    BY <1>i, <2>1, ApartBalances
<1>2. CASE \/ HubAdd \/ HubCloses \/ GetChannels \/ removeClient \/ HubStops
           \/ ShutdownStarts \/ ShutdownStep
           \/ \E c \in Clients : HubRegister(c) \/ HubUnregister(c)
  BY <1>i, <1>2, HubApart, ApartBalances
<1>3. CASE HubReceives \/ HubCopies \/ HubSends \/ HubLoops \/ \E c \in Clients : HubChecks(c)
  BY <1>i, <1>3, HubReceivesBalances, HubCopiesBalances, HubSendsBalances, HubLoopsBalances,
     HubChecksBalances
<1>4. CASE enqueueSerialized \/ \E ch \in Published : FeedReceives(ch)
  BY <1>i, <1>4, FeedBalances
<1>5. ASSUME NEW c \in Clients,
             \/ Connect(c) \/ HandlerStep(c) \/ WriterStep(c) \/ RegisterDone(c) \/ UnregisterDone(c)
             \/ PeerCloses(c) \/ \E ch \in Channels : Read(c, ch)
      PROVE  Balanced'
  <2>1. CASE ReplySends(c)
    BY <1>i, <2>1, ReplyBalances
  <2>2. CASE WriterSends(c)
    BY <1>i, <2>2, WriterBalances
  <2>3. CASE ~ReplySends(c) /\ ~WriterSends(c)
    BY <1>i, <1>5, <2>3, ClientApart, ApartBalances
  <2> QED
    BY <2>1, <2>2, <2>3
<1> QED
  BY <1>1, <1>2, <1>3, <1>4, <1>5 DEF Next, HubStep, Rendezvous

\* And it holds initially, when nothing has been sent.
LEMMA GapStarts == Init => Balanced
<1> SUFFICES ASSUME Init PROVE Balanced
  OBVIOUS
<1>1. EventsAreEvents /\ TargetsAreSentTo
  BY DEF Init, EventsAreEvents, TargetsAreSentTo
<1>2. ASSUME NEW c \in Clients
      PROVE  Gap(c)
  <2>1. got[c] = <<>> /\ send[c] = <<>> /\ due[c] = <<>> /\ Coming(c) = <<>>
    BY DEF Init, Coming
  <2>2. <<>> \o <<>> \o <<>> = <<>>
    OBVIOUS
  <2> QED
    BY <2>1, <2>2, EventsOfNone DEF Gap
<1> QED
  BY <1>1, <1>2, GapByClient DEF Balanced

-----------------------------------------------------------------------------
(* The theorems.                                                           *)

\* The inductive invariant holds of every reachable state.
THEOREM HubInvariance == Spec => []HubInv
<1>1. Init => HubInv
  BY HubStarts
<1>2. HubInv /\ [Next]_vars => HubInv'
  BY HubMoves
<1> QED
  BY <1>1, <1>2, PTL DEF Spec

\* The variables of the hub, of its clients and of its goroutines keep
\* their types; the queues stay within their capacities.
THEOREM HubKeepsTypes == Spec => []TypeOK
<1>1. HubInv => TypeOK
  BY DEF HubInv
<1> QED
  BY <1>1, HubInvariance, PTL

\* SafeSend never sends on a closed channel, whoever closes the client.
THEOREM SafeSendIsSafe == Spec => []SendsOpen
<1>1. HubInv => SendsOpen
  BY DEF HubInv
<1> QED
  BY <1>1, HubInvariance, PTL

\* removeClient leaves no client behind in a channel, whatever Subscribe
\* and Unsubscribe do meanwhile.
THEOREM NoClientStaysBehind == Spec => []NoGhost
<1>1. HubInv => NoGhost
  BY DEF HubInv
<1> QED
  BY <1>1, HubInvariance, PTL

\* The balance of what clients are due, have in their buffers and have got is kept
\* by every step.
THEOREM BalanceInvariance == Spec => []GapInv
<1>1. Init => GapInv
  BY HubStarts, GapStarts DEF GapInv, Balanced
<1>2. GapInv /\ [Next]_vars => GapInv'
  BY HubMoves, GapMoves DEF GapInv, Balanced
<1> QED
  BY <1>1, <1>2, PTL DEF Spec

\* A client that is not closing and whose buffer was never full has lost no event of
\* its channels: its socket, its buffer and the hub's hands hold all of them in the
\* order of the hub, however large the buffers and however replies come between.
THEOREM NothingIsSkipped == Spec => []NoSilentGap
<1>1. GapInv => NoSilentGap
  BY DEF GapInv
<1> QED
  BY <1>1, BalanceInvariance, PTL

=============================================================================
