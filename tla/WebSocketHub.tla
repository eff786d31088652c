----------------------------- MODULE WebSocketHub -----------------------------
(***************************************************************************)
(* The hub that fans events out to the browsers.  Its goroutines:          *)
(*   - Run, the hub's loop, which alone adds and removes clients and sends *)
(*     each message to the clients of its channel;                         *)
(*   - for each connection the handler, which registers the client,        *)
(*     subscribes it to its team and then is its ReadPump, and WritePump;  *)
(*   - one goroutine for each `go h.Unregister(client)' of a slow client;  *)
(*   - the Redis subscriber, the only producer of messages;                *)
(*   - Shutdown.                                                           *)
(* They share the maps under h.mu, each client's Send channel under its    *)
(* sendMu and the unbuffered register and unregister channels.             *)
(*                                                                         *)
(* A step is what one goroutine does between two points at which another   *)
(* can interfere.  A critical section is one step, except that Subscribe   *)
(* keeps h.mu between its second look at the client and the map update,    *)
(* and SafeSend keeps the read lock of sendMu between its two halves:      *)
(* Close, which takes neither, or only sendMu, may come between.           *)
(***************************************************************************)
EXTENDS Naturals, Sequences, FiniteSets

CONSTANTS Clients,     \* connections
          Channels,    \* channels
          Team,        \* the channel every connection is subscribed to
          QueueSize,   \* capacity of h.broadcast (256)
          SendSize,    \* capacity of client.Send (clientSendQueue, 64)
          Published,   \* bound: the channels events are published on
          MaxMessages, \* bound: messages received from Redis
          MaxAsks      \* bound: requests read from the connections

ASSUME ChannelAssumption == Team \in Channels /\ Published \subseteq Channels
ASSUME SizeAssumption == {QueueSize, SendSize} \subseteq Nat \ {0}
ASSUME BoundAssumption == {MaxMessages, MaxAsks} \subseteq Nat

VARIABLES hub,      \* what Run is doing
          clients,  \* h.clients
          channels, \* h.channels; a channel without clients has no entry
          mu,       \* the handler that holds h.mu, or Free
          queue,    \* h.broadcast
          handler,  \* where each connection's handler and ReadPump are
          asked,    \* number of requests the connections have sent
          own,      \* client.Channels
          closing,  \* client.closing, and whether client.Send is closed
          send,     \* the buffer of client.Send
          writer,   \* WritePump of each connection
          conn,     \* is the socket open?
          leaving,  \* number of pending `go h.Unregister(client)'
          shutdown, \* Shutdown's progress
          feed,     \* the Redis subscriber
          received, \* number of messages received from Redis
          due,      \* history: messages a client was a target of
          got,      \* history: messages written to the client's socket
          missed,   \* history: clients whose full buffer lost a message
          again     \* history: clients that asked for a channel they had

vars == <<hub, clients, channels, mu, queue, handler, asked, own, closing, send,
          writer, conn, leaving, shutdown, feed, received, due, got, missed, again>>

Free     == [lock |-> "free"]
Nobody   == [client |-> "none"]
Reply    == [id |-> 0, ch |-> Team]  \* a protocol message; ids of events are not 0

ASSUME FreeAssumption == Free \notin Clients

Messages == [id: 0..MaxMessages, ch: Channels]

(* The handler's places, in the order of the code.  "ack" and "acking" are *)
(* the two halves of sendProtocolMessage's SafeSend.                       *)
Places == {"idle", "register", "subscribe", "add", "lock", "locked", "ack", "acking",
           "read", "unsubscribe", "unlist", "unregister", "close", "wait", "returned"}
HubPlaces == {"select", "add", "close", "snapshot", "remove", "copy", "send", "push", "stopped"}

TypeOK ==
  /\ hub \in [at: HubPlaces, client: Clients \cup {Nobody}, chans: SUBSET Channels,
              targets: SUBSET Clients, msg: Messages]
  /\ clients \subseteq Clients
  /\ channels \in [Channels -> SUBSET Clients]
  /\ mu \in Clients \cup {Free}
  /\ queue \in Seq(Messages) /\ Len(queue) <= QueueSize
  /\ handler \in [Clients -> [at: Places, ch: Channels]]
  /\ asked \in 0..MaxAsks
  /\ own \in [Clients -> SUBSET Channels]
  /\ closing \in [Clients -> BOOLEAN]
  /\ send \in [Clients -> Seq(Messages)] /\ \A c \in Clients : Len(send[c]) <= SendSize
  /\ writer \in [Clients -> {"none", "running", "done"}]
  /\ conn \in [Clients -> {"open", "closed"}]
  /\ leaving \in [Clients -> Nat]
  /\ shutdown \in [at: {"no", "copy", "close"}, left: SUBSET Clients]
  /\ feed \in [at: {"consume", "sending"}, msg: Messages]
  /\ received \in 0..MaxMessages
  /\ due \in [Clients -> Seq(Messages)] /\ got \in [Clients -> Seq(Messages)]
  /\ missed \subseteq Clients /\ again \subseteq Clients

Init ==
  /\ hub = [at |-> "select", client |-> Nobody, chans |-> {}, targets |-> {}, msg |-> Reply]
  /\ clients = {} /\ channels = [ch \in Channels |-> {}] /\ mu = Free /\ queue = <<>>
  /\ handler = [c \in Clients |-> [at |-> "idle", ch |-> Team]]
  /\ asked = 0
  /\ own = [c \in Clients |-> {}]
  /\ closing = [c \in Clients |-> FALSE]
  /\ send = [c \in Clients |-> <<>>]
  /\ writer = [c \in Clients |-> "none"]
  /\ conn = [c \in Clients |-> "open"]
  /\ leaving = [c \in Clients |-> 0]
  /\ shutdown = [at |-> "no", left |-> {}]
  /\ feed = [at |-> "consume", msg |-> Reply]
  /\ received = 0
  /\ due = [c \in Clients |-> <<>>] /\ got = [c \in Clients |-> <<>>]
  /\ missed = {} /\ again = {}

-----------------------------------------------------------------------------
(* The client.                                                             *)

done == shutdown.at # "no"

At(c, place) == handler[c].at = place
Goto(c, place) == handler' = [handler EXCEPT ![c].at = place]

(* SafeSend holds the read lock of sendMu between its look at closing and  *)
(* its attempt to send.                                                    *)
SendLocked(c) == (hub.at = "push" /\ hub.client = c) \/ At(c, "acking")

(* Mutant of Close: it does not take sendMu.                               *)
CloseUnlocked(c) == closing' = [closing EXCEPT ![c] = TRUE]

Close(c) ==
  /\ ~SendLocked(c)
  /\ closing' = [closing EXCEPT ![c] = TRUE]

(* Mutant of Push: a full buffer loses the message and reports no error.   *)
PushSilently(c, msg) ==
  IF Len(send[c]) < SendSize
  THEN send' = [send EXCEPT ![c] = Append(@, msg)] /\ UNCHANGED <<leaving, missed>>
  ELSE UNCHANGED <<send, leaving, missed>>

(* The second half of the SafeSend of an event: with a full buffer the     *)
(* client is told to go.                                                   *)
Push(c, msg) ==
  IF Len(send[c]) < SendSize
  THEN send' = [send EXCEPT ![c] = Append(@, msg)] /\ UNCHANGED <<leaving, missed>>
  ELSE /\ leaving' = [leaving EXCEPT ![c] = @ + 1]
       /\ missed' = missed \cup {c}
       /\ UNCHANGED send

history == <<due, got, missed, again>>
outside == <<shutdown, feed, received>>

-----------------------------------------------------------------------------
(* Subscriptions.  Each action is one step of Subscribe or Unsubscribe in  *)
(* the goroutine of the connection's handler.                              *)

(* Where Subscribe returns to: the first one is the handler's own, after   *)
(* which it starts WritePump and becomes ReadPump; the others are          *)
(* requests, which are acknowledged whatever Subscribe did.                *)
AfterSubscribe(c) ==
  IF writer[c] = "none"
  THEN Goto(c, "read") /\ writer' = [writer EXCEPT ![c] = "running"]
  ELSE Goto(c, "ack") /\ UNCHANGED writer

SubscribeStart(c) ==
  /\ At(c, "subscribe")
  /\ IF closing[c] THEN AfterSubscribe(c) ELSE Goto(c, "add") /\ UNCHANGED writer
  /\ UNCHANGED <<hub, clients, channels, mu, queue, asked, own, closing, send, conn, leaving>>
  /\ UNCHANGED <<outside, history>>

AddChannel(c) ==
  /\ At(c, "add")
  /\ own' = [own EXCEPT ![c] = @ \cup {handler[c].ch}]
  /\ Goto(c, "lock")
  /\ UNCHANGED <<hub, clients, channels, mu, queue, asked, closing, send, writer, conn, leaving>>
  /\ UNCHANGED <<outside, history>>

(* Mutant of SubscribeLock: no second look at the client.                  *)
SubscribeLockTrusts(c) ==
  /\ At(c, "lock") /\ mu = Free
  /\ mu' = c /\ Goto(c, "locked")
  /\ UNCHANGED <<hub, clients, channels, queue, asked, own, closing, send, writer, conn, leaving>>
  /\ UNCHANGED <<outside, history>>

SubscribeLock(c) ==
  /\ At(c, "lock") /\ mu = Free
  /\ IF closing[c]
     THEN /\ own' = [own EXCEPT ![c] = @ \ {handler[c].ch}]
          /\ AfterSubscribe(c)
          /\ UNCHANGED mu
     ELSE mu' = c /\ Goto(c, "locked") /\ UNCHANGED <<own, writer>>
  /\ UNCHANGED <<hub, clients, channels, queue, asked, closing, send, conn, leaving>>
  /\ UNCHANGED <<outside, history>>

SubscribeList(c) ==
  /\ At(c, "locked")
  /\ channels' = [channels EXCEPT ![handler[c].ch] = @ \cup {c}]
  /\ mu' = Free
  /\ AfterSubscribe(c)
  /\ UNCHANGED <<hub, clients, queue, asked, own, closing, send, conn, leaving>>
  /\ UNCHANGED <<outside, history>>

RemoveChannel(c) ==
  /\ At(c, "unsubscribe")
  /\ own' = [own EXCEPT ![c] = @ \ {handler[c].ch}]
  /\ Goto(c, "unlist")
  /\ UNCHANGED <<hub, clients, channels, mu, queue, asked, closing, send, writer, conn, leaving>>
  /\ UNCHANGED <<outside, history>>

Unsubscribe(c) ==
  /\ At(c, "unlist") /\ mu = Free
  /\ channels' = [channels EXCEPT ![handler[c].ch] = @ \ {c}]
  /\ Goto(c, "read")
  /\ UNCHANGED <<hub, clients, mu, queue, asked, own, closing, send, writer, conn, leaving>>
  /\ UNCHANGED <<outside, history>>

-----------------------------------------------------------------------------
(* The handler of a connection and its ReadPump.                           *)

(* The connection is authenticated and calls Register.                     *)
Connect(c) ==
  /\ At(c, "idle")
  /\ Goto(c, "register")
  /\ UNCHANGED <<hub, clients, channels, mu, queue, asked, own, closing, send, writer, conn, leaving>>
  /\ UNCHANGED <<outside, history>>

(* Register when the hub no longer receives.                               *)
RegisterDone(c) ==
  /\ At(c, "register") /\ done
  /\ Close(c)
  /\ Goto(c, "subscribe")
  /\ UNCHANGED <<hub, clients, channels, mu, queue, asked, own, send, writer, conn, leaving>>
  /\ UNCHANGED <<outside, history>>

(* A request arrives: subscribe, refused by the authorizer, unsubscribe.   *)
Read(c, ch) ==
  /\ At(c, "read") /\ conn[c] = "open" /\ asked < MaxAsks
  /\ asked' = asked + 1
  /\ \E place \in {"subscribe", "ack", "unsubscribe"} :
       /\ handler' = [handler EXCEPT ![c] = [at |-> place, ch |-> ch]]
       /\ again' = IF place = "subscribe" /\ ch \in own[c] THEN again \cup {c} ELSE again
  /\ UNCHANGED <<hub, clients, channels, mu, queue, own, closing, send, writer, conn, leaving>>
  /\ UNCHANGED <<outside, due, got, missed>>

(* sendProtocolMessage: the reply of a client that is closing, or whose    *)
(* buffer is full, is dropped.                                             *)
ReplyChecks(c) ==
  /\ At(c, "ack")
  /\ Goto(c, IF closing[c] THEN "read" ELSE "acking")
  /\ UNCHANGED <<hub, clients, channels, mu, queue, asked, own, closing, send, writer, conn, leaving>>
  /\ UNCHANGED <<outside, history>>

ReplySends(c) ==
  /\ At(c, "acking")
  /\ send' = IF Len(send[c]) < SendSize THEN [send EXCEPT ![c] = Append(@, Reply)] ELSE send
  /\ Goto(c, "read")
  /\ UNCHANGED <<hub, clients, channels, mu, queue, asked, own, closing, writer, conn, leaving>>
  /\ UNCHANGED <<outside, history>>

ReadFails(c) ==
  /\ At(c, "read") /\ conn[c] = "closed"
  /\ Goto(c, "unregister")
  /\ UNCHANGED <<hub, clients, channels, mu, queue, asked, own, closing, send, writer, conn, leaving>>
  /\ UNCHANGED <<outside, history>>

(* Mutant of UnregisterDone: only the hub can end an Unregister.           *)
UnregisterWaits(c) == FALSE /\ UNCHANGED vars

(* Unregister when the hub no longer receives: of ReadPump, and of a       *)
(* goroutine started for a slow client.                                    *)
UnregisterDone(c) ==
  /\ done
  /\ Close(c)
  /\ \/ At(c, "unregister") /\ Goto(c, "close") /\ UNCHANGED leaving
     \/ leaving[c] > 0 /\ leaving' = [leaving EXCEPT ![c] = @ - 1] /\ UNCHANGED handler
  /\ UNCHANGED <<hub, clients, channels, mu, queue, asked, own, send, writer, conn>>
  /\ UNCHANGED <<outside, history>>

(* The end of ReadPump and the handler's own Close.                        *)
HandlerCloses(c) ==
  /\ At(c, "close")
  /\ Close(c)
  /\ conn' = [conn EXCEPT ![c] = "closed"]
  /\ Goto(c, "wait")
  /\ UNCHANGED <<hub, clients, channels, mu, queue, asked, own, send, writer, leaving>>
  /\ UNCHANGED <<outside, history>>

HandlerReturns(c) ==
  /\ At(c, "wait") /\ writer[c] = "done"
  /\ Goto(c, "returned")
  /\ UNCHANGED <<hub, clients, channels, mu, queue, asked, own, closing, send, writer, conn, leaving>>
  /\ UNCHANGED <<outside, history>>

-----------------------------------------------------------------------------
(* WritePump.                                                              *)

WriterSends(c) ==
  /\ writer[c] = "running" /\ conn[c] = "open" /\ send[c] # <<>>
  /\ send' = [send EXCEPT ![c] = Tail(@)]
  /\ got' = [got EXCEPT ![c] = IF Head(send[c]) = Reply THEN @ ELSE Append(@, Head(send[c]))]
  /\ UNCHANGED <<hub, clients, channels, mu, queue, handler, asked, own, closing, writer, conn, leaving>>
  /\ UNCHANGED <<outside, due, missed, again>>

WriterStops(c) ==
  /\ writer[c] = "running"
  /\ writer' = [writer EXCEPT ![c] = "done"]
  /\ conn' = [conn EXCEPT ![c] = "closed"]
  /\ UNCHANGED <<hub, clients, channels, mu, queue, handler, asked, own, closing, send, leaving>>
  /\ UNCHANGED <<outside, history>>

(* A closed Send that is empty ends the pump; so does a message or a ping  *)
(* that cannot be written.                                                 *)
WriterCloses(c) == closing[c] /\ send[c] = <<>> /\ WriterStops(c)
WriterNotices(c) == conn[c] = "closed" /\ WriterStops(c)

-----------------------------------------------------------------------------
(* Run, the hub's loop.                                                    *)

HubGoto(place) == hub' = [hub EXCEPT !.at = place]

HubRegister(c) ==
  /\ hub.at = "select" /\ At(c, "register")
  /\ hub' = [hub EXCEPT !.at = "add", !.client = c]
  /\ Goto(c, "subscribe")
  /\ UNCHANGED <<clients, channels, mu, queue, asked, own, closing, send, writer, conn, leaving>>
  /\ UNCHANGED <<outside, history>>

HubAdd ==
  /\ hub.at = "add" /\ mu = Free
  /\ clients' = clients \cup {hub.client}
  /\ hub' = [hub EXCEPT !.at = "select", !.client = Nobody]
  /\ UNCHANGED <<channels, mu, queue, handler, asked, own, closing, send, writer, conn, leaving>>
  /\ UNCHANGED <<outside, history>>

HubUnregister(c) ==
  /\ hub.at = "select"
  /\ hub' = [hub EXCEPT !.at = "close", !.client = c]
  /\ \/ At(c, "unregister") /\ Goto(c, "close") /\ UNCHANGED leaving
     \/ leaving[c] > 0 /\ leaving' = [leaving EXCEPT ![c] = @ - 1] /\ UNCHANGED handler
  /\ UNCHANGED <<clients, channels, mu, queue, asked, own, closing, send, writer, conn>>
  /\ UNCHANGED <<outside, history>>

(* removeClient: Close, the copy of the client's channels, the removal.    *)
HubCloses ==
  /\ hub.at = "close"
  /\ Close(hub.client)
  /\ HubGoto("snapshot")
  /\ UNCHANGED <<clients, channels, mu, queue, handler, asked, own, send, writer, conn, leaving>>
  /\ UNCHANGED <<outside, history>>

GetChannels ==
  /\ hub.at = "snapshot"
  /\ hub' = [hub EXCEPT !.at = "remove", !.chans = own[hub.client]]
  /\ UNCHANGED <<clients, channels, mu, queue, handler, asked, own, closing, send, writer, conn, leaving>>
  /\ UNCHANGED <<outside, history>>

removeClient ==
  /\ hub.at = "remove" /\ mu = Free
  /\ clients' = clients \ {hub.client}
  /\ channels' = IF hub.client \in clients
                 THEN [ch \in Channels |-> IF ch \in hub.chans
                                           THEN channels[ch] \ {hub.client} ELSE channels[ch]]
                 ELSE channels
  /\ hub' = [hub EXCEPT !.at = "select", !.client = Nobody, !.chans = {}]
  /\ UNCHANGED <<mu, queue, handler, asked, own, closing, send, writer, conn, leaving>>
  /\ UNCHANGED <<outside, history>>

HubReceives ==
  /\ hub.at = "select" /\ queue # <<>>
  /\ hub' = [hub EXCEPT !.at = "copy", !.msg = Head(queue)]
  /\ queue' = Tail(queue)
  /\ UNCHANGED <<clients, channels, mu, handler, asked, own, closing, send, writer, conn, leaving>>
  /\ UNCHANGED <<outside, history>>

(* broadcastToChannel copies the clients of the channel under h.mu and     *)
(* sends without it.                                                       *)
HubCopies ==
  /\ hub.at = "copy" /\ mu = Free
  /\ hub' = [hub EXCEPT !.at = "send", !.targets = channels[hub.msg.ch]]
  /\ due' = [c \in Clients |-> IF c \in channels[hub.msg.ch] THEN Append(due[c], hub.msg) ELSE due[c]]
  /\ UNCHANGED <<clients, channels, mu, queue, handler, asked, own, closing, send, writer, conn, leaving>>
  /\ UNCHANGED <<outside, got, missed, again>>

HubChecks(c) ==
  /\ hub.at = "send" /\ c \in hub.targets
  /\ IF closing[c]
     THEN /\ hub' = [hub EXCEPT !.targets = @ \ {c}]
          /\ leaving' = [leaving EXCEPT ![c] = @ + 1]
     ELSE hub' = [hub EXCEPT !.at = "push", !.client = c] /\ UNCHANGED leaving
  /\ UNCHANGED <<clients, channels, mu, queue, handler, asked, own, closing, send, writer, conn>>
  /\ UNCHANGED <<outside, history>>

HubSends ==
  /\ hub.at = "push"
  /\ Push(hub.client, hub.msg)
  /\ hub' = [hub EXCEPT !.at = "send", !.targets = @ \ {hub.client}, !.client = Nobody]
  /\ UNCHANGED <<clients, channels, mu, queue, handler, asked, own, closing, writer, conn>>
  /\ UNCHANGED <<outside, due, got, again>>

HubLoops ==
  /\ hub.at = "send" /\ hub.targets = {}
  /\ hub' = [hub EXCEPT !.at = "select", !.msg = Reply]
  /\ UNCHANGED <<clients, channels, mu, queue, handler, asked, own, closing, send, writer, conn, leaving>>
  /\ UNCHANGED <<outside, history>>

HubStops ==
  /\ hub.at = "select" /\ done
  /\ HubGoto("stopped")
  /\ UNCHANGED <<clients, channels, mu, queue, handler, asked, own, closing, send, writer, conn, leaving>>
  /\ UNCHANGED <<outside, history>>

-----------------------------------------------------------------------------
(* Shutdown, which runs once.                                              *)

ShutdownStarts ==
  /\ shutdown.at = "no"
  /\ shutdown' = [shutdown EXCEPT !.at = "copy"]
  /\ UNCHANGED <<hub, clients, channels, mu, queue, handler, asked, own, closing, send, writer>>
  /\ UNCHANGED <<conn, leaving, feed, received, history>>

ShutdownCopies ==
  /\ shutdown.at = "copy" /\ mu = Free
  /\ shutdown' = [at |-> "close", left |-> clients]
  /\ UNCHANGED <<hub, clients, channels, mu, queue, handler, asked, own, closing, send, writer>>
  /\ UNCHANGED <<conn, leaving, feed, received, history>>

(* Mutant of ShutdownCloses: the copied clients are left alone.            *)
ShutdownForgets(c) ==
  /\ shutdown.at = "close" /\ c \in shutdown.left
  /\ shutdown' = [shutdown EXCEPT !.left = @ \ {c}]
  /\ UNCHANGED <<hub, clients, channels, mu, queue, handler, asked, own, closing, send, writer>>
  /\ UNCHANGED <<conn, leaving, feed, received, history>>

ShutdownCloses(c) ==
  /\ shutdown.at = "close" /\ c \in shutdown.left
  /\ Close(c)
  /\ shutdown' = [shutdown EXCEPT !.left = @ \ {c}]
  /\ UNCHANGED <<hub, clients, channels, mu, queue, handler, asked, own, send, writer>>
  /\ UNCHANGED <<conn, leaving, feed, received, history>>

-----------------------------------------------------------------------------
(* The Redis subscriber: consume receives and forwards one message at a    *)
(* time.  While the connection is down, until run has subscribed again,    *)
(* and after Stop nothing is received: what Redis publishes then is lost.  *)

FeedReceives(ch) ==
  /\ feed.at = "consume" /\ received < MaxMessages
  /\ received' = received + 1
  /\ feed' = [at |-> "sending", msg |-> [id |-> received + 1, ch |-> ch]]
  /\ UNCHANGED <<hub, clients, channels, mu, queue, handler, asked, own, closing, send, writer>>
  /\ UNCHANGED <<conn, leaving, shutdown, history>>

(* Mutant of enqueueSerialized: it only waits for room.                    *)
enqueueSerializedWaits ==
  /\ feed.at = "sending" /\ Len(queue) < QueueSize
  /\ queue' = Append(queue, feed.msg)
  /\ feed' = [at |-> "consume", msg |-> Reply]
  /\ UNCHANGED <<hub, clients, channels, mu, handler, asked, own, closing, send, writer>>
  /\ UNCHANGED <<conn, leaving, shutdown, received, history>>

enqueueSerialized ==
  /\ feed.at = "sending"
  /\ \/ Len(queue) < QueueSize /\ queue' = Append(queue, feed.msg)
     \/ done /\ UNCHANGED queue
  /\ feed' = [at |-> "consume", msg |-> Reply]
  /\ UNCHANGED <<hub, clients, channels, mu, handler, asked, own, closing, send, writer>>
  /\ UNCHANGED <<conn, leaving, shutdown, received, history>>

(* The browser goes away, or a write or a pong takes too long.             *)
PeerCloses(c) ==
  /\ ~At(c, "idle") /\ conn[c] = "open"
  /\ conn' = [conn EXCEPT ![c] = "closed"]
  /\ UNCHANGED <<hub, clients, channels, mu, queue, handler, asked, own, closing, send, writer>>
  /\ UNCHANGED <<leaving, outside, history>>

-----------------------------------------------------------------------------
HubStep == HubAdd \/ HubCloses \/ GetChannels \/ removeClient \/ HubReceives
           \/ HubCopies \/ HubSends \/ HubLoops \/ \E c \in Clients : HubChecks(c)

HandlerStep(c) ==
  \/ SubscribeStart(c) \/ AddChannel(c) \/ SubscribeLock(c) \/ SubscribeList(c)
  \/ RemoveChannel(c) \/ Unsubscribe(c)
  \/ ReplyChecks(c) \/ ReplySends(c) \/ ReadFails(c) \/ HandlerCloses(c) \/ HandlerReturns(c)

WriterStep(c) == WriterSends(c) \/ WriterCloses(c) \/ WriterNotices(c)
ShutdownStep == ShutdownCopies \/ \E c \in Clients : ShutdownCloses(c)
Rendezvous(c) == HubRegister(c) \/ RegisterDone(c) \/ HubUnregister(c) \/ UnregisterDone(c)

Next ==
  \/ HubStep \/ HubStops \/ ShutdownStep \/ ShutdownStarts
  \/ enqueueSerialized \/ \E ch \in Published : FeedReceives(ch)
  \/ \E c \in Clients :
       \/ Connect(c) \/ HandlerStep(c) \/ WriterStep(c) \/ Rendezvous(c)
       \/ PeerCloses(c) \/ \E ch \in Channels : Read(c, ch)

(* A goroutine that can run does run in the end.  Whatever depends on the  *)
(* browser, on Redis or on the operator need not happen.  Go's select      *)
(* picks at random among the cases that are ready, so that neither side of *)
(* a rendezvous waits for ever for a hub that keeps coming back.           *)
Spec ==
  /\ Init /\ [][Next]_vars
  /\ WF_vars(HubStep \/ HubStops) /\ WF_vars(ShutdownStep) /\ WF_vars(enqueueSerialized)
  /\ \A c \in Clients : WF_vars(HandlerStep(c)) /\ WF_vars(WriterStep(c)) /\ SF_vars(Rendezvous(c))

-----------------------------------------------------------------------------
(* Nothing is sent on a closed Send channel, which would be a panic: while *)
(* SafeSend stands between its look at closing and its send, nobody closes.*)
SendsOpen == \A c \in Clients : SendLocked(c) => ~closing[c]

(* h.channels holds registered clients only: a client whose removal has    *)
(* run is in no channel, although Subscribe takes the lock after it looked *)
(* at the client and removeClient copies the client's channels before it   *)
(* takes it.  An Unsubscribe under way takes its client out itself.  It    *)
(* does not hold of a client that asked for a channel it already had.      *)
Registering(c) == hub.at = "add" /\ hub.client = c
Leaving(c, ch) == At(c, "unlist") /\ handler[c].ch = ch
Listed(c, ch) == c \in clients \/ Registering(c) \/ Leaving(c, ch)
NoGhost == \A ch \in Channels : \A c \in channels[ch] \ again : Listed(c, ch)

(* A client that has lost no message gets those of its channels in the     *)
(* order of the hub, without a gap: what was written to its socket, what   *)
(* its buffer holds and what the hub is about to send it are all of them.  *)
Events(msgs) ==
  LET seen[n \in 0..Len(msgs)] ==
        IF n = 0 THEN <<>>
        ELSE IF msgs[n] = Reply THEN seen[n - 1] ELSE Append(seen[n - 1], msgs[n])
  IN  seen[Len(msgs)]
Coming(c) == IF c \in hub.targets THEN <<hub.msg>> ELSE <<>>
NoSilentGap ==
  \A c \in Clients : ~closing[c] /\ c \notin missed =>
    got[c] \o Events(send[c]) \o Coming(c) = due[c]

(* Once the socket is closed the handler returns: neither a full buffer,   *)
(* a busy hub nor a hub that has stopped keeps its goroutines.             *)
HandlerEnds ==
  \A c \in Clients : conn[c] = "closed" /\ ~At(c, "idle") ~> At(c, "returned")

(* After Shutdown every connection ends, except one that the hub took out  *)
(* of Register while Shutdown ran: it may miss Shutdown's list.            *)
ShutdownEndsAll ==
  \A c \in Clients : c \in shutdown.left ~> At(c, "returned")

(* The subscriber never stays blocked on the hub's queue.                  *)
FeedIsFree == feed.at = "sending" ~> feed.at # "sending"

-----------------------------------------------------------------------------
(* The inductive invariant behind NoGhost.                                 *)

(* Between these places the hub has a client in hand.                      *)
HubClient == hub.at \in {"add", "close", "snapshot", "remove", "push"} => hub.client \in Clients

(* A connection that is not registered yet has left no trace.              *)
Outside(c) == At(c, "idle") \/ At(c, "register")
OutsideIsUnknown ==
  \A c \in Clients : Outside(c) =>
    /\ c \notin clients /\ ~Registering(c)
    /\ own[c] = {} /\ handler[c].ch = Team
    /\ \A ch \in Channels : c \notin channels[ch]

(* A client that the hub does not hold any more, or never took, is closed: *)
(* that is what Subscribe looks at.                                        *)
GoneIsClosing ==
  \A c \in Clients : ~Outside(c) /\ c \notin clients /\ ~Registering(c) => closing[c]
RemovalCloses == hub.at \in {"snapshot", "remove"} => closing[hub.client]

(* Who is about to enter a channel holds h.mu, and the hub holds him.      *)
LockIsHeld ==
  \A c \in Clients : /\ At(c, "locked") => mu = c
                     /\ At(c, "locked") => c \in clients \/ Registering(c)
OwnsAsked == \A c \in Clients : At(c, "lock") \/ At(c, "locked") => handler[c].ch \in own[c]
Asking(c) == handler[c].at \in {"subscribe", "add", "lock", "locked"}
NotYetListed == \A c \in Clients \ again : Asking(c) => c \notin channels[handler[c].ch]

(* The client's own list covers the channels it is in, and so does the     *)
(* copy that removeClient made of it.                                      *)
OwnsListed ==
  \A ch \in Channels : \A c \in channels[ch] \ again : ch \in own[c] \/ Leaving(c, ch)
CopyCovers ==
  hub.at = "remove" =>
    /\ \A ch \in Channels : hub.client \in channels[ch] \ again =>
         ch \in hub.chans \/ Leaving(hub.client, ch)
    /\ At(hub.client, "locked") => handler[hub.client].ch \in hub.chans

HubInv == /\ TypeOK /\ HubClient /\ SendsOpen /\ OutsideIsUnknown /\ GoneIsClosing /\ RemovalCloses
          /\ LockIsHeld /\ OwnsAsked /\ NotYetListed /\ OwnsListed /\ CopyCovers /\ NoGhost

-----------------------------------------------------------------------------
(* The inductive invariant behind NoSilentGap: what is on its way to the   *)
(* clients is an event, and a broadcast has targets only while it sends.   *)
EventsAreEvents ==
  /\ \A n \in 1..Len(queue) : queue[n] # Reply
  /\ feed.at = "sending" => feed.msg # Reply
  /\ hub.at \in {"copy", "send", "push"} => hub.msg # Reply
TargetsAreSentTo ==
  /\ hub.targets # {} => hub.at \in {"send", "push"}
  /\ hub.at = "push" => hub.client \in hub.targets

GapInv == HubInv /\ EventsAreEvents /\ TargetsAreSentTo /\ NoSilentGap
=============================================================================
