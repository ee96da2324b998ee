---------------------------- MODULE RealtimeHub ----------------------------
(***************************************************************************)
(* The realtime server: the Hub goroutine that owns the registered clients *)
(* and the subscriptions, the ReadPump and WritePump goroutines of each    *)
(* WebSocket connection, and the NATS callback that feeds the Hub.         *)
(*                                                                         *)
(* A client here is one connection: a browser that reconnects is another   *)
(* client.  One iteration of the Hub's select is one step.  Its loop over  *)
(* the subscribers of a job sends without blocking, and what a WritePump   *)
(* does meanwhile commutes with the rest of the loop.  The messages are    *)
(* numbered in the order in which the Hub takes them from its channel.     *)
(***************************************************************************)
EXTENDS Integers, Sequences

CONSTANTS
    Clients,         \* connections
    Jobs,            \* job ids
    NoJob,           \* no subscription is being made
    SendCap,         \* sendBufSize: capacity of a client's send channel
    BroadcastCap,    \* capacity of the Hub's broadcast channel
    MaxMessages,     \* bound: messages ever published
    MaxSubscribes    \* bound: subscribe frames ever read

ASSUME HubAssumption ==
    /\ NoJob \notin Jobs
    /\ SendCap \in Nat \ {0}
    /\ BroadcastCap \in Nat \ {0}
    /\ MaxMessages \in Nat
    /\ MaxSubscribes \in Nat

VARIABLES
    hub,        \* the goroutine in Run: running, or dead of a panic
    clients,    \* Hub.clients
    subs,       \* Hub.subscriptions; a job without entry has no subscriber
    broadcast,  \* the broadcast channel: the jobs of the messages in it
    chan,       \* each client's send channel: none, open or closed
    send,       \* the messages in it
    reader,     \* ServeWS until the client is registered, then ReadPump
    wants,      \* the job ReadPump is sending a subscribeMsg for
    writer,     \* WritePump
    conn,       \* the connection, as far as this side has closed it
    frames,     \* subscribe frames read so far, for the bound
    log,        \* history: the jobs of the messages the Hub has fanned out
    from,       \* history: Len(log) when a client was subscribed to a job
    until,      \* history: Len(log) when a client's channel was closed
    evicted,    \* history: the clients the Hub dropped for a full buffer
    out         \* history: the messages written to a connection

hubVars == <<hub, clients, subs>>
historyVars == <<log, from, until, evicted>>
vars == <<hub, clients, subs, broadcast, chan, send, reader, wants, writer, conn, frames,
          log, from, until, evicted, out>>

Never == MaxMessages  \* a message number above all those that can come

ReaderSteps == {"none", "registering", "reading", "subscribing", "leaving", "closing", "done"}

Init ==
    /\ hub = "running"
    /\ clients = {}
    /\ subs = [j \in Jobs |-> {}]
    /\ broadcast = <<>>
    /\ chan = [c \in Clients |-> "none"]
    /\ send = [c \in Clients |-> <<>>]
    /\ reader = [c \in Clients |-> "none"]
    /\ wants = [c \in Clients |-> NoJob]
    /\ writer = [c \in Clients |-> "none"]
    /\ conn = [c \in Clients |-> "none"]
    /\ frames = 0
    /\ log = <<>>
    /\ from = [c \in Clients |-> [j \in Jobs |-> Never]]
    /\ until = [c \in Clients |-> Never]
    /\ evicted = {}
    /\ out = [c \in Clients |-> <<>>]

---------------------------------------------------------------------------
(* ServeWS and NATSBridge. *)

(* ServeWS has upgraded the request, made the client and its channel, and  *)
(* waits for the Hub to take it from the register channel.                 *)
Connect(c) ==
    /\ hub = "running"
    /\ reader[c] = "none"
    /\ reader' = [reader EXCEPT ![c] = "registering"]
    /\ chan' = [chan EXCEPT ![c] = "open"]
    /\ conn' = [conn EXCEPT ![c] = "open"]
    /\ UNCHANGED <<hubVars, broadcast, send, wants, writer, frames, historyVars, out>>

(* The NATS callback passes on a progress message of job j; it waits while *)
(* the broadcast channel is full.                                          *)
Publish(j) ==
    /\ hub = "running"
    /\ Len(log) + Len(broadcast) < MaxMessages
    /\ Len(broadcast) < BroadcastCap
    /\ broadcast' = Append(broadcast, j)
    /\ UNCHANGED <<hubVars, chan, send, reader, wants, writer, conn, frames, historyVars, out>>

---------------------------------------------------------------------------
(* Hub.Run, one action per case of its select. *)

HubRegister(c) ==
    /\ hub = "running"
    /\ reader[c] = "registering"
    /\ clients' = clients \cup {c}
    /\ reader' = [reader EXCEPT ![c] = "reading"]
    /\ writer' = [writer EXCEPT ![c] = "running"]
    /\ UNCHANGED <<hub, subs, broadcast, chan, send, wants, conn, frames, historyVars, out>>

(* Seeded fault: the subscriptions of a client that left are kept. *)
HubUnregisterOnly(c) ==
    /\ hub = "running"
    /\ reader[c] = "leaving"
    /\ reader' = [reader EXCEPT ![c] = "closing"]
    /\ IF c \in clients
       THEN /\ clients' = clients \ {c}
            /\ chan' = [chan EXCEPT ![c] = "closed"]
            /\ until' = [until EXCEPT ![c] = Len(log)]
       ELSE UNCHANGED <<clients, chan, until>>
    /\ UNCHANGED <<hub, subs, broadcast, send, wants, writer, conn, frames, log, from, evicted, out>>

(* A client that was evicted is not registered any more: nothing happens.  *)
HubUnregister(c) ==
    /\ hub = "running"
    /\ reader[c] = "leaving"
    /\ reader' = [reader EXCEPT ![c] = "closing"]
    /\ IF c \in clients
       THEN /\ clients' = clients \ {c}
            /\ chan' = [chan EXCEPT ![c] = "closed"]
            /\ subs' = [j \in Jobs |-> subs[j] \ {c}]
            /\ until' = [until EXCEPT ![c] = Len(log)]
       ELSE UNCHANGED <<clients, chan, subs, until>>
    /\ UNCHANGED <<hub, broadcast, send, wants, writer, conn, frames, log, from, evicted, out>>

(* The client is entered whether it is registered or not. *)
HubSubscribe(c) ==
    LET j == wants[c] IN
    /\ hub = "running"
    /\ reader[c] = "subscribing"
    /\ subs' = [subs EXCEPT ![j] = @ \cup {c}]
    /\ from' = IF c \in clients \ subs[j] THEN [from EXCEPT ![c][j] = Len(log)] ELSE from
    /\ reader' = [reader EXCEPT ![c] = "reading"]
    /\ wants' = [wants EXCEPT ![c] = NoJob]
    /\ UNCHANGED <<hub, clients, broadcast, chan, send, writer, conn, frames, log, until, evicted, out>>

(* A send on a closed channel panics, in a select with a default too, and  *)
(* the panic of a goroutine ends the process.                              *)
HubPanic ==
    /\ hub = "running"
    /\ broadcast # <<>>
    /\ \E c \in subs[Head(broadcast)] : chan[c] = "closed"
    /\ hub' = "panicked"
    /\ UNCHANGED <<clients, subs, broadcast, chan, send, reader, wants, writer, conn, frames,
                   historyVars, out>>

(* Seeded fault: off by one. *)
FullLate(j) == {c \in subs[j] : Len(send[c]) > SendCap}

Full(j) == {c \in subs[j] : Len(send[c]) >= SendCap}

(* Seeded fault: who is too slow just misses the message. *)
EvictNobody(j, gone) == UNCHANGED <<clients, subs, chan, until, evicted>>

(* Seeded fault: the channel of an evicted client is not closed. *)
EvictOpen(j, gone) ==
    /\ clients' = clients \ gone
    /\ subs' = [subs EXCEPT ![j] = @ \ gone]
    /\ until' = [c \in Clients |-> IF c \in gone THEN Len(log) ELSE until[c]]
    /\ evicted' = evicted \cup gone
    /\ UNCHANGED chan

(* Seeded fault: an evicted client stays registered. *)
EvictRegistered(j, gone) ==
    /\ chan' = [c \in Clients |-> IF c \in gone THEN "closed" ELSE chan[c]]
    /\ subs' = [subs EXCEPT ![j] = @ \ gone]
    /\ until' = [c \in Clients |-> IF c \in gone THEN Len(log) ELSE until[c]]
    /\ evicted' = evicted \cup gone
    /\ UNCHANGED clients

(* The channels of the clients in gone are closed, and the clients removed *)
(* from the subscribers of job j and from the table.                       *)
Evict(j, gone) ==
    /\ chan' = [c \in Clients |-> IF c \in gone THEN "closed" ELSE chan[c]]
    /\ subs' = [subs EXCEPT ![j] = @ \ gone]
    /\ clients' = clients \ gone
    /\ until' = [c \in Clients |-> IF c \in gone THEN Len(log) ELSE until[c]]
    /\ evicted' = evicted \cup gone

(* Every subscriber of the job gets the message; one whose buffer is full  *)
(* is evicted.                                                             *)
HubBroadcast ==
    LET j == Head(broadcast) IN
    /\ hub = "running"
    /\ broadcast # <<>>
    /\ \A c \in subs[j] : chan[c] = "open"
    /\ broadcast' = Tail(broadcast)
    /\ log' = Append(log, j)
    /\ send' = [c \in Clients |-> IF c \in subs[j] \ Full(j) THEN Append(send[c], Len(log) + 1) ELSE send[c]]
    /\ Evict(j, Full(j))
    /\ UNCHANGED <<hub, reader, wants, writer, conn, frames, from, out>>

---------------------------------------------------------------------------
(* ReadPump. *)

(* A subscribe frame is read; frames that came before the connection was   *)
(* closed may still be in the read buffer.                                 *)
ReadSubscribe(c, j) ==
    /\ hub = "running"
    /\ reader[c] = "reading"
    /\ frames < MaxSubscribes
    /\ reader' = [reader EXCEPT ![c] = "subscribing"]
    /\ wants' = [wants EXCEPT ![c] = j]
    /\ frames' = frames + 1
    /\ UNCHANGED <<hubVars, broadcast, chan, send, writer, conn, historyVars, out>>

(* ReadMessage fails: the browser has gone, no pong has come in time, or   *)
(* WritePump has closed the connection.                                    *)
ReadError(c) ==
    /\ hub = "running"
    /\ reader[c] = "reading"
    /\ reader' = [reader EXCEPT ![c] = "leaving"]
    /\ UNCHANGED <<hubVars, broadcast, chan, send, wants, writer, conn, frames, historyVars, out>>

(* Deferred, once the Hub has taken the unregister message. *)
ReaderClose(c) ==
    /\ hub = "running"
    /\ reader[c] = "closing"
    /\ reader' = [reader EXCEPT ![c] = "done"]
    /\ conn' = [conn EXCEPT ![c] = "closed"]
    /\ UNCHANGED <<hubVars, broadcast, chan, send, wants, writer, frames, historyVars, out>>

---------------------------------------------------------------------------
(* WritePump. *)

Write(c) ==
    /\ hub = "running"
    /\ writer[c] = "running"
    /\ send[c] # <<>>
    /\ conn[c] = "open"
    /\ out' = [out EXCEPT ![c] = Append(@, Head(send[c]))]
    /\ send' = [send EXCEPT ![c] = Tail(@)]
    /\ UNCHANGED <<hubVars, broadcast, chan, reader, wants, writer, conn, frames, historyVars>>

(* A message or a ping cannot be written (in writeWait), or the channel is *)
(* closed and empty and the close frame has been sent: WritePump returns   *)
(* and closes the connection.  A message in its hands is lost.             *)
WriterStops(c) ==
    /\ hub = "running"
    /\ writer[c] = "running"
    /\ writer' = [writer EXCEPT ![c] = "done"]
    /\ conn' = [conn EXCEPT ![c] = "closed"]
    /\ \/ UNCHANGED send
       \/ send[c] # <<>> /\ send' = [send EXCEPT ![c] = Tail(@)]
    /\ UNCHANGED <<hubVars, broadcast, chan, reader, wants, frames, historyVars, out>>

---------------------------------------------------------------------------
Hub == \/ HubBroadcast \/ HubPanic
       \/ \E c \in Clients : HubRegister(c) \/ HubUnregister(c) \/ HubSubscribe(c)

ReadPump(c) == ReadError(c) \/ ReaderClose(c) \/ \E j \in Jobs : ReadSubscribe(c, j)

WritePump(c) == Write(c) \/ WriterStops(c)

Next ==
    \/ Hub
    \/ \E c \in Clients : Connect(c) \/ ReadPump(c) \/ WritePump(c)
    \/ \E j \in Jobs : Publish(j)

Spec == Init /\ [][Next]_vars

(* The Hub runs, and its select picks at random among the ready cases, so  *)
(* that none is passed over for ever.  A read on a connection this side    *)
(* has closed fails in the end; WritePump writes what it is given or, at   *)
(* the latest after writeWait, gives up, and it must give up on a closed   *)
(* connection and on a closed and empty channel.                           *)
WriterBusy(c) == send[c] # <<>> \/ conn[c] = "closed" \/ chan[c] = "closed"

Fairness ==
    /\ WF_vars(HubBroadcast \/ HubPanic)
    /\ \A c \in Clients :
        /\ SF_vars(HubRegister(c) \/ HubUnregister(c) \/ HubSubscribe(c))
        /\ SF_vars((conn[c] = "closed" /\ ReadError(c)) \/ ReaderClose(c))
        /\ WF_vars(WriterBusy(c) /\ WritePump(c))

FairSpec == Spec /\ Fairness

---------------------------------------------------------------------------
(* Properties. *)

(* The shape of the state; no channel holds more than its capacity. *)
TypeOK ==
    /\ hub \in {"running", "panicked"}
    /\ clients \subseteq Clients
    /\ subs \in [Jobs -> SUBSET Clients]
    /\ broadcast \in Seq(Jobs) /\ Len(broadcast) <= BroadcastCap
    /\ chan \in [Clients -> {"none", "open", "closed"}]
    /\ send \in [Clients -> Seq(Nat)]
    /\ \A c \in Clients : Len(send[c]) <= SendCap
    /\ reader \in [Clients -> ReaderSteps]
    /\ wants \in [Clients -> Jobs \cup {NoJob}]
    /\ \A c \in Clients : reader[c] = "subscribing" => wants[c] \in Jobs
    /\ writer \in [Clients -> {"none", "running", "done"}]
    /\ conn \in [Clients -> {"none", "open", "closed"}]
    /\ frames \in Nat
    /\ log \in Seq(Jobs)
    /\ from \in [Clients -> [Jobs -> Nat]]
    /\ until \in [Clients -> Nat]
    /\ evicted \subseteq Clients
    /\ out \in [Clients -> Seq(Nat)]

(* The Hub closes a client's channel exactly when it drops the client from *)
(* its table: the membership test in the unregister case is what keeps the *)
(* channel of an evicted client from being closed a second time.           *)
OpenWhileRegistered ==
    \A c \in Clients : c \in clients <=> chan[c] = "open" /\ reader[c] # "registering"

(* A disconnect leaves no subscription behind: only a client the Hub has   *)
(* evicted can be subscribed without being registered, through the other   *)
(* jobs it watched or because its ReadPump was still at work.              *)
OnlyEvictedDangle ==
    /\ \A j \in Jobs : subs[j] \subseteq clients \cup evicted
    /\ hub = "panicked" => evicted # {}

(* What the Hub owes a client: every message of a job it has subscribed to *)
(* since then, up to the end of its registration, in the order of the Hub. *)
Owed(c) == {n \in 1..Len(log) : from[c][log[n]] < n /\ n <= until[c]}

Passed(c) == out[c] \o send[c]

(* A client that is too slow is disconnected rather than left with a gap:  *)
(* what has been written and what is in the channel is all it is owed, in  *)
(* order and once, for as long as its WritePump works.                     *)
NoGap ==
    \A c \in Clients :
        /\ \A i, k \in DOMAIN Passed(c) : i < k => Passed(c)[i] < Passed(c)[k]
        /\ writer[c] = "running" => {Passed(c)[i] : i \in DOMAIN Passed(c)} = Owed(c)

(* doc/realtime.md: "If client buffer full (backpressure): disconnect it": *)
(* a slow client costs that client its connection, not everybody theirs.   *)
HubSurvives == hub = "running"

(* A message owed to a client is written to its connection, unless the     *)
(* connection ends first.                                                  *)
MessagesWritten ==
    \A c \in Clients, n \in 1..MaxMessages :
        n \in Owed(c) ~> (\/ \E i \in DOMAIN out[c] : out[c][i] = n
                         \/ conn[c] = "closed" \/ hub = "panicked")

(* A client that was evicted or whose connection failed on either side is  *)
(* out of the tables with both goroutines ended.                           *)
Leaving(c) == (chan[c] = "closed" \/ conn[c] = "closed" \/ c \notin clients) /\ writer[c] # "none"

Gone(c) == c \notin clients /\ reader[c] = "done" /\ writer[c] = "done" /\ conn[c] = "closed"

ClientsEnd == \A c \in Clients : Leaving(c) ~> (Gone(c) \/ hub = "panicked")

=============================================================================
