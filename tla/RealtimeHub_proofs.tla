-------------------------- MODULE RealtimeHub_proofs --------------------------
(***************************************************************************)
(* Theorems about RealtimeHub, for any sets of connections and jobs, any   *)
(* channel capacities and any bounds.                                      *)
(***************************************************************************)
EXTENDS RealtimeHub, TLAPS

---------------------------------------------------------------------------
(* Types. *)

(* The first state is well typed. *)
LEMMA TypeInit == Init => TypeOK
BY HubAssumption DEF Init, TypeOK, ReaderSteps, Never

(* The actions of the Hub. *)
LEMMA TypeHub ==
  ASSUME TypeOK, Hub
  PROVE  TypeOK'
<1> USE HubAssumption
<1>1. CASE HubPanic
  BY <1>1 DEF HubPanic, TypeOK, historyVars
<1>2. ASSUME NEW c \in Clients, HubRegister(c) PROVE TypeOK'
  BY <1>2 DEF HubRegister, TypeOK, historyVars, ReaderSteps
<1>3. ASSUME NEW c \in Clients, HubUnregister(c) PROVE TypeOK'
  <2>1. reader' \in [Clients -> ReaderSteps] /\ \A d \in Clients : reader'[d] = "subscribing" => reader[d] = "subscribing"
    BY <1>3 DEF HubUnregister, TypeOK, ReaderSteps
  <2>2. /\ clients' \subseteq Clients /\ subs' \in [Jobs -> SUBSET Clients]
        /\ chan' \in [Clients -> {"none", "open", "closed"}] /\ until' \in [Clients -> Nat]
    <3>1. CASE c \in clients
      <4>1. Len(log) \in Nat
        BY DEF TypeOK
      <4>2. subs' = [j \in Jobs |-> subs[j] \ {c}] /\ \A j \in Jobs : subs[j] \subseteq Clients
        BY <1>3, <3>1 DEF HubUnregister, TypeOK
      <4>3. clients' \subseteq Clients
        BY <1>3, <3>1 DEF HubUnregister, TypeOK
      <4>4. chan' \in [Clients -> {"none", "open", "closed"}]
        BY <1>3, <3>1 DEF HubUnregister, TypeOK
      <4>5. until' \in [Clients -> Nat]
        BY <1>3, <3>1, <4>1 DEF HubUnregister, TypeOK
      <4> QED BY <4>2, <4>3, <4>4, <4>5
    <3>2. CASE c \notin clients
      BY <1>3, <3>2 DEF HubUnregister, TypeOK
    <3> QED BY <3>1, <3>2
  <2> QED BY <1>3, <2>1, <2>2 DEF HubUnregister, TypeOK
<1>4. ASSUME NEW c \in Clients, HubSubscribe(c) PROVE TypeOK'
  <2>1. wants[c] \in Jobs
    BY <1>4 DEF HubSubscribe, TypeOK
  <2>2. subs' \in [Jobs -> SUBSET Clients]
    BY <1>4, <2>1 DEF HubSubscribe, TypeOK
  <2>3. from' \in [Clients -> [Jobs -> Nat]]
    BY <1>4, <2>1 DEF HubSubscribe, TypeOK
  <2>4. /\ reader' \in [Clients -> ReaderSteps] /\ wants' \in [Clients -> Jobs \cup {NoJob}]
        /\ \A d \in Clients : reader'[d] = "subscribing" => wants'[d] \in Jobs
    BY <1>4 DEF HubSubscribe, TypeOK, ReaderSteps
  <2> QED BY <1>4, <2>2, <2>3, <2>4 DEF HubSubscribe, TypeOK
<1>5. CASE HubBroadcast
  <2> DEFINE j == Head(broadcast)
  <2>1. j \in Jobs /\ subs[j] \subseteq Clients /\ Full(j) \subseteq subs[j]
    BY <1>5 DEF HubBroadcast, TypeOK, Full
  <2>2. broadcast' \in Seq(Jobs) /\ Len(broadcast') <= BroadcastCap
    BY <1>5 DEF HubBroadcast, TypeOK
  <2>3. log' \in Seq(Jobs)
    BY <1>5, <2>1 DEF HubBroadcast, TypeOK
  <2>4. send' \in [Clients -> Seq(Nat)] /\ \A c \in Clients : Len(send'[c]) <= SendCap
    <3>1. Len(log) + 1 \in Nat
      BY DEF TypeOK
    <3>2. ASSUME NEW c \in Clients
          PROVE  send'[c] \in Seq(Nat) /\ Len(send'[c]) <= SendCap
      <4>1. send[c] \in Seq(Nat) /\ Len(send[c]) <= SendCap /\ Len(send[c]) \in Nat
        BY DEF TypeOK
      <4>2. send'[c] = IF c \in subs[j] \ Full(j) THEN Append(send[c], Len(log) + 1) ELSE send[c]
        BY <1>5 DEF HubBroadcast
      <4>3. CASE c \in subs[j] \ Full(j)
        <5>1. Len(send[c]) < SendCap
          BY <4>1, <4>3 DEF Full
        <5>2. /\ Append(send[c], Len(log) + 1) \in Seq(Nat)
              /\ Len(Append(send[c], Len(log) + 1)) = Len(send[c]) + 1
          BY <3>1, <4>1
        <5> QED BY <4>1, <4>2, <4>3, <5>1, <5>2
      <4>4. CASE c \notin subs[j] \ Full(j)
        BY <4>1, <4>2, <4>4
      <4> QED BY <4>3, <4>4
    <3>3. send' = [c \in Clients |-> send'[c]]
      BY <1>5 DEF HubBroadcast
    <3> QED BY <3>2, <3>3
  <2>5. /\ chan' \in [Clients -> {"none", "open", "closed"}]
        /\ subs' \in [Jobs -> SUBSET Clients] /\ clients' \subseteq Clients
        /\ until' \in [Clients -> Nat] /\ evicted' \subseteq Clients
    BY <1>5, <2>1 DEF HubBroadcast, Evict, TypeOK
  <2> QED BY <1>5, <2>2, <2>3, <2>4, <2>5 DEF HubBroadcast, TypeOK
<1> QED BY <1>1, <1>2, <1>3, <1>4, <1>5 DEF Hub

(* The actions of the goroutines of a connection. *)
LEMMA TypePumps ==
  ASSUME TypeOK, NEW c \in Clients, Connect(c) \/ ReadPump(c) \/ WritePump(c)
  PROVE  TypeOK'
<1> USE HubAssumption
<1>1. CASE Connect(c)
  BY <1>1 DEF Connect, TypeOK, hubVars, historyVars, ReaderSteps
<1>2. CASE ReadError(c)
  BY <1>2 DEF ReadError, TypeOK, hubVars, historyVars, ReaderSteps
<1>3. CASE ReaderClose(c)
  BY <1>3 DEF ReaderClose, TypeOK, hubVars, historyVars, ReaderSteps
<1>4. ASSUME NEW j \in Jobs, ReadSubscribe(c, j) PROVE TypeOK'
  BY <1>4 DEF ReadSubscribe, TypeOK, hubVars, historyVars, ReaderSteps
<1>5. send[c] # <<>> => /\ Head(send[c]) \in Nat /\ Tail(send[c]) \in Seq(Nat)
                        /\ Len(Tail(send[c])) <= SendCap
  <2>1. send[c] \in Seq(Nat) /\ Len(send[c]) <= SendCap
    BY DEF TypeOK
  <2> QED BY <2>1
<1>6. CASE Write(c)
  <2>1. out[c] \in Seq(Nat)
    BY DEF TypeOK
  <2>2. Append(out[c], Head(send[c])) \in Seq(Nat)
    BY <1>5, <1>6, <2>1 DEF Write
  <2>3. out' \in [Clients -> Seq(Nat)]
    BY <1>6, <2>2 DEF Write, TypeOK
  <2>4. send' \in [Clients -> Seq(Nat)] /\ \A d \in Clients : Len(send'[d]) <= SendCap
    BY <1>5, <1>6 DEF Write, TypeOK
  <2> QED BY <1>6, <2>3, <2>4 DEF Write, TypeOK, hubVars, historyVars
<1>7. CASE WriterStops(c)
  <2>1. send' \in [Clients -> Seq(Nat)] /\ \A d \in Clients : Len(send'[d]) <= SendCap
    <3>1. CASE UNCHANGED send
      BY <3>1 DEF TypeOK
    <3>2. CASE send[c] # <<>> /\ send' = [send EXCEPT ![c] = Tail(@)]
      BY <1>5, <3>2 DEF TypeOK
    <3> QED BY <1>7, <3>1, <3>2 DEF WriterStops
  <2>2. /\ writer' \in [Clients -> {"none", "running", "done"}]
        /\ conn' \in [Clients -> {"none", "open", "closed"}]
    BY <1>7 DEF WriterStops, TypeOK
  <2> QED BY <1>7, <2>1, <2>2 DEF WriterStops, TypeOK, hubVars, historyVars
<1> QED BY <1>1, <1>2, <1>3, <1>4, <1>6, <1>7 DEF ReadPump, WritePump

(* Every step keeps the types. *)
LEMMA TypeStep ==
  ASSUME TypeOK, [Next]_vars
  PROVE  TypeOK'
<1>1. ASSUME NEW j \in Jobs, Publish(j) PROVE TypeOK'
  <2>1. broadcast' \in Seq(Jobs) /\ Len(broadcast') <= BroadcastCap
    BY <1>1, HubAssumption DEF Publish, TypeOK
  <2> QED BY <1>1, <2>1 DEF Publish, TypeOK, hubVars, historyVars
<1>2. CASE UNCHANGED vars
  BY <1>2 DEF vars, TypeOK
<1> QED BY <1>1, <1>2, TypeHub, TypePumps DEF Next

(* Every reachable state has the declared shape, and no channel ever holds *)
(* more than its capacity.                                                 *)
THEOREM TypeCorrect == Spec => []TypeOK
BY TypeInit, TypeStep, PTL DEF Spec

---------------------------------------------------------------------------
(* Who is registered, and who is subscribed. *)

(* OpenWhileRegistered speaks of one client's channel and OnlyEvictedDangle *)
(* of the subscribers, but each needs to know how far the other goroutine  *)
(* has come: a client has a channel once ServeWS has made it, subscribes   *)
(* only after the Hub has registered it, and while its ReadPump reads it   *)
(* is registered or has been evicted.                                      *)
PumpInv ==
    /\ \A c \in Clients :
        /\ reader[c] = "none" <=> chan[c] = "none"
        /\ reader[c] = "registering" => chan[c] = "open"
        /\ reader[c] \in {"reading", "subscribing", "leaving"} => c \in clients \cup evicted
    /\ \A j \in Jobs, c \in Clients : c \in subs[j] => reader[c] \notin {"none", "registering"}

TableInv == TypeOK /\ PumpInv /\ OpenWhileRegistered /\ OnlyEvictedDangle

(* The first state satisfies the invariant of the table. *)
LEMMA TableInit == Init => TableInv
<1> SUFFICES ASSUME Init PROVE TableInv
  OBVIOUS
<1>1. TypeOK
  BY TypeInit
<1>2. PumpInv /\ OpenWhileRegistered /\ OnlyEvictedDangle
  BY DEF Init, PumpInv, OpenWhileRegistered, OnlyEvictedDangle
<1> QED BY <1>1, <1>2 DEF TableInv

(* The cases of the Hub's select that take a message of one client. *)
LEMMA TableClient ==
  ASSUME TableInv, NEW c \in Clients, HubRegister(c) \/ HubUnregister(c) \/ HubSubscribe(c)
  PROVE  PumpInv' /\ OpenWhileRegistered' /\ OnlyEvictedDangle'
<1> USE DEF TableInv
<1>1. CASE HubRegister(c)
  <2>1. /\ clients' = clients \cup {c} /\ UNCHANGED <<hub, subs, chan, evicted>>
        /\ reader[c] = "registering" /\ chan[c] = "open"
        /\ \A d \in Clients : reader'[d] = IF d = c THEN "reading" ELSE reader[d]
    BY <1>1 DEF HubRegister, historyVars, TypeOK, PumpInv
  <2> QED BY <2>1 DEF PumpInv, OpenWhileRegistered, OnlyEvictedDangle
<1>2. CASE HubUnregister(c)
  <2>1. /\ reader[c] = "leaving" /\ UNCHANGED <<hub, evicted>>
        /\ \A d \in Clients : reader'[d] = IF d = c THEN "closing" ELSE reader[d]
    BY <1>2 DEF HubUnregister, TypeOK
  <2>2. CASE c \in clients
    <3>1. /\ clients' = clients \ {c}
          /\ \A d \in Clients : chan'[d] = IF d = c THEN "closed" ELSE chan[d]
          /\ \A j \in Jobs : subs'[j] = subs[j] \ {c}
      BY <1>2, <2>2 DEF HubUnregister, TypeOK
    <3> QED BY <2>1, <3>1 DEF PumpInv, OpenWhileRegistered, OnlyEvictedDangle
  <2>3. CASE c \notin clients
    <3>1. UNCHANGED <<clients, chan, subs>>
      BY <1>2, <2>3 DEF HubUnregister
    <3> QED BY <2>1, <2>3, <3>1 DEF PumpInv, OpenWhileRegistered, OnlyEvictedDangle
  <2> QED BY <2>2, <2>3
<1>3. CASE HubSubscribe(c)
  <2>1. /\ reader[c] = "subscribing" /\ UNCHANGED <<hub, clients, chan, evicted>>
        /\ \A d \in Clients : reader'[d] = IF d = c THEN "reading" ELSE reader[d]
    BY <1>3 DEF HubSubscribe, TypeOK
  <2>2. c \in clients \cup evicted
    BY <2>1 DEF PumpInv
  <2>3. \A j \in Jobs : subs'[j] \subseteq subs[j] \cup {c}
    BY <1>3 DEF HubSubscribe, TypeOK
  <2> QED BY <2>1, <2>2, <2>3 DEF PumpInv, OpenWhileRegistered, OnlyEvictedDangle
<1> QED BY <1>1, <1>2, <1>3

(* A message is fanned out.  The clients that are evicted are open, as the *)
(* loop has not panicked, and registered.                                  *)
LEMMA TableBroadcast ==
  ASSUME TableInv, HubBroadcast
  PROVE  PumpInv' /\ OpenWhileRegistered' /\ OnlyEvictedDangle'
<1> DEFINE j == Head(broadcast)
           gone == Full(j)
<1>1. j \in Jobs /\ gone \subseteq subs[j]
  BY DEF TableInv, TypeOK, HubBroadcast, Full
<1>2. /\ UNCHANGED <<hub, reader>> /\ clients' = clients \ gone /\ evicted' = evicted \cup gone
      /\ \A c \in Clients : chan'[c] = IF c \in gone THEN "closed" ELSE chan[c]
      /\ \A i \in Jobs : subs'[i] \subseteq subs[i]
  BY <1>1 DEF TableInv, TypeOK, HubBroadcast, Evict
<1>3. hub' = "running"
  BY <1>2 DEF HubBroadcast
<1> HIDE DEF j, gone
<1> QED BY <1>1, <1>2, <1>3 DEF TableInv, PumpInv, OpenWhileRegistered, OnlyEvictedDangle

(* Only a subscriber whose channel is closed makes the Hub panic: it is no *)
(* longer registered, so it has been evicted.                              *)
LEMMA TablePanic ==
  ASSUME TableInv, HubPanic
  PROVE  PumpInv' /\ OpenWhileRegistered' /\ OnlyEvictedDangle'
<1>1. PICK c \in subs[Head(broadcast)] : chan[c] = "closed"
  BY DEF HubPanic
<1>2. Head(broadcast) \in Jobs
  BY DEF HubPanic, TableInv, TypeOK
<1>3. c \in evicted
  BY <1>1, <1>2 DEF TableInv, TypeOK, OpenWhileRegistered, OnlyEvictedDangle
<1> QED BY <1>3 DEF TableInv, HubPanic, historyVars, PumpInv, OpenWhileRegistered, OnlyEvictedDangle

(* The goroutines of a connection leave the tables alone. *)
LEMMA TablePumps ==
  ASSUME TableInv, NEW c \in Clients, Connect(c) \/ ReadPump(c) \/ WritePump(c)
  PROVE  PumpInv' /\ OpenWhileRegistered' /\ OnlyEvictedDangle'
<1> USE DEF TableInv
<1>1. CASE Connect(c)
  <2>1. /\ reader[c] = "none" /\ UNCHANGED <<hub, clients, subs, evicted>>
        /\ \A d \in Clients : /\ reader'[d] = IF d = c THEN "registering" ELSE reader[d]
                              /\ chan'[d] = IF d = c THEN "open" ELSE chan[d]
    BY <1>1 DEF Connect, hubVars, historyVars, TypeOK
  <2>2. c \notin clients /\ \A j \in Jobs : c \notin subs[j]
    BY <2>1 DEF PumpInv, OpenWhileRegistered
  <2> QED BY <2>1, <2>2 DEF PumpInv, OpenWhileRegistered, OnlyEvictedDangle
<1>2. CASE ReadPump(c)
  <2>1. /\ reader[c] \in {"reading", "closing"} /\ UNCHANGED <<hub, clients, subs, evicted, chan>>
        /\ reader'[c] \in {"subscribing", "leaving", "done"}
        /\ reader'[c] \in {"subscribing", "leaving"} => reader[c] = "reading"
        /\ \A d \in Clients : d # c => reader'[d] = reader[d]
    BY <1>2 DEF ReadPump, ReadError, ReaderClose, ReadSubscribe, hubVars, historyVars, TypeOK
  <2> QED BY <2>1 DEF PumpInv, OpenWhileRegistered, OnlyEvictedDangle
<1>3. CASE WritePump(c)
  <2>1. UNCHANGED <<hub, clients, subs, evicted, chan, reader>>
    BY <1>3 DEF WritePump, Write, WriterStops, hubVars, historyVars
  <2> QED BY <2>1 DEF PumpInv, OpenWhileRegistered, OnlyEvictedDangle
<1> QED BY <1>1, <1>2, <1>3

(* Every step keeps it. *)
LEMMA TableStep ==
  ASSUME TableInv, [Next]_vars
  PROVE  TableInv'
<1>1. TypeOK'
  BY TypeStep DEF TableInv
<1>2. ASSUME NEW j \in Jobs, Publish(j)
      PROVE  PumpInv' /\ OpenWhileRegistered' /\ OnlyEvictedDangle'
  BY <1>2 DEF TableInv, Publish, hubVars, historyVars, PumpInv, OpenWhileRegistered, OnlyEvictedDangle
<1>3. CASE UNCHANGED vars
  BY <1>1, <1>3 DEF TableInv, vars, PumpInv, OpenWhileRegistered, OnlyEvictedDangle
<1>4. CASE Next
  BY <1>1, <1>2, <1>4, TableClient, TableBroadcast, TablePanic, TablePumps DEF Next, Hub, TableInv
<1> QED BY <1>3, <1>4

(* It holds always. *)
LEMMA TableInvariant == Spec => []TableInv
BY TableInit, TableStep, PTL DEF Spec

(* The Hub closes each channel when it drops its client and never again:   *)
(* a channel is open exactly from registration to the drop.                *)
THEOREM RegistrationCorrect == Spec => []OpenWhileRegistered
<1>1. TableInv => OpenWhileRegistered
  BY DEF TableInv
<1> QED BY <1>1, TableInvariant, PTL

(* A disconnect leaves no subscription behind, and the Hub cannot panic    *)
(* before it has evicted a slow client.                                    *)
THEOREM SubscriptionsCorrect == Spec => []OnlyEvictedDangle
<1>1. TableInv => OnlyEvictedDangle
  BY DEF TableInv
<1> QED BY <1>1, TableInvariant, PTL

---------------------------------------------------------------------------
(* No gaps. *)

Ascending(s) == \A i, k \in DOMAIN s : i < k => s[i] < s[k]

Elements(s) == {s[i] : i \in DOMAIN s}

(* What NoGap needs to be inductive.  Until the Hub has registered a       *)
(* client nothing has passed and nothing is owed; while it is registered   *)
(* the end of what it is owed is open, and the Hub's table of subscribers  *)
(* says from when on; once its channel is closed the end lies in the past. *)
(* The Hub numbers its messages 1, 2, ..., so that the next one is greater *)
(* than any that has passed.                                               *)
NumberInv ==
    /\ Len(log) + Len(broadcast) <= MaxMessages
    /\ \A c \in Clients : Elements(Passed(c)) \subseteq 1..Len(log)

FreshInv ==
    \A c \in Clients : reader[c] \in {"none", "registering"} =>
        /\ writer[c] = "none" /\ send[c] = <<>> /\ out[c] = <<>>
        /\ \A j \in Jobs : from[c][j] = Never

UntilInv ==
    \A c \in Clients : /\ chan[c] # "closed" => until[c] = Never
                       /\ chan[c] = "closed" => until[c] <= Len(log)

FromInv ==
    \A c \in clients, j \in Jobs : /\ c \in subs[j] => from[c][j] <= Len(log)
                                   /\ c \notin subs[j] => from[c][j] = Never

OwedInv == UntilInv /\ FromInv

StreamInv == NumberInv /\ FreshInv /\ OwedInv /\ NoGap

(* Concatenation, element by element. *)
LEMMA ConcatElements ==
  ASSUME NEW s \in Seq(Nat), NEW t \in Seq(Nat)
  PROVE  /\ s \o t \in Seq(Nat)
         /\ Len(s \o t) = Len(s) + Len(t)
         /\ DOMAIN (s \o t) = 1..(Len(s) + Len(t))
         /\ \A i \in 1..(Len(s) + Len(t)) :
               (s \o t)[i] = IF i <= Len(s) THEN s[i] ELSE t[i - Len(s)]
OBVIOUS

(* A message put at the end of the channel is at the end of what passes. *)
LEMMA ConcatAppend ==
  ASSUME NEW s \in Seq(Nat), NEW t \in Seq(Nat), NEW x \in Nat
  PROVE  s \o Append(t, x) = Append(s \o t, x)
OBVIOUS

(* A message that is written only moves from the channel to the output. *)
LEMMA ConcatMove ==
  ASSUME NEW s \in Seq(Nat), NEW t \in Seq(Nat), t # <<>>
  PROVE  Append(s, Head(t)) \o Tail(t) = s \o t
OBVIOUS

(* A message that is lost leaves the others in order. *)
LEMMA ConcatDrop ==
  ASSUME NEW s \in Seq(Nat), NEW t \in Seq(Nat), t # <<>>, Ascending(s \o t)
  PROVE  Ascending(s \o Tail(t)) /\ Elements(s \o Tail(t)) \subseteq Elements(s \o t)
<1> DEFINE old(i) == IF i <= Len(s) THEN i ELSE i + 1
<1>1. /\ Tail(t) \in Seq(Nat) /\ Len(Tail(t)) = Len(t) - 1 /\ Len(t) \in Nat /\ Len(s) \in Nat
      /\ \A i \in 1..(Len(t) - 1) : Tail(t)[i] = t[i + 1]
  OBVIOUS
<1>2. \A i \in DOMAIN (s \o Tail(t)) : /\ i \in Nat /\ old(i) \in DOMAIN (s \o t)
                                       /\ (s \o Tail(t))[i] = (s \o t)[old(i)]
  <2>1. /\ DOMAIN (s \o Tail(t)) = 1..(Len(s) + Len(t) - 1)
        /\ DOMAIN (s \o t) = 1..(Len(s) + Len(t))
    <3>1. Len(s) + Len(Tail(t)) = Len(s) + Len(t) - 1
      BY <1>1
    <3> QED BY <1>1, <3>1, ConcatElements
  <2> SUFFICES ASSUME NEW i \in 1..(Len(s) + Len(t) - 1)
               PROVE  /\ i \in Nat /\ old(i) \in 1..(Len(s) + Len(t))
                      /\ (s \o Tail(t))[i] = (s \o t)[old(i)]
    BY <2>1, Zenon
  <2>2. CASE i <= Len(s)
    <3>1. i \in 1..(Len(s) + Len(t)) /\ i \in 1..(Len(s) + Len(Tail(t)))
      BY <1>1, <2>2
    <3>2. (s \o Tail(t))[i] = s[i] /\ (s \o t)[i] = s[i]
      BY <1>1, <2>2, <3>1, ConcatElements
    <3> QED BY <2>2, <3>1, <3>2
  <2>3. CASE i > Len(s)
    <3>1. i \in Nat /\ i - Len(s) \in 1..(Len(t) - 1) /\ i + 1 \in 1..(Len(s) + Len(t))
      BY <1>1, <2>3
    <3>2. (s \o Tail(t))[i] = Tail(t)[i - Len(s)]
      BY <1>1, <2>3, ConcatElements
    <3>3. (s \o t)[i + 1] = t[i - Len(s) + 1]
      <4>1. ~(i + 1 <= Len(s)) /\ i + 1 - Len(s) = i - Len(s) + 1
        BY <1>1, <2>3, <3>1
      <4> QED BY <3>1, <4>1, ConcatElements
    <3> QED BY <1>1, <2>3, <3>1, <3>2, <3>3
  <2> QED BY <1>1, <2>2, <2>3
<1>3. \A i, k \in Nat : i < k => old(i) < old(k)
  BY <1>1
<1> HIDE DEF old
<1> QED BY <1>2, <1>3 DEF Ascending, Elements

(* A message above all that have passed keeps the order. *)
LEMMA AppendAbove ==
  ASSUME NEW s \in Seq(Nat), NEW n \in Nat, Ascending(s), Elements(s) \subseteq 1..n
  PROVE  Ascending(Append(s, n + 1)) /\ Elements(Append(s, n + 1)) = Elements(s) \cup {n + 1}
<1>1. /\ DOMAIN s = 1..Len(s) /\ DOMAIN Append(s, n + 1) = 1..(Len(s) + 1) /\ Len(s) \in Nat
      /\ \A i \in 1..Len(s) : Append(s, n + 1)[i] = s[i] /\ s[i] <= n
      /\ Append(s, n + 1)[Len(s) + 1] = n + 1
  BY DEF Elements
<1>2. Ascending(Append(s, n + 1))
  BY <1>1 DEF Ascending, Elements
<1>3. Elements(Append(s, n + 1)) = Elements(s) \cup {n + 1}
  <2>1. \A x : x \in Elements(s) => x \in Elements(Append(s, n + 1))
    BY <1>1 DEF Elements
  <2>2. n + 1 \in Elements(Append(s, n + 1))
    BY <1>1 DEF Elements
  <2>3. ASSUME NEW i \in 1..(Len(s) + 1)
        PROVE  Append(s, n + 1)[i] \in Elements(s) \cup {n + 1}
    <3>1. CASE i = Len(s) + 1
      BY <1>1, <3>1
    <3>2. CASE i # Len(s) + 1
      <4>1. i \in 1..Len(s) /\ Append(s, n + 1)[i] = s[i]
        BY <1>1, <3>2
      <4> QED BY <1>1, <4>1 DEF Elements
    <3> QED BY <3>1, <3>2
  <2>4. Elements(Append(s, n + 1)) \subseteq Elements(s) \cup {n + 1}
    BY <1>1, <2>3 DEF Elements
  <2> QED BY <2>1, <2>2, <2>4
<1> QED BY <1>2, <1>3

(* Nothing was sent at first, and nothing is owed. *)
LEMMA StreamInit == Init => StreamInv
<1> SUFFICES ASSUME Init PROVE StreamInv
  OBVIOUS
<1>1. ASSUME NEW c \in Clients PROVE Passed(c) = <<>> /\ Owed(c) = {}
  <2>1. send[c] = <<>> /\ out[c] = <<>> /\ log = <<>>
    BY DEF Init
  <2> QED BY <2>1 DEF Passed, Owed
<1>2. NumberInv /\ NoGap
  BY <1>1, HubAssumption DEF NumberInv, NoGap, Elements, Init
<1>3. FreshInv /\ OwedInv
  BY DEF Init, FreshInv, OwedInv, UntilInv, FromInv
<1> QED BY <1>2, <1>3 DEF StreamInv

(* NoGap in terms of the sequence that has passed. *)
LEMMA NoGapIs ==
  NoGap <=> \A c \in Clients : /\ Ascending(Passed(c))
                               /\ writer[c] = "running" => Elements(Passed(c)) = Owed(c)
BY DEF NoGap, Ascending, Elements

(* A step that writes nothing and fans out nothing: it keeps the streams   *)
(* if it keeps what the clients with a WritePump at work are owed.         *)
LEMMA StreamStays ==
  ASSUME TableInv, StreamInv, UNCHANGED <<log, send, out>>,
         Len(broadcast') <= Len(broadcast) \/ Len(log) + Len(broadcast') <= MaxMessages,
         Len(broadcast') \in Nat,
         \A c \in Clients : writer'[c] = "running" => writer[c] = "running" /\ Owed(c)' = Owed(c)
  PROVE  NumberInv' /\ NoGap'
<1>1. \A c \in Clients : Passed(c)' = Passed(c)
  BY DEF Passed
<1>2. NumberInv'
  <2>1. Len(log') + Len(broadcast') <= MaxMessages
    <3>1. /\ Len(log) \in Nat /\ Len(broadcast) \in Nat /\ MaxMessages \in Nat
          /\ Len(log) + Len(broadcast) <= MaxMessages
      BY HubAssumption DEF StreamInv, NumberInv, TableInv, TypeOK
    <3> QED BY <3>1
  <2>2. \A c \in Clients : Elements(Passed(c)') \subseteq 1..Len(log')
    BY <1>1 DEF StreamInv, NumberInv
  <2> QED BY <2>1, <2>2 DEF NumberInv
<1>3. NoGap'
  BY <1>1 DEF StreamInv, NoGap
<1> QED BY <1>2, <1>3

(* ServeWS and the ReadPump.  A client is new to the Hub when it is        *)
(* registered, and owed nothing yet.                                       *)
LEMMA StreamReader ==
  ASSUME TableInv, StreamInv, NEW c \in Clients,
         Connect(c) \/ ReadPump(c) \/ HubRegister(c)
  PROVE  StreamInv'
<1> USE DEF TableInv
<1>0. Len(broadcast) \in Nat
  BY DEF TypeOK
<1>1. CASE Connect(c)
  <2>1. /\ reader[c] = "none" /\ chan[c] = "none"
        /\ \A d \in Clients : /\ reader'[d] = IF d = c THEN "registering" ELSE reader[d]
                              /\ chan'[d] = IF d = c THEN "open" ELSE chan[d]
        /\ UNCHANGED <<clients, subs, broadcast, send, writer, log, from, until, out>>
    BY <1>1 DEF Connect, hubVars, historyVars, TypeOK, PumpInv
  <2>2. \A d \in Clients : Owed(d)' = Owed(d)
    BY <2>1 DEF Owed
  <2>3. NumberInv' /\ NoGap'
    BY <1>0, <2>1, <2>2, StreamStays
  <2>4. FreshInv' /\ OwedInv'
    BY <2>1 DEF StreamInv, FreshInv, OwedInv, UntilInv, FromInv, Never
  <2> QED BY <2>3, <2>4 DEF StreamInv
<1>2. CASE ReadPump(c)
  <2>1. /\ UNCHANGED <<clients, subs, broadcast, chan, send, writer, log, from, until, out>>
        /\ \A d \in Clients : reader'[d] \in {"none", "registering"} => reader'[d] = reader[d]
    BY <1>2 DEF ReadPump, ReadError, ReaderClose, ReadSubscribe, hubVars, historyVars, TypeOK
  <2>2. \A d \in Clients : Owed(d)' = Owed(d)
    BY <2>1 DEF Owed
  <2>3. NumberInv' /\ NoGap'
    BY <1>0, <2>1, <2>2, StreamStays
  <2>4. FreshInv' /\ OwedInv'
    BY <2>1 DEF StreamInv, FreshInv, OwedInv, UntilInv, FromInv, Never
  <2> QED BY <2>3, <2>4 DEF StreamInv
<1>3. CASE HubRegister(c)
  <2>1. /\ reader[c] = "registering" /\ chan[c] = "open"
        /\ \A d \in Clients : /\ reader'[d] = IF d = c THEN "reading" ELSE reader[d]
                              /\ writer'[d] = IF d = c THEN "running" ELSE writer[d]
        /\ clients' = clients \cup {c}
        /\ UNCHANGED <<subs, broadcast, chan, send, log, from, until, out>>
    BY <1>3 DEF HubRegister, historyVars, TypeOK, PumpInv
  <2>2. /\ send[c] = <<>> /\ out[c] = <<>> /\ \A j \in Jobs : from[c][j] = Never /\ c \notin subs[j]
    BY <2>1 DEF StreamInv, FreshInv, PumpInv
  <2>3. Passed(c) = <<>> /\ Owed(c) = {}
    <3>1. \A n \in 1..Len(log) : log[n] \in Jobs /\ n <= Never
      BY HubAssumption DEF StreamInv, NumberInv, TypeOK, Never
    <3>2. \A n \in 1..Len(log) : ~(from[c][log[n]] < n)
      BY <2>2, <3>1, HubAssumption DEF Never, TypeOK
    <3> QED BY <2>2, <3>2 DEF Passed, Owed
  <2>4. \A d \in Clients : Passed(d)' = Passed(d) /\ Owed(d)' = Owed(d)
    BY <2>1 DEF Owed, Passed
  <2>5. NoGap'
    BY <2>1, <2>3, <2>4 DEF StreamInv, NoGap
  <2>6. NumberInv'
    BY <2>1, <2>4 DEF StreamInv, NumberInv, Elements
  <2>7. FreshInv' /\ OwedInv'
    BY <2>1, <2>2 DEF StreamInv, FreshInv, OwedInv, UntilInv, FromInv, Never
  <2> QED BY <2>5, <2>6, <2>7 DEF StreamInv
<1> QED BY <1>1, <1>2, <1>3

(* The message numbers are below Never. *)
LEMMA LogBelowNever ==
  ASSUME TableInv, StreamInv
  PROVE  /\ Len(log) \in Nat /\ Never \in Nat
         /\ \A n \in 1..Len(log) : n \in Nat /\ log[n] \in Jobs /\ n <= Never
BY HubAssumption DEF TableInv, TypeOK, StreamInv, NumberInv, Never

(* A client leaves: what it is owed ends with what has been fanned out. *)
LEMMA StreamUnregister ==
  ASSUME TableInv, StreamInv, NEW c \in Clients, HubUnregister(c)
  PROVE  StreamInv'
<1> USE DEF TableInv
<1>0. Len(broadcast) \in Nat /\ Len(log) \in Nat
  BY DEF TypeOK
<1>1. /\ UNCHANGED <<broadcast, send, writer, log, from, out>>
      /\ \A d \in Clients : reader'[d] \in {"none", "registering"} => reader'[d] = reader[d]
  BY DEF HubUnregister, TypeOK
<1>2. CASE c \in clients
  <2>1. /\ clients' = clients \ {c}
        /\ \A d \in Clients : /\ chan'[d] = IF d = c THEN "closed" ELSE chan[d]
                              /\ until'[d] = IF d = c THEN Len(log) ELSE until[d]
        /\ \A j \in Jobs : subs'[j] = subs[j] \ {c}
    BY <1>2 DEF HubUnregister, TypeOK
  <2>2. until[c] = Never
    BY <1>2 DEF StreamInv, OwedInv, UntilInv, FromInv, OpenWhileRegistered
  <2>3. \A d \in Clients : Owed(d)' = Owed(d)
    <3>1. Owed(c)' = Owed(c)
      BY <1>1, <2>1, <2>2, LogBelowNever DEF Owed
    <3>2. \A d \in Clients : d # c => Owed(d)' = Owed(d)
      BY <1>1, <2>1 DEF Owed
    <3> QED BY <3>1, <3>2
  <2>4. NumberInv' /\ NoGap'
    BY <1>0, <1>1, <2>3, StreamStays
  <2>5. FreshInv'
    BY <1>1 DEF StreamInv, FreshInv, Never
  <2>6. OwedInv'
    BY <1>0, <1>1, <2>1 DEF StreamInv, OwedInv, UntilInv, FromInv, Never
  <2> QED BY <2>4, <2>5, <2>6 DEF StreamInv
<1>3. CASE c \notin clients
  <2>1. UNCHANGED <<clients, chan, subs, until>>
    BY <1>3 DEF HubUnregister
  <2>2. \A d \in Clients : Owed(d)' = Owed(d)
    BY <1>1, <2>1 DEF Owed
  <2>3. NumberInv' /\ NoGap'
    BY <1>0, <1>1, <2>2, StreamStays
  <2>4. FreshInv' /\ OwedInv'
    BY <1>1, <2>1 DEF StreamInv, FreshInv, OwedInv, UntilInv, FromInv, Never
  <2> QED BY <2>3, <2>4 DEF StreamInv
<1> QED BY <1>2, <1>3

(* A subscription is entered.  It changes from when on a registered client *)
(* is owed the job only if the client was not subscribed to it, and then   *)
(* no message of the past is owed before or after.                         *)
LEMMA StreamSubscribe ==
  ASSUME TableInv, StreamInv, NEW c \in Clients, HubSubscribe(c)
  PROVE  StreamInv'
<1> USE DEF TableInv
<1>0. PICK j \in Jobs : j = wants[c]
  BY DEF HubSubscribe, TypeOK
<1>1. /\ UNCHANGED <<clients, broadcast, chan, send, writer, log, until, out>>
      /\ \A d \in Clients : reader'[d] \in {"none", "registering"} => reader'[d] = reader[d]
      /\ reader[c] = "subscribing"
  BY DEF HubSubscribe, TypeOK
<1>2. \A i \in Jobs : subs'[i] = IF i = j THEN subs[i] \cup {c} ELSE subs[i]
  BY <1>0 DEF HubSubscribe, TypeOK
<1>3. \A d \in Clients, i \in Jobs :
        from'[d][i] = IF d = c /\ i = j /\ c \in clients \ subs[j] THEN Len(log) ELSE from[d][i]
  BY <1>0 DEF HubSubscribe, TypeOK
<1>4. Len(broadcast) \in Nat /\ Len(log) \in Nat
  BY DEF TypeOK
<1>5. c \in clients \ subs[j] => from[c][j] = Never
  BY DEF StreamInv, OwedInv, UntilInv, FromInv
<1>6. ASSUME NEW d \in Clients PROVE Owed(d)' = Owed(d)
  <2>1. \A n \in 1..Len(log) : from'[d][log[n]] < n <=> from[d][log[n]] < n
    BY <1>3, <1>4, <1>5, LogBelowNever
  <2> QED BY <1>1, <2>1 DEF Owed
<1>7. NumberInv' /\ NoGap'
  BY <1>1, <1>4, <1>6, StreamStays
<1>8. FreshInv'
  <2>1. \A d \in Clients : reader[d] \in {"none", "registering"} => d # c
    BY <1>1
  <2> QED BY <1>1, <1>3, <2>1 DEF StreamInv, FreshInv, Never
<1>9. OwedInv'
  <2>1. ASSUME NEW d \in clients, NEW i \in Jobs
        PROVE  /\ d \in subs'[i] => from'[d][i] <= Len(log)
               /\ d \notin subs'[i] => from'[d][i] = Never
    <3>1. /\ d \in subs[i] => from[d][i] <= Len(log)
          /\ d \notin subs[i] => from[d][i] = Never
      <4>1. d \in Clients
        BY DEF TypeOK
      <4> QED BY <4>1 DEF StreamInv, OwedInv, UntilInv, FromInv
    <3>2. CASE d = c /\ i = j
      <4>1. d \in subs'[i] /\ from'[d][i] = IF c \notin subs[j] THEN Len(log) ELSE from[d][i]
        BY <1>2, <1>3, <3>2
      <4> QED BY <1>4, <3>1, <3>2, <4>1
    <3>3. CASE ~(d = c /\ i = j)
      <4>1. from'[d][i] = from[d][i]
        BY <1>3, <3>3 DEF TypeOK
      <4>2. d \in subs'[i] <=> d \in subs[i]
        BY <1>2, <3>3
      <4> QED BY <3>1, <4>1, <4>2
    <3> QED BY <3>2, <3>3
  <2> QED BY <1>1, <2>1 DEF StreamInv, OwedInv, UntilInv, FromInv, Never
<1> QED BY <1>7, <1>8, <1>9 DEF StreamInv

(* The WritePump: a message that is written is as much passed as before,   *)
(* and one that is lost is lost with the WritePump.                        *)
LEMMA StreamWriter ==
  ASSUME TableInv, StreamInv, NEW c \in Clients, WritePump(c)
  PROVE  StreamInv'
<1> USE DEF TableInv
<1>1. /\ UNCHANGED <<clients, subs, broadcast, chan, reader, log, from, until>>
      /\ writer[c] = "running"
      /\ \A d \in Clients : d # c => UNCHANGED <<writer[d], send[d], out[d]>>
      /\ writer'[c] \in {"running", "done"}
  BY DEF WritePump, Write, WriterStops, hubVars, historyVars, TypeOK
<1>2. /\ send[c] \in Seq(Nat) /\ out[c] \in Seq(Nat)
      /\ Ascending(Passed(c)) /\ Elements(Passed(c)) \subseteq 1..Len(log)
      /\ Elements(Passed(c)) = Owed(c)
  BY <1>1, NoGapIs DEF StreamInv, NumberInv, TypeOK
<1>3. /\ Ascending(Passed(c)') /\ Elements(Passed(c)') \subseteq 1..Len(log)
      /\ writer'[c] = "running" => Elements(Passed(c)') = Owed(c)
  <2>1. CASE Write(c)
    <3>1. out'[c] = Append(out[c], Head(send[c])) /\ send'[c] = Tail(send[c]) /\ send[c] # <<>>
      BY <2>1 DEF Write, TypeOK
    <3>2. Passed(c)' = Passed(c)
      BY <1>2, <3>1, ConcatMove DEF Passed
    <3> QED BY <1>2, <3>2
  <2>2. CASE WriterStops(c)
    <3>1. out'[c] = out[c] /\ writer'[c] = "done"
      BY <2>2 DEF WriterStops, TypeOK
    <3>2. CASE UNCHANGED send
      <4>1. Passed(c)' = Passed(c)
        BY <3>1, <3>2 DEF Passed
      <4> QED BY <1>2, <3>1, <4>1
    <3>3. CASE send[c] # <<>> /\ send' = [send EXCEPT ![c] = Tail(@)]
      <4>1. send'[c] = Tail(send[c])
        BY <3>3 DEF TypeOK
      <4>2. Passed(c)' = out[c] \o Tail(send[c])
        BY <3>1, <4>1 DEF Passed
      <4> QED BY <1>2, <3>1, <3>3, <4>2, ConcatDrop DEF Passed
    <3> QED BY <2>2, <3>2, <3>3 DEF WriterStops
  <2> QED BY <2>1, <2>2 DEF WritePump
<1>4. \A d \in Clients : d # c => Passed(d)' = Passed(d)
  BY <1>1 DEF Passed
<1>5. \A d \in Clients : Owed(d)' = Owed(d)
  BY <1>1 DEF Owed
<1>6. NumberInv'
  <2>1. \A d \in Clients : Elements(Passed(d)') \subseteq 1..Len(log)
    BY <1>3, <1>4 DEF StreamInv, NumberInv
  <2> QED BY <1>1, <2>1 DEF StreamInv, NumberInv, Elements
<1>7. NoGap'
  <2>1. \A d \in Clients : /\ Ascending(Passed(d)')
                           /\ writer'[d] = "running" => Elements(Passed(d)') = Owed(d)
    BY <1>1, <1>3, <1>4, NoGapIs DEF StreamInv
  <2> QED BY <1>5, <2>1 DEF NoGap, Ascending, Elements
<1>8. FreshInv' /\ OwedInv'
  BY <1>1 DEF StreamInv, FreshInv, OwedInv, UntilInv, FromInv, Never
<1> QED BY <1>6, <1>7, <1>8 DEF StreamInv

(* A message is fanned out.  It is owed exactly to the registered clients  *)
(* that are subscribed to its job; those with room get it, and what the    *)
(* others are owed ends just before it.                                    *)
LEMMA StreamBroadcast ==
  ASSUME TableInv, StreamInv, HubBroadcast
  PROVE  StreamInv'
<1> USE DEF TableInv
<1>1. PICK j \in Jobs : j = Head(broadcast)
  BY DEF HubBroadcast, TypeOK
<1>2. PICK n \in Nat : n = Len(log)
  BY DEF TypeOK
<1>3. PICK gone \in SUBSET Clients : gone = Full(j)
  BY DEF Full, TypeOK
<1>4. /\ broadcast # <<>> /\ broadcast' = Tail(broadcast)
      /\ log' = Append(log, j)
      /\ clients' = clients \ gone
      /\ UNCHANGED <<reader, writer, from, out>>
      /\ \A c \in Clients :
            /\ c \in subs[j] => chan[c] = "open"
            /\ send'[c] = IF c \in subs[j] \ gone THEN Append(send[c], n + 1) ELSE send[c]
            /\ chan'[c] = IF c \in gone THEN "closed" ELSE chan[c]
            /\ until'[c] = IF c \in gone THEN n ELSE until[c]
      /\ \A i \in Jobs : subs'[i] = IF i = j THEN subs[i] \ gone ELSE subs[i]
  BY <1>1, <1>2, <1>3 DEF HubBroadcast, Evict, TypeOK
<1>5. gone \subseteq subs[j]
  BY <1>3 DEF Full
<1>6. /\ log \in Seq(Jobs) /\ broadcast \in Seq(Jobs)
      /\ Len(log') = n + 1 /\ log'[n + 1] = j /\ \A k \in 1..n : log'[k] = log[k]
  BY <1>1, <1>2, <1>4 DEF TypeOK
<1>7. /\ Len(broadcast') = Len(broadcast) - 1 /\ Len(broadcast) \in Nat \ {0}
      /\ n + Len(broadcast) <= Never /\ Never \in Nat
  BY <1>2, <1>4, <1>6, HubAssumption DEF StreamInv, NumberInv, Never
<1>8. \A c \in Clients : c \in subs[j] => c \in clients
  BY <1>4 DEF OpenWhileRegistered, PumpInv
<1>9. ASSUME NEW c \in Clients
      PROVE  /\ Ascending(Passed(c)') /\ Elements(Passed(c)') \subseteq 1..(n + 1)
             /\ writer[c] = "running" => Elements(Passed(c)') = Owed(c)'
  <2>1. /\ send[c] \in Seq(Nat) /\ out[c] \in Seq(Nat) /\ Passed(c) \in Seq(Nat)
        /\ Ascending(Passed(c)) /\ Elements(Passed(c)) \subseteq 1..n
        /\ writer[c] = "running" => Elements(Passed(c)) = Owed(c)
    BY <1>2, NoGapIs DEF StreamInv, NumberInv, TypeOK, Passed
  <2>2. Owed(c)' = {k \in 1..(n + 1) : from[c][log'[k]] < k /\ k <= until'[c]}
    BY <1>4, <1>6 DEF Owed
  <2>3. Owed(c) = {k \in 1..n : from[c][log[k]] < k /\ k <= until[c]}
    BY <1>2 DEF Owed
  <2>4. until[c] \in Nat /\ \A i \in Jobs : from[c][i] \in Nat
    BY DEF TypeOK
  <2>5. CASE c \in subs[j] \ gone
    <3>1. from[c][j] <= n /\ until'[c] = Never
      BY <1>2, <1>4, <1>8, <2>5 DEF StreamInv, OwedInv, UntilInv, FromInv
    <3>2. Passed(c)' = Append(Passed(c), n + 1)
      <4>1. Passed(c)' = out[c] \o Append(send[c], n + 1)
        BY <1>4, <2>5 DEF Passed
      <4>2. n + 1 \in Nat
        OBVIOUS
      <4> QED BY <2>1, <4>1, <4>2, ConcatAppend DEF Passed
    <3>3. Owed(c)' = Owed(c) \cup {n + 1}
      <4>1. until[c] = Never
        BY <1>4, <2>5 DEF StreamInv, OwedInv, UntilInv, FromInv
      <4>2. \A k \in 1..n : k <= until'[c] /\ k <= until[c] /\ log'[k] = log[k]
        BY <1>6, <1>7, <3>1, <4>1
      <4>3. from[c][log'[n + 1]] < n + 1 /\ n + 1 <= until'[c]
        BY <1>6, <1>7, <2>4, <3>1
      <4>4. 1..(n + 1) = (1..n) \cup {n + 1}
        OBVIOUS
      <4> QED BY <2>2, <2>3, <4>2, <4>3, <4>4
    <3>4. /\ Ascending(Append(Passed(c), n + 1))
          /\ Elements(Append(Passed(c), n + 1)) = Elements(Passed(c)) \cup {n + 1}
      BY <2>1, AppendAbove
    <3>5. Elements(Passed(c)) \cup {n + 1} \subseteq 1..(n + 1)
      BY <2>1
    <3> QED BY <2>1, <3>2, <3>3, <3>4, <3>5
  <2>6. CASE c \notin subs[j] \ gone
    <3>1. Passed(c)' = Passed(c)
      BY <1>4, <2>6 DEF Passed
    <3>2. Owed(c)' = Owed(c)
      <4>1. ~(from[c][j] < n + 1 /\ n + 1 <= until'[c])
        <5>1. CASE c \in gone
          BY <1>4, <5>1
        <5>2. CASE c \notin gone /\ chan[c] = "closed"
          BY <1>2, <1>4, <2>4, <5>2 DEF StreamInv, OwedInv, UntilInv, FromInv
        <5>3. CASE c \notin gone /\ chan[c] # "closed"
          <6>1. from[c][j] = Never
            <7>1. c \in clients \/ reader[c] \in {"none", "registering"}
              BY <5>3 DEF OpenWhileRegistered, PumpInv, TypeOK
            <7> QED BY <2>6, <5>3, <7>1 DEF StreamInv, OwedInv, UntilInv, FromInv, FreshInv
          <6> QED BY <1>7, <6>1
        <5> QED BY <5>1, <5>2, <5>3
      <4>2. \A k \in 1..n : k <= until'[c] <=> k <= until[c]
        <5>1. CASE c \in gone
          <6>1. until[c] = Never
            BY <1>4, <1>5, <5>1 DEF StreamInv, OwedInv, UntilInv, FromInv
          <6> QED BY <1>4, <1>7, <5>1, <6>1
        <5>2. CASE c \notin gone
          BY <1>4, <5>2
        <5> QED BY <5>1, <5>2
      <4> QED BY <1>6, <2>2, <2>3, <4>1, <4>2
    <3>3. Elements(Passed(c)) \subseteq 1..(n + 1)
      BY <2>1
    <3> QED BY <2>1, <3>1, <3>2, <3>3
  <2> QED BY <2>5, <2>6
<1>10. NumberInv'
  <2>1. Len(log') + Len(broadcast') <= MaxMessages
    BY <1>6, <1>7 DEF Never
  <2>2. \A c \in Clients : Elements(Passed(c)') \subseteq 1..Len(log')
    BY <1>6, <1>9
  <2> QED BY <2>1, <2>2 DEF NumberInv, Elements
<1>11. NoGap'
  BY <1>4, <1>9 DEF NoGap, Ascending, Elements
<1>12. FreshInv'
  <2>1. \A c \in Clients : c \in subs[j] => reader[c] \notin {"none", "registering"}
    BY DEF PumpInv
  <2> QED BY <1>4, <2>1 DEF StreamInv, FreshInv, Never
<1>13. OwedInv'
  <2>1. ASSUME NEW c \in Clients
        PROVE  /\ chan'[c] # "closed" => until'[c] = Never
               /\ chan'[c] = "closed" => until'[c] <= n + 1
    <3>1. until[c] \in Nat
      BY DEF TypeOK
    <3> QED BY <1>2, <1>4, <3>1 DEF StreamInv, OwedInv, UntilInv, FromInv
  <2>2. ASSUME NEW c \in clients', NEW i \in Jobs
        PROVE  /\ c \in subs'[i] => from[c][i] <= n + 1
               /\ c \notin subs'[i] => from[c][i] = Never
    <3>1. c \in clients /\ c \in Clients /\ c \notin gone /\ from[c][i] \in Nat
      BY <1>4, <2>2 DEF TypeOK
    <3>2. /\ c \in subs[i] => from[c][i] <= n
          /\ c \notin subs[i] => from[c][i] = Never
      BY <1>2, <3>1 DEF StreamInv, OwedInv, UntilInv, FromInv
    <3>3. c \in subs'[i] <=> c \in subs[i]
      BY <1>4, <3>1
    <3> QED BY <3>1, <3>2, <3>3
  <2> QED BY <1>4, <1>6, <2>1, <2>2 DEF OwedInv, UntilInv, FromInv, Never
<1> QED BY <1>10, <1>11, <1>12, <1>13 DEF StreamInv

(* Every step keeps the invariant of the streams. *)
LEMMA StreamStep ==
  ASSUME TableInv, StreamInv, [Next]_vars
  PROVE  StreamInv'
<1>1. ASSUME NEW j \in Jobs, Publish(j) PROVE StreamInv'
  <2>1. /\ Len(broadcast) \in Nat /\ Len(log) \in Nat
        /\ Len(broadcast') = Len(broadcast) + 1 /\ Len(log) + Len(broadcast) < MaxMessages
    BY <1>1 DEF Publish, TableInv, TypeOK
  <2>2. UNCHANGED <<clients, subs, chan, reader, writer, log, send, out, from, until>>
    BY <1>1 DEF Publish, hubVars, historyVars
  <2>3. \A c \in Clients : Owed(c)' = Owed(c)
    BY <2>2 DEF Owed
  <2>4. NumberInv' /\ NoGap'
    <3>1. Len(log) + Len(broadcast') <= MaxMessages /\ Len(broadcast') \in Nat
      BY <2>1, HubAssumption
    <3> QED BY <2>2, <2>3, <3>1, StreamStays
  <2>5. FreshInv' /\ OwedInv'
    BY <2>2 DEF StreamInv, FreshInv, OwedInv, UntilInv, FromInv, Never
  <2> QED BY <2>4, <2>5 DEF StreamInv
<1>2. CASE HubPanic \/ UNCHANGED vars
  <2>1. UNCHANGED <<clients, subs, broadcast, chan, reader, writer, log, send, out, from, until>>
    BY <1>2 DEF HubPanic, vars, historyVars
  <2>2. Len(broadcast) \in Nat
    BY DEF TableInv, TypeOK
  <2>3. \A c \in Clients : Owed(c)' = Owed(c)
    BY <2>1 DEF Owed
  <2>4. NumberInv' /\ NoGap'
    BY <2>1, <2>2, <2>3, StreamStays
  <2>5. FreshInv' /\ OwedInv'
    BY <2>1 DEF StreamInv, FreshInv, OwedInv, UntilInv, FromInv, Never
  <2> QED BY <2>4, <2>5 DEF StreamInv
<1> QED
  BY <1>1, <1>2, StreamReader, StreamUnregister, StreamSubscribe, StreamWriter, StreamBroadcast
     DEF Next, Hub

(* What a client gets has no gap: as long as its WritePump works, what has *)
(* been written and what waits in its channel is every message of its jobs *)
(* since it subscribed to them, in the order of the Hub and once, however  *)
(* the Hub, the two pumps and the evictions interleave.                    *)
THEOREM NoGapCorrect == Spec => []NoGap
<1>1. StreamInv => NoGap
  BY DEF StreamInv
<1> QED BY <1>1, TableInit, TableStep, StreamInit, StreamStep, PTL DEF Spec

=============================================================================
