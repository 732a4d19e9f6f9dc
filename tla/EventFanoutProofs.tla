-------------------------- MODULE EventFanoutProofs --------------------------
(* Theorems of EventFanout, for any clients, handlers and events.          *)
EXTENDS EventFanout, FiniteSetTheorems, TLAPS

(* d occurs in o no later than e.                                          *)
Before(o, d, e) == \E i, j \in 1..Len(o) : i <= j /\ o[i] = d /\ o[j] = e
InOrder(o, s) == \A k, l \in 1..Len(s) : k <= l => Before(o, s[k], s[l])

(* Redis takes an event once.                                              *)
PublishedOnce ==
    /\ \A i \in 1..Len(order) : order[i] \in emitted
    /\ \A i, j \in 1..Len(order) : order[i] = order[j] => i = j

FromRelay(c) == {i \in 1..Len(received[c]) : received[c][i].by = Relay}

(* What clients have from the relay comes before what it is broadcasting,  *)
(* and that before what waits in its subscription.                         *)
ReceivedInOrder ==
    \A c \in Clients : \A i, j \in FromRelay(c) :
        i <= j => Before(order, received[c][i].event, received[c][j].event)
ReceivedBeforeCast ==
    Broadcasting(Relay) => \A c \in Clients : \A i \in FromRelay(c) :
        Before(order, received[c][i].event, cast[Relay].event)
ReceivedBeforeInbox ==
    \A c \in Clients : \A i \in FromRelay(c), k \in 1..Len(inbox) :
        Before(order, received[c][i].event, inbox[k])
CastBeforeInbox ==
    Broadcasting(Relay) =>
        /\ Before(order, cast[Relay].event, cast[Relay].event)
        /\ \A k \in 1..Len(inbox) : Before(order, cast[Relay].event, inbox[k])

Pipeline == /\ ReceivedInOrder /\ ReceivedBeforeCast /\ ReceivedBeforeInbox
            /\ CastBeforeInbox /\ InOrder(order, inbox)

RelayInv == TypeOK /\ PublishedOnce /\ Pipeline

-----------------------------------------------------------------------------
LEMMA TasksDisjoint == Relay \in Tasks /\ \A h \in HandlerEvents : h \in Tasks /\ h # Relay
BY FanoutAssumption DEF Tasks, Events

LEMMA SizeIsNat == ASSUME TypeOK PROVE Cardinality(connections) \in Nat
<1>1. IsFiniteSet(connections)
  BY FanoutAssumption, FS_Subset DEF TypeOK
<1> QED BY <1>1, FS_CardinalityType

LEMMA StartedTypes ==
    ASSUME TypeOK, NEW e \in Events
    PROVE  Started(e) \in Broadcast /\ Started(e).event = e /\ Started(e).todo = connections
BY SizeIsNat DEF Started, Broadcast, TypeOK

LEMMA IdleType == Idle \in Broadcast
BY DEF Idle, Broadcast

LEMMA CastTypes ==
    ASSUME TypeOK, NEW t \in Tasks, NEW b \in Broadcast, b # Idle => b.event \in Events,
           cast' = [cast EXCEPT ![t] = b]
    PROVE  /\ cast' \in [Tasks -> Broadcast]
           /\ \A u \in Tasks : cast'[u] # Idle => cast'[u].event \in Events
BY DEF TypeOK, Broadcasting

(* A send is issued: what becomes of the broadcast and of the receipts.    *)
LEMMA Sent ==
    ASSUME TypeOK, NEW t \in Tasks, NEW b \in Broadcast, b.event \in Events,
           NEW c \in Clients, SendTo(t, b, c)
    PROVE  /\ cast' \in [Tasks -> Broadcast]
           /\ \A u \in Tasks : cast'[u] # Idle => cast'[u].event \in Events
           /\ cast'[t] # Idle /\ cast'[t].event = b.event /\ cast'[t].todo = b.todo \ {c}
           /\ \A u \in Tasks \ {t} : cast'[u] = cast[u]
           /\ received' \in [Clients -> Seq(Receipt)]
           /\ \A d \in Clients : \A i \in 1..Len(received'[d]) :
                \/ i \in 1..Len(received[d]) /\ received'[d][i] = received[d][i]
                \/ /\ d = c /\ i = Len(received[c]) + 1 /\ i = Len(received'[c])
                   /\ received'[d][i].event = b.event /\ received'[d][i].by = t
<1> DEFINE m == [b EXCEPT !.todo = @ \ {c}, !.at = c]
           r == [event |-> b.event, by |-> t]
<1>1. m \in Broadcast /\ m.event = b.event /\ m.todo = b.todo \ {c}
  BY DEF Broadcast
<1>2. m # Idle
  BY <1>1, FanoutAssumption DEF Idle
<1>3. cast' = [cast EXCEPT ![t] = m]
  BY DEF SendTo
<1>4. r \in Receipt /\ r.event = b.event /\ r.by = t
  BY DEF Receipt
<1>5. received' = received \/ received' = [received EXCEPT ![c] = Append(@, r)]
  BY DEF SendTo
<1> HIDE DEF m, r
<1>6. /\ cast' \in [Tasks -> Broadcast]
      /\ \A u \in Tasks : cast'[u] # Idle => cast'[u].event \in Events
  BY <1>1, <1>3, CastTypes
<1>7. cast'[t] = m /\ \A u \in Tasks \ {t} : cast'[u] = cast[u]
  BY <1>3 DEF TypeOK
<1>8. CASE received' = received
  BY <1>1, <1>2, <1>6, <1>7, <1>8 DEF TypeOK
<1>9. CASE received' = [received EXCEPT ![c] = Append(@, r)]
  <2>1. received \in [Clients -> Seq(Receipt)]
    BY DEF TypeOK
  <2>2. received[c] \in Seq(Receipt) /\ Append(received[c], r) \in Seq(Receipt)
    BY <1>4, <2>1
  <2>3. /\ received'[c] = Append(received[c], r)
        /\ \A d \in Clients : d # c => received'[d] = received[d]
    BY <1>9, <2>1
  <2>4. received' \in [Clients -> Seq(Receipt)]
    BY <1>9, <2>1, <2>2
  <2>5. \A i \in 1..Len(received'[c]) :
          \/ i \in 1..Len(received[c]) /\ received'[c][i] = received[c][i]
          \/ i = Len(received[c]) + 1 /\ i = Len(received'[c]) /\ received'[c][i] = r
    BY <2>2, <2>3
  <2> QED BY <1>1, <1>2, <1>4, <1>6, <1>7, <2>3, <2>4, <2>5
<1> QED BY <1>5, <1>8, <1>9

(* How an event begins to be broadcast: to nobody, or with its first send. *)
LEMMA Begun ==
    ASSUME TypeOK, NEW t \in Tasks, NEW e \in Events, Begin(t, e)
    PROVE  \/ cast' = cast /\ received' = received
           \/ \E b \in Broadcast, c \in Clients :
                /\ b.event = e /\ b.todo \subseteq Clients /\ SendTo(t, b, c)
BY StartedTypes DEF Begin, TypeOK

LEMMA BegunTypes ==
    ASSUME TypeOK, NEW t \in Tasks, NEW e \in Events, Begin(t, e)
    PROVE  /\ cast' \in [Tasks -> Broadcast]
           /\ \A u \in Tasks : cast'[u] # Idle => cast'[u].event \in Events
           /\ received' \in [Clients -> Seq(Receipt)]
<1>1. CASE cast' = cast /\ received' = received
  BY <1>1 DEF TypeOK, Broadcasting
<1>2. CASE \E b \in Broadcast, c \in Clients : b.event = e /\ SendTo(t, b, c)
  BY <1>2, Sent
<1> QED BY <1>1, <1>2, Begun

LEMMA ReturnedTypes ==
    ASSUME TypeOK, NEW t \in Tasks, NEW b \in Returned(t)
    PROVE  b \in Broadcast /\ b.event = cast[t].event /\ b.todo = cast[t].todo
<1>1. PICK noticed \in SUBSET Clients : b = [cast[t] EXCEPT !.dead = @ \cup noticed]
  BY DEF Returned
<1>2. cast[t] \in Broadcast
  BY DEF TypeOK
<1> QED BY <1>1, <1>2 DEF Broadcast

(* A broadcast that resumes: it ends, goes on to a client it has yet to    *)
(* visit, or, over a replaced set, to any.                                 *)
LEMMA Resumed ==
    ASSUME TypeOK, NEW t \in Tasks, BroadcastStep(t)
    PROVE  /\ Broadcasting(t) /\ cast[t].event \in Events
           /\ \/ cast' = [cast EXCEPT ![t] = Idle] /\ received' = received
              \/ \E b \in Broadcast, c \in Clients :
                   /\ b.event = cast[t].event /\ SendTo(t, b, c)
                   /\ \/ b.todo = cast[t].todo /\ c \in cast[t].todo
                      \/ cast[t].event \in churned'
           /\ order' = order /\ emitted' = emitted /\ fallback' = fallback
           /\ doubtful' = doubtful /\ churned \subseteq churned' /\ churned' \subseteq Events
           /\ inbox' \in {inbox, <<>>}
<1>1. CASE Send(t)
  <2>1. PICK b \in Returned(t), c \in cast[t].todo : SendTo(t, b, c)
    BY <1>1 DEF Send
  <2>2. Broadcasting(t) /\ cast[t].event \in Events /\ cast[t].todo \subseteq Clients
    BY <1>1 DEF Send, Undisturbed, TypeOK, Broadcast
  <2>3. b \in Broadcast /\ b.event = cast[t].event /\ b.todo = cast[t].todo /\ c \in Clients
    BY <2>2, ReturnedTypes
  <2> QED BY <1>1, <2>1, <2>2, <2>3 DEF Send, TypeOK, history
<1>2. CASE EndBroadcast(t)
  BY <1>2 DEF EndBroadcast, Undisturbed, Finish, TypeOK, history
<1>3. CASE SetChurned(t)
  <2>1. /\ Broadcasting(t) /\ cast[t].event \in Events /\ churned' = churned \cup {cast[t].event}
        /\ order' = order /\ emitted' = emitted /\ fallback' = fallback
        /\ doubtful' = doubtful /\ inbox' = inbox
    BY <1>3 DEF SetChurned, TypeOK
  <2>2. PICK b \in Returned(t) :
          \/ Finish(t, b)
          \/ \E c \in connections, visits \in SUBSET connections :
               SendTo(t, [b EXCEPT !.members = connections, !.todo = visits], c)
    BY <1>3 DEF SetChurned
  <2>3. CASE Finish(t, b)
    BY <2>1, <2>3 DEF Finish, TypeOK
  <2>4. ASSUME NEW c \in connections, NEW visits \in SUBSET connections,
               SendTo(t, [b EXCEPT !.members = connections, !.todo = visits], c)
        PROVE  \E m \in Broadcast, d \in Clients :
                 m.event = cast[t].event /\ SendTo(t, m, d)
    <3> DEFINE m == [b EXCEPT !.members = connections, !.todo = visits]
    <3>1. b \in Broadcast /\ b.event = cast[t].event
      BY ReturnedTypes
    <3>2. m \in Broadcast /\ m.event = cast[t].event /\ c \in Clients
      BY <3>1 DEF Broadcast, TypeOK
    <3>3. SendTo(t, m, c)
      BY <2>4
    <3> HIDE DEF m
    <3> QED BY <3>2, <3>3
  <2> QED BY <2>1, <2>2, <2>3, <2>4 DEF TypeOK
<1>4. CASE SetChangedSize(t)
  BY <1>4 DEF SetChangedSize, TypeOK, history
<1> QED BY <1>1, <1>2, <1>3, <1>4 DEF BroadcastStep

(* The state and what the clients got keep their types.                    *)
LEMMA FanoutTypes == ASSUME TypeOK, [Next]_vars PROVE TypeOK'
<1> USE DEF TypeOK, sockets, bounds, history, Broadcasting
<1>1. ASSUME NEW c \in Clients, Connect(c) \/ Leave(c) \/ Disconnected(c) \/ BinaryFrame(c)
      PROVE  TypeOK'
  BY <1>1 DEF Connect, Leave, Disconnected, BinaryFrame
<1>2. ASSUME NEW e \in Events, Publish(e) PROVE TypeOK'
  <2>1. order' \in Seq(Events) /\ inbox' \in Seq(Events)
    <3>1. Append(order, e) \in Seq(Events) /\ Append(inbox, e) \in Seq(Events)
      OBVIOUS
    <3>2. Taken(e) \/ NotTaken
      BY <1>2 DEF Publish, Raises
    <3> QED BY <3>1, <3>2 DEF Taken, NotTaken
  <2>2. doubtful' \subseteq Events /\ emitted' \subseteq Events /\ failures' \in Nat
        /\ fallback' \subseteq HandlerEvents
    BY <1>2 DEF Publish, Raises
  <2> QED BY <1>2, <2>1, <2>2 DEF Publish
<1>3. ASSUME NEW e \in Events, EmitLocally(e) \/ Fallback(e) PROVE TypeOK'
  <2>1. e \in Tasks /\ Begin(e, e) /\ fallback' \subseteq HandlerEvents
    BY <1>3, TasksDisjoint DEF EmitLocally, Fallback
  <2>2. /\ cast' \in [Tasks -> Broadcast]
        /\ \A u \in Tasks : cast'[u] # Idle => cast'[u].event \in Events
        /\ received' \in [Clients -> Seq(Receipt)]
    BY <2>1, BegunTypes
  <2> QED BY <1>3, <2>1, <2>2 DEF EmitLocally, Fallback
<1>4. CASE Subscribe \/ ListenFails
  <2>1. CASE Subscribe
    BY <2>1 DEF Subscribe
  <2>2. CASE ListenFails
    BY <2>2 DEF ListenFails
  <2> QED BY <1>4, <2>1, <2>2
<1>5. CASE TakeNext
  <2>1. Head(inbox) \in Events /\ inbox' \in Seq(Events)
    BY <1>5 DEF TakeNext
  <2>2. /\ cast' \in [Tasks -> Broadcast]
        /\ \A u \in Tasks : cast'[u] # Idle => cast'[u].event \in Events
        /\ received' \in [Clients -> Seq(Receipt)]
    BY <1>5, <2>1, TasksDisjoint, BegunTypes DEF TakeNext
  <2> QED BY <1>5, <2>1, <2>2 DEF TakeNext
<1>6. ASSUME NEW t \in Tasks, BroadcastStep(t) PROVE TypeOK'
  <2>1. /\ cast' \in [Tasks -> Broadcast]
        /\ \A u \in Tasks : cast'[u] # Idle => cast'[u].event \in Events
        /\ received' \in [Clients -> Seq(Receipt)]
    <3>1. CASE cast' = [cast EXCEPT ![t] = Idle] /\ received' = received
      BY <3>1, IdleType, CastTypes
    <3>2. CASE \E b \in Broadcast, c \in Clients :
                 b.event = cast[t].event /\ SendTo(t, b, c)
      BY <1>6, <3>2, Resumed, Sent
    <3> QED BY <1>6, <3>1, <3>2, Resumed
  <2>2. /\ order' = order /\ emitted' = emitted /\ fallback' = fallback
        /\ doubtful' = doubtful /\ churned' \subseteq Events /\ inbox' \in {inbox, <<>>}
    BY <1>6, Resumed
  <2>3. /\ connections' \subseteq connections /\ receiving' = receiving /\ socket' = socket
        /\ relay' \in {relay, "ended"} /\ failures' = failures /\ restarts' = restarts
    BY <1>6 DEF BroadcastStep, Send, EndBroadcast, Finish, SetChurned, SetChangedSize
  <2>4. inbox' \in Seq(Events)
    <3>1. <<>> \in Seq(Events)
      OBVIOUS
    <3> QED BY <2>2, <3>1
  <2> QED BY <2>1, <2>2, <2>3, <2>4
<1>7. CASE Restart
  BY <1>7, IdleType DEF Restart
<1>8. CASE UNCHANGED vars
  BY <1>8 DEF vars
<1> QED BY <1>1, <1>2, <1>3, <1>4, <1>5, <1>6, <1>7, <1>8 DEF Next

-----------------------------------------------------------------------------
(* What Redis takes is published after everything it took before.          *)
LEMMA OnceKept == ASSUME TypeOK, PublishedOnce, [Next]_vars PROVE PublishedOnce'
<1>1. CASE order' = order /\ emitted \subseteq emitted'
  BY <1>1 DEF PublishedOnce
<1>2. ASSUME NEW e \in Events, e \notin emitted, order' = Append(order, e),
             emitted' = emitted \cup {e}
      PROVE  PublishedOnce'
  BY <1>2 DEF PublishedOnce, TypeOK
<1> QED BY <1>1, <1>2 DEF Next, Publish, Taken, NotTaken, Raises, EmitLocally, Connect, Leave,
        Disconnected, BinaryFrame, Subscribe, ListenFails, TakeNext, BroadcastStep, Send,
        EndBroadcast, SetChurned, SetChangedSize, Fallback, Restart, sockets, bounds, history, vars

LEMMA LaterIsBefore ==
    ASSUME NEW o \in Seq(Events), NEW e \in Events, NEW p, p = Append(o, e)
    PROVE  /\ \A d, f : Before(o, d, f) => Before(p, d, f)
           /\ \A d, f : Before(o, d, f) => Before(p, d, e) /\ Before(p, f, e)
           /\ Before(p, e, e)
<1>1. /\ Len(p) = Len(o) + 1 /\ Len(o) \in Nat /\ p[Len(o) + 1] = e
      /\ \A i \in 1..Len(o) : p[i] = o[i]
  OBVIOUS
<1> QED BY <1>1 DEF Before

LEMMA AppendInOrder ==
    ASSUME NEW o \in Seq(Events), NEW e \in Events, NEW s \in Seq(Events), InOrder(o, s),
           NEW p, p = Append(o, e), NEW z, z = s \/ z = Append(s, e)
    PROVE  InOrder(p, z)
<1>1. /\ Len(s) \in Nat /\ Len(z) \in {Len(s), Len(s) + 1}
      /\ \A k \in 1..Len(s) : z[k] = s[k]
      /\ Len(z) = Len(s) + 1 => z[Len(s) + 1] = e
  OBVIOUS
<1>0. /\ \A d, f : Before(o, d, f) => Before(p, d, f)
      /\ \A d, f : Before(o, d, f) => Before(p, d, e) /\ Before(p, f, e)
      /\ Before(p, e, e)
  BY LaterIsBefore
<1>2. ASSUME NEW k \in 1..Len(z), NEW l \in 1..Len(z), k <= l PROVE Before(p, z[k], z[l])
  <2>1. CASE l \in 1..Len(s)
    <3>1. k \in 1..Len(s) /\ z[k] = s[k] /\ z[l] = s[l]
      BY <1>1, <1>2, <2>1
    <3>2. Before(o, s[k], s[l])
      BY <1>2, <2>1, <3>1 DEF InOrder
    <3> QED BY <1>0, <3>1, <3>2
  <2>2. CASE l = Len(s) + 1 /\ k \in 1..Len(s)
    <3>1. Before(o, s[k], s[k])
      BY <2>2 DEF InOrder
    <3> QED BY <1>0, <1>1, <2>2, <3>1
  <2>3. CASE l = Len(s) + 1 /\ k = Len(s) + 1
    BY <1>0, <1>1, <2>3
  <2> QED BY <1>1, <1>2, <2>1, <2>2, <2>3
<1> QED BY <1>2 DEF InOrder

(* Redis takes the event of a handler or of the worker.                    *)
LEMMA PipelineTaken ==
    ASSUME TypeOK, Pipeline, NEW e \in Events, Taken(e), received' = received,
           cast'[Relay] = cast[Relay]
    PROVE  Pipeline'
<1>1. /\ \A d, f : Before(order, d, f) => Before(order', d, f)
      /\ \A d, f : Before(order, d, f) => Before(order', d, e) /\ Before(order', f, e)
  BY LaterIsBefore DEF Taken, TypeOK
<1>2. InOrder(order', inbox')
  BY AppendInOrder DEF Taken, TypeOK, Pipeline
<1>3. ASSUME NEW k \in 1..Len(inbox')
      PROVE  inbox'[k] = e \/ (k \in 1..Len(inbox) /\ inbox'[k] = inbox[k])
  <2>1. CASE inbox' = inbox
    BY <1>3, <2>1
  <2>2. CASE inbox' = Append(inbox, e)
    <3>1. inbox \in Seq(Events)
      BY DEF TypeOK
    <3>2. /\ Len(inbox') = Len(inbox) + 1 /\ Len(inbox) \in Nat
          /\ inbox'[Len(inbox) + 1] = e
          /\ \A i \in 1..Len(inbox) : inbox'[i] = inbox[i]
      BY <2>2, <3>1
    <3>3. k \in 1..Len(inbox) \/ k = Len(inbox) + 1
      BY <1>3, <3>2
    <3> QED BY <3>2, <3>3
  <2> QED BY <2>1, <2>2 DEF Taken
<1>4. ReceivedInOrder' /\ ReceivedBeforeCast'
  BY <1>1 DEF Pipeline, ReceivedInOrder, ReceivedBeforeCast, FromRelay, Broadcasting
<1>5. ReceivedBeforeInbox'
  <2>1. ASSUME NEW c \in Clients, NEW i \in FromRelay(c)
        PROVE  Before(order, received[c][i].event, received[c][i].event)
    BY <2>1 DEF Pipeline, ReceivedInOrder, FromRelay
  <2> QED BY <1>1, <1>3, <2>1 DEF Pipeline, ReceivedBeforeInbox, FromRelay
<1>6. CastBeforeInbox'
  BY <1>1, <1>3 DEF Pipeline, CastBeforeInbox, Broadcasting
<1> QED BY <1>2, <1>4, <1>5, <1>6 DEF Pipeline

(* The subscription and the relay's broadcast are as before or dropped.    *)
LEMMA PipelineKept ==
    ASSUME Pipeline, order' = order, inbox' \in {inbox, <<>>},
           \A c \in Clients : \A i \in FromRelay(c)' :
               i \in FromRelay(c) /\ received'[c][i] = received[c][i],
           cast'[Relay] = Idle \/ cast'[Relay] = cast[Relay]
    PROVE  Pipeline'
<1>1. inbox' = inbox \/ Len(inbox') = 0
  OBVIOUS
<1>2. InOrder(order', inbox')
  BY <1>1 DEF Pipeline, InOrder
<1>3. ReceivedInOrder' /\ ReceivedBeforeCast'
  BY DEF Pipeline, ReceivedInOrder, ReceivedBeforeCast, Broadcasting
<1>4. ReceivedBeforeInbox' /\ CastBeforeInbox'
  BY <1>1 DEF Pipeline, ReceivedBeforeInbox, CastBeforeInbox, Broadcasting
<1> QED BY <1>2, <1>3, <1>4 DEF Pipeline

LEMMA PipelineStays ==
    ASSUME Pipeline, order' = order, received' = received, inbox' \in {inbox, <<>>},
           cast'[Relay] = cast[Relay]
    PROVE  Pipeline'
BY PipelineKept DEF FromRelay

(* The relay sends e to a client, which comes after all that was sent and  *)
(* before what waits, and goes on broadcasting it or ends.                 *)
LEMMA PipelineSends ==
    ASSUME TypeOK', Pipeline, order' = order, NEW e \in Events,
           Before(order, e, e), InOrder(order, inbox'),
           \A c \in Clients : \A i \in FromRelay(c) : Before(order, received[c][i].event, e),
           \A k \in 1..Len(inbox') : Before(order, e, inbox'[k]),
           \A c \in Clients : \A i \in FromRelay(c), k \in 1..Len(inbox') :
               Before(order, received[c][i].event, inbox'[k]),
           \A c \in Clients : \A i \in FromRelay(c)' :
               \/ i \in FromRelay(c) /\ received'[c][i] = received[c][i]
               \/ received'[c][i].event = e /\ i = Len(received'[c]),
           Broadcasting(Relay)' => cast'[Relay].event = e
    PROVE  Pipeline'
<1>1. ReceivedBeforeCast' /\ ReceivedBeforeInbox' /\ CastBeforeInbox'
  BY DEF ReceivedBeforeCast, ReceivedBeforeInbox, CastBeforeInbox
<1>2. ASSUME NEW c \in Clients, NEW i \in FromRelay(c)', NEW j \in FromRelay(c)', i <= j
      PROVE  Before(order', received'[c][i].event, received'[c][j].event)
  <2>1. Len(received'[c]) \in Nat /\ i <= Len(received'[c]) /\ j <= Len(received'[c])
    BY <1>2 DEF FromRelay, TypeOK
  <2>2. CASE j \in FromRelay(c) /\ received'[c][j] = received[c][j]
    <3>1. CASE i \in FromRelay(c) /\ received'[c][i] = received[c][i]
      BY <1>2, <2>2, <3>1 DEF Pipeline, ReceivedInOrder
    <3>2. CASE received'[c][i].event = e /\ i = Len(received'[c])
      <4>1. i = j
        BY <1>2, <2>1, <3>2 DEF FromRelay
      <4> QED BY <3>2, <4>1
    <3> QED BY <1>2, <3>1, <3>2
  <2>3. CASE received'[c][j].event = e
    BY <1>2, <2>3
  <2> QED BY <1>2, <2>2, <2>3
<1> QED BY <1>1, <1>2 DEF Pipeline, ReceivedInOrder

LEMMA SentByRelay ==
    ASSUME TypeOK, NEW t \in Tasks, NEW b \in Broadcast, b.event \in Events,
           NEW c \in Clients, SendTo(t, b, c), NEW d \in Clients, NEW i \in FromRelay(d)'
    PROVE  \/ i \in FromRelay(d) /\ received'[d][i] = received[d][i]
           \/ t = Relay /\ received'[d][i].event = b.event /\ i = Len(received'[d])
<1>1. i \in 1..Len(received'[d]) /\ received'[d][i].by = Relay
  BY DEF FromRelay
<1>2. \/ i \in 1..Len(received[d]) /\ received'[d][i] = received[d][i]
      \/ /\ d = c /\ i = Len(received'[c])
         /\ received'[d][i].event = b.event /\ received'[d][i].by = t
  BY <1>1, Sent
<1> QED BY <1>1, <1>2 DEF FromRelay

(* The relay takes up the head of its subscription.                        *)
LEMMA PipelineShifts == ASSUME TypeOK, TypeOK', Pipeline, TakeNext PROVE Pipeline'
<1> DEFINE e == inbox[1]
<1>1. /\ e \in Events /\ Begin(Relay, e) /\ ~Broadcasting(Relay) /\ order' = order
      /\ 1 \in 1..Len(inbox)
  BY DEF TakeNext, TypeOK, history
<1>2. \A k \in 1..Len(inbox') :
        k \in Nat /\ k + 1 \in 1..Len(inbox) /\ inbox'[k] = inbox[k + 1]
  BY DEF TakeNext, TypeOK
<1>3. /\ Before(order, e, e) /\ InOrder(order, inbox')
      /\ \A k \in 1..Len(inbox') : Before(order, e, inbox'[k])
  BY <1>1, <1>2 DEF Pipeline, InOrder
<1>4. /\ \A c \in Clients : \A i \in FromRelay(c) : Before(order, received[c][i].event, e)
      /\ \A c \in Clients : \A i \in FromRelay(c), k \in 1..Len(inbox') :
           Before(order, received[c][i].event, inbox'[k])
  BY <1>1, <1>2 DEF Pipeline, ReceivedBeforeInbox
<1> HIDE DEF e
<1>5. CASE cast' = cast /\ received' = received
  <2>1. ~Broadcasting(Relay)'
    BY <1>1, <1>5 DEF Broadcasting
  <2>2. \A c \in Clients : \A i \in FromRelay(c)' :
            i \in FromRelay(c) /\ received'[c][i] = received[c][i]
    BY <1>5 DEF FromRelay
  <2> QED BY <1>1, <1>3, <1>4, <2>1, <2>2, PipelineSends
<1>6. ASSUME NEW b \in Broadcast, NEW c \in Clients, b.event = e, SendTo(Relay, b, c)
      PROVE  Pipeline'
  <2>1. cast'[Relay].event = e
    BY <1>1, <1>6, Sent, TasksDisjoint
  <2>2. \A d \in Clients : \A i \in FromRelay(d)' :
            \/ i \in FromRelay(d) /\ received'[d][i] = received[d][i]
            \/ received'[d][i].event = e /\ i = Len(received'[d])
    BY <1>1, <1>6, SentByRelay, TasksDisjoint
  <2> QED BY <1>1, <1>3, <1>4, <2>1, <2>2, PipelineSends
<1> QED BY <1>1, <1>5, <1>6, Begun, TasksDisjoint

(* The relay's broadcast resumes.                                          *)
LEMMA PipelineResumes ==
    ASSUME TypeOK, TypeOK', Pipeline, BroadcastStep(Relay) PROVE Pipeline'
<1> DEFINE e == cast[Relay].event
<1>1. Broadcasting(Relay) /\ e \in Events /\ order' = order /\ inbox' \in {inbox, <<>>}
  BY Resumed, TasksDisjoint
<1>2. CASE cast' = [cast EXCEPT ![Relay] = Idle] /\ received' = received
  <2>1. cast'[Relay] = Idle
    BY <1>2, TasksDisjoint DEF TypeOK
  <2>2. \A c \in Clients : \A i \in FromRelay(c)' :
            i \in FromRelay(c) /\ received'[c][i] = received[c][i]
    BY <1>2 DEF FromRelay
  <2> QED BY <1>1, <2>1, <2>2, PipelineKept
<1>3. ASSUME NEW b \in Broadcast, NEW c \in Clients, b.event = e, SendTo(Relay, b, c)
      PROVE  Pipeline'
  <2>1. cast'[Relay].event = e
    BY <1>1, <1>3, Sent, TasksDisjoint
  <2>2. \A d \in Clients : \A i \in FromRelay(d)' :
            \/ i \in FromRelay(d) /\ received'[d][i] = received[d][i]
            \/ received'[d][i].event = e /\ i = Len(received'[d])
    BY <1>1, <1>3, SentByRelay, TasksDisjoint
  <2>3. inbox' = inbox \/ Len(inbox') = 0
    BY <1>1
  <2>4. /\ Before(order, e, e) /\ InOrder(order, inbox')
        /\ \A k \in 1..Len(inbox') : Before(order, e, inbox'[k])
    BY <1>1, <2>3 DEF Pipeline, CastBeforeInbox, InOrder
  <2>5. /\ \A d \in Clients : \A i \in FromRelay(d) : Before(order, received[d][i].event, e)
        /\ \A d \in Clients : \A i \in FromRelay(d), k \in 1..Len(inbox') :
             Before(order, received[d][i].event, inbox'[k])
    BY <1>1, <2>3 DEF Pipeline, ReceivedBeforeCast, ReceivedBeforeInbox
  <2> HIDE DEF e
  <2> QED BY <1>1, <2>1, <2>2, <2>4, <2>5, PipelineSends
<1> QED BY <1>2, <1>3, Resumed, TasksDisjoint

(* A handler's broadcast begins or goes on.                                *)
LEMMA PipelineElsewhere ==
    ASSUME TypeOK, Pipeline, NEW t \in Tasks, t # Relay,
           order' = order, inbox' \in {inbox, <<>>},
           \/ received' = received /\ (cast' = cast \/ cast' = [cast EXCEPT ![t] = Idle])
           \/ \E b \in Broadcast, c \in Clients : b.event \in Events /\ SendTo(t, b, c)
    PROVE  Pipeline'
<1>1. CASE received' = received /\ (cast' = cast \/ cast' = [cast EXCEPT ![t] = Idle])
  <2>1. cast'[Relay] = cast[Relay]
    BY <1>1, TasksDisjoint DEF TypeOK
  <2> QED BY <1>1, <2>1, PipelineStays
<1>2. ASSUME NEW b \in Broadcast, NEW c \in Clients, b.event \in Events, SendTo(t, b, c)
      PROVE  Pipeline'
  <2>1. cast'[Relay] = cast[Relay]
    BY <1>2, Sent, TasksDisjoint
  <2>2. \A d \in Clients : \A i \in FromRelay(d)' :
            i \in FromRelay(d) /\ received'[d][i] = received[d][i]
    BY <1>2, SentByRelay
  <2> QED BY <2>1, <2>2, PipelineKept
<1> QED BY <1>1, <1>2

LEMMA PipelineStep == ASSUME RelayInv, [Next]_vars PROVE Pipeline'
<1> USE DEF RelayInv
<1>0. TypeOK'
  BY FanoutTypes
<1>1. ASSUME NEW e \in Events, Publish(e) PROVE Pipeline'
  <2>1. cast'[Relay] = cast[Relay] /\ received' = received
    BY <1>1 DEF Publish
  <2>2. CASE Taken(e)
    BY <2>1, <2>2, PipelineTaken
  <2>3. CASE NotTaken
    BY <2>1, <2>3, PipelineStays DEF NotTaken
  <2> QED BY <1>1, <2>2, <2>3 DEF Publish, Raises
<1>2. ASSUME NEW e \in Events, EmitLocally(e) \/ Fallback(e) PROVE Pipeline'
  <2>1. e \in Tasks /\ e # Relay /\ Begin(e, e)
    BY <1>2, TasksDisjoint DEF EmitLocally, Fallback, TypeOK
  <2>2. order' = order /\ inbox' = inbox
    BY <1>2 DEF EmitLocally, Fallback, history
  <2>3. \/ received' = received /\ cast' = cast
        \/ \E b \in Broadcast, c \in Clients : b.event \in Events /\ SendTo(e, b, c)
    BY <2>1, Begun
  <2> QED BY <2>1, <2>2, <2>3, PipelineElsewhere
<1>3. CASE TakeNext
  BY <1>0, <1>3, PipelineShifts
<1>4. ASSUME NEW t \in Tasks, BroadcastStep(t) PROVE Pipeline'
  <2>1. CASE t = Relay
    BY <1>0, <1>4, <2>1, PipelineResumes
  <2>2. CASE t # Relay
    <3>1. order' = order /\ inbox' \in {inbox, <<>>} /\ cast[t].event \in Events
      BY <1>4, Resumed
    <3>2. \/ received' = received /\ cast' = [cast EXCEPT ![t] = Idle]
          \/ \E b \in Broadcast, c \in Clients : b.event \in Events /\ SendTo(t, b, c)
      BY <1>4, <3>1, Resumed
    <3> QED BY <2>2, <3>1, <3>2, PipelineElsewhere
  <2> QED BY <2>1, <2>2
<1>5. CASE Restart
  <2>1. /\ cast'[Relay] = Idle /\ inbox' \in {inbox, <<>>}
        /\ order' = order /\ received' = received
    BY <1>5, TasksDisjoint DEF Restart, history
  <2>2. \A c \in Clients : \A i \in FromRelay(c)' :
            i \in FromRelay(c) /\ received'[c][i] = received[c][i]
    BY <2>1 DEF FromRelay
  <2> QED BY <2>1, <2>2, PipelineKept
<1>6. CASE \/ Subscribe \/ ListenFails \/ UNCHANGED vars
           \/ \E c \in Clients : Connect(c) \/ Leave(c) \/ Disconnected(c) \/ BinaryFrame(c)
  <2>1. /\ cast' = cast /\ order' = order /\ received' = received
        /\ inbox' \in {inbox, <<>>}
    BY <1>6 DEF Subscribe, ListenFails, vars, Connect, Leave, Disconnected, BinaryFrame, history
  <2> QED BY <2>1, PipelineStays
<1> QED BY <1>1, <1>2, <1>3, <1>4, <1>5, <1>6 DEF Next

-----------------------------------------------------------------------------
LEMMA RelayInvariant == Spec => []RelayInv
<1>1. Init => RelayInv
  <2> SUFFICES ASSUME Init PROVE RelayInv
    OBVIOUS
  <2>1. TypeOK
    BY IdleType DEF Init, TypeOK, Broadcasting
  <2>2. PublishedOnce /\ Pipeline
    BY TasksDisjoint DEF Init, PublishedOnce, Pipeline, ReceivedInOrder, ReceivedBeforeCast,
       ReceivedBeforeInbox, CastBeforeInbox, InOrder, FromRelay, Broadcasting
  <2> QED BY <2>1, <2>2 DEF RelayInv
<1>2. RelayInv /\ [Next]_vars => RelayInv'
  BY FanoutTypes, OnceKept, PipelineStep DEF RelayInv
<1> QED BY <1>1, <1>2, PTL DEF Spec

(* The process's state keeps its types.                                    *)
THEOREM FanoutTypeCorrect == Spec => []TypeOK
<1>1. RelayInv => TypeOK
  BY DEF RelayInv
<1> QED BY <1>1, RelayInvariant, PTL

(* The relay delivers to every client in the order of publication, through *)
(* any number of clients, events, failures and restarts                    *)
(* (relay_redis_events, broadcast).                                        *)
THEOREM RelayIsFifo == Spec => []RelayKeepsOrder
<1>1. RelayInv => RelayKeepsOrder
  <2> SUFFICES ASSUME RelayInv, NEW c \in Clients,
                      NEW i \in DOMAIN received[c], NEW j \in DOMAIN received[c], i < j,
                      received[c][i].by = Relay, received[c][j].by = Relay
               PROVE  Position(received[c][i].event) <= Position(received[c][j].event)
    BY DEF RelayKeepsOrder
  <2>1. DOMAIN received[c] = 1..Len(received[c]) /\ DOMAIN order = 1..Len(order)
    BY DEF RelayInv, TypeOK
  <2>2. Before(order, received[c][i].event, received[c][j].event)
    BY <2>1 DEF RelayInv, Pipeline, ReceivedInOrder, FromRelay
  <2>3. PICK k, l \in 1..Len(order) :
          k <= l /\ order[k] = received[c][i].event /\ order[l] = received[c][j].event
    BY <2>2 DEF Before
  <2>4. Position(received[c][i].event) = k /\ Position(received[c][j].event) = l
    BY <2>1, <2>3 DEF Position, RelayInv, PublishedOnce
  <2> QED BY <2>3, <2>4
<1> QED BY <1>1, RelayInvariant, PTL

-----------------------------------------------------------------------------
(* The argument for TwiceOnlyInDoubt.  An event goes to the clients by the *)
(* relay, or by the handler it names, or, when its publish has raised, by  *)
(* both; each of them sends it to a client once unless the set of clients  *)
(* was replaced meanwhile.                                                 *)
Receipts(c) == 1..Len(received[c])

AllEmitted ==
    /\ \A t \in Tasks : Broadcasting(t) => cast[t].event \in emitted
    /\ \A k \in 1..Len(inbox) : inbox[k] \in emitted
    /\ \A c \in Clients : \A i \in Receipts(c) : received[c][i].event \in emitted

HandlersSendTheirOwn ==
    /\ \A h \in HandlerEvents : Broadcasting(h) => cast[h].event = h
    /\ \A c \in Clients : \A i \in Receipts(c) :
         received[c][i].by # Relay => received[c][i].event = received[c][i].by

(* A published event no handler fell back on goes through the relay only.  *)
OneWay ==
    \A e \in HandlerEvents \ doubtful, k \in 1..Len(order) : order[k] = e =>
        /\ ~Broadcasting(e)
        /\ \A c \in Clients : \A i \in Receipts(c) : received[c][i].by # e

(* What waits in the subscription has not been taken up before.            *)
QueuedOnce ==
    \A k \in 1..Len(inbox) :
        /\ \A l \in 1..Len(inbox) : inbox[k] = inbox[l] => k = l
        /\ Broadcasting(Relay) => cast[Relay].event # inbox[k]
        /\ \A c \in Clients : \A i \in FromRelay(c) : received[c][i].event # inbox[k]

SentBy(t, e, c) ==
    \E i \in Receipts(c) : received[c][i].by = t /\ received[c][i].event = e
SentOnce ==
    /\ \A t \in Tasks : Broadcasting(t) /\ cast[t].event \notin churned =>
         \A c \in cast[t].todo : ~SentBy(t, cast[t].event, c)
    /\ \A c \in Clients : \A i, j \in Receipts(c) :
         /\ received[c][i].by = received[c][j].by
         /\ received[c][i].event = received[c][j].event
         /\ i # j
         => received[c][i].event \in churned

(* A handler whose publish raised has not broadcast its event yet.         *)
FallbackWaits ==
    \A e \in fallback :
        /\ e \in doubtful /\ e \in emitted /\ ~Broadcasting(e)
        /\ \A c \in Clients : \A i \in Receipts(c) : received[c][i].by # e

DoubtInv == AllEmitted /\ HandlersSendTheirOwn /\ OneWay /\ QueuedOnce /\ SentOnce
            /\ FallbackWaits

(* What may wait in the subscription: emitted, once, and not sent by the   *)
(* relay before.                                                           *)
Queue(q) ==
    \A k \in 1..Len(q) :
        /\ q[k] \in emitted
        /\ \A l \in 1..Len(q) : q[k] = q[l] => k = l
        /\ \A c \in Clients : \A i \in FromRelay(c) : received[c][i].event # q[k]

LEMMA QueueKept == ASSUME DoubtInv PROVE Queue(inbox) /\ Queue(<<>>)
BY DEF DoubtInv, AllEmitted, QueuedOnce, Queue

(* Nothing is sent: broadcasts end, and messages are dropped.              *)
LEMMA DoubtKept ==
    ASSUME TypeOK, DoubtInv, order' = order, received' = received, Queue(inbox'),
           Broadcasting(Relay)' => \A k \in 1..Len(inbox') : cast[Relay].event # inbox'[k],
           emitted \subseteq emitted', fallback' \subseteq fallback,
           doubtful' = doubtful, churned \subseteq churned',
           \A t \in Tasks : cast'[t] = cast[t] \/ cast'[t] = Idle
    PROVE  DoubtInv'
<1>1. \A t \in Tasks : Broadcasting(t)' => Broadcasting(t) /\ cast'[t] = cast[t]
  BY DEF Broadcasting
<1>2. Relay \in Tasks /\ HandlerEvents \subseteq Tasks
  BY TasksDisjoint
<1>3. AllEmitted'
  BY <1>1 DEF DoubtInv, AllEmitted, Receipts, Queue
<1>4. HandlersSendTheirOwn'
  BY <1>1, <1>2 DEF DoubtInv, HandlersSendTheirOwn, Receipts
<1>5. OneWay'
  BY <1>1, <1>2 DEF DoubtInv, OneWay, Receipts
<1>6. QueuedOnce'
  BY <1>1, <1>2 DEF QueuedOnce, Queue, FromRelay
<1>7. SentOnce'
  BY <1>1 DEF DoubtInv, SentOnce, SentBy, Receipts
<1>8. FallbackWaits'
  <2>1. fallback \subseteq Tasks
    BY <1>2 DEF TypeOK
  <2> QED BY <1>1, <2>1 DEF DoubtInv, FallbackWaits, Receipts
<1> QED BY <1>3, <1>4, <1>5, <1>6, <1>7, <1>8 DEF DoubtInv

(* A new event is published, and Redis takes it or its handler learns that *)
(* the publish raised, or both.                                            *)
LEMMA DoubtPublished ==
    ASSUME RelayInv, DoubtInv, NEW e \in Events, Publish(e)
    PROVE  DoubtInv'
<1> USE DEF RelayInv
<1>1. /\ e \notin emitted /\ emitted' = emitted \cup {e}
      /\ cast' = cast /\ received' = received /\ churned' = churned
      /\ doubtful \subseteq doubtful' /\ (Taken(e) \/ NotTaken)
      /\ fallback' = fallback \/ (fallback' \subseteq fallback \cup {e} /\ e \in doubtful')
  BY DEF Publish, Raises
<1>2. \A k \in 1..Len(inbox') : \/ inbox'[k] = e /\ k = Len(inbox) + 1
                                \/ k \in 1..Len(inbox) /\ inbox'[k] = inbox[k]
  <2>1. CASE inbox' = inbox
    BY <2>1
  <2>2. CASE inbox' = Append(inbox, e)
    BY <2>2 DEF TypeOK
  <2> QED BY <1>1, <2>1, <2>2 DEF Taken, NotTaken
<1>3. \A k \in 1..Len(order') : \/ order'[k] = e
                                \/ k \in 1..Len(order) /\ order'[k] = order[k]
  <2>1. CASE order' = order
    BY <2>1
  <2>2. CASE order' = Append(order, e)
    BY <2>2 DEF TypeOK
  <2> QED BY <1>1, <2>1, <2>2 DEF Taken, NotTaken
<1>4. /\ \A c \in Clients : \A i \in Receipts(c) : received[c][i].event # e
      /\ \A t \in Tasks : Broadcasting(t) => cast[t].event # e
      /\ \A k \in 1..Len(inbox) : inbox[k] # e
  BY <1>1 DEF DoubtInv, AllEmitted
<1>5. e \in HandlerEvents =>
        /\ ~Broadcasting(e)
        /\ \A c \in Clients : \A i \in Receipts(c) : received[c][i].by # e
  BY <1>4, TasksDisjoint DEF DoubtInv, HandlersSendTheirOwn
<1>6. AllEmitted'
  BY <1>1, <1>2 DEF DoubtInv, AllEmitted, Receipts, Broadcasting
<1>7. HandlersSendTheirOwn'
  BY <1>1 DEF DoubtInv, HandlersSendTheirOwn, Receipts, Broadcasting
<1>8. OneWay'
  BY <1>1, <1>3, <1>5 DEF DoubtInv, OneWay, Receipts, Broadcasting
<1>9. QueuedOnce'
  <2> SUFFICES ASSUME NEW k \in 1..Len(inbox')
               PROVE  /\ \A l \in 1..Len(inbox') : inbox'[k] = inbox'[l] => k = l
                      /\ Broadcasting(Relay) => cast[Relay].event # inbox'[k]
                      /\ \A c \in Clients : \A i \in FromRelay(c) :
                           received[c][i].event # inbox'[k]
    BY <1>1 DEF QueuedOnce, FromRelay, Broadcasting
  <2>1. CASE inbox'[k] = e /\ k = Len(inbox) + 1
    BY <1>2, <1>4, <2>1, TasksDisjoint DEF FromRelay, Receipts
  <2>2. CASE k \in 1..Len(inbox) /\ inbox'[k] = inbox[k]
    BY <1>2, <1>4, <2>2 DEF DoubtInv, QueuedOnce
  <2> QED BY <1>2, <2>1, <2>2
<1>10. SentOnce'
  BY <1>1 DEF DoubtInv, SentOnce, SentBy, Receipts, Broadcasting
<1>11. FallbackWaits'
  <2>1. fallback' \subseteq HandlerEvents
    BY FanoutTypes DEF TypeOK, Next
  <2> QED BY <1>1, <1>5, <2>1 DEF DoubtInv, FallbackWaits, Receipts, Broadcasting
<1> QED BY <1>6, <1>7, <1>8, <1>9, <1>10, <1>11 DEF DoubtInv

(* Task t sends e to client c: the relay what it has taken up, a handler   *)
(* its own event, once its fallback waits no more, and neither of them to  *)
(* a client it has sent it to, unless the set of clients was replaced.     *)
LEMMA DoubtSent ==
    ASSUME TypeOK, DoubtInv, NEW t \in Tasks, NEW b \in Broadcast, NEW c \in Clients,
           NEW e \in Events, b.event = e, SendTo(t, b, c),
           order' = order, emitted \subseteq emitted', e \in emitted', doubtful' = doubtful,
           churned \subseteq churned', fallback' \subseteq fallback, t \notin fallback',
           Queue(inbox'), \A k \in 1..Len(inbox') :
               /\ t = Relay => e # inbox'[k]
               /\ t # Relay /\ Broadcasting(Relay) => cast[Relay].event # inbox'[k],
           t # Relay => /\ t = e
                        /\ e \in doubtful \/ \A k \in 1..Len(order) : order[k] # e,
           e \in churned' \/ (c \in Clients /\ ~SentBy(t, e, c)
                              /\ \A d \in b.todo : d \in Clients /\ ~SentBy(t, e, d))
    PROVE  DoubtInv'
<1>1. /\ cast'[t] # Idle /\ cast'[t].event = e /\ cast'[t].todo = b.todo \ {c}
      /\ \A u \in Tasks : u # t => cast'[u] = cast[u]
  BY Sent
<1>2. \A d \in Clients : \A i \in Receipts(d)' :
        \/ i \in Receipts(d) /\ received'[d][i] = received[d][i]
        \/ /\ d = c /\ i = Len(received[c]) + 1
           /\ received'[d][i].event = e /\ received'[d][i].by = t
  BY Sent DEF Receipts
<1>3. Relay \in Tasks /\ HandlerEvents \subseteq Tasks /\ (t = Relay \/ t \in HandlerEvents)
      /\ \A h \in HandlerEvents : h # Relay
  BY TasksDisjoint DEF Tasks
<1>4. AllEmitted'
  BY <1>1, <1>2 DEF DoubtInv, AllEmitted, Broadcasting, Queue
<1>5. HandlersSendTheirOwn'
  BY <1>1, <1>2, <1>3 DEF DoubtInv, HandlersSendTheirOwn, Broadcasting
<1>6. OneWay'
  BY <1>1, <1>2, <1>3 DEF DoubtInv, OneWay, Broadcasting
<1>7. QueuedOnce'
  <2>1. \A d \in Clients : \A i \in FromRelay(d)' :
          \/ i \in FromRelay(d) /\ received'[d][i] = received[d][i]
          \/ t = Relay /\ received'[d][i].event = e
    BY <1>2 DEF FromRelay, Receipts
  <2>2. \A k \in 1..Len(inbox') : Broadcasting(Relay)' => cast'[Relay].event # inbox'[k]
    BY <1>1, <1>3 DEF Broadcasting
  <2> QED BY <2>1, <2>2 DEF QueuedOnce, Queue
<1>8. SentOnce'
  <2>1. ASSUME NEW u \in Tasks, Broadcasting(u)', cast'[u].event \notin churned',
               NEW d \in cast'[u].todo
        PROVE  ~SentBy(u, cast[u].event, d)'
    <3>1. CASE u = t
      <4>1. d \in b.todo /\ d # c /\ cast'[u].event = e
        BY <1>1, <2>1, <3>1
      <4>2. d \in Clients /\ ~SentBy(t, e, d)
        BY <2>1, <4>1
      <4>3. \A i \in Receipts(d)' : received'[d][i].by = t => received'[d][i].event # e
        BY <1>2, <4>1, <4>2 DEF SentBy
      <4> QED BY <3>1, <4>1, <4>3 DEF SentBy
    <3>2. CASE u # t
      <4>1. Broadcasting(u) /\ cast'[u] = cast[u] /\ d \in Clients
        BY <1>1, <2>1, <3>2 DEF Broadcasting, TypeOK, Broadcast
      <4>2. ~SentBy(u, cast[u].event, d)
        BY <2>1, <4>1 DEF DoubtInv, SentOnce
      <4>3. \A i \in Receipts(d)' : received'[d][i].by = u =>
                i \in Receipts(d) /\ received'[d][i] = received[d][i]
        BY <1>2, <3>2, <4>1
      <4> QED BY <4>1, <4>2, <4>3 DEF SentBy
    <3> QED BY <3>1, <3>2
  <2>2. ASSUME NEW d \in Clients, NEW i \in Receipts(d)', NEW j \in Receipts(d)', i # j,
               received'[d][i].by = received'[d][j].by,
               received'[d][i].event = received'[d][j].event
        PROVE  received'[d][i].event \in churned'
    <3>1. CASE i \in Receipts(d) /\ received'[d][i] = received[d][i]
               /\ j \in Receipts(d) /\ received'[d][j] = received[d][j]
      BY <2>2, <3>1 DEF DoubtInv, SentOnce
    <3>2. ASSUME NEW k \in Receipts(c), received[c][k].by = t, received[c][k].event = e
          PROVE  e \in churned'
      BY <3>2 DEF SentBy
    <3> QED BY <1>2, <2>2, <3>1, <3>2
  <2> QED BY <2>1, <2>2 DEF SentOnce
<1>9. FallbackWaits'
  <2>1. \A h \in fallback' : h \in Tasks /\ h # t
    BY <1>3 DEF TypeOK
  <2> QED BY <1>1, <1>2, <2>1 DEF DoubtInv, FallbackWaits, Broadcasting
<1> QED BY <1>4, <1>5, <1>6, <1>7, <1>8, <1>9 DEF DoubtInv

(* A handler broadcasts: without Redis, or because its publish raised.     *)
LEMMA DoubtBegins ==
    ASSUME RelayInv, DoubtInv, NEW e \in Events, EmitLocally(e) \/ Fallback(e)
    PROVE  DoubtInv'
<1> USE DEF RelayInv
<1>1. /\ e \in HandlerEvents /\ e \in Tasks /\ e # Relay /\ Begin(e, e)
      /\ order' = order /\ inbox' = inbox /\ doubtful' = doubtful /\ churned' = churned
      /\ emitted \subseteq emitted' /\ e \in emitted'
      /\ fallback' \subseteq fallback /\ e \notin fallback'
  BY TasksDisjoint DEF EmitLocally, Fallback, TypeOK, history, DoubtInv, FallbackWaits
<1>2. /\ Queue(inbox')
      /\ \A k \in 1..Len(inbox') : Broadcasting(Relay) => cast[Relay].event # inbox'[k]
  BY <1>1, QueueKept DEF DoubtInv, QueuedOnce
<1>3. /\ e \in doubtful \/ \A k \in 1..Len(order) : order[k] # e
      /\ \A c \in Clients : ~SentBy(e, e, c)
  <2>1. CASE e \in fallback
    BY <2>1 DEF DoubtInv, FallbackWaits, SentBy
  <2>2. CASE e \notin emitted
    BY <2>2 DEF DoubtInv, AllEmitted, SentBy, PublishedOnce
  <2> QED BY <2>1, <2>2 DEF EmitLocally, Fallback
<1>4. CASE cast' = cast /\ received' = received
  BY <1>1, <1>2, <1>4, DoubtKept DEF Broadcasting
<1>5. ASSUME NEW b \in Broadcast, NEW c \in Clients, b.event = e, b.todo \subseteq Clients,
             SendTo(e, b, c)
      PROVE  DoubtInv'
  BY <1>1, <1>2, <1>3, <1>5, DoubtSent
<1> QED BY <1>1, <1>4, <1>5, Begun

(* The relay takes up an event that it has not sent to anybody.            *)
LEMMA DoubtShifts == ASSUME TypeOK, DoubtInv, TakeNext PROVE DoubtInv'
<1> DEFINE e == inbox[1]
<1>1. /\ 1 \in 1..Len(inbox) /\ e \in Events /\ Begin(Relay, e) /\ ~Broadcasting(Relay)
      /\ order' = order /\ emitted' = emitted /\ fallback' = fallback
      /\ doubtful' = doubtful /\ churned' = churned
  BY DEF TakeNext, TypeOK, history
<1>2. /\ \A k \in 1..Len(inbox') : k + 1 \in 1..Len(inbox) /\ inbox'[k] = inbox[k + 1] /\ k + 1 # 1
      /\ \A k, l \in 1..Len(inbox') : k + 1 = l + 1 => k = l
  BY DEF TakeNext, TypeOK
<1>3. Queue(inbox') /\ \A k \in 1..Len(inbox') : e # inbox'[k]
  <2> SUFFICES ASSUME NEW k \in 1..Len(inbox')
               PROVE  /\ inbox'[k] \in emitted /\ e # inbox'[k]
                      /\ \A l \in 1..Len(inbox') : inbox'[k] = inbox'[l] => k = l
                      /\ \A c \in Clients : \A i \in FromRelay(c) :
                           received[c][i].event # inbox'[k]
    BY DEF Queue
  <2>1. k + 1 \in 1..Len(inbox) /\ inbox'[k] = inbox[k + 1] /\ k + 1 # 1
    BY <1>2
  <2>2. ASSUME NEW l \in 1..Len(inbox'), inbox'[k] = inbox'[l] PROVE k = l
    <3>1. l + 1 \in 1..Len(inbox) /\ inbox'[l] = inbox[l + 1]
      BY <1>2
    <3>2. k + 1 = l + 1
      BY <2>1, <2>2, <3>1 DEF DoubtInv, QueuedOnce
    <3> QED BY <1>2, <3>2
  <2>3. e # inbox'[k]
    BY <1>1, <2>1 DEF DoubtInv, QueuedOnce
  <2> QED BY <2>1, <2>2, <2>3 DEF DoubtInv, QueuedOnce, AllEmitted
<1>4. e \in emitted /\ \A c \in Clients : ~SentBy(Relay, e, c)
  BY <1>1 DEF DoubtInv, AllEmitted, QueuedOnce, FromRelay, SentBy, Receipts
<1> HIDE DEF e
<1>5. CASE cast' = cast /\ received' = received
  BY <1>1, <1>3, <1>5, DoubtKept DEF Broadcasting
<1>6. ASSUME NEW b \in Broadcast, NEW c \in Clients, b.event = e, b.todo \subseteq Clients,
             SendTo(Relay, b, c)
      PROVE  DoubtInv'
  <2>1. Relay \notin fallback'
    BY <1>1, TasksDisjoint DEF TypeOK
  <2> QED BY <1>1, <1>3, <1>4, <1>6, <2>1, TasksDisjoint, DoubtSent
<1> QED BY <1>1, <1>5, <1>6, Begun, TasksDisjoint

(* A broadcast resumes: a client that is sent the event is not sent it     *)
(* again, unless the set of clients was replaced.                          *)
LEMMA DoubtResumes ==
    ASSUME TypeOK, DoubtInv, NEW t \in Tasks, BroadcastStep(t) PROVE DoubtInv'
<1> DEFINE e == cast[t].event
<1>1. /\ Broadcasting(t) /\ e \in Events /\ order' = order /\ emitted' = emitted
      /\ fallback' = fallback /\ doubtful' = doubtful /\ churned \subseteq churned'
      /\ inbox' \in {inbox, <<>>}
  BY Resumed
<1>2. /\ Queue(inbox')
      /\ \A k \in 1..Len(inbox') : Broadcasting(Relay) => cast[Relay].event # inbox'[k]
  <2>1. CASE inbox' = inbox
    BY <2>1, QueueKept DEF DoubtInv, QueuedOnce
  <2>2. CASE inbox' = <<>>
    BY <2>2, QueueKept
  <2> QED BY <1>1, <2>1, <2>2
<1>3. CASE cast' = [cast EXCEPT ![t] = Idle] /\ received' = received
  <2>1. \A u \in Tasks : cast'[u] = cast[u] \/ cast'[u] = Idle
    BY <1>3 DEF TypeOK
  <2>2. Broadcasting(Relay)' => Broadcasting(Relay)
    BY <2>1, TasksDisjoint DEF Broadcasting
  <2> QED BY <1>1, <1>2, <1>3, <2>1, <2>2, DoubtKept
<1>4. ASSUME NEW b \in Broadcast, NEW c \in Clients, b.event = e, SendTo(t, b, c),
             (b.todo = cast[t].todo /\ c \in cast[t].todo) \/ e \in churned'
      PROVE  DoubtInv'
  <2>1. e \in emitted'
    BY <1>1 DEF DoubtInv, AllEmitted
  <2>2. t # Relay => t \in HandlerEvents
    BY DEF Tasks
  <2>3. t \notin fallback'
    BY <1>1 DEF DoubtInv, FallbackWaits
  <2>4. t # Relay => /\ t = e
                     /\ e \in doubtful \/ \A k \in 1..Len(order) : order[k] # e
    BY <1>1, <2>2 DEF DoubtInv, HandlersSendTheirOwn, OneWay
  <2>5. e \in churned' \/ (~SentBy(t, e, c)
                           /\ \A d \in b.todo : d \in Clients /\ ~SentBy(t, e, d))
    BY <1>1, <1>4 DEF DoubtInv, SentOnce, TypeOK, Broadcast
  <2>6. \A k \in 1..Len(inbox') :
          /\ t = Relay => e # inbox'[k]
          /\ t # Relay /\ Broadcasting(Relay) => cast[Relay].event # inbox'[k]
    BY <1>1, <1>2
  <2> HIDE DEF e
  <2> QED BY <1>1, <1>2, <1>4, <2>1, <2>3, <2>4, <2>5, <2>6, DoubtSent
<1> QED BY <1>3, <1>4, Resumed

LEMMA DoubtStep == ASSUME RelayInv, DoubtInv, [Next]_vars PROVE DoubtInv'
<1> USE DEF RelayInv
<1>1. ASSUME NEW e \in Events, Publish(e) PROVE DoubtInv'
  BY <1>1, DoubtPublished
<1>2. ASSUME NEW e \in Events, EmitLocally(e) \/ Fallback(e) PROVE DoubtInv'
  BY <1>2, DoubtBegins
<1>3. CASE TakeNext
  BY <1>3, DoubtShifts
<1>4. ASSUME NEW t \in Tasks, BroadcastStep(t) PROVE DoubtInv'
  BY <1>4, DoubtResumes
<1>5. CASE \/ Subscribe \/ ListenFails \/ Restart \/ UNCHANGED vars
           \/ \E c \in Clients : Connect(c) \/ Leave(c) \/ Disconnected(c) \/ BinaryFrame(c)
  <2>1. /\ order' = order /\ received' = received /\ inbox' \in {inbox, <<>>}
        /\ emitted' = emitted /\ doubtful' = doubtful /\ churned' = churned
        /\ fallback' \in {fallback, {}} /\ (cast' = cast \/ \A t \in Tasks : cast'[t] = Idle)
    BY <1>5 DEF Subscribe, ListenFails, Restart, vars, Connect, Leave, Disconnected,
       BinaryFrame, history
  <2>2. /\ Queue(inbox')
        /\ \A k \in 1..Len(inbox') : Broadcasting(Relay) => cast[Relay].event # inbox'[k]
    <3>1. CASE inbox' = inbox
      BY <3>1, QueueKept DEF DoubtInv, QueuedOnce
    <3>2. CASE inbox' = <<>>
      BY <3>2, QueueKept
    <3> QED BY <2>1, <3>1, <3>2
  <2>3. Broadcasting(Relay)' => Broadcasting(Relay)
    BY <2>1, TasksDisjoint DEF Broadcasting
  <2> QED BY <2>1, <2>2, <2>3, DoubtKept
<1> QED BY <1>1, <1>2, <1>3, <1>4, <1>5 DEF Next

(* No client gets an event twice, whether from the relay and a handler or  *)
(* from one of them alone, unless its publish raised or the set of clients *)
(* was replaced while it was sent (publish_event, _emit, broadcast,        *)
(* relay_redis_events).                                                    *)
THEOREM NoOtherDuplicates == Spec => []TwiceOnlyInDoubt
<1>1. Init => DoubtInv
  BY DEF Init, DoubtInv, AllEmitted, HandlersSendTheirOwn, OneWay, QueuedOnce, SentOnce,
     FallbackWaits, Receipts, FromRelay, Broadcasting, Tasks
<1>2. RelayInv /\ DoubtInv /\ [Next]_vars => DoubtInv'
  BY DoubtStep
<1>3. RelayInv /\ DoubtInv => TwiceOnlyInDoubt
  <2> SUFFICES ASSUME RelayInv, DoubtInv, NEW c \in Clients,
                      NEW i \in DOMAIN received[c], NEW j \in DOMAIN received[c], i # j,
                      received[c][i].event = received[c][j].event,
                      received[c][i].event \notin doubtful \cup churned
               PROVE  FALSE
    BY DEF TwiceOnlyInDoubt
  <2> DEFINE e == received[c][i].event
  <2>1. /\ i \in Receipts(c) /\ j \in Receipts(c)
        /\ \A k \in Receipts(c) : received[c][k] \in Receipt
    BY DEF RelayInv, TypeOK, Receipts
  <2>2. received[c][i].by # received[c][j].by
    BY <2>1 DEF DoubtInv, SentOnce
  <2>3. ASSUME NEW k \in Receipts(c), NEW l \in Receipts(c), received[c][k].event = e,
               received[c][l].event = e, received[c][k].by = Relay, received[c][l].by # Relay
        PROVE  FALSE
    <3>1. received[c][l].by = e /\ e \in HandlerEvents
      BY <2>1, <2>3 DEF DoubtInv, HandlersSendTheirOwn, Receipt, Tasks
    <3>2. Before(order, e, e)
      <4>1. k \in FromRelay(c) /\ k <= k
        BY <2>3 DEF FromRelay, Receipts
      <4> QED BY <2>3, <4>1 DEF RelayInv, Pipeline, ReceivedInOrder
    <3> QED BY <2>3, <3>1, <3>2 DEF DoubtInv, OneWay, Before
  <2>4. CASE received[c][i].by # Relay /\ received[c][j].by # Relay
    BY <2>1, <2>2, <2>4 DEF DoubtInv, HandlersSendTheirOwn
  <2> QED BY <2>1, <2>2, <2>3, <2>4
<1> QED BY <1>1, <1>2, <1>3, RelayInvariant, PTL DEF Spec
=============================================================================
