----------------------------- MODULE EventFanout -----------------------------
(***************************************************************************)
(* How events reach the dashboards (backend/api/events.py): one API        *)
(* process with its set of WebSocket connections, the relay task that      *)
(* broadcasts what Redis pub/sub delivers, and the handlers that broadcast *)
(* themselves when their publish fails.  The worker publishes as well, and *)
(* has no connections to fall back on.                                     *)
(*                                                                         *)
(* A broadcast iterates over the live connection set and awaits a send for *)
(* each member.  A task runs on from one await to the next: what starts a  *)
(* broadcast also issues its first send, and what resumes after a send     *)
(* issues the next one or ends the loop.  Other tasks run while a send is  *)
(* awaited.  CPython compares the size of the set with the size at the     *)
(* start whenever the iteration goes on, also at its end, and raises when  *)
(* they differ; after changes that leave the size alone it may visit any   *)
(* members.  Redis and the sockets are external.                           *)
(***************************************************************************)
EXTENDS Naturals, Sequences, FiniteSets

CONSTANTS
    Clients,         \* connections a dashboard may ever open
    HandlerEvents,   \* events handlers of this process emit
    WorkerEvents,    \* events the worker emits
    Relay, None,
    MaxFailures,     \* bound on Redis failures
    MaxRestarts      \* bound on restarts of the API process

Events == HandlerEvents \cup WorkerEvents
Tasks == {Relay} \cup HandlerEvents   \* a handler is named by its event

ASSUME FanoutAssumption ==
    /\ Relay \notin Events /\ None \notin Events \cup Clients /\ IsFiniteSet(Clients)
    /\ MaxFailures \in Nat /\ MaxRestarts \in Nat

VARIABLES
    connections,   \* manager.connections
    socket,        \* client -> whether its connection is still there
    receiving,     \* the clients whose endpoint awaits receive_text
    relay,         \* the relay task; "off" without Redis at startup
    inbox,         \* what Redis has delivered to the relay's subscription
    cast,          \* task -> its broadcast in progress
    emitted,       \* the events whose emit has been called
    fallback,      \* the handlers whose publish raised: they broadcast next
    failures, restarts,
    \* history: Redis's order of publication, the events whose publish
    \* raised, those sent over a changed set, and what each client got
    order, doubtful, churned, received

sockets == <<connections, socket, receiving>>
bounds == <<failures, restarts>>
history == <<order, doubtful, churned>>
vars == <<sockets, relay, inbox, cast, emitted, fallback, bounds, history, received>>

(* members is the set the iteration last saw, todo what it has yet to      *)
(* visit, at the client whose send is awaited, dead those that failed.     *)
Idle == [event |-> None, size |-> 0, members |-> {}, todo |-> {}, dead |-> {}, at |-> None]
Broadcast == [event: Events \cup {None}, size: Nat, members: SUBSET Clients,
              todo: SUBSET Clients, dead: SUBSET Clients, at: Clients \cup {None}]
Receipt == [event: Events, by: Tasks]
Broadcasting(t) == cast[t] # Idle

(* Task t's iteration b goes on to c and issues its send, which reaches a  *)
(* client that is still there.                                             *)
SendTo(t, b, c) ==
    /\ cast' = [cast EXCEPT ![t] = [b EXCEPT !.todo = @ \ {c}, !.at = c]]
    /\ received' = IF socket[c] = "open"
                   THEN [received EXCEPT ![c] = Append(@, [event |-> b.event, by |-> t])]
                   ELSE received

(* The loop starts, and with nobody connected it has ended.                *)
Started(e) == [event |-> e, size |-> Cardinality(connections), members |-> connections,
               todo |-> connections, dead |-> {}, at |-> None]
Begin(t, e) ==
    IF connections = {} THEN UNCHANGED <<cast, received>>
    ELSE \E c \in connections : SendTo(t, Started(e), c)

Init ==
    /\ connections = {} /\ receiving = {}
    /\ socket = [c \in Clients |-> "new"]
    /\ relay \in {"off", "subscribing"}
    /\ inbox = <<>> /\ cast = [t \in Tasks |-> Idle]
    /\ emitted = {} /\ fallback = {} /\ failures = 0 /\ restarts = 0
    /\ order = <<>> /\ doubtful = {} /\ churned = {}
    /\ received = [c \in Clients |-> <<>>]

-----------------------------------------------------------------------------
(* websocket_events: accept and add, and the ways it ends.                 *)
Connect(c) ==
    /\ socket[c] = "new"
    /\ socket' = [socket EXCEPT ![c] = "open"]
    /\ connections' = connections \cup {c} /\ receiving' = receiving \cup {c}
    /\ UNCHANGED <<relay, inbox, cast, emitted, fallback, bounds, history, received>>

Leave(c) ==
    /\ socket[c] = "open"
    /\ socket' = [socket EXCEPT ![c] = "gone"]
    /\ UNCHANGED <<connections, receiving, relay, inbox, cast, emitted, fallback, bounds, history,
                   received>>

(* WebSocketDisconnect: the close frame or the keepalive that failed.      *)
Disconnected(c) ==
    /\ socket[c] = "gone" /\ c \in receiving
    /\ connections' = connections \ {c} /\ receiving' = receiving \ {c}
    /\ UNCHANGED <<socket, relay, inbox, cast, emitted, fallback, bounds, history, received>>

(* A binary frame makes receive_text raise something else: the endpoint    *)
(* ends without discarding its connection.                                 *)
BinaryFrame(c) ==
    /\ socket[c] = "open" /\ c \in receiving
    /\ receiving' = receiving \ {c}
    /\ socket' = [socket EXCEPT ![c] = "gone"]
    /\ UNCHANGED <<connections, relay, inbox, cast, emitted, fallback, bounds, history, received>>

-----------------------------------------------------------------------------
(* publish_event.  Redis takes the event, and the relay gets it if it is   *)
(* subscribed; or the call raises, before or after Redis took the event.   *)
Taken(e) ==
    /\ order' = Append(order, e)
    /\ inbox' = IF relay = "listening" THEN Append(inbox, e) ELSE inbox
NotTaken == UNCHANGED <<order, inbox>>

Raises(e) == /\ failures < MaxFailures /\ failures' = failures + 1
             /\ doubtful' = doubtful \cup {e}
             /\ Taken(e) \/ NotTaken

\* Mutant: a handler broadcasts whether or not its publish worked.
PublishAndBroadcast(e) ==
    /\ e \notin emitted /\ emitted' = emitted \cup {e}
    /\ e \in HandlerEvents => relay # "off"
    /\ Taken(e) /\ fallback' = fallback \cup (HandlerEvents \cap {e})
    /\ UNCHANGED <<sockets, relay, cast, bounds, doubtful, churned, received>>
Publish(e) ==
    /\ e \notin emitted /\ emitted' = emitted \cup {e}
    /\ e \in HandlerEvents => relay # "off"
    /\ \/ Taken(e) /\ UNCHANGED <<doubtful, failures, fallback>>
       \/ Raises(e) /\ fallback' = fallback \cup (HandlerEvents \cap {e})
    /\ UNCHANGED <<sockets, relay, cast, restarts, churned, received>>

(* _emit, when publish_event has returned False.                           *)
Fallback(e) ==
    /\ e \in fallback /\ fallback' = fallback \ {e}
    /\ Begin(e, e)
    /\ UNCHANGED <<sockets, relay, inbox, emitted, bounds, history>>

(* app.state.redis is None: publish_event returns at once.                 *)
EmitLocally(e) ==
    /\ e \in HandlerEvents \ emitted /\ emitted' = emitted \cup {e}
    /\ relay = "off"
    /\ Begin(e, e)
    /\ UNCHANGED <<sockets, relay, inbox, fallback, bounds, history>>

-----------------------------------------------------------------------------
Subscribe ==
    /\ relay = "subscribing" /\ relay' = "listening"
    /\ UNCHANGED <<sockets, inbox, cast, emitted, fallback, bounds, history, received>>

(* subscribe or listen raises: the relay task ends.                        *)
ListenFails ==
    /\ relay \in {"subscribing", "listening"} /\ ~Broadcasting(Relay)
    /\ failures < MaxFailures /\ failures' = failures + 1
    /\ relay' = "ended" /\ inbox' = <<>>
    /\ UNCHANGED <<sockets, cast, emitted, fallback, restarts, history, received>>

\* Mutant: the relay starts broadcasts without awaiting them, so any may win.
TakeNextUnawaited ==
    /\ relay = "listening" /\ inbox # <<>>
    /\ \E i \in DOMAIN inbox :
         /\ ~Broadcasting(Relay) /\ Begin(Relay, inbox[i])
         /\ inbox' = SelectSeq(inbox, LAMBDA e : e # inbox[i])
    /\ UNCHANGED <<sockets, relay, emitted, fallback, bounds, history>>
(* The next message, once the broadcast of the last one has returned.      *)
TakeNext ==
    /\ relay = "listening" /\ ~Broadcasting(Relay) /\ inbox # <<>>
    /\ Begin(Relay, Head(inbox)) /\ inbox' = Tail(inbox)
    /\ UNCHANGED <<sockets, relay, emitted, fallback, bounds, history>>

-----------------------------------------------------------------------------
(* Task t's broadcast when the awaited send has returned or raised; a send *)
(* to a connection that is gone raises, or goes unnoticed.                 *)
Returned(t) ==
    {[cast[t] EXCEPT !.dead = @ \cup noticed] :
       noticed \in SUBSET {c \in Clients : c = cast[t].at /\ socket[c] = "gone"}}

(* The iteration of task t's broadcast goes on over the same members.      *)
Undisturbed(t) == Broadcasting(t) /\ connections = cast[t].members

\* Mutant: a send that raises ends the loop.
SendUnlessFailed(t) ==
    /\ Undisturbed(t)
    /\ \E b \in Returned(t) :
         IF cast[t].at \in b.dead THEN cast' = [cast EXCEPT ![t] = Idle] /\ UNCHANGED received
         ELSE \E c \in b.todo : SendTo(t, b, c)
    /\ UNCHANGED <<sockets, relay, inbox, emitted, fallback, bounds, history>>
Send(t) ==
    /\ Undisturbed(t)
    /\ \E b \in Returned(t), c \in cast[t].todo : SendTo(t, b, c)
    /\ UNCHANGED <<sockets, relay, inbox, emitted, fallback, bounds, history>>

\* Mutant: the broadcast is not ended properly.
FinishHalf(t, b) ==
    /\ cast' = [cast EXCEPT ![t].event = None]
    /\ connections' = connections \ b.dead
    /\ UNCHANGED received
(* The loop is over: connections that failed are discarded.                *)
Finish(t, b) ==
    /\ cast' = [cast EXCEPT ![t] = Idle]
    /\ connections' = connections \ b.dead
    /\ UNCHANGED received
EndBroadcast(t) ==
    /\ Undisturbed(t) /\ cast[t].todo = {}
    /\ \E b \in Returned(t) : Finish(t, b)
    /\ UNCHANGED <<socket, receiving, relay, inbox, emitted, fallback, bounds, history>>

(* One client left and another came: from here the iteration visits any    *)
(* members, or none.                                                       *)
SetChurned(t) ==
    /\ Broadcasting(t)
    /\ Cardinality(connections) = cast[t].size /\ connections # cast[t].members
    /\ churned' = churned \cup {cast[t].event}
    /\ \E b \in Returned(t) :
         \/ Finish(t, b)
         \/ /\ \E c \in connections, visits \in SUBSET connections :
                 SendTo(t, [b EXCEPT !.members = connections, !.todo = visits], c)
            /\ UNCHANGED connections
    /\ UNCHANGED <<socket, receiving, relay, inbox, emitted, fallback, bounds, order, doubtful>>

(* RuntimeError: "Set changed size during iteration".  A handler answers   *)
(* 500; the relay task ends, and nobody starts it again.                   *)
SetChangedSize(t) ==
    /\ Broadcasting(t) /\ Cardinality(connections) # cast[t].size
    /\ cast' = [cast EXCEPT ![t] = Idle]
    /\ IF t = Relay THEN relay' = "ended" /\ inbox' = <<>> ELSE UNCHANGED <<relay, inbox>>
    /\ UNCHANGED <<sockets, emitted, fallback, bounds, history, received>>

(* The process dies with its tasks and connections and starts again, with  *)
(* Redis or without.                                                       *)
Restart ==
    /\ restarts < MaxRestarts /\ restarts' = restarts + 1
    /\ connections' = {} /\ receiving' = {}
    /\ socket' = [c \in Clients |-> IF socket[c] = "new" THEN "new" ELSE "gone"]
    /\ relay' \in {"off", "subscribing"}
    /\ inbox' = <<>> /\ cast' = [t \in Tasks |-> Idle] /\ fallback' = {}
    /\ UNCHANGED <<emitted, failures, history, received>>

-----------------------------------------------------------------------------
BroadcastStep(t) == Send(t) \/ EndBroadcast(t) \/ SetChurned(t) \/ SetChangedSize(t)

Next ==
    \/ \E c \in Clients : Connect(c) \/ Leave(c) \/ Disconnected(c) \/ BinaryFrame(c)
    \/ \E e \in Events : Publish(e) \/ Fallback(e) \/ EmitLocally(e)
    \/ Subscribe \/ ListenFails \/ TakeNext
    \/ \E t \in Tasks : BroadcastStep(t)
    \/ Restart

Spec == Init /\ [][Next]_vars

(* The event loop runs every task that is ready.                           *)
FairSpec == /\ Spec
            /\ WF_vars(Subscribe) /\ WF_vars(TakeNext)
            /\ \A e \in HandlerEvents : WF_vars(Fallback(e))
            /\ \A t \in Tasks : WF_vars(BroadcastStep(t))

-----------------------------------------------------------------------------
(* The process's state and what the clients got have their types.          *)
TypeOK ==
    /\ connections \subseteq Clients /\ receiving \subseteq Clients
    /\ socket \in [Clients -> {"new", "open", "gone"}]
    /\ relay \in {"off", "subscribing", "listening", "ended"}
    /\ inbox \in Seq(Events)
    /\ cast \in [Tasks -> Broadcast]
    /\ \A t \in Tasks : Broadcasting(t) => cast[t].event \in Events
    /\ emitted \subseteq Events /\ fallback \subseteq HandlerEvents
    /\ failures \in Nat /\ restarts \in Nat
    /\ order \in Seq(Events) /\ doubtful \subseteq Events /\ churned \subseteq Events
    /\ received \in [Clients -> Seq(Receipt)]

(* Where Redis put an event.                                               *)
Position(e) == CHOOSE i \in DOMAIN order : order[i] = e

(* What the relay sends a client arrives in the order of publication,      *)
(* whoever connects, leaves or broadcasts meanwhile: relay_redis_events    *)
(* takes a message only when the broadcast of the last one has returned.   *)
RelayKeepsOrder ==
    \A c \in Clients : \A i, j \in DOMAIN received[c] :
        i < j /\ received[c][i].by = Relay /\ received[c][j].by = Relay
        => Position(received[c][i].event) <= Position(received[c][j].event)

(* An event reaches a client twice only if its publish raised, so that the *)
(* relay and the handler's fallback both send it, or if the set of clients *)
(* changed while it was sent (publish_event, _emit, broadcast).            *)
TwiceOnlyInDoubt ==
    \A c \in Clients : \A i, j \in DOMAIN received[c] :
        i # j /\ received[c][i].event = received[c][j].event
        => received[c][i].event \in doubtful \cup churned

Got(c, e) == \E i \in DOMAIN received[c] : received[c][i].event = e

(* An event the relay has taken up reaches every client that is connected  *)
(* and stays: a client that fails does not keep the others from it.  What  *)
(* remains are a set that changed size, which ends the relay, and one that *)
(* was replaced.                                                           *)
FailedClientsHurtNobody ==
    \A c \in Clients, e \in Events :
        cast[Relay].event = e /\ c \in cast[Relay].members
        ~> Got(c, e) \/ socket[c] = "gone" \/ relay = "ended" \/ e \in churned

Published == {order[i] : i \in DOMAIN order}

(* "Publish an event for all API processes to relay to WebSocket clients": *)
(* once the relay listens, a client that connects and stays is sent every  *)
(* event that Redis takes from then on.                                    *)
PublishedEventIsRelayed ==
    \A c \in Clients, e \in Events :
        [](relay = "listening" /\ c \in connections /\ e \notin Published
           => [](e \in Published => <>(Got(c, e) \/ socket[c] = "gone")))
=============================================================================
