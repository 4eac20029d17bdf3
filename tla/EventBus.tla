------------------------------ MODULE EventBus ------------------------------
(***************************************************************************)
(* RabbitMQEventBusAdapter: one process, one connection, one channel, and  *)
(* for every subscription an exclusive queue bound to the topic exchange.  *)
(*                                                                         *)
(* Messages of a queue form a set: the channel sets no prefetch, so all of *)
(* them are handed to the consumer at once and are handled side by side.   *)
(***************************************************************************)
EXTENDS Naturals, Sequences

CONSTANTS
  Null,
  Calls,         \* the requests clients make; each publishes one event at most
  BrokerMayFail  \* TRUE: the connection may be lost, the process may stop

ASSUME BrokerAssumption == BrokerMayFail \in BOOLEAN

RoutingKeys == {"identity.user.registered", "identity.user.logged_in"}

\* The id of an event is the call that published it.
Events == [key : RoutingKeys, id : Calls, userId : Calls]

VARIABLES
  channel,  \* "none" while the process is down, "open", or "closed" for good
  queued,   \* events that wait in a queue
  handling  \* events whose consumer callback is running: not acknowledged yet

busVars == <<channel, queued, handling>>

BusTypeOK ==
  /\ channel \in {"none", "open", "closed"}
  /\ queued \subseteq Events
  /\ handling \subseteq Events

BusInit ==
  /\ channel = "none"
  /\ queued = {}
  /\ handling = {}

\* onModuleInit of the adapter and of the subscribers, before the server
\* listens: connect, and declare a queue of its own for each routing key.
StartProcess ==
  /\ channel = "none"
  /\ channel' = "open"
  /\ UNCHANGED <<queued, handling>>

\* ch.publish.  On a closed channel it throws; the caller tells the two apart.
Publish(event) ==
  /\ channel = "open"
  /\ queued' = queued \cup {event}
  /\ UNCHANGED <<channel, handling>>

\* The broker hands an event to the consumer.
Deliver(event) ==
  /\ channel = "open"
  /\ event \in queued
  /\ queued' = queued \ {event}
  /\ handling' = handling \cup {event}
  /\ UNCHANGED channel

\* The callback resolved: ch.ack.
Ack(event) ==
  /\ channel = "open"
  /\ handling' = handling \ {event}
  /\ UNCHANGED <<channel, queued>>

\* Faulty variant: nack(msg, false, false).
NackAndDrop(event) ==
  /\ channel = "open"
  /\ handling' = handling \ {event}
  /\ UNCHANGED <<channel, queued>>

\* The callback rejected: ch.nack(msg, false, true) puts the event back.
Nack(event) ==
  /\ channel = "open"
  /\ handling' = handling \ {event}
  /\ queued' = queued \cup {event}
  /\ UNCHANGED channel

\* Faulty variant: a durable queue that is not exclusive.
QueuesKept ==
  /\ queued' = queued \cup handling

\* The queues are exclusive: they go with the connection, and what waited in
\* them goes too, although it was published as persistent.
QueuesGone == queued' = {}

\* The connection closes under a running process.  Nothing reconnects, and
\* callbacks that are running run on.
LoseConnection ==
  /\ BrokerMayFail
  /\ channel = "open"
  /\ channel' = "closed"
  /\ QueuesGone
  /\ UNCHANGED handling

\* The process ends.
StopProcess ==
  /\ channel # "none"
  /\ channel' = "none"
  /\ QueuesGone
  /\ handling' = {}
=============================================================================
