---------------------------- MODULE AmqpConsumer ----------------------------
(***************************************************************************)
(* AMQPConsumer (mqi/consumer/amqp_consumer.py): the requests that vCD     *)
(* publishes to a queue of RabbitMQ, the network thread that receives      *)
(* them, the pool of threads that handles them, and the cache of the ids   *)
(* in process that turns duplicates away.  A message is acknowledged       *)
(* before it is handled; acknowledgements that were still under way when a *)
(* connection breaks are lost, and the broker delivers those messages      *)
(* again on the next connection.                                           *)
(*                                                                         *)
(* The count of active threads, with the steps of submit, is the subject   *)
(* of Server; here a thread is busy while its job is.  A request that asks *)
(* for no reply is left out.                                               *)
(***************************************************************************)
EXTENDS Naturals, FiniteSets

CONSTANTS
  Requests,        \* the ids of requests
  NumProcessors,   \* threads of the pool
  CacheSize,       \* MAX_PROCESSING_REQUEST_CACHE_SIZE
  MaxConnections,  \* bound on the connections that are opened
  NoRequest

ASSUME AmqpAssumption ==
  /\ NumProcessors \in Nat \ {0}
  /\ CacheSize \in Nat \ {0}
  /\ MaxConnections \in Nat \ {0}
  /\ NoRequest \notin Requests
  /\ IsFiniteSet(Requests)

Connections == 1 .. MaxConnections

VARIABLES
  process,     \* of the server: "up", "stopping" (stop has been called), "down"
  connected,   \* the channel is open
  connection,  \* how many connections there have been
  broker,      \* of each message: "queued", "settled" (its ack or nack is under
               \* way), "gone"
  net,         \* where on_message is, and with which request
  cache,       \* REQUESTS_BEING_PROCESSED
  job,         \* job[m, c]: that of request m as delivered on connection c
  replied,     \* history: the requests that were answered,
  rejected,    \* that were rejected as duplicates,
  evicted,     \* whose id left the cache for another,
  unsent,      \* whose answer found no channel,
  lost         \* that were acknowledged and then cut off by a stop or a crash

broken  == <<process, connected, connection>>
history == <<replied, rejected, evicted, unsent, lost>>
vars    == <<broken, broker, net, cache, job, history>>

Deliveries == Requests \X Connections
Steps      == {"none", "processing", "replying", "forgetting"}

TypeOK ==
  /\ process \in {"up", "stopping", "down"}
  /\ connected \in BOOLEAN
  /\ connection \in Connections
  /\ broker \in [Requests -> {"queued", "settled", "gone"}]
  /\ net \in [pc : {"listen", "busy", "submit", "dead"}, request : Requests \cup {NoRequest}]
  /\ cache \subseteq Requests
  /\ Cardinality(cache) <= CacheSize
  /\ job \in [Deliveries -> Steps]
  /\ replied \subseteq Requests /\ rejected \subseteq Requests /\ evicted \subseteq Requests
  /\ unsent \subseteq Requests /\ lost \subseteq Requests

Active     == {d \in Deliveries : job[d] # "none"}
JobsOf(m)  == {d \in Active : d[1] = m}
Hand(pc, m) == net' = [pc |-> pc, request |-> m]
Put(m, s)  == broker' = [broker EXCEPT ![m] = s]

Init ==
  /\ process = "up" /\ connected = TRUE /\ connection = 1
  /\ broker = [m \in Requests |-> "queued"]
  /\ net = [pc |-> "listen", request |-> NoRequest]
  /\ cache = {}
  /\ job = [d \in Deliveries |-> "none"]
  /\ replied = {} /\ rejected = {} /\ evicted = {} /\ unsent = {} /\ lost = {}

-----------------------------------------------------------------------------
(***************************************************************************)
(* on_message, in the network thread.                                      *)
(***************************************************************************)
\* Under the lock: an id in the cache is taken out of it and its message
\* rejected, not to be queued again.
RejectDuplicate(m) ==
  /\ m \in cache
  /\ cache' = cache \ {m}
  /\ rejected' = rejected \cup {m}
  /\ UNCHANGED net

\* Variant: the cache is not consulted.
AcknowledgeAll(m) ==
  /\ Hand("busy", m)
  /\ UNCHANGED <<cache, rejected>>

Acknowledge(m) ==
  /\ m \notin cache
  /\ Hand("busy", m)
  /\ UNCHANGED <<cache, rejected>>

Listening == process # "down" /\ connected /\ net.pc = "listen"

Deliver(m) ==
  /\ Listening
  /\ broker[m] = "queued"
  /\ RejectDuplicate(m) \/ Acknowledge(m)
  /\ Put(m, "settled")
  /\ UNCHANGED <<broken, job, replied, evicted, unsent, lost>>

\* Variant: a request that finds every thread busy is dropped.
DropWhenBusy(m) ==
  /\ UNCHANGED <<cache, replied, evicted>>
  /\ Hand("listen", NoRequest)

\* send_too_many_requests_response
AnswerBusy(m) ==
  /\ replied' = replied \cup {m}
  /\ UNCHANGED <<cache, evicted>>
  /\ Hand("listen", NoRequest)

max_threads_busy == Cardinality(Active) = NumProcessors

\* Variant: the cache has no bound.
RememberAll(m) ==
  /\ cache' = cache \cup {m}
  /\ Hand("submit", m)
  /\ UNCHANGED <<replied, evicted>>

\* The LRU dictionary drops an id when it is full; which one is the oldest is not
\* followed.
Remember(m) ==
  /\ IF m \in cache \/ Cardinality(cache) < CacheSize
       THEN cache' = cache \cup {m} /\ UNCHANGED evicted
       ELSE \E n \in cache : /\ cache' = (cache \ {n}) \cup {m}
                             /\ evicted' = evicted \cup {n}
  /\ Hand("submit", m)
  /\ UNCHANGED replied

CheckBusy ==
  /\ process # "down"
  /\ net.pc = "busy"
  /\ IF max_threads_busy THEN AnswerBusy(net.request) ELSE Remember(net.request)
  /\ UNCHANGED <<broken, broker, job, rejected, unsent, lost>>

\* A pool that is shut down raises; the error ends the network thread.
Submit ==
  /\ process # "down"
  /\ net.pc = "submit"
  /\ IF process = "stopping"
       THEN /\ Hand("dead", NoRequest)
            /\ lost' = lost \cup {net.request}
            /\ UNCHANGED job
       ELSE /\ job' = [job EXCEPT ![<<net.request, connection>>] = "processing"]
            /\ Hand("listen", NoRequest)
            /\ UNCHANGED lost
  /\ UNCHANGED <<broken, broker, cache, replied, rejected, evicted, unsent>>

-----------------------------------------------------------------------------
(***************************************************************************)
(* process_amqp_message, in a thread of the pool.                          *)
(***************************************************************************)
Run(d, s) == job' = [job EXCEPT ![d] = s]

Process(d) ==
  /\ job[d] = "processing"
  /\ Run(d, "replying")
  /\ UNCHANGED <<broken, broker, net, cache, history>>

\* send_response: without a channel it raises, and the id stays in the cache.
Reply(d) ==
  /\ job[d] = "replying"
  /\ \/ /\ connected
        /\ Run(d, "forgetting")
        /\ replied' = replied \cup {d[1]}
        /\ UNCHANGED unsent
     \/ /\ ~connected
        /\ Run(d, "none")
        /\ unsent' = unsent \cup {d[1]}
        /\ UNCHANGED replied
  /\ UNCHANGED <<broken, broker, net, cache, rejected, evicted, lost>>

\* Variant: the id is left in the cache.
NeverForget(d) ==
  /\ job[d] = "forgetting"
  /\ Run(d, "none")
  /\ UNCHANGED <<broken, broker, net, cache, history>>

Forget(d) ==
  /\ job[d] = "forgetting"
  /\ Run(d, "none")
  /\ cache' = cache \ {d[1]}
  /\ UNCHANGED <<broken, broker, net, history>>

-----------------------------------------------------------------------------
(***************************************************************************)
(* The broker, the connection and the process.                             *)
(***************************************************************************)
\* The acknowledgement or the rejection of a message arrives.
Settle(m) ==
  /\ connected
  /\ broker[m] = "settled"
  /\ Put(m, "gone")
  /\ UNCHANGED <<broken, net, cache, job, history>>

Requeued == [m \in Requests |-> IF broker[m] = "gone" THEN "gone" ELSE "queued"]

\* on_connection_closed, between two messages.
Disconnect ==
  /\ Listening
  /\ connection < MaxConnections
  /\ connected' = FALSE
  /\ broker' = Requeued
  /\ UNCHANGED <<process, connection, net, cache, job, history>>

\* Variant: only the first connection is opened again.
ReconnectOnce ==
  /\ process = "up" /\ ~connected
  /\ connection = 1
  /\ connected' = TRUE
  /\ connection' = 2
  /\ UNCHANGED <<process, broker, net, cache, job, history>>

\* reconnect, unless the consumer is closing.
Reconnect ==
  /\ process = "up" /\ ~connected
  /\ connection < MaxConnections
  /\ connected' = TRUE
  /\ connection' = connection + 1
  /\ UNCHANGED <<process, broker, net, cache, job, history>>

\* stop: the pool takes no more jobs.
Stop ==
  /\ process = "up"
  /\ connection < MaxConnections
  /\ process' = "stopping"
  /\ UNCHANGED <<connected, connection, broker, net, cache, job, history>>

\* The process ends with its threads, its cache and its connection.
Down ==
  /\ process' = "down"
  /\ connected' = FALSE
  /\ broker' = Requeued
  /\ net' = [pc |-> "listen", request |-> NoRequest]
  /\ cache' = {}
  /\ job' = [d \in Deliveries |-> "none"]
  /\ lost' = lost \cup {d[1] : d \in Active}
                  \cup (IF net.request \in Requests THEN {net.request} ELSE {})
  /\ UNCHANGED <<connection, replied, rejected, evicted, unsent>>

\* stop waits for the jobs.  What follows, stop_consuming, raises if the channel
\* is open (basic_cancel has no delivery_tag), but the process ends anyway.
Exit == process = "stopping" /\ Active = {} /\ Down

Crash == process # "down" /\ connection < MaxConnections /\ Down

Start ==
  /\ process = "down"
  /\ connection < MaxConnections
  /\ process' = "up" /\ connected' = TRUE
  /\ connection' = connection + 1
  /\ UNCHANGED <<broker, net, cache, job, history>>

Next ==
  \/ \E m \in Requests : Deliver(m) \/ Settle(m)
  \/ CheckBusy \/ Submit
  \/ \E d \in Deliveries : Process(d) \/ Reply(d) \/ Forget(d)
  \/ Disconnect \/ Reconnect
  \/ Stop \/ Exit \/ Crash \/ Start

Fairness ==
  /\ WF_vars(CheckBusy) /\ WF_vars(Submit) /\ WF_vars(Reconnect)
  /\ \A m \in Requests : WF_vars(Deliver(m)) /\ WF_vars(Settle(m))
  /\ \A d \in Deliveries : WF_vars(Process(d)) /\ WF_vars(Reply(d)) /\ WF_vars(Forget(d))
  /\ WF_vars(Exit)

Spec == Init /\ [][Next]_vars /\ Fairness

-----------------------------------------------------------------------------
\* The cache keeps a request from being handled twice at once, although the
\* broker may deliver it again while it is: two jobs of one request run together
\* only after a rejection took its id out of the cache, or another id evicted it.
NotTwiceAtOnce ==
  \A m \in Requests :
    (\E d, e \in JobsOf(m) : d # e) => m \in rejected \cup evicted

\* The cache holds the ids of requests in process and, until their next delivery
\* is rejected or the process ends, of those whose answer could not be sent or
\* that the pool refused.
CacheIsLive ==
  \A m \in cache :
    \/ JobsOf(m) # {}
    \/ net.pc = "submit" /\ net.request = m
    \/ m \in unsent \cup lost

\* A request whose message the broker has done with, and that no thread is at
\* work on, was answered, unless its answer found no channel or the server was
\* stopped or crashed before.
AnsweredUnlessLost ==
  \A m \in Requests :
    broker[m] = "gone" /\ JobsOf(m) = {} /\ net.request # m =>
      m \in replied \cup unsent \cup lost

\* The strengthening of the three that is inductive.
NetInv ==
  /\ net.pc \in {"busy", "submit"} <=> net.request \in Requests
  /\ net.pc = "submit" => net.request \in cache \cup rejected \cup evicted
  /\ process = "down" => Active = {} /\ net.pc = "listen"

OneJobInv ==
  \A m \in Requests \ (rejected \cup evicted) :
    /\ JobsOf(m) # {} => m \in cache /\ net.request # m
    /\ \A d, e \in JobsOf(m) : d = e

AnswerInv ==
  /\ \A d \in Deliveries : job[d] = "forgetting" => d[1] \in replied
  /\ \A m \in Requests :
       broker[m] \in {"settled", "gone"} /\ JobsOf(m) = {} /\ net.request # m =>
         m \in replied \cup unsent \cup lost

IInv == TypeOK /\ NetInv /\ OneJobInv /\ CacheIsLive /\ AnswerInv

\* The same as a promise: every message in the queue is answered in the end, or
\* lost in one of those ways, or the server is down.
EventuallyAnswered ==
  \A m \in Requests :
    broker[m] = "queued" ~> m \in replied \cup unsent \cup lost \/ process = "down"
=============================================================================
