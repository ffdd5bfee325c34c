----------------------------- MODULE AmqpProofs -----------------------------
(***************************************************************************)
(* Proofs about AmqpConsumer, for any requests, pool, cache and number of  *)
(* connections.                                                            *)
(***************************************************************************)
EXTENDS AmqpConsumer, FiniteSetTheorems, TLAPS

USE AmqpAssumption

LEMMA InitIInv == Init => IInv
<1> SUFFICES ASSUME Init PROVE IInv
  OBVIOUS
<1>1. Cardinality(cache) = 0
  BY FS_EmptySet DEF Init
<1>2. Active = {}
  BY DEF Init, Active
<1>3. TypeOK
  BY <1>1 DEF Init, TypeOK, Connections, Steps
<1> QED
  BY <1>2, <1>3 DEF Init, IInv, NetInv, OneJobInv, CacheIsLive, AnswerInv, JobsOf

\* A cache that loses an id keeps its bound.
LEMMA SmallerCache ==
  ASSUME TypeOK, NEW m PROVE Cardinality(cache \ {m}) <= CacheSize
<1>1. IsFiniteSet(cache)
  BY FS_Subset DEF TypeOK
<1>2. Cardinality(cache \ {m}) <= Cardinality(cache)
  BY <1>1, FS_Subset
<1>3. IsFiniteSet(cache \ {m})
  BY <1>1, FS_RemoveElement
<1> QED
  BY <1>1, <1>2, <1>3, FS_CardinalityType DEF TypeOK

LEMMA DeliverStep ==
  ASSUME IInv, NEW m \in Requests, Deliver(m) PROVE IInv'
<1> USE DEF IInv, Deliver, Put, Hand, broken
<1>1. CASE RejectDuplicate(m)
  <2> USE <1>1 DEF RejectDuplicate
  <2>0. Cardinality(cache') <= CacheSize
    BY SmallerCache
  <2>1. TypeOK'
    BY <2>0 DEF TypeOK
  <2>2. NetInv' /\ OneJobInv'
    BY DEF NetInv, OneJobInv, JobsOf, Active, Listening
  <2>3. CacheIsLive' /\ AnswerInv'
    BY DEF CacheIsLive, AnswerInv, JobsOf, Active, NetInv, Listening, TypeOK
  <2> QED
    BY <2>1, <2>2, <2>3
<1>2. CASE Acknowledge(m)
  <2> USE <1>2 DEF Acknowledge
  <2>1. TypeOK'
    BY DEF TypeOK
  <2>2. NetInv' /\ OneJobInv'
    BY DEF NetInv, OneJobInv, JobsOf, Active, Listening
  <2>3. CacheIsLive' /\ AnswerInv'
    BY DEF CacheIsLive, AnswerInv, JobsOf, Active, NetInv, Listening, TypeOK
  <2> QED
    BY <2>1, <2>2, <2>3
<1> QED
  BY <1>1, <1>2

LEMMA SettleStep ==
  ASSUME IInv, NEW m \in Requests, Settle(m) PROVE IInv'
BY DEF IInv, TypeOK, NetInv, OneJobInv, CacheIsLive, AnswerInv, JobsOf, Active,
       Settle, Put, broken, history

LEMMA CheckBusyStep ==
  ASSUME IInv, CheckBusy PROVE IInv'
<1> DEFINE m == net.request
<1>0. m \in Requests
  BY DEF IInv, NetInv, CheckBusy
<1> USE DEF IInv, CheckBusy, Hand, broken
<1>1. CASE AnswerBusy(m)
  <2> USE <1>1, <1>0 DEF AnswerBusy
  <2>1. TypeOK' /\ NetInv' /\ OneJobInv'
    BY DEF TypeOK, NetInv, OneJobInv, JobsOf, Active
  <2>2. CacheIsLive' /\ AnswerInv'
    BY DEF CacheIsLive, AnswerInv, JobsOf, Active, TypeOK
  <2> QED
    BY <2>1, <2>2
<1>2. CASE Remember(m)
  <2> USE <1>2, <1>0 DEF Remember
  <2>0. IsFiniteSet(cache)
    BY FS_Subset DEF TypeOK
  <2>1. TypeOK'
    <3>1. CASE m \in cache \/ Cardinality(cache) < CacheSize
      <4>1. Cardinality(cache') <= CacheSize
        <5>1. cache' = cache \cup {m}
          BY <3>1
        <5>2. CASE m \in cache
          <6>1. cache' = cache
            BY <5>1, <5>2
          <6> QED
            BY <6>1 DEF TypeOK
        <5>3. CASE m \notin cache
          <6>1. Cardinality(cache') = Cardinality(cache) + 1
            BY <5>1, <5>3, <2>0, FS_AddElement
          <6> QED
            BY <6>1, <3>1, <5>3, <2>0, FS_CardinalityType
        <5> QED
          BY <5>2, <5>3
      <4> QED
        BY <3>1, <4>1 DEF TypeOK
    <3>2. ASSUME NEW n \in cache, m \notin cache,
                 cache' = (cache \ {n}) \cup {m}, evicted' = evicted \cup {n}
          PROVE  TypeOK'
      <4>1. Cardinality(cache \ {n}) = Cardinality(cache) - 1 /\ IsFiniteSet(cache \ {n})
        BY <2>0, FS_RemoveElement
      <4>2. Cardinality((cache \ {n}) \cup {m}) = Cardinality(cache \ {n}) + 1
        BY <3>2, <4>1, FS_AddElement
      <4>3. Cardinality(cache') <= CacheSize
        BY <3>2, <4>1, <4>2, <2>0, FS_CardinalityType DEF TypeOK
      <4> QED
        BY <3>2, <4>3 DEF TypeOK
    <3> QED
      BY <3>1, <3>2
  <2>2. NetInv' /\ OneJobInv'
    BY DEF TypeOK, NetInv, OneJobInv, JobsOf, Active
  <2>3. CacheIsLive' /\ AnswerInv'
    BY DEF CacheIsLive, AnswerInv, JobsOf, Active, TypeOK, NetInv
  <2> QED
    BY <2>1, <2>2, <2>3
<1> QED
  BY <1>1, <1>2

LEMMA SubmitStep ==
  ASSUME IInv, Submit PROVE IInv'
<1> DEFINE m == net.request
<1>0. m \in Requests
  BY DEF IInv, NetInv, Submit
<1> USE <1>0 DEF IInv, Submit, Hand, broken
<1>1. CASE process = "stopping"
  <2>1. TypeOK' /\ NetInv' /\ OneJobInv'
    BY <1>1 DEF TypeOK, NetInv, OneJobInv, JobsOf, Active
  <2>2. CacheIsLive' /\ AnswerInv'
    BY <1>1 DEF CacheIsLive, AnswerInv, JobsOf, Active, TypeOK
  <2> QED
    BY <2>1, <2>2
<1>2. CASE process # "stopping"
  <2> DEFINE d == <<m, connection>>
  <2>0. d \in Deliveries /\ d[1] = m /\ job' = [job EXCEPT ![d] = "processing"]
    BY <1>2 DEF TypeOK, Deliveries
  <2>1. TypeOK'
    BY <1>2, <2>0 DEF TypeOK, Steps
  <2>2. Active' = Active \cup {d}
    BY <2>0, <2>1 DEF Active, TypeOK
  <2>3. \A n \in Requests : JobsOf(n)' = IF n = m THEN JobsOf(n) \cup {d} ELSE JobsOf(n)
    BY <2>0, <2>2 DEF JobsOf
  <2>4. NetInv'
    BY <1>2, <2>1 DEF NetInv, TypeOK
  <2>5. OneJobInv'
    BY <1>2, <2>3 DEF OneJobInv, NetInv
  <2>6. CacheIsLive'
    BY <1>2, <2>3 DEF CacheIsLive, TypeOK
  <2>7. AnswerInv'
    BY <1>2, <2>0, <2>3, <2>1 DEF AnswerInv, TypeOK
  <2> QED
    BY <2>1, <2>4, <2>5, <2>6, <2>7
<1> QED
  BY <1>1, <1>2

LEMMA ProcessStep ==
  ASSUME IInv, NEW d \in Deliveries, Process(d) PROVE IInv'
<1> USE DEF IInv, Process, Run, broken, history
<1>1. TypeOK'
  BY DEF TypeOK, Steps
<1>2. Active' = Active /\ \A m \in Requests : JobsOf(m)' = JobsOf(m)
  BY DEF TypeOK, Active, JobsOf
<1>3. NetInv' /\ OneJobInv'
  BY <1>2 DEF NetInv, OneJobInv
<1>4. CacheIsLive' /\ AnswerInv'
  BY <1>2 DEF CacheIsLive, AnswerInv, TypeOK
<1> QED
  BY <1>1, <1>3, <1>4

\* A job that ends leaves the others as they are.
LEMMA JobEnds ==
  ASSUME TypeOK, NEW d \in Deliveries, Run(d, "none")
  PROVE  /\ job' \in [Deliveries -> Steps]
         /\ Active' = Active \ {d}
         /\ \A m \in Requests : JobsOf(m)' = JobsOf(m) \ {d}
         /\ \A m \in Requests : m # d[1] => d \notin JobsOf(m)
BY DEF TypeOK, Run, Active, JobsOf, Steps

LEMMA ReplyStep ==
  ASSUME IInv, NEW d \in Deliveries, Reply(d) PROVE IInv'
<1> USE DEF IInv, Reply, broken
<1>0. d[1] \in Requests
  BY DEF Deliveries
<1>1. CASE connected
  <2> USE <1>1 DEF Run
  <2>1. TypeOK'
    BY <1>0 DEF TypeOK, Steps
  <2>2. Active' = Active /\ \A m \in Requests : JobsOf(m)' = JobsOf(m)
    BY DEF TypeOK, Active, JobsOf
  <2>3. NetInv' /\ OneJobInv'
    BY <2>2 DEF NetInv, OneJobInv
  <2>4. CacheIsLive' /\ AnswerInv'
    BY <2>2 DEF CacheIsLive, AnswerInv, TypeOK
  <2> QED
    BY <2>1, <2>3, <2>4
<1>2. CASE ~connected
  <2>0. Run(d, "none") /\ unsent' = unsent \cup {d[1]} /\ UNCHANGED replied
    BY <1>2
  <2>1. TypeOK'
    BY <1>0, <2>0, JobEnds DEF TypeOK
  <2>2. NetInv' /\ OneJobInv'
    BY <2>0, JobEnds DEF NetInv, OneJobInv
  <2>3. CacheIsLive'
    BY <2>0, JobEnds DEF CacheIsLive, TypeOK
  <2>4. \A e \in Deliveries : job'[e] = "forgetting" => e[1] \in replied'
    BY <2>0 DEF AnswerInv, Run, TypeOK
  <2>5. AnswerInv'
    BY <2>0, <2>4, JobEnds DEF AnswerInv
  <2> QED
    BY <2>1, <2>2, <2>3, <2>5
<1> QED
  BY <1>1, <1>2

LEMMA ForgetStep ==
  ASSUME IInv, NEW d \in Deliveries, Forget(d) PROVE IInv'
<1> USE DEF IInv, Forget, broken, history
<1>0. d[1] \in Requests /\ d \in JobsOf(d[1]) /\ Run(d, "none")
  BY DEF Deliveries, JobsOf, Active
<1>1. TypeOK'
  <2>1. Cardinality(cache') <= CacheSize
    BY SmallerCache
  <2> QED
    BY <1>0, <2>1, JobEnds DEF TypeOK
<1>2. NetInv'
  BY <1>0, JobEnds DEF NetInv, OneJobInv
<1>3. OneJobInv'
  BY <1>0, JobEnds DEF OneJobInv
<1>4. CacheIsLive'
  BY <1>0, JobEnds DEF CacheIsLive, TypeOK
<1>5. \A e \in Deliveries : job'[e] = "forgetting" => e[1] \in replied'
  BY <1>0 DEF AnswerInv, Run, TypeOK
<1>6. AnswerInv'
  BY <1>0, <1>5, JobEnds DEF AnswerInv
<1> QED
  BY <1>1, <1>2, <1>3, <1>4, <1>6

LEMMA DisconnectStep ==
  ASSUME IInv, Disconnect PROVE IInv'
<1> USE DEF IInv, Disconnect, Requeued, history
<1>1. Active' = Active /\ \A m \in Requests : JobsOf(m)' = JobsOf(m)
  BY DEF Active, JobsOf
<1>2. TypeOK'
  BY DEF TypeOK
<1>3. NetInv' /\ OneJobInv'
  BY <1>1 DEF NetInv, OneJobInv, Listening
<1>4. CacheIsLive'
  BY <1>1 DEF CacheIsLive, TypeOK
<1>5. AnswerInv'
  BY <1>1 DEF AnswerInv
<1> QED
  BY <1>2, <1>3, <1>4, <1>5

\* What the connection and the state of the process are does not matter to the
\* rest, while the process is up.
LEMMA SameJobs ==
  ASSUME IInv, UNCHANGED <<broker, net, cache, job, history>>, process' # "down", TypeOK'
  PROVE  IInv'
<1>1. Active' = Active /\ \A m \in Requests : JobsOf(m)' = JobsOf(m)
  BY DEF Active, JobsOf
<1>2. UNCHANGED <<broker, net, cache, job, replied, rejected, evicted, unsent, lost>>
  BY DEF history
<1>3. NetInv' /\ OneJobInv'
  BY <1>1, <1>2 DEF IInv, NetInv, OneJobInv
<1>4. CacheIsLive'
  BY <1>1, <1>2 DEF IInv, CacheIsLive, TypeOK
<1>5. AnswerInv'
  BY <1>1, <1>2 DEF IInv, AnswerInv
<1> QED
  BY <1>3, <1>4, <1>5 DEF IInv

LEMMA ReconnectStep ==
  ASSUME IInv, Reconnect \/ Start PROVE IInv'
<1>1. connection \in Connections /\ connection < MaxConnections /\ connection' = connection + 1
  BY DEF IInv, TypeOK, Reconnect, Start
<1>2. connection' \in Connections
  BY <1>1 DEF Connections
<1>3. TypeOK'
  BY <1>2 DEF IInv, TypeOK, Reconnect, Start, history
<1> QED
  BY <1>3, SameJobs DEF Reconnect, Start

LEMMA StopStep ==
  ASSUME IInv, Stop PROVE IInv'
<1>1. TypeOK'
  BY DEF IInv, TypeOK, Stop, history
<1> QED
  BY <1>1, SameJobs DEF Stop

LEMMA DownStep ==
  ASSUME IInv, Down PROVE IInv'
<1> USE DEF IInv, Down
<1>1. Active' = {} /\ \A m \in Requests : JobsOf(m)' = {}
  BY DEF Active, JobsOf
<1>2. TypeOK'
  <2>1. Cardinality(cache') <= CacheSize
    BY FS_EmptySet
  <2>2. \A d \in Active : d[1] \in Requests
    BY DEF Active, Deliveries
  <2>3. broker' \in [Requests -> {"queued", "settled", "gone"}]
    BY DEF Requeued
  <2>4. lost' \subseteq Requests
    BY <2>2 DEF TypeOK
  <2>5. job' \in [Deliveries -> Steps] /\ cache' \subseteq Requests
    BY DEF Steps
  <2>6. /\ connection' \in Connections /\ replied' \subseteq Requests
        /\ rejected' \subseteq Requests /\ evicted' \subseteq Requests
        /\ unsent' \subseteq Requests
    BY DEF TypeOK
  <2> QED
    BY <2>1, <2>3, <2>4, <2>5, <2>6 DEF TypeOK
<1>3. NetInv' /\ OneJobInv' /\ CacheIsLive'
  BY <1>1 DEF NetInv, OneJobInv, CacheIsLive
<1>4. ASSUME NEW m \in Requests, broker'[m] \in {"settled", "gone"}
      PROVE  m \in replied' \cup unsent' \cup lost'
  <2>1. broker[m] = "gone"
    BY <1>4 DEF Requeued
  <2>2. CASE JobsOf(m) = {} /\ net.request # m
    BY <2>1, <2>2 DEF AnswerInv
  <2>3. CASE JobsOf(m) # {} \/ net.request = m
    BY <2>3 DEF JobsOf
  <2> QED
    BY <2>2, <2>3
<1>5. AnswerInv'
  BY <1>4 DEF AnswerInv
<1> QED
  BY <1>2, <1>3, <1>5

\* IInv is inductive.
LEMMA Inductive == IInv /\ [Next]_vars => IInv'
<1> SUFFICES ASSUME IInv, [Next]_vars PROVE IInv'
  OBVIOUS
<1>1. CASE UNCHANGED vars
  BY <1>1 DEF vars, broken, history, IInv, TypeOK, NetInv, OneJobInv, CacheIsLive,
              AnswerInv, JobsOf, Active
<1>2. CASE Next
  BY <1>2, DeliverStep, SettleStep, CheckBusyStep, SubmitStep, ProcessStep, ReplyStep,
     ForgetStep, DisconnectStep, ReconnectStep, StopStep, DownStep
  DEF Next, Exit, Crash
<1> QED
  BY <1>1, <1>2

\* Every variable of the consumer keeps its type, and the cache its bound.
THEOREM TypeCorrect == Spec => []TypeOK
<1>1. IInv => TypeOK
  BY DEF IInv
<1> QED
  BY <1>1, InitIInv, Inductive, PTL DEF Spec

\* Two jobs of one request run at once only after a rejection or an eviction.
THEOREM NotTwiceAtOnceHolds == Spec => []NotTwiceAtOnce
<1>1. IInv => NotTwiceAtOnce
  BY DEF IInv, OneJobInv, NotTwiceAtOnce
<1> QED
  BY <1>1, InitIInv, Inductive, PTL DEF Spec

\* The cache holds the requests in process, and those whose answer was not sent.
THEOREM CacheIsLiveHolds == Spec => []CacheIsLive
<1>1. IInv => CacheIsLive
  BY DEF IInv
<1> QED
  BY <1>1, InitIInv, Inductive, PTL DEF Spec

\* No request is forgotten unanswered while connection and process last.
THEOREM AnsweredUnlessLostHolds == Spec => []AnsweredUnlessLost
<1>1. IInv => AnsweredUnlessLost
  BY DEF IInv, AnswerInv, AnsweredUnlessLost
<1> QED
  BY <1>1, InitIInv, Inductive, PTL DEF Spec
=============================================================================
