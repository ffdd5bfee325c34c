-------------------------------- MODULE Server --------------------------------
(***************************************************************************)
(* The CSE server process: the state machine of Service (enable, disable,  *)
(* stop), the MQTT consumer with its pool of threads, the watchdog that    *)
(* replaces a dead consumer, and the shutdown.                             *)
(*                                                                         *)
(* One network thread receives the messages of a consumer and hands each   *)
(* to the pool, or refuses it when all threads are busy.  A job answers    *)
(* its message; the handler of a cluster operation leaves its work to a    *)
(* daemon thread of its own (run_async), which is not a job of the pool.   *)
(*                                                                         *)
(* A step is what a thread does between two points where another may see   *)
(* the difference: the increment of the active count, the registration of  *)
(* the callback that decrements it, a read of Service._state.  What the    *)
(* operations do to clusters is the subject of ClusterService.             *)
(***************************************************************************)
EXTENDS Integers, FiniteSets

CONSTANTS
  MaxMessages,    \* bound on the messages vCD publishes on the listen topic
  NumProcessors,  \* service.processors, the threads of a pool
  MaxDeaths       \* bound on the failures of network threads

ASSUME ServerAssumption ==
  /\ NumProcessors \in Nat \ {0}
  /\ {MaxMessages, MaxDeaths} \subseteq Nat

Messages  == 1..MaxMessages   \* numbered as they arrive
NoMessage == 0

\* A REST call, a behavior invocation, or one of the system updates.
Actions == {"enable", "disable", "stop"}
Kinds   == {"api", "behavior"} \cup Actions

States    == {"Running", "Disabled", "Shutting down", "Stopped"}
JobStates == {"new", "queued", "handling", "answering", "answered", "gone"}

VARIABLES
  state,      \* Service._state
  main,       \* the main thread: "loop", "close", "drain" or "exited"
  interrupted,\* was it Ctrl+C that ended the main loop?
  consumer,   \* the number of the consumer Service.consumer refers to
  stopping,   \* the consumer the main thread stops, or 0
  closing,    \* _is_closing of the current consumer; its pool is shut down
  net,        \* its network thread, and the message it hands over
  watchdog,   \* the watchdog: "sleep", "check" or "restart"
  kind,       \* what each message asks for, until it is answered
  job,        \* how far each message is; "gone" when ignored, refused or done
  decided,    \* the state update_status decided on, for a system update
  active,     \* _num_active_threads
  async,      \* the daemon thread of each message, if any
  deaths      \* failures of network threads

service == <<state, main, interrupted, stopping, watchdog>>
jobs    == <<kind, job, decided, async>>
vars    == <<service, consumer, closing, net, jobs, active, deaths>>

Up == main # "exited"
Alive == net.pc # "dead"

\* The threads of the pool that are not free: a thread is free again once the
\* callback of its job, if it has one by then, has run.
Registered(m) == ~(net.message = m /\ net.pc \in {"count", "register"})
Occupied ==
  {m \in Messages : \/ job[m] \in {"handling", "answering"}
                    \/ job[m] = "answered" /\ Registered(m)}
Queued     == {m \in Messages : job[m] = "queued"}
Unfinished == Occupied \cup Queued
Unanswered == {m \in Messages : job[m] \in {"queued", "handling", "answering"}}

Init ==
  /\ state = "Running"
  /\ main = "loop"
  /\ interrupted = FALSE
  /\ consumer = 1
  /\ stopping = 0
  /\ closing = FALSE
  /\ net = [pc |-> "listen", message |-> NoMessage]
  /\ watchdog = "sleep"
  /\ kind = [m \in Messages |-> "none"]
  /\ job = [m \in Messages |-> "new"]
  /\ decided = [m \in Messages |-> "none"]
  /\ active = 0
  /\ async = [m \in Messages |-> "none"]
  /\ deaths = 0

-----------------------------------------------------------------------------
(***************************************************************************)
(* The network thread: on_message, and submit of ConsumerThreadPoolExe-    *)
(* cutor.                                                                  *)
(***************************************************************************)
\* Variant: the comparison is off by one.
one_thread_too_many == active = NumProcessors + 1

max_threads_busy == active = NumProcessors

Hand(pc, m) == net' = [pc |-> pc, message |-> m]
Put(m, s)   == job' = [job EXCEPT ![m] = s]

Arrives(m) == job[m] = "new" /\ \A n \in Messages : job[n] = "new" => m <= n

\* A closing consumer ignores the message, a busy one refuses it.
Receive(m) ==
  /\ Up /\ net.pc = "listen"
  /\ Arrives(m)
  /\ IF closing \/ max_threads_busy
       THEN Put(m, "gone") /\ UNCHANGED <<net, kind>>
       ELSE /\ \E k \in Kinds : kind' = [kind EXCEPT ![m] = k]
            /\ Hand("submit", m)
            /\ UNCHANGED job
  /\ UNCHANGED <<service, consumer, closing, decided, async, active, deaths>>

\* ThreadPoolExecutor.submit raises once the pool is shut down.
Submit ==
  /\ Up /\ net.pc = "submit"
  /\ IF closing
       THEN Put(net.message, "gone") /\ Hand("stop", NoMessage)
       ELSE Put(net.message, "queued") /\ Hand("count", net.message)
  /\ UNCHANGED <<service, consumer, closing, kind, decided, async, active, deaths>>

Count ==
  /\ Up /\ net.pc = "count"
  /\ active' = active + 1
  /\ Hand("register", net.message)
  /\ UNCHANGED <<service, consumer, closing, jobs, deaths>>

\* Variant: the callback runs at its registration in any case.
RegisterAtOnce ==
  /\ Up /\ net.pc = "register"
  /\ active' = active - 1
  /\ IF job[net.message] = "answered" THEN Put(net.message, "gone") ELSE UNCHANGED job
  /\ Hand("listen", NoMessage)
  /\ UNCHANGED <<service, consumer, closing, kind, decided, async, deaths>>

\* add_done_callback runs the callback at once if the job is done.
Register ==
  /\ Up /\ net.pc = "register"
  /\ IF job[net.message] = "answered"
       THEN active' = active - 1 /\ Put(net.message, "gone")
       ELSE UNCHANGED <<active, job>>
  /\ Hand("listen", NoMessage)
  /\ UNCHANGED <<service, consumer, closing, kind, decided, async, deaths>>

\* The connection is refused, or an error leaves on_message: a "too many
\* requests" answer takes a header that an invocation may not have.
NetworkFails ==
  /\ Up /\ net.pc = "listen"
  /\ deaths < MaxDeaths
  /\ deaths' = deaths + 1
  /\ Hand("stop", NoMessage)
  /\ \/ UNCHANGED job
     \/ \E m \in Messages : /\ Arrives(m) /\ ~closing /\ max_threads_busy
                            /\ Put(m, "gone")
  /\ UNCHANGED <<service, consumer, closing, kind, decided, async, active>>

\* consumer_thread_run: the consumer stops itself, its pool finishes its jobs,
\* the thread ends.
StopItself ==
  /\ Up /\ net.pc = "stop"
  /\ closing' = TRUE
  /\ Hand("drain", NoMessage)
  /\ UNCHANGED <<service, consumer, jobs, active, deaths>>

\* Variant: shutdown(wait=False).
DieAtOnce ==
  /\ Up /\ net.pc = "drain"
  /\ Hand("dead", NoMessage)
  /\ UNCHANGED <<service, consumer, closing, jobs, active, deaths>>

Die ==
  /\ Up /\ net.pc = "drain"
  /\ Unfinished = {}
  /\ Hand("dead", NoMessage)
  /\ UNCHANGED <<service, consumer, closing, jobs, active, deaths>>

-----------------------------------------------------------------------------
(***************************************************************************)
(* The threads of the pool.                                                *)
(***************************************************************************)
\* Variant: jobs wait until the service is enabled.
DispatchIfEnabled(m) ==
  /\ Up /\ job[m] = "queued"
  /\ Cardinality(Occupied) < NumProcessors
  /\ state = "Running"
  /\ Put(m, "handling")
  /\ UNCHANGED <<service, consumer, closing, net, kind, decided, async, active, deaths>>

\* A free thread takes the job.  process_request lets only system requests
\* through when the service is not running; process_behavior_request does not
\* ask.
Dispatch(m) ==
  /\ Up /\ job[m] = "queued"
  /\ Cardinality(Occupied) < NumProcessors
  /\ Put(m, IF kind[m] = "api" /\ state # "Running" THEN "answering" ELSE "handling")
  /\ UNCHANGED <<service, consumer, closing, net, kind, decided, async, active, deaths>>

\* The handler of a cluster operation refuses it, answers it at once or starts
\* its thread.
Handle(m) ==
  /\ Up /\ job[m] = "handling"
  /\ kind[m] \in {"api", "behavior"}
  /\ \/ async' = [async EXCEPT ![m] = "working"]
     \/ UNCHANGED async
  /\ Put(m, "answering")
  /\ UNCHANGED <<service, consumer, closing, net, kind, decided, active, deaths>>

\* update_status: the state it sets, by the state it reads and the action;
\* "none" where it sets nothing.
update_status(s, action) ==
  CASE s = "Running" /\ action = "disable" -> "Disabled"
    [] s = "Disabled" /\ action = "enable" -> "Running"
    [] s \in {"Disabled", "Shutting down"} /\ action = "stop" -> "Shutting down"
    [] OTHER -> "none"

\* It reads the state, then sets it: no lock is held in between.  (Its three
\* comparisons count as one read.)
ReadState(m) ==
  /\ Up /\ job[m] = "handling"
  /\ kind[m] \in Actions
  /\ decided[m] = "none"
  /\ LET s == update_status(state, kind[m])
     IN  /\ decided' = [decided EXCEPT ![m] = s]
         /\ IF s = "none" THEN Put(m, "answering") ELSE UNCHANGED job
  /\ UNCHANGED <<service, consumer, closing, net, kind, async, active, deaths>>

SetState(m) ==
  /\ Up /\ job[m] = "handling"
  /\ decided[m] # "none"
  /\ state' = decided[m]
  /\ decided' = [decided EXCEPT ![m] = "none"]
  /\ Put(m, "answering")
  /\ UNCHANGED <<main, interrupted, stopping, watchdog, consumer, closing, net,
                 kind, async, active, deaths>>

\* The answer is published; the future is done, its callback still to run.
Answer(m) ==
  /\ Up /\ job[m] = "answering"
  /\ Put(m, "answered")
  /\ kind' = [kind EXCEPT ![m] = "none"]
  /\ UNCHANGED <<service, consumer, closing, net, decided, async, active, deaths>>

\* Variant: the callback does not decrement the count.
DoneUncounted(m) ==
  /\ Up /\ job[m] = "answered" /\ Registered(m)
  /\ Put(m, "gone")
  /\ UNCHANGED <<service, consumer, closing, net, kind, decided, async, active, deaths>>

Done(m) ==
  /\ Up /\ job[m] = "answered" /\ Registered(m)
  /\ active' = active - 1
  /\ Put(m, "gone")
  /\ UNCHANGED <<service, consumer, closing, net, kind, decided, async, deaths>>

\* The daemon thread of an operation ends it.
Work(m) ==
  /\ Up /\ async[m] = "working"
  /\ async' = [async EXCEPT ![m] = "none"]
  /\ UNCHANGED <<service, consumer, closing, net, kind, job, decided, active, deaths>>

-----------------------------------------------------------------------------
(***************************************************************************)
(* The watchdog, every 60 seconds.                                         *)
(***************************************************************************)
Watch(pc) == watchdog' = pc

WatchState ==
  /\ Up /\ watchdog = "sleep"
  /\ state = "Running"
  /\ Watch("check")
  /\ UNCHANGED <<state, main, interrupted, stopping, consumer, closing, net, jobs,
                 active, deaths>>

\* Variant: the watchdog looks at no thread.
WatchNothing ==
  /\ Up /\ watchdog = "check"
  /\ Watch("sleep")
  /\ UNCHANGED <<state, main, interrupted, stopping, consumer, closing, net, jobs,
                 active, deaths>>

WatchThread ==
  /\ Up /\ watchdog = "check"
  /\ Watch(IF Alive THEN "sleep" ELSE "restart")
  /\ UNCHANGED <<state, main, interrupted, stopping, consumer, closing, net, jobs,
                 active, deaths>>

\* A new MessageConsumer, with a pool and a network thread of its own.
Restart ==
  /\ Up /\ watchdog = "restart"
  /\ consumer' = consumer + 1
  /\ closing' = FALSE
  /\ active' = 0
  /\ Hand("listen", NoMessage)
  /\ Watch("sleep")
  /\ UNCHANGED <<state, main, interrupted, stopping, jobs, deaths>>

-----------------------------------------------------------------------------
(***************************************************************************)
(* The main thread of Service.run.                                         *)
(***************************************************************************)
Break ==
  /\ main = "loop"
  /\ state = "Shutting down" /\ active = 0
  /\ main' = "close"
  /\ UNCHANGED <<state, interrupted, stopping, watchdog, consumer, closing, net,
                 jobs, active, deaths>>

Interrupt ==
  /\ main = "loop"
  /\ main' = "close"
  /\ interrupted' = TRUE
  /\ UNCHANGED <<state, stopping, watchdog, consumer, closing, net, jobs, active,
                 deaths>>

\* self.consumer.stop(): no message is accepted from now on.
Close ==
  /\ main = "close"
  /\ state' = "Shutting down"
  /\ closing' = TRUE
  /\ stopping' = consumer
  /\ main' = "drain"
  /\ UNCHANGED <<interrupted, watchdog, consumer, net, jobs, active, deaths>>

\* Variant: shutdown(wait=False).
ExitAtOnce ==
  /\ main = "drain"
  /\ main' = "exited"
  /\ state' = "Stopped"
  /\ Hand("dead", NoMessage)
  /\ async' = [m \in Messages |-> IF async[m] = "working" THEN "killed" ELSE async[m]]
  /\ UNCHANGED <<interrupted, stopping, watchdog, consumer, closing, kind, job,
                 decided, active, deaths>>

\* The jobs of that consumer are done.  The process ends, and with it all its
\* daemon threads.
Exit ==
  /\ main = "drain"
  /\ stopping = consumer => Unfinished = {}
  /\ main' = "exited"
  /\ state' = "Stopped"
  /\ Hand("dead", NoMessage)
  /\ async' = [m \in Messages |-> IF async[m] = "working" THEN "killed" ELSE async[m]]
  /\ UNCHANGED <<interrupted, stopping, watchdog, consumer, closing, kind, job,
                 decided, active, deaths>>

-----------------------------------------------------------------------------
Network == (\E m \in Messages : Receive(m)) \/ Submit \/ Count \/ Register
             \/ StopItself \/ Die

Pool(m) == \/ Dispatch(m) \/ Handle(m) \/ ReadState(m) \/ SetState(m)
           \/ Answer(m) \/ Done(m)

Watchdog == WatchState \/ WatchThread \/ Restart

Main == Break \/ Close \/ Exit

Next == \/ Network \/ NetworkFails \/ Watchdog \/ Main \/ Interrupt
        \/ \E m \in Messages : Pool(m) \/ Work(m)

Spec == Init /\ [][Next]_vars

\* Threads are scheduled.  Nothing is said of the arrival of messages, of
\* operations on clusters or of failures.
FairSpec ==
  /\ Spec
  /\ WF_vars(Submit \/ Count \/ Register \/ StopItself \/ Die)
  /\ WF_vars(Watchdog)
  /\ WF_vars(Main)
  /\ \A m \in Messages : WF_vars(Pool(m))

-----------------------------------------------------------------------------
TypeOK ==
  /\ state \in States
  /\ main \in {"loop", "close", "drain", "exited"}
  /\ interrupted \in BOOLEAN
  /\ consumer \in Nat
  /\ stopping \in 0..consumer
  /\ closing \in BOOLEAN
  /\ net \in [pc : {"listen", "submit", "count", "register", "stop", "drain", "dead"},
              message : Messages \cup {NoMessage}]
  /\ watchdog \in {"sleep", "check", "restart"}
  /\ kind \in [Messages -> Kinds \cup {"none"}]
  /\ job \in [Messages -> JobStates]
  /\ decided \in [Messages -> States \cup {"none"}]
  /\ active \in 0..NumProcessors
  /\ async \in [Messages -> {"none", "working", "killed"}]
  /\ deaths \in 0..MaxDeaths

\* A message handed to the pool never waits for the end of another: the pool
\* holds at most NumProcessors jobs, though the active count is checked first
\* and incremented after the submission.
NeverQueued == Cardinality(Unfinished) <= NumProcessors

\* At most one pool works: the watchdog replaces a consumer only after the
\* last job of its pool.
OnePool == [][consumer' # consumer => Unfinished = {}]_vars

\* The exit of the server leaves no accepted message without an answer, unless
\* the watchdog, with a state read before the stop, replaced a dead consumer
\* behind the back of the main thread.
Overtaken == main = "exited" /\ stopping # consumer

AnsweredBeforeExit == main = "exited" => Unanswered = {} \/ Overtaken

\* Every accepted message is answered, with the same exception.
AcceptedIsAnswered ==
  \A m \in Messages :
    job[m] = "queued" ~> job[m] \in {"answered", "gone"} \/ Overtaken

\* A dead consumer is replaced as long as the service stays enabled.
ConsumerIsReplaced == ~Alive /\ state = "Running" ~> Alive \/ state # "Running"

\* A stop ends the server, once no enable or disable is left that read the
\* state before the stop: such a one still sets it, and the stop is lost.
Final == /\ state = "Shutting down"
         /\ \A m \in Messages : decided[m] \in {"none", "Shutting down"}

StopEnds == Final ~> main = "exited"

-----------------------------------------------------------------------------
(***************************************************************************)
(* The inductive invariant.  The active count is the number of jobs that   *)
(* the pool holds, but for the one the network thread has submitted and    *)
(* not yet counted; it left room for that one before the submission.       *)
(***************************************************************************)
Held(m) == job[m] \in {"queued", "handling", "answering", "answered"}
Pending == {m \in Messages : Held(m)}
Counted == Pending \ (IF net.pc = "count" THEN {net.message} ELSE {})

Handing == net.pc \in {"submit", "count", "register"}

NetInv ==
  /\ net.message \in Messages <=> Handing
  /\ net.pc = "submit" => job[net.message] = "new"
  /\ net.pc \in {"count", "register"} => Held(net.message)
  /\ net.pc = "dead" => Pending = {}

CountInv ==
  /\ active = Cardinality(Counted)
  /\ net.pc \in {"submit", "count"} => active < NumProcessors

WatchInv == watchdog = "restart" => net.pc = "dead"

IInv ==
  /\ TypeOK
  /\ Cardinality(Pending) <= NumProcessors
  /\ Up => NetInv /\ CountInv /\ WatchInv
  /\ AnsweredBeforeExit

-----------------------------------------------------------------------------
\* A stop waits for the operations in progress before the server goes down.
StopWaits ==
  [][main = "loop" /\ main' = "close" /\ ~interrupted' =>
       \A m \in Messages : async[m] # "working"]_vars

\* No cluster operation starts while the service is disabled.
DisabledStartsNothing ==
  [][\A m \in Messages : job[m] = "queued" /\ job'[m] = "handling"
                           /\ kind[m] \notin Actions => state # "Disabled"]_vars
=============================================================================
