----------------------------- MODULE ServerProofs -----------------------------
(***************************************************************************)
(* Proofs about Server, for any number of messages, threads and failures:  *)
(* the pool never holds more jobs than it has threads although the check,  *)
(* the submission and the count of a job are three steps; only one pool    *)
(* works at a time; an exit leaves no accepted message unanswered.         *)
(***************************************************************************)
EXTENDS Server, FiniteSetTheorems, TLAPS

USE ServerAssumption

\* Every set of messages is finite.
LEMMA Finite ==
  ASSUME NEW S \in SUBSET Messages
  PROVE  IsFiniteSet(S) /\ Cardinality(S) \in Nat
<1>1. IsFiniteSet(Messages)
  BY FS_Interval DEF Messages
<1>2. IsFiniteSet(S)
  BY <1>1, FS_Subset
<1> QED
  BY <1>2, FS_CardinalityType

\* One message more in a set.
LEMMA AddOne ==
  ASSUME NEW S \in SUBSET Messages, NEW m \in Messages, m \notin S
  PROVE  Cardinality(S \cup {m}) = Cardinality(S) + 1
BY Finite, FS_AddElement

\* One message less in a set.
LEMMA RemoveOne ==
  ASSUME NEW S \in SUBSET Messages, NEW m \in S
  PROVE  Cardinality(S \ {m}) = Cardinality(S) - 1 /\ Cardinality(S) \in Nat \ {0}
<1>1. IsFiniteSet(S) /\ Cardinality(S) \in Nat
  BY Finite
<1>2. Cardinality(S) # 0
  BY <1>1, FS_EmptySet
<1> QED
  BY <1>1, <1>2, FS_RemoveElement

\* The invariant holds when the server starts.
LEMMA InitIInv == Init => IInv
<1> SUFFICES ASSUME Init PROVE IInv
  OBVIOUS
<1>1. Pending = {} /\ Counted = {}
  BY DEF Init, Pending, Held, Counted
<1>2. Cardinality({}) = 0
  BY FS_EmptySet
<1>3. TypeOK
  <2>1. net \in [pc : {"listen", "submit", "count", "register", "stop", "drain", "dead"},
                message : Messages \cup {NoMessage}]
    BY DEF Init, Hand
  <2>2. kind \in [Messages -> Kinds \cup {"none"}] /\ job \in [Messages -> JobStates]
    BY DEF Init, JobStates
  <2>3. consumer \in Nat /\ stopping \in 0..consumer
    BY DEF Init
  <2>4. active \in 0..NumProcessors /\ deaths \in 0..MaxDeaths
    BY DEF Init
  <2> QED
    BY <2>1, <2>2, <2>3, <2>4 DEF Init, TypeOK, States
<1>4. NetInv
  BY <1>1 DEF Init, NetInv, Handing, NoMessage, Messages
<1> QED
  BY <1>1, <1>2, <1>3, <1>4 DEF Init, IInv, CountInv, WatchInv, AnsweredBeforeExit

\* The message of a job that is done, and was counted, is among the counted.
LEMMA DoneIsCounted ==
  ASSUME TypeOK, NEW m \in Messages, job[m] = "answered", Registered(m)
  PROVE  m \in Counted
BY DEF Counted, Pending, Held, Registered

\* A step keeps the types; the bounds on the active count rest on CountInv.
LEMMA TypeStep == IInv /\ [Next]_vars => TypeOK'
<1> SUFFICES ASSUME IInv, [Next]_vars PROVE TypeOK'
  OBVIOUS
<1>0. TypeOK /\ (Up => NetInv /\ CountInv)
  BY DEF IInv
<1> USE DEF TypeOK, service, jobs, Hand, Put, Up
<1>1. ASSUME NEW m \in Messages, Receive(m) PROVE TypeOK'
  BY <1>0, <1>1 DEF Receive, JobStates
<1>2. CASE Submit
  BY <1>0, <1>2 DEF Submit, NetInv, Handing, JobStates
<1>3. CASE Count
  BY <1>0, <1>3 DEF Count, CountInv
<1>4. CASE Register
  <2>1. net.message \in Messages
    BY <1>0, <1>4 DEF Register, NetInv, Handing
  <2>2. CASE job[net.message] = "answered"
    <3>1. net.message \in Counted
      BY <1>0, <1>4, <2>1, <2>2 DEF Register, Counted, Pending, Held
    <3>2. active \in Nat \ {0}
      BY <1>0, <1>4, <3>1, RemoveOne DEF Register, CountInv, Counted, Pending
    <3> QED
      BY <1>0, <1>4, <2>1, <2>2, <3>2 DEF Register, JobStates
  <2>3. CASE job[net.message] # "answered"
    BY <1>0, <1>4, <2>3 DEF Register
  <2> QED
    BY <2>2, <2>3
<1>5. CASE NetworkFails
  BY <1>0, <1>5 DEF NetworkFails, JobStates
<1>6. CASE StopItself \/ Die
  <2>1. CASE StopItself
    BY <1>0, <2>1 DEF StopItself
  <2>2. CASE Die
    BY <1>0, <2>2 DEF Die
  <2> QED
    BY <1>6, <2>1, <2>2
<1>7. ASSUME NEW m \in Messages, Dispatch(m) PROVE TypeOK'
  BY <1>0, <1>7 DEF Dispatch, JobStates
<1>8. ASSUME NEW m \in Messages, Handle(m) PROVE TypeOK'
  BY <1>0, <1>8 DEF Handle, JobStates
<1>9. ASSUME NEW m \in Messages, ReadState(m) PROVE TypeOK'
  <2>1. update_status(state, kind[m]) \in States \cup {"none"}
    BY DEF update_status, States
  <2> QED
    BY <1>0, <1>9, <2>1 DEF ReadState, JobStates
<1>10. ASSUME NEW m \in Messages, SetState(m) PROVE TypeOK'
  BY <1>0, <1>10 DEF SetState, JobStates
<1>11. ASSUME NEW m \in Messages, Answer(m) PROVE TypeOK'
  BY <1>0, <1>11 DEF Answer, JobStates
<1>12. ASSUME NEW m \in Messages, Done(m) PROVE TypeOK'
  <2>1. active \in Nat \ {0}
    BY <1>0, <1>12, DoneIsCounted, RemoveOne DEF Done, CountInv, Counted, Pending
  <2> QED
    BY <1>0, <1>12, <2>1 DEF Done, JobStates
<1>13. ASSUME NEW m \in Messages, Work(m) PROVE TypeOK'
  BY <1>0, <1>13 DEF Work
<1>14. CASE WatchState \/ WatchThread \/ Restart
  <2>1. CASE WatchState
    BY <1>0, <2>1 DEF WatchState, Watch
  <2>2. CASE WatchThread
    BY <1>0, <2>2 DEF WatchThread, Watch
  <2>3. CASE Restart
    <3>1. stopping \in 0..consumer /\ consumer \in Nat
      BY <1>0
    <3>2. stopping \in 0..(consumer + 1)
      BY <3>1
    <3>3. consumer' = consumer + 1 /\ stopping' = stopping
      BY <2>3 DEF Restart
    <3>4. stopping' \in 0..consumer' /\ consumer' \in Nat
      BY <3>1, <3>2, <3>3
    <3>5. active' \in 0..NumProcessors
      BY <2>3 DEF Restart
    <3>6. net' \in [pc : {"listen", "submit", "count", "register", "stop", "drain",
                         "dead"}, message : Messages \cup {NoMessage}]
      BY <2>3 DEF Restart
    <3> HIDE DEF Up
    <3> QED
      BY <1>0, <2>3, <3>4, <3>5, <3>6 DEF Restart, Watch
  <2> QED
    BY <1>14, <2>1, <2>2, <2>3
<1>15. CASE Break \/ Interrupt
  BY <1>0, <1>15 DEF Break, Interrupt
<1>16. CASE Close
  <2>1. consumer \in Nat /\ stopping' = consumer /\ consumer' = consumer
    BY <1>0, <1>16 DEF Close
  <2>2. stopping' \in 0..consumer' /\ consumer' \in Nat
    BY <2>1
  <2> QED
    BY <1>0, <1>16, <2>2 DEF Close, States
<1>17. CASE Exit
  <2>1. async' \in [Messages -> {"none", "working", "killed"}]
    BY <1>0, <1>17 DEF Exit
  <2> QED
    BY <1>0, <1>17, <2>1 DEF Exit, States
<1>18. CASE UNCHANGED vars
  BY <1>0, <1>18 DEF vars
<1> QED
  BY <1>1, <1>2, <1>3, <1>4, <1>5, <1>6, <1>7, <1>8, <1>9, <1>10, <1>11, <1>12,
     <1>13, <1>14, <1>15, <1>16, <1>17, <1>18
  DEF Next, Network, Pool, Watchdog, Main

\* What the invariant says of the pool.
PoolInv ==
  Cardinality(Pending) <= NumProcessors /\ (Up => NetInv /\ CountInv)

\* A step that touches neither the network thread nor the count keeps it, as
\* long as the pool holds the same jobs.
LEMMA QuietStep ==
  ASSUME PoolInv, UNCHANGED <<active, net>>, Up' => Up,
         \A m \in Messages : Held(m)' <=> Held(m),
         net.pc = "submit" => UNCHANGED job[net.message]
  PROVE  PoolInv'
<1>1. Pending' = Pending
  BY DEF Pending
<1>2. Counted' = Counted
  BY <1>1 DEF Counted
<1>3. Up => NetInv'
  <2> SUFFICES ASSUME Up PROVE NetInv'
    OBVIOUS
  <2>1. NetInv
    BY DEF PoolInv
  <2> QED
    BY <1>1, <2>1 DEF NetInv, Handing
<1> QED
  BY <1>1, <1>2, <1>3 DEF PoolInv, CountInv

\* A job that is done leaves the pool and the count together.
LEMMA LeaveStep ==
  ASSUME TypeOK, PoolInv, Up, NEW m \in Messages, job[m] = "answered",
         net.pc = "count" => net.message # m,
         active' = active - 1, Put(m, "gone")
  PROVE  /\ Pending' = Pending \ {m}
         /\ Cardinality(Pending') <= NumProcessors
         /\ active' = Cardinality(Counted \ {m})
<1>1. \A n \in Messages : Held(n)' <=> Held(n) /\ n # m
  BY DEF Held, Put, TypeOK
<1>2. Pending' = Pending \ {m}
  BY <1>1 DEF Pending
<1>3. m \in Counted /\ m \in Pending
  BY DEF Counted, Pending, Held
<1>4. Cardinality(Pending \ {m}) = Cardinality(Pending) - 1 /\ Cardinality(Pending) \in Nat
  BY <1>3, RemoveOne DEF Pending
<1>5. Cardinality(Counted \ {m}) = Cardinality(Counted) - 1
  BY <1>3, RemoveOne DEF Counted, Pending
<1> QED
  BY <1>2, <1>4, <1>5 DEF PoolInv, CountInv

\* Every step keeps it: a job is checked, submitted and counted in three steps
\* of the one network thread, so the room it was given is not taken by another.
LEMMA PoolStep == IInv /\ [Next]_vars => PoolInv'
<1> SUFFICES ASSUME IInv, [Next]_vars PROVE PoolInv'
  OBVIOUS
<1>0. TypeOK /\ PoolInv /\ (Up => NetInv /\ CountInv /\ WatchInv)
  BY DEF IInv, PoolInv
<1>p. Pending \in SUBSET Messages /\ Cardinality(Pending) \in Nat
  BY Finite DEF Pending
<1> USE DEF service, jobs, Put, Hand
<1>1. ASSUME NEW m \in Messages, Receive(m) PROVE PoolInv'
  <2>1. CASE net' = net
    BY <1>0, <1>1, <2>1, QuietStep DEF Receive, Held, TypeOK, Up, Arrives
  <2>2. CASE net' # net
    <3>1. /\ Up /\ net.pc = "listen" /\ job[m] = "new" /\ job' = job
          /\ active' = active /\ active # NumProcessors
          /\ net' = [pc |-> "submit", message |-> m]
      BY <1>1, <2>2 DEF Receive, Arrives, max_threads_busy
    <3>2. Pending' = Pending /\ Counted' = Pending /\ Counted = Pending
      BY <3>1 DEF Pending, Counted, Held
    <3>3. NetInv'
      BY <1>0, <3>1 DEF NetInv, Handing, Held
    <3>4. active < NumProcessors
      BY <1>0, <3>1 DEF TypeOK
    <3> QED
      BY <1>0, <3>1, <3>2, <3>3, <3>4 DEF PoolInv, CountInv
  <2> QED
    BY <2>1, <2>2
<1>2. CASE Submit
  <2> DEFINE m == net.message
  <2>1. /\ Up /\ m \in Messages /\ job[m] = "new"
        /\ active < NumProcessors /\ active = Cardinality(Pending)
        /\ active' = active
    BY <1>0, <1>2 DEF Submit, NetInv, Handing, CountInv, Counted
  <2>2. CASE closing
    <3>1. net' = [pc |-> "stop", message |-> NoMessage]
      BY <1>2, <2>2 DEF Submit
    <3>2. \A n \in Messages : Held(n)' <=> Held(n)
      BY <1>0, <1>2, <2>1, <2>2 DEF Submit, Held, TypeOK
    <3>3. Pending' = Pending /\ Counted' = Pending
      BY <3>1, <3>2 DEF Pending, Counted
    <3> QED
      BY <1>0, <2>1, <3>1, <3>3
      DEF PoolInv, NetInv, CountInv, Handing, Messages, NoMessage
  <2>3. CASE ~closing
    <3>1. net' = [pc |-> "count", message |-> m] /\ job' = [job EXCEPT ![m] = "queued"]
      BY <1>2, <2>3 DEF Submit
    <3>2. \A n \in Messages : Held(n)' <=> Held(n) \/ n = m
      BY <1>0, <2>1, <3>1 DEF Held, TypeOK
    <3>3. m \notin Pending
      BY <2>1 DEF Pending, Held
    <3>4. Pending' = Pending \cup {m} /\ Counted' = Pending
      BY <2>1, <3>1, <3>2, <3>3 DEF Pending, Counted
    <3>5. Cardinality(Pending') = Cardinality(Pending) + 1
      BY <1>p, <2>1, <3>3, <3>4, AddOne
    <3>6. NetInv'
      BY <2>1, <3>1, <3>2 DEF NetInv, Handing
    <3>7. Cardinality(Pending') <= NumProcessors
      BY <1>p, <2>1, <3>5
    <3>8. CountInv'
      BY <2>1, <3>4 DEF CountInv
    <3> QED
      BY <3>6, <3>7, <3>8 DEF PoolInv
  <2> QED
    BY <2>2, <2>3
<1>3. CASE Count
  <2> DEFINE m == net.message
  <2>1. /\ Up /\ m \in Messages /\ Held(m) /\ job' = job
        /\ active' = active + 1 /\ active = Cardinality(Pending \ {m})
        /\ net' = [pc |-> "register", message |-> m]
    BY <1>0, <1>3 DEF Count, NetInv, Handing, CountInv, Counted
  <2>2. Pending' = Pending /\ Counted' = Pending /\ m \in Pending
    BY <2>1 DEF Pending, Counted, Held
  <2>3. Cardinality(Pending \ {m}) = Cardinality(Pending) - 1
    BY <1>p, <2>2, RemoveOne
  <2>4. NetInv'
    BY <2>1, <2>2 DEF NetInv, Handing, Held
  <2>5. CountInv'
    BY <1>p, <2>1, <2>2, <2>3 DEF CountInv
  <2> QED
    BY <1>0, <2>2, <2>4, <2>5 DEF PoolInv
<1>4. CASE Register
  <2> DEFINE m == net.message
  <2>1. /\ Up /\ net.pc = "register" /\ m \in Messages
        /\ net' = [pc |-> "listen", message |-> NoMessage]
    BY <1>0, <1>4 DEF Register, NetInv, Handing
  <2>2. Counted = Pending /\ Counted' = Pending'
    BY <2>1 DEF Counted
  <2>3. NetInv'
    BY <2>1 DEF NetInv, Handing, Messages, NoMessage
  <2>4. CASE job[m] = "answered"
    <3>1. active' = active - 1 /\ Put(m, "gone")
      BY <1>4, <2>4 DEF Register
    <3>2. /\ Pending' = Pending \ {m} /\ Cardinality(Pending') <= NumProcessors
          /\ active' = Cardinality(Counted \ {m})
      BY <1>0, <2>1, <2>4, <3>1, LeaveStep DEF Put
    <3>3. CountInv'
      BY <2>1, <2>2, <3>2 DEF CountInv
    <3> QED
      BY <2>3, <3>2, <3>3 DEF PoolInv
  <2>5. CASE job[m] # "answered"
    <3>1. active' = active /\ job' = job
      BY <1>4, <2>5 DEF Register
    <3>2. Pending' = Pending
      BY <3>1 DEF Pending, Held
    <3> QED
      BY <1>0, <2>1, <2>2, <2>3, <3>1, <3>2 DEF PoolInv, CountInv
  <2> QED
    BY <2>4, <2>5
<1>5. CASE NetworkFails \/ StopItself \/ Die
  <2>1. /\ Up /\ net.pc \in {"listen", "stop", "drain"} /\ active' = active
        /\ net'.pc \in {"stop", "drain", "dead"} /\ net'.message = NoMessage
    BY <1>5 DEF NetworkFails, StopItself, Die
  <2>2. \A n \in Messages : Held(n)' <=> Held(n)
    BY <1>0, <1>5 DEF NetworkFails, StopItself, Die, Arrives, Held, TypeOK
  <2>3. Pending' = Pending /\ Counted' = Pending /\ Counted = Pending
    BY <2>1, <2>2 DEF Pending, Counted
  <2>4. net'.pc = "dead" => Pending = {}
    BY <1>5, <2>1 DEF NetworkFails, StopItself, Die, Pending, Held, Unfinished,
                      Occupied, Queued, Registered
  <2>5. NetInv'
    BY <2>1, <2>3, <2>4 DEF NetInv, Handing, Messages, NoMessage
  <2> QED
    BY <1>0, <2>1, <2>3, <2>5 DEF PoolInv, CountInv
<1>6. ASSUME NEW m \in Messages,
             Dispatch(m) \/ Handle(m) \/ ReadState(m) \/ SetState(m) \/ Answer(m) \/ Work(m)
      PROVE  PoolInv'
  <2>1. Up /\ UNCHANGED <<active, net, main>>
    BY <1>6 DEF Dispatch, Handle, ReadState, SetState, Answer, Work
  <2>2. \A n \in Messages : Held(n)' <=> Held(n)
    BY <1>0, <1>6 DEF Dispatch, Handle, ReadState, SetState, Answer, Work, Held, TypeOK
  <2>3. \A n \in Messages : job[n] = "new" => job'[n] = "new"
    BY <1>0, <1>6 DEF Dispatch, Handle, ReadState, SetState, Answer, Work, TypeOK
  <2>4. net.pc = "submit" => UNCHANGED job[net.message]
    BY <1>0, <2>1, <2>3 DEF NetInv, Handing
  <2> QED
    BY <1>0, <2>1, <2>2, <2>4, QuietStep DEF Up
<1>7. ASSUME NEW m \in Messages, Done(m) PROVE PoolInv'
  <2>1. /\ Up /\ job[m] = "answered" /\ UNCHANGED net
        /\ net.pc \in {"count", "register"} => net.message # m
        /\ active' = active - 1 /\ Put(m, "gone")
    BY <1>7 DEF Done, Registered
  <2>2. /\ Pending' = Pending \ {m} /\ Cardinality(Pending') <= NumProcessors
        /\ active' = Cardinality(Counted \ {m})
    BY <1>0, <2>1, LeaveStep DEF Put
  <2>3. Counted' = Counted \ {m}
    BY <2>1, <2>2 DEF Counted
  <2>4. active' < active
    BY <1>0, <2>1 DEF TypeOK
  <2>5. \A n \in Messages : n # m => job'[n] = job[n]
    BY <1>0, <2>1 DEF TypeOK
  <2>6. NetInv'
    BY <1>0, <2>1, <2>2, <2>5 DEF NetInv, Handing, Held
  <2>7. CountInv'
    BY <1>0, <2>1, <2>2, <2>3, <2>4 DEF CountInv, TypeOK
  <2> QED
    BY <2>2, <2>6, <2>7 DEF PoolInv
<1>8. CASE WatchState \/ WatchThread \/ Break \/ Interrupt \/ Close
  BY <1>0, <1>8, QuietStep DEF WatchState, WatchThread, Break, Interrupt, Close, Up, Held
<1>9. CASE Restart
  <2>1. /\ Up /\ Pending = {} /\ job' = job /\ active' = 0
        /\ net' = [pc |-> "listen", message |-> NoMessage]
    BY <1>0, <1>9 DEF Restart, WatchInv, NetInv
  <2>2. Pending' = {} /\ Counted' = {}
    BY <2>1 DEF Pending, Held, Counted
  <2>3. Cardinality({}) = 0
    BY FS_EmptySet
  <2>4. NetInv'
    BY <2>1 DEF NetInv, Handing, Messages, NoMessage
  <2> QED
    BY <2>1, <2>2, <2>3, <2>4 DEF PoolInv, CountInv
<1>10. CASE Exit
  <2>1. ~Up' /\ Pending' = Pending
    BY <1>10 DEF Exit, Up, Pending, Held
  <2> QED
    BY <1>0, <2>1 DEF PoolInv
<1>11. CASE UNCHANGED vars
  BY <1>0, <1>11, QuietStep DEF vars, Up, Held
<1> QED
  BY <1>1, <1>2, <1>3, <1>4, <1>5, <1>6, <1>7, <1>8, <1>9, <1>10, <1>11
  DEF Next, Network, Pool, Watchdog, Main

\* The watchdog restarts only what is dead; an exit waits for the pool.
LEMMA OtherStep == IInv /\ [Next]_vars => (Up' => WatchInv') /\ AnsweredBeforeExit'
<1> SUFFICES ASSUME IInv, [Next]_vars PROVE (Up' => WatchInv') /\ AnsweredBeforeExit'
  OBVIOUS
<1>0. /\ Up => WatchInv
      /\ AnsweredBeforeExit
  BY DEF IInv
<1> USE DEF service, jobs, Hand, Watch, Up, WatchInv, AnsweredBeforeExit
<1>1. ASSUME NEW m \in Messages, Receive(m) PROVE (Up' => WatchInv') /\ AnsweredBeforeExit'
  BY <1>0, <1>1 DEF Receive
<1>2. CASE Submit \/ Count \/ Register \/ NetworkFails \/ StopItself \/ Die
  BY <1>0, <1>2 DEF Submit, Count, Register, NetworkFails, StopItself, Die
<1>3. ASSUME NEW m \in Messages, Pool(m) \/ Work(m)
      PROVE (Up' => WatchInv') /\ AnsweredBeforeExit'
  BY <1>0, <1>3 DEF Pool, Work, Dispatch, Handle, ReadState, SetState, Answer, Done
<1>4. CASE WatchState \/ WatchThread \/ Restart
  BY <1>0, <1>4 DEF WatchState, WatchThread, Restart, Alive
<1>5. CASE Break \/ Interrupt \/ Close
  BY <1>0, <1>5 DEF Break, Interrupt, Close
<1>6. CASE Exit
  <2>1. stopping = consumer => Unanswered = {}
    BY <1>6 DEF Exit, Unfinished, Occupied, Queued, Unanswered
  <2>2. main' = "exited" /\ Unanswered' = Unanswered /\ UNCHANGED <<stopping, consumer>>
    BY <1>6 DEF Exit, Unanswered
  <2> QED
    BY <2>1, <2>2 DEF Overtaken
<1>7. CASE UNCHANGED vars
  BY <1>0, <1>7 DEF vars, Unanswered, Overtaken
<1> QED
  BY <1>1, <1>2, <1>3, <1>4, <1>5, <1>6, <1>7 DEF Next, Network, Watchdog, Main

\* The invariant holds in every state the server reaches.
LEMMA Inductive == Spec => []IInv
<1>1. IInv /\ [Next]_vars => IInv'
  BY TypeStep, PoolStep, OtherStep DEF IInv, PoolInv
<1> QED
  BY InitIInv, <1>1, PTL DEF Spec

\* Every variable keeps its type; the active count stays within the pool.
THEOREM TypeCorrect == Spec => []TypeOK
<1>1. IInv => TypeOK
  BY DEF IInv
<1> QED
  BY <1>1, Inductive, PTL

\* No job of the pool ever waits for the end of another.
THEOREM NeverQueuedHolds == Spec => []NeverQueued
<1>1. IInv => NeverQueued
  <2> SUFFICES ASSUME IInv PROVE NeverQueued
    OBVIOUS
  <2>1. Unfinished \subseteq Pending
    BY DEF Unfinished, Occupied, Queued, Pending, Held
  <2>2. IsFiniteSet(Pending) /\ Cardinality(Pending) \in Nat
    BY Finite DEF Pending
  <2>3. Cardinality(Unfinished) \in Nat
    BY Finite DEF Unfinished, Occupied, Queued
  <2> QED
    BY <2>1, <2>2, <2>3, FS_Subset DEF IInv, NeverQueued
<1> QED
  BY <1>1, Inductive, PTL

\* A consumer is replaced only when its pool has no job left.
THEOREM OnePoolHolds == Spec => OnePool
<1>1. IInv /\ [Next]_vars => [consumer' # consumer => Unfinished = {}]_vars
  <2> SUFFICES ASSUME IInv, [Next]_vars, consumer' # consumer PROVE Unfinished = {}
    OBVIOUS
  <2>1. Restart
    BY DEF Next, Network, Pool, Watchdog, Main, vars, service, jobs, Receive, Submit,
           Count, Register, NetworkFails, StopItself, Die, Dispatch, Handle, ReadState,
           SetState, Answer, Done, Work, WatchState, WatchThread, Break, Interrupt,
           Close, Exit
  <2>2. Pending = {}
    BY <2>1 DEF IInv, Restart, WatchInv, NetInv
  <2> QED
    BY <2>2 DEF Unfinished, Occupied, Queued, Pending, Held
<1> QED
  BY <1>1, Inductive, PTL DEF Spec, OnePool

\* The exit of the server leaves no accepted message unanswered.
THEOREM AnsweredBeforeExitHolds == Spec => []AnsweredBeforeExit
<1>1. IInv => AnsweredBeforeExit
  BY DEF IInv
<1> QED
  BY <1>1, Inductive, PTL
=============================================================================
