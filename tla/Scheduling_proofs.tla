------------------------- MODULE Scheduling_proofs --------------------------
(***************************************************************************)
(* Proofs about who runs: the coroutine scheduler, for every capacity, and *)
(* the worker threads of lio_loop_run_threaded, for every number of them.  *)
(* Control of a scheduler only goes to a context that can be resumed and   *)
(* its bookkeeping is exact, as long as only coroutines yield; a worker    *)
(* that was joined is gone.                                                *)
(***************************************************************************)
EXTENDS Coroutine, LioThreaded, Walks

-----------------------------------------------------------------------------
(* The scheduler of src/coroutine.c.                                       *)

\* Min of a set of numbers is one of them.
LEMMA MinIn ==
    ASSUME NEW T \in SUBSET Nat, T # {}
    PROVE  Min(T) \in T
<1>1. PICK m \in T : \A n \in T : m <= n
  BY NatMin
<1> QED
  BY Zenon, <1>1 DEF Min

\* A remainder is below what was divided by.
LEMMA ModIn ==
    ASSUME NEW n \in Nat, NEW a \in Nat \ {0}
    PROVE  n % a \in 0..(a - 1)
  BY SMT

\* find_next_ready gives nobody or a coroutine that was created and has not
\* finished, from wherever in the circle its search starts.
LEMMA AfterIsReady ==
    ASSUME count \in Nat, NEW from \in Created, NEW st
    PROVE  After(from, st) = Main \/ (After(from, st) \in Created /\ st[After(from, st)] # "FINISHED")
<1> DEFINE steps == {k \in 1..count : st[(from + k) % count] # "FINISHED"}
<1>1. steps \in SUBSET Nat /\ steps \subseteq 1..count
  OBVIOUS
<1>2. CASE steps = {}
  BY <1>2 DEF After
<1>3. CASE steps # {}
  <2>1. Min(steps) \in steps
    <3> HIDE DEF steps
    <3> QED BY <1>1, <1>3, MinIn
  <2>2. After(from, st) = (from + Min(steps)) % count
    BY <1>3 DEF After
  <2>3. st[(from + Min(steps)) % count] # "FINISHED" /\ Min(steps) \in Nat
    BY <2>1
  <2>4. from + Min(steps) \in Nat /\ count \in Nat \ {0}
    BY <2>3 DEF Created
  <2> HIDE DEF steps
  <2>5. (from + Min(steps)) % count \in 0..(count - 1)
    BY <2>4, ModIn
  <2> QED
    BY <2>2, <2>3, <2>5 DEF Created
<1> QED
  BY <1>2, <1>3

\* switch_to_next keeps the invariant, for a coroutine that yields and for one
\* that has finished: its next is nobody, itself or another that is suspended.
LEMMA SwitchKeeps ==
    ASSUME IInv, NEW as \in {"saved", "dead"}, NEW st,
           running \in Indices,
           \/ st = state /\ as = "saved"
           \/ st = [state EXCEPT ![running] = "FINISHED"],
           SwitchToNext(st, as),
           UNCHANGED <<capacity, count, stack, tls>>,
           active_count' \in 0..(CountMod - 1)
    PROVE  IInv'
<1> DEFINE ready == IF st[current] = "RUNNING" THEN [st EXCEPT ![current] = "READY"] ELSE st
           next == After(current, ready)
<1>1. /\ running = current /\ current \in Created /\ count \in Nat /\ Created \subseteq Indices
      /\ context[Main] = "saved" /\ state[current] = "RUNNING"
  BY CoroutineAssumption DEF IInv, BookkeepingExact, TypeOK, Created, Indices, CoroutineAssumption
<1>2. /\ ready \in [Indices -> {"READY", "RUNNING", "FINISHED"}]
      /\ (ready[current] = "READY" /\ as = "saved") \/ ready[current] = "FINISHED"
      /\ \A k \in Indices : k # current => ready[k] = state[k]
  BY Zenon, <1>1 DEF IInv, BookkeepingExact, TypeOK
<1>3. next = Main \/ (next \in Created /\ ready[next] # "FINISHED")
  <2> HIDE DEF ready
  <2> QED BY <1>1, AfterIsReady
<1>4. /\ Switch(current, as, next)
      /\ next = Main => state' = ready /\ current' = current
      /\ next # Main => state' = [ready EXCEPT ![next] = "RUNNING"] /\ current' = next
  BY Zenon DEF SwitchToNext
<1>5. Main \notin Indices /\ Wild # Main /\ Wild \notin Indices
  BY CoroutineAssumption DEF CoroutineAssumption
<1>6. /\ context \in [Indices \union {Main} -> {"entry", "saved", "spent", "dead"}]
      /\ capacity \in {0, Capacity} /\ count \in 0..capacity /\ current \in Indices
      /\ stack \in [Indices -> BOOLEAN] /\ tls \in BOOLEAN
      /\ \A k \in Created : state[k] = "RUNNING" => k = current
      /\ \A k \in Indices : stack[k] <=> k \in Created
      /\ \A k \in Unfinished : running # k => context[k] \in {"entry", "saved"}
      /\ Created' = Created
  BY <1>1 DEF IInv, BookkeepingExact, TypeOK, Created
<1> HIDE DEF next, ready
<1>7. CASE next = Main
  <2>1. /\ context' = [context EXCEPT ![current] = as, ![Main] = "spent"]
        /\ running' = Main
    BY <1>1, <1>4, <1>5, <1>7 DEF Switch
  <2>2. TypeOK'
    BY Zenon, <1>1, <1>2, <1>4, <1>6, <1>7, <2>1 DEF TypeOK, Indices
  <2>3. \A k \in Created' : (state[k] = "RUNNING" <=> running = k)'
    BY Zenon, <1>1, <1>2, <1>4, <1>5, <1>6, <1>7, <2>1
  <2>4. ASSUME NEW k \in Unfinished' PROVE context'[k] \in {"entry", "saved"}
    <3>1. k \in Created /\ ready[k] # "FINISHED"
      BY <1>4, <1>6, <1>7, <2>4 DEF Unfinished
    <3>2. CASE k = current
      BY <1>1, <1>2, <1>5, <1>6, <2>1, <3>1, <3>2
    <3>3. CASE k # current
      <4>1. k \in Unfinished
        BY <1>1, <1>2, <3>1, <3>3 DEF Unfinished
      <4>2. k # Main /\ k \in Indices
        BY <1>1, <1>5, <3>1
      <4> QED
        BY <1>1, <1>6, <2>1, <3>3, <4>1, <4>2
    <3> QED
      BY <3>2, <3>3
  <2> QED
    BY Zenon, <1>5, <1>6, <2>1, <2>2, <2>3, <2>4 DEF IInv, BookkeepingExact, ControlIsValid
<1>8. CASE next \in Created /\ next = current
  <2>1. /\ context' = [context EXCEPT ![current] = as, ![current] = "spent"]
        /\ running' = current /\ current' = current
        /\ state' = [ready EXCEPT ![current] = "RUNNING"]
    BY <1>1, <1>4, <1>5, <1>8 DEF Switch
  <2>2. TypeOK'
    BY Zenon, <1>1, <1>2, <1>6, <2>1 DEF TypeOK, Indices
  <2>3. \A k \in Created' : (state[k] = "RUNNING" <=> running = k)'
    BY <1>1, <1>2, <1>6, <2>1
  <2>4. ASSUME NEW k \in Unfinished', k # current PROVE context'[k] \in {"entry", "saved"}
    <3>1. k \in Unfinished /\ k \in Indices
      BY <1>1, <1>2, <1>6, <2>1, <2>4 DEF Unfinished
    <3> QED
      BY <1>1, <1>6, <2>1, <2>4, <3>1
  <2>5. context'[Main] = "saved"
    BY <1>1, <1>5, <1>6, <2>1
  <2> QED
    BY <1>1, <1>5, <1>6, <2>1, <2>2, <2>3, <2>4, <2>5 DEF IInv, BookkeepingExact, ControlIsValid
<1>9. CASE next \in Created /\ next # current
  <2>1. next \in Unfinished /\ next \in Indices /\ next # Main
    BY <1>1, <1>2, <1>3, <1>5, <1>9 DEF Unfinished
  <2>2. context[next] \in {"entry", "saved"}
    BY <1>1, <1>6, <1>9, <2>1
  <2>3. /\ context' = [context EXCEPT ![current] = as, ![next] = "spent"]
        /\ running' = next /\ current' = next
        /\ state' = [ready EXCEPT ![next] = "RUNNING"]
    BY <1>1, <1>4, <1>5, <1>9, <2>1, <2>2 DEF Switch
  <2>4. TypeOK'
    BY Zenon, <1>1, <1>2, <1>6, <2>1, <2>3 DEF TypeOK, Indices
  <2>5. \A k \in Created' : (state[k] = "RUNNING" <=> running = k)'
    BY Zenon, <1>1, <1>2, <1>6, <2>1, <2>3
  <2>6. ASSUME NEW k \in Unfinished', k # next PROVE context'[k] \in {"entry", "saved"}
    <3>1. k \in Created /\ k \in Indices /\ ready[k] # "FINISHED"
      BY <1>1, <1>2, <1>6, <2>1, <2>3, <2>6 DEF Unfinished
    <3>2. CASE k = current
      BY <1>1, <1>2, <1>6, <1>9, <2>3, <3>1, <3>2
    <3>3. CASE k # current
      <4>1. k \in Unfinished
        BY <1>2, <3>1, <3>3 DEF Unfinished
      <4> QED
        BY <1>1, <1>6, <2>3, <2>6, <3>1, <3>3, <4>1
    <3> QED
      BY <3>2, <3>3
  <2>7. context'[Main] = "saved"
    BY <1>1, <1>5, <1>6, <2>1, <2>3
  <2> QED
    BY <1>5, <1>6, <1>9, <2>1, <2>3, <2>4, <2>5, <2>6, <2>7 DEF IInv, BookkeepingExact,
       ControlIsValid
<1> QED
  BY <1>3, <1>7, <1>8, <1>9

\* A scheduler that was just created, or none, satisfies the invariant.
LEMMA SchedulerInitially == Init => IInv
<1> SUFFICES ASSUME Init PROVE IInv
  OBVIOUS
<1>1. Created = {} /\ Unfinished = {} /\ Main \notin Indices /\ Wild # Main
  BY CoroutineAssumption DEF Init, Created, Unfinished, CoroutineAssumption
<1>2. stack \in [Indices -> BOOLEAN] /\ tls \in BOOLEAN
  BY DEF Init
<1>3. /\ count \in 0..capacity /\ active_count \in 0..(CountMod - 1) /\ current \in Indices
  BY CoroutineAssumption DEF Init, CoroutineAssumption, Indices
<1>4. TypeOK
  BY <1>2, <1>3 DEF Init, TypeOK
<1> QED
  BY <1>1, <1>4 DEF Init, IInv, BookkeepingExact, ControlIsValid

\* Every operation on a scheduler keeps the invariant; lc_coroutine_yield is
\* called by coroutines only.
LEMMA SchedulerKeeps == ~ MainYields /\ IInv /\ [Next]_vars => IInv'
<1> SUFFICES ASSUME ~ MainYields, IInv, [Next]_vars PROVE IInv'
  OBVIOUS
<1>0. /\ Main \notin Indices /\ Wild # Main /\ Wild \notin Indices
      /\ Capacity \in Nat \ {0} /\ CountMod \in Nat /\ CountMod > Capacity
  BY CoroutineAssumption DEF CoroutineAssumption
<1>T. TypeOK /\ running # Wild
  BY DEF IInv, BookkeepingExact, ControlIsValid
<1>C. Created \subseteq Indices /\ count \in Nat /\ count <= Capacity /\ capacity \in Nat
  BY <1>0, <1>T DEF TypeOK, Created, Indices
<1>1. CASE Create
  <2>1. count \in Indices /\ count \notin Created /\ Created' = Created \union {count}
    BY <1>0, <1>1, <1>C, <1>T DEF Create, Created, Indices, TypeOK
  <2>2. TypeOK'
    BY <1>0, <1>1, <1>C, <1>T, <2>1 DEF Create, TypeOK
  <2>3. /\ running' = running /\ running # count /\ current' = current
        /\ state' = [state EXCEPT ![count] = "READY"]
        /\ context' = [context EXCEPT ![count] = "entry"]
        /\ stack' = [stack EXCEPT ![count] = TRUE]
    BY <1>1, <1>0, <2>1 DEF Create, IInv
  <2>4. \A k \in Created' : (state[k] = "RUNNING" <=> running = k)'
    BY <1>C, <1>T, <2>1, <2>3 DEF IInv, BookkeepingExact, TypeOK
  <2>5. \A k \in Indices : (stack[k] <=> k \in Created)'
    BY <1>T, <2>1, <2>3 DEF IInv, BookkeepingExact, TypeOK
  <2>6. ASSUME NEW k \in Unfinished', running' # k PROVE context'[k] \in {"entry", "saved"}
    <3>1. k \in Indices /\ (k = count \/ (k # count /\ k \in Unfinished))
      BY <1>C, <1>T, <2>1, <2>3, <2>6 DEF Unfinished, TypeOK
    <3> QED
      BY <1>T, <2>3, <2>6, <3>1 DEF IInv, TypeOK
  <2>7. running' \in Indices => running' \in Created' /\ context'[Main] = "saved" /\ running' = current'
    BY <1>0, <1>T, <2>1, <2>3 DEF IInv, BookkeepingExact, TypeOK
  <2> QED
    BY <1>T, <2>2, <2>3, <2>4, <2>5, <2>6, <2>7 DEF IInv, BookkeepingExact, ControlIsValid
<1>2. CASE Run
  <2>1. CASE Unfinished = {}
    <3>1. UNCHANGED <<capacity, count, active_count, current, state, stack, context, running>> /\ tls' = TRUE
      BY <1>2, <2>1 DEF Run
    <3> QED
      BY <3>1 DEF IInv, BookkeepingExact, ControlIsValid, TypeOK, Created, Unfinished
  <2>2. CASE Unfinished # {}
    <3> DEFINE m == Min(Unfinished)
    <3>1. Unfinished \in SUBSET Nat /\ Unfinished \subseteq Created
      BY <1>C DEF Unfinished, Created
    <3>2. m \in Unfinished /\ m \in Indices /\ m # Main /\ m \in Created
      BY Zenon, <2>2, <3>1, MinIn, <1>C, <1>0
    <3>3. running = Main /\ context[m] \in {"entry", "saved"}
      BY <1>0, <1>2, <3>2 DEF Run, IInv
    <3>4. /\ context' = [context EXCEPT ![Main] = "saved", ![m] = "spent"]
          /\ running' = m /\ current' = m /\ state' = [state EXCEPT ![m] = "RUNNING"]
          /\ capacity' = capacity /\ count' = count /\ stack' = stack /\ Created' = Created
          /\ active_count' = Cardinality(Unfinished)
      BY <1>2, <2>2, <3>2, <3>3 DEF Run, Switch, Created
    <3>5. tls' \in BOOLEAN
      BY <1>2 DEF Run
    <3> HIDE DEF m
    <3>6. Cardinality(Unfinished) \in 0..(CountMod - 1)
      <4>1. /\ IsFiniteSet(Indices) /\ Cardinality(Indices) = Capacity
        <5>1. 0 \in Int /\ Capacity - 1 \in Int
          BY <1>0
        <5> QED
          BY <5>1, <1>0, FS_Interval DEF Indices
      <4>2. Cardinality(Unfinished) \in Nat /\ Cardinality(Unfinished) <= Capacity
        BY <1>C, <3>1, <4>1, FS_Subset, FS_CardinalityType
      <4> QED
        BY <1>0, <4>2
    <3>7. TypeOK'
      BY <1>T, <3>2, <3>4, <3>5, <3>6 DEF TypeOK
    <3>8. \A k \in Created' : (state[k] = "RUNNING" <=> running = k)'
      BY <1>0, <1>C, <1>T, <3>2, <3>3, <3>4 DEF IInv, BookkeepingExact, TypeOK
    <3>9. ASSUME NEW k \in Unfinished', k # m PROVE context'[k] \in {"entry", "saved"}
      <4>1. k \in Unfinished /\ k \in Indices /\ k # Main
        BY <1>0, <1>C, <1>T, <3>4, <3>9 DEF Unfinished, TypeOK
      <4> QED
        BY <1>T, <3>3, <3>4, <3>9, <4>1 DEF IInv, TypeOK
    <3>10. context'[Main] = "saved"
      BY <1>T, <3>2, <3>4 DEF TypeOK
    <3>11. \A k \in Indices : (stack[k] <=> k \in Created)'
      BY <3>4 DEF IInv, BookkeepingExact
    <3> QED
      BY Zenon, <1>0, <3>2, <3>4, <3>7, <3>8, <3>9, <3>10, <3>11 DEF IInv, BookkeepingExact,
         ControlIsValid
  <2> QED
    BY <2>1, <2>2
<1>3. CASE MainYield
  <2>1. UNCHANGED vars
    BY <1>3 DEF MainYield, vars
  <2> QED
    BY <2>1 DEF vars, IInv, BookkeepingExact, ControlIsValid, TypeOK, Created, Unfinished
<1>4. CASE Destroy
  <2>1. running' = Main /\ Created' = {} /\ Unfinished' = {}
    BY <1>4 DEF Destroy, Created, Unfinished
  <2>2. \A k \in Indices : ~ stack'[k]
    BY <1>4 DEF Destroy, IInv, BookkeepingExact
  <2>3. stack' \in [Indices -> BOOLEAN]
    BY Zenon, <1>4, <1>T DEF Destroy, TypeOK
  <2>4. count' \in 0..capacity' /\ active_count' \in 0..(CountMod - 1) /\ capacity' = 0
    BY <1>0, <1>4 DEF Destroy
  <2>5. TypeOK'
    BY Zenon, <1>4, <1>T, <2>3, <2>4 DEF Destroy, TypeOK
  <2> QED
    BY <1>0, <2>1, <2>2, <2>5 DEF IInv, BookkeepingExact, ControlIsValid
<1>5. CASE CreateScheduler
  <2>1. /\ running' = Main /\ Created' = {} /\ Unfinished' = {} /\ Created = {} /\ stack' = stack
    BY <1>5, <1>T DEF CreateScheduler, Created, Unfinished, TypeOK
  <2>2. TypeOK'
    BY <1>0, <1>5, <1>T, <2>1 DEF CreateScheduler, TypeOK, Indices
  <2> QED
    BY <1>0, <2>1, <2>2 DEF IInv, BookkeepingExact, ControlIsValid
<1>6. ASSUME NEW j \in Indices, Yield(j) PROVE IInv'
  <2>1. /\ running \in Indices /\ SwitchToNext(state, "saved")
        /\ UNCHANGED <<capacity, count, stack, tls>> /\ active_count' = active_count
    BY <1>6 DEF Yield
  <2> QED
    BY <1>T, <2>1, SwitchKeeps DEF TypeOK
<1>7. ASSUME NEW j \in Indices, Finish(j) PROVE IInv'
  <2>1. /\ running \in Indices /\ SwitchToNext([state EXCEPT ![running] = "FINISHED"], "dead")
        /\ UNCHANGED <<capacity, count, stack, tls>>
        /\ active_count' = (active_count + CountMod - 1) % CountMod
    BY <1>7 DEF Finish
  <2>2. active_count + CountMod - 1 \in Nat /\ CountMod \in Nat \ {0}
    BY <1>0, <1>T DEF TypeOK
  <2>3. active_count' \in 0..(CountMod - 1)
    BY <2>1, <2>2, ModIn
  <2> QED
    BY <2>1, <2>3, SwitchKeeps
<1>8. CASE UNCHANGED vars
  BY <1>8 DEF vars, IInv, BookkeepingExact, ControlIsValid, TypeOK, Created, Unfinished
<1> QED
  BY <1>1, <1>2, <1>3, <1>4, <1>5, <1>6, <1>7, <1>8 DEF Next

\* Control only goes to a context that is saved or fresh, exactly the coroutine
\* that executes is RUNNING, and exactly the created ones have a stack.
THEOREM SchedulerIsExact == ~ MainYields => (Spec => [](ControlIsValid /\ BookkeepingExact))
<1> SUFFICES ASSUME ~ MainYields PROVE Spec => [](ControlIsValid /\ BookkeepingExact)
  OBVIOUS
<1>1. IInv /\ [Next]_vars => IInv'
  BY SchedulerKeeps
<1>2. IInv => ControlIsValid /\ BookkeepingExact
  BY DEF IInv
<1> QED
  BY <1>1, <1>2, SchedulerInitially, PTL DEF Spec

-----------------------------------------------------------------------------
(* The threads of lio_loop_run_threaded.                                   *)

\* lio_loop_run_threaded starts with no worker and no connection.
LEMMA ThreadedInitially == ThreadedInit => ThreadedInv
<1> SUFFICES ASSUME ThreadedInit PROVE ThreadedInv
  OBVIOUS
<1>1. ti \in 0..ThreadCount /\ created_count \in 0..ThreadCount
  BY ThreadedAssumption DEF ThreadedInit
<1>2. tclients \in 0..MaxClients /\ backlog \in 0..(MaxClients + ThreadCount)
  BY ThreadedAssumption DEF ThreadedInit
<1>3. ThreadedTypeOK
  BY ZenonT(30), <1>1, <1>2 DEF ThreadedInit, ThreadedTypeOK
<1>4. Alive = {}
  BY DEF ThreadedInit, Alive
<1> QED
  BY <1>3, <1>4, ThreadedAssumption DEF ThreadedInit, ThreadedInv

\* Less of a summand is less of the sum.
LEMMA SumsInOrder == \A a, b, c, d \in Nat : a <= b /\ b + c <= d => a + c <= d
  OBVIOUS

\* Every step of the main thread, a worker, the kernel and a client keeps the
\* invariant: while the workers are joined, those before index i are gone.
LEMMA ThreadedKeeps == ThreadedInv /\ [ThreadedNext]_threaded => ThreadedInv'
<1> SUFFICES ASSUME ThreadedInv, [ThreadedNext]_threaded PROVE ThreadedInv'
  OBVIOUS
<1> USE ThreadedAssumption DEF ThreadedInv, ThreadedTypeOK, Workers
<1>1. CASE Spawn
  <2>1. wpc' \in [Workers -> {"none", "start", "check", "flush", "sleep", "process",
                                "destroy", "exited"}]
    BY <1>1 DEF Spawn
  <2>2. trunning' \in BOOLEAN /\ stop_flag' \in BOOLEAN
    BY Zenon, <1>1 DEF Spawn
  <2>3. CASE ti < ThreadCount
    BY <1>1, <2>1, <2>2, <2>3 DEF Spawn, socket
  <2>4. CASE ti >= ThreadCount
    BY <1>1, <2>1, <2>2, <2>4 DEF Spawn, socket
  <2> QED
    BY <2>3, <2>4
<1>2. CASE Stop
  BY Zenon, <1>2 DEF Stop, Alive, caller, worker, socket
<1>3. CASE SetStopFlag
  BY <1>3 DEF SetStopFlag, Alive, worker, socket
<1>4. CASE Connect
  BY <1>4 DEF Connect, Alive, worker
<1>5. CASE Join
  BY <1>5 DEF Join, Alive, worker, socket
<1>6. CASE Client
  BY <1>6 DEF Client, Alive, caller, worker
<1>7. ASSUME NEW w \in Workers,
             Start(w) \/ Check(w) \/ WorkerFlush(w) \/ Wake(w) \/ Process(w)
                \/ DestroyLoop(w) \/ AcceptConnection(w) \/ CompleteIo(w)
      PROVE  ThreadedInv'
  <2>1. /\ tpc' = tpc /\ ti' = ti /\ created_count' = created_count /\ tclients' = tclients
    BY <1>7 DEF Start, Check, WorkerFlush, Wake, Process, DestroyLoop, AcceptConnection,
       CompleteIo,
                caller, socket
  <2>9. trunning' = trunning /\ stop_flag' = stop_flag
    BY <1>7 DEF Start, Check, WorkerFlush, Wake, Process, DestroyLoop, AcceptConnection,
       CompleteIo
  <2>2. backlog' \in Nat /\ backlog' <= backlog
    BY <1>7 DEF Start, Check, WorkerFlush, Wake, Process, DestroyLoop, AcceptConnection,
       CompleteIo,
                caller, socket
  <2>3. /\ wpc' \in [Workers -> {"none", "start", "check", "flush", "sleep", "process",
                                   "destroy", "exited"}]
        /\ Alive' \subseteq Alive
    BY <1>7 DEF Start, Check, WorkerFlush, Wake, Process, DestroyLoop, AcceptConnection,
       CompleteIo,
                Alive
  <2>4. accept' \in [Workers -> {"none", "staged", "armed", "done"}]
    BY <1>7 DEF Start, Check, WorkerFlush, Wake, Process, DestroyLoop, AcceptConnection,
       CompleteIo
  <2>5. io' \in [Workers -> {"none", "staged", "armed", "done"}]
    BY Zenon, <1>7 DEF Start, Check, WorkerFlush, Wake, Process, DestroyLoop, AcceptConnection,
       CompleteIo
  <2>6. backlog' \in 0..(MaxClients + ThreadCount)
    BY <2>2
  <2>7. ThreadedTypeOK'
    <3> HIDE DEF ThreadedInv
    <3> QED BY <2>1, <2>9, <2>3, <2>4, <2>5, <2>6 DEF ThreadedInv
  <2>8. tpc' \in {"join", "returned"} => \A v \in Alive' : v >= ti'
    BY <2>1, <2>3
  <2> QED
    <3>1. backlog' + tclients' = backlog' + tclients
      BY <2>1
    <3>2. /\ MaxClients \in Nat /\ ThreadCount \in Nat /\ tclients \in Nat /\ backlog \in Nat
          /\ ti \in Nat
      BY DEF ThreadedTypeOK
    <3>3. MaxClients + ThreadCount \in Nat /\ MaxClients + ti \in Nat
      BY <3>2
    <3>4. \A d \in Nat : backlog + tclients <= d => backlog' + tclients <= d
      <4> HIDE ThreadedAssumption DEF ThreadedInv, ThreadedTypeOK
      <4> QED BY <2>2, <3>2, SumsInOrder, Zenon
    <3> HIDE ThreadedAssumption DEF ThreadedTypeOK
    <3> QED BY <2>1, <2>7, <2>8, <3>1, <3>2, <3>3, <3>4
<1>8. CASE UNCHANGED threaded
  BY <1>8 DEF threaded, Alive
<1> QED
  BY <1>1, <1>2, <1>3, <1>4, <1>5, <1>6, <1>7, <1>8 DEF ThreadedNext

\* When lio_loop_run_threaded returns no worker it joined still runs.
THEOREM JoinedWorkersAreGone == ThreadedSpec => []JoinedAreGone
<1>1. ThreadedInv => JoinedAreGone
  BY DEF ThreadedInv, JoinedAreGone
<1> QED
  BY <1>1, ThreadedInitially, ThreadedKeeps, PTL DEF ThreadedSpec

=============================================================================
