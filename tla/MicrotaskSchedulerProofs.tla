----------------------- MODULE MicrotaskSchedulerProofs -----------------------
(***************************************************************************)
(* Proofs about MicrotaskScheduler.tla for any set of functions, any       *)
(* budget and any queue length.  The four invariants are inductive only    *)
(* together: no work is stranded because a used-up budget has a timeout    *)
(* set (WithinBudget), and the budget holds because nothing resets the     *)
(* count while a function runs, which RunningIsHead gives.  They hold of   *)
(* the scheduler as the duplex uses it too (NextMicrotask.tla), where they *)
(* carry the invariant of the handle idiom.  For both the steps of the     *)
(* abstract view are proved: TaskQueue.tla and NextFlag.tla.               *)
(***************************************************************************)
EXTENDS NextMicrotask, TLAPS

IInv == TypeOK /\ RunningIsHead /\ WithinBudget /\ NoStrandedWork

USE SchedulerAssumption

LEMMA HeadOfConcatenation ==
  ASSUME NEW S, NEW l \in Seq(S), NEW r \in Seq(S), l # <<>>
  PROVE  l \o r # <<>> /\ Head(l \o r) = Head(l)
<1>1. Len(l) > 0
  OBVIOUS
<1>2. Len(l \o r) = Len(l) + Len(r) /\ l \o r \in Seq(S)
  OBVIOUS
<1>3. (l \o r)[1] = l[1]
  BY <1>1
<1>4. Len(l \o r) > 0
  BY <1>1, <1>2
<1>. QED BY <1>1, <1>2, <1>3, <1>4

\* Removing an element leaves a sequence over the same set, with the same head
\* unless the head was removed.
LEMMA RemoveAtFacts ==
  ASSUME NEW S, NEW s \in Seq(S), NEW i \in 1..Len(s)
  PROVE  /\ RemoveAt(s, i) \in Seq(S)
         /\ i # 1 => RemoveAt(s, i) # <<>> /\ Head(RemoveAt(s, i)) = Head(s)
<1>1. PICK l \in Seq(S) : l = SubSeq(s, 1, i - 1)
  <2>1. SubSeq(s, 1, i - 1) \in Seq(S)
    OBVIOUS
  <2>. QED BY <2>1, Zenon
<1>2. PICK r \in Seq(S) : r = SubSeq(s, i + 1, Len(s))
  <2>1. SubSeq(s, i + 1, Len(s)) \in Seq(S)
    OBVIOUS
  <2>. QED BY <2>1, Zenon
<1>3. RemoveAt(s, i) = l \o r
  BY <1>1, <1>2 DEF RemoveAt
<1>4. i # 1 => l # <<>> /\ Head(l) = Head(s)
  BY <1>1
<1>5. l \o r \in Seq(S)
  OBVIOUS
<1>. QED BY <1>3, <1>4, <1>5, HeadOfConcatenation

LEMMA InitIInv == Init => IInv
<1>1. Init => TypeOK
  <2>1. <<>> \in Seq(Fns) /\ 0 \in 0..MaxMicrotasksPerMacrotask
    OBVIOUS
  <2>. QED BY <2>1, Zenon DEF Init, TypeOK
<1>2. Init => RunningIsHead /\ WithinBudget /\ NoStrandedWork
  BY DEF Init, RunningIsHead, WithinBudget, NoStrandedWork, queue, executed
<1>. QED BY <1>1, <1>2 DEF IInv

LEMMA ScheduleStep ==
  ASSUME IInv, NEW f \in Fns, ScheduleMicrotask(f)
  PROVE  IInv'
<1>1. /\ queue' = Append(queue, f) /\ queue' \in Seq(Fns) /\ queue' # <<>>
      /\ queue # <<>> => Head(queue') = Head(queue)
  BY DEF IInv, TypeOK, ScheduleMicrotask, queue
<1>2. UNCHANGED <<executed, clearMicrotasksCounterSchedule, running>>
  BY DEF ScheduleMicrotask, executed
<1>3. \/ dispatcherRunning' = TRUE /\ threw' = FALSE /\ ~dispatcherRunning
      \/ UNCHANGED <<dispatcherRunning, threw>> /\ dispatcherRunning
      \/ UNCHANGED <<dispatcherRunning, threw>> /\ executed = MaxMicrotasksPerMacrotask
  BY <1>1 DEF ScheduleMicrotask, MaybeStartDispatcher, MayRun, IInv, TypeOK, executed, queue
<1>4. TypeOK'
  BY <1>1, <1>2, <1>3 DEF IInv, TypeOK, executed, queue
<1>5. RunningIsHead'
  BY <1>1, <1>2, <1>3 DEF IInv, TypeOK, RunningIsHead
<1>6. WithinBudget'
  BY <1>2 DEF IInv, WithinBudget
<1>7. NoStrandedWork'
  BY <1>2, <1>3 DEF IInv, WithinBudget, NoStrandedWork
<1>. QED BY <1>4, <1>5, <1>6, <1>7 DEF IInv

LEMMA CancelStep ==
  ASSUME IInv, NEW f \in Fns, Cancel(f)
  PROVE  IInv'
<1>1. PICK i \in 1..Len(queue) : queue[i] = f /\ queue' = RemoveAt(queue, i)
  BY DEF Cancel, queue
<1>2. UNCHANGED <<executed, clearMicrotasksCounterSchedule, dispatcherRunning, running, threw>>
      /\ f # running
  BY DEF Cancel, executed
<1>3. queue \in Seq(Fns)
  BY DEF IInv, TypeOK, queue
<1>4. queue' \in Seq(Fns) /\ (i # 1 => queue' # <<>> /\ Head(queue') = Head(queue))
  BY <1>1, <1>3, RemoveAtFacts
<1>5. TypeOK'
  BY <1>2, <1>4 DEF IInv, TypeOK, executed, queue
<1>6. RunningIsHead'
  <2>1. SUFFICES ASSUME running # NoFn PROVE i # 1
    BY <1>2, <1>4, <2>1 DEF IInv, RunningIsHead
  <2>2. queue[1] = running
    BY <1>3, <2>1 DEF IInv, RunningIsHead
  <2>. QED BY <1>1, <1>2, <2>2
<1>7. WithinBudget'
  BY <1>2 DEF IInv, WithinBudget
<1>8. queue # <<>>
  BY <1>1, <1>3
<1>9. NoStrandedWork'
  BY <1>2, <1>8 DEF IInv, NoStrandedWork
<1>. QED BY <1>5, <1>6, <1>7, <1>9 DEF IInv

\* What the head of the loop leaves, on the values of its caller.
LEMMA LoopTestFacts ==
  ASSUME NEW q \in Seq(Fns), NEW n \in 0..MaxMicrotasksPerMacrotask, LoopTest(q, n)
  PROVE  \/ /\ running' = Head(q) /\ running' \in Fns /\ q # <<>>
            /\ n < MaxMicrotasksPerMacrotask
            /\ UNCHANGED dispatcherRunning
         \/ /\ running' = NoFn /\ dispatcherRunning' = FALSE
            /\ q = <<>> \/ n = MaxMicrotasksPerMacrotask
BY DEF LoopTest, MayRun

LEMMA DispatchStep == ASSUME IInv, Dispatch PROVE IInv'
<1>1. /\ UNCHANGED <<queue, executed, clearMicrotasksCounterSchedule, threw>>
      /\ dispatcherRunning /\ LoopTest(queue, executed)
  BY DEF Dispatch, queue, executed
<1>2. queue \in Seq(Fns) /\ executed \in 0..MaxMicrotasksPerMacrotask
  BY DEF IInv, TypeOK, queue, executed
<1>3. \/ /\ running' = Head(queue) /\ running' \in Fns /\ queue # <<>>
         /\ executed < MaxMicrotasksPerMacrotask
         /\ UNCHANGED dispatcherRunning
      \/ /\ running' = NoFn /\ dispatcherRunning' = FALSE
         /\ queue = <<>> \/ executed = MaxMicrotasksPerMacrotask
  BY <1>1, <1>2, LoopTestFacts
<1>4. TypeOK'
  BY <1>1, <1>3 DEF IInv, TypeOK, queue, executed
<1>5. RunningIsHead' /\ WithinBudget'
  BY <1>1, <1>2, <1>3 DEF IInv, RunningIsHead, WithinBudget
<1>6. NoStrandedWork'
  <2>1. executed = MaxMicrotasksPerMacrotask => clearMicrotasksCounterSchedule
    BY <1>2 DEF IInv, WithinBudget
  <2>2. dispatcherRunning' \/ queue = <<>> \/ executed = MaxMicrotasksPerMacrotask
    BY <1>1, <1>3
  <2>. QED BY <1>1, <2>1, <2>2, Zenon DEF NoStrandedWork
<1>. QED BY <1>4, <1>5, <1>6 DEF IInv

LEMMA FnReturnStep == ASSUME IInv, FnReturn PROVE IInv'
<1>1. /\ queue' = Tail(queue) /\ executed' = executed + 1
      /\ clearMicrotasksCounterSchedule' = TRUE
      /\ UNCHANGED threw
      /\ running # NoFn
      /\ LoopTest(queue', executed')
  BY DEF FnReturn, queue, executed
<1>2. queue' \in Seq(Fns) /\ executed' \in 0..MaxMicrotasksPerMacrotask
  BY <1>1 DEF IInv, TypeOK, RunningIsHead, WithinBudget, queue, executed
<1>3. \/ /\ running' = Head(queue') /\ running' \in Fns /\ queue' # <<>>
         /\ executed' < MaxMicrotasksPerMacrotask
         /\ UNCHANGED dispatcherRunning
      \/ /\ running' = NoFn /\ dispatcherRunning' = FALSE
  BY <1>1, <1>2, LoopTestFacts
<1>4. dispatcherRunning
  BY <1>1 DEF IInv, RunningIsHead
<1>5. TypeOK'
  BY <1>1, <1>2, <1>3, <1>4 DEF IInv, TypeOK, queue, executed
<1>6. RunningIsHead' /\ WithinBudget' /\ NoStrandedWork'
  BY <1>1, <1>2, <1>3, <1>4 DEF IInv, RunningIsHead, WithinBudget, NoStrandedWork
<1>. QED BY <1>5, <1>6 DEF IInv

LEMMA FnThrowStep == ASSUME IInv, FnThrow PROVE IInv'
<1>1. /\ UNCHANGED <<queue, executed, clearMicrotasksCounterSchedule>>
      /\ running' = NoFn /\ dispatcherRunning' = FALSE /\ threw' = TRUE
  BY DEF FnThrow, queue, executed
<1>2. TypeOK'
  BY <1>1 DEF IInv, TypeOK, queue, executed
<1>3. RunningIsHead' /\ WithinBudget' /\ NoStrandedWork'
  BY <1>1 DEF IInv, RunningIsHead, WithinBudget, NoStrandedWork
<1>. QED BY <1>2, <1>3 DEF IInv

LEMMA ClearStep == ASSUME IInv, ClearMicrotasksCounter PROVE IInv'
<1>1. /\ UNCHANGED <<queue, running>> /\ executed' = 0
      /\ clearMicrotasksCounterSchedule' = FALSE
      /\ ~dispatcherRunning
      /\ MaybeStartDispatcher(queue, 0)
  BY DEF ClearMicrotasksCounter, queue, executed
<1>2. running = NoFn
  BY <1>1 DEF IInv, RunningIsHead
<1>3. \/ dispatcherRunning' = TRUE /\ threw' = FALSE
      \/ UNCHANGED <<dispatcherRunning, threw>> /\ queue = <<>>
  BY <1>1 DEF MaybeStartDispatcher, MayRun
<1>4. TypeOK'
  <2>1. executed' \in 0..MaxMicrotasksPerMacrotask
    BY <1>1
  <2>2. queue' \in Seq(Fns) /\ running' \in Fns \cup {NoFn}
    BY <1>1 DEF IInv, TypeOK, queue
  <2>3. dispatcherRunning' \in BOOLEAN /\ threw' \in BOOLEAN
    BY <1>3 DEF IInv, TypeOK
  <2>. QED BY <1>1, <2>1, <2>2, <2>3, Zenon DEF TypeOK, queue, executed
<1>5. RunningIsHead' /\ WithinBudget' /\ NoStrandedWork'
  BY <1>1, <1>2, <1>3 DEF IInv, RunningIsHead, WithinBudget, NoStrandedWork
<1>. QED BY <1>4, <1>5 DEF IInv

LEMMA NextStep == ASSUME IInv, [Next]_vars PROVE IInv'
<1>1. ASSUME NEW f \in Fns, ScheduleMicrotask(f) PROVE IInv'
  BY <1>1, ScheduleStep
<1>2. ASSUME NEW f \in Fns, Cancel(f) PROVE IInv'
  BY <1>2, CancelStep
<1>3. ASSUME UNCHANGED vars PROVE IInv'
  BY <1>3 DEF vars, IInv, TypeOK, RunningIsHead, WithinBudget, NoStrandedWork, queue, executed
<1>. QED
  BY <1>1, <1>2, <1>3, DispatchStep, FnReturnStep, FnThrowStep, ClearStep
  DEF Next, Callers, Engine

LEMMA Invariant == Spec => []IInv
<1>1. Init => IInv
  BY InitIInv
<1>2. IInv /\ [Next]_vars => IInv'
  BY NextStep
<1>. QED BY <1>1, <1>2, PTL DEF Spec

\* Type correctness of the scheduler.
THEOREM SchedulerTypes == Spec => []TypeOK
<1>1. IInv => TypeOK
  BY DEF IInv
<1>. QED BY <1>1, Invariant, PTL

\* slice(1) on return removes the function that ran, whatever its body did.
THEOREM RunningStaysHead == Spec => []RunningIsHead
<1>1. IInv => RunningIsHead
  BY DEF IInv
<1>. QED BY <1>1, Invariant, PTL

\* No more than the budget runs per macrotask, for any budget above zero.
THEOREM BudgetKept == Spec => []WithinBudget
<1>1. IInv => WithinBudget
  BY DEF IInv
<1>. QED BY <1>1, Invariant, PTL

\* Scheduled work always has the dispatcher or the timeout behind it, unless a
\* function threw.
THEOREM NothingStranded == Spec => []NoStrandedWork
<1>1. IInv => NoStrandedWork
  BY DEF IInv
<1>. QED BY <1>1, Invariant, PTL

-------------------------------------------------------------------------------
\* The abstract queue of tasks (TaskQueue.tla).

LEMMA TailOfAppend ==
  ASSUME NEW S, NEW q \in Seq(S), NEW f \in S, q # <<>>
  PROVE  Tail(Append(q, f)) = Append(Tail(q), f)
OBVIOUS

LEMMA TailOfConcatenation ==
  ASSUME NEW S, NEW l \in Seq(S), NEW r \in Seq(S), l # <<>>
  PROVE  Tail(l \o r) = Tail(l) \o r
OBVIOUS

\* Removing behind the head is removing from the tail.
LEMMA RemoveFromTail ==
  ASSUME NEW S, NEW q \in Seq(S), NEW i \in 2..Len(q)
  PROVE  Tail(RemoveAt(q, i)) = RemoveAt(Tail(q), i - 1)
<1>1. /\ SubSeq(q, 1, i - 1) \in Seq(S) /\ SubSeq(q, 1, i - 1) # <<>>
      /\ SubSeq(q, i + 1, Len(q)) \in Seq(S)
  OBVIOUS
<1>2. Tail(SubSeq(q, 1, i - 1) \o SubSeq(q, i + 1, Len(q)))
        = Tail(SubSeq(q, 1, i - 1)) \o SubSeq(q, i + 1, Len(q))
  BY <1>1, TailOfConcatenation, Zenon
<1>3. Tail(SubSeq(q, 1, i - 1)) = SubSeq(Tail(q), 1, (i - 1) - 1)
  OBVIOUS
<1>4. SubSeq(q, i + 1, Len(q)) = SubSeq(Tail(q), (i - 1) + 1, Len(Tail(q)))
  OBVIOUS
<1>. QED BY <1>2, <1>3, <1>4, Zenon DEF RemoveAt

LEMMA TaskInit == Init => Tasks!Init
BY DEF Init, Tasks!Init, queue

LEMMA TaskStep ==
  ASSUME IInv, [Next]_vars
  PROVE  threw' \/ Tasks!Next \/ UNCHANGED taskVars
<1> USE DEF taskVars, Tasks!vars
<1>0. /\ queue \in Seq(Fns)
      /\ running # NoFn => queue # <<>> /\ Head(queue) = running /\ dispatcherRunning
  BY DEF IInv, TypeOK, RunningIsHead, queue
<1>1. ASSUME NEW f \in Fns, ScheduleMicrotask(f) PROVE Tasks!Next
  <2>1. queue' = Append(queue, f) /\ UNCHANGED running
    BY <1>1 DEF ScheduleMicrotask, queue
  <2>2. running # NoFn => Tail(queue') = Append(Tail(queue), f)
    BY <1>0, <2>1, TailOfAppend
  <2>3. Tasks!Schedule(f)
    BY <2>1, <2>2 DEF Tasks!Schedule
  <2>. QED BY <2>3 DEF Tasks!Next
<1>2. ASSUME NEW f \in Fns, Cancel(f) PROVE Tasks!Next
  <2>1. PICK i \in 1..Len(queue) : /\ queue[i] = f
                                   /\ \A j \in 1..(i - 1) : queue[j] # f
                                   /\ queue' = RemoveAt(queue, i)
    BY <1>2 DEF Cancel, queue
  <2>2. UNCHANGED running /\ f # running
    BY <1>2 DEF Cancel
  <2>. \A s, k : Tasks!RemoveAt(s, k) = RemoveAt(s, k)
    BY DEF Tasks!RemoveAt, RemoveAt
  <2> DEFINE left == IF running = NoFn THEN queue ELSE Tail(queue)
  <2>3. CASE running = NoFn
    <3>1. left = queue /\ left' = queue'
      BY <2>2, <2>3
    <3>2. i \in 1..Len(left)
      BY <3>1, Zenon
    <3>3. Tasks!Cancel(f)
      <4>. USE DEF Tasks!Cancel
      <4>. WITNESS i \in 1..Len(left)
      <4>. QED BY <2>1, <2>2, <3>1
    <3>. QED BY <3>3 DEF Tasks!Next
  <2>4. CASE running # NoFn
    <3>1. i \in 2..Len(queue)
      BY <1>0, <2>1, <2>2, <2>4
    <3>2. Tail(queue') = RemoveAt(Tail(queue), i - 1)
      BY <1>0, <2>1, <3>1, RemoveFromTail, Zenon
    <3>3. /\ i - 1 \in 1..Len(Tail(queue)) /\ Tail(queue)[i - 1] = f
          /\ \A j \in 1..((i - 1) - 1) : Tail(queue)[j] # f
      BY <1>0, <2>1, <3>1
    <3>4. left = Tail(queue) /\ left' = Tail(queue')
      BY <2>2, <2>4
    <3>5. i - 1 \in 1..Len(left)
      BY <3>3, <3>4, Zenon
    <3>6. Tasks!Cancel(f)
      <4>. USE DEF Tasks!Cancel
      <4>. WITNESS i - 1 \in 1..Len(left)
      <4>. QED BY <2>2, <3>2, <3>3, <3>4, Zenon
    <3>. QED BY <3>6 DEF Tasks!Next
  <2>. QED BY <2>3, <2>4
<1>3. CASE Dispatch
  <2>1. UNCHANGED queue /\ running = NoFn /\ LoopTest(queue, executed)
    BY <1>3 DEF Dispatch, queue
  <2>2. running' = NoFn \/ (running' = Head(queue) /\ queue # <<>>)
    BY <2>1 DEF LoopTest, MayRun
  <2>3. running' # NoFn => Tasks!Call
    BY <2>1, <2>2 DEF Tasks!Call
  <2>. QED BY <2>1, <2>3 DEF Tasks!Next, Tasks!Run
<1>4. CASE FnReturn
  <2>1. queue' = Tail(queue) /\ running # NoFn /\ LoopTest(queue', executed')
    BY <1>4 DEF FnReturn, queue, executed
  <2>2. running' = NoFn \/ (running' = Head(queue') /\ queue' # <<>>)
    BY <2>1 DEF LoopTest, MayRun
  <2>3. CASE running' = NoFn
    <3>1. Tasks!Return
      BY <2>1, <2>3 DEF Tasks!Return
    <3>. QED BY <3>1 DEF Tasks!Next, Tasks!Run
  <2>4. CASE running' # NoFn
    <3>1. Tasks!ReturnAndCall
      BY <2>1, <2>2, <2>4 DEF Tasks!ReturnAndCall
    <3>. QED BY <3>1 DEF Tasks!Next, Tasks!Run
  <2>. QED BY <2>3, <2>4
<1>5. CASE FnThrow
  BY <1>5 DEF FnThrow
<1>6. CASE ClearMicrotasksCounter
  BY <1>6 DEF ClearMicrotasksCounter, queue
<1>7. CASE UNCHANGED vars
  BY <1>7 DEF vars, queue
<1>. QED BY <1>1, <1>2, <1>3, <1>4, <1>5, <1>6, <1>7 DEF Next, Callers, Engine

\* Until a function throws, every step of the scheduler is one of the abstract
\* queue's or changes nothing there: functions are called one at a time, in the
\* order they were scheduled, each once unless it is cancelled before its turn.
THEOREM SchedulerImplementsTaskQueue ==
  Spec => Tasks!Init /\ [][threw' \/ Tasks!Next]_taskVars
<1>1. IInv /\ [Next]_vars => [threw' \/ Tasks!Next]_taskVars
  BY TaskStep
<1>. QED BY <1>1, TaskInit, Invariant, PTL DEF Spec

-------------------------------------------------------------------------------
\* The scheduler as the duplex uses it (NextMicrotask.tla).

\* Only next() is ever in the queue, and the handle is defined exactly when a
\* run that has not begun is there, except in a run that returns early.
Most == IF running = NoFn THEN 1 ELSE 2
HandleInv ==
  /\ queue \in Seq({next})
  /\ Len(queue) <= Most
  /\ Len(queue) = Most => scheduledNextMicrotask
  /\ queue # <<>> /\ scheduledNextMicrotask /\ ~returnsEarly => Len(queue) = Most
  /\ returnsEarly => running # NoFn /\ destroyed /\ Len(queue) = 1

NMIInv == IInv /\ NMTypeOK /\ HandleInv

LEMMA TailShorter ==
  ASSUME NEW S, NEW q \in Seq(S), q # <<>>
  PROVE  /\ Tail(q) \in Seq(S)
         /\ Len(Tail(q)) = Len(q) - 1
         /\ Tail(q) = <<>> <=> Len(Tail(q)) = 0
<1>1. \A t \in Seq(S) : t = <<>> <=> Len(t) = 0
  OBVIOUS
<1>2. Tail(q) \in Seq(S) /\ Len(Tail(q)) = Len(q) - 1
  OBVIOUS
<1>. QED BY <1>1, <1>2, Zenon

LEMMA OneFunction == next \in Fns
BY NextAssumption DEF next

\* In a queue that holds only next(), pending() asks whether it is empty.
LEMMA PendingFacts ==
  ASSUME queue \in Seq({next})
  PROVE  Pending <=> queue # <<>>
BY DEF Pending, Contains

\* The scheduler's variables change as in MicrotaskScheduler.tla, where only
\* next() is scheduled and none throws.
LEMMA SchedulerStep ==
  ASSUME IInv, [NMNext]_nmVars
  PROVE  IInv'
<1>1. CASE MaybeScheduleNextMicrotask
  BY <1>1, ScheduleStep, OneFunction DEF MaybeScheduleNextMicrotask
<1>2. CASE NMDispatch
  BY <1>2, DispatchStep DEF NMDispatch
<1>3. CASE NMFnReturn
  BY <1>3, FnReturnStep DEF NMFnReturn
<1>4. CASE NMClear
  BY <1>4, ClearStep DEF NMClear
<1>5. CASE Destroy \/ UNCHANGED nmVars
  BY <1>5, NextStep DEF Destroy, nmVars
<1>. QED BY <1>1, <1>2, <1>3, <1>4, <1>5 DEF NMNext

LEMMA HandleStep ==
  ASSUME NMIInv, [NMNext]_nmVars
  PROVE  NMTypeOK' /\ HandleInv'
<1> USE DEF HandleInv, Most
<1>0. /\ queue \in Seq({next}) /\ Len(queue) \in Nat /\ (queue = <<>> <=> Len(queue) = 0)
      /\ running # NoFn => queue # <<>>
      /\ TypeOK'
  BY SchedulerStep DEF NMIInv, IInv, RunningIsHead
<1>1. CASE MaybeScheduleNextMicrotask
  <2>1. /\ ~returnsEarly /\ queue' = Append(queue, next) /\ scheduledNextMicrotask' = TRUE
        /\ UNCHANGED <<running, destroyed, returnsEarly>>
        /\ ~scheduledNextMicrotask \/ queue = <<>>
    BY <1>0, <1>1, PendingFacts DEF MaybeScheduleNextMicrotask, ScheduleMicrotask, queue
  <2>2. queue' \in Seq({next}) /\ Len(queue') = Len(queue) + 1
    BY <1>0, <2>1
  <2>3. Len(queue) < Most
    <3>1. /\ Len(queue) <= Most
          /\ Len(queue) = Most => scheduledNextMicrotask
      BY DEF NMIInv
    <3>2. Len(queue) # Most
      BY <1>0, <2>1, <3>1
    <3>3. Most \in Nat
      OBVIOUS
    <3>4. \A a, b \in Nat : a <= b /\ a # b => a < b
      OBVIOUS
    <3>. QED BY <1>0, <3>1, <3>2, <3>3, <3>4, Zenon
  <2>4. Len(queue') = Most
    BY <1>0, <2>1, <2>2, <2>3
  <2>. QED BY <1>0, <2>1, <2>2, <2>4 DEF NMIInv, NMTypeOK
<1>2. CASE NMDispatch
  <2>1. /\ UNCHANGED <<queue, destroyed>> /\ running = NoFn
        /\ running' = NoFn \/ queue # <<>>
        /\ returnsEarly' \in BOOLEAN /\ scheduledNextMicrotask' \in BOOLEAN
        /\ returnsEarly' <=> running' # NoFn /\ destroyed
        /\ scheduledNextMicrotask' <=>
             scheduledNextMicrotask /\ (running' = NoFn \/ destroyed)
    BY <1>2 DEF NMDispatch, Dispatch, NextBody, LoopTest, MayRun, queue, NMIInv, NMTypeOK
  <2>2. CASE running' = NoFn
    BY <1>0, <2>1, <2>2 DEF NMIInv, NMTypeOK
  <2>3. CASE running' # NoFn
    <3>1. Len(queue') = 1 /\ Most' = 2
      <4>1. Len(queue) <= 1 /\ queue # <<>>
        BY <1>0, <2>1, <2>3 DEF NMIInv
      <4>2. \A n \in Nat : n <= 1 /\ n # 0 => n = 1
        OBVIOUS
      <4>3. Len(queue) = 1
        BY <1>0, <4>1, <4>2, Zenon
      <4>4. Most' = 2
        BY <2>3
      <4>. QED BY <2>1, <4>3, <4>4, Zenon
    <3>2. NMTypeOK'
      BY <1>0, <2>1 DEF NMIInv, NMTypeOK
    <3>3. scheduledNextMicrotask' => returnsEarly'
      BY <2>1, <2>3
    <3>4. returnsEarly' => destroyed'
      BY <2>1
    <3>5. queue' \in Seq({next})
      BY <1>0, <2>1
    <3>. HIDE DEF Most
    <3>. QED BY <2>3, <3>1, <3>2, <3>3, <3>4, <3>5
  <2>. QED BY <2>2, <2>3
<1>3. CASE NMFnReturn
  <2>1. /\ queue' = Tail(queue) /\ UNCHANGED destroyed /\ running # NoFn
        /\ running' = NoFn \/ queue' # <<>>
        /\ returnsEarly' \in BOOLEAN /\ scheduledNextMicrotask' \in BOOLEAN
        /\ returnsEarly' <=> running' # NoFn /\ destroyed
        /\ scheduledNextMicrotask' <=>
             scheduledNextMicrotask /\ (running' = NoFn \/ destroyed)
    BY <1>3 DEF NMFnReturn, FnReturn, NextBody, LoopTest, MayRun, queue
  <2>2. queue' \in Seq({next}) /\ Len(queue') = Len(queue) - 1 /\ (queue' = <<>> <=> Len(queue') = 0)
    BY <1>0, <2>1, TailShorter, Zenon
  <2>3. CASE running' = NoFn
    BY <1>0, <2>1, <2>2, <2>3 DEF NMIInv, NMTypeOK
  <2>4. CASE running' # NoFn
    <3>1. Len(queue') = 1 /\ Most' = 2
      BY <1>0, <2>1, <2>2, <2>4 DEF NMIInv
    <3>2. NMTypeOK'
      BY <1>0, <2>1 DEF NMIInv, NMTypeOK
    <3>3. scheduledNextMicrotask' => returnsEarly'
      BY <2>1, <2>4
    <3>4. returnsEarly' => destroyed'
      BY <2>1
    <3>5. queue' \in Seq({next})
      BY <2>2
    <3>. HIDE DEF Most
    <3>. QED BY <2>4, <3>1, <3>2, <3>3, <3>4, <3>5
  <2>. QED BY <2>3, <2>4
<1>4. CASE NMClear \/ UNCHANGED nmVars
  BY <1>0, <1>4 DEF NMClear, ClearMicrotasksCounter, nmVars, vars, handleVars, queue, NMIInv, NMTypeOK
<1>5. CASE Destroy
  BY <1>0, <1>5 DEF Destroy, vars, queue, NMIInv, NMTypeOK
<1>. QED BY <1>1, <1>2, <1>3, <1>4, <1>5 DEF NMNext

LEMMA NMInitIInv == NMInit => NMIInv
<1>1. NMInit => HandleInv
  BY DEF NMInit, Init, HandleInv, Most, queue
<1>. QED BY <1>1, InitIInv DEF NMInit, NMIInv, NMTypeOK, IInv

LEMMA NMInvariant == NMSpec => []NMIInv
<1>1. NMIInv /\ [NMNext]_nmVars => NMIInv'
  BY SchedulerStep, HandleStep DEF NMIInv
<1>. QED BY <1>1, NMInitIInv, PTL DEF NMSpec

\* However many callers ask, next() waits at most once behind the run that is
\* going on, and a request that does nothing finds a run that has not begun.
THEOREM RequestsKeptOnce == NMSpec => []RequestKeptOnce
<1>1. NMIInv => RequestKeptOnce
  BY PendingFacts DEF NMIInv, HandleInv, Most, RequestKeptOnce
<1>. QED BY <1>1, NMInvariant, PTL

LEMMA FlagStep ==
  ASSUME NMIInv, NMIInv', [NMNext]_nmVars
  PROVE  Flag!Next \/ UNCHANGED Flag!vars
<1> USE DEF Flag!vars
<1>0. /\ queue \in Seq({next}) /\ Len(queue) \in Nat /\ Len(queue) <= Most
      /\ running # NoFn => queue # <<>>
      /\ Len(queue') <= Most'
  BY DEF NMIInv, HandleInv, IInv, RunningIsHead
<1>1. CASE MaybeScheduleNextMicrotask
  <2>1. queue' = Append(queue, next) /\ UNCHANGED running
    BY <1>1 DEF MaybeScheduleNextMicrotask, ScheduleMicrotask, queue
  <2>2. Len(queue') = Len(queue) + 1 /\ (running # NoFn => Len(queue) > 0)
    BY <1>0, <2>1
  <2>3. Flag!Request
    BY <1>0, <2>1, <2>2 DEF Flag!Request
  <2>. QED BY <2>3 DEF Flag!Next
<1>2. CASE NMDispatch
  <2>1. UNCHANGED queue /\ running = NoFn /\ (running' = NoFn \/ queue # <<>>)
    BY <1>2 DEF NMDispatch, Dispatch, LoopTest, MayRun, queue
  <2>2. running' # NoFn => Flag!Begin
    BY <1>0, <2>1 DEF Flag!Begin, Most
  <2>. QED BY <2>1, <2>2 DEF Flag!Next, Flag!Run
<1>3. CASE NMFnReturn
  <2>1. queue' = Tail(queue) /\ running # NoFn /\ (running' = NoFn \/ queue' # <<>>)
    BY <1>3 DEF NMFnReturn, FnReturn, LoopTest, MayRun, queue
  <2>2. Len(queue') = Len(queue) - 1 /\ (queue' = <<>> <=> Len(queue') = 0)
    BY <1>0, <2>1, TailShorter, Zenon
  <2>3. CASE running' = NoFn
    <3>1. Flag!End
      BY <1>0, <2>1, <2>2, <2>3 DEF Flag!End
    <3>. QED BY <3>1 DEF Flag!Next, Flag!Run
  <2>4. CASE running' # NoFn
    <3>1. Flag!EndAndBegin
      BY <1>0, <2>1, <2>2, <2>4 DEF Flag!EndAndBegin, Most
    <3>. QED BY <3>1 DEF Flag!Next, Flag!Run
  <2>. QED BY <2>3, <2>4
<1>4. CASE NMClear \/ Destroy \/ UNCHANGED nmVars
  BY <1>4 DEF NMClear, ClearMicrotasksCounter, Destroy, nmVars, vars, queue
<1>. QED BY <1>1, <1>2, <1>3, <1>4 DEF NMNext

\* The scheduler and the handle idiom behave as the one bit that SocketDuplex.tla
\* puts in their place.  (That a request is always followed by a run is left to TLC.)
THEOREM SchedulingImplementsFlag == NMSpec => Flag!Init /\ [][Flag!Next]_(Flag!vars)
<1>1. NMInit => Flag!Init
  BY DEF NMInit, Init, Flag!Init, queue
<1>2. NMIInv /\ NMIInv' /\ [NMNext]_nmVars => [Flag!Next]_(Flag!vars)
  BY FlagStep
<1>. QED BY <1>1, <1>2, NMInvariant, PTL DEF NMSpec
===============================================================================
