------------------------------ MODULE CheckQueue ------------------------------
(***************************************************************************)
(* CCheckQueue (src/src/checkqueue.h): the master, which connects a block, *)
(* adds script checks to a queue that worker threads take batches from.    *)
(* When it has added all of them it joins the workers until none is left.  *)
(*                                                                         *)
(* Every critical section of the mutex is one step.  A thread that waits   *)
(* on a condition variable has to be notified (or wake up spuriously) and  *)
(* then takes the mutex again.  A thread can be interrupted when it waits  *)
(* (boost::thread::interrupt at shutdown), without any clean-up: a worker  *)
(* ends, and the master runs the destructor of the controller, which waits *)
(* again.                                                                  *)
(*                                                                         *)
(* A check is the Boolean it returns.  fQuit is never set by the program.  *)
(***************************************************************************)
EXTENDS Integers, Sequences, FiniteSets

CONSTANTS Worker,      \* script check threads
          Master,      \* the thread that connects blocks
          nBatchSize,  \* most checks a thread takes at once
          MaxQueue     \* bound: checks in the queue

Thread == Worker \cup {Master}

ASSUME WorkerAssumption == Master \notin Worker /\ IsFiniteSet(Worker)
ASSUME BatchAssumption == nBatchSize \in Nat \ {0} /\ MaxQueue \in Nat

VARIABLES
    queue,    \* checks nobody has taken
    nTodo,    \* checks that have not completed
    nIdle,    \* threads that wait
    nTotal,   \* threads in Loop
    fAllOk,   \* the evaluation result so far
    pc,       \* "out" of Loop, or where a thread is in it
    vChecks,  \* the batch of each thread, nNow its length
    fOk,      \* whether the batch is good so far
    phase,    \* of the CCheckQueueControl: "closed", "open", "waiting"
    result,   \* what the last Wait returned
    shutdown  \* the master was interrupted

counters == <<nTodo, nIdle, nTotal>>
batch == <<vChecks, fOk>>
vars == <<queue, counters, fAllOk, pc, batch, phase, result, shutdown>>

Init == /\ queue = <<>>
        /\ nTodo = 0 /\ nIdle = 0 /\ nTotal = 0
        /\ fAllOk = TRUE
        /\ pc = [t \in Thread |-> "out"]
        /\ vChecks = [t \in Thread |-> <<>>]
        /\ fOk = [t \in Thread |-> TRUE]
        /\ phase = "closed"
        /\ result = TRUE
        /\ shutdown = FALSE

AllGood(s) == \A i \in 1..Len(s) : s[i]

-----------------------------------------------------------------------------
\* The controller.

\* CCheckQueue::IsIdle, which the constructor of CCheckQueueControl asserts.
IsIdle == nTotal = nIdle /\ nTodo = 0 /\ fAllOk

\* ConnectBlock makes a controller.
Open == /\ phase = "closed"
        /\ phase' = "open"
        /\ UNCHANGED <<queue, counters, fAllOk, pc, batch, result, shutdown>>

Waiting == {w \in Worker : pc[w] = "wait"}

\* The checks of one transaction; one worker is notified of a single check,
\* all of them of more.
Add(checks) ==
    /\ phase = "open"
    /\ Len(queue) + Len(checks) <= MaxQueue
    /\ queue' = queue \o checks
    /\ nTodo' = nTodo + Len(checks)
    /\ \E told \in SUBSET Waiting :
          /\ Len(checks) = 0 => told = {}
          /\ Len(checks) = 1 => Cardinality(told) = IF Waiting = {} THEN 0 ELSE 1
          /\ Len(checks) > 1 => told = Waiting
          /\ pc' = [t \in Thread |-> IF t \in told THEN "woken" ELSE pc[t]]
    /\ UNCHANGED <<nIdle, nTotal, fAllOk, batch, phase, result, shutdown>>

\* Wait, called by ConnectBlock or by the destructor: the master enters Loop.
Wait == /\ phase = "open"
        /\ phase' = "waiting"
        /\ pc' = [pc EXCEPT ![Master] = "enter"]
        /\ UNCHANGED <<queue, counters, fAllOk, batch, result, shutdown>>

-----------------------------------------------------------------------------
\* Loop.

\* A script check thread starts.
StartThread(w) == /\ pc[w] = "out"
                  /\ pc' = [pc EXCEPT ![w] = "enter"]
                  /\ UNCHANGED <<queue, counters, fAllOk, batch, phase, result, shutdown>>

\* How many checks a thread takes of a queue of length n.
BatchSize(n, total, idle) ==
    LET share == n \div (total + idle + 1)
    IN IF share < 1 THEN 1 ELSE IF share > nBatchSize THEN nBatchSize ELSE share

\* Thread t takes its share from the end of the queue; fAllOk is ok.
TakeBatch(t, ok, total, idle, pcs) ==
    LET n == BatchSize(Len(queue), total, idle)
        rest == Len(queue) - n
    IN /\ queue' = SubSeq(queue, 1, rest)
       /\ vChecks' = [vChecks EXCEPT ![t] = SubSeq(queue, rest + 1, Len(queue))]
       /\ fOk' = [fOk EXCEPT ![t] = ok]
       /\ fAllOk' = ok
       /\ nTotal' = total
       /\ nIdle' = idle
       /\ pc' = [pcs EXCEPT ![t] = "work"]
       /\ UNCHANGED <<phase, result>>

\* Thread t has no batch.
NoBatch(t) == /\ vChecks' = [vChecks EXCEPT ![t] = <<>>]
              /\ fOk' = [fOk EXCEPT ![t] = TRUE]
              /\ UNCHANGED queue

\* Variant of ReturnStatus: the status is not reset.
ReturnKeepsStatus(ok, total, idle, pcs) ==
    /\ result' = ok
    /\ fAllOk' = ok
    /\ nTotal' = total - 1
    /\ nIdle' = idle
    /\ pc' = [pcs EXCEPT ![Master] = "out"]
    /\ phase' = "closed"
    /\ NoBatch(Master)

\* Variant of ReturnStatus: it is taken for a thread that waited.
ReturnFromIdle(ok, total, idle, pcs) ==
    /\ result' = ok
    /\ fAllOk' = TRUE
    /\ nTotal' = total - 1
    /\ nIdle' = idle - 1
    /\ pc' = [pcs EXCEPT ![Master] = "out"]
    /\ phase' = "closed"
    /\ NoBatch(Master)

\* The master leaves Loop with the status, and resets it for the next block.
ReturnStatus(ok, total, idle, pcs) ==
    /\ result' = ok
    /\ fAllOk' = TRUE
    /\ nTotal' = total - 1
    /\ nIdle' = idle
    /\ pc' = [pcs EXCEPT ![Master] = "out"]
    /\ phase' = "closed"
    /\ NoBatch(Master)

\* Thread t waits on its condition variable.
Idle(t, ok, total, idle, pcs) ==
    /\ fAllOk' = ok
    /\ nTotal' = total
    /\ nIdle' = idle + 1
    /\ pc' = [pcs EXCEPT ![t] = "wait"]
    /\ NoBatch(t)
    /\ UNCHANGED <<phase, result>>

\* The rest of a critical section, from the test for an empty queue, with the
\* values that the variables have got in it so far.
Continue(t, todo, ok, total, idle, pcs) ==
    /\ nTodo' = todo
    /\ UNCHANGED shutdown
    /\ \/ queue # <<>> /\ TakeBatch(t, ok, total, idle, pcs)
       \/ queue = <<>> /\ t = Master /\ todo = 0 /\ ReturnStatus(ok, total, idle, pcs)
       \/ queue = <<>> /\ ~(t = Master /\ todo = 0) /\ Idle(t, ok, total, idle, pcs)

\* The first iteration.
Enter(t) == /\ pc[t] = "enter"
            /\ Continue(t, nTodo, fAllOk, nTotal + 1, nIdle, pc)

\* The checks of the batch run without the mutex, until one fails.
Execute(t) == /\ pc[t] = "work"
              /\ fOk' = [fOk EXCEPT ![t] = @ /\ AllGood(vChecks[t])]
              /\ pc' = [pc EXCEPT ![t] = "done"]
              /\ UNCHANGED <<queue, counters, fAllOk, vChecks, phase, result, shutdown>>

\* Variant of NotifyMaster: it is not told.
NotifyNobody(t, todo) == pc

\* A waiting master is told when a worker completes the last check.
NotifyMaster(t, todo) ==
    IF todo = 0 /\ t # Master /\ pc[Master] = "wait" THEN [pc EXCEPT ![Master] = "woken"]
    ELSE pc

\* The clean-up of the batch, and the next one.
CleanUp(t) ==
    /\ pc[t] = "done"
    /\ LET todo == nTodo - Len(vChecks[t])
       IN Continue(t, todo, fAllOk /\ fOk[t], nTotal, nIdle, NotifyMaster(t, todo))

\* cond.wait returns, with the mutex.
Resume(t) == /\ pc[t] = "woken"
             /\ Continue(t, nTodo, fAllOk, nTotal, nIdle - 1, pc)

\* A condition variable may wake a thread for no reason.
SpuriousWakeup(t) == /\ pc[t] = "wait"
                     /\ pc' = [pc EXCEPT ![t] = "woken"]
                     /\ UNCHANGED <<queue, counters, fAllOk, batch, phase, result, shutdown>>

\* threadGroup.interrupt_all(): the wait of a worker throws, the counters stay.
Interrupt(w) == /\ pc[w] \in {"wait", "woken"}
                /\ pc' = [pc EXCEPT ![w] = "gone"]
                /\ UNCHANGED <<queue, counters, fAllOk, batch, phase, result, shutdown>>

\* So does that of the message handler as the master; ~CCheckQueueControl
\* calls Wait again.
InterruptMaster == /\ ~shutdown
                   /\ shutdown' = TRUE
                   /\ pc[Master] \in {"wait", "woken"}
                   /\ pc' = [pc EXCEPT ![Master] = "enter"]
                   /\ UNCHANGED <<queue, counters, fAllOk, batch, phase, result>>

Loop(t) == Enter(t) \/ Execute(t) \/ CleanUp(t) \/ Resume(t)

Next == \/ Open \/ Wait
        \/ \E n \in 0..MaxQueue : \E checks \in [1..n -> BOOLEAN] : Add(checks)
        \/ \E w \in Worker : StartThread(w) \/ Interrupt(w)
        \/ InterruptMaster
        \/ \E t \in Thread : Loop(t) \/ SpuriousWakeup(t)

\* Threads in Loop that do not wait go on.
Spec == Init /\ [][Next]_vars /\ \A t \in Thread : WF_vars(Loop(t))

-----------------------------------------------------------------------------
Label == {"out", "enter", "wait", "woken", "work", "done", "gone"}

TypeOK == /\ queue \in Seq(BOOLEAN)
          /\ nTodo \in Nat /\ nIdle \in Nat /\ nTotal \in Nat
          /\ fAllOk \in BOOLEAN
          /\ pc \in [Thread -> Label]
          /\ vChecks \in [Thread -> Seq(BOOLEAN)]
          /\ fOk \in [Thread -> BOOLEAN]
          /\ phase \in {"closed", "open", "waiting"}
          /\ result \in BOOLEAN
          /\ shutdown \in BOOLEAN

\* The assertion of the constructor of CCheckQueueControl never fails, though
\* workers may still be in the middle of Loop, start late or have been
\* interrupted (src/src/checkqueue.h:189).
IdleAtStart == phase = "closed" => IsIdle

\* A check is good in Wait's result only if it is: the checks in the queue, the
\* batches and fAllOk together are all the checks added since the last Wait.
GoodSoFar == /\ fAllOk
             /\ AllGood(queue)
             /\ \A t \in Thread : fOk[t] /\ AllGood(vChecks[t])

Control == INSTANCE CheckControl WITH good <- GoodSoFar

\* However the threads interleave, wake up and are interrupted, Wait returns,
\* with the conjunction of exactly the checks of this block.
ImplementsControl == Control!Spec
=============================================================================
