----------------------------- MODULE ThreadPool -----------------------------
(***************************************************************************)
(* ThreadPool (Sources/pool/thread_pool.h): detached threads that take     *)
(* tasks from one queue under a mutex and sleep on a condition variable    *)
(* while it is empty.                                                      *)
(*                                                                         *)
(* A thread's pc says where in its loop it is:                             *)
(*   lock     wants the mutex, at the start or after a task                *)
(*   waiting  asleep in cond_.wait                                         *)
(*   woken    notified, wants the mutex back                               *)
(*   test     holds the mutex, about to read is_close_                     *)
(*   take     holds it, has read is_close_ = false                         *)
(*   task     runs a task, without the mutex                               *)
(*   ended    has left the loop                                            *)
(* and a caller's that it is between AddTask's critical section and its    *)
(* notify_one, or the destructor's assignment and its notify_all.          *)
(***************************************************************************)
EXTENDS Integers, Sequences, FiniteSets

CONSTANTS
  Tasks,    \* the tasks handed over, each a call of its own
  Workers,  \* the pool's threads
  Callers,  \* threads that call AddTask
  NoTask    \* what an idle thread works on

ASSUME PoolAssumption ==
  /\ NoTask \notin Tasks
  /\ Workers \cap Callers = {}
  /\ IsFiniteSet(Workers) /\ IsFiniteSet(Callers)

VARIABLES
  queue,    \* tasks_queue_
  isClose,  \* is_close_
  pc,       \* where each thread and each caller is
  running,  \* the local `task' of each thread
  added,    \* history: tasks handed over
  done      \* history: tasks that have returned

vars == <<queue, isClose, pc, running, added, done>>

Procs == Workers \cup Callers
At(l) == {p \in Procs : pc[p] = l}

(* The mutex is free; AddTask's critical section is one step.              *)
Free == At("test") \cup At("take") = {}

Goto(p, l) == pc' = [pc EXCEPT ![p] = l]

(***************************************************************************)
(* AddTask and the destructor                                              *)
(***************************************************************************)
(* Faulty: notifies only the task that finds the queue empty.              *)
AddTask_NotifyIfEmpty(c, t) ==
  /\ pc[c] = "out" /\ Free
  /\ t \notin added
  /\ added' = added \cup {t}
  /\ queue' = Append(queue, t)
  /\ Goto(c, IF queue = <<>> THEN "notify" ELSE "out")
  /\ UNCHANGED <<isClose, running, done>>

AddTask(c, t) ==
  /\ pc[c] = "out" /\ Free
  /\ t \notin added
  /\ added' = added \cup {t}
  /\ queue' = Append(queue, t)
  /\ Goto(c, "notify")
  /\ UNCHANGED <<isClose, running, done>>

(* Faulty: nobody is notified.                                             *)
NotifyOne_Forgotten(c) ==
  /\ pc[c] = "notify"
  /\ Goto(c, "out")
  /\ UNCHANGED <<queue, isClose, running, added, done>>

(* notify_one: a waiting thread, if there is one.                          *)
NotifyOne(c) ==
  /\ pc[c] = "notify"
  /\ \/ At("waiting") = {} /\ Goto(c, "out")
     \/ \E w \in At("waiting") : pc' = [pc EXCEPT ![c] = "out", ![w] = "woken"]
  /\ UNCHANGED <<queue, isClose, running, added, done>>

(* The destructor writes is_close_ without the mutex ...                   *)
Destroy(c) ==
  /\ pc[c] = "out" /\ ~isClose
  /\ isClose' = TRUE
  /\ Goto(c, "notifyAll")
  /\ UNCHANGED <<queue, running, added, done>>

(* ... and notifies: a thread that has read it and does not wait yet sleeps *)
(* on.                                                                     *)
NotifyAll(c) ==
  /\ pc[c] = "notifyAll"
  /\ pc' = [p \in Procs |-> CASE p = c -> "gone"
                              [] pc[p] = "waiting" -> "woken"
                              [] OTHER -> pc[p]]
  /\ UNCHANGED <<queue, isClose, running, added, done>>

(***************************************************************************)
(* Run: the loop of a thread                                               *)
(***************************************************************************)
Lock(w) ==
  /\ pc[w] \in {"lock", "woken"} /\ Free
  /\ Goto(w, "test")
  /\ UNCHANGED <<queue, isClose, running, added, done>>

(* A condition variable may wake without being notified.                   *)
SpuriousWakeup(w) ==
  /\ pc[w] = "waiting"
  /\ Goto(w, "woken")
  /\ UNCHANGED <<queue, isClose, running, added, done>>

TestClose(w) ==
  /\ pc[w] = "test"
  /\ Goto(w, IF isClose THEN "ended" ELSE "take")
  /\ UNCHANGED <<queue, isClose, running, added, done>>

(* Faulty: the task is copied and popped only after it has run.            *)
Take_PopLater(w) ==
  /\ pc[w] = "take"
  /\ queue # <<>>
  /\ running' = [running EXCEPT ![w] = Head(queue)]
  /\ Goto(w, "task")
  /\ UNCHANGED <<queue, isClose, added, done>>

Take(w) ==
  /\ pc[w] = "take"
  /\ queue # <<>>
  /\ queue' = Tail(queue)
  /\ running' = [running EXCEPT ![w] = Head(queue)]
  /\ Goto(w, "task")
  /\ UNCHANGED <<isClose, added, done>>

Wait(w) ==
  /\ pc[w] = "take"
  /\ queue = <<>>
  /\ Goto(w, "waiting")
  /\ UNCHANGED <<queue, isClose, running, added, done>>

(* Faulty: the finished task stays in the thread's hands.                  *)
Finish_Keep(w) ==
  /\ pc[w] = "task"
  /\ done' = done \cup {running[w]}
  /\ Goto(w, "lock")
  /\ UNCHANGED <<queue, isClose, running, added>>

(* task() returns.                                                         *)
Finish(w) ==
  /\ pc[w] = "task"
  /\ done' = done \cup {running[w]}
  /\ running' = [running EXCEPT ![w] = NoTask]
  /\ Goto(w, "lock")
  /\ UNCHANGED <<queue, isClose, added>>

----------------------------------------------------------------------------
Init ==
  /\ queue = <<>>
  /\ isClose = FALSE
  /\ pc = [p \in Procs |-> IF p \in Workers THEN "lock" ELSE "out"]
  /\ running = [w \in Workers |-> NoTask]
  /\ added = {} /\ done = {}

CallerStep(c) == (\E t \in Tasks : AddTask(c, t)) \/ NotifyOne(c) \/ Destroy(c) \/ NotifyAll(c)

(* What a thread does unless it sleeps.                                    *)
Loop(w) == Lock(w) \/ TestClose(w) \/ Take(w) \/ Wait(w) \/ Finish(w)

Next ==
  \/ \E c \in Callers : CallerStep(c)
  \/ \E w \in Workers : Loop(w) \/ SpuriousWakeup(w)

Spec == Init /\ [][Next]_vars

(* Threads that do not sleep run, tasks return, and a caller that has      *)
(* handed over a task gets to its notify.                                  *)
FairSpec ==
  /\ Spec
  /\ \A w \in Workers : WF_vars(Loop(w))
  /\ \A c \in Callers : WF_vars(NotifyOne(c)) /\ WF_vars(NotifyAll(c))

----------------------------------------------------------------------------
(***************************************************************************)
(* Properties                                                              *)
(***************************************************************************)

Labels == {"lock", "waiting", "woken", "test", "take", "task", "ended",
           "out", "notify", "notifyAll", "gone"}

(* The variables keep to their types, and a thread has a task in its hands *)
(* exactly while it runs one.                                              *)
TypeOK ==
  /\ queue \in Seq(Tasks)
  /\ isClose \in BOOLEAN
  /\ pc \in [Procs -> Labels]
  /\ \A w \in Workers :
       /\ pc[w] \notin {"out", "notify", "notifyAll", "gone"}
       /\ (running[w] \in Tasks) <=> (pc[w] = "task")
  /\ running \in [Workers -> Tasks \cup {NoTask}]
  /\ added \in SUBSET Tasks /\ done \in SUBSET Tasks

(* Those who are about to look at the queue, or to wake somebody who will. *)
Coming == At("notify") \cup At("woken") \cup At("test") \cup At("take")

(* No wake-up is lost: as long as a thread sleeps, every waiting task has  *)
(* somebody of its own on the way to it, although notify_one is called     *)
(* after the mutex is released and other threads take tasks in between.    *)
WorkConserving ==
  At("waiting") # {} /\ ~isClose => Len(queue) <= Cardinality(Coming)

(* A task that has been handed over is run, unless the pool is destroyed.  *)
TaskIsRun == \A t \in Tasks : (t \in added) ~> (t \in done \/ isClose)

(* The pool implements the queue of tasks HttpServer relies on.            *)
Abstract == INSTANCE TaskQueue
ImplementsTaskQueue == Abstract!Spec

=============================================================================
