-------------------------- MODULE ThreadPoolProofs --------------------------
(***************************************************************************)
(* ThreadPool, proved for every number of tasks, threads and callers: no   *)
(* wake-up is lost, and the pool implements TaskQueue.                     *)
(***************************************************************************)
EXTENDS ThreadPool, FiniteSetTheorems, TLAPS

(* Every step keeps the types, and a thread's hands agree with its pc.     *)
LEMMA TypeStep == TypeOK /\ [Next]_vars => TypeOK'
<1> SUFFICES ASSUME TypeOK, [Next]_vars PROVE TypeOK'
  OBVIOUS
<1> USE PoolAssumption DEF TypeOK, Goto, Procs, Labels
<1>1. ASSUME NEW c \in Callers, NEW t \in Tasks, AddTask(c, t) PROVE TypeOK'
  BY <1>1 DEF AddTask
<1>2. ASSUME NEW c \in Callers, NotifyOne(c) PROVE TypeOK'
  BY <1>2 DEF NotifyOne, At
<1>3. ASSUME NEW c \in Callers, Destroy(c) PROVE TypeOK'
  BY <1>3 DEF Destroy
<1>4. ASSUME NEW c \in Callers, NotifyAll(c) PROVE TypeOK'
  BY <1>4 DEF NotifyAll
<1>5. ASSUME NEW w \in Workers, Lock(w) PROVE TypeOK'
  BY <1>5 DEF Lock
<1>6. ASSUME NEW w \in Workers, TestClose(w) PROVE TypeOK'
  BY <1>6 DEF TestClose
<1>7. ASSUME NEW w \in Workers, Take(w) PROVE TypeOK'
  <2>1. Head(queue) \in Tasks /\ Tail(queue) \in Seq(Tasks)
    BY <1>7 DEF Take
  <2>2. QED
    BY <1>7, <2>1 DEF Take
<1>8. ASSUME NEW w \in Workers, Wait(w) PROVE TypeOK'
  BY <1>8 DEF Wait
<1>9. ASSUME NEW w \in Workers, Finish(w) PROVE TypeOK'
  BY <1>9 DEF Finish
<1>10. ASSUME NEW w \in Workers, SpuriousWakeup(w) PROVE TypeOK'
  BY <1>10 DEF SpuriousWakeup
<1>11. CASE UNCHANGED vars
  BY <1>11 DEF vars
<1>12. QED
  BY <1>1, <1>2, <1>3, <1>4, <1>5, <1>6, <1>7, <1>8, <1>9, <1>10, <1>11
  DEF Next, CallerStep, Loop

----------------------------------------------------------------------------
(* Counting those on the way to the queue.                                 *)
LEMMA ProcsFinite == IsFiniteSet(Procs)
  BY PoolAssumption, FS_Union DEF Procs

(* The threads on their way to the queue can be counted.                   *)
LEMMA ComingFinite == IsFiniteSet(Coming) /\ Cardinality(Coming) \in Nat
<1>1. Coming \subseteq Procs
  BY DEF Coming, At
<1>2. QED
  BY <1>1, ProcsFinite, FS_Subset, FS_CardinalityType

(* The same, after a step.                                                 *)
LEMMA ComingPrimed == IsFiniteSet(Coming') /\ Cardinality(Coming') \in Nat
<1>1. Coming' \subseteq Procs
  BY DEF Coming, At
<1>2. QED
  BY <1>1, ProcsFinite, FS_Subset, FS_CardinalityType

(* No step loses a wake-up: who takes a task or stops coming leaves no     *)
(* task behind, and notify_one replaces the caller by the thread it wakes. *)
LEMMA WorkStep == TypeOK /\ WorkConserving /\ [Next]_vars => WorkConserving'
<1> SUFFICES ASSUME TypeOK, WorkConserving, [Next]_vars,
                    At("waiting")' # {}, ~ isClose'
             PROVE  Len(queue') <= Cardinality(Coming')
  BY DEF WorkConserving
<1> USE DEF Goto
<1>a. IsFiniteSet(Coming) /\ Cardinality(Coming) \in Nat
  BY ComingFinite
<1>b. pc \in [Procs -> Labels] /\ queue \in Seq(Tasks) /\ Len(queue) \in Nat
  BY DEF TypeOK
<1>c. IsFiniteSet(Coming') /\ Cardinality(Coming') \in Nat
  BY ComingPrimed
<1>d. ASSUME Coming \subseteq Coming' PROVE Cardinality(Coming) <= Cardinality(Coming')
  BY <1>c, <1>d, FS_Subset
<1>e. ASSUME At("waiting") # {}, ~ isClose PROVE Len(queue) <= Cardinality(Coming)
  BY <1>e DEF WorkConserving
<1>1. ASSUME NEW c \in Callers, NEW t \in Tasks, AddTask(c, t)
      PROVE  Len(queue') <= Cardinality(Coming')
  <2>1. Coming' = Coming \cup {c} /\ c \notin Coming
    BY <1>1, <1>b DEF AddTask, Coming, At, Procs
  <2>2. Cardinality(Coming') = Cardinality(Coming) + 1
    BY <2>1, <1>a, FS_AddElement
  <2>3. At("waiting") # {} /\ ~ isClose
    BY <1>1, <1>b DEF AddTask, At, Procs
  <2>4. Len(queue') = Len(queue) + 1
    BY <1>1, <1>b DEF AddTask
  <2>5. QED
    BY <2>2, <2>3, <2>4, <1>a, <1>b, <1>e
<1>2. ASSUME NEW c \in Callers, NotifyOne(c)
      PROVE  Len(queue') <= Cardinality(Coming')
  <2>1. At("waiting") # {}
    BY <1>2, <1>b DEF NotifyOne, At, Procs
  <2>2. PICK w \in At("waiting") : pc' = [pc EXCEPT ![c] = "out", ![w] = "woken"]
    BY <1>2, <2>1 DEF NotifyOne
  <2>3. c \in Coming /\ w \notin Coming /\ w # c /\ Coming' = (Coming \ {c}) \cup {w}
    BY <1>2, <2>2, <1>b DEF NotifyOne, Coming, At, Procs
  <2>4. IsFiniteSet(Coming \ {c}) /\ Cardinality(Coming \ {c}) = Cardinality(Coming) - 1
    BY <2>3, <1>a, FS_RemoveElement
  <2>5. Cardinality(Coming') = Cardinality(Coming \ {c}) + 1
    BY <2>3, <2>4, FS_AddElement
  <2>6. queue' = queue /\ isClose' = isClose
    BY <1>2 DEF NotifyOne
  <2>7. QED
    BY <2>1, <2>4, <2>5, <2>6, <1>a, <1>b, <1>e
<1>3. ASSUME NEW c \in Callers, Destroy(c)
      PROVE  Len(queue') <= Cardinality(Coming')
  BY <1>3 DEF Destroy
<1>4. ASSUME NEW c \in Callers, NotifyAll(c)
      PROVE  Len(queue') <= Cardinality(Coming')
  BY <1>4 DEF NotifyAll, At
<1>5. ASSUME NEW w \in Workers, Lock(w)
      PROVE  Len(queue') <= Cardinality(Coming')
  <2>1. Coming \subseteq Coming' /\ At("waiting") # {} /\ queue' = queue /\ ~ isClose
    BY <1>5, <1>b DEF Lock, Coming, At, Procs
  <2>2. QED
    BY <2>1, <1>a, <1>b, <1>c, <1>d, <1>e
<1>6. ASSUME NEW w \in Workers, TestClose(w)
      PROVE  Len(queue') <= Cardinality(Coming')
  <2>1. Coming \subseteq Coming' /\ At("waiting") # {} /\ queue' = queue /\ ~ isClose
    BY <1>6, <1>b DEF TestClose, Coming, At, Procs
  <2>2. QED
    BY <2>1, <1>a, <1>b, <1>c, <1>d, <1>e
<1>7. ASSUME NEW w \in Workers, Take(w)
      PROVE  Len(queue') <= Cardinality(Coming')
  <2>1. w \in Coming /\ Coming' = Coming \ {w} /\ At("waiting") # {} /\ ~ isClose
    BY <1>7, <1>b DEF Take, Coming, At, Procs
  <2>2. Cardinality(Coming') = Cardinality(Coming) - 1
    BY <2>1, <1>a, FS_RemoveElement
  <2>3. Len(queue') = Len(queue) - 1
    BY <1>7, <1>b DEF Take
  <2>4. QED
    BY <2>1, <2>2, <2>3, <1>a, <1>b, <1>e
<1>8. ASSUME NEW w \in Workers, Wait(w)
      PROVE  Len(queue') <= Cardinality(Coming')
  BY <1>8, <1>c DEF Wait
<1>9. ASSUME NEW w \in Workers, Finish(w)
      PROVE  Len(queue') <= Cardinality(Coming')
  <2>1. Coming \subseteq Coming' /\ At("waiting") # {} /\ queue' = queue /\ ~ isClose
    BY <1>9, <1>b DEF Finish, Coming, At, Procs
  <2>2. QED
    BY <2>1, <1>a, <1>b, <1>c, <1>d, <1>e
<1>10. ASSUME NEW w \in Workers, SpuriousWakeup(w)
       PROVE  Len(queue') <= Cardinality(Coming')
  <2>1. Coming \subseteq Coming' /\ At("waiting") # {} /\ queue' = queue /\ ~ isClose
    BY <1>10, <1>b DEF SpuriousWakeup, Coming, At, Procs
  <2>2. QED
    BY <2>1, <1>a, <1>b, <1>c, <1>d, <1>e
<1>11. CASE UNCHANGED vars
  BY <1>11, <1>e DEF vars, Coming, At
<1>12. QED
  BY <1>1, <1>2, <1>3, <1>4, <1>5, <1>6, <1>7, <1>8, <1>9, <1>10, <1>11
  DEF Next, CallerStep, Loop

----------------------------------------------------------------------------
IInv == TypeOK /\ WorkConserving

(* The pool is constructed in a state that satisfies IInv.                 *)
LEMMA InitInv == Init => IInv
<1> SUFFICES ASSUME Init PROVE IInv
  OBVIOUS
<1>1. TypeOK
  <2>1. pc \in [Procs -> Labels]
    BY DEF Init, Labels
  <2>2. ASSUME NEW w \in Workers
        PROVE  pc[w] = "lock" /\ running[w] = NoTask
    BY <2>2 DEF Init, Procs
  <2>3. queue \in Seq(Tasks)
    BY DEF Init
  <2>4. isClose \in BOOLEAN /\ added \in SUBSET Tasks /\ done \in SUBSET Tasks
    BY DEF Init
  <2>5. running \in [Workers -> Tasks \cup {NoTask}]
    BY DEF Init
  <2>6. QED
    BY <2>1, <2>2, <2>3, <2>4, <2>5, PoolAssumption DEF TypeOK
<1>2. At("waiting") = {}
  BY DEF Init, At
<1>3. QED
  BY <1>1, <1>2 DEF IInv, WorkConserving

(* AddTask, the destructor and the threads' loop keep IInv.                *)
THEOREM Invariance == Spec => []IInv
<1>1. IInv /\ [Next]_vars => IInv'
  BY TypeStep, WorkStep DEF IInv
<1>2. QED
  BY InitInv, <1>1, PTL DEF Spec

(* The pool keeps its types, and a thread has a task exactly while it runs *)
(* one.                                                                    *)
THEOREM TypeCorrect == Spec => []TypeOK
  BY Invariance, PTL DEF IInv

(* No wake-up is lost: while a thread sleeps on cond_, every task in       *)
(* tasks_queue_ has somebody on the way to it.                             *)
THEOREM NoLostWakeup == Spec => []WorkConserving
  BY Invariance, PTL DEF IInv

----------------------------------------------------------------------------
(* Every step of the pool is a step of the abstract queue, or none.        *)
LEMMA RefinementStep == TypeOK /\ [Next]_vars => [Abstract!Next]_<<added, queue, running, done>>
<1> SUFFICES ASSUME TypeOK, [Next]_vars,
                    ~ UNCHANGED <<added, queue, running, done>>
             PROVE  Abstract!Next
  OBVIOUS
<1>a. ASSUME NEW w \in Workers PROVE running[w] = NoTask <=> pc[w] # "task"
  <2>1. running[w] \in Tasks \cup {NoTask} /\ (running[w] \in Tasks <=> pc[w] = "task")
    BY DEF TypeOK
  <2>2. QED
    BY <2>1, PoolAssumption
<1>1. ASSUME NEW c \in Callers, NEW t \in Tasks, AddTask(c, t) PROVE Abstract!Next
  BY <1>1 DEF AddTask, Abstract!Next, Abstract!Add
<1>2. ASSUME NEW w \in Workers, Take(w) PROVE Abstract!Next
  BY <1>2, <1>a DEF Take, Abstract!Next, Abstract!Start
<1>3. ASSUME NEW w \in Workers, Finish(w) PROVE Abstract!Next
  BY <1>3, <1>a DEF Finish, Abstract!Next, Abstract!Finish
<1>4. QED
  BY <1>1, <1>2, <1>3 DEF Next, CallerStep, Loop, NotifyOne, Destroy, NotifyAll, Lock,
     TestClose, Wait, SpuriousWakeup, vars

(* The pool implements TaskQueue: no task is lost, run twice or overtaken. *)
THEOREM Refinement == Spec => ImplementsTaskQueue
<1>1. Init => Abstract!Init
  BY DEF Init, Abstract!Init
<1>2. QED
  BY <1>1, RefinementStep, TypeCorrect, PTL DEF Spec, ImplementsTaskQueue, Abstract!Spec
=============================================================================
