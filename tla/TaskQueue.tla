------------------------------ MODULE TaskQueue ------------------------------
(***************************************************************************)
(* What ThreadPool promises its callers: every task handed to AddTask is   *)
(* started by one thread, in the order of the calls, and runs once.        *)
(* HttpServer is specified over this queue.                                *)
(***************************************************************************)
EXTENDS Sequences

CONSTANTS
  Tasks,    \* the tasks handed over, each a call of its own
  Workers,  \* the pool's threads
  NoTask    \* what an idle thread works on

VARIABLES
  added,    \* tasks handed over so far
  queue,    \* tasks waiting, oldest first
  running,  \* by thread
  done      \* tasks that have returned

Init ==
  /\ added = {}
  /\ queue = <<>>
  /\ running = [w \in Workers |-> NoTask]
  /\ done = {}

Add(t) ==
  /\ t \notin added
  /\ added' = added \cup {t}
  /\ queue' = Append(queue, t)
  /\ UNCHANGED <<running, done>>

Start(w) ==
  /\ running[w] = NoTask
  /\ queue # <<>>
  /\ queue' = Tail(queue)
  /\ running' = [running EXCEPT ![w] = Head(queue)]
  /\ UNCHANGED <<added, done>>

Finish(w) ==
  /\ running[w] # NoTask
  /\ done' = done \cup {running[w]}
  /\ running' = [running EXCEPT ![w] = NoTask]
  /\ UNCHANGED <<added, queue>>

Next ==
  \/ \E t \in Tasks : Add(t)
  \/ \E w \in Workers : Start(w) \/ Finish(w)

Spec == Init /\ [][Next]_<<added, queue, running, done>>
=============================================================================
