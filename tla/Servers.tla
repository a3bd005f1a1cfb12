------------------------------- MODULE Servers -------------------------------
(***************************************************************************)
(* The processes of the program: main (Sources/main.cpp) reads the         *)
(* configuration (Sources/config/config_parser.h), forks one server for    *)
(* each document and reaps those that end; each server is an HttpServer,   *)
(* of which there is here only that it starts, or does not, and ends.      *)
(*                                                                         *)
(* Of a document only proxy_pass can be refused.  It is taken apart        *)
(* already: [protocol, port, path], where NoPart is a part that is missing *)
(* and NoProxy a document without it.                                      *)
(***************************************************************************)
EXTENDS Integers, Sequences, FiniteSetsExt

CONSTANTS
  MaxPid,   \* bound on processes: fork() fails beyond it
  DocLists, \* the configurations: sequences of documents, by `include'
  NoProxy,  \* a document without a proxy_pass
  NoPart    \* of a proxy_pass

VARIABLES
  docs,  \* the documents of this behaviour
  proc   \* the processes

vars == <<docs, proc>>

Pids == 1 .. MaxPid
Main == 1

(* `item' is the place in the loop over configs; `sigchld' a SIGCHLD that  *)
(* is pending (one stands for any number), `handling' that HandleChild     *)
(* runs, `guarded' that PR_SET_PDEATHSIG is set.                           *)
NoProc == [pc |-> "none", item |-> 1, parent |-> 0, sigchld |-> FALSE,
           handling |-> FALSE, guarded |-> FALSE]

Alive(p) == p \in Pids /\ proc[p].pc \notin {"none", "zombie", "gone"}
At(p, l) == Alive(p) /\ proc[p].pc = l /\ ~proc[p].handling

----------------------------------------------------------------------------
(***************************************************************************)
(* ConfigParser                                                            *)
(***************************************************************************)

(* ParseErrorHanding exits, and std::string and std::stoi throw: with a    *)
(* protocol that is neither, without port and path, or when the host is    *)
(* not found.  Without a port, but with a path, nobody looks for the host. *)
ProxyParses(u, found) ==
  /\ u.protocol \in {"http", "https"}
  /\ u.port = NoPart => u.path # NoPart
  /\ u.port # NoPart => found

Parses(d, found) == d # NoProxy => ProxyParses(d, found)

----------------------------------------------------------------------------
(***************************************************************************)
(* main, and the kernel's side of fork, exit and waitpid                   *)
(***************************************************************************)

(* What ends with p: its parent hears of it, the zombies it has left are   *)
(* nobody's, and its children are killed if they have asked to be.         *)
Ended(p) ==
  [q \in Pids |->
    CASE q = p ->
           [proc[q] EXCEPT !.pc = IF Alive(proc[p].parent) THEN "zombie" ELSE "gone"]
      [] q = proc[p].parent -> [proc[q] EXCEPT !.sigchld = TRUE]
      [] proc[q].parent = p /\ (proc[q].guarded \/ proc[q].pc = "zombie") ->
           [proc[q] EXCEPT !.pc = "gone"]
      [] OTHER -> proc[q]]

(* The parser, then AddSig; one document that does not parse ends it all.  *)
ReadConfig ==
  /\ At(Main, "parse")
  /\ \E found \in BOOLEAN :
       IF \A i \in DOMAIN docs : Parses(docs[i], found)
       THEN proc' = [proc EXCEPT ![Main].pc = "fork"]
       ELSE proc' = Ended(Main)
  /\ UNCHANGED docs

Unborn == {p \in Pids : proc[p].pc = "none"}

Fork(p) ==
  /\ At(p, "fork")
  /\ proc[p].item <= Len(docs) /\ Unborn # {}
  /\ proc' = [proc EXCEPT
       ![Min(Unborn)] = [NoProc EXCEPT !.pc = "born", !.item = proc[p].item, !.parent = p],
       ![p].item = @ + 1]
  /\ UNCHANGED docs

(* -1 is not 0: the document gets no server.                               *)
ForkFails(p) ==
  /\ At(p, "fork")
  /\ proc[p].item <= Len(docs)
  /\ proc' = [proc EXCEPT ![p].item = @ + 1]
  /\ UNCHANGED docs

Pause(p) ==
  /\ At(p, "fork")
  /\ proc[p].item > Len(docs)
  /\ proc' = [proc EXCEPT ![p].pc = "pause"]
  /\ UNCHANGED docs

(* The handler is entered, with all signals masked, wherever the process   *)
(* is; waitpid takes one zombie after the other; it returns when there are *)
(* none.                                                                   *)
Zombies(p) == {q \in Pids : proc[q].parent = p /\ proc[q].pc = "zombie"}

Interrupt(p) ==
  /\ Alive(p) /\ proc[p].sigchld /\ ~proc[p].handling
  /\ proc' = [proc EXCEPT ![p].sigchld = FALSE, ![p].handling = TRUE]
  /\ UNCHANGED docs

Reap(p) ==
  /\ Alive(p) /\ proc[p].handling
  /\ \E q \in Zombies(p) : proc' = [proc EXCEPT ![q].pc = "gone"]
  /\ UNCHANGED docs

HandlerReturns(p) ==
  /\ Alive(p) /\ proc[p].handling /\ Zombies(p) = {}
  /\ proc' = [proc EXCEPT ![p].handling = FALSE]
  /\ UNCHANGED docs

(* main has no handler for what it may be ended with.                      *)
MainKilled ==
  /\ Alive(Main)
  /\ proc' = Ended(Main)
  /\ UNCHANGED docs

----------------------------------------------------------------------------
(***************************************************************************)
(* The servers                                                             *)
(***************************************************************************)

(* prctl: nothing happens if the parent has ended by now.                  *)
Watch(p) ==
  /\ At(p, "born")
  /\ proc' = [proc EXCEPT ![p].guarded = TRUE, ![p].pc = "construct"]
  /\ UNCHANGED docs

Construct(p) ==
  /\ At(p, "construct")
  /\ proc' = [proc EXCEPT ![p].pc = "run"]
  /\ UNCHANGED docs

(* The upstream server cannot be reached: exit(2).  InitSocket fails: Run  *)
(* returns at once, and so does the child.                                 *)
ConstructFails(p) ==
  /\ At(p, "construct")
  /\ proc' = Ended(p)
  /\ UNCHANGED docs

(* A running server never returns, but an exception nobody catches ends    *)
(* it, or a signal.                                                        *)
Crash(p) ==
  /\ At(p, "run")
  /\ proc' = Ended(p)
  /\ UNCHANGED docs

----------------------------------------------------------------------------
Init ==
  /\ docs \in DocLists
  /\ proc = [p \in Pids |-> IF p = Main THEN [NoProc EXCEPT !.pc = "parse"] ELSE NoProc]

HandleChild(p) == Interrupt(p) \/ Reap(p) \/ HandlerReturns(p)

MainStep == ReadConfig \/ MainKilled

ProcessStep(p) ==
  \/ Fork(p) \/ ForkFails(p) \/ Pause(p) \/ HandleChild(p)
  \/ Watch(p) \/ Construct(p) \/ ConstructFails(p) \/ Crash(p)

Next == MainStep \/ \E p \in Pids : ProcessStep(p)

Spec == Init /\ [][Next]_vars

----------------------------------------------------------------------------
(* main.cpp:62, "kill child when parent exit": no server serves when main  *)
(* has ended, however it did, whichever of its children had come how far.  *)
NobodyOutlivesMain == proc[Main].pc = "gone" => \A p \in Pids : proc[p].pc # "run"

=============================================================================
