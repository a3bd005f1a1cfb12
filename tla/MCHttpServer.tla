---------------------------- MODULE MCHttpServer ----------------------------
(* HttpServer for TLC: with all the workers; with one worker, and requests *)
(* in two pieces, a limit of one user, or timers.                          *)
EXTENDS HttpServer, TLC

Plain == [timeout |-> FALSE, pool |-> {CHOOSE w \in Workers : TRUE}, users |-> 2,
          parts |-> 1]

Timed == [Plain EXCEPT !.timeout = TRUE]

All == {[Plain EXCEPT !.pool = Workers], [Plain EXCEPT !.parts = 2],
        [Plain EXCEPT !.users = 1], Timed}

OnlyTimed == {[Timed EXCEPT !.users = 1]}
=============================================================================
