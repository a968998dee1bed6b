------------------------------ MODULE Mailbox ------------------------------
(***************************************************************************)
(* The machine as the tasks and the network see it: they post requests in  *)
(* pm.fsm_req, which pm_FSM (src/phobia/pm_fsm.c) empties in every cycle.  *)
(* What a procedure does is in PmFsm; here one is in progress or not.      *)
(***************************************************************************)

Procs    == {"IDLE", "LU_SHUTDOWN", "BUSY"}
Requests == {"LU_STARTUP", "LU_SHUTDOWN", "PROBE", "HALT"}

\* lu: whether lu_MODE is on. proc: the procedure in progress, where BUSY is a
\* probe while lu is on and a probe or a halt otherwise.
Machines == [lu : BOOLEAN, proc : Procs]
Stopped  == [lu |-> FALSE, proc |-> "IDLE"]

Accepts(m, req) ==
  CASE req = "LU_STARTUP"  -> m.proc = "IDLE" /\ ~ m.lu
    [] req = "LU_SHUTDOWN" -> m.proc = "IDLE" /\ m.lu
    [] req = "PROBE"       -> m.proc = "IDLE"
    [] req = "HALT"        -> m.proc # "IDLE" \/ m.lu
    [] OTHER               -> FALSE

\* A startup may fail, into IDLE or HALT; a halt stops the machine and takes time.
Taken(m, req) ==
  CASE req = "LU_STARTUP" ->
         {[lu |-> TRUE, proc |-> "IDLE"], Stopped, [lu |-> FALSE, proc |-> "BUSY"]}
    [] req = "LU_SHUTDOWN" -> {[m EXCEPT !.proc = req]}
    [] req = "PROBE"       -> {[m EXCEPT !.proc = "BUSY"]}
    [] req = "HALT"        -> {[lu |-> FALSE, proc |-> "BUSY"]}

\* A procedure goes on, ends, or fails into a halt; a shutdown ends stopped.
Progress(m) ==
  {m} \cup
  (IF m.proc = "IDLE" THEN {} ELSE {[lu |-> m.lu /\ m.proc # "LU_SHUTDOWN", proc |-> "IDLE"]}) \cup
  (IF m.proc = "BUSY" THEN {[m EXCEPT !.lu = FALSE]} ELSE {})

\* The machine after a cycle that found req in the mailbox.
After(m, req) == IF Accepts(m, req) THEN Taken(m, req) ELSE Progress(m)
=============================================================================
