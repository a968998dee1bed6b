---------------------------- MODULE MCEpcanPipe ----------------------------
(***************************************************************************)
(* Two nodes: one follows the other, one answers, one has two sources.     *)
(***************************************************************************)
EXTENDS EpcanPipe, TLC

Pipe(n, mode, id, inject, startup) ==
  [node |-> n, MODE |-> mode, ID |-> id, inject_ID |-> inject, STARTUP |-> startup, rate |-> 1]

\* Node 1 sends its setpoint while it runs; node 2 is started by it.
Followed ==
  [ep |-> (1 :> Pipe(1, "OUTGOING_REGULAR", "set", "set", TRUE))
          @@ (2 :> Pipe(2, "INCOMING", "set", "set", TRUE))
          @@ (3 :> Pipe(2, "DISABLED", "back", "set", FALSE)),
   commands |-> (1 :> {"LU_STARTUP", "LU_SHUTDOWN"}) @@ (2 :> {}),
   foreign  |-> {}]

\* Node 2 answers each frame of node 1 and sends a register of its own.
Answered ==
  [ep |-> (1 :> Pipe(1, "OUTGOING_REGULAR", "set", "set", FALSE))
          @@ (2 :> [Pipe(2, "OUTGOING_REGULAR", "set", "set", FALSE) EXCEPT !.rate = 2])
          @@ (3 :> Pipe(2, "OUTGOING_INJECTED", "back", "set", FALSE)),
   commands |-> (1 :> {}) @@ (2 :> {}),
   foreign  |-> {"set"}]

\* Frames of two sources start node 1, and so do its own inputs.
Shared ==
  [ep |-> (1 :> Pipe(1, "INCOMING", "set", "set", TRUE))
          @@ (2 :> Pipe(1, "INCOMING", "back", "set", TRUE))
          @@ (3 :> Pipe(2, "DISABLED", "set", "set", FALSE)),
   commands |-> (1 :> {"LU_STARTUP"}) @@ (2 :> {}),
   foreign  |-> {"set", "back"}]

ThreeSetups == {Followed, Answered, Shared}
=============================================================================
