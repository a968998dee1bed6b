----------------------------- MODULE MCGuiLink -----------------------------
(***************************************************************************)
(* A program and a controller with two registers, and what the user does   *)
(* with them.                                                              *)
(***************************************************************************)
EXTENDS GuiLink

Watching == [polled |-> {}, enums |-> {}, probed |-> {}, edits |-> {}, commands |-> {}, user |-> {},
             sameFrame |-> FALSE, drops |-> 0]

\* A polled register is edited, lines are lost, the link is closed and opened.
Editing == [Watching EXCEPT !.polled = {0}, !.edits = {0}, !.user = {"close"}, !.drops = 1]
\* A register with named values is edited.
Naming == [Watching EXCEPT !.enums = {1}, !.edits = {1}]
\* Single registers are fetched anew.
Refreshing == [Watching EXCEPT !.user = {"refresh"}]
\* A probe changes a register.
Probing == [Watching EXCEPT !.probed = {1}, !.commands = {"probe"}]
\* A command runs while lines are lost.
Losing == [Watching EXCEPT !.commands = {"plain"}, !.drops = 1]
\* Commands and grabs overlap, a popup is closed before its command is over.
Commanding == [Watching EXCEPT !.polled = {0}, !.commands = {"plain", "grab"}, !.user = {"dismiss"}]

SixSetups == {Editing, Naming, Refreshing, Probing, Losing, Commanding}

ASSUME SetupsEditApart == EditsApart
=============================================================================
