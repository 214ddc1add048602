------------------------------ MODULE MCScreen ------------------------------
(* Two screen sizes, one a row and a column larger than the other.  The     *)
(* watchers only read and do not see each other, so a behaviour has a       *)
(* monitor and a client or two resize requests, or a Wait and one request,  *)
(* or resizes of two clients, or of a client and two requests, that         *)
(* nobody watches.  Without a watcher the output changes no row, and        *)
(* without a Wait it does not end: nothing that is left looks at either.    *)
EXTENDS Screen

CONSTANTS a1, a2, r1

MCSizes == {<<2, 2>>, <<3, 3>>}
MCDefaultSize == <<2, 2>>

Active == {p \in DOMAIN resizer : resizer[p].pc = "idle"}

MCInit ==
  /\ ScreenInit
  /\ \/ mon.pc = "prime" /\ wait.pc = "done" /\ Active \in {{a1}, Rests}
     \/ mon.pc = "gone" /\ wait.pc = "look" /\ Active = {r1}
     \/ mon.pc = "gone" /\ wait.pc = "done" /\ Active \in {{a1, a2}, {a1} \cup Rests}

MCNext ==
  /\ ScreenNext
  /\ wait.pc = "done" => exited' = exited
  /\ mon.pc = "gone" /\ wait.pc = "done" /\ chunks' # chunks => grid' = grid

MCSpec == MCInit /\ [][MCNext]_screenVars /\ WF_screenVars(Monitor)
=============================================================================
