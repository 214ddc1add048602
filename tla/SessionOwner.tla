---------------------------- MODULE SessionOwner ----------------------------
(***************************************************************************)
(* What a session promises about ownership, without goroutines, epochs or  *)
(* connections: at any moment at most one attach owns the session, a new   *)
(* attach takes it over at once, an attach that lost the session never     *)
(* gets it back and never disturbs its successor, an attach that returns   *)
(* gives back what it holds, and destruction is final.  Session.tla is     *)
(* shown to implement this specification.                                  *)
(***************************************************************************)
CONSTANTS
  Attaches,     \* the attach operations, one per client channel
  NoOwner       \* the owner of an idle or destroyed session

VARIABLES
  owner,        \* the attach that holds the session, or NoOwner
  phase,        \* each attach: "new", "in" progress, or "out"
  destroyed     \* whether the session was destroyed

vars == <<owner, phase, destroyed>>

Init ==
  /\ owner = NoOwner
  /\ phase = [a \in Attaches |-> "new"]
  /\ destroyed = FALSE

\* Attach a takes the session, from whoever holds it.
Take(a) ==
  /\ ~destroyed /\ phase[a] = "new"
  /\ owner' = a
  /\ phase' = [phase EXCEPT ![a] = "in"]
  /\ UNCHANGED destroyed

Refuse(a) ==
  /\ destroyed /\ phase[a] = "new"
  /\ phase' = [phase EXCEPT ![a] = "out"]
  /\ UNCHANGED <<owner, destroyed>>

\* An attach returns: with its ownership if it still has it, without a trace
\* if another attach has the session.
Leave(a) ==
  /\ phase[a] = "in"
  /\ phase' = [phase EXCEPT ![a] = "out"]
  /\ owner' = IF owner = a THEN NoOwner ELSE owner
  /\ UNCHANGED destroyed

Destroy ==
  /\ ~destroyed
  /\ destroyed' = TRUE
  /\ owner' = NoOwner
  /\ UNCHANGED phase

Next == Destroy \/ \E a \in Attaches : Take(a) \/ Refuse(a) \/ Leave(a)

Spec == Init /\ [][Next]_vars
=============================================================================
