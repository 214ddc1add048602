------------------------------- MODULE Manager -------------------------------
(***************************************************************************)
(* The session registry (internal/session/manager.go): idempotent and      *)
(* resurrecting creation, DELETE requests, and the expiry sweep, over      *)
(* sessions that each own a terminal process.                              *)
(*                                                                         *)
(* m.mu is held for one action everywhere but in the sweep, which holds it *)
(* across the blocking Session.Destroy; a DELETE request gives it up       *)
(* around the same call.  A session is seen from outside, as SessionOwner  *)
(* specifies it: attached to somebody or not, destroyed or not.  The       *)
(* sessions are numbered in the order of their creation, and stay in the   *)
(* model after they left the registry: handlers keep pointers to them.     *)
(***************************************************************************)
EXTENDS Naturals, Sequences, FiniteSets

CONSTANTS
  Ids,          \* session ids
  Deletes,      \* the DELETE requests
  Sweeper,      \* the maintenance goroutine
  MaxSession,   \* --max-session, 0 = unlimited
  IdleTimeout,  \* whether an idle timeout is configured
  MaxCreated    \* bound: sessions created in a behaviour

ASSUME ManagerAssumption ==
  /\ Ids # {}
  /\ Sweeper \notin Deletes
  /\ MaxSession \in Nat /\ MaxCreated \in Nat
  /\ IdleTimeout \in BOOLEAN

VARIABLES
  objs,         \* every session ever created
  sessions,     \* m.sessions: the number of the session registered under an id, 0 = none
  runs,         \* the store: how often the command of an id was started, 0 = no record
  locked,       \* the sweep holds m.mu
  todo,         \* the ids the sweep has not looked at yet
  call          \* the Destroy of each caller: pc, id, and the session it holds

vars == <<objs, sessions, runs, locked, todo, call>>

Callers == Deletes \cup {Sweeper}
Created == DOMAIN objs

NoCall == [pc |-> "none", id |-> CHOOSE id \in Ids : TRUE, obj |-> 0]

\* New: the process is started and nobody is attached.
NewSession(id) == [id |-> id, attached |-> FALSE, destroyed |-> FALSE, proc |-> "running", stale |-> FALSE]

Exited(o)    == objs[o].proc = "exited"
Destroyed(o) == objs[o].destroyed

Init ==
  /\ objs = <<>>
  /\ sessions = [id \in Ids |-> 0]
  /\ runs = [id \in Ids |-> 0]
  /\ locked = FALSE
  /\ todo = {}
  /\ call = [t \in Callers |-> NoCall]

-----------------------------------------------------------------------------
(* CreateWithID.  That it finds a session alive changes nothing; refusal    *)
(* and a failed start change nothing either.                               *)

Alive(id) == sessions[id] # 0 /\ ~Exited(sessions[id])

Registered == {id \in Ids : sessions[id] # 0}

Full == MaxSession > 0 /\ Cardinality(Registered) >= MaxSession

\* A fresh session, or one resurrected from its record.
Create(id) ==
  /\ ~locked /\ ~Alive(id) /\ ~Full
  /\ Len(objs) < MaxCreated
  /\ objs' = Append(objs, NewSession(id))
  /\ sessions' = [sessions EXCEPT ![id] = Len(objs) + 1]
  /\ runs' = [runs EXCEPT ![id] = @ + 1]
  /\ UNCHANGED <<locked, todo, call>>

-----------------------------------------------------------------------------
(* The session and its process.                                            *)

Update(o, field, value) == objs' = [objs EXCEPT ![o][field] = value]

\* Attaches and their ends touch the session, with the pointer that Get gave
\* them some time before.
Attach(o) ==
  /\ ~Destroyed(o) /\ ~objs[o].attached
  /\ objs' = [objs EXCEPT ![o].attached = TRUE, ![o].stale = FALSE]
  /\ UNCHANGED <<sessions, runs, locked, todo, call>>

Leave(o) ==
  /\ ~Destroyed(o) /\ objs[o].attached
  /\ objs' = [objs EXCEPT ![o].attached = FALSE, ![o].stale = FALSE]
  /\ UNCHANGED <<sessions, runs, locked, todo, call>>

\* lastTouched is an idle timeout ago.
IdleTooLong(o) ==
  /\ IdleTimeout
  /\ ~objs[o].stale
  /\ Update(o, "stale", TRUE)
  /\ UNCHANGED <<sessions, runs, locked, todo, call>>

\* The process ends, by itself or because it was told to; its goroutine
\* collects it first and closes term.exited afterwards.
ProcessEnds(o) ==
  /\ objs[o].proc = "running"
  /\ Update(o, "proc", "reaped")
  /\ UNCHANGED <<sessions, runs, locked, todo, call>>

ProcessExited(o) ==
  /\ objs[o].proc = "reaped"
  /\ Update(o, "proc", "exited")
  /\ UNCHANGED <<sessions, runs, locked, todo, call>>

-----------------------------------------------------------------------------
(* Session.Destroy, called by t without a lock of the session held.        *)

Step(t, label) == call' = [call EXCEPT ![t].pc = label]

\* A second call returns at once.
DestroyMark(t) ==
  /\ call[t].pc = "mark"
  /\ IF Destroyed(call[t].obj)
       THEN Step(t, "returned") /\ UNCHANGED objs
       ELSE /\ Step(t, "close")
            /\ objs' = [objs EXCEPT ![call[t].obj].destroyed = TRUE, ![call[t].obj].attached = FALSE]
  /\ UNCHANGED <<sessions, runs, locked, todo>>

\* Mutant: Close signals the process and does not wait for it.
CloseNoWait(t) ==
  /\ call[t].pc = "close"
  /\ Step(t, "returned")
  /\ UNCHANGED <<objs, sessions, runs, locked, todo>>

\* Terminal.Close signals the process group, unless the process exited.
CloseSignal(t) ==
  /\ call[t].pc = "close"
  /\ Step(t, IF Exited(call[t].obj) THEN "returned" ELSE "wait")
  /\ UNCHANGED <<objs, sessions, runs, locked, todo>>

CloseWait(t) ==
  /\ call[t].pc = "wait" /\ Exited(call[t].obj)
  /\ Step(t, "returned")
  /\ UNCHANGED <<objs, sessions, runs, locked, todo>>

\* A process that was collected cannot be signalled, be it with the close
\* signal or with SIGKILL: Close fails although the process is gone.
CloseFails(t) ==
  /\ call[t].pc \in {"close", "wait"} /\ objs[call[t].obj].proc = "reaped"
  /\ Step(t, "failed")
  /\ UNCHANGED <<objs, sessions, runs, locked, todo>>

SessionDestroy(t) == DestroyMark(t) \/ CloseSignal(t) \/ CloseWait(t) \/ CloseFails(t)

-----------------------------------------------------------------------------
(* Manager.Destroy for a DELETE request.                                   *)

\* Mutant: that the id is unknown is not noticed.
DeleteLookupUnchecked(d, id) ==
  /\ call[d].pc = "none"
  /\ ~locked
  /\ call' = [call EXCEPT ![d] = [pc |-> "mark", id |-> id, obj |-> sessions[id]]]
  /\ UNCHANGED <<objs, sessions, runs, locked, todo>>

DeleteLookup(d, id) ==
  /\ call[d].pc = "none"
  /\ ~locked
  /\ call' = [call EXCEPT ![d] =
       [pc |-> IF sessions[id] = 0 THEN "failed" ELSE "mark", id |-> id, obj |-> sessions[id]]]
  /\ UNCHANGED <<objs, sessions, runs, locked, todo>>

\* The entry of the id goes, whatever session it holds by now.
DeleteEntry(d) ==
  /\ d # Sweeper /\ call[d].pc = "returned"
  /\ ~locked
  /\ sessions' = [sessions EXCEPT ![call[d].id] = 0]
  /\ Step(d, "done")
  /\ UNCHANGED <<objs, runs, locked, todo>>

-----------------------------------------------------------------------------
(* DestroyExpired, once a second, under m.mu from its begin to its end.     *)

SweepBegin ==
  /\ ~locked
  /\ locked' = TRUE
  /\ todo' = Registered
  /\ UNCHANGED <<objs, sessions, runs, call>>

Sweeping(id) == locked /\ call[Sweeper].pc = "none" /\ id \in todo

\* Mutant: an idle session is dropped from the registry, not destroyed.
SweepDropIdle(id) ==
  /\ Sweeping(id)
  /\ Destroyed(sessions[id]) \/ Exited(sessions[id]) \/ (IdleTimeout /\ objs[sessions[id]].stale)
  /\ todo' = todo \ {id}
  /\ sessions' = [sessions EXCEPT ![id] = 0]
  /\ UNCHANGED <<objs, runs, locked, call>>

\* Mutant: the sweep looks for destroyed sessions only.
SweepDestroyedOnly(id) ==
  /\ Sweeping(id)
  /\ Destroyed(sessions[id])
  /\ todo' = todo \ {id}
  /\ sessions' = [sessions EXCEPT ![id] = 0]
  /\ UNCHANGED <<objs, runs, locked, call>>

Expired(o) == IdleTimeout /\ ~objs[o].attached /\ objs[o].stale

SweepDead(id) ==
  /\ Sweeping(id)
  /\ Destroyed(sessions[id]) \/ Exited(sessions[id])
  /\ todo' = todo \ {id}
  /\ sessions' = [sessions EXCEPT ![id] = 0]
  /\ UNCHANGED <<objs, runs, locked, call>>

\* The session was idle for too long when it was looked at; Session.Destroy
\* follows, outside the session's lock.
SweepExpired(id) ==
  /\ Sweeping(id)
  /\ ~Destroyed(sessions[id]) /\ ~Exited(sessions[id]) /\ Expired(sessions[id])
  /\ todo' = todo \ {id}
  /\ call' = [call EXCEPT ![Sweeper] = [pc |-> "mark", id |-> id, obj |-> sessions[id]]]
  /\ UNCHANGED <<objs, sessions, runs, locked>>

SweepKeep(id) ==
  /\ Sweeping(id)
  /\ ~Destroyed(sessions[id]) /\ ~Exited(sessions[id]) /\ ~Expired(sessions[id])
  /\ todo' = todo \ {id}
  /\ UNCHANGED <<objs, sessions, runs, locked, call>>

\* Whether Session.Destroy failed is not asked.
SweepEntry ==
  /\ call[Sweeper].pc \in {"returned", "failed"}
  /\ sessions' = [sessions EXCEPT ![call[Sweeper].id] = 0]
  /\ call' = [call EXCEPT ![Sweeper] = NoCall]
  /\ UNCHANGED <<objs, runs, locked, todo>>

SweepEnd ==
  /\ locked /\ todo = {} /\ call[Sweeper].pc = "none"
  /\ locked' = FALSE
  /\ UNCHANGED <<objs, sessions, runs, todo, call>>

Sweep ==
  \/ SweepBegin \/ SweepEntry \/ SweepEnd
  \/ \E id \in Ids : SweepDead(id) \/ SweepExpired(id) \/ SweepKeep(id)

-----------------------------------------------------------------------------
Next ==
  \/ \E id \in Ids : Create(id)
  \/ \E o \in Created :
       Attach(o) \/ Leave(o) \/ IdleTooLong(o) \/ ProcessEnds(o) \/ ProcessExited(o)
  \/ \E t \in Callers : SessionDestroy(t)
  \/ \E d \in Deletes : DeleteEntry(d) \/ \E id \in Ids : DeleteLookup(d, id)
  \/ Sweep

\* A process that was told to end does: Close escalates to SIGKILL.
Told(o) == \E t \in Callers : call[t].pc = "wait" /\ call[t].obj = o

Fairness ==
  /\ WF_vars(Sweep)
  /\ \A t \in Callers : WF_vars(SessionDestroy(t) \/ DeleteEntry(t))
  /\ \A o \in 1..MaxCreated :
       /\ WF_vars(o \in Created /\ Told(o) /\ ProcessEnds(o))
       /\ WF_vars(o \in Created /\ ProcessExited(o))

Spec == Init /\ [][Next]_vars
FairSpec == Spec /\ Fairness

-----------------------------------------------------------------------------
(* Properties.                                                             *)

CallPcs == {"none", "mark", "close", "wait", "returned", "failed", "done"}

TypeOK ==
  /\ objs \in Seq([id : Ids, attached : BOOLEAN, destroyed : BOOLEAN,
                   proc : {"running", "reaped", "exited"}, stale : BOOLEAN])
  /\ Len(objs) <= MaxCreated
  /\ sessions \in [Ids -> 0..Len(objs)]
  /\ runs \in [Ids -> 0..MaxCreated]
  /\ locked \in BOOLEAN
  /\ todo \subseteq Ids
  /\ call \in [Callers -> [pc : CallPcs, id : Ids, obj : 0..Len(objs)]]
  /\ \A t \in Callers : call[t].pc \in {"mark", "close", "wait", "returned", "done"} => call[t].obj # 0

\* A session that is usable: neither destroyed nor exited.
Live(o) == ~Destroyed(o) /\ ~Exited(o)

\* A live session leaves the registry through one door only: the delete at
\* the end of a Manager.Destroy that had looked up an earlier session of the
\* same id.  Creation and the sweep never drop one.
LiveDroppedOnlyByLateDelete ==
  [][\A id \in Ids : LET o == sessions[id] IN
       (o # 0 /\ sessions'[id] # o /\ Live(o)) =>
         \E d \in Deletes : call[d].pc = "returned" /\ call[d].id = id /\ call[d].obj < o]_vars

\* "Destroy stops the process of the session and removes it from the
\* registry": once a DELETE is answered, the session's process is gone, unless
\* another DELETE of the same session is still closing its terminal: the second
\* Session.Destroy returns at once.  No sweep, no exit and no failure of Close
\* leaves a process behind.
DeleteStopsProcess ==
  \A d \in Deletes : call[d].pc = "done" =>
    \/ objs[call[d].obj].proc # "running"
    \/ \E e \in Deletes \ {d} : call[e].obj = call[d].obj /\ call[e].pc \in {"close", "wait"}

\* "DestroyExpired removes exited and destroyed sessions": one that is dead
\* does not stay registered, even if its Destroy failed half-way.
DeadLeavesRegistry ==
  \A id \in Ids : \A o \in 1..MaxCreated :
    (o \in Created /\ sessions[id] = o /\ ~Live(o)) ~> sessions[id] # o

\* "Manager is the registry and lifecycle owner of all sessions": whoever
\* knows the id of a live session finds it.
LiveIsRegistered == \A o \in Created : Live(o) => sessions[objs[o].id] = o
=============================================================================
