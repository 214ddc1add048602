--------------------------- MODULE ManagerProofs ---------------------------
(***************************************************************************)
(* The registry, for any set of ids, any number of DELETE requests and of  *)
(* sessions, with and without a cap or an idle timeout.                    *)
(***************************************************************************)
EXTENDS Manager, SequenceTheorems, TLAPS

USE ManagerAssumption DEF ManagerAssumption, Created, Callers

SessionRecords ==
  [id : Ids, attached : BOOLEAN, destroyed : BOOLEAN, proc : {"running", "reaped", "exited"}, stale : BOOLEAN]

RegistryTyped ==
  /\ sessions \in [Ids -> 0 .. Len(objs)]
  /\ runs \in [Ids -> Nat]
  /\ \A id \in Ids : runs[id] <= Len(objs)
  /\ locked \in BOOLEAN
  /\ todo \subseteq Registered

CallsTyped ==
  /\ call \in [Callers -> [pc : CallPcs, id : Ids, obj : 0 .. Len(objs)]]
  /\ \A t \in Callers : call[t].pc \in {"mark", "close", "wait", "returned", "done"} => call[t].obj # 0

SessionsTyped == objs \in Seq(SessionRecords) /\ Len(objs) <= MaxCreated

\* The sweep has m.mu while it works, and looks at every id once; so what it destroys is
\* still what is registered.
SweepLocks ==
  /\ ~locked => todo = {} /\ call[Sweeper].pc = "none"
  /\ call[Sweeper].pc # "none" =>
       /\ call[Sweeper].pc # "done"
       /\ call[Sweeper].id \notin todo
       /\ call[Sweeper].obj # 0 /\ sessions[call[Sweeper].id] = call[Sweeper].obj

\* Past the mark the session is destroyed, also when somebody else destroyed it.
CalledIsDestroyed ==
  \A t \in Callers : call[t].pc \in {"close", "wait", "returned", "failed", "done"} /\ call[t].obj # 0
                       => Destroyed(call[t].obj)

\* Numbers are given in order: what a caller looked up is not newer than what is
\* registered under the id now.
LookedUpEarlier ==
  \A t \in Callers : sessions[call[t].id] # 0 => call[t].obj <= sessions[call[t].id]

\* As long as the process of a destroyed session runs, somebody is about to stop it.
KillUnderWay ==
  \A o \in Created : Destroyed(o) /\ objs[o].proc = "running" =>
    \E t \in Callers : call[t].pc \in {"close", "wait"} /\ call[t].obj = o

ITyped    == SessionsTyped /\ RegistryTyped /\ CallsTyped
IRegistry == ITyped /\ SweepLocks /\ CalledIsDestroyed /\ LookedUpEarlier /\ KillUnderWay

-----------------------------------------------------------------------------
(* The sessions.                                                            *)

\* A session is changed in its place.
LEMMA ChangeInPlace ==
  ASSUME SessionsTyped, NEW o \in Created, NEW r \in SessionRecords,
         objs' = [objs EXCEPT ![o] = r]
  PROVE  /\ SessionsTyped' /\ Len(objs') = Len(objs) /\ objs'[o] = r
         /\ \A p \in Created : p # o => objs'[p] = objs[p]
<1>1. objs' \in Seq(SessionRecords) /\ Len(objs') = Len(objs)
  BY ExceptSeq DEF SessionsTyped
<1> QED
  BY <1>1 DEF SessionsTyped

\* What attaches, idling and the end of a process do to a session disturbs nothing.
LEMMA QuietChange ==
  ASSUME IRegistry, NEW o \in Created, NEW r \in SessionRecords,
         objs' = [objs EXCEPT ![o] = r],
         r.destroyed = objs[o].destroyed, r.proc = "running" => objs[o].proc = "running",
         UNCHANGED <<sessions, runs, locked, todo, call>>
  PROVE  IRegistry'
<1>1. /\ SessionsTyped' /\ Len(objs') = Len(objs) /\ objs'[o] = r
      /\ \A p \in Created : p # o => objs'[p] = objs[p]
  BY ChangeInPlace DEF IRegistry, ITyped
<1>2. /\ Created' = Created
      /\ \A p \in Created : /\ Destroyed(p)' = Destroyed(p)
                            /\ objs'[p].proc = "running" => objs[p].proc = "running"
  BY <1>1 DEF IRegistry, ITyped, SessionsTyped, Destroyed
<1>3. RegistryTyped' /\ CallsTyped'
  BY <1>1 DEF IRegistry, ITyped, RegistryTyped, CallsTyped, Registered
<1>4. SweepLocks' /\ LookedUpEarlier'
  BY DEF IRegistry, SweepLocks, LookedUpEarlier
<1>5. CalledIsDestroyed'
  BY <1>1, <1>2 DEF IRegistry, ITyped, CallsTyped, SessionsTyped, CalledIsDestroyed
<1>6. KillUnderWay'
  BY <1>2 DEF IRegistry, KillUnderWay
<1> QED
  BY <1>1, <1>3, <1>4, <1>5, <1>6 DEF IRegistry, ITyped

\* Attaches and their ends, idling, and the end of a process.
LEMMA SessionStepInv ==
  ASSUME IRegistry, NEW o \in Created,
         Attach(o) \/ Leave(o) \/ IdleTooLong(o) \/ ProcessEnds(o) \/ ProcessExited(o)
  PROVE  IRegistry'
<1>t. objs[o] \in SessionRecords
  BY DEF IRegistry, ITyped, SessionsTyped
<1>1. CASE Attach(o)
  <2> DEFINE r == [objs[o] EXCEPT !.attached = TRUE, !.stale = FALSE]
  <2>1. r \in SessionRecords /\ r.destroyed = objs[o].destroyed /\ r.proc = objs[o].proc
    BY <1>t DEF SessionRecords
  <2>2. objs' = [objs EXCEPT ![o] = r]
    BY <1>1 DEF Attach
  <2> HIDE DEF r
  <2> QED
    BY <1>1, <2>1, <2>2, QuietChange DEF Attach
<1>2. CASE Leave(o)
  <2> DEFINE r == [objs[o] EXCEPT !.attached = FALSE, !.stale = FALSE]
  <2>1. r \in SessionRecords /\ r.destroyed = objs[o].destroyed /\ r.proc = objs[o].proc
    BY <1>t DEF SessionRecords
  <2>2. objs' = [objs EXCEPT ![o] = r]
    BY <1>2 DEF Leave
  <2> HIDE DEF r
  <2> QED
    BY <1>2, <2>1, <2>2, QuietChange DEF Leave
<1>3. CASE IdleTooLong(o)
  <2> DEFINE r == [objs[o] EXCEPT !.stale = TRUE]
  <2>1. r \in SessionRecords /\ r.destroyed = objs[o].destroyed /\ r.proc = objs[o].proc
    BY <1>t DEF SessionRecords
  <2>2. objs' = [objs EXCEPT ![o] = r]
    BY <1>3 DEF IdleTooLong, Update
  <2> HIDE DEF r
  <2> QED
    BY <1>3, <2>1, <2>2, QuietChange DEF IdleTooLong
<1>4. CASE ProcessEnds(o)
  <2> DEFINE r == [objs[o] EXCEPT !.proc = "reaped"]
  <2>1. r \in SessionRecords /\ r.destroyed = objs[o].destroyed /\ r.proc = "reaped"
    BY <1>t DEF SessionRecords
  <2>2. objs' = [objs EXCEPT ![o] = r]
    BY <1>4 DEF ProcessEnds, Update
  <2> HIDE DEF r
  <2> QED
    BY <1>4, <2>1, <2>2, QuietChange DEF ProcessEnds
<1>5. CASE ProcessExited(o)
  <2> DEFINE r == [objs[o] EXCEPT !.proc = "exited"]
  <2>1. r \in SessionRecords /\ r.destroyed = objs[o].destroyed /\ r.proc = "exited"
    BY <1>t DEF SessionRecords
  <2>2. objs' = [objs EXCEPT ![o] = r]
    BY <1>5 DEF ProcessExited, Update
  <2> HIDE DEF r
  <2> QED
    BY <1>5, <2>1, <2>2, QuietChange DEF ProcessExited
<1> QED
  BY <1>1, <1>2, <1>3, <1>4, <1>5

-----------------------------------------------------------------------------
(* CreateWithID.                                                            *)

\* A new session has a number of its own, larger than all before.
LEMMA CreateStepInv ==
  ASSUME IRegistry, NEW id \in Ids, Create(id)
  PROVE  IRegistry'
<1> DEFINE n == Len(objs) + 1
<1>1. /\ objs \in Seq(SessionRecords) /\ NewSession(id) \in SessionRecords
      /\ objs' = Append(objs, NewSession(id)) /\ Len(objs) < MaxCreated
  BY DEF IRegistry, ITyped, SessionsTyped, Create, NewSession, SessionRecords
<1>2. /\ SessionsTyped' /\ Len(objs') = n /\ Created' = Created \cup {n}
      /\ objs'[n] = NewSession(id)
      /\ \A p \in Created : objs'[p] = objs[p]
  BY <1>1 DEF SessionsTyped
<1>3. Len(objs) \in Nat /\ Created = 1 .. Len(objs)
  BY <1>1
<1>4. sessions' = [sessions EXCEPT ![id] = n] /\ UNCHANGED <<locked, todo, call>> /\ ~locked
  BY DEF Create
<1>5. RegistryTyped'
  BY <1>2, <1>3, <1>4 DEF IRegistry, ITyped, RegistryTyped, Registered, Create
<1>6. CallsTyped'
  BY <1>2, <1>3, <1>4 DEF IRegistry, ITyped, CallsTyped
<1>7. SweepLocks'
  BY <1>4 DEF IRegistry, SweepLocks
<1>8. CalledIsDestroyed'
  BY <1>2, <1>3, <1>4 DEF IRegistry, ITyped, CallsTyped, CalledIsDestroyed, Destroyed
<1>9. LookedUpEarlier'
  <2>1. /\ sessions'[id] = n /\ \A i \in Ids : i # id => sessions'[i] = sessions[i]
        /\ \A t \in Callers : call[t].obj \in 0 .. Len(objs) /\ call[t].id \in Ids
    BY <1>4 DEF IRegistry, ITyped, RegistryTyped, CallsTyped
  <2>2. \A t \in Callers : call[t].obj <= n
    BY <1>3, <2>1
  <2> HIDE DEF n
  <2> QED
    BY <1>4, <2>1, <2>2 DEF IRegistry, LookedUpEarlier
<1>10. KillUnderWay'
  BY <1>2, <1>4 DEF IRegistry, KillUnderWay, Destroyed, NewSession
<1> QED
  BY <1>2, <1>5, <1>6, <1>7, <1>8, <1>9, <1>10 DEF IRegistry, ITyped

-----------------------------------------------------------------------------
(* Session.Destroy.                                                         *)

\* A call that goes on, while no session changes.
LEMMA CallStep ==
  ASSUME IRegistry, NEW t \in Callers, NEW pc \in CallPcs, call[t].pc \notin {"none", "done"},
         call[t].obj # 0, pc # "none", t = Sweeper => pc # "done",
         pc \in {"close", "wait", "returned", "failed", "done"} => Destroyed(call[t].obj),
         \/ pc \in {"close", "wait"} \/ call[t].pc \notin {"close", "wait"}
         \/ objs[call[t].obj].proc # "running",
         call' = [call EXCEPT ![t].pc = pc], UNCHANGED <<objs, sessions, runs, locked, todo>>
  PROVE  IRegistry'
<1>1. /\ call' \in [Callers -> [pc : CallPcs, id : Ids, obj : 0 .. Len(objs)]]
      /\ \A u \in Callers : call'[u].id = call[u].id /\ call'[u].obj = call[u].obj
      /\ call'[t].pc = pc
      /\ \A u \in Callers : u # t => call'[u].pc = call[u].pc
  BY DEF IRegistry, ITyped, CallsTyped
<1>2. SessionsTyped' /\ RegistryTyped' /\ CallsTyped'
  BY <1>1 DEF IRegistry, ITyped, SessionsTyped, RegistryTyped, CallsTyped, Registered
<1>3. SweepLocks'
  BY <1>1 DEF IRegistry, SweepLocks
<1>4. CalledIsDestroyed'
  BY <1>1 DEF IRegistry, CalledIsDestroyed, Destroyed
<1>5. LookedUpEarlier'
  BY <1>1 DEF IRegistry, LookedUpEarlier
<1>6. KillUnderWay'
  BY <1>1 DEF IRegistry, KillUnderWay, Destroyed
<1> QED
  BY <1>2, <1>3, <1>4, <1>5, <1>6 DEF IRegistry, ITyped

\* The first call destroys the session and is about to stop the process; another returns.
LEMMA MarkStepInv ==
  ASSUME IRegistry, NEW t \in Callers, DestroyMark(t)
  PROVE  IRegistry'
<1> DEFINE o == call[t].obj
<1>1. o \in Created /\ objs[o] \in SessionRecords /\ call[t].pc = "mark" /\ o # 0
  BY DEF IRegistry, ITyped, CallsTyped, SessionsTyped, DestroyMark
<1>2. CASE Destroyed(o)
  <2>1. call' = [call EXCEPT ![t].pc = "returned"] /\ UNCHANGED <<objs, sessions, runs, locked, todo>>
    BY <1>2 DEF DestroyMark, Step
  <2> QED
    BY <1>1, <1>2, <2>1, CallStep DEF CallPcs
<1>3. CASE ~Destroyed(o)
  <2> DEFINE r == [objs[o] EXCEPT !.destroyed = TRUE, !.attached = FALSE]
  <2>1. r \in SessionRecords /\ r.destroyed
    BY <1>1 DEF SessionRecords
  <2>2. objs' = [objs EXCEPT ![o] = r]
    BY <1>3 DEF DestroyMark
  <2>3. call' = [call EXCEPT ![t].pc = "close"] /\ UNCHANGED <<sessions, runs, locked, todo>>
    BY <1>3 DEF DestroyMark, Step
  <2> HIDE DEF r
  <2>4. /\ SessionsTyped' /\ Len(objs') = Len(objs) /\ objs'[o] = r /\ Created' = Created
        /\ \A p \in Created : p # o => objs'[p] = objs[p]
    BY <1>1, <2>1, <2>2, ChangeInPlace DEF IRegistry, ITyped, SessionsTyped
  <2>5. /\ call' \in [Callers -> [pc : CallPcs, id : Ids, obj : 0 .. Len(objs)]]
        /\ \A u \in Callers : call'[u].id = call[u].id /\ call'[u].obj = call[u].obj
        /\ call'[t].pc = "close"
        /\ \A u \in Callers : u # t => call'[u].pc = call[u].pc
    BY <2>3 DEF IRegistry, ITyped, CallsTyped, CallPcs
  <2>6. RegistryTyped' /\ CallsTyped'
    BY <1>1, <2>3, <2>4, <2>5 DEF IRegistry, ITyped, RegistryTyped, CallsTyped, Registered
  <2>7. SweepLocks'
    BY <1>1, <2>3, <2>5 DEF IRegistry, SweepLocks
  <2>8. LookedUpEarlier'
    BY <2>3, <2>5 DEF IRegistry, LookedUpEarlier
  <2>9. CalledIsDestroyed'
    <3> SUFFICES ASSUME NEW u \in Callers,
                        call'[u].pc \in {"close", "wait", "returned", "failed", "done"}, call'[u].obj # 0
                 PROVE  objs'[call'[u].obj].destroyed
      BY DEF CalledIsDestroyed, Destroyed
    <3>1. CASE call[u].obj = o
      BY <3>1, <2>1, <2>4, <2>5
    <3>2. CASE call[u].obj # o
      <4>1. u # t /\ call[u].obj \in Created
        BY <3>2, <2>5 DEF IRegistry, ITyped, CallsTyped, SessionsTyped
      <4> QED
        BY <4>1, <3>2, <2>4, <2>5 DEF IRegistry, CalledIsDestroyed, Destroyed
    <3> QED
      BY <3>1, <3>2
  <2>10. KillUnderWay'
    <3> SUFFICES ASSUME NEW p \in Created, objs'[p].destroyed, objs'[p].proc = "running"
                 PROVE  \E u \in Callers : call'[u].pc \in {"close", "wait"} /\ call'[u].obj = p
      BY <2>4 DEF KillUnderWay, Destroyed
    <3>1. CASE p = o
      BY <3>1, <2>5
    <3>2. CASE p # o
      <4>1. PICK u \in Callers : call[u].pc \in {"close", "wait"} /\ call[u].obj = p
        BY <3>2, <2>4 DEF IRegistry, KillUnderWay, Destroyed
      <4> QED
        BY <4>1, <1>1, <2>5
    <3> QED
      BY <3>1, <3>2
  <2> QED
    BY <2>4, <2>6, <2>7, <2>8, <2>9, <2>10 DEF IRegistry, ITyped
<1> QED
  BY <1>2, <1>3

\* Terminal.Close lets go of the process only when it has ended.
LEMMA CloseStepInv ==
  ASSUME IRegistry, NEW t \in Callers, CloseSignal(t) \/ CloseWait(t) \/ CloseFails(t)
  PROVE  IRegistry'
<1>1. /\ call[t].pc \in {"close", "wait"} /\ call[t].obj # 0
      /\ UNCHANGED <<objs, sessions, runs, locked, todo>>
  BY DEF IRegistry, ITyped, CallsTyped, CloseSignal, CloseWait, CloseFails
<1>2. Destroyed(call[t].obj)
  BY <1>1 DEF IRegistry, CalledIsDestroyed
<1>3. PICK pc \in {"wait", "returned", "failed"} :
        call' = [call EXCEPT ![t].pc = pc] /\ (pc = "wait" \/ objs[call[t].obj].proc # "running")
  BY DEF CloseSignal, CloseWait, CloseFails, Step, Exited
<1> QED
  BY <1>1, <1>2, <1>3, CallStep DEF CallPcs

-----------------------------------------------------------------------------
(* Manager.Destroy.                                                         *)

\* A new call holds what is registered under its id, at once or nothing.
LEMMA NewCall ==
  ASSUME IRegistry, NEW t \in Callers, NEW id \in Ids, NEW pc \in {"failed", "mark"},
         call[t].pc = "none", pc = "mark" <=> sessions[id] # 0,
         call' = [call EXCEPT ![t] = [pc |-> pc, id |-> id, obj |-> sessions[id]]],
         UNCHANGED <<objs, sessions, runs>>
  PROVE  CallsTyped' /\ CalledIsDestroyed' /\ LookedUpEarlier' /\ KillUnderWay'
<1>1. sessions[id] \in 0 .. Len(objs)
  BY DEF IRegistry, ITyped, RegistryTyped
<1>2. /\ call'[t] = [pc |-> pc, id |-> id, obj |-> sessions[id]]
      /\ \A u \in Callers : u # t => call'[u] = call[u]
  BY DEF IRegistry, ITyped, CallsTyped
<1>3. CallsTyped'
  BY <1>1, <1>2 DEF IRegistry, ITyped, CallsTyped, CallPcs
<1>4. CalledIsDestroyed'
  BY <1>2 DEF IRegistry, CalledIsDestroyed, Destroyed
<1>5. LookedUpEarlier'
  BY <1>1, <1>2 DEF IRegistry, LookedUpEarlier
<1>6. KillUnderWay'
  BY <1>2 DEF IRegistry, KillUnderWay, Destroyed
<1> QED
  BY <1>3, <1>4, <1>5, <1>6

LEMMA DeleteLookupInv ==
  ASSUME IRegistry, NEW d \in Deletes, NEW id \in Ids, DeleteLookup(d, id)
  PROVE  IRegistry'
<1>1. CallsTyped' /\ CalledIsDestroyed' /\ LookedUpEarlier' /\ KillUnderWay'
  BY NewCall DEF DeleteLookup
<1>2. SessionsTyped' /\ RegistryTyped' /\ SweepLocks'
  BY DEF DeleteLookup, IRegistry, ITyped, SessionsTyped, RegistryTyped, SweepLocks, Registered, CallsTyped
<1> QED
  BY <1>1, <1>2 DEF IRegistry, ITyped

\* An id that nothing is registered under any more.
LEMMA EntryGoes ==
  ASSUME IRegistry, NEW id \in Ids, sessions' = [sessions EXCEPT ![id] = 0],
         UNCHANGED <<objs, runs>>, todo' \subseteq todo \ {id}, locked' = locked
  PROVE  SessionsTyped' /\ RegistryTyped'
<1>1. Len(objs) \in Nat
  BY DEF IRegistry, ITyped, SessionsTyped
<1> QED
  BY <1>1 DEF IRegistry, ITyped, SessionsTyped, RegistryTyped, Registered

LEMMA DeleteEntryInv ==
  ASSUME IRegistry, NEW d \in Deletes, DeleteEntry(d)
  PROVE  IRegistry'
<1>1. /\ call[d].pc = "returned" /\ ~locked /\ call[d].id \in Ids /\ call[d].obj # 0
      /\ todo = {} /\ call[Sweeper].pc = "none"
      /\ sessions' = [sessions EXCEPT ![call[d].id] = 0] /\ call' = [call EXCEPT ![d].pc = "done"]
      /\ UNCHANGED <<objs, runs, locked, todo>>
  BY DEF DeleteEntry, Step, IRegistry, ITyped, CallsTyped, SweepLocks
<1>2. /\ call' \in [Callers -> [pc : CallPcs, id : Ids, obj : 0 .. Len(objs)]]
      /\ \A u \in Callers : call'[u].id = call[u].id /\ call'[u].obj = call[u].obj
      /\ call'[d].pc = "done"
      /\ \A u \in Callers : u # d => call'[u].pc = call[u].pc
  BY <1>1 DEF IRegistry, ITyped, CallsTyped, CallPcs
<1>3. SessionsTyped' /\ RegistryTyped'
  BY <1>1, EntryGoes
<1>4. CallsTyped' /\ SweepLocks'
  BY <1>1, <1>2 DEF IRegistry, ITyped, CallsTyped, SweepLocks
<1>5. CalledIsDestroyed'
  BY <1>1, <1>2 DEF IRegistry, CalledIsDestroyed, Destroyed
<1>6. LookedUpEarlier'
  BY <1>1, <1>2 DEF IRegistry, ITyped, RegistryTyped, CallsTyped, LookedUpEarlier
<1>7. KillUnderWay'
  BY <1>1, <1>2 DEF IRegistry, KillUnderWay, Destroyed
<1> QED
  BY <1>3, <1>4, <1>5, <1>6, <1>7 DEF IRegistry, ITyped

-----------------------------------------------------------------------------
(* DestroyExpired.                                                          *)

\* A step of the sweep between two sessions.
LEMMA SweepMoves ==
  ASSUME IRegistry, SweepBegin \/ SweepEnd \/ \E id \in Ids : SweepKeep(id)
  PROVE  IRegistry'
<1>1. UNCHANGED <<objs, sessions, runs, call>>
  BY DEF SweepBegin, SweepEnd, SweepKeep
<1>2. CallsTyped' /\ CalledIsDestroyed' /\ LookedUpEarlier' /\ KillUnderWay'
  BY <1>1 DEF IRegistry, ITyped, CallsTyped, CalledIsDestroyed, LookedUpEarlier, KillUnderWay, Destroyed
<1>3. SessionsTyped' /\ RegistryTyped' /\ SweepLocks'
  BY <1>1 DEF SweepBegin, SweepEnd, SweepKeep, Sweeping, IRegistry, ITyped, SessionsTyped, RegistryTyped,
              Registered, SweepLocks
<1> QED
  BY <1>2, <1>3 DEF IRegistry, ITyped

LEMMA SweepDeadInv ==
  ASSUME IRegistry, NEW id \in Ids, SweepDead(id)
  PROVE  IRegistry'
<1>1. /\ call[Sweeper].pc = "none" /\ locked /\ id \in todo
      /\ sessions' = [sessions EXCEPT ![id] = 0] /\ todo' = todo \ {id}
      /\ UNCHANGED <<objs, runs, locked, call>>
  BY DEF SweepDead, Sweeping
<1>2. SessionsTyped' /\ RegistryTyped'
  BY <1>1, EntryGoes
<1>3. CallsTyped' /\ SweepLocks' /\ CalledIsDestroyed' /\ KillUnderWay'
  BY <1>1 DEF IRegistry, ITyped, CallsTyped, SweepLocks, CalledIsDestroyed, KillUnderWay, Destroyed
<1>4. LookedUpEarlier'
  BY <1>1 DEF IRegistry, ITyped, RegistryTyped, CallsTyped, LookedUpEarlier
<1> QED
  BY <1>2, <1>3, <1>4 DEF IRegistry, ITyped

LEMMA SweepExpiredInv ==
  ASSUME IRegistry, NEW id \in Ids, SweepExpired(id)
  PROVE  IRegistry'
<1>1. /\ call[Sweeper].pc = "none" /\ locked /\ id \in todo /\ sessions[id] # 0
      /\ call' = [call EXCEPT ![Sweeper] = [pc |-> "mark", id |-> id, obj |-> sessions[id]]]
      /\ todo' = todo \ {id} /\ UNCHANGED <<objs, sessions, runs, locked>>
  BY DEF SweepExpired, Sweeping, IRegistry, ITyped, RegistryTyped, Registered
<1>2. CallsTyped' /\ CalledIsDestroyed' /\ LookedUpEarlier' /\ KillUnderWay'
  BY <1>1, NewCall
<1>3. SessionsTyped' /\ RegistryTyped'
  BY <1>1 DEF IRegistry, ITyped, SessionsTyped, RegistryTyped, Registered
<1>4. SweepLocks'
  BY <1>1 DEF IRegistry, ITyped, CallsTyped, SweepLocks
<1> QED
  BY <1>2, <1>3, <1>4 DEF IRegistry, ITyped

LEMMA SweepEntryInv ==
  ASSUME IRegistry, SweepEntry
  PROVE  IRegistry'
<1> DEFINE id == call[Sweeper].id
<1>1. /\ call[Sweeper].pc \in {"returned", "failed"} /\ id \in Ids /\ id \notin todo
      /\ sessions' = [sessions EXCEPT ![id] = 0] /\ call' = [call EXCEPT ![Sweeper] = NoCall]
      /\ UNCHANGED <<objs, runs, locked, todo>>
  BY DEF SweepEntry, IRegistry, ITyped, CallsTyped, SweepLocks
<1>2. NoCall.pc = "none" /\ NoCall.obj = 0 /\ NoCall.id \in Ids
  BY DEF NoCall
<1>3. NoCall \in [pc : CallPcs, id : Ids, obj : 0 .. Len(objs)]
  BY <1>2 DEF NoCall, CallPcs, IRegistry, ITyped, SessionsTyped
<1>4. call'[Sweeper] = NoCall /\ \A u \in Callers : u # Sweeper => call'[u] = call[u]
  BY <1>1 DEF IRegistry, ITyped, CallsTyped
<1>5. SessionsTyped' /\ RegistryTyped'
  BY <1>1, EntryGoes
<1>6. CallsTyped'
  BY <1>1, <1>2, <1>3, <1>4 DEF IRegistry, ITyped, CallsTyped
<1>7. SweepLocks' /\ CalledIsDestroyed'
  BY <1>1, <1>2, <1>4 DEF IRegistry, SweepLocks, CalledIsDestroyed, Destroyed
<1>8. LookedUpEarlier'
  BY <1>1, <1>2, <1>4 DEF IRegistry, ITyped, RegistryTyped, CallsTyped, LookedUpEarlier
<1>9. KillUnderWay'
  BY <1>1, <1>2, <1>4 DEF IRegistry, KillUnderWay, Destroyed
<1> QED
  BY <1>5, <1>6, <1>7, <1>8, <1>9 DEF IRegistry, ITyped

-----------------------------------------------------------------------------
(* The theorems.                                                            *)

LEMMA RegistryInitInv == Init => IRegistry
<1> SUFFICES ASSUME Init PROVE IRegistry
  OBVIOUS
<1>1. NoCall.pc = "none" /\ NoCall.obj = 0 /\ NoCall.id \in Ids
  BY DEF NoCall
<1>2. NoCall \in [pc : CallPcs, id : Ids, obj : 0 .. Len(objs)]
  BY <1>1 DEF NoCall, CallPcs, Init
<1>3. \A t \in Callers : call[t] = NoCall
  BY DEF Init
<1>4. SessionsTyped /\ RegistryTyped /\ Created = {}
  <2>1. Len(objs) = 0 /\ SessionsTyped /\ Created = {}
    BY DEF Init, SessionsTyped
  <2>2. RegistryTyped
    <3>1. sessions \in [Ids -> 0 .. Len(objs)] /\ \A id \in Ids : runs[id] <= Len(objs)
      BY <2>1 DEF Init
    <3>2. runs \in [Ids -> Nat] /\ locked \in BOOLEAN /\ todo = {}
      BY DEF Init
    <3> QED
      BY <3>1, <3>2 DEF RegistryTyped, Registered
  <2> QED
    BY <2>1, <2>2
<1>5. CallsTyped
  <2>1. call \in [Callers -> [pc : CallPcs, id : Ids, obj : 0 .. Len(objs)]]
    BY <1>2 DEF Init
  <2> QED
    BY <1>1, <1>3, <2>1 DEF CallsTyped
<1>6. SweepLocks /\ CalledIsDestroyed /\ LookedUpEarlier /\ KillUnderWay
  BY <1>1, <1>3, <1>4 DEF Init, SweepLocks, CalledIsDestroyed, LookedUpEarlier, KillUnderWay
<1> QED
  BY <1>4, <1>5, <1>6 DEF IRegistry, ITyped

LEMMA RegistryStepInv == IRegistry /\ [Next]_vars => IRegistry'
<1> SUFFICES ASSUME IRegistry, [Next]_vars PROVE IRegistry'
  OBVIOUS
<1>1. CASE Sweep
  BY <1>1, SweepMoves, SweepDeadInv, SweepExpiredInv, SweepEntryInv DEF Sweep
<1>2. CASE UNCHANGED vars
  BY <1>2 DEF vars, IRegistry, ITyped, SessionsTyped, RegistryTyped, CallsTyped, SweepLocks, Registered,
              CalledIsDestroyed, LookedUpEarlier, KillUnderWay, Destroyed
<1>3. ASSUME NEW t \in Callers, SessionDestroy(t) PROVE IRegistry'
  BY <1>3, MarkStepInv, CloseStepInv DEF SessionDestroy
<1>4. ASSUME NEW d \in Deletes, DeleteEntry(d) \/ \E id \in Ids : DeleteLookup(d, id) PROVE IRegistry'
  BY <1>4, DeleteEntryInv, DeleteLookupInv
<1>5. ASSUME NEW id \in Ids, Create(id) PROVE IRegistry'
  BY <1>5, CreateStepInv
<1>6. ASSUME NEW o \in Created,
             Attach(o) \/ Leave(o) \/ IdleTooLong(o) \/ ProcessEnds(o) \/ ProcessExited(o)
      PROVE  IRegistry'
  BY <1>6, SessionStepInv
<1> QED
  BY <1>1, <1>2, <1>3, <1>4, <1>5, <1>6 DEF Next

\* Every variable of the registry keeps its type, whatever the callers and the sweep do.
THEOREM RegistryTypes == Spec => []TypeOK
<1>1. Init => IRegistry
  BY RegistryInitInv
<1>2. IRegistry /\ [Next]_vars => IRegistry'
  BY RegistryStepInv
<1>3. IRegistry => TypeOK
  <2> SUFFICES ASSUME IRegistry PROVE TypeOK
    OBVIOUS
  <2>1. runs \in [Ids -> 0 .. MaxCreated]
    BY DEF IRegistry, ITyped, SessionsTyped, RegistryTyped
  <2>2. todo \subseteq Ids
    BY DEF IRegistry, ITyped, RegistryTyped, Registered
  <2> QED
    BY <2>1, <2>2 DEF IRegistry, ITyped, SessionsTyped, SessionRecords, RegistryTyped, CallsTyped, TypeOK
<1> QED
  BY <1>1, <1>2, <1>3, PTL DEF Spec

\* Whatever creations, sweeps and DELETE requests overlap, a live session is taken out of
\* the registry by nothing but the delete at the end of a Manager.Destroy that had looked
\* up an earlier session of the same id (manager.go, Destroy).
THEOREM OnlyLateDeleteDrops == Spec => LiveDroppedOnlyByLateDelete
<1> DEFINE Dropped(id) ==
      sessions[id] # 0 /\ sessions'[id] # sessions[id] /\ Live(sessions[id])
    Late(id) ==
      \E d \in Deletes : call[d].pc = "returned" /\ call[d].id = id /\ call[d].obj < sessions[id]
<1>1. ASSUME IRegistry, [Next]_vars, NEW id \in Ids, Dropped(id) PROVE Late(id)
  <2>1. sessions[id] \in Created /\ ~Destroyed(sessions[id]) /\ ~Exited(sessions[id])
    BY <1>1 DEF IRegistry, ITyped, SessionsTyped, RegistryTyped, Live
  <2>2. ASSUME NEW i \in Ids, Create(i) PROVE FALSE
    BY <1>1, <2>1, <2>2 DEF Create, Alive, IRegistry, ITyped, RegistryTyped
  <2>3. ASSUME NEW o \in Created,
               Attach(o) \/ Leave(o) \/ IdleTooLong(o) \/ ProcessEnds(o) \/ ProcessExited(o)
        PROVE  FALSE
    BY <1>1, <2>3 DEF Attach, Leave, IdleTooLong, ProcessEnds, ProcessExited
  <2>4. ASSUME NEW t \in Callers, SessionDestroy(t) PROVE FALSE
    BY <1>1, <2>4 DEF SessionDestroy, DestroyMark, CloseSignal, CloseWait, CloseFails
  <2>5. ASSUME NEW d \in Deletes, NEW i \in Ids, DeleteLookup(d, i) PROVE FALSE
    BY <1>1, <2>5 DEF DeleteLookup
  <2>6. ASSUME NEW d \in Deletes, DeleteEntry(d) PROVE Late(id)
    <3>1. call[d].pc = "returned" /\ call[d].id = id /\ call[d].obj # 0
      BY <1>1, <2>6 DEF DeleteEntry, IRegistry, ITyped, RegistryTyped, CallsTyped
    <3>2. Destroyed(call[d].obj) /\ call[d].obj <= sessions[id]
      BY <1>1, <3>1 DEF IRegistry, CalledIsDestroyed, LookedUpEarlier
    <3>3. call[d].obj # sessions[id] /\ call[d].obj \in Nat /\ sessions[id] \in Nat
      BY <1>1, <2>1, <3>2 DEF IRegistry, ITyped, SessionsTyped, RegistryTyped, CallsTyped
    <3> QED
      BY <3>1, <3>2, <3>3
  <2>7. CASE SweepBegin \/ SweepEnd \/ \E i \in Ids : SweepKeep(i) \/ SweepExpired(i)
    BY <1>1, <2>7 DEF SweepBegin, SweepEnd, SweepKeep, SweepExpired
  <2>8. ASSUME NEW i \in Ids, SweepDead(i) PROVE FALSE
    BY <1>1, <2>1, <2>8 DEF SweepDead, IRegistry, ITyped, RegistryTyped
  <2>9. ASSUME SweepEntry PROVE FALSE
    <3>1. call[Sweeper].id = id /\ call[Sweeper].obj = sessions[id] /\ call[Sweeper].obj # 0
      BY <1>1, <2>9 DEF SweepEntry, IRegistry, ITyped, RegistryTyped, CallsTyped, SweepLocks
    <3>2. Destroyed(sessions[id])
      BY <1>1, <2>9, <3>1 DEF SweepEntry, IRegistry, CalledIsDestroyed
    <3> QED
      BY <2>1, <3>2
  <2>10. CASE UNCHANGED vars
    BY <1>1, <2>10 DEF vars
  <2> QED
    BY <1>1, <2>2, <2>3, <2>4, <2>5, <2>6, <2>7, <2>8, <2>9, <2>10 DEF Next, Sweep
<1>2. IRegistry /\ [Next]_vars =>
        [\A id \in Ids : LET o == sessions[id] IN
           (o # 0 /\ sessions'[id] # o /\ Live(o)) =>
             \E d \in Deletes : call[d].pc = "returned" /\ call[d].id = id /\ call[d].obj < o]_vars
  BY <1>1
<1>3. Init => IRegistry
  BY RegistryInitInv
<1>4. IRegistry /\ [Next]_vars => IRegistry'
  BY RegistryStepInv
<1> QED
  BY <1>2, <1>3, <1>4, PTL DEF Spec, LiveDroppedOnlyByLateDelete

\* A process that ended does not run again.
LEMMA EndedStays ==
  ASSUME IRegistry, [Next]_vars, NEW o \in Created, objs[o].proc # "running"
  PROVE  objs'[o].proc # "running"
<1>t. objs \in Seq(SessionRecords) /\ \A p \in Created : objs[p] \in SessionRecords
  BY DEF IRegistry, ITyped, SessionsTyped
<1> USE <1>t DEF SessionRecords
<1>1. ASSUME NEW id \in Ids, Create(id) PROVE objs'[o].proc # "running"
  BY <1>1 DEF Create
<1>2. ASSUME NEW p \in Created, Attach(p) \/ Leave(p) PROVE objs'[o].proc # "running"
  BY <1>2 DEF Attach, Leave
<1>3. ASSUME NEW p \in Created, IdleTooLong(p) PROVE objs'[o].proc # "running"
  BY <1>3 DEF IdleTooLong, Update
<1>4. ASSUME NEW p \in Created, ProcessEnds(p) \/ ProcessExited(p) PROVE objs'[o].proc # "running"
  BY <1>4 DEF ProcessEnds, ProcessExited, Update
<1>5. ASSUME NEW t \in Callers, SessionDestroy(t) PROVE objs'[o].proc # "running"
  BY <1>5 DEF SessionDestroy, DestroyMark, CloseSignal, CloseWait, CloseFails
<1>6. ASSUME NEW d \in Deletes, DeleteEntry(d) \/ \E id \in Ids : DeleteLookup(d, id)
      PROVE  objs'[o].proc # "running"
  BY <1>6 DEF DeleteEntry, DeleteLookup
<1>7. ASSUME Sweep \/ UNCHANGED vars PROVE objs'[o].proc # "running"
  BY <1>7 DEF Sweep, SweepBegin, SweepEntry, SweepEnd, SweepDead, SweepExpired, SweepKeep, vars
<1> QED
  BY <1>1, <1>2, <1>3, <1>4, <1>5, <1>6, <1>7 DEF Next

\* A DELETE request is answered by DeleteEntry, and stays answered.
LEMMA AnsweredByEntry ==
  ASSUME IRegistry, [Next]_vars, NEW d \in Deletes, call'[d].pc = "done"
  PROVE  DeleteEntry(d) \/ (call[d].pc = "done" /\ call'[d].obj = call[d].obj)
<1> DEFINE Stays == call[d].pc = "done" /\ call'[d].obj = call[d].obj
<1>t. /\ call \in [Callers -> [pc : CallPcs, id : Ids, obj : 0 .. Len(objs)]] /\ d # Sweeper
      /\ d \in Callers
  BY DEF IRegistry, ITyped, CallsTyped
<1> USE <1>t
<1>1. ASSUME UNCHANGED call PROVE Stays
  BY <1>1
<1>2. ASSUME NEW t \in Callers, NEW pc, call' = [call EXCEPT ![t].pc = pc], pc # "done" PROVE Stays
  BY <1>2
<1>3. ASSUME NEW t \in Callers, SessionDestroy(t) PROVE Stays
  BY <1>2, <1>3 DEF SessionDestroy, DestroyMark, CloseSignal, CloseWait, CloseFails, Step
<1>4. ASSUME NEW e \in Deletes, DeleteEntry(e) PROVE DeleteEntry(d) \/ Stays
  BY <1>4 DEF DeleteEntry, Step
<1>5. ASSUME NEW e \in Deletes, NEW id \in Ids, DeleteLookup(e, id) PROVE Stays
  <2>1. call'[d] = call[d]
    BY <1>5 DEF DeleteLookup
  <2> QED
    BY <2>1
<1>6. CASE Sweep
  BY <1>6 DEF Sweep, SweepBegin, SweepEntry, SweepEnd, SweepDead, SweepExpired, SweepKeep
<1>7. ASSUME NEW id \in Ids, Create(id) PROVE Stays
  BY <1>1, <1>7 DEF Create
<1>8. ASSUME NEW o \in Created,
             Attach(o) \/ Leave(o) \/ IdleTooLong(o) \/ ProcessEnds(o) \/ ProcessExited(o)
      PROVE  Stays
  BY <1>1, <1>8 DEF Attach, Leave, IdleTooLong, ProcessEnds, ProcessExited
<1>9. CASE UNCHANGED vars
  BY <1>1, <1>9 DEF vars
<1> QED
  BY <1>3, <1>4, <1>5, <1>6, <1>7, <1>8, <1>9 DEF Next

\* A Destroy that is closing the terminal of a running process goes on.
LEMMA ClosingGoesOn ==
  ASSUME IRegistry, [Next]_vars, NEW e \in Deletes, call[e].pc \in {"close", "wait"},
         objs[call[e].obj].proc = "running"
  PROVE  call'[e].pc \in {"close", "wait"} /\ call'[e].obj = call[e].obj
<1> DEFINE Stays == call'[e].pc \in {"close", "wait"} /\ call'[e].obj = call[e].obj
<1>t. /\ call \in [Callers -> [pc : CallPcs, id : Ids, obj : 0 .. Len(objs)]] /\ e # Sweeper
      /\ e \in Callers
  BY DEF IRegistry, ITyped, CallsTyped
<1> USE <1>t
<1>1. ASSUME UNCHANGED call PROVE Stays
  BY <1>1
<1>2. ASSUME NEW t \in Callers, t # e, NEW record, call' = [call EXCEPT ![t] = record] PROVE Stays
  BY <1>2
<1>3. ASSUME NEW t \in Callers, NEW label \in {"close", "wait", "returned", "failed", "done"}, Step(t, label),
             t # e \/ label \in {"close", "wait"}
      PROVE  Stays
  BY <1>3 DEF Step
<1>4. ASSUME NEW t \in Callers, DestroyMark(t) PROVE Stays
  BY <1>3, <1>4 DEF DestroyMark
<1>5. ASSUME NEW t \in Callers, CloseSignal(t) \/ CloseWait(t) \/ CloseFails(t) PROVE Stays
  BY <1>3, <1>5 DEF CloseSignal, CloseWait, CloseFails, Exited
<1>6. ASSUME NEW d \in Deletes, DeleteEntry(d) PROVE Stays
  BY <1>3, <1>6 DEF DeleteEntry, Callers
<1>7. ASSUME NEW d \in Deletes, NEW id \in Ids, DeleteLookup(d, id) PROVE Stays
  BY <1>2, <1>7 DEF DeleteLookup, Callers
<1>8. CASE Sweep
  BY <1>1, <1>2, <1>8 DEF Sweep, SweepBegin, SweepEntry, SweepEnd, SweepDead, SweepExpired, SweepKeep, Callers
<1>9. ASSUME NEW id \in Ids, Create(id) PROVE Stays
  BY <1>1, <1>9 DEF Create
<1>10. ASSUME NEW o \in Created,
              Attach(o) \/ Leave(o) \/ IdleTooLong(o) \/ ProcessEnds(o) \/ ProcessExited(o)
       PROVE  Stays
  BY <1>1, <1>10 DEF Attach, Leave, IdleTooLong, ProcessEnds, ProcessExited
<1>11. CASE UNCHANGED vars
  BY <1>1, <1>11 DEF vars
<1> QED
  BY <1>4, <1>5, <1>6, <1>7, <1>8, <1>9, <1>10, <1>11 DEF Next, SessionDestroy

\* However many DELETE requests there are, the sweep beside them: when one is answered, the
\* process of its session has ended, or another DELETE is still in Terminal.Close for it.
THEOREM DeleteStops == Spec => []DeleteStopsProcess
<1>1. Init => DeleteStopsProcess
  BY DEF Init, DeleteStopsProcess, NoCall
<1>2. IRegistry /\ DeleteStopsProcess /\ [Next]_vars => DeleteStopsProcess'
  <2> DEFINE Closing(d) ==
        \E e \in Deletes \ {d} : call[e].obj = call[d].obj /\ call[e].pc \in {"close", "wait"}
  <2> SUFFICES ASSUME IRegistry, DeleteStopsProcess, [Next]_vars, NEW d \in Deletes, (call[d].pc = "done")',
                      objs'[call'[d].obj].proc = "running"
               PROVE  Closing(d)'
    BY DEF DeleteStopsProcess
  <2>1. CASE DeleteEntry(d)
    <3>1. /\ call[d].pc = "returned" /\ call[d].obj \in Created /\ Destroyed(call[d].obj)
          /\ call[Sweeper].pc = "none" /\ objs' = objs /\ call'[d].obj = call[d].obj
          /\ \A e \in Deletes \ {d} : call'[e] = call[e]
      BY <2>1 DEF DeleteEntry, Step, IRegistry, ITyped, SessionsTyped, CallsTyped, SweepLocks, CalledIsDestroyed,
                  Callers
    <3>2. PICK t \in Callers : call[t].obj = call[d].obj /\ call[t].pc \in {"close", "wait"}
      BY <3>1 DEF IRegistry, KillUnderWay
    <3>3. t \in Deletes \ {d}
      BY <3>1, <3>2 DEF Callers
    <3> QED
      BY <3>1, <3>2, <3>3
  <2>2. CASE call[d].pc = "done" /\ call'[d].obj = call[d].obj
    <3>1. call[d].obj \in Created /\ objs[call[d].obj].proc = "running"
      BY <2>2, EndedStays DEF IRegistry, ITyped, SessionsTyped, CallsTyped
    <3>2. PICK e \in Deletes \ {d} : call[e].obj = call[d].obj /\ call[e].pc \in {"close", "wait"}
      BY <2>2, <3>1 DEF DeleteStopsProcess
    <3>3. call'[e].pc \in {"close", "wait"} /\ call'[e].obj = call[e].obj
      BY <3>1, <3>2, ClosingGoesOn
    <3> QED
      BY <2>2, <3>2, <3>3
  <2> QED
    BY <2>1, <2>2, AnsweredByEntry
<1> QED
  BY <1>1, <1>2, RegistryInitInv, RegistryStepInv, PTL DEF Spec

=============================================================================
