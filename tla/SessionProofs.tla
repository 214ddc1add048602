--------------------------- MODULE SessionProofs ---------------------------
(***************************************************************************)
(* Proofs about Session, for any set of clients, any amount of output and  *)
(* any replay tail.  Ownership first: the inductive invariant IOwner ties  *)
(* s.conn, s.state and the epochs together; from it follow that no client  *)
(* lingers on a session it lost and that Session implements SessionOwner.  *)
(* Then the output: nothing is lost, the replay guard of pumpChunk never   *)
(* skips anything, and a terminal query is answered twice only by a late   *)
(* answer of the mirror or by a gate that opened early.                    *)
(***************************************************************************)
EXTENDS Session, FiniteSetTheorems, TLAPS

USE SessionAssumption DEF SessionAssumption

LEMMA VarsUnchanged ==
  UNCHANGED vars =>
    UNCHANGED <<state, conn, attachEpoch, total, replaySeq, mirror, termExited, alive, pc, myEpoch, old,
                snap, next, pump, destroyer, closed, net, recv, gate, owed, answered>>
BY DEF vars, sessionVars, outVars, attachVars, clientVars, pumpVars

\* Whoever closes or writes to a connection has one.
Targets ==
  /\ \A c \in Clients : pc[c] \in {"closeOld", "notifyOld"} => old[c] \in Clients
  /\ destroyer.pc \in {"closeConn", "notifyConn"} => destroyer.conn \in Clients
  /\ pump.pc = "deliver" => pump.to \in Clients
  /\ pump.pc \in {"mirror", "deliver"} => total \in Chunks
  /\ \A c \in Clients : pc[c] \in {"init", "replay"} => next[c] # 0

ITyped == TypeOK /\ Targets

LEMMA AnswerType ==
  ASSUME answered \in [Chunks -> Nat], NEW c, NEW n \in Chunks, Answer(n) \/ Render(c, n)
  PROVE  answered' \in [Chunks -> Nat]
BY DEF Answer, Render

\* The frames a gate leaves to answer are finitely many.
LEMMA UnparsedIsFinite ==
  ASSUME ITyped, NEW c \in Clients, NEW k \in Nat, NEW n
  PROVE  /\ IsFiniteSet(Unparsed(c, k, n)) /\ Cardinality(Unparsed(c, k, n)) \in Nat
         /\ Unparsed(c, k, n) \subseteq DOMAIN recv[c]
<1>1. recv[c] \in Seq(Chunks) /\ Len(recv[c]) \in Nat
  BY DEF ITyped, TypeOK
<1>2. IsFiniteSet((k + 1)..Len(recv[c])) /\ Unparsed(c, k, n) \subseteq (k + 1)..Len(recv[c])
  BY <1>1, FS_Interval DEF Unparsed
<1>3. (k + 1)..Len(recv[c]) \subseteq DOMAIN recv[c]
  BY <1>1
<1>4. QED
  BY <1>2, <1>3, FS_Subset, FS_CardinalityType

\* What the opening of a gate changes.
LEMMA GateOpening ==
  ASSUME ITyped, NEW c \in Clients, GateOpens(c)
  PROVE  /\ gate' \in [Clients -> {"shut", "open", "early"}] /\ answered' \in [Chunks -> Nat]
         /\ gate[c] = "shut" /\ \A d \in Clients : d # c => gate'[d] = gate[d]
         /\ \E k \in Nat :
              /\ \/ gate'[c] = "early"
                 \/ gate'[c] = "open" /\ \A n \in Replay(c) : Unparsed(c, k, n) = {}
              /\ \A n \in Chunks : answered'[n] \in {answered[n], answered[n] + Cardinality(Unparsed(c, k, n))}
<1>1. gate \in [Clients -> {"shut", "open", "early"}] /\ answered \in [Chunks -> Nat] /\ Len(recv[c]) \in Nat
  <2>1. gate \in [Clients -> {"shut", "open", "early"}] /\ answered \in [Chunks -> Nat]
    BY Zenon DEF ITyped, TypeOK
  <2>2. recv[c] \in Seq(Chunks)
    BY DEF ITyped, TypeOK
  <2>3. QED
    BY <2>1, <2>2
<1>2. PICK k \in 0..Len(recv[c]) :
        /\ gate' = [gate EXCEPT ![c] =
             IF /\ myEpoch[c] # 0 /\ pc[c] \in {"bridged", "leave", "gone"}
                /\ \A n \in Replay(c) : Unparsed(c, k, n) = {}
             THEN "open" ELSE "early"]
        /\ answered' = [n \in Chunks |->
             IF n \in Queries /\ Arrives(c)
             THEN answered[n] + Cardinality(Unparsed(c, k, n)) ELSE answered[n]]
  BY Zenon DEF GateOpens
<1>3. k \in Nat /\ \A n \in Chunks : Cardinality(Unparsed(c, k, n)) \in Nat
  BY <1>1, UnparsedIsFinite
<1>4. answered' \in [Chunks -> Nat]
  BY <1>1, <1>2, <1>3
<1>5. \A n \in Chunks : answered'[n] \in {answered[n], answered[n] + Cardinality(Unparsed(c, k, n))}
  BY <1>2
<1>6. \/ gate'[c] = "early"
      \/ gate'[c] = "open" /\ \A n \in Replay(c) : Unparsed(c, k, n) = {}
  BY <1>1, <1>2
<1>7. gate' \in [Clients -> {"shut", "open", "early"}] /\ \A d \in Clients : d # c => gate'[d] = gate[d]
  BY <1>1, <1>2
<1>8. gate[c] = "shut"
  BY DEF GateOpens
<1>9. QED
  BY <1>3, <1>4, <1>5, <1>6, <1>7, <1>8

\* A step that moves an attach goroutine to where it needs no connection
\* and no chunk.
LEMMA MoveKeepsType ==
  ASSUME ITyped, NEW c \in Clients, NEW label \in AttachPcs \ {"closeOld", "notifyOld", "init", "replay"},
         pc' = [pc EXCEPT ![c] = label], UNCHANGED gate,
         UNCHANGED <<state, conn, attachEpoch, total, replaySeq, mirror, termExited, alive, myEpoch, old,
                     snap, next, pump, destroyer, closed, net, recv, owed, answered>>
  PROVE  ITyped'
<1>1. pc' \in [Clients -> AttachPcs]
  BY DEF ITyped, TypeOK, AttachPcs
<1>2. Targets'
  BY DEF ITyped, Targets, TypeOK
<1>3. TypeOK'
  BY <1>1, SMTT(60) DEF ITyped, TypeOK
<1>4. QED
  BY <1>2, <1>3 DEF ITyped

\* Every variable keeps its type, and connections are closed by goroutines
\* that hold one.
THEOREM TypeCorrect == Spec => []ITyped
<1> USE DEF ITyped, TypeOK, Targets, AttachPcs, PumpIdle
<1>1. Init => ITyped
  <2> SUFFICES ASSUME Init PROVE ITyped
    OBVIOUS
  <2>1. /\ pc \in [Clients -> AttachPcs] /\ net \in [Clients -> {"up", "stalled", "down"}]
    BY DEF Init
  <2>2. /\ snap \in [Clients -> 0..MaxOut] /\ next \in [Clients -> Nat] /\ myEpoch \in [Clients -> Nat]
        /\ total \in 0..MaxOut /\ replaySeq \in 0..MaxOut /\ mirror \in 0..MaxOut
    BY DEF Init
  <2>3. Targets /\ recv \in [Clients -> Seq(Chunks)] /\ answered \in [Chunks -> Nat]
    BY DEF Init
  <2>4. QED
    BY <2>1, <2>2, <2>3 DEF Init
<1>2. ITyped /\ [Next]_vars => ITyped'
  <2> SUFFICES ASSUME ITyped, [Next]_vars PROVE ITyped'
    OBVIOUS
  <2> USE DEF sessionVars, outVars, attachVars, clientVars, pumpVars, Goto, CanWrite, Arrives,
              WriteOutput
  <2>1. ASSUME NEW c \in Clients, AttachRefused(c) PROVE ITyped'
    BY <2>1, MoveKeepsType DEF AttachRefused
  <2>2. ASSUME NEW c \in Clients, AttachTake(c) PROVE ITyped'
    BY <2>2, SMTT(60) DEF AttachTake
  <2>3. ASSUME NEW c \in Clients, AttachCloseOld(c) PROVE ITyped'
    <3>1. /\ closed' \subseteq Clients
          /\ pc' \in [Clients -> AttachPcs]
      BY <2>3 DEF AttachCloseOld
    <3>2. UNCHANGED <<state, conn, attachEpoch, total, replaySeq, mirror, termExited, alive, myEpoch, old,
                      snap, next, pump, destroyer, net, recv, gate, owed, answered>>
      BY <2>3 DEF AttachCloseOld
    <3>3. Targets'
      BY <2>3, <3>2 DEF AttachCloseOld
    <3>4. TypeOK'
      BY <3>1, <3>2, SMTT(60)
    <3>5. QED
      BY <3>3, <3>4
  <2>4. ASSUME NEW c \in Clients, AttachNotifyOld(c) PROVE ITyped'
    BY <2>4, MoveKeepsType DEF AttachNotifyOld
  <2>5. ASSUME NEW c \in Clients, BridgeSnapshot(c) PROVE ITyped'
    BY <2>5, SMTT(60) DEF BridgeSnapshot, TailStart
  <2>6. ASSUME NEW c \in Clients, BridgeInit(c) PROVE ITyped'
    BY <2>6, SMTT(60) DEF BridgeInit
  <2>7. ASSUME NEW c \in Clients, BridgeReplay(c) PROVE ITyped'
    <3>1. next[c] \in Chunks
      BY <2>7 DEF BridgeReplay, Chunks
    <3>2. recv' \in [Clients -> Seq(Chunks)] /\ answered' \in [Chunks -> Nat]
      BY <2>7, <3>1, AnswerType DEF BridgeReplay
    <3>3. /\ next' \in [Clients -> Nat] /\ next'[c] # 0
          /\ \A d \in Clients : d # c => next'[d] = next[d]
      BY <2>7 DEF BridgeReplay
    <3>4. UNCHANGED <<state, conn, attachEpoch, total, replaySeq, mirror, termExited, alive, pc, myEpoch, old,
                      snap, pump, destroyer, closed, net, gate, owed>>
      BY <2>7 DEF BridgeReplay
    <3>5. Targets'
      BY <3>3, <3>4
    <3>6. TypeOK'
      BY <3>2, <3>3, <3>4, ZenonT(60)
    <3>7. QED
      BY <3>5, <3>6
  <2>8. ASSUME NEW c \in Clients, BridgeReplayDone(c) PROVE ITyped'
    BY <2>8, MoveKeepsType DEF BridgeReplayDone
  <2>9. ASSUME NEW c \in Clients, BridgeEnd(c) PROVE ITyped'
    BY <2>9, MoveKeepsType DEF BridgeEnd
  <2>10. ASSUME NEW c \in Clients, AttachLeave(c) PROVE ITyped'
    BY <2>10, SMTT(60) DEF AttachLeave
  <2>11. ASSUME NEW c \in Clients, BridgeProtocolError(c) PROVE ITyped'
    BY <2>11, MoveKeepsType DEF BridgeProtocolError
  <2>12. ASSUME NEW c \in Clients, Detach(c) PROVE ITyped'
    <3>1. closed' \subseteq Clients
      BY <2>12 DEF Detach
    <3>2. UNCHANGED <<state, conn, attachEpoch, total, replaySeq, mirror, termExited, alive, pc, myEpoch, old,
                      snap, next, pump, destroyer, net, recv, gate, owed, answered>>
      BY <2>12 DEF Detach
    <3>3. Targets'
      BY <3>2
    <3>4. TypeOK'
      BY <3>1, <3>2, SMTT(60)
    <3>5. QED
      BY <3>3, <3>4
  <2>13. ASSUME NEW c \in Clients, NEW f \in Faults, NetworkFault(c, f) PROVE ITyped'
    <3>1. net' \in [Clients -> {"up", "stalled", "down"}]
      BY <2>13 DEF NetworkFault
    <3>2. UNCHANGED <<state, conn, attachEpoch, total, replaySeq, mirror, termExited, alive, pc, myEpoch, old,
                      snap, next, pump, destroyer, closed, recv, gate, owed, answered>>
      BY <2>13 DEF NetworkFault
    <3>3. Targets'
      BY <3>2
    <3>4. TypeOK'
      BY <3>1, <3>2, SMTT(60)
    <3>5. QED
      BY <3>3, <3>4
  <2>14. ASSUME NEW c \in Clients, GateOpens(c) PROVE ITyped'
    <3>1. gate' \in [Clients -> {"shut", "open", "early"}] /\ answered' \in [Chunks -> Nat]
      BY <2>14, GateOpening
    <3>2. UNCHANGED <<state, conn, attachEpoch, total, replaySeq, mirror, termExited, alive, pc, myEpoch, old,
                      snap, next, pump, destroyer, closed, net, recv, owed>>
      BY <2>14 DEF GateOpens
    <3>3. Targets'
      BY <3>2
    <3>4. TypeOK'
      BY <3>1, <3>2, SMTT(60)
    <3>5. QED
      BY <3>3, <3>4
  <2>15. ASSUME PumpChunk PROVE ITyped'
    BY <2>15, SMTT(60) DEF PumpChunk, Chunks
  <2>16. ASSUME PumpMirror PROVE ITyped'
    <3>1. total \in Chunks
      BY <2>16 DEF PumpMirror
    <3>2. answered' \in [Chunks -> Nat] /\ owed' \in [Chunks -> {"no", "due", "late"}]
      <4>1. PICK k \in 0..total : Drain({n \in Waiting : n <= k}, pump.to = NoConn)
        BY <2>16 DEF PumpMirror
      <4>2. \A n \in Chunks : answered[n] + 1 \in Nat /\ answered[n] \in Nat /\ owed[n] \in {"no", "due", "late"}
        OBVIOUS
      <4>3. answered' \in [Chunks -> Nat]
        BY <4>1, <4>2, Zenon DEF Drain
      <4>4. owed' \in [Chunks -> {"no", "due", "late"}]
        BY <4>1, <4>2, ZenonT(30) DEF Drain
      <4>5. QED
        BY <4>3, <4>4
    <3>3. QED
      BY <2>16, <3>2, ZenonT(60) DEF PumpMirror
  <2>17. ASSUME PumpDeliver PROVE ITyped'
    <3>1. total \in Chunks /\ pump.to \in Clients
      BY <2>17 DEF PumpDeliver
    <3>2. answered' \in [Chunks -> Nat]
      BY <2>17, <3>1, AnswerType DEF PumpDeliver
    <3>3. recv' \in [Clients -> Seq(Chunks)]
      BY <2>17, <3>1 DEF PumpDeliver
    <3>4. QED
      BY <2>17, <3>2, <3>3, SMTT(60) DEF PumpDeliver
  <2>18. ASSUME PumpExit PROVE ITyped'
    BY <2>18, ZenonT(60) DEF PumpExit
  <2>19. ASSUME ProcessExit PROVE ITyped'
    BY <2>19, ZenonT(60) DEF ProcessExit
  <2>20. ASSUME Destroy PROVE ITyped'
    BY <2>20, SMTT(60) DEF Destroy
  <2>21. ASSUME DestroyCloseConn PROVE ITyped'
    BY <2>21, ZenonT(60) DEF DestroyCloseConn
  <2>22. ASSUME DestroyNotifyConn PROVE ITyped'
    BY <2>22, ZenonT(60) DEF DestroyNotifyConn
  <2>23. ASSUME DestroyKill PROVE ITyped'
    BY <2>23, ZenonT(60) DEF DestroyKill
  <2>24. CASE UNCHANGED vars
    BY <2>24, VarsUnchanged, ZenonT(60)
  <2>25. ASSUME NEW c \in Clients, AttachStep(c) PROVE ITyped'
    BY <2>3, <2>4, <2>5, <2>6, <2>7, <2>8, <2>9, <2>10, <2>25 DEF AttachStep
  <2>26. CASE DestroyStep
    BY <2>21, <2>22, <2>23, <2>26 DEF DestroyStep
  <2> HIDE DEF ITyped
  <2>27. QED
    BY <2>1, <2>2, <2>11, <2>12, <2>13, <2>14, <2>15, <2>16, <2>17, <2>18, <2>19, <2>20, <2>24, <2>25, <2>26
    DEF Next
<1>3. QED
  BY <1>1, <1>2, PTL DEF Spec

\* The declared types of the variables hold of every session.
THEOREM TypeSafe == Spec => []TypeOK
BY TypeCorrect, PTL DEF ITyped

-----------------------------------------------------------------------------
(* Ownership.                                                              *)

\* What the epochs say: they only grow, an attach has one from its takeover
\* on, and while the session lives the newest one belongs to its owner.
Epochs ==
  /\ \A c \in Clients :
       /\ myEpoch[c] <= attachEpoch
       /\ pc[c] = "new" => myEpoch[c] = 0
       /\ Active(c) => myEpoch[c] # 0
  /\ \A c \in Clients :
       Active(c) /\ state # "destroyed" /\ myEpoch[c] = attachEpoch => conn = c

DestroyedOnce == destroyer.pc # "none" => state = "destroyed"

IOwner == Epochs /\ OwnerHoldsEpoch /\ SupersededIsClosed /\ DestroyedOnce

LEMMA OwnerTypes ==
  ITyped => /\ state \in {"idle", "running", "destroyed"}
            /\ conn \in Clients \cup {NoConn} /\ attachEpoch \in Nat
            /\ pc \in [Clients -> AttachPcs]
            /\ myEpoch \in [Clients -> Nat]
            /\ old \in [Clients -> Clients \cup {NoConn}]
            /\ closed \subseteq Clients
            /\ destroyer \in [pc : {"none", "closeConn", "notifyConn", "closeTerm", "done"},
                              conn : Clients \cup {NoConn}]
BY DEF ITyped, TypeOK

\* A step that moves an attach goroutine without touching the session, its
\* channel or its takeover cannot disturb ownership.
LEMMA BridgeKeepsOwner ==
  ASSUME ITyped, IOwner, NEW c \in Clients, NEW label \in {"init", "replay", "bridged", "leave"},
         pc[c] \in {"snapshot", "init", "replay", "bridged"}, pc' = [pc EXCEPT ![c] = label],
         UNCHANGED <<state, conn, attachEpoch, myEpoch, old, closed, destroyer>>
  PROVE  IOwner'
<1> USE OwnerTypes DEF Active, BeingClosed, AttachPcs
<1>1. Epochs'
  BY DEF IOwner, Epochs
<1>2. OwnerHoldsEpoch' /\ DestroyedOnce'
  BY DEF IOwner, OwnerHoldsEpoch, DestroyedOnce
<1>3. SupersededIsClosed'
  BY DEF IOwner, SupersededIsClosed
<1>4. QED
  BY <1>1, <1>2, <1>3 DEF IOwner

LEMMA UnchangedKeepsOwner ==
  ASSUME IOwner, UNCHANGED <<state, conn, attachEpoch, pc, myEpoch, old, closed, destroyer>>
  PROVE  IOwner'
BY DEF IOwner, Epochs, OwnerHoldsEpoch, SupersededIsClosed, DestroyedOnce, Active, BeingClosed

\* The ownership invariant: the attached client holds the newest epoch,
\* nobody else does, and every client that lost the session is being closed.
THEOREM OwnerInvariant == Spec => []IOwner
<1>1. Init => IOwner
  BY DEF Init, IOwner, Epochs, OwnerHoldsEpoch, SupersededIsClosed, DestroyedOnce, Active
<1>2. ITyped /\ IOwner /\ [Next]_vars => IOwner'
  <2> SUFFICES ASSUME ITyped, IOwner, [Next]_vars PROVE IOwner'
    OBVIOUS
  <2> USE OwnerTypes DEF Active, BeingClosed, AttachPcs, Goto, sessionVars, outVars, attachVars,
                         clientVars, pumpVars
  <2>1. ASSUME NEW c \in Clients, AttachRefused(c) PROVE IOwner'
    <3>1. Epochs'
      BY <2>1 DEF AttachRefused, IOwner, Epochs, OwnerHoldsEpoch
    <3>2. OwnerHoldsEpoch' /\ DestroyedOnce'
      BY <2>1 DEF AttachRefused, IOwner, Epochs, OwnerHoldsEpoch, DestroyedOnce
    <3>3. SupersededIsClosed'
      BY <2>1 DEF AttachRefused, IOwner, OwnerHoldsEpoch, SupersededIsClosed, DestroyedOnce, ITyped, Targets
    <3>4. QED
      BY <3>1, <3>2, <3>3 DEF IOwner
  <2>2. ASSUME NEW c \in Clients, AttachTake(c) PROVE IOwner'
    <3>1. Epochs'
      BY <2>2 DEF AttachTake, IOwner, Epochs, OwnerHoldsEpoch
    <3>2. OwnerHoldsEpoch' /\ DestroyedOnce'
      BY <2>2 DEF AttachTake, IOwner, Epochs, OwnerHoldsEpoch, DestroyedOnce
    <3>3. SupersededIsClosed'
      BY <2>2 DEF AttachTake, IOwner, OwnerHoldsEpoch, SupersededIsClosed, DestroyedOnce, ITyped, Targets
    <3>4. QED
      BY <3>1, <3>2, <3>3 DEF IOwner
  <2>3. ASSUME NEW c \in Clients, AttachCloseOld(c) PROVE IOwner'
    <3>1. Epochs'
      BY <2>3 DEF AttachCloseOld, IOwner, Epochs, OwnerHoldsEpoch
    <3>2. OwnerHoldsEpoch' /\ DestroyedOnce'
      BY <2>3 DEF AttachCloseOld, IOwner, Epochs, OwnerHoldsEpoch, DestroyedOnce
    <3>3. SupersededIsClosed'
      BY <2>3 DEF AttachCloseOld, IOwner, OwnerHoldsEpoch, SupersededIsClosed, DestroyedOnce, ITyped, Targets
    <3>4. QED
      BY <3>1, <3>2, <3>3 DEF IOwner
  <2>4. ASSUME NEW c \in Clients, AttachNotifyOld(c) PROVE IOwner'
    <3>1. Epochs'
      BY <2>4 DEF AttachNotifyOld, IOwner, Epochs, OwnerHoldsEpoch
    <3>2. OwnerHoldsEpoch' /\ DestroyedOnce'
      BY <2>4 DEF AttachNotifyOld, IOwner, Epochs, OwnerHoldsEpoch, DestroyedOnce
    <3>3. SupersededIsClosed'
      BY <2>4 DEF AttachNotifyOld, IOwner, OwnerHoldsEpoch, SupersededIsClosed, DestroyedOnce, ITyped, Targets
    <3>4. QED
      BY <3>1, <3>2, <3>3 DEF IOwner
  <2>5. ASSUME NEW c \in Clients, AttachLeave(c) PROVE IOwner'
    <3>1. Epochs'
      BY <2>5 DEF AttachLeave, IOwner, Epochs, OwnerHoldsEpoch
    <3>2. OwnerHoldsEpoch' /\ DestroyedOnce'
      BY <2>5 DEF AttachLeave, IOwner, Epochs, OwnerHoldsEpoch, DestroyedOnce
    <3>3. SupersededIsClosed'
      BY <2>5 DEF AttachLeave, IOwner, OwnerHoldsEpoch, SupersededIsClosed, DestroyedOnce, ITyped, Targets
    <3>4. QED
      BY <3>1, <3>2, <3>3 DEF IOwner
  <2>6. ASSUME NEW c \in Clients, Detach(c) PROVE IOwner'
    <3>1. Epochs'
      BY <2>6 DEF Detach, IOwner, Epochs, OwnerHoldsEpoch
    <3>2. OwnerHoldsEpoch' /\ DestroyedOnce'
      BY <2>6 DEF Detach, IOwner, Epochs, OwnerHoldsEpoch, DestroyedOnce
    <3>3. SupersededIsClosed'
      BY <2>6 DEF Detach, IOwner, OwnerHoldsEpoch, SupersededIsClosed, DestroyedOnce, ITyped, Targets
    <3>4. QED
      BY <3>1, <3>2, <3>3 DEF IOwner
  <2>7. ASSUME Destroy PROVE IOwner'
    <3>1. Epochs'
      BY <2>7 DEF Destroy, IOwner, Epochs, OwnerHoldsEpoch
    <3>2. OwnerHoldsEpoch' /\ DestroyedOnce'
      BY <2>7 DEF Destroy, IOwner, Epochs, OwnerHoldsEpoch, DestroyedOnce
    <3>3. SupersededIsClosed'
      BY <2>7 DEF Destroy, IOwner, OwnerHoldsEpoch, SupersededIsClosed, DestroyedOnce, ITyped, Targets
    <3>4. QED
      BY <3>1, <3>2, <3>3 DEF IOwner
  <2>8. ASSUME DestroyCloseConn PROVE IOwner'
    <3>1. Epochs'
      BY <2>8 DEF DestroyCloseConn, IOwner, Epochs, OwnerHoldsEpoch
    <3>2. OwnerHoldsEpoch' /\ DestroyedOnce'
      BY <2>8 DEF DestroyCloseConn, IOwner, Epochs, OwnerHoldsEpoch, DestroyedOnce
    <3>3. SupersededIsClosed'
      BY <2>8 DEF DestroyCloseConn, IOwner, OwnerHoldsEpoch, SupersededIsClosed, DestroyedOnce, ITyped, Targets
    <3>4. QED
      BY <3>1, <3>2, <3>3 DEF IOwner
  <2>9. ASSUME DestroyNotifyConn PROVE IOwner'
    <3>1. Epochs'
      BY <2>9 DEF DestroyNotifyConn, IOwner, Epochs, OwnerHoldsEpoch
    <3>2. OwnerHoldsEpoch' /\ DestroyedOnce'
      BY <2>9 DEF DestroyNotifyConn, IOwner, Epochs, OwnerHoldsEpoch, DestroyedOnce
    <3>3. SupersededIsClosed'
      BY <2>9 DEF DestroyNotifyConn, IOwner, OwnerHoldsEpoch, SupersededIsClosed, DestroyedOnce, ITyped, Targets
    <3>4. QED
      BY <3>1, <3>2, <3>3 DEF IOwner
  <2>10. ASSUME DestroyKill PROVE IOwner'
    <3>1. Epochs'
      BY <2>10 DEF DestroyKill, IOwner, Epochs, OwnerHoldsEpoch
    <3>2. OwnerHoldsEpoch' /\ DestroyedOnce'
      BY <2>10 DEF DestroyKill, IOwner, Epochs, OwnerHoldsEpoch, DestroyedOnce
    <3>3. SupersededIsClosed'
      BY <2>10 DEF DestroyKill, IOwner, OwnerHoldsEpoch, SupersededIsClosed, DestroyedOnce, ITyped, Targets
    <3>4. QED
      BY <3>1, <3>2, <3>3 DEF IOwner
  <2>11. ASSUME NEW c \in Clients, BridgeSnapshot(c) PROVE IOwner'
    BY <2>11, BridgeKeepsOwner DEF BridgeSnapshot
  <2>12. ASSUME NEW c \in Clients, BridgeInit(c) PROVE IOwner'
    BY <2>12, BridgeKeepsOwner DEF BridgeInit
  <2>13. ASSUME NEW c \in Clients, BridgeReplayDone(c) PROVE IOwner'
    BY <2>13, BridgeKeepsOwner DEF BridgeReplayDone
  <2>14. ASSUME NEW c \in Clients, BridgeEnd(c) PROVE IOwner'
    BY <2>14, BridgeKeepsOwner DEF BridgeEnd
  <2>15. ASSUME NEW c \in Clients, BridgeProtocolError(c) PROVE IOwner'
    BY <2>15, BridgeKeepsOwner DEF BridgeProtocolError
  <2>16. ASSUME NEW c \in Clients, BridgeReplay(c) PROVE IOwner'
    BY <2>16, UnchangedKeepsOwner DEF BridgeReplay
  <2>17. ASSUME NEW c \in Clients, NEW f \in Faults, NetworkFault(c, f) PROVE IOwner'
    BY <2>17, UnchangedKeepsOwner DEF NetworkFault
  <2>18. ASSUME NEW c \in Clients, GateOpens(c) PROVE IOwner'
    BY <2>18, UnchangedKeepsOwner DEF GateOpens
  <2>19. ASSUME PumpChunk PROVE IOwner'
    BY <2>19, UnchangedKeepsOwner DEF PumpChunk
  <2>20. ASSUME PumpMirror PROVE IOwner'
    BY <2>20, UnchangedKeepsOwner DEF PumpMirror
  <2>21. ASSUME PumpDeliver PROVE IOwner'
    BY <2>21, UnchangedKeepsOwner DEF PumpDeliver
  <2>22. ASSUME PumpExit PROVE IOwner'
    BY <2>22, UnchangedKeepsOwner DEF PumpExit
  <2>23. ASSUME ProcessExit PROVE IOwner'
    BY <2>23, UnchangedKeepsOwner DEF ProcessExit
  <2>24. CASE UNCHANGED vars
    BY <2>24, UnchangedKeepsOwner, VarsUnchanged
  <2>25. ASSUME NEW c \in Clients, AttachStep(c) PROVE IOwner'
    BY <2>3, <2>4, <2>5, <2>11, <2>12, <2>13, <2>14, <2>16, <2>25 DEF AttachStep
  <2>26. CASE DestroyStep
    BY <2>8, <2>9, <2>10, <2>26 DEF DestroyStep
  <2>27. QED
    BY <2>1, <2>2, <2>6, <2>7, <2>15, <2>17, <2>18, <2>19, <2>20, <2>21, <2>22, <2>23, <2>24, <2>25, <2>26
    DEF Next
<1>3. QED
  BY <1>1, <1>2, TypeCorrect, PTL DEF Spec

\* "At most one client is attached per session": an attach other than the
\* owner's has lost its channel, is returning, or is about to be closed.
THEOREM NoLingeringClient == Spec => []SupersededIsClosed
BY OwnerInvariant, PTL DEF IOwner

\* The attached client is the one whose goroutine holds the newest epoch.
THEOREM EpochIsOwnership == Spec => []OwnerHoldsEpoch
BY OwnerInvariant, PTL DEF IOwner

\* Session implements the ownership protocol: an attach that returns gives
\* the session back exactly if it still has it.
THEOREM Refinement == Spec => ImplementsOwner
<1>1. Init => Owner!Init
  BY DEF Init, Owner!Init, Phase
<1>2. ITyped /\ IOwner /\ [Next]_vars => [Owner!Next]_(Owner!vars)
  <2> SUFFICES ASSUME ITyped, IOwner, [Next]_vars PROVE [Owner!Next]_(Owner!vars)
    OBVIOUS
  <2> USE OwnerTypes DEF sessionVars, outVars, attachVars, clientVars, pumpVars, Goto
  <2> DEFINE phase == [c \in Clients |-> Phase(pc[c])]
  <2>1. ASSUME UNCHANGED <<state, conn>>, phase' = phase PROVE UNCHANGED Owner!vars
    BY <2>1 DEF Owner!vars
  <2>2. ASSUME NEW c \in Clients, AttachTake(c) PROVE Owner!Next
    <3>1. phase[c] = "new" /\ phase' = [phase EXCEPT ![c] = "in"]
      BY <2>2 DEF AttachTake, Phase
    <3>2. Owner!Take(c)
      BY <2>2, <3>1 DEF AttachTake, Owner!Take
    <3>3. QED
      BY <3>2 DEF Owner!Next
  <2>3. ASSUME NEW c \in Clients, AttachRefused(c) PROVE Owner!Next
    <3>1. phase[c] = "new" /\ phase' = [phase EXCEPT ![c] = "out"]
      BY <2>3 DEF AttachRefused, Phase
    <3>2. Owner!Refuse(c)
      BY <2>3, <3>1 DEF AttachRefused, Owner!Refuse
    <3>3. QED
      BY <3>2 DEF Owner!Next
  <2>4. ASSUME NEW c \in Clients, AttachLeave(c) PROVE Owner!Next
    <3>1. phase[c] = "in" /\ phase' = [phase EXCEPT ![c] = "out"]
      BY <2>4 DEF AttachLeave, Phase
    <3>2. conn = c <=> state # "destroyed" /\ attachEpoch = myEpoch[c]
      BY <2>4 DEF AttachLeave, IOwner, Epochs, OwnerHoldsEpoch, Active
    <3>3. conn' = (IF conn = c THEN NoConn ELSE conn) /\ UNCHANGED (state = "destroyed")
      BY <2>4, <3>2 DEF AttachLeave
    <3>4. Owner!Leave(c)
      BY <3>1, <3>3 DEF Owner!Leave
    <3>5. QED
      BY <3>4 DEF Owner!Next
  <2>5. ASSUME Destroy PROVE Owner!Next
    <3>1. Owner!Destroy
      BY <2>5 DEF Destroy, Owner!Destroy
    <3>2. QED
      BY <3>1 DEF Owner!Next
  <2>6. ASSUME NEW c \in Clients,
               \/ AttachCloseOld(c) \/ AttachNotifyOld(c) \/ BridgeSnapshot(c) \/ BridgeInit(c)
               \/ BridgeReplay(c) \/ BridgeReplayDone(c) \/ BridgeEnd(c) \/ BridgeProtocolError(c)
        PROVE  UNCHANGED <<state, conn>> /\ phase' = phase
    BY <2>6 DEF AttachCloseOld, AttachNotifyOld, BridgeSnapshot, BridgeInit, BridgeReplay,
                BridgeReplayDone, BridgeEnd, BridgeProtocolError, Phase
  <2>7. ASSUME NEW c \in Clients, Detach(c) \/ GateOpens(c) \/ \E fault \in Faults : NetworkFault(c, fault)
        PROVE  UNCHANGED <<state, conn>> /\ phase' = phase
    BY <2>7 DEF Detach, GateOpens, NetworkFault
  <2>8. ASSUME PumpChunk \/ PumpMirror \/ PumpDeliver \/ PumpExit \/ ProcessExit \/ DestroyStep
        PROVE  UNCHANGED <<state, conn>> /\ phase' = phase
    BY <2>8 DEF PumpChunk, PumpMirror, PumpDeliver, PumpExit, ProcessExit, DestroyStep,
                DestroyCloseConn, DestroyNotifyConn, DestroyKill
  <2>9. CASE UNCHANGED vars
    BY <2>1, <2>9, VarsUnchanged
  <2> HIDE DEF phase
  <2>10. QED
    BY <2>1, <2>2, <2>3, <2>4, <2>5, <2>6, <2>7, <2>8, <2>9 DEF Next, AttachStep
<1>3. QED
  BY <1>1, <1>2, TypeCorrect, OwnerInvariant, PTL DEF Spec, ImplementsOwner, Owner!Spec

-----------------------------------------------------------------------------
(* The output.                                                             *)

\* What an attached client has, while its replay is under way and after it:
\* every chunk of the tail and of the live output reached it, is still to be
\* replayed, or is in the pump's hands for it.
HasOutput(c) ==
  conn = c /\ net[c] = "up" /\ pc[c] \in {"init", "replay", "bridged"} =>
    \A n \in TailStart(snap[c])..total :
      \/ n \in Received(c)
      \/ pc[c] # "bridged" /\ next[c] <= n /\ n <= snap[c]
      \/ n = total /\ pump.pc \in {"mirror", "deliver"} /\ pump.to = c

IOutput == replaySeq <= total /\ \A c \in Clients : HasOutput(c)

LEMMA OutputTypes ==
  ITyped => /\ total \in 0..MaxOut /\ replaySeq \in 0..MaxOut
            /\ conn \in Clients \cup {NoConn}
            /\ pc \in [Clients -> AttachPcs]
            /\ snap \in [Clients -> 0..MaxOut] /\ next \in [Clients -> Nat]
            /\ net \in [Clients -> {"up", "stalled", "down"}]
            /\ recv \in [Clients -> Seq(Chunks)]
            /\ pump \in [pc : {"read", "mirror", "deliver", "stopped"}, to : Clients \cup {NoConn}]
            /\ pump.pc = "deliver" => pump.to \in Clients
BY DEF ITyped, TypeOK, Targets

\* A frame that arrives is added to what the client received, and nothing
\* that it received is taken away.
LEMMA Delivery ==
  ASSUME ITyped, NEW c \in Clients, NEW n \in Nat, WriteOutput(c, n)
  PROVE  /\ \A d \in Clients : Received(d) \subseteq Received(d)'
         /\ net[c] = "up" => n \in Received(c)'
<1>1. recv \in [Clients -> Seq(Chunks)]
  BY OutputTypes
<1>2. CASE net[c] = "up"
  <2>1. recv' = [recv EXCEPT ![c] = Append(recv[c], n)]
    BY <1>2 DEF WriteOutput, Arrives
  <2>2. \A d \in Clients : d # c => Received(d)' = Received(d)
    BY <1>1, <2>1 DEF Received
  <2>3. recv[c] \in Seq(Chunks) /\ recv'[c] = Append(recv[c], n)
    BY <1>1, <2>1
  <2>4. /\ Len(recv[c]) \in Nat
        /\ DOMAIN recv[c] = 1..Len(recv[c]) /\ DOMAIN recv'[c] = 1..Len(recv[c]) + 1
        /\ recv'[c][Len(recv[c]) + 1] = n
        /\ \A i \in 1..Len(recv[c]) : recv'[c][i] = recv[c][i]
    BY <2>3
  <2>5. n \in Received(c)'
    <3>1. Len(recv[c]) + 1 \in DOMAIN recv'[c]
      BY <2>4
    <3>2. QED
      BY <2>4, <3>1 DEF Received
  <2>6. \A i \in DOMAIN recv[c] : i \in DOMAIN recv'[c] /\ recv'[c][i] = recv[c][i]
    BY <2>4
  <2>7. Received(c) \subseteq Received(c)'
    BY <2>6, Zenon DEF Received
  <2>8. QED
    BY <1>2, <2>2, <2>5, <2>7
<1>3. CASE net[c] # "up"
  BY <1>3 DEF WriteOutput, Arrives, Received
<1>4. QED
  BY <1>2, <1>3

\* A step of a client, a pump or a process that leaves the output of a
\* client alone.
LEMMA UnchangedKeepsOutput ==
  ASSUME IOutput, UNCHANGED <<conn, total, replaySeq, pc, snap, next, pump, net, recv>>
  PROVE  IOutput'
BY DEF IOutput, HasOutput, Received

\* A step of an attach that is not in its replay handshake or past it claims
\* nothing about output, whether or not it takes the session or gives it back.
LEMMA OutsideTheBridge ==
  ASSUME ITyped, IOutput, NEW c \in Clients, NEW label \in AttachPcs \ {"init", "replay", "bridged"},
         pc' = [pc EXCEPT ![c] = label], conn' \in {conn, c, NoConn},
         UNCHANGED <<total, replaySeq, snap, next, pump, net, recv>>
  PROVE  IOutput'
<1>1. ASSUME NEW d \in Clients, HasOutput(d) PROVE HasOutput(d)'
  <2>1. CASE d = c
    BY <2>1, OutputTypes DEF HasOutput
  <2>2. CASE d # c
    <3>1. pc'[d] = pc[d] /\ (conn' = d => conn = d)
      BY <2>2, OutputTypes
    <3>2. Received(d)' = Received(d) /\ TailStart(snap[d])' = TailStart(snap[d])
      BY DEF Received, TailStart
    <3>3. QED
      BY <1>1, <3>1, <3>2 DEF HasOutput
  <2>3. QED
    BY <2>1, <2>2
<1>2. QED
  BY <1>1 DEF IOutput

\* The output invariant, and with it the two facts that follow from it: the
\* chunks of an attached client are all accounted for, and no attach ever
\* finds the pump behind its snapshot.
THEOREM OutputInvariant == Spec => []IOutput
<1>1. Init => IOutput
  BY DEF Init, IOutput, HasOutput
<1>2. ITyped /\ IOwner /\ IOutput /\ [Next]_vars => IOutput'
  <2> SUFFICES ASSUME ITyped, IOwner, IOutput, [Next]_vars PROVE IOutput'
    OBVIOUS
  <2> USE OutputTypes DEF AttachPcs, Goto, sessionVars, outVars, attachVars, clientVars, pumpVars
  <2>1. ASSUME NEW c \in Clients, AttachRefused(c) PROVE IOutput'
    BY <2>1, OutsideTheBridge DEF AttachRefused
  <2>2. ASSUME NEW c \in Clients, AttachTake(c) PROVE IOutput'
    BY <2>2, OutsideTheBridge DEF AttachTake
  <2>3. ASSUME NEW c \in Clients, AttachCloseOld(c) PROVE IOutput'
    BY <2>3, OutsideTheBridge DEF AttachCloseOld
  <2>4. ASSUME NEW c \in Clients, AttachNotifyOld(c) PROVE IOutput'
    BY <2>4, OutsideTheBridge DEF AttachNotifyOld
  <2>5. ASSUME NEW c \in Clients, BridgeSnapshot(c) PROVE IOutput'
    BY <2>5 DEF BridgeSnapshot, IOutput, HasOutput, Received
  <2>6. ASSUME NEW c \in Clients, BridgeInit(c) PROVE IOutput'
    BY <2>6 DEF BridgeInit, IOutput, HasOutput, Received
  <2>7. ASSUME NEW c \in Clients, BridgeReplay(c) PROVE IOutput'
    <3>1. /\ \A d \in Clients : Received(d) \subseteq Received(d)'
          /\ net[c] = "up" => next[c] \in Received(c)'
      BY <2>7, Delivery DEF BridgeReplay
    <3>2. \A d \in Clients : HasOutput(d)'
      BY <2>7, <3>1 DEF BridgeReplay, IOutput, HasOutput, TailStart
    <3>3. QED
      BY <2>7, <3>2 DEF BridgeReplay, IOutput
  <2>8. ASSUME NEW c \in Clients, BridgeReplayDone(c) PROVE IOutput'
    BY <2>8 DEF BridgeReplayDone, IOutput, HasOutput, Received, TailStart
  <2>9. ASSUME NEW c \in Clients, BridgeEnd(c) PROVE IOutput'
    BY <2>9, OutsideTheBridge DEF BridgeEnd
  <2>10. ASSUME NEW c \in Clients, AttachLeave(c) PROVE IOutput'
    BY <2>10, OutsideTheBridge DEF AttachLeave
  <2>11. ASSUME NEW c \in Clients, BridgeProtocolError(c) PROVE IOutput'
    BY <2>11, OutsideTheBridge DEF BridgeProtocolError
  <2>12. ASSUME NEW c \in Clients, NEW f \in Faults, NetworkFault(c, f) PROVE IOutput'
    BY <2>12 DEF NetworkFault, IOutput, HasOutput, Received
  <2>13. ASSUME PumpChunk PROVE IOutput'
    <3>1. /\ pump.pc = "read" /\ total' = total + 1
          /\ pump'.pc = "mirror" /\ pump'.to = conn
          /\ UNCHANGED <<conn, replaySeq, pc, snap, next, net, recv>>
      BY <2>13 DEF PumpChunk, IOutput
    <3>2. ASSUME NEW c \in Clients, HasOutput(c) PROVE HasOutput(c)'
      <4>1. Received(c)' = Received(c) /\ TailStart(snap[c])' = TailStart(snap[c])
        BY <3>1 DEF Received, TailStart
      <4>2. TailStart(snap[c]) \in Nat
        BY DEF TailStart
      <4>3. QED
        BY <3>1, <3>2, <4>1, <4>2 DEF HasOutput
    <3>3. QED
      BY <3>1, <3>2 DEF IOutput
  <2>14. ASSUME PumpMirror PROVE IOutput'
    BY <2>14, SessionAssumption DEF PumpMirror, PumpIdle, IOutput, HasOutput, Received
  <2>15. ASSUME PumpDeliver PROVE IOutput'
    <3>1. PICK to \in Clients, n \in Nat : to = pump.to /\ n = total
      BY <2>15 DEF PumpDeliver
    <3>2. /\ UNCHANGED <<conn, total, replaySeq, pc, snap, next, net>>
          /\ WriteOutput(to, n)
      BY <2>15, <3>1 DEF PumpDeliver
    <3>3. /\ \A d \in Clients : Received(d) \subseteq Received(d)'
          /\ net[to] = "up" => n \in Received(to)'
      BY <3>2, Delivery
    <3>4. ASSUME NEW c \in Clients, HasOutput(c) PROVE HasOutput(c)'
      <4>1. TailStart(snap[c])' = TailStart(snap[c])
        BY <3>2 DEF TailStart
      <4>2. QED
        BY <3>1, <3>2, <3>3, <3>4, <4>1 DEF HasOutput
    <3>5. QED
      BY <3>2, <3>4 DEF IOutput
  <2>16. ASSUME PumpExit PROVE IOutput'
    BY <2>16 DEF PumpExit, IOutput, HasOutput, Received
  <2>17. ASSUME Destroy PROVE IOutput'
    BY <2>17 DEF Destroy, IOutput, HasOutput
  <2>18. ASSUME NEW c \in Clients, Detach(c) \/ GateOpens(c) PROVE IOutput'
    BY <2>18, UnchangedKeepsOutput DEF Detach, GateOpens
  <2>19. CASE ProcessExit \/ DestroyStep
    BY <2>19, UnchangedKeepsOutput DEF ProcessExit, DestroyStep, DestroyCloseConn, DestroyNotifyConn, DestroyKill
  <2>20. CASE UNCHANGED vars
    BY <2>20, UnchangedKeepsOutput, VarsUnchanged
  <2>21. ASSUME NEW c \in Clients, AttachStep(c) PROVE IOutput'
    BY <2>3, <2>4, <2>5, <2>6, <2>7, <2>8, <2>9, <2>10, <2>21 DEF AttachStep
  <2>22. QED
    BY <2>1, <2>2, <2>11, <2>12, <2>13, <2>14, <2>15, <2>16, <2>17, <2>18, <2>19, <2>20, <2>21 DEF Next
<1>3. QED
  BY <1>1, <1>2, TypeCorrect, OwnerInvariant, PTL DEF Spec

\* "Output is never lost or stolen between attaches": past the handshake, the
\* attached client has the whole tail and everything printed since.
THEOREM OutputReachesOwner == Spec => []NoLostOutput
<1>1. ITyped /\ IOutput => NoLostOutput
  BY OutputTypes DEF IOutput, HasOutput, NoLostOutput
<1>2. QED
  BY <1>1, TypeCorrect, OutputInvariant, PTL

\* The pump's replay guard never skips a chunk: the position of the latest
\* snapshot is never ahead of the output.
THEOREM ReplayGuardIsVacuous == Spec => [](replaySeq <= total)
BY OutputInvariant, PTL DEF IOutput

-----------------------------------------------------------------------------
(* Query answers and the final screen.                                     *)

\* What a client was sent: nothing is replayed before the snapshot, and only
\* chunks of its tail after it; a gate opens in time only past the handshake.
ReplayInOrder(c) ==
  /\ pc[c] \in {"new", "closeOld", "notifyOld", "snapshot"} => snap[c] = 0
  /\ snap[c] <= total
  /\ pc[c] \in {"init", "replay"} => TailStart(snap[c]) <= next[c]
  /\ gate[c] = "open" => pc[c] \in {"bridged", "leave", "gone"}
  /\ \A i \in DOMAIN recv[c] : recv[c][i] <= total

\* The mirror owes no answer to a chunk it has not parsed.
IReplay ==
  /\ \A c \in Clients : ReplayInOrder(c)
  /\ \A n \in Chunks : n > total \/ (n = total /\ pump.pc = "mirror") => owed[n] = "no"

\* The two ways a query may be answered a second time.
Excused(n) == owed[n] = "late" \/ \E c \in Clients : gate[c] = "early" /\ n \in Replay(c)

\* A chunk that was delivered live and waits for the client's gate.
Pending(c, i, n) == gate[c] = "shut" /\ i \in DOMAIN recv[c] /\ recv[c][i] = n /\ n \notin Replay(c)

PumpHolds(n) == n = total /\ pump.pc \in {"mirror", "deliver"}

\* Apart from the excuses, the query of a chunk is answered by whoever lets go
\* of it: the pump holds it, or one frame of one client does, or it may have
\* been answered.
AnsweredInTurn(n) ==
  /\ answered[n] <= 1
  /\ n > total \/ PumpHolds(n) =>
       answered[n] = 0 /\ \A c \in Clients : \A i \in DOMAIN recv[c] : ~Pending(c, i, n)
  /\ \A c \in Clients : \A i \in DOMAIN recv[c] : Pending(c, i, n) =>
       /\ answered[n] = 0
       /\ \A d \in Clients : \A j \in DOMAIN recv[d] : Pending(d, j, n) => d = c /\ j = i

IAnswer == \A n \in Chunks : Excused(n) \/ AnsweredInTurn(n)

\* Between two chunks the mirror has parsed all of the output, and it is
\* between two chunks that the pump sees the end of it.
IScreen ==
  /\ pump.pc # "mirror" => mirror = total
  /\ termExited => pump.pc = "stopped"

LEMMA PumpTypes ==
  ITyped => /\ total \in 0..MaxOut /\ replaySeq \in 0..MaxOut
            /\ answered \in [Chunks -> Nat]
            /\ pump \in [pc : {"read", "mirror", "deliver", "stopped"}, to : Clients \cup {NoConn}]
            /\ pump.pc \in {"mirror", "deliver"} => total \in Chunks
BY DEF ITyped, TypeOK, Targets

LEMMA AnswersOne ==
  ASSUME ITyped, NEW chunk \in Chunks, Answer(chunk)
  PROVE  /\ answered'[chunk] = answered[chunk] + 1
         /\ \A n \in Chunks : n # chunk => answered'[n] = answered[n]
BY PumpTypes DEF Answer

\* Every step outside the pump leaves the pump and the screen alone, and the
\* answers too unless it replays.
LEMMA OutsideThePump ==
  ASSUME [Next]_vars, ~(PumpChunk \/ PumpMirror \/ PumpDeliver \/ PumpExit)
  PROVE  /\ UNCHANGED <<total, pump, mirror, termExited>>
         /\ UNCHANGED <<owed, answered>> \/ \E c \in Clients : BridgeReplay(c) \/ GateOpens(c)
BY VarsUnchanged
   DEF Next, AttachStep, DestroyStep, AttachRefused, AttachTake, AttachCloseOld, AttachNotifyOld,
       BridgeSnapshot, BridgeInit, BridgeReplay, BridgeReplayDone, BridgeEnd, BridgeProtocolError,
       AttachLeave, Detach, GateOpens, NetworkFault, ProcessExit, Destroy, DestroyCloseConn,
       DestroyNotifyConn, DestroyKill, pumpVars, outVars

\* What delivery and replay do to the frames of a client.
LEMMA FramesAfterWrite ==
  ASSUME ITyped, NEW c \in Clients, NEW n \in Nat, WriteOutput(c, n)
  PROVE  /\ \A d \in Clients : \A i \in DOMAIN recv[d] : i \in DOMAIN recv'[d] /\ recv'[d][i] = recv[d][i]
         /\ \A d \in Clients : \A i \in DOMAIN recv'[d] :
              i \in DOMAIN recv[d] \/ (d = c /\ i = Len(recv[c]) + 1 /\ recv'[d][i] = n /\ Arrives(c))
<1>1. recv \in [Clients -> Seq(Chunks)]
  BY OutputTypes
<1>2. CASE Arrives(c)
  <2>1. recv' = [recv EXCEPT ![c] = Append(recv[c], n)]
    BY <1>2 DEF WriteOutput
  <2>2. \A d \in Clients : d # c => recv'[d] = recv[d]
    BY <1>1, <2>1
  <2>3. recv[c] \in Seq(Chunks) /\ recv'[c] = Append(recv[c], n)
    BY <1>1, <2>1
  <2>4. /\ DOMAIN recv[c] = 1..Len(recv[c]) /\ DOMAIN recv'[c] = 1..(Len(recv[c]) + 1) /\ Len(recv[c]) \in Nat
        /\ recv'[c][Len(recv[c]) + 1] = n
        /\ \A i \in 1..Len(recv[c]) : recv'[c][i] = recv[c][i]
    BY <2>3
  <2>5. \A i \in DOMAIN recv[c] : i \in DOMAIN recv'[c] /\ recv'[c][i] = recv[c][i]
    BY <2>4
  <2>6. \A i \in DOMAIN recv'[c] : i \in DOMAIN recv[c] \/ (i = Len(recv[c]) + 1 /\ recv'[c][i] = n)
    BY <2>4
  <2>7. QED
    BY <1>2, <2>2, <2>5, <2>6, Zenon
<1>3. CASE ~Arrives(c)
  BY <1>3 DEF WriteOutput
<1>4. QED
  BY <1>2, <1>3

LEMMA NothingBeforeTheSnapshot ==
  ASSUME ITyped, NEW c \in Clients, snap[c] = 0
  PROVE  Replay(c) = {}
BY DEF Replay, TailStart

LEMMA AnswerTypes ==
  ITyped => /\ gate \in [Clients -> {"shut", "open", "early"}]
            /\ owed \in [Chunks -> {"no", "due", "late"}]
            /\ \A c \in Clients : snap[c] \in Nat /\ next[c] \in Nat
            /\ MaxOut \in Nat /\ total \in Nat
BY DEF ITyped, TypeOK

\* Attach and bridge steps that leave what clients received alone.
LEMMA MoveKeepsReplay ==
  ASSUME ITyped, IReplay, NEW c \in Clients, NEW label \in AttachPcs,
         pc' = [pc EXCEPT ![c] = label],
         UNCHANGED <<total, snap, next, pump, recv, gate, owed>>,
         \/ label \in {"bridged", "leave", "gone"}
         \/ /\ label \in {"closeOld", "notifyOld", "snapshot"}
            /\ pc[c] \in {"new", "closeOld", "notifyOld"}
         \/ pc[c] = "init" /\ label = "replay"
  PROVE  IReplay'
<1>1. ASSUME NEW d \in Clients, ReplayInOrder(d) PROVE ReplayInOrder(d)'
  <2>1. CASE d = c
    <3>1. pc'[c] = label
      BY OutputTypes
    <3>2. QED
      BY <1>1, <2>1, <3>1 DEF ReplayInOrder, TailStart
  <2>2. CASE d # c
    <3>1. pc'[d] = pc[d]
      BY <2>2, OutputTypes
    <3>2. QED
      BY <1>1, <3>1 DEF ReplayInOrder, TailStart
  <2>3. QED
    BY <2>1, <2>2
<1>2. QED
  BY <1>1 DEF IReplay

LEMMA UnchangedKeepsReplay ==
  ASSUME IReplay, UNCHANGED <<total, pc, snap, next, pump, recv, gate, owed>>
  PROVE  IReplay'
BY DEF IReplay, ReplayInOrder, TailStart

LEMMA WriteKeepsReplay ==
  ASSUME ITyped, NEW c \in Clients, NEW n \in Nat, n <= total, WriteOutput(c, n), total' = total,
         \A d \in Clients : \A i \in DOMAIN recv[d] : recv[d][i] <= total
  PROVE  \A d \in Clients : \A i \in DOMAIN recv'[d] : recv'[d][i] <= total'
BY FramesAfterWrite

THEOREM ReplayInvariant == Spec => []IReplay
<1>1. Init => IReplay
  BY DEF Init, IReplay, ReplayInOrder
<1>2. ITyped /\ IReplay /\ [Next]_vars => IReplay'
  <2> SUFFICES ASSUME ITyped, IReplay, [Next]_vars PROVE IReplay'
    OBVIOUS
  <2> USE OutputTypes, AnswerTypes DEF AttachPcs, Goto, attachVars, outVars, clientVars, pumpVars
  <2>1. ASSUME NEW c \in Clients,
               \/ AttachRefused(c) \/ AttachTake(c) \/ AttachCloseOld(c) \/ AttachNotifyOld(c)
        PROVE  IReplay'
    BY <2>1, MoveKeepsReplay DEF AttachRefused, AttachTake, AttachCloseOld, AttachNotifyOld
  <2>2. ASSUME NEW c \in Clients,
               \/ BridgeInit(c) \/ BridgeReplayDone(c) \/ BridgeEnd(c) \/ BridgeProtocolError(c)
               \/ AttachLeave(c)
        PROVE  IReplay'
    BY <2>2, MoveKeepsReplay
       DEF BridgeInit, BridgeReplayDone, BridgeEnd, BridgeProtocolError, AttachLeave
  <2>3. ASSUME NEW c \in Clients, BridgeSnapshot(c) PROVE IReplay'
    <3>1. /\ pc[c] = "snapshot" /\ pc' = [pc EXCEPT ![c] = "init"]
          /\ snap' = [snap EXCEPT ![c] = total] /\ next' = [next EXCEPT ![c] = TailStart(total)]
          /\ UNCHANGED <<total, pump, recv, gate, owed>>
      BY <2>3 DEF BridgeSnapshot
    <3>2. ReplayInOrder(c)'
      <4>1. pc'[c] = "init" /\ snap'[c] = total /\ next'[c] = TailStart(total)
        BY <3>1
      <4>2. TailStart(snap'[c]) <= next'[c]
        BY <4>1 DEF TailStart
      <4>3. TailStart(snap[c])' = TailStart(snap'[c])
        BY DEF TailStart
      <4>4. gate'[c] # "open" /\ \A i \in DOMAIN recv'[c] : recv'[c][i] <= total'
        BY <3>1 DEF IReplay, ReplayInOrder
      <4>5. QED
        BY <3>1, <4>1, <4>2, <4>3, <4>4 DEF ReplayInOrder
    <3>3. ASSUME NEW d \in Clients, d # c PROVE ReplayInOrder(d)'
      <4>1. pc'[d] = pc[d] /\ snap'[d] = snap[d] /\ next'[d] = next[d]
        BY <3>1, <3>3
      <4>2. QED
        BY <3>1, <4>1 DEF IReplay, ReplayInOrder, TailStart
    <3>4. QED
      BY <3>1, <3>2, <3>3 DEF IReplay
  <2>4. ASSUME NEW c \in Clients, BridgeReplay(c) PROVE IReplay'
    <3>1. /\ pc[c] = "replay" /\ next[c] <= snap[c] /\ WriteOutput(c, next[c])
          /\ next' = [next EXCEPT ![c] = next[c] + 1]
          /\ UNCHANGED <<total, pc, snap, pump, gate, owed>>
      BY <2>4 DEF BridgeReplay
    <3>2. \A d \in Clients : \A i \in DOMAIN recv'[d] : recv'[d][i] <= total'
      <4>1. PICK n \in Nat : n = next[c]
        OBVIOUS
      <4>2. n <= total /\ \A d \in Clients : \A i \in DOMAIN recv[d] : recv[d][i] <= total
        BY <3>1, <4>1 DEF IReplay, ReplayInOrder
      <4>3. QED
        BY <3>1, <4>1, <4>2, WriteKeepsReplay
    <3>3. \A d \in Clients : next'[d] >= next[d]
      BY <3>1
    <3>4. \A d \in Clients : ReplayInOrder(d)'
      BY <3>1, <3>2, <3>3 DEF IReplay, ReplayInOrder, TailStart
    <3>5. QED
      BY <3>1, <3>4 DEF IReplay
  <2>5. ASSUME NEW c \in Clients, GateOpens(c) PROVE IReplay'
    <3>1. /\ UNCHANGED <<total, pc, snap, next, pump, recv, owed>>
          /\ \E open \in BOOLEAN :
               /\ gate' = [gate EXCEPT ![c] = IF open THEN "open" ELSE "early"]
               /\ open => pc[c] \in {"bridged", "leave", "gone"}
      BY <2>5 DEF GateOpens
    <3>2. \A d \in Clients : gate'[d] = "open" => gate[d] = "open" \/ pc[d] \in {"bridged", "leave", "gone"}
      BY <3>1
    <3>3. \A d \in Clients : ReplayInOrder(d)'
      BY <3>1, <3>2 DEF IReplay, ReplayInOrder, TailStart
    <3>4. QED
      BY <3>1, <3>3 DEF IReplay
  <2>6. CASE PumpChunk
    <3>1. /\ pump.pc = "read" /\ total' = total + 1 /\ pump'.pc = "mirror"
          /\ UNCHANGED <<pc, snap, next, recv, gate, owed>>
      BY <2>6 DEF PumpChunk
    <3>2. \A d \in Clients : ReplayInOrder(d)'
      <4> SUFFICES ASSUME NEW d \in Clients PROVE ReplayInOrder(d)'
        OBVIOUS
      <4>1. \A i \in DOMAIN recv[d] : recv[d][i] \in Nat
        BY DEF Chunks
      <4>2. QED
        BY <3>1, <4>1 DEF IReplay, ReplayInOrder, TailStart
    <3>3. QED
      BY <3>1, <3>2 DEF IReplay, Chunks
  <2>7. CASE PumpMirror
    <3>1. /\ pump.pc = "mirror" /\ pump'.pc # "mirror"
          /\ UNCHANGED <<total, pc, snap, next, recv, gate>>
      BY <2>7 DEF PumpMirror, PumpIdle
    <3>2. \A n \in Chunks : n > total => owed'[n] = owed[n]
      <4>1. PICK k \in 0..total : Drain({n \in Waiting : n <= k}, pump.to = NoConn)
        BY <2>7 DEF PumpMirror
      <4>2. \A n \in Chunks : n > total => n \notin Waiting
        BY DEF Waiting, IReplay
      <4>3. QED
        BY <4>1, <4>2 DEF Drain
    <3>3. QED
      BY <3>1, <3>2 DEF IReplay, ReplayInOrder, TailStart
  <2>8. CASE PumpDeliver
    <3>1. PICK to \in Clients : to = pump.to
      BY <2>8 DEF PumpDeliver
    <3>2. /\ WriteOutput(to, total) /\ pump'.pc # "mirror"
          /\ UNCHANGED <<total, pc, snap, next, gate, owed>>
      BY <2>8, <3>1 DEF PumpDeliver, PumpIdle
    <3>3. \A d \in Clients : \A i \in DOMAIN recv'[d] : recv'[d][i] <= total'
      <4>1. PICK n \in Nat : n = total
        OBVIOUS
      <4>2. n <= total /\ \A d \in Clients : \A i \in DOMAIN recv[d] : recv[d][i] <= total
        BY <4>1 DEF IReplay, ReplayInOrder
      <4>3. QED
        BY <3>2, <4>1, <4>2, WriteKeepsReplay
    <3>4. QED
      BY <3>2, <3>3 DEF IReplay, ReplayInOrder, TailStart
  <2>9. CASE PumpExit
    BY <2>9 DEF PumpExit, IReplay, ReplayInOrder, TailStart
  <2>10. ASSUME NEW c \in Clients, Detach(c) \/ \E fault \in Faults : NetworkFault(c, fault)
         PROVE  IReplay'
    BY <2>10, UnchangedKeepsReplay DEF Detach, NetworkFault
  <2>11. CASE ProcessExit \/ Destroy \/ DestroyStep \/ UNCHANGED vars
    BY <2>11, UnchangedKeepsReplay, VarsUnchanged
       DEF ProcessExit, Destroy, DestroyStep, DestroyCloseConn, DestroyNotifyConn, DestroyKill
  <2>12. QED
    BY <2>1, <2>2, <2>3, <2>4, <2>5, <2>6, <2>7, <2>8, <2>9, <2>10, <2>11 DEF Next, AttachStep
<1>3. QED
  BY <1>1, <1>2, TypeCorrect, PTL DEF Spec

\* An excuse stays one: a gate opens once, and a client has one snapshot.
LEMMA ExcusesStay ==
  ASSUME ITyped, IReplay, NEW n \in Chunks, Excused(n),
         owed[n] = "late" => owed'[n] = "late",
         \A c \in Clients : gate[c] = "early" => gate'[c] = "early",
         \A c \in Clients : snap'[c] = snap[c] \/ snap[c] = 0
  PROVE  Excused(n)'
<1>1. ASSUME NEW c \in Clients, gate[c] = "early", n \in Replay(c)
      PROVE  Excused(n)'
  <2>1. snap'[c] = snap[c]
    BY <1>1, NothingBeforeTheSnapshot
  <2>2. n \in Replay(c)'
    BY <1>1, <2>1 DEF Replay, TailStart
  <2>3. QED
    BY <1>1, <2>2 DEF Excused
<1>2. QED
  BY <1>1 DEF Excused

\* A step that neither answers nor delivers.
LEMMA SilentKeepsAnswers ==
  ASSUME ITyped, IReplay, IAnswer, UNCHANGED <<total, recv, gate, owed, answered>>,
         pump' = pump \/ pump'.pc = "stopped",
         \A c \in Clients : snap'[c] = snap[c] \/ snap[c] = 0
  PROVE  IAnswer'
<1> SUFFICES ASSUME NEW n \in Chunks PROVE (Excused(n) \/ AnsweredInTurn(n))'
  BY DEF IAnswer
<1>1. CASE Excused(n)
  BY <1>1, ExcusesStay
<1>2. CASE AnsweredInTurn(n)
  <2>1. \A c \in Clients : \A i \in DOMAIN recv[c] : Pending(c, i, n)' => Pending(c, i, n)
    BY NothingBeforeTheSnapshot DEF Pending, Replay, TailStart
  <2>2. PumpHolds(n)' => PumpHolds(n)
    BY DEF PumpHolds
  <2>3. QED
    BY <1>2, <2>1, <2>2 DEF AnsweredInTurn
<1>3. QED
  BY <1>1, <1>2 DEF IAnswer

LEMMA ReplayKeepsAnswers ==
  ASSUME ITyped, IReplay, IAnswer, NEW c \in Clients, BridgeReplay(c)
  PROVE  IAnswer'
<1> USE OutputTypes, AnswerTypes, PumpTypes
<1>1. /\ pc[c] = "replay" /\ next[c] <= snap[c] /\ WriteOutput(c, next[c]) /\ Render(c, next[c])
      /\ UNCHANGED <<total, snap, pump, gate, owed>>
  BY DEF BridgeReplay, outVars
<1>2. next[c] \in Replay(c) /\ next[c] \in Chunks
  BY <1>1 DEF IReplay, ReplayInOrder, Replay, TailStart, Chunks, ITyped, TypeOK
<1>3. gate[c] # "open"
  BY <1>1 DEF IReplay, ReplayInOrder
<1>frames. /\ \A d \in Clients : \A i \in DOMAIN recv[d] : i \in DOMAIN recv'[d] /\ recv'[d][i] = recv[d][i]
      /\ \A d \in Clients : \A i \in DOMAIN recv'[d] :
           i \in DOMAIN recv[d] \/ (d = c /\ recv'[d][i] = next[c])
  <2>1. PICK m \in Nat : m = next[c]
    OBVIOUS
  <2>2. WriteOutput(c, m)
    BY <1>1, <2>1
  <2>3. QED
    BY <2>1, <2>2, FramesAfterWrite
<1> SUFFICES ASSUME NEW n \in Chunks PROVE (Excused(n) \/ AnsweredInTurn(n))'
  BY DEF IAnswer
<1>4. CASE Excused(n)
  BY <1>1, <1>4, ExcusesStay
<1>5. CASE ~Excused(n)
  <2>1. AnsweredInTurn(n)
    BY <1>5 DEF IAnswer
  <2>2. \A d \in Clients : \A i \in DOMAIN recv'[d] :
          Pending(d, i, n)' => i \in DOMAIN recv[d] /\ Pending(d, i, n)
    <3> SUFFICES ASSUME NEW d \in Clients, NEW i \in DOMAIN recv'[d], Pending(d, i, n)'
                 PROVE  i \in DOMAIN recv[d] /\ Pending(d, i, n)
      OBVIOUS
    <3>1. Replay(d)' = Replay(d) /\ gate'[d] = gate[d]
      BY <1>1 DEF Replay, TailStart
    <3>2. i \in DOMAIN recv[d] \/ (d = c /\ recv'[d][i] = next[c])
      BY <1>frames
    <3>3. i \in DOMAIN recv[d]
      BY <1>2, <3>1, <3>2 DEF Pending
    <3>4. recv'[d][i] = recv[d][i]
      BY <3>3, <1>frames
    <3>5. QED
      BY <3>1, <3>3, <3>4 DEF Pending
  <2>3. answered'[n] = answered[n]
    <3>1. CASE UNCHANGED answered
      BY <3>1
    <3>2. CASE Answer(next[c]) /\ gate[c] # "shut"
      <4>1. gate[c] = "early"
        BY <1>3, <3>2
      <4>2. n # next[c]
        BY <1>2, <1>5, <4>1 DEF Excused
      <4>3. QED
        BY <1>2, <3>2, <4>2, AnswersOne
    <3>3. QED
      BY <1>1, <3>1, <3>2 DEF Render
  <2>4. PumpHolds(n)' = PumpHolds(n)
    BY <1>1 DEF PumpHolds
  <2>5. QED
    BY <1>1, <2>1, <2>2, <2>3, <2>4 DEF AnsweredInTurn
<1>6. QED
  BY <1>4, <1>5

LEMMA GateKeepsAnswers ==
  ASSUME ITyped, IReplay, IAnswer, NEW c \in Clients, GateOpens(c)
  PROVE  IAnswer'
<1> USE OutputTypes, AnswerTypes, PumpTypes
<1>1. PICK k \in Nat :
        /\ \/ gate'[c] = "early"
           \/ gate'[c] = "open" /\ \A n \in Replay(c) : Unparsed(c, k, n) = {}
        /\ \A n \in Chunks : answered'[n] \in {answered[n], answered[n] + Cardinality(Unparsed(c, k, n))}
  BY GateOpening
<1> DEFINE left(n) == Unparsed(c, k, n)
<1>2. /\ gate[c] = "shut" /\ gate'[c] \in {"open", "early"}
      /\ \A d \in Clients : d # c => gate'[d] = gate[d]
      /\ gate'[c] = "early" \/ \A n \in Replay(c) : left(n) = {}
  BY <1>1, GateOpening
<1>3. \A n \in Chunks : answered'[n] \in {answered[n], answered[n] + Cardinality(left(n))}
  BY <1>1
<1>4. UNCHANGED <<total, snap, pump, recv, owed>>
  BY DEF GateOpens, outVars, attachVars
<1> HIDE DEF left
<1> SUFFICES ASSUME NEW n \in Chunks PROVE (Excused(n) \/ AnsweredInTurn(n))'
  BY DEF IAnswer
<1>5. CASE Excused(n)
  BY <1>2, <1>4, <1>5, ExcusesStay
<1>6. CASE ~Excused(n) /\ gate'[c] = "early" /\ n \in Replay(c)
  <2>1. n \in Replay(c)'
    BY <1>4, <1>6 DEF Replay, TailStart
  <2>2. QED
    BY <1>6, <2>1 DEF Excused
<1>7. CASE ~Excused(n) /\ ~(gate'[c] = "early" /\ n \in Replay(c))
  <2>1. AnsweredInTurn(n)
    BY <1>7 DEF IAnswer
  <2>2. \A d \in Clients : \A i \in DOMAIN recv[d] : Pending(d, i, n)' => d # c /\ Pending(d, i, n)
    BY <1>2, <1>4 DEF Pending, Replay, TailStart
  <2>3. PumpHolds(n)' = PumpHolds(n)
    BY <1>4 DEF PumpHolds
  <2>4. CASE left(n) = {}
    <3>1. answered'[n] = answered[n]
      <4>1. Cardinality(left(n)) = 0
        BY <2>4, FS_EmptySet
      <4>2. QED
        BY <1>3, <4>1
    <3>2. QED
      BY <1>4, <2>1, <2>2, <2>3, <3>1 DEF AnsweredInTurn
  <2>5. CASE left(n) # {}
    <3>1. n \notin Replay(c)
      BY <1>2, <1>7, <2>5
    <3>2. \A i \in left(n) : i \in DOMAIN recv[c] /\ Pending(c, i, n)
      <4>1. left(n) \subseteq DOMAIN recv[c] /\ \A i \in left(n) : recv[c][i] = n
        BY UnparsedIsFinite DEF left, Unparsed
      <4>2. QED
        BY <1>2, <3>1, <4>1 DEF Pending
    <3>3. PICK i \in left(n) : TRUE
      BY <2>5
    <3>4. left(n) = {i}
      BY <2>1, <3>2, <3>3 DEF AnsweredInTurn
    <3>5. Cardinality(left(n)) = 1
      BY <3>4, FS_Singleton
    <3>6. answered[n] = 0 /\ answered'[n] \in 0..1
      BY <1>3, <2>1, <3>2, <3>3, <3>5 DEF AnsweredInTurn
    <3>7. \A d \in Clients : \A j \in DOMAIN recv[d] : ~Pending(d, j, n)'
      BY <2>1, <2>2, <3>2, <3>3 DEF AnsweredInTurn
    <3>8. ~(n > total \/ PumpHolds(n))
      BY <2>1, <3>2, <3>3 DEF AnsweredInTurn
    <3>9. QED
      BY <1>4, <2>3, <3>6, <3>7, <3>8 DEF AnsweredInTurn
  <2>6. QED
    BY <2>4, <2>5
<1>8. QED
  BY <1>5, <1>6, <1>7

LEMMA MirrorKeepsAnswers ==
  ASSUME ITyped, IReplay, IAnswer, PumpMirror
  PROVE  IAnswer'
<1> USE OutputTypes, AnswerTypes, PumpTypes
<1>1. PICK k \in 0..total : Drain({n \in Waiting : n <= k}, pump.to = NoConn)
  BY DEF PumpMirror
<1> DEFINE taken == {n \in Waiting : n <= k}
<1>2. /\ pump.pc = "mirror" /\ (pump.to = NoConn => pump'.pc = "read")
      /\ pump'.pc \in {"read", "deliver"}
      /\ UNCHANGED <<total, snap, recv, gate>>
  BY DEF PumpMirror, PumpIdle, outVars, attachVars, clientVars
<1> SUFFICES ASSUME NEW n \in Chunks PROVE (Excused(n) \/ AnsweredInTurn(n))'
  BY DEF IAnswer
<1>3. /\ owed'[n] = IF n \in Waiting \ taken THEN "due"
                    ELSE IF n \in taken THEN IF pump.to = NoConn /\ n < total THEN "late" ELSE "no"
                    ELSE owed[n]
      /\ answered'[n] = IF n \in taken /\ pump.to = NoConn THEN answered[n] + 1 ELSE answered[n]
  BY <1>1 DEF Drain
<1>4. CASE Excused(n)
  <2>1. owed[n] = "late" => n \notin Waiting
    BY <1>2 DEF Waiting, IReplay
  <2>2. QED
    BY <1>2, <1>3, <1>4, <2>1, ExcusesStay
<1>5. CASE ~Excused(n)
  <2>1. AnsweredInTurn(n)
    BY <1>5 DEF IAnswer
  <2>2. \A d \in Clients : \A i \in DOMAIN recv[d] : Pending(d, i, n)' = Pending(d, i, n)
    BY <1>2 DEF Pending, Replay, TailStart
  <2>3. CASE n \in taken /\ pump.to = NoConn
    <3>1. CASE n < total
      BY <1>3, <2>3, <3>1 DEF Excused
    <3>2. CASE n = total
      <4>1. /\ answered[n] = 0
            /\ \A c \in Clients : \A i \in DOMAIN recv[c] : ~Pending(c, i, n)
        BY <1>2, <2>1, <3>2 DEF AnsweredInTurn, PumpHolds
      <4>2. ~PumpHolds(n)' /\ answered'[n] = 1
        BY <1>2, <1>3, <2>3, <4>1 DEF PumpHolds
      <4>3. QED
        BY <1>2, <2>2, <3>2, <4>1, <4>2 DEF AnsweredInTurn
    <3>3. n <= total
      BY <2>3 DEF Chunks
    <3>4. QED
      BY <3>1, <3>2, <3>3 DEF Chunks
  <2>4. CASE ~(n \in taken /\ pump.to = NoConn)
    <3>1. answered'[n] = answered[n]
      BY <1>3, <2>4
    <3>2. PumpHolds(n)' => PumpHolds(n)
      BY <1>2 DEF PumpHolds
    <3>3. QED
      BY <1>2, <2>1, <2>2, <3>1, <3>2 DEF AnsweredInTurn
  <2>5. QED
    BY <2>3, <2>4
<1>6. QED
  BY <1>4, <1>5

LEMMA DeliverKeepsAnswers ==
  ASSUME ITyped, IReplay, IAnswer, PumpDeliver
  PROVE  IAnswer'
<1> USE OutputTypes, AnswerTypes, PumpTypes
<1>1. PICK to \in Clients, m \in Chunks : to = pump.to /\ m = total
  BY DEF PumpDeliver
<1>2. /\ pump.pc = "deliver" /\ pump'.pc = "read" /\ WriteOutput(to, m) /\ Render(to, m)
      /\ UNCHANGED <<total, snap, gate, owed>>
  BY <1>1 DEF PumpDeliver, PumpIdle, outVars, attachVars
<1>frames. /\ \A d \in Clients : \A i \in DOMAIN recv[d] : i \in DOMAIN recv'[d] /\ recv'[d][i] = recv[d][i]
      /\ \A d \in Clients : \A i \in DOMAIN recv'[d] :
           i \in DOMAIN recv[d] \/ (d = to /\ i = Len(recv[to]) + 1 /\ recv'[d][i] = m)
  <2>1. m \in Nat
    BY DEF Chunks
  <2>2. QED
    BY <1>2, <2>1, FramesAfterWrite
<1> SUFFICES ASSUME NEW n \in Chunks PROVE (Excused(n) \/ AnsweredInTurn(n))'
  BY DEF IAnswer
<1>3. CASE Excused(n)
  BY <1>2, <1>3, ExcusesStay
<1>4. CASE ~Excused(n)
  <2>1. AnsweredInTurn(n)
    BY <1>4 DEF IAnswer
  <2>2. \A d \in Clients : \A i \in DOMAIN recv'[d] :
          Pending(d, i, n)' =>
            \/ i \in DOMAIN recv[d] /\ Pending(d, i, n)
            \/ d = to /\ i = Len(recv[to]) + 1 /\ n = m /\ gate[to] = "shut"
    <3> SUFFICES ASSUME NEW d \in Clients, NEW i \in DOMAIN recv'[d], Pending(d, i, n)'
                 PROVE  \/ i \in DOMAIN recv[d] /\ Pending(d, i, n)
                        \/ d = to /\ i = Len(recv[to]) + 1 /\ n = m /\ gate[to] = "shut"
      OBVIOUS
    <3>1. Replay(d)' = Replay(d) /\ gate'[d] = gate[d]
      BY <1>2 DEF Replay, TailStart
    <3>2. CASE i \in DOMAIN recv[d]
      <4>1. recv'[d][i] = recv[d][i]
        BY <3>2, <1>frames
      <4>2. QED
        BY <3>1, <3>2, <4>1 DEF Pending
    <3>3. CASE i \notin DOMAIN recv[d]
      <4>1. d = to /\ i = Len(recv[to]) + 1 /\ recv'[d][i] = m
        BY <3>3, <1>frames
      <4>2. QED
        BY <3>1, <4>1 DEF Pending
    <3>4. QED
      BY <3>2, <3>3
  <2>3. ~PumpHolds(n)'
    BY <1>2 DEF PumpHolds
  <2>4. CASE n = m
    <3>1. /\ answered[n] = 0
          /\ \A d \in Clients : \A i \in DOMAIN recv[d] : ~Pending(d, i, n)
      BY <1>1, <1>2, <2>1, <2>4 DEF AnsweredInTurn, PumpHolds
    <3>2. answered'[n] = 0 \/ (answered'[n] = 1 /\ gate[to] # "shut")
      BY <1>2, <2>4, <3>1, AnswersOne DEF Render
    <3>3. \A d \in Clients : \A i \in DOMAIN recv'[d] :
            Pending(d, i, n)' => answered'[n] = 0 /\ d = to /\ i = Len(recv[to]) + 1
      BY <2>2, <3>1, <3>2
    <3>4. ~(n > total)'
      BY <1>1, <1>2, <2>4
    <3>5. answered'[n] <= 1
      BY <3>2
    <3>6. QED
      BY <2>3, <3>3, <3>4, <3>5 DEF AnsweredInTurn
  <2>5. CASE n # m
    <3>1. answered'[n] = answered[n]
      BY <1>2, <2>5, AnswersOne DEF Render
    <3>2. \A d \in Clients : \A i \in DOMAIN recv'[d] :
            Pending(d, i, n)' => i \in DOMAIN recv[d] /\ Pending(d, i, n)
      BY <2>2, <2>5
    <3>3. QED
      BY <1>2, <2>1, <2>3, <3>1, <3>2 DEF AnsweredInTurn
  <2>6. QED
    BY <2>4, <2>5
<1>5. QED
  BY <1>3, <1>4

THEOREM AnswerInvariant == Spec => []IAnswer
<1>1. Init => IAnswer
  <2>1. ASSUME Init, NEW n \in Chunks PROVE AnsweredInTurn(n)
    BY <2>1 DEF Init, AnsweredInTurn, PumpHolds, PumpIdle
  <2>2. QED
    BY <2>1 DEF IAnswer
<1>2. ITyped /\ IReplay /\ IAnswer /\ [Next]_vars => IAnswer'
  <2> SUFFICES ASSUME ITyped, IReplay, IAnswer, [Next]_vars PROVE IAnswer'
    OBVIOUS
  <2> USE PumpTypes DEF pumpVars
  <2>1. CASE PumpChunk
    <3>1. /\ total' = total + 1 /\ pump.pc = "read"
          /\ UNCHANGED <<snap, recv, gate, owed, answered>>
      BY <2>1 DEF PumpChunk, attachVars, clientVars
    <3>2. \A n \in Chunks : Excused(n)' = Excused(n)
      BY <3>1 DEF Excused, Replay, TailStart
    <3>3. \A n \in Chunks, c \in Clients : \A i \in DOMAIN recv[c] : Pending(c, i, n)' = Pending(c, i, n)
      BY <3>1 DEF Pending, Replay, TailStart
    <3>4. ASSUME NEW n \in Chunks, AnsweredInTurn(n) PROVE AnsweredInTurn(n)'
      <4>1. (n > total)' \/ PumpHolds(n)' => n > total
        BY <3>1 DEF PumpHolds, Chunks
      <4>2. QED
        BY <3>1, <3>3, <3>4, <4>1 DEF AnsweredInTurn
    <3>5. QED
      BY <3>2, <3>4 DEF IAnswer
  <2>2. CASE PumpMirror
    BY <2>2, MirrorKeepsAnswers
  <2>3. CASE PumpDeliver
    BY <2>3, DeliverKeepsAnswers
  <2>4. CASE PumpExit
    BY <2>4, SilentKeepsAnswers DEF PumpExit, outVars, attachVars, clientVars
  <2>5. ASSUME NEW c \in Clients, BridgeReplay(c) PROVE IAnswer'
    BY <2>5, ReplayKeepsAnswers
  <2>6. ASSUME NEW c \in Clients, GateOpens(c) PROVE IAnswer'
    BY <2>6, GateKeepsAnswers
  <2>7. ASSUME NEW c \in Clients,
               \/ AttachRefused(c) \/ AttachTake(c) \/ AttachCloseOld(c) \/ AttachNotifyOld(c)
               \/ BridgeInit(c) \/ BridgeReplayDone(c) \/ BridgeEnd(c)
               \/ BridgeProtocolError(c) \/ AttachLeave(c) \/ Detach(c)
               \/ \E fault \in Faults : NetworkFault(c, fault)
        PROVE  IAnswer'
    BY <2>7, SilentKeepsAnswers
       DEF AttachRefused, AttachTake, AttachCloseOld, AttachNotifyOld, BridgeInit, BridgeReplayDone,
           BridgeEnd, BridgeProtocolError, AttachLeave, Detach, NetworkFault, outVars, attachVars, clientVars
  <2>8. ASSUME NEW c \in Clients, BridgeSnapshot(c) PROVE IAnswer'
    <3>1. /\ snap[c] = 0 /\ snap' = [snap EXCEPT ![c] = total]
          /\ UNCHANGED <<total, recv, gate, owed, answered, pump>>
      BY <2>8 DEF BridgeSnapshot, IReplay, ReplayInOrder, clientVars
    <3>2. \A d \in Clients : snap'[d] = snap[d] \/ snap[d] = 0
      BY <3>1, OutputTypes
    <3>3. QED
      BY <3>1, <3>2, SilentKeepsAnswers
  <2>9. CASE ProcessExit \/ Destroy \/ DestroyStep \/ UNCHANGED vars
    BY <2>9, SilentKeepsAnswers, VarsUnchanged
       DEF ProcessExit, Destroy, DestroyStep, DestroyCloseConn, DestroyNotifyConn, DestroyKill,
           outVars, attachVars, clientVars
  <2>10. QED
    BY <2>1, <2>2, <2>3, <2>4, <2>5, <2>6, <2>7, <2>8, <2>9 DEF Next, AttachStep
<1>3. QED
  BY <1>1, <1>2, TypeCorrect, ReplayInvariant, PTL DEF Spec

\* A terminal query is answered a second time only by an answer of the mirror
\* that a later chunk took to the process, or by a client whose gate opened
\* before its replay was parsed: whoever attaches, detaches or takes over, and
\* however late the emulator and the gates are.
THEOREM AnswersOnce == Spec => []AnsweredOnceUnlessLate
<1>1. ITyped /\ IAnswer => AnsweredOnceUnlessLate
  BY PumpTypes DEF IAnswer, AnsweredInTurn, Excused, AnsweredOnceUnlessLate
<1>2. QED
  BY <1>1, TypeCorrect, AnswerInvariant, PTL

\* What Wait returns once the process has exited is the final screen.
THEOREM WaitSeesFinalScreen == Spec => []FinalScreen
<1>1. Init => IScreen
  BY DEF Init, IScreen
<1>2. ITyped /\ IScreen /\ [Next]_vars => IScreen'
  <2> SUFFICES ASSUME ITyped, IScreen, [Next]_vars PROVE IScreen'
    OBVIOUS
  <2> USE PumpTypes DEF pumpVars, PumpIdle
  <2>1. CASE PumpChunk
    BY <2>1 DEF PumpChunk, IScreen
  <2>2. CASE PumpMirror
    BY <2>2 DEF PumpMirror, IScreen, outVars
  <2>3. CASE PumpDeliver
    BY <2>3 DEF PumpDeliver, IScreen, outVars
  <2>4. CASE PumpExit
    BY <2>4 DEF PumpExit, IScreen, outVars
  <2>5. CASE ~(PumpChunk \/ PumpMirror \/ PumpDeliver \/ PumpExit)
    BY <2>5, OutsideThePump DEF IScreen
  <2>6. QED
    BY <2>1, <2>2, <2>3, <2>4, <2>5
<1>3. IScreen => FinalScreen
  BY DEF IScreen, FinalScreen
<1>4. QED
  BY <1>1, <1>2, <1>3, TypeCorrect, PTL DEF Spec
=============================================================================
