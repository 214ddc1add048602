------------------------------- MODULE Session -------------------------------
(***************************************************************************)
(* One terminal session (internal/session/session.go): attach with         *)
(* preemption, the bridge's replay handshake, the single output pump and   *)
(* destruction.  Every critical section of the code (s.mu, s.outMu,        *)
(* s.mirrorMu) is one action; whatever the code does outside its locks is  *)
(* an action of its own, so the interleavings are those of the goroutines. *)
(*                                                                         *)
(* A client is one attach with its own logical channel (virtualConn): the  *)
(* production connection, whose Write never reports an error.  The output  *)
(* is counted in chunks, one per PTY read, numbered from 1.                *)
(***************************************************************************)
EXTENDS Naturals, Sequences, FiniteSets

CONSTANTS
  Clients,      \* the attaches, each with a channel of its own
  NoConn,       \* s.conn == nil
  MaxOut,       \* bound: chunks the process prints
  TailChunks,   \* attachReplayTailBytes, in chunks
  Queries,      \* the chunks that hold a terminal query (DA, DSR, ...)
  Unreliable,   \* the clients whose connection may fail
  Faults        \* how it may fail: "stalled" (it takes no more data), "down"

ASSUME SessionAssumption ==
  /\ NoConn \notin Clients
  /\ MaxOut \in Nat
  /\ TailChunks \in Nat
  /\ Queries \subseteq 1..MaxOut
  /\ Unreliable \subseteq Clients
  /\ Faults \subseteq {"stalled", "down"}

VARIABLES
  state,        \* s.state
  conn,         \* s.conn
  attachEpoch,  \* s.attachEpoch
  total,        \* s.total, in chunks
  replaySeq,    \* s.replaySeq, in chunks
  mirror,       \* chunks the screen mirror has parsed
  termExited,   \* the termExited channel is closed
  alive,        \* the terminal process runs
  pc,           \* where each attach goroutine stands
  myEpoch,      \* myEpoch of each attach, 0 before it
  old,          \* the connection each attach must close
  snap,         \* total at each attach's replay snapshot
  next,         \* the next chunk each attach replays
  pump,         \* the output pump: pc and deliverTo of its chunk, which is chunk total
  destroyer,    \* the goroutine in Destroy: pc and the connection it closes
  closed,       \* the channels with vc.closed set
  net,          \* the WebSocket under each channel
  recv,         \* the output frames each client received, as chunk numbers
  gate,         \* each client's input gate; "early": it opened before the replay was parsed
  owed,         \* the mirror's answer to each chunk's query: "due" from the emulator, "late" written
  answered      \* how many answers the query of each chunk got

sessionVars == <<state, conn, attachEpoch>>
outVars     == <<total, replaySeq>>
attachVars  == <<pc, myEpoch, old, snap, next>>
clientVars  == <<closed, net, recv, gate>>
pumpVars    == <<pump, mirror, termExited, owed, answered>>
vars == <<sessionVars, outVars, attachVars, clientVars, pumpVars, alive, destroyer>>

Chunks == 1..MaxOut

PumpIdle == [pc |-> "read", to |-> NoConn]

Init ==
  /\ state = "idle" /\ conn = NoConn /\ attachEpoch = 0
  /\ total = 0 /\ replaySeq = 0
  /\ mirror = 0 /\ termExited = FALSE /\ alive = TRUE
  /\ pc = [c \in Clients |-> "new"]
  /\ myEpoch = [c \in Clients |-> 0]
  /\ old = [c \in Clients |-> NoConn]
  /\ snap = [c \in Clients |-> 0]
  /\ next = [c \in Clients |-> 0]
  /\ pump = PumpIdle
  /\ destroyer = [pc |-> "none", conn |-> NoConn]
  /\ closed = {}
  /\ net = [c \in Clients |-> "up"]
  /\ recv = [c \in Clients |-> <<>>]
  /\ gate = [c \in Clients |-> "shut"]
  /\ owed = [n \in Chunks |-> "no"]
  /\ answered = [n \in Chunks |-> 0]

-----------------------------------------------------------------------------
(* The channel of a client.                                                *)

Received(c) == {recv[c][i] : i \in DOMAIN recv[c]}

\* virtualConn.Write blocks while the connection takes no data; what it
\* writes is lost when the connection is down; it does not ask whether the
\* channel was closed.
CanWrite(c) == net[c] # "stalled"
Arrives(c)  == net[c] = "up"

WriteOutput(c, chunk) ==
  /\ CanWrite(c)
  /\ recv' = IF Arrives(c) THEN [recv EXCEPT ![c] = Append(@, chunk)] ELSE recv

\* The client's xterm answers the query of a chunk it renders; the answer is
\* input, which is dropped until the client's gate opens and once its channel
\* is closed.
Answer(chunk) == answered' = [answered EXCEPT ![chunk] = @ + 1]

Render(c, chunk) ==
  IF chunk \in Queries /\ Arrives(c) /\ gate[c] # "shut" /\ c \notin closed THEN Answer(chunk) ELSE UNCHANGED answered

\* The first chunk of the replayed tail when n chunks were printed.
TailStart(n) == IF n > TailChunks THEN n - TailChunks + 1 ELSE 1

\* The chunks the client's handshake replays; none before its snapshot.
Replay(c) == TailStart(snap[c])..snap[c]

\* The frames with a chunk that the client's xterm has still to parse.
Unparsed(c, parsed, n) == {i \in (parsed + 1)..Len(recv[c]) : recv[c][i] = n}

\* The gate opens 2 s after the Attach frame was sent; or, once the replay-done
\* frame is there, when the xterm has parsed a batch of what it has, at the
\* latest after 600 ms.  None of these waits for the whole replay: the xterm
\* has parsed any part of what it received by then, and answers the rest.
GateOpens(c) ==
  /\ gate[c] = "shut" /\ pc[c] # "new" /\ c \notin closed
  /\ \E parsed \in 0..Len(recv[c]) :
       /\ gate' = [gate EXCEPT ![c] =
            IF /\ myEpoch[c] # 0 /\ pc[c] \in {"bridged", "leave", "gone"}
               /\ \A n \in Replay(c) : Unparsed(c, parsed, n) = {}
            THEN "open" ELSE "early"]
       /\ answered' = [n \in Chunks |->
            IF n \in Queries /\ Arrives(c)
            THEN answered[n] + Cardinality(Unparsed(c, parsed, n)) ELSE answered[n]]
  /\ UNCHANGED <<sessionVars, outVars, attachVars, closed, net, recv, pump, mirror, termExited, owed, alive, destroyer>>

\* The WebSocket stops accepting data, or breaks.
NetworkFault(c, fault) ==
  /\ c \in Unreliable
  /\ net[c] # "down" /\ net[c] # fault
  /\ net' = [net EXCEPT ![c] = fault]
  /\ UNCHANGED <<sessionVars, outVars, attachVars, closed, recv, gate, pumpVars, alive, destroyer>>

\* virtualConn.detach: the client sent Detach, the read loop of a broken
\* connection ran closeAll, or Session.Attach returned.
Detach(c) ==
  /\ c \notin closed
  /\ closed' = closed \cup {c}
  /\ UNCHANGED <<sessionVars, outVars, attachVars, net, recv, gate, pumpVars, alive, destroyer>>

-----------------------------------------------------------------------------
(* Attach and bridge.                                                      *)

Goto(c, label) == pc' = [pc EXCEPT ![c] = label]

AttachRefused(c) ==
  /\ pc[c] = "new" /\ state = "destroyed"
  /\ Goto(c, "gone")
  /\ UNCHANGED <<sessionVars, outVars, myEpoch, old, snap, next, clientVars, pumpVars, alive, destroyer>>

\* Mutant: the old connection is closed without asking whether there is one.
AttachTakeNilConn(c) ==
  /\ pc[c] = "new" /\ state # "destroyed"
  /\ attachEpoch' = attachEpoch + 1
  /\ myEpoch' = [myEpoch EXCEPT ![c] = attachEpoch + 1]
  /\ old' = [old EXCEPT ![c] = conn]
  /\ conn' = c
  /\ state' = "running"
  /\ Goto(c, "closeOld")
  /\ UNCHANGED <<outVars, snap, next, clientVars, pumpVars, alive, destroyer>>

\* The takeover: the session is this attach's before the old one knows.
AttachTake(c) ==
  /\ pc[c] = "new" /\ state # "destroyed"
  /\ attachEpoch' = attachEpoch + 1
  /\ myEpoch' = [myEpoch EXCEPT ![c] = attachEpoch + 1]
  /\ old' = [old EXCEPT ![c] = conn]
  /\ conn' = c
  /\ state' = "running"
  /\ Goto(c, IF conn = NoConn THEN "snapshot" ELSE "closeOld")
  /\ UNCHANGED <<outVars, snap, next, clientVars, pumpVars, alive, destroyer>>

\* Mutant: the event is sent, but the old channel stays open.
AttachTellOldOnly(c) ==
  /\ pc[c] = "closeOld"
  /\ Goto(c, IF old[c] \in closed THEN "snapshot" ELSE "notifyOld")
  /\ UNCHANGED <<sessionVars, outVars, myEpoch, old, snap, next, clientVars, pumpVars, alive, destroyer>>

\* CloseWithReason(EventPreempted), outside s.mu.  A channel closed before
\* is left alone; otherwise it is closed first and told why afterwards.
AttachCloseOld(c) ==
  /\ pc[c] = "closeOld"
  /\ closed' = closed \cup {old[c]}
  /\ Goto(c, IF old[c] \in closed THEN "snapshot" ELSE "notifyOld")
  /\ UNCHANGED <<sessionVars, outVars, myEpoch, old, snap, next, net, recv, gate, pumpVars, alive, destroyer>>

AttachNotifyOld(c) ==
  /\ pc[c] = "notifyOld"
  /\ CanWrite(old[c])
  /\ Goto(c, "snapshot")
  /\ UNCHANGED <<sessionVars, outVars, myEpoch, old, snap, next, closed, net, recv, gate, pumpVars, alive, destroyer>>

BridgeSnapshot(c) ==
  /\ pc[c] = "snapshot"
  /\ replaySeq' = total
  /\ snap' = [snap EXCEPT ![c] = total]
  /\ next' = [next EXCEPT ![c] = TailStart(total)]
  /\ Goto(c, "init")
  /\ UNCHANGED <<sessionVars, total, myEpoch, old, clientVars, pumpVars, alive, destroyer>>

\* sendInitializeMessage: title, reconnect and preferences frames.
BridgeInit(c) ==
  /\ pc[c] = "init"
  /\ CanWrite(c)
  /\ Goto(c, "replay")
  /\ UNCHANGED <<sessionVars, outVars, myEpoch, old, snap, next, clientVars, pumpVars, alive, destroyer>>

BridgeReplay(c) ==
  /\ pc[c] = "replay" /\ next[c] <= snap[c]
  /\ WriteOutput(c, next[c])
  /\ Render(c, next[c])
  /\ next' = [next EXCEPT ![c] = @ + 1]
  /\ UNCHANGED <<sessionVars, outVars, pc, myEpoch, old, snap, closed, net, gate, pump, mirror, termExited, owed, alive, destroyer>>

BridgeReplayDone(c) ==
  /\ pc[c] = "replay" /\ next[c] > snap[c]
  /\ CanWrite(c)
  /\ Goto(c, "bridged")
  /\ UNCHANGED <<sessionVars, outVars, myEpoch, old, snap, next, clientVars, pumpVars, alive, destroyer>>

\* Mutant: bridge waits for the terminal only.
BridgeEndOnExit(c) ==
  /\ pc[c] = "bridged"
  /\ termExited \/ ~alive
  /\ Goto(c, "leave")
  /\ UNCHANGED <<sessionVars, outVars, myEpoch, old, snap, next, clientVars, pumpVars, alive, destroyer>>

\* bridge's select: the channel was closed or its context cancelled, the
\* terminal is gone, or a write of input to the dead terminal failed.
BridgeEnd(c) ==
  /\ pc[c] = "bridged"
  /\ c \in closed \/ termExited \/ ~alive
  /\ Goto(c, "leave")
  /\ UNCHANGED <<sessionVars, outVars, myEpoch, old, snap, next, clientVars, pumpVars, alive, destroyer>>

\* A frame the server cannot decode ends the bridge as well.
BridgeProtocolError(c) ==
  /\ pc[c] = "bridged" /\ net[c] = "up"
  /\ Goto(c, "leave")
  /\ UNCHANGED <<sessionVars, outVars, myEpoch, old, snap, next, clientVars, pumpVars, alive, destroyer>>

\* Mutants of the epilogue: without the epoch check, without any check, and
\* with the reset of s.conn forgotten.
AttachLeaveAnyEpoch(c) ==
  /\ pc[c] = "leave"
  /\ state' = IF state # "destroyed" THEN "idle" ELSE state
  /\ conn' = IF conn = c THEN NoConn ELSE conn
  /\ Goto(c, "gone")
  /\ UNCHANGED <<attachEpoch, outVars, myEpoch, old, snap, next, clientVars, pumpVars, alive, destroyer>>

AttachLeaveAnyConn(c) ==
  /\ pc[c] = "leave"
  /\ state' = IF state # "destroyed" THEN "idle" ELSE state
  /\ conn' = NoConn
  /\ Goto(c, "gone")
  /\ UNCHANGED <<attachEpoch, outVars, myEpoch, old, snap, next, clientVars, pumpVars, alive, destroyer>>

AttachLeaveKeepConn(c) ==
  /\ pc[c] = "leave"
  /\ state' = IF state # "destroyed" /\ attachEpoch = myEpoch[c] THEN "idle" ELSE state
  /\ Goto(c, "gone")
  /\ UNCHANGED <<conn, attachEpoch, outVars, myEpoch, old, snap, next, clientVars, pumpVars, alive, destroyer>>

\* The epilogue of Attach, under s.mu.
AttachLeave(c) ==
  /\ pc[c] = "leave"
  /\ LET owns == state # "destroyed" /\ attachEpoch = myEpoch[c]
     IN  /\ state' = IF owns THEN "idle" ELSE state
         /\ conn' = IF owns /\ conn = c THEN NoConn ELSE conn
  /\ Goto(c, "gone")
  /\ UNCHANGED <<attachEpoch, outVars, myEpoch, old, snap, next, clientVars, pumpVars, alive, destroyer>>

-----------------------------------------------------------------------------
(* The output pump and the process.                                        *)

\* Mutant: the first chunk after a snapshot counts as replayed.
PumpChunkOffByOne ==
  /\ pump.pc = "read" /\ total < MaxOut
  /\ total' = total + 1
  /\ pump' = [pc |-> "mirror", to |-> IF total > replaySeq THEN conn ELSE NoConn]
  /\ UNCHANGED <<sessionVars, replaySeq, attachVars, clientVars, mirror, termExited, owed, answered, alive, destroyer>>

\* The critical section of pumpChunk.  What the process printed last is
\* still read after it exited.
PumpChunk ==
  /\ pump.pc = "read" /\ total < MaxOut
  /\ total' = total + 1
  /\ pump' = [pc |-> "mirror", to |-> IF total >= replaySeq THEN conn ELSE NoConn]
  /\ UNCHANGED <<sessionVars, replaySeq, attachVars, clientVars, mirror, termExited, owed, answered, alive, destroyer>>

\* The mirror parses the chunk, and the emulator's answer to its query takes a
\* goroutine of its own to come out: DrainAnswers takes those that are there,
\* oldest first, and waits 10 ms at most.
Waiting == {n \in Chunks : owed[n] = "due" \/ (n = total /\ n \in Queries)}

\* The answers taken go to the process when no client was there for this
\* chunk, whichever chunk they answer, and are dropped when one was.
Drain(taken, written) ==
  /\ owed' = [n \in Chunks |->
       IF n \in Waiting \ taken THEN "due"
       ELSE IF n \in taken THEN IF written /\ n < total THEN "late" ELSE "no"
       ELSE owed[n]]
  /\ answered' = [n \in Chunks |-> IF n \in taken /\ written THEN answered[n] + 1 ELSE answered[n]]

\* Mutant: the mirror answers whether or not a client was there.
PumpMirrorAlwaysAnswers ==
  /\ pump.pc = "mirror"
  /\ mirror' = total
  /\ \E k \in 0..total : Drain({n \in Waiting : n <= k}, TRUE)
  /\ pump' = IF pump.to = NoConn THEN PumpIdle ELSE [pump EXCEPT !.pc = "deliver"]
  /\ UNCHANGED <<sessionVars, outVars, attachVars, clientVars, termExited, alive, destroyer>>

PumpMirror ==
  /\ pump.pc = "mirror"
  /\ mirror' = total
  /\ \E k \in 0..total : Drain({n \in Waiting : n <= k}, pump.to = NoConn)
  /\ pump' = IF pump.to = NoConn THEN PumpIdle ELSE [pump EXCEPT !.pc = "deliver"]
  /\ UNCHANGED <<sessionVars, outVars, attachVars, clientVars, termExited, alive, destroyer>>

\* The live write, outside every lock.
PumpDeliver ==
  /\ pump.pc = "deliver"
  /\ WriteOutput(pump.to, total)
  /\ Render(pump.to, total)
  /\ pump' = PumpIdle
  /\ UNCHANGED <<sessionVars, outVars, attachVars, closed, net, gate, mirror, termExited, owed, alive, destroyer>>

\* Mutant: the end of the process is reported while a chunk is on its way.
PumpExitEarly ==
  /\ pump.pc \in {"read", "mirror"} /\ ~alive
  /\ termExited' = TRUE
  /\ pump' = [pump EXCEPT !.pc = "stopped"]
  /\ UNCHANGED <<sessionVars, outVars, attachVars, clientVars, mirror, owed, answered, alive, destroyer>>

\* Reading the PTY failed.
PumpExit ==
  /\ pump.pc = "read" /\ ~alive
  /\ termExited' = TRUE
  /\ pump' = [pump EXCEPT !.pc = "stopped"]
  /\ UNCHANGED <<sessionVars, outVars, attachVars, clientVars, mirror, owed, answered, alive, destroyer>>

ProcessExit ==
  /\ alive
  /\ alive' = FALSE
  /\ UNCHANGED <<sessionVars, outVars, attachVars, clientVars, pumpVars, destroyer>>

-----------------------------------------------------------------------------
(* Destroy.  A second call finds the session destroyed and returns.        *)

Destroy ==
  /\ state # "destroyed"
  /\ state' = "destroyed"
  /\ attachEpoch' = attachEpoch + 1
  /\ conn' = NoConn
  /\ destroyer' = [pc |-> IF conn = NoConn THEN "closeTerm" ELSE "closeConn", conn |-> conn]
  /\ UNCHANGED <<outVars, attachVars, clientVars, pumpVars, alive>>

\* Mutant: a channel that is closed already ends the destruction.
DestroyCloseConnReturns ==
  /\ destroyer.pc = "closeConn"
  /\ closed' = closed \cup {destroyer.conn}
  /\ destroyer' = [destroyer EXCEPT !.pc = IF destroyer.conn \in closed THEN "done" ELSE "notifyConn"]
  /\ UNCHANGED <<sessionVars, outVars, attachVars, net, recv, gate, pumpVars, alive>>

DestroyCloseConn ==
  /\ destroyer.pc = "closeConn"
  /\ closed' = closed \cup {destroyer.conn}
  /\ destroyer' = [destroyer EXCEPT !.pc = IF destroyer.conn \in closed THEN "closeTerm" ELSE "notifyConn"]
  /\ UNCHANGED <<sessionVars, outVars, attachVars, net, recv, gate, pumpVars, alive>>

DestroyNotifyConn ==
  /\ destroyer.pc = "notifyConn"
  /\ CanWrite(destroyer.conn)
  /\ destroyer' = [destroyer EXCEPT !.pc = "closeTerm"]
  /\ UNCHANGED <<sessionVars, outVars, attachVars, closed, net, recv, gate, pumpVars, alive>>

\* Terminal.Close signals the process and waits until it is gone.
DestroyKill ==
  /\ destroyer.pc = "closeTerm"
  /\ alive' = FALSE
  /\ destroyer' = [destroyer EXCEPT !.pc = "done"]
  /\ UNCHANGED <<sessionVars, outVars, attachVars, clientVars, pumpVars>>

-----------------------------------------------------------------------------
AttachStep(c) ==
  \/ AttachCloseOld(c) \/ AttachNotifyOld(c)
  \/ BridgeSnapshot(c) \/ BridgeInit(c) \/ BridgeReplay(c) \/ BridgeReplayDone(c)
  \/ BridgeEnd(c) \/ AttachLeave(c)

DestroyStep == DestroyCloseConn \/ DestroyNotifyConn \/ DestroyKill

Next ==
  \/ \E c \in Clients :
       \/ AttachRefused(c) \/ AttachTake(c) \/ AttachStep(c) \/ BridgeProtocolError(c)
       \/ Detach(c) \/ GateOpens(c) \/ \E fault \in Faults : NetworkFault(c, fault)
  \/ PumpChunk \/ PumpMirror \/ PumpDeliver \/ PumpExit \/ ProcessExit
  \/ Destroy \/ DestroyStep

\* The Go scheduler runs every runnable goroutine, the read loop of a broken
\* connection among them; what clients, networks and the process do is up to
\* them.
Fairness ==
  /\ \A c \in Clients : WF_vars(AttachStep(c)) /\ WF_vars(net[c] = "down" /\ Detach(c))
  /\ WF_vars(PumpMirror) /\ WF_vars(PumpDeliver)
  /\ WF_vars(DestroyStep)

Spec == Init /\ [][Next]_vars
FairSpec == Spec /\ Fairness

-----------------------------------------------------------------------------
(* Properties.                                                             *)

AttachPcs == {"new", "closeOld", "notifyOld", "snapshot", "init", "replay", "bridged", "leave", "gone"}

TypeOK ==
  /\ state \in {"idle", "running", "destroyed"}
  /\ conn \in Clients \cup {NoConn}
  /\ attachEpoch \in Nat
  /\ total \in 0..MaxOut /\ replaySeq \in 0..MaxOut /\ mirror \in 0..MaxOut
  /\ termExited \in BOOLEAN /\ alive \in BOOLEAN
  /\ pc \in [Clients -> AttachPcs]
  /\ myEpoch \in [Clients -> Nat]
  /\ old \in [Clients -> Clients \cup {NoConn}]
  /\ snap \in [Clients -> 0..MaxOut]
  /\ next \in [Clients -> Nat]
  /\ pump \in [pc : {"read", "mirror", "deliver", "stopped"}, to : Clients \cup {NoConn}]
  /\ destroyer \in [pc : {"none", "closeConn", "notifyConn", "closeTerm", "done"},
                    conn : Clients \cup {NoConn}]
  /\ closed \subseteq Clients
  /\ net \in [Clients -> {"up", "stalled", "down"}]
  /\ recv \in [Clients -> Seq(Chunks)]
  /\ gate \in [Clients -> {"shut", "open", "early"}]
  /\ owed \in [Chunks -> {"no", "due", "late"}]
  /\ answered \in [Chunks -> Nat]

\* An attach goroutine that is past the takeover and has not returned.
Active(c) == pc[c] \notin {"new", "gone"}

\* Somebody is about to close the channel of c.
BeingClosed(c) ==
  \/ \E d \in Clients : pc[d] = "closeOld" /\ old[d] = c
  \/ destroyer.pc = "closeConn" /\ destroyer.conn = c

\* "At most one client is attached per session": every attach but the owner
\* has lost its channel, or is returning, or the goroutine that must close
\* its channel is on its way.  No client lingers on a session it lost.
SupersededIsClosed ==
  \A c \in Clients : Active(c) /\ conn # c =>
    c \in closed \/ BeingClosed(c) \/ pc[c] = "leave"

\* The lifecycle state tells whether somebody is attached, and the attached
\* client is the one whose goroutine holds the newest epoch (attachEpoch as
\* the ownership token).
OwnerHoldsEpoch ==
  /\ state = "running" <=> conn # NoConn
  /\ conn # NoConn => Active(conn) /\ myEpoch[conn] = attachEpoch

\* "Output is never lost or stolen between attaches": once the handshake is
\* over, the attached client has every chunk of the replayed tail and every
\* chunk printed since, apart from the one the pump is about to hand it.
NoLostOutput ==
  \A c \in Clients : conn = c /\ pc[c] = "bridged" /\ net[c] = "up" =>
    \A n \in TailStart(snap[c])..total :
      \/ n \in Received(c)
      \/ n = total /\ pump.pc \in {"mirror", "deliver"} /\ pump.to = c

\* "Double replies would corrupt the program state": whoever attaches, detaches
\* or takes over while a chunk is on its way, its query is answered at most
\* once, unless the mirror's answer came out so late that a later chunk took it
\* to the process, or the chunk was replayed to a client whose gate opened
\* before its replay was parsed.
AnsweredOnceUnlessLate ==
  \A n \in Chunks : answered[n] > 1 =>
    owed[n] = "late" \/ \E c \in Clients : gate[c] = "early" /\ n \in Replay(c)

\* termExited is closed only after the last output reached the mirror, so
\* what Wait returns then is the final screen.
FinalScreen == termExited => mirror = total

\* Where an attach stands, seen from outside.
Phase(label) == CASE label = "new" -> "new" [] label = "gone" -> "out" [] OTHER -> "in"

\* The ownership protocol of SessionOwner, with epochs and channels hidden.
Owner == INSTANCE SessionOwner WITH
  Attaches <- Clients, NoOwner <- NoConn,
  owner <- conn,
  phase <- [c \in Clients |-> Phase(pc[c])],
  destroyed <- state = "destroyed"

\* Session implements SessionOwner: a preempted attach that returns does not
\* touch the session, the owner's gives it back, and destruction is final.
ImplementsOwner == Owner!Spec

\* An attach that lost the session returns, so its goroutine and its channel
\* are not leaked.
SupersededLeaves ==
  \A c \in Clients : (Active(c) /\ conn # c) ~> pc[c] = "gone"

\* A WebSocket that broke gives its session back: "all attaches return, every
\* session becomes IDLE" unless another client has it.
DroppedGivesBack == \A c \in Clients : net[c] = "down" /\ conn = c ~> conn # c

\* Destroying a session ends its process, attached client or not.
DestroyEndsProcess == state = "destroyed" ~> ~alive

\* "A new attach immediately takes over by closing the previous client
\* connection": whatever the previous client's connection does, the new
\* attach gets through its handshake.
TakeoverCompletes ==
  \A c \in Clients : pc[c] = "closeOld" /\ net[c] = "up" ~> pc[c] \in {"bridged", "leave", "gone"} \/ net[c] # "up"

\* "A chunk that fell into the attach's replay snapshot is skipped (the
\* client already got it)": no client gets a chunk twice.
DeliveredOnce ==
  \A c \in Clients : \A i, j \in DOMAIN recv[c] :
    i # j => recv[c][i] # recv[c][j]
=============================================================================
