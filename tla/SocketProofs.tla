--------------------------- MODULE SocketProofs ---------------------------
(***************************************************************************)
(* What goes over WebSockets: the tables of a page's connections           *)
(* (Channels), for any number of connections, attach frames and rival      *)
(* clients; the screen and its monitor (Screen), for any number of         *)
(* attaches and requests, any sizes, and any amount of output and of       *)
(* resizes.                                                                *)
(***************************************************************************)
EXTENDS Channels, Screen, FiniteSetTheorems, SequenceTheorems, TLAPS

USE ChannelsAssumption DEF ChannelsAssumption, Links, Own, Chans

ChanPcs    == {"new", "attach", "closeOld", "tellOld", "init", "live", "drop", "gone"}
UpFrames   == {"attach", "detach"}
DownFrames == {"ok", "err", "init", "preempted", "destroyed"}

PageTyped ==
  /\ pane \in {"away", "joining", "on", "lost", "preempted", "gone", "ghost"}
  /\ wrapped \in BOOLEAN /\ awaiting \in BOOLEAN /\ seconds \in BOOLEAN
  /\ timer \in BOOLEAN /\ kicked \in BOOLEAN

WireTyped ==
  /\ sent \in 0 .. MaxAttaches /\ opened \in 0 .. MaxLinks
  /\ link \in [Links -> {"unused", "open", "lost", "closed"}]
  /\ up \in [Links -> Seq(UpFrames)]
  /\ down \in [Links -> Seq(DownFrames)]

\* Whoever is about to close or to tell a channel has one.
ServerTyped ==
  /\ chans \in [Links -> Own \cup {NoChan}]
  /\ chan \in [Chans -> [pc : ChanPcs, link : 0 .. MaxLinks, old : Chans \cup {NoChan}]]
  /\ shut \subseteq Chans
  /\ destroyer \in [pc : {"none", "close", "tell", "done"}, chan : Chans \cup {NoChan}]
  /\ owner \in Chans \cup {NoChan}
  /\ \A v \in Chans : chan[v].pc \in {"closeOld", "tellOld"} => chan[v].old \in Chans
  /\ destroyer.pc \in {"close", "tell"} => destroyer.chan \in Chans

\* A channel is used once, and belongs to the connection whose table has it.
Tabled ==
  /\ \A l \in Links : chans[l] # NoChan => chan[chans[l]].link = l /\ chan[chans[l]].pc # "new"
  /\ \A v \in Own : chan[v].pc # "new" => chan[v].link \in Links

ITyped   == PageTyped /\ WireTyped /\ ServerTyped
IBridges == ITyped /\ Tabled /\ BridgeIsRegistered

-----------------------------------------------------------------------------
(* The wires.                                                               *)

\* An answer goes down a connection that is open, or is lost.
LEMMA ReplyTyped ==
  ASSUME WireTyped, NEW l, NEW frame \in DownFrames, Reply(l, frame)
  PROVE  down' \in [Links -> Seq(DownFrames)]
  BY DEF Reply, WireTyped

\* An attach is sent over an open connection, or not at all.
LEMMA SendTyped ==
  ASSUME WireTyped, SendAttach
  PROVE  sent' \in 0 .. MaxAttaches /\ up' \in [Links -> Seq(UpFrames)]
<1>1. CASE IsOpen
  <2>1. opened \in Links /\ sent' = sent + 1 /\ sent < MaxAttaches
    BY <1>1 DEF SendAttach, IsOpen, WireTyped
  <2>2. Append(up[opened], "attach") \in Seq(UpFrames)
    BY <2>1 DEF WireTyped, UpFrames
  <2>3. up' = [up EXCEPT ![opened] = Append(up[opened], "attach")]
    BY <1>1 DEF SendAttach
  <2>4. up' \in [Links -> Seq(UpFrames)]
    BY <2>1, <2>2, <2>3 DEF WireTyped
  <2>5. sent' \in 0 .. MaxAttaches
    BY <2>1 DEF WireTyped
  <2> QED
    BY <2>4, <2>5
<1>2. CASE ~IsOpen
  BY <1>2 DEF SendAttach, WireTyped
<1> QED
  BY <1>1, <1>2

\* A step of the page changes what is on the wires to the server, and nothing there.
LEMMA PageStepTyped ==
  ASSUME PageTyped, WireTyped, Page
  PROVE  PageTyped' /\ WireTyped' /\ UNCHANGED <<serverVars, ownerVars>>
<1> USE DEF Show, Registered
<1>1. CASE PaneOpens
  BY <1>1, SendTyped DEF PaneOpens, PageTyped, WireTyped, IsOpen
<1>2. CASE PaneCloses
  <2>1. up' \in [Links -> Seq(UpFrames)]
    <3>1. CASE wrapped /\ IsOpen
      <4>1. opened \in Links
        BY <3>1 DEF IsOpen, WireTyped
      <4>2. Append(up[opened], "detach") \in Seq(UpFrames)
        BY <4>1 DEF WireTyped, UpFrames
      <4> QED
        BY <1>2, <3>1, <4>1, <4>2 DEF PaneCloses, WireTyped
    <3>2. CASE ~(wrapped /\ IsOpen)
      BY <1>2, <3>2 DEF PaneCloses, WireTyped
    <3> QED
      BY <3>1, <3>2
  <2> QED
    BY <1>2, <2>1 DEF PaneCloses, PageTyped, WireTyped
<1>3. CASE Reconnect
  BY <1>3, SendTyped DEF Reconnect, PageTyped, WireTyped
<1>4. CASE AttachAgain
  BY <1>4 DEF AttachAgain, PageTyped, WireTyped, wireVars
<1>5. CASE TimerFires
  BY <1>5, SendTyped DEF TimerFires, PageTyped, WireTyped
<1>6. CASE LinkOpens
  <2> DEFINE frames == (IF Registered THEN <<"attach">> ELSE <<>>) \o (IF awaiting THEN <<"attach">> ELSE <<>>)
  <2>1. <<"attach">> \in Seq(UpFrames) /\ <<>> \in Seq(UpFrames)
    BY DEF UpFrames
  <2>3. frames \in Seq(UpFrames)
    BY <2>1, ConcatProperties
  <2>4. Len(frames) \in Nat
    BY <2>3
  <2>2. /\ opened < MaxLinks /\ sent + Len(frames) <= MaxAttaches /\ opened' = opened + 1
        /\ link' = [link EXCEPT ![opened + 1] = "open"] /\ up' = [up EXCEPT ![opened + 1] = frames]
        /\ sent' = sent + Len(frames) /\ awaiting' = FALSE
        /\ UNCHANGED <<pane, wrapped, seconds, timer, kicked, down, serverVars, ownerVars>>
    BY <1>6 DEF LinkOpens
  <2> HIDE DEF frames
  <2>5. opened + 1 \in Links /\ opened' \in 0 .. MaxLinks /\ sent' \in 0 .. MaxAttaches
    BY <2>2, <2>4 DEF WireTyped
  <2>6. WireTyped'
    BY <2>2, <2>3, <2>5 DEF WireTyped
  <2> QED
    BY <2>2, <2>6 DEF PageTyped
<1>7. CASE LinkLost
  <2>1. opened \in Links
    BY <1>7 DEF LinkLost, IsOpen, WireTyped
  <2> QED
    BY <1>7, <2>1 DEF LinkLost, Disconnected, PageTyped, WireTyped
<1>8. CASE ConnectFails
  BY <1>8 DEF ConnectFails, Disconnected, PageTyped, WireTyped, wireVars
<1>9. CASE Receive
  <2>1. opened \in Links /\ down[opened] # <<>>
    BY <1>9 DEF Receive, IsOpen, WireTyped
  <2>2. down' = [down EXCEPT ![opened] = Tail(down[opened])] /\ Tail(down[opened]) \in Seq(DownFrames)
    BY <1>9, <2>1 DEF Receive, WireTyped
  <2>3. WireTyped'
    BY <1>9, <2>1, <2>2 DEF Receive, WireTyped
  <2>4. PageTyped'
    BY <1>9 DEF Receive, PageTyped, pageVars
  <2> QED
    BY <1>9, <2>3, <2>4 DEF Receive
<1> QED
  BY <1>1, <1>2, <1>3, <1>4, <1>5, <1>6, <1>7, <1>8, <1>9 DEF Page

-----------------------------------------------------------------------------
(* The server.                                                              *)

\* The page's channels and those of its rivals are channels; no channel is none.
LEMMA ChanSets ==
  Own \subseteq Chans /\ Rivals \subseteq Chans /\ NoChan \notin Chans /\ Rivals \cap Own = {}
  BY DEF Chans

\* No connection has the number 0.
LEMMA LinkSets == 0 \notin Links /\ Links \subseteq 0 .. MaxLinks
  BY DEF Links

HIDE DEF Links, Own, Chans
USE ChanSets, LinkSets

\* What a step of a channel's goroutine leaves of the channels.
LEMMA GotoMoves ==
  ASSUME ServerTyped, NEW v \in Chans, NEW label \in ChanPcs \ {"new", "closeOld"}, Goto(v, label),
         label = "tellOld" => chan[v].old \in Chans
  PROVE  /\ chan' \in [Chans -> [pc : ChanPcs, link : 0 .. MaxLinks, old : Chans \cup {NoChan}]]
         /\ chan'[v].pc = label /\ chan'[v].link = chan[v].link
         /\ \A u \in Chans : u # v => chan'[u] = chan[u]
         /\ \A u \in Chans : chan'[u].pc \in {"closeOld", "tellOld"} => chan'[u].old \in Chans
<1> DEFINE new == [pc |-> label, link |-> chan[v].link,
                   old |-> IF label = "tellOld" THEN chan[v].old ELSE NoChan]
<1>1. new \in [pc : ChanPcs, link : 0 .. MaxLinks, old : Chans \cup {NoChan}]
  BY DEF ServerTyped
<1>2. chan' = [chan EXCEPT ![v] = new]
  BY DEF Goto, ServerTyped
<1> QED
  BY <1>1, <1>2 DEF ServerTyped

\* A frame is taken off the wire.
LEMMA ReadTyped ==
  ASSUME ITyped, NEW l \in Links, NEW frame, Reads(l, frame)
  PROVE  up' \in [Links -> Seq(UpFrames)] /\ UNCHANGED <<pageVars, sent, opened, link, ownerVars, destroyer>>
<1>1. up[l] # <<>> /\ up[l] \in Seq(UpFrames) /\ up' = [up EXCEPT ![l] = Tail(up[l])]
  BY DEF Reads, ITyped, WireTyped
<1>2. Tail(up[l]) \in Seq(UpFrames)
  BY <1>1
<1> QED
  BY <1>1, <1>2 DEF Reads, ITyped, WireTyped

\* A channel leaves the table of its connection and is closed (handleDetach, closeAll).
LEMMA EntryCloses ==
  ASSUME IBridges, NEW l \in Links, chans' = [chans EXCEPT ![l] = NoChan], Shut(l),
         UNCHANGED <<chan, destroyer, owner>>
  PROVE  ServerTyped' /\ Tabled' /\ BridgeIsRegistered'
<1>1. /\ chans' \in [Links -> Own \cup {NoChan}] /\ shut' \subseteq Chans /\ shut \subseteq shut'
      /\ chans[l] # NoChan => chans[l] \in shut'
  BY DEF IBridges, ITyped, ServerTyped, Shut
<1>2. ServerTyped'
  BY <1>1 DEF IBridges, ITyped, ServerTyped
<1>3. Tabled'
  BY <1>1 DEF IBridges, ITyped, ServerTyped, Tabled
<1>4. BridgeIsRegistered'
  <2> SUFFICES ASSUME NEW v \in Own, chan[v].pc \in {"attach", "closeOld", "tellOld", "init", "live"},
                      v \notin shut'
               PROVE  chans'[chan[v].link] = v
    BY DEF BridgeIsRegistered
  <2>1. chans[chan[v].link] = v /\ chan[v].link \in Links
    BY <1>1 DEF IBridges, BridgeIsRegistered, Tabled
  <2>2. chan[v].link # l
    BY <1>1, <2>1
  <2> QED
    BY <2>1, <2>2 DEF IBridges, ITyped, ServerTyped
<1> QED
  BY <1>2, <1>3, <1>4

\* The read loop of a connection.
LEMMA ReadLoopInv ==
  ASSUME IBridges, NEW l \in Links, ReadLoop(l)
  PROVE  IBridges'
<1>p. ASSUME UNCHANGED pageVars PROVE PageTyped'
  BY <1>p DEF pageVars, PageTyped, IBridges, ITyped
<1>1. CASE ServeAttach(l)
  <2>1. up' \in [Links -> Seq(UpFrames)] /\ UNCHANGED <<pageVars, sent, opened, link, ownerVars, destroyer>>
    BY <1>1, ReadTyped DEF ServeAttach, IBridges
  <2>2. down' \in [Links -> Seq(DownFrames)]
    BY <1>1, ReplyTyped DEF ServeAttach, IBridges, ITyped, DownFrames
  <2>3. PageTyped' /\ WireTyped'
    BY <1>p, <2>1, <2>2 DEF IBridges, ITyped, WireTyped
  <2>4. CASE UNCHANGED <<chans, chan>>
    BY <1>1, <2>1, <2>3, <2>4
       DEF ServeAttach, IBridges, ITyped, ServerTyped, Tabled, BridgeIsRegistered, ownerVars
  <2>5. CASE ~UNCHANGED <<chans, chan>>
    <3>1. PICK v \in Own :
            /\ chan[v].pc = "new" /\ chans[l] = NoChan /\ chans' = [chans EXCEPT ![l] = v]
            /\ chan' = [chan EXCEPT ![v] = [pc |-> "attach", link |-> l, old |-> NoChan]]
      BY <1>1, <2>5 DEF ServeAttach, Fresh
    <3>2. /\ chans' \in [Links -> Own \cup {NoChan}] /\ chans'[l] = v
          /\ \A m \in Links : m # l => chans'[m] = chans[m] /\ chans[m] # v
      BY <3>1 DEF IBridges, ITyped, ServerTyped, Tabled
    <3>3. /\ chan' \in [Chans -> [pc : ChanPcs, link : 0 .. MaxLinks, old : Chans \cup {NoChan}]]
          /\ chan'[v] = [pc |-> "attach", link |-> l, old |-> NoChan]
          /\ \A w \in Chans : w # v => chan'[w] = chan[w]
      BY <3>1 DEF IBridges, ITyped, ServerTyped, ChanPcs
    <3>4. UNCHANGED <<shut, owner, destroyer>>
      BY <1>1, <2>1 DEF ServeAttach, ownerVars
    <3>5. ServerTyped'
      BY <3>2, <3>3, <3>4 DEF IBridges, ITyped, ServerTyped
    <3>6. Tabled'
      BY <3>2, <3>3 DEF IBridges, ITyped, ServerTyped, Tabled
    <3>7. BridgeIsRegistered'
      BY <3>1, <3>2, <3>3, <3>4 DEF IBridges, ITyped, ServerTyped, Tabled, BridgeIsRegistered
    <3> QED
      BY <2>3, <3>5, <3>6, <3>7 DEF IBridges, ITyped
  <2> QED
    BY <2>4, <2>5
<1>2. CASE ServeDetach(l)
  <2>1. up' \in [Links -> Seq(UpFrames)] /\ UNCHANGED <<pageVars, sent, opened, link, ownerVars, destroyer>>
    BY <1>2, ReadTyped DEF ServeDetach, IBridges
  <2>2. PageTyped' /\ WireTyped'
    BY <1>2, <1>p, <2>1 DEF ServeDetach, IBridges, ITyped, WireTyped
  <2>3. ServerTyped' /\ Tabled' /\ BridgeIsRegistered'
    BY <1>2, <2>1, EntryCloses DEF ServeDetach, ownerVars
  <2> QED
    BY <2>2, <2>3 DEF IBridges, ITyped
<1>3. CASE ServeClose(l)
  <2>1. <<>> \in Seq(UpFrames)
    OBVIOUS
  <2>2. PageTyped' /\ WireTyped'
    BY <1>3, <1>p, <2>1 DEF ServeClose, IBridges, ITyped, WireTyped
  <2>3. ServerTyped' /\ Tabled' /\ BridgeIsRegistered'
    BY <1>3, EntryCloses DEF ServeClose, ownerVars
  <2> QED
    BY <2>2, <2>3 DEF IBridges, ITyped
<1> QED
  BY <1>1, <1>2, <1>3 DEF ReadLoop

\* A goroutine that goes on, without a table and at most closing a channel.
LEMMA ChannelMoves ==
  ASSUME IBridges, NEW v \in Chans, NEW label \in ChanPcs \ {"new", "closeOld"}, Goto(v, label),
         label = "tellOld" => chan[v].old \in Chans,
         chan[v].pc \in {"attach", "closeOld", "tellOld", "init", "live"},
         UNCHANGED <<chans, destroyer>>, shut \subseteq shut', shut' \subseteq Chans,
         owner' \in Chans \cup {NoChan}
  PROVE  ServerTyped' /\ Tabled' /\ BridgeIsRegistered'
<1>1. /\ chan' \in [Chans -> [pc : ChanPcs, link : 0 .. MaxLinks, old : Chans \cup {NoChan}]]
      /\ chan'[v].pc = label /\ chan'[v].link = chan[v].link
      /\ \A u \in Chans : u # v => chan'[u] = chan[u]
      /\ \A u \in Chans : chan'[u].pc \in {"closeOld", "tellOld"} => chan'[u].old \in Chans
  BY GotoMoves DEF IBridges, ITyped
<1>2. ServerTyped'
  BY <1>1 DEF IBridges, ITyped, ServerTyped
<1>3. Tabled'
  BY <1>1 DEF IBridges, ITyped, ServerTyped, Tabled
<1>4. BridgeIsRegistered'
  BY <1>1 DEF IBridges, BridgeIsRegistered
<1> QED
  BY <1>2, <1>3, <1>4

\* The goroutine of a channel: Session.Attach, and the drop that follows it.
LEMMA ChannelInv ==
  ASSUME IBridges, NEW v \in Chans, Channel(v)
  PROVE  IBridges'
<1> USE DEF ChanPcs
<1>p. ASSUME UNCHANGED pageVars PROVE PageTyped'
  BY <1>p DEF pageVars, PageTyped, IBridges, ITyped
<1>w. ASSUME UNCHANGED wireVars PROVE WireTyped'
  BY <1>w DEF wireVars, WireTyped, IBridges, ITyped
<1>r. ASSUME NEW l, NEW frame \in DownFrames, Reply(l, frame), UNCHANGED <<sent, opened, link, up>>
      PROVE  WireTyped'
  <2>1. down' \in [Links -> Seq(DownFrames)]
    BY <1>r, ReplyTyped DEF IBridges, ITyped
  <2> QED
    BY <1>r, <2>1 DEF WireTyped, IBridges, ITyped
<1>s. shut \subseteq Chans /\ owner \in Chans \cup {NoChan}
  BY DEF IBridges, ITyped, ServerTyped
<1>1. CASE Take(v)
  <2> DEFINE new == [pc |-> IF owner = NoChan THEN "init" ELSE "closeOld", link |-> chan[v].link, old |-> owner]
  <2>1. /\ chan[v].pc = "attach" /\ chan' = [chan EXCEPT ![v] = new] /\ owner' = v
        /\ UNCHANGED <<pageVars, wireVars, chans, shut, destroyer>>
    BY <1>1 DEF Take, Owner!Take
  <2>2. new \in [pc : ChanPcs, link : 0 .. MaxLinks, old : Chans \cup {NoChan}]
    BY DEF IBridges, ITyped, ServerTyped
  <2>3. /\ chan' \in [Chans -> [pc : ChanPcs, link : 0 .. MaxLinks, old : Chans \cup {NoChan}]]
        /\ chan'[v] = new /\ \A u \in Chans : u # v => chan'[u] = chan[u]
    BY <2>1, <2>2 DEF IBridges, ITyped, ServerTyped
  <2>4. ServerTyped'
    BY <2>1, <2>3 DEF IBridges, ITyped, ServerTyped
  <2>5. Tabled'
    BY <2>1, <2>3 DEF IBridges, ITyped, ServerTyped, Tabled
  <2>6. BridgeIsRegistered'
    BY <2>1, <2>3 DEF IBridges, BridgeIsRegistered
  <2> QED
    BY <1>p, <1>w, <2>1, <2>4, <2>5, <2>6 DEF IBridges, ITyped
<1>2. CASE Refused(v)
  <2>1. /\ chan[v].pc = "attach" /\ Goto(v, "drop") /\ owner' = owner
        /\ UNCHANGED <<pageVars, wireVars, chans, shut, destroyer>>
    BY <1>2 DEF Refused, Owner!Refuse
  <2>2. ServerTyped' /\ Tabled' /\ BridgeIsRegistered'
    BY <1>s, <2>1, ChannelMoves
  <2> QED
    BY <1>p, <1>w, <2>1, <2>2 DEF IBridges, ITyped
<1>3. CASE CloseOld(v)
  <2>1. /\ chan[v].pc = "closeOld" /\ chan[v].old \in Chans /\ shut' = shut \cup {chan[v].old}
        /\ UNCHANGED <<pageVars, wireVars, chans, destroyer, owner>>
    BY <1>3 DEF CloseOld, IBridges, ITyped, ServerTyped, ownerVars
  <2>2. PICK label \in {"init", "tellOld"} : Goto(v, label)
    BY <1>3 DEF CloseOld
  <2>3. ServerTyped' /\ Tabled' /\ BridgeIsRegistered'
    BY <1>s, <2>1, <2>2, ChannelMoves
  <2> QED
    BY <1>p, <1>w, <2>1, <2>3 DEF IBridges, ITyped
<1>4. CASE TellOld(v)
  <2>1. /\ chan[v].pc = "tellOld" /\ Goto(v, "init") /\ Reply(chan[chan[v].old].link, "preempted")
        /\ UNCHANGED <<pageVars, sent, opened, link, up, chans, shut, destroyer, owner>>
    BY <1>4 DEF TellOld, ownerVars
  <2>2. ServerTyped' /\ Tabled' /\ BridgeIsRegistered'
    BY <1>s, <2>1, ChannelMoves
  <2>3. WireTyped'
    BY <1>r, <2>1 DEF DownFrames
  <2> QED
    BY <1>p, <2>1, <2>2, <2>3 DEF IBridges, ITyped
<1>5. CASE Handshake(v)
  <2>1. /\ chan[v].pc = "init" /\ Goto(v, "live") /\ Reply(chan[v].link, "init")
        /\ UNCHANGED <<pageVars, sent, opened, link, up, chans, shut, destroyer, owner>>
    BY <1>5 DEF Handshake, ownerVars
  <2>2. ServerTyped' /\ Tabled' /\ BridgeIsRegistered'
    BY <1>s, <2>1, ChannelMoves
  <2>3. WireTyped'
    BY <1>r, <2>1 DEF DownFrames
  <2> QED
    BY <1>p, <2>1, <2>2, <2>3 DEF IBridges, ITyped
<1>6. CASE BridgeEnds(v)
  <2>1. /\ chan[v].pc = "live" /\ Goto(v, "drop") /\ owner' \in {owner, NoChan}
        /\ UNCHANGED <<pageVars, wireVars, chans, shut, destroyer>>
    BY <1>6 DEF BridgeEnds, Owner!Leave
  <2>2. ServerTyped' /\ Tabled' /\ BridgeIsRegistered'
    BY <1>s, <2>1, ChannelMoves
  <2> QED
    BY <1>p, <1>w, <2>1, <2>2 DEF IBridges, ITyped
<1>7. CASE Drop(v)
  <2>1. /\ chan[v].pc = "drop" /\ Goto(v, "gone") /\ shut' = shut \cup {v}
        /\ chans' = [l \in Links |-> IF chans[l] = v THEN NoChan ELSE chans[l]]
        /\ UNCHANGED <<pageVars, wireVars, destroyer, owner>>
    BY <1>7 DEF Drop, ownerVars
  <2>2. /\ chan' \in [Chans -> [pc : ChanPcs, link : 0 .. MaxLinks, old : Chans \cup {NoChan}]]
        /\ chan'[v].pc = "gone" /\ chan'[v].link = chan[v].link
        /\ \A u \in Chans : u # v => chan'[u] = chan[u]
        /\ \A u \in Chans : chan'[u].pc \in {"closeOld", "tellOld"} => chan'[u].old \in Chans
    BY <2>1, GotoMoves DEF IBridges, ITyped
  <2>3. chans' \in [Links -> Own \cup {NoChan}]
    BY <2>1 DEF IBridges, ITyped, ServerTyped
  <2>4. ServerTyped'
    BY <2>1, <2>2, <2>3 DEF IBridges, ITyped, ServerTyped
  <2>5. Tabled'
    BY <2>1, <2>2 DEF IBridges, ITyped, ServerTyped, Tabled
  <2>6. BridgeIsRegistered'
    BY <2>1, <2>2 DEF IBridges, ITyped, ServerTyped, Tabled, BridgeIsRegistered
  <2> QED
    BY <1>p, <1>w, <2>1, <2>4, <2>5, <2>6 DEF IBridges, ITyped
<1> QED
  BY <1>1, <1>2, <1>3, <1>4, <1>5, <1>6, <1>7 DEF Channel

\* A rival goes, or the session is destroyed: channels are closed, and no table changes.
LEMMA OthersInv ==
  ASSUME IBridges, (\E v \in Chans : RivalGoes(v)) \/ Destroy \/ DestroyClose \/ DestroyTell
  PROVE  IBridges'
<1>1. UNCHANGED <<pageVars, sent, opened, link, up, chans, chan>> /\ shut \subseteq shut'
  BY DEF RivalGoes, Destroy, DestroyClose, DestroyTell, wireVars
<1>2. PageTyped'
  BY <1>1 DEF pageVars, PageTyped, IBridges, ITyped
<1>3. WireTyped'
  <2>1. CASE DestroyTell
    <3>1. down' \in [Links -> Seq(DownFrames)]
      BY <2>1, ReplyTyped DEF DestroyTell, DownFrames, IBridges, ITyped
    <3> QED
      BY <1>1, <3>1 DEF WireTyped, IBridges, ITyped
  <2>2. CASE ~DestroyTell
    BY <2>2 DEF RivalGoes, Destroy, DestroyClose, wireVars, WireTyped, IBridges, ITyped
  <2> QED
    BY <2>1, <2>2
<1>4. ServerTyped'
  <2>1. CASE \E v \in Chans : RivalGoes(v)
    BY <2>1 DEF RivalGoes, ownerVars, IBridges, ITyped, ServerTyped
  <2>2. CASE Destroy
    BY <2>2 DEF Destroy, Owner!Destroy, IBridges, ITyped, ServerTyped
  <2>3. CASE DestroyClose
    BY <2>3 DEF DestroyClose, ownerVars, IBridges, ITyped, ServerTyped
  <2>4. CASE DestroyTell
    BY <2>4 DEF DestroyTell, ownerVars, IBridges, ITyped, ServerTyped
  <2> QED
    BY <2>1, <2>2, <2>3, <2>4
<1>5. Tabled' /\ BridgeIsRegistered'
  BY <1>1 DEF IBridges, Tabled, BridgeIsRegistered
<1> QED
  BY <1>2, <1>3, <1>4, <1>5 DEF IBridges, ITyped

-----------------------------------------------------------------------------
(* The theorems.                                                            *)

\* At the start no channel is in a table.
LEMMA BridgesInitInv == Init => IBridges
<1> SUFFICES ASSUME Init PROVE IBridges
  OBVIOUS
<1>1. PageTyped
  BY DEF Init, PageTyped
<1>2. WireTyped
  BY ChannelsAssumption DEF Init, WireTyped, ChannelsAssumption
<1>3. ServerTyped
  BY ChannelsAssumption DEF Init, Owner!Init, ServerTyped, ChanPcs, ChannelsAssumption
<1>4. Tabled /\ BridgeIsRegistered
  BY DEF Init, Tabled, BridgeIsRegistered
<1> QED
  BY <1>1, <1>2, <1>3, <1>4 DEF IBridges, ITyped

\* Every frame, loss, takeover and end of a session keeps the tables (ws_handler.go).
LEMMA BridgesStepInv == IBridges /\ [Next]_vars => IBridges'
<1> SUFFICES ASSUME IBridges, [Next]_vars PROVE IBridges'
  OBVIOUS
<1>1. CASE Page
  BY <1>1, PageStepTyped DEF IBridges, ITyped, ServerTyped, Tabled, BridgeIsRegistered, serverVars, ownerVars
<1>2. ASSUME NEW l \in Links, ReadLoop(l) PROVE IBridges'
  BY <1>2, ReadLoopInv
<1>3. ASSUME NEW v \in Chans, Channel(v) PROVE IBridges'
  BY <1>3, ChannelInv
<1>4. ASSUME (\E v \in Chans : RivalGoes(v)) \/ Destroy \/ DestroyClose \/ DestroyTell PROVE IBridges'
  BY <1>4, OthersInv
<1>5. CASE UNCHANGED vars
  BY <1>5 DEF vars, pageVars, wireVars, serverVars, ownerVars, IBridges, ITyped, PageTyped, WireTyped,
              ServerTyped, Tabled, BridgeIsRegistered
<1> QED
  BY <1>1, <1>2, <1>3, <1>4, <1>5 DEF Next

\* Every variable of the page, of the wires and of the server keeps its type.
THEOREM ChannelTypes == Spec => []TypeOK
<1>1. IBridges => TypeOK
  BY DEF IBridges, ITyped, PageTyped, WireTyped, ServerTyped, TypeOK, ChanPcs, UpFrames, DownFrames
<1> QED
  BY <1>1, BridgesInitInv, BridgesStepInv, PTL DEF Spec

\* Whatever frames, losses of connections, takeovers and destructions interleave, a channel
\* that serves the session and is not closed is the one its connection's table has, where
\* handleDetach and closeAll find it (ws_handler.go); so a connection never has two.
THEOREM BridgesAreFound == Spec => []BridgeIsRegistered
<1>1. IBridges => BridgeIsRegistered
  BY DEF IBridges
<1> QED
  BY <1>1, BridgesInitInv, BridgesStepInv, PTL DEF Spec

-----------------------------------------------------------------------------
(* Screen.                                                                  *)
HIDE ChannelsAssumption DEF ChannelsAssumption, Links, Own, Chans
USE ScreenAssumption DEF ScreenAssumption

Resizers   == Relays \cup Rests
ResizerPcs ==
  {"idle", "relay", "set", "sync", "record", "shake", "shrink", "restore", "restoring", "done"}

ResizerType == [pc : ResizerPcs, size : Nat \X Nat, frames : Nat, read : SUBSET (Nat \X Nat)]

ResizersTyped ==
  /\ resizer \in [Resizers -> ResizerType]
  /\ last \in Nat \X Nat

\* The mirror has the rows of its size.
MirrorTyped ==
  /\ ver \in Nat
  /\ grid = [size |-> grid.size, rows |-> grid.rows]
  /\ grid.size \in Nat \X Nat
  /\ grid.rows \in [1 .. grid.size[2] -> Texts]

IShape == ResizersTyped /\ MirrorTyped

\* Past its first full frame the monitor's client has what the monitor took for its
\* baseline; that is the mirror of the version the monitor recorded.
MonitorKnows ==
  /\ DOMAIN mon = {"pc", "base", "ver", "size"}
  /\ mon.pc \in {"prime", "wait", "diff", "full", "gone"}
  /\ mon.ver \in Nat /\ mon.ver <= ver
  /\ mon.pc \in {"wait", "diff", "full"} =>
       /\ mon.base \in [1 .. mon.size[2] -> Texts]
       /\ view = [size |-> mon.size, rows |-> mon.base]
       /\ mon.ver = ver => view = grid

Busy(p) == resizer[p].pc \in {"set", "sync", "record", "shake", "shrink", "restore", "restoring"}

\* Every size somebody is busy with, and the one that is remembered, was asked for.
AskedFirst ==
  /\ \A p \in Resizers : Busy(p) => Cast(resizer[p].size) \in asked
  /\ last[1] > 1 => Cast(last) \in asked

\* While the PTY has a size nobody asked for, somebody is about to restore one, or it
\* has it for a reason.
RestoreFollows ==
  pty \in asked \/ amiss \/ \E p \in Resizers : resizer[p].pc \in {"restore", "restoring"}

-----------------------------------------------------------------------------
(* Shapes.                                                                  *)

\* What the PTY takes is a size, of a shake too.
LEMMA CastOfSize ==
  ASSUME NEW s \in Nat \X Nat
  PROVE  Cast(s) \in Nat \X Nat /\ Cast(Shrunk(s)) \in Nat \X Nat
  BY SMT DEF Cast, Shrunk, Uint16

\* Storing a size moves nobody but the one who stores it.
LEMMA StoreMoves ==
  ASSUME ResizersTyped, NEW p \in Resizers, NEW size, Cast(size) \in Nat \X Nat,
         NEW record \in ResizerType, StoreSize(p, record, size)
  PROVE  /\ resizer' \in [Resizers -> ResizerType]
         /\ resizer'[p].pc = record.pc /\ resizer'[p].size = record.size
         /\ \A q \in Resizers \ {p} : resizer'[q].pc = resizer[q].pc /\ resizer'[q].size = resizer[q].size
<1>1. resizer' = [q \in Resizers |->
        IF q = p THEN [record EXCEPT !.read = {Cast(size)}]
        ELSE IF Resizes(q) THEN [resizer[q] EXCEPT !.read = @ \cup {Cast(size)}]
        ELSE resizer[q]]
  BY DEF StoreSize, ResizersTyped
<1>2. \A q \in Resizers : resizer[q] \in ResizerType
  BY DEF ResizersTyped
<1>3. ASSUME NEW r \in ResizerType, NEW set \in SUBSET (Nat \X Nat)
      PROVE  /\ [r EXCEPT !.read = set] \in ResizerType
             /\ [r EXCEPT !.read = set].pc = r.pc /\ [r EXCEPT !.read = set].size = r.size
  BY DEF ResizerType
<1>4. \A q \in Resizers : resizer[q].read \cup {Cast(size)} \in SUBSET (Nat \X Nat)
  BY <1>2 DEF ResizerType
<1>5. \A q \in Resizers \ {p} :
        /\ resizer'[q] \in ResizerType
        /\ resizer'[q].pc = resizer[q].pc /\ resizer'[q].size = resizer[q].size
  BY <1>1, <1>2, <1>3, <1>4
<1>6. resizer'[p] \in ResizerType /\ resizer'[p].pc = record.pc /\ resizer'[p].size = record.size
  BY <1>1, <1>3
<1> QED
  BY <1>1, <1>5, <1>6

\* The four stores: who does them, where it goes on, and with which size.
LEMMA Stores ==
  ASSUME ResizersTyped, NEW p \in Resizers,
         RelayResize(p) \/ RestResize(p) \/ Shrink(p) \/ Restore(p)
  PROVE  /\ resizer' \in [Resizers -> ResizerType]
         /\ \A q \in Resizers \ {p} : resizer'[q].pc = resizer[q].pc /\ resizer'[q].size = resizer[q].size
         /\ \/ /\ Idle(p) /\ resizer'[p].pc = "set" /\ resizer'[p].size \in Sizes
               /\ asked' = asked \cup {Cast(resizer'[p].size)}
               /\ raced' = (raced \/ \E q \in DOMAIN resizer \ {p} : ~Idle(q))
            \/ /\ resizer'[p].size = resizer[p].size /\ UNCHANGED <<asked, raced>>
               /\ \/ resizer[p].pc = "shake" /\ resizer'[p].pc = "shrink"
                  \/ resizer[p].pc = "restore" /\ resizer'[p].pc = "restoring"
         /\ UNCHANGED <<pty, amiss, last, mirrorVars, stale>>
<1>t. resizer[p] \in ResizerType
  BY DEF ResizersTyped
<1>1. \A s \in Sizes : Cast(s) \in Nat \X Nat
  BY CastOfSize
<1>2. ASSUME RelayResize(p) \/ RestResize(p)
      PROVE  \E s \in Sizes, record \in ResizerType :
               /\ StoreSize(p, record, s) /\ Cast(s) \in Nat \X Nat
               /\ Idle(p) /\ record.pc = "set" /\ record.size = s
               /\ asked' = asked \cup {Cast(s)}
               /\ raced' = (raced \/ \E q \in DOMAIN resizer \ {p} : ~Idle(q))
               /\ UNCHANGED <<pty, amiss, last, mirrorVars, stale>>
  <2>1. CASE RelayResize(p)
    <3>1. PICK s \in Sizes :
            /\ StoreSize(p, [resizer[p] EXCEPT !.pc = "set", !.size = s, !.frames = resizer[p].frames + 1], s)
            /\ resizer[p].pc = "relay" /\ asked' = asked \cup {Cast(s)}
            /\ raced' = (raced \/ \E q \in DOMAIN resizer \ {p} : ~Idle(q))
            /\ UNCHANGED <<pty, amiss, last, mirrorVars, stale>>
      BY <2>1 DEF RelayResize
    <3>2. resizer[p].frames + 1 \in Nat
      BY <1>t DEF ResizerType
    <3> DEFINE record == [resizer[p] EXCEPT !.pc = "set", !.size = s, !.frames = resizer[p].frames + 1]
    <3>3. record \in ResizerType /\ record.pc = "set" /\ record.size = s /\ Cast(s) \in Nat \X Nat
      BY <3>2, <1>t, <1>1 DEF ResizerType, ResizerPcs
    <3>4. StoreSize(p, record, s)
      BY <3>1
    <3> HIDE DEF record
    <3> QED
      BY <3>1, <3>3, <3>4 DEF Idle
  <2>2. CASE RestResize(p)
    <3>1. PICK s \in Sizes :
            /\ StoreSize(p, [resizer[p] EXCEPT !.pc = "set", !.size = s], s)
            /\ resizer[p].pc = "idle" /\ asked' = asked \cup {Cast(s)}
            /\ raced' = (raced \/ \E q \in DOMAIN resizer \ {p} : ~Idle(q))
            /\ UNCHANGED <<pty, amiss, last, mirrorVars, stale>>
      BY <2>2 DEF RestResize
    <3> DEFINE record == [resizer[p] EXCEPT !.pc = "set", !.size = s]
    <3>2. record \in ResizerType /\ record.pc = "set" /\ record.size = s /\ Cast(s) \in Nat \X Nat
      BY <1>t, <1>1 DEF ResizerType, ResizerPcs
    <3>3. StoreSize(p, record, s)
      BY <3>1
    <3> HIDE DEF record
    <3> QED
      BY <3>1, <3>2, <3>3 DEF Idle
  <2> QED
    BY <1>2, <2>1, <2>2
<1>3. CASE RelayResize(p) \/ RestResize(p)
  BY <1>2, <1>3, StoreMoves
<1>4. ASSUME NEW pc \in ResizerPcs, NEW size, Cast(size) \in Nat \X Nat,
             StoreSize(p, [resizer[p] EXCEPT !.pc = pc], size)
      PROVE  /\ resizer' \in [Resizers -> ResizerType]
             /\ \A q \in Resizers \ {p} : resizer'[q].pc = resizer[q].pc /\ resizer'[q].size = resizer[q].size
             /\ resizer'[p].pc = pc /\ resizer'[p].size = resizer[p].size
  <2> DEFINE record == [resizer[p] EXCEPT !.pc = pc]
  <2>1. record \in ResizerType /\ record.pc = pc /\ record.size = resizer[p].size
    BY <1>t DEF ResizerType
  <2>2. StoreSize(p, record, size)
    BY <1>4
  <2> HIDE DEF record
  <2> QED
    BY <2>1, <2>2, <1>4, StoreMoves
<1>5. Cast(resizer[p].size) \in Nat \X Nat /\ Cast(Shrunk(resizer[p].size)) \in Nat \X Nat
  BY <1>t, CastOfSize DEF ResizerType
<1>6. CASE Shrink(p)
  BY <1>4, <1>5, <1>6 DEF Shrink, ResizerPcs
<1>7. CASE Restore(p)
  BY <1>4, <1>5, <1>7 DEF Restore, ResizerPcs
<1> QED
  BY <1>3, <1>6, <1>7

\* The end of Terminal.Resize, well or badly: when the PTY took a size without anything
\* amiss, it was the size of the one who set it.
LEMMA PtyMoves ==
  ASSUME ResizersTyped, NEW p \in Resizers, PtyTakes(p) \/ PtyRefuses(p)
  PROVE  /\ resizer' \in [Resizers -> ResizerType]
         /\ \A q \in Resizers \ {p} : resizer'[q] = resizer[q]
         /\ resizer'[p].size = resizer[p].size
         /\ UNCHANGED <<asked, last, mirrorVars, raced, stale>>
         /\ \/ /\ amiss' \/ pty' = Cast(IF resizer[p].pc = "shrink" THEN Shrunk(resizer[p].size)
                                        ELSE resizer[p].size)
               /\ \/ resizer[p].pc = "set" /\ resizer'[p].pc = "sync"
                  \/ resizer[p].pc = "shrink" /\ resizer'[p].pc = "restore"
                  \/ resizer[p].pc = "restoring" /\ resizer'[p].pc = "relay"
            \/ /\ UNCHANGED pty
               /\ \/ resizer[p].pc = "set" /\ resizer'[p].pc = "done" /\ (amiss => amiss')
                  \/ resizer[p].pc = "shrink" /\ resizer'[p].pc = "relay" /\ (amiss => amiss')
                  \/ resizer[p].pc = "restoring" /\ resizer'[p].pc = "relay" /\ amiss'
<1>1. ASSUME NEW pc \in ResizerPcs, ResizeEnds(p, pc)
      PROVE  /\ resizer' \in [Resizers -> ResizerType]
             /\ \A q \in Resizers \ {p} : resizer'[q] = resizer[q]
             /\ resizer'[p].size = resizer[p].size /\ resizer'[p].pc = pc
  <2>1. /\ [resizer[p] EXCEPT !.pc = pc, !.read = {}] \in ResizerType
        /\ [resizer[p] EXCEPT !.pc = pc, !.read = {}].pc = pc
        /\ [resizer[p] EXCEPT !.pc = pc, !.read = {}].size = resizer[p].size
    BY DEF ResizersTyped, ResizerType
  <2>2. resizer' = [resizer EXCEPT ![p] = [resizer[p] EXCEPT !.pc = pc, !.read = {}]]
    BY <1>1 DEF ResizeEnds
  <2> QED
    BY <2>1, <2>2 DEF ResizersTyped
<1>2. CASE PtyTakes(p)
  <2>1. resizer[p].pc \in {"set", "shrink", "restoring"} /\ UNCHANGED <<asked, last, mirrorVars, raced, stale>>
    BY <1>2 DEF PtyTakes, Resizes
  <2>2. amiss' \/ pty' = Wanted(p)
    BY <1>2 DEF PtyTakes
  <2>3. CASE resizer[p].pc = "set"
    BY <1>1, <1>2, <2>1, <2>2, <2>3 DEF PtyTakes, Wanted, ResizerPcs
  <2>4. CASE resizer[p].pc = "shrink"
    BY <1>1, <1>2, <2>1, <2>2, <2>4 DEF PtyTakes, Wanted, ResizerPcs
  <2>5. CASE resizer[p].pc = "restoring"
    BY <1>1, <1>2, <2>1, <2>2, <2>5 DEF PtyTakes, Wanted, ResizerPcs
  <2> QED
    BY <2>1, <2>3, <2>4, <2>5
<1>3. CASE PtyRefuses(p)
  <2>1. /\ resizer[p].pc \in {"set", "shrink", "restoring"}
        /\ UNCHANGED <<pty, asked, last, mirrorVars, raced, stale>>
        /\ amiss' = (amiss \/ resizer[p].pc = "restoring")
    BY <1>3 DEF PtyRefuses, Resizes
  <2>2. CASE resizer[p].pc = "set"
    <3>1. ResizeEnds(p, "done")
      BY <1>3, <2>2 DEF PtyRefuses
    <3>2. "done" \in ResizerPcs
      BY DEF ResizerPcs
    <3>3. /\ resizer' \in [Resizers -> ResizerType]
          /\ \A q \in Resizers \ {p} : resizer'[q] = resizer[q]
          /\ resizer'[p].size = resizer[p].size /\ resizer'[p].pc = "done"
      BY <1>1, <3>1, <3>2
    <3> QED
      BY <2>1, <2>2, <3>3
  <2>3. CASE resizer[p].pc # "set"
    <3>1. ResizeEnds(p, "relay")
      BY <1>3, <2>3 DEF PtyRefuses
    <3>2. resizer[p].pc = "shrink" \/ resizer[p].pc = "restoring"
      BY <2>1, <2>3
    <3> HIDE DEF ResizerPcs
    <3>3. "relay" \in ResizerPcs
      BY DEF ResizerPcs
    <3>4. /\ resizer' \in [Resizers -> ResizerType]
          /\ \A q \in Resizers \ {p} : resizer'[q] = resizer[q]
          /\ resizer'[p].size = resizer[p].size /\ resizer'[p].pc = "relay"
      BY <1>1, <3>1, <3>3
    <3> QED
      BY <2>1, <3>2, <3>4
  <2> QED
    BY <2>2, <2>3
<1> QED
  BY <1>2, <1>3

\* captureMirror's resize keeps the rows a size has.
LEMMA ResizedShape ==
  ASSUME MirrorTyped, NEW s \in Nat \X Nat
  PROVE  /\ Resized(grid, s) = [size |-> s, rows |-> Resized(grid, s).rows]
         /\ Resized(grid, s).size = s
         /\ Resized(grid, s).rows \in [1 .. s[2] -> Texts]
  BY DEF Resized, MirrorTyped

\* Whatever resizes and output do, the resizers and the mirror keep their shape.
LEMMA ScreenStepShape == IShape /\ [ScreenNext]_screenVars => IShape'
<1> SUFFICES ASSUME IShape, [ScreenNext]_screenVars PROVE IShape'
  OBVIOUS
<1> USE DEF IShape, Resizers, ResizerType, ResizerPcs
<1>r. ASSUME UNCHANGED mirrorVars PROVE MirrorTyped'
  BY <1>r DEF mirrorVars, MirrorTyped
<1>1. ASSUME NEW p \in Resizers, AttachReplays(p) PROVE IShape'
  BY <1>1, <1>r DEF AttachReplays, ResizersTyped
<1>2. ASSUME NEW p \in Resizers, RelayResize(p) \/ RestResize(p) \/ Shrink(p) \/ Restore(p) PROVE IShape'
  <2>1. resizer' \in [Resizers -> ResizerType] /\ UNCHANGED <<last, mirrorVars>>
    BY <1>2, Stores
  <2> QED
    BY <2>1, <1>r DEF ResizersTyped
<1>3. ASSUME NEW p \in Resizers, PtyTakes(p) \/ PtyRefuses(p) PROVE IShape'
  <2>1. resizer' \in [Resizers -> ResizerType] /\ UNCHANGED <<last, mirrorVars>>
    BY <1>3, PtyMoves
  <2> QED
    BY <2>1, <1>r DEF ResizersTyped
<1>4. ASSUME NEW p \in Resizers, SyncSize(p) PROVE IShape'
  <2>1. ResizersTyped'
    BY <1>4 DEF SyncSize, Step, ResizersTyped
  <2>2. MirrorTyped'
    BY <1>4, ResizedShape, <1>r DEF SyncSize, SyncMirror, ResizersTyped, MirrorTyped
  <2> QED
    BY <2>1, <2>2
<1>5. ASSUME NEW p \in Resizers, RecordSize(p) PROVE IShape'
  BY <1>5, <1>r DEF RecordSize, Step, ResizersTyped
<1>8. ASSUME NEW p \in Resizers, RelayEnds(p) PROVE IShape'
  BY <1>8, <1>r DEF RelayEnds, Step, ResizersTyped
<1>9. CASE Output
  <2>1. PICK changed \in SUBSET DOMAIN grid.rows, t \in Texts :
          grid' = [grid EXCEPT !.rows = [r \in DOMAIN @ |-> IF r \in changed THEN t ELSE @[r]]]
    BY <1>9 DEF Output
  <2> DEFINE newRows == [r \in DOMAIN grid.rows |-> IF r \in changed THEN t ELSE grid.rows[r]]
  <2>2. newRows \in [1 .. grid.size[2] -> Texts]
    BY DEF MirrorTyped
  <2>3. grid' = [grid EXCEPT !.rows = newRows]
    BY <2>1
  <2> HIDE DEF newRows
  <2>4. grid' = [size |-> grid.size, rows |-> newRows]
    <3>1. PICK size, rows : grid = [size |-> size, rows |-> rows]
      BY DEF MirrorTyped
    <3> QED
      BY <2>3, <3>1
  <2>5. grid'.size = grid.size /\ grid'.rows = newRows
    BY <2>4
  <2>6. grid' = [size |-> grid'.size, rows |-> grid'.rows]
    BY <2>4, <2>5
  <2>7. MirrorTyped'
    BY <1>9, <2>2, <2>5, <2>6 DEF Output, MirrorTyped
  <2> QED
    BY <1>9, <2>7 DEF Output, sizeVars, ResizersTyped
<1>10. CASE OutputEnds
  BY <1>10, <1>r DEF OutputEnds, sizeVars, ResizersTyped
<1>11. ASSUME UNCHANGED <<sizeVars, mirrorVars>> PROVE IShape'
  BY <1>11, <1>r DEF sizeVars, ResizersTyped
<1>12. CASE Monitor
  BY <1>12, <1>11 DEF Monitor, MonitorFull, MonitorTick, MonitorResized, MonitorSame, MonitorDiff
<1>13. CASE MonitorEnds
  BY <1>13, <1>11 DEF MonitorEnds
<1>14. CASE Waiting
  BY <1>14, <1>11 DEF Waiting, WaitLook, WaitTick, WaitExit
<1>15. CASE UNCHANGED screenVars
  BY <1>15, <1>11 DEF screenVars
<1> QED
  BY <1>1, <1>2, <1>3, <1>4, <1>5, <1>8, <1>9, <1>10, <1>12, <1>13, <1>14, <1>15 DEF ScreenNext, Resizing

\* The mirror never changes without its version.
LEMMA VersionMoves ==
  ASSUME IShape, [ScreenNext]_screenVars
  PROVE  UNCHANGED <<grid, ver>> \/ ver' = ver + 1
<1> USE DEF mirrorVars
<1>1. ASSUME NEW p \in Resizers, Resizing(p) PROVE UNCHANGED <<grid, ver>> \/ ver' = ver + 1
  BY <1>1 DEF Resizing, AttachReplays, RelayResize, RestResize, SyncSize, SyncMirror, RecordSize, Shrink,
              Restore, PtyTakes, PtyRefuses, RelayEnds
<1>2. CASE Output
  BY <1>2 DEF Output
<1>3. CASE OutputEnds
  BY <1>3 DEF OutputEnds
<1>4. CASE Monitor \/ MonitorEnds
  BY <1>4 DEF Monitor, MonitorFull, MonitorTick, MonitorResized, MonitorSame, MonitorDiff, MonitorEnds
<1>5. CASE Waiting
  BY <1>5 DEF Waiting, WaitLook, WaitTick, WaitExit
<1>6. CASE UNCHANGED screenVars
  BY <1>6 DEF screenVars
<1> QED
  BY <1>1, <1>2, <1>3, <1>4, <1>5, <1>6 DEF ScreenNext, Resizers

-----------------------------------------------------------------------------
(* The monitor.                                                             *)

\* A full frame gives a client the rows of the mirror, whatever it had.
LEMMA FullPatch ==
  ASSUME MirrorTyped, NEW rows
  PROVE  Patch(rows, Diff(TRUE), TRUE) = grid.rows
  BY DEF Patch, Diff, MirrorTyped

\* A diff gives them to a client that has the baseline, when the size did not change.
LEMMA DiffPatch ==
  ASSUME MirrorTyped, mon.base \in [1 .. grid.size[2] -> Texts]
  PROVE  Patch(mon.base, Diff(FALSE), FALSE) = grid.rows
  BY DEF Patch, Diff, MirrorTyped

\* An empty diff means that there is nothing to send (buildMirrorDiff).
LEMMA EmptyDiff ==
  ASSUME MirrorTyped, mon.base \in [1 .. grid.size[2] -> Texts], Diff(FALSE) = {}
  PROVE  mon.base = grid.rows
  BY DEF Diff, MirrorTyped

\* Every step keeps what the monitor knows of its client.
LEMMA MonitorStepInv ==
  IShape /\ MonitorKnows /\ [ScreenNext]_screenVars => MonitorKnows'
<1> SUFFICES ASSUME IShape, MonitorKnows, [ScreenNext]_screenVars PROVE MonitorKnows'
  OBVIOUS
<1> USE DEF IShape
<1>1. CASE MonitorFull
  <2>1. view' = grid /\ mon' = [pc |-> "wait", base |-> grid.rows, ver |-> ver, size |-> grid.size]
    BY <1>1, FullPatch DEF MonitorFull, Send, MirrorTyped
  <2> QED
    BY <2>1, <1>1 DEF MonitorFull, MonitorKnows, MirrorTyped, mirrorVars
<1>2. CASE MonitorDiff
  <2>1. view' = grid /\ mon' = [pc |-> "wait", base |-> grid.rows, ver |-> ver, size |-> grid.size]
    <3>1. mon.size = grid.size /\ mon.base \in [1 .. grid.size[2] -> Texts] /\ view.rows = mon.base
      BY <1>2 DEF MonitorDiff, MonitorKnows
    <3>2. Patch(mon.base, Diff(FALSE), FALSE) = grid.rows
      BY <3>1, DiffPatch
    <3> QED
      BY <1>2, <3>1, <3>2 DEF MonitorDiff, Send, MirrorTyped
  <2> QED
    BY <2>1, <1>2 DEF MonitorDiff, MonitorKnows, MirrorTyped, mirrorVars
<1>3. CASE MonitorSame
  <2>1. mon.base = grid.rows /\ view = grid
    BY <1>3, EmptyDiff DEF MonitorSame, MonitorKnows, MirrorTyped
  <2> QED
    BY <2>1, <1>3 DEF MonitorSame, MonitorKnows, MirrorTyped, mirrorVars
<1>4. CASE MonitorTick \/ MonitorResized \/ MonitorEnds
  BY <1>4 DEF MonitorTick, MonitorResized, MonitorEnds, MonitorKnows, mirrorVars
<1>5. ASSUME UNCHANGED <<mon, view>> PROVE MonitorKnows'
  BY <1>5, VersionMoves DEF MonitorKnows, MirrorTyped
<1>6. ASSUME NEW p \in Resizers, Resizing(p) PROVE UNCHANGED <<mon, view>>
  BY <1>6 DEF Resizing, AttachReplays, RelayResize, RestResize, SyncSize, RecordSize, Shrink, Restore,
              PtyTakes, PtyRefuses, RelayEnds, watchVars
<1>7. ASSUME Output \/ OutputEnds \/ Waiting \/ UNCHANGED screenVars PROVE UNCHANGED <<mon, view>>
  BY <1>7 DEF Output, OutputEnds, Waiting, WaitLook, WaitTick, WaitExit, screenVars, watchVars
<1> QED
  BY <1>1, <1>2, <1>3, <1>4, <1>5, <1>6, <1>7 DEF ScreenNext, Monitor, Resizers

\* The shapes and the monitor's knowledge hold when the session starts.
LEMMA ScreenInitInv == ScreenInit => IShape /\ MonitorKnows
<1> SUFFICES ASSUME ScreenInit PROVE IShape /\ MonitorKnows
  OBVIOUS
<1>1. MirrorSize(pty) \in Nat \X Nat
  <2>1. pty \in Nat \X Nat
    <3>1. \A s \in Sizes : Cast(s) \in Nat \X Nat
      BY CastOfSize
    <3>2. pty = Never \/ \E s \in Sizes : pty = Cast(s)
      BY DEF ScreenInit
    <3> QED
      BY <3>1, <3>2 DEF Never
  <2> QED
    BY <2>1 DEF MirrorSize
<1>2. MirrorTyped
  BY <1>1 DEF ScreenInit, MirrorTyped, EmptyRows
<1>3. ResizersTyped
  BY DEF ScreenInit, ResizersTyped, ResizerType, Resizers, ResizerPcs, Never
<1>4. MonitorKnows
  BY DEF ScreenInit, MonitorKnows
<1> QED
  BY <1>2, <1>3, <1>4 DEF IShape

\* A monitor whose recorded version is the mirror's has given its client the size and the
\* rows of the mirror, however resizes, output and its own steps interleave
\* (handleMonitorWS, buildMirrorDiff).
THEOREM MonitorFollows == ScreenSpec => []MonitorInStep
<1>1. ScreenInit => IShape /\ MonitorKnows
  BY ScreenInitInv
<1>2. IShape /\ MonitorKnows /\ [ScreenNext]_screenVars => IShape' /\ MonitorKnows'
  BY ScreenStepShape, MonitorStepInv
<1>3. MonitorKnows => MonitorInStep
  BY DEF MonitorKnows, MonitorInStep
<1> QED
  BY <1>1, <1>2, <1>3, PTL DEF ScreenSpec

-----------------------------------------------------------------------------
(* The size of the PTY.                                                     *)

ISize == IShape /\ AskedFirst /\ RestoreFollows

\* Each step of a resize or of a shake, in any interleaving, keeps to the sizes asked for.
LEMMA SizeStepInv ==
  ISize /\ [ScreenNext]_screenVars => AskedFirst' /\ RestoreFollows'
<1> SUFFICES ASSUME ISize, [ScreenNext]_screenVars PROVE AskedFirst' /\ RestoreFollows'
  OBVIOUS
<1> USE DEF ISize, IShape, ResizersTyped, ResizerType, AskedFirst, RestoreFollows, Busy
<1>1. ASSUME NEW p \in Resizers, AttachReplays(p) PROVE AskedFirst' /\ RestoreFollows'
  BY <1>1 DEF AttachReplays
<1>2. ASSUME NEW p \in Resizers, RelayResize(p) \/ RestResize(p) \/ Shrink(p) \/ Restore(p)
      PROVE  AskedFirst' /\ RestoreFollows'
  <2> HIDE DEF ResizersTyped, ResizerType
  <2>0. ResizersTyped
    OBVIOUS
  <2>1. Busy(p)' /\ \A q \in Resizers \ {p} : Busy(q)' <=> Busy(q)
    BY <1>2, <2>0, Stores
  <2>2. AskedFirst'
    BY <1>2, <2>0, <2>1, Stores
  <2>3. RestoreFollows'
    BY <1>2, <2>0, Stores DEF Idle
  <2> QED
    BY <2>2, <2>3
<1>3. ASSUME NEW p \in Resizers, PtyTakes(p) \/ PtyRefuses(p) PROVE AskedFirst' /\ RestoreFollows'
  <2> HIDE DEF ResizersTyped, ResizerType
  <2>0. ResizersTyped
    OBVIOUS
  <2>1. /\ \A q \in Resizers \ {p} : resizer'[q] = resizer[q]
        /\ resizer'[p].size = resizer[p].size /\ Busy(p) /\ UNCHANGED <<asked, last>>
    BY <1>3, <2>0, PtyMoves
  <2>2. AskedFirst'
    BY <2>1
  <2>3. RestoreFollows'
    BY <1>3, <2>0, PtyMoves
  <2> QED
    BY <2>2, <2>3
<1>4. ASSUME NEW p \in Resizers, SyncSize(p) PROVE AskedFirst' /\ RestoreFollows'
  BY <1>4 DEF SyncSize, Step
<1>5. ASSUME NEW p \in Resizers, RecordSize(p) PROVE AskedFirst' /\ RestoreFollows'
  BY <1>5 DEF RecordSize, Step
<1>8. ASSUME NEW p \in Resizers, RelayEnds(p) PROVE AskedFirst' /\ RestoreFollows'
  BY <1>8 DEF RelayEnds, Step
<1>9. ASSUME UNCHANGED sizeVars PROVE AskedFirst' /\ RestoreFollows'
  BY <1>9 DEF sizeVars
<1>10. ASSUME Output \/ OutputEnds PROVE UNCHANGED sizeVars
  BY <1>10 DEF Output, OutputEnds
<1>11. ASSUME Monitor \/ MonitorEnds PROVE UNCHANGED sizeVars
  BY <1>11 DEF Monitor, MonitorFull, MonitorTick, MonitorResized, MonitorSame, MonitorDiff, MonitorEnds
<1>12. ASSUME Waiting \/ UNCHANGED screenVars PROVE UNCHANGED sizeVars
  BY <1>12 DEF Waiting, WaitLook, WaitTick, WaitExit, screenVars
<1> QED
  BY <1>1, <1>2, <1>3, <1>4, <1>5, <1>8, <1>9, <1>10, <1>11, <1>12 DEF ScreenNext, Resizing, Resizers

\* However resizes, the shake of an attach and the requests over REST overlap and fail,
\* once they are over the PTY has a size somebody asked for, unless the goroutine that set
\* it last took from t.size what another had stored there, or the restore of a shake
\* failed (Terminal.Resize, jitterSize, and the first resize in masterToSlave).
THEOREM ShakeEnds == ScreenSpec => []NotLeftShort
<1>1. ScreenInit => ISize
  <2> SUFFICES ASSUME ScreenInit PROVE AskedFirst /\ RestoreFollows
    BY ScreenInitInv DEF ISize
  <2>1. AskedFirst
    BY DEF ScreenInit, AskedFirst, Busy, Resizers, Never
  <2>2. RestoreFollows
    BY DEF ScreenInit, RestoreFollows
  <2> QED
    BY <2>1, <2>2
<1>2. ISize /\ [ScreenNext]_screenVars => ISize'
  BY ScreenStepShape, SizeStepInv DEF ISize
<1>3. ISize => NotLeftShort
  BY DEF ISize, RestoreFollows, NotLeftShort, IShape, ResizersTyped, ResizerType, Resizers, Idle
<1> QED
  BY <1>1, <1>2, <1>3, PTL DEF ScreenSpec

-----------------------------------------------------------------------------
(* The size of the mirror.                                                  *)

\* The size the mirror was last synced to is its size; it has a size of a client, what a
\* PTY makes of one, or the default, and never the "never" of a session nobody resized.
SyncedTo ==
  /\ synced = Never \/ synced = grid.size
  /\ grid.size \in Sizes \cup {Cast(s) : s \in Sizes} \cup {DefaultSize}
  /\ \A p \in Resizers : resizer[p].pc \in {"set", "sync"} => resizer[p].size \in Sizes

\* What a PTY may be created with that the mirror takes for no size (MirrorFactory).
Unset == {Never} \cup {Cast(s) : s \in {z \in Sizes : Cast(z)[1] = 0 \/ Cast(z)[2] = 0}}

\* Without an overlap one resize at a time is under way, and between its steps PTY and
\* mirror differ by what it still has to do.
OneAtATime ==
  ~raced /\ ~stale =>
    /\ \A p, q \in Resizers : Busy(p) /\ Busy(q) => p = q
    /\ (\A p \in Resizers : Busy(p) => resizer[p].pc = "set") =>
         amiss \/ pty = Cast(grid.size) \/ pty \in Unset
    /\ \A p \in Resizers :
         /\ resizer[p].pc \in {"sync", "record", "shake", "shrink"} => amiss \/ pty = Cast(resizer[p].size)
         /\ resizer[p].pc = "record" => grid.size = resizer[p].size
         /\ resizer[p].pc \in {"shake", "shrink", "restore", "restoring"} =>
              Cast(resizer[p].size) = Cast(grid.size)

IAgree == IShape /\ SyncedTo /\ OneAtATime

\* What the PTY took is what it takes.
LEMMA CastTwice ==
  ASSUME NEW s \in Nat \X Nat
  PROVE  Cast(Cast(s)) = Cast(s)
  BY SMT DEF Cast, Uint16

\* Who is in the middle of a resize is not idle.
LEMMA BusyIsNotIdle ==
  ASSUME ResizersTyped, NEW p \in Resizers
  PROVE  Busy(p) <=> ~Idle(p)
  BY DEF ResizersTyped, ResizerType, ResizerPcs, Busy, Idle

\* Every step keeps the agreement of the sizes.
LEMMA AgreeStepInv ==
  IAgree /\ [ScreenNext]_screenVars => SyncedTo' /\ OneAtATime'
<1> SUFFICES ASSUME IAgree, [ScreenNext]_screenVars PROVE SyncedTo' /\ OneAtATime'
  OBVIOUS
<1> USE DEF IAgree
<1>d. DOMAIN resizer = Resizers
  BY DEF IShape, ResizersTyped
<1>b. \A p \in Resizers : Busy(p) <=> ~Idle(p)
  BY BusyIsNotIdle DEF IShape
<1>1. ASSUME NEW p \in Resizers, AttachReplays(p) PROVE SyncedTo' /\ OneAtATime'
  <2> USE <1>1, <1>d DEF AttachReplays, IShape, ResizersTyped, ResizerType, mirrorVars
  <2>0. /\ \A q \in Resizers \ {p} : resizer'[q] = resizer[q]
        /\ resizer'[p].pc \in {"relay", "shake"}
    OBVIOUS
  <2>1. SyncedTo'
    BY <2>0 DEF SyncedTo
  <2>2. ASSUME resizer' = [resizer EXCEPT ![p].pc = "relay"], UNCHANGED <<raced, stale>>
        PROVE  OneAtATime'
    BY <2>2 DEF OneAtATime, Busy
  <2>3. ASSUME resizer' = [resizer EXCEPT ![p].pc = "shake", ![p].size = last],
             raced' = (raced \/ \E q \in DOMAIN resizer : ~Idle(q)),
             stale' = (stale \/ amiss \/ last # pty),
             last[1] > 1, last[2] > 1
        PROVE  OneAtATime'
    <3> SUFFICES ASSUME ~raced', ~stale' PROVE OneAtATime'
      BY DEF OneAtATime
    <3>1. \A q \in Resizers : ~Busy(q)
      BY <1>b, <2>3
    <3>2. last = Cast(grid.size)
      <4>1. pty = Cast(grid.size) \/ pty \in Unset
        BY <2>3, <3>1 DEF OneAtATime
      <4>2. last = pty
        BY <2>3
      <4>3. ASSUME NEW s \in Unset PROVE s[1] = 0 \/ s[2] = 0
        BY DEF Unset, Never
      <4>4. last \notin Unset
        BY <2>3, <4>3
      <4> QED
        BY <4>1, <4>2, <4>4
    <3>3. Cast(last) = Cast(grid.size)
      BY <3>2, CastTwice DEF MirrorTyped
    <3>4. resizer'[p].pc = "shake" /\ resizer'[p].size = last
      BY <2>3
    <3>5. pty = last /\ UNCHANGED <<pty, grid>>
      BY <2>3
    <3>6. pty = Cast(last)
      BY <3>2, <3>3, <3>5
    <3> HIDE DEF AttachReplays, IShape, ResizersTyped, ResizerType, mirrorVars
    <3> QED
      BY <2>0, <3>1, <3>3, <3>4, <3>5, <3>6 DEF OneAtATime, Busy
  <2> QED
    BY <2>1, <2>2, <2>3
<1>2. ASSUME NEW p \in Resizers, RelayResize(p) \/ RestResize(p) \/ Shrink(p) \/ Restore(p)
      PROVE  SyncedTo' /\ OneAtATime'
  <2>1. /\ \A q \in Resizers \ {p} : resizer'[q].pc = resizer[q].pc /\ resizer'[q].size = resizer[q].size
        /\ UNCHANGED <<pty, amiss, mirrorVars, stale>>
    BY <1>2, Stores DEF IShape
  <2>2. CASE /\ Idle(p) /\ resizer'[p].pc = "set" /\ resizer'[p].size \in Sizes
             /\ raced' = (raced \/ \E q \in DOMAIN resizer \ {p} : ~Idle(q))
    <3>1. SyncedTo'
      BY <2>1, <2>2 DEF SyncedTo, mirrorVars
    <3>2. ASSUME ~raced' PROVE \A q \in Resizers : ~Busy(q)
      BY <2>2, <3>2, <1>b, <1>d
    <3> QED
      BY <2>1, <2>2, <3>1, <3>2 DEF OneAtATime, Busy, mirrorVars
  <2>3. CASE /\ resizer'[p].size = resizer[p].size /\ UNCHANGED raced
             /\ \/ resizer[p].pc = "shake" /\ resizer'[p].pc = "shrink"
                \/ resizer[p].pc = "restore" /\ resizer'[p].pc = "restoring"
    BY <2>1, <2>3 DEF SyncedTo, OneAtATime, Busy, mirrorVars
  <2> QED
    BY <1>2, <2>2, <2>3, Stores DEF IShape
<1>5. ASSUME NEW p \in Resizers, PtyTakes(p) \/ PtyRefuses(p) PROVE SyncedTo' /\ OneAtATime'
  <2>1. /\ \A q \in Resizers \ {p} : resizer'[q] = resizer[q]
        /\ resizer'[p].size = resizer[p].size
        /\ UNCHANGED <<mirrorVars, raced, stale>>
    BY <1>5, PtyMoves DEF IShape
  <2>2. CASE /\ amiss' \/ pty' = Cast(IF resizer[p].pc = "shrink" THEN Shrunk(resizer[p].size)
                                      ELSE resizer[p].size)
             /\ \/ resizer[p].pc = "set" /\ resizer'[p].pc = "sync"
                \/ resizer[p].pc = "shrink" /\ resizer'[p].pc = "restore"
                \/ resizer[p].pc = "restoring" /\ resizer'[p].pc = "relay"
    BY <2>1, <2>2 DEF SyncedTo, OneAtATime, Busy, mirrorVars
  <2>3. CASE /\ UNCHANGED pty
             /\ \/ resizer[p].pc = "set" /\ resizer'[p].pc = "done" /\ (amiss => amiss')
                \/ resizer[p].pc = "shrink" /\ resizer'[p].pc = "relay" /\ (amiss => amiss')
                \/ resizer[p].pc = "restoring" /\ resizer'[p].pc = "relay" /\ amiss'
    BY <2>1, <2>3 DEF SyncedTo, OneAtATime, Busy, mirrorVars
  <2> QED
    BY <1>5, <2>2, <2>3, PtyMoves DEF IShape
<1>3. ASSUME NEW p \in Resizers, SyncSize(p) PROVE SyncedTo' /\ OneAtATime'
  <2>1. grid'.size = resizer[p].size /\ synced' = grid'.size
    <3>1. CASE synced # resizer[p].size
      BY <1>3, <3>1 DEF SyncSize, SyncMirror, Resized
    <3>2. CASE synced = resizer[p].size
      BY <1>3, <3>2 DEF SyncSize, SyncMirror, SyncedTo, mirrorVars, Never
    <3> QED
      BY <3>1, <3>2
  <2>2. PICK pc \in {"done", "record"} : resizer' = [resizer EXCEPT ![p].pc = pc]
    BY <1>3 DEF SyncSize, Step
  <2>3. UNCHANGED <<pty, amiss, raced, stale>> /\ resizer[p].pc = "sync"
    BY <1>3 DEF SyncSize
  <2> QED
    BY <2>1, <2>2, <2>3 DEF SyncedTo, OneAtATime, Busy, IShape, ResizersTyped, ResizerType
<1>4. ASSUME NEW p \in Resizers, RecordSize(p) PROVE SyncedTo' /\ OneAtATime'
  BY <1>4 DEF RecordSize, Step, SyncedTo, OneAtATime, Busy, IShape, ResizersTyped, ResizerType, mirrorVars
<1>7. ASSUME NEW p \in Resizers, RelayEnds(p) PROVE SyncedTo' /\ OneAtATime'
  BY <1>7 DEF RelayEnds, Step, SyncedTo, OneAtATime, Busy, IShape, ResizersTyped, ResizerType, mirrorVars
<1>8. ASSUME UNCHANGED <<sizeVars, synced, grid.size>> PROVE SyncedTo' /\ OneAtATime'
  BY <1>8 DEF sizeVars, SyncedTo, OneAtATime, Busy
<1>9. CASE Output
  <2>1. grid'.size = grid.size
    BY <1>9 DEF Output, IShape, MirrorTyped
  <2> QED
    BY <1>8, <1>9, <2>1 DEF Output
<1>10. CASE OutputEnds \/ Monitor \/ MonitorEnds \/ Waiting \/ UNCHANGED screenVars
  <2>1. UNCHANGED <<sizeVars, mirrorVars>>
    BY <1>10 DEF OutputEnds, Monitor, MonitorFull, MonitorTick, MonitorResized, MonitorSame, MonitorDiff,
                 MonitorEnds, Waiting, WaitLook, WaitTick, WaitExit, screenVars
  <2> QED
    BY <2>1, <1>8 DEF mirrorVars
<1> QED
  BY <1>1, <1>2, <1>3, <1>4, <1>5, <1>7, <1>9, <1>10 DEF ScreenNext, Resizing, Resizers

\* The agreement holds throughout.
LEMMA AgreeInv == ScreenSpec => []IAgree
<1>1. ScreenInit => IAgree
  <2> SUFFICES ASSUME ScreenInit PROVE SyncedTo /\ OneAtATime
    BY ScreenInitInv DEF IAgree
  <2>1. \/ pty = Never
        \/ \E s \in Sizes : pty = Cast(s)
    BY DEF ScreenInit
  <2>2. \/ \E s \in Sizes : pty = Cast(s) /\ grid.size = pty
        \/ pty \in Unset /\ grid.size = DefaultSize
    <3>1. grid.size = MirrorSize(pty)
      BY DEF ScreenInit
    <3>2. CASE pty = Never
      BY <3>1, <3>2 DEF MirrorSize, Unset, Never
    <3>3. CASE pty # Never
      <4>1. PICK s \in Sizes : pty = Cast(s)
        BY <2>1, <3>3
      <4>2. CASE Cast(s)[1] > 0 /\ Cast(s)[2] > 0
        BY <3>1, <4>1, <4>2 DEF MirrorSize
      <4>3. CASE ~(Cast(s)[1] > 0 /\ Cast(s)[2] > 0)
        <5>1. Cast(s)[1] = 0 \/ Cast(s)[2] = 0
          BY <4>3, CastOfSize
        <5> QED
          BY <3>1, <4>1, <4>3, <5>1 DEF MirrorSize, Unset
      <4> QED
        BY <4>2, <4>3
    <3> QED
      BY <3>2, <3>3
  <2>3. \A p \in Resizers : resizer[p].pc \in {"idle", "done"}
    BY DEF ScreenInit, Resizers
  <2>4. SyncedTo
    <3>1. grid.size \in {Cast(s) : s \in Sizes} \cup {DefaultSize}
      BY <2>2
    <3>2. synced = Never
      BY DEF ScreenInit
    <3> QED
      BY <2>3, <3>1, <3>2 DEF SyncedTo
  <2>5. OneAtATime
    BY <2>2, <2>3, CastTwice DEF OneAtATime, Busy
  <2> QED
    BY <2>4, <2>5
<1>2. IAgree /\ [ScreenNext]_screenVars => IAgree'
  BY ScreenStepShape, AgreeStepInv DEF IAgree
<1> QED
  BY <1>1, <1>2, PTL DEF ScreenSpec

\* While no resize is under way, the sizes agree.
LEMMA AgreeWhenQuiet ==
  IAgree =>
    ((\A p \in Resizers : Idle(p)) /\ ~raced /\ ~amiss /\ ~stale => pty = Cast(grid.size) \/ pty \in Unset)
BY BusyIsNotIdle DEF IAgree, IShape, OneAtATime

\* As long as resizes do not overlap, no restore failed and no attach shakes the size of an
\* earlier client, the PTY has the size of the mirror, cut to the 16 bits it takes, when nobody resizes
\* (Resize and syncMirrorSize, masterToSlave, jitterSize): for every size.
THEOREM PtyFollowsMirror ==
  ScreenSpec =>
    []((\A p \in Resizers : Idle(p)) /\ ~raced /\ ~amiss /\ ~stale /\ pty[1] > 0 /\ pty[2] > 0
         => pty = Cast(grid.size))
<1>1. IAgree => ((\A p \in Resizers : Idle(p)) /\ ~raced /\ ~amiss /\ ~stale /\ pty[1] > 0 /\ pty[2] > 0
                   => pty = Cast(grid.size))
  BY AgreeWhenQuiet DEF Unset, Never
<1> QED
  BY <1>1, AgreeInv, PTL

\* When every size that is asked for fits the 16 bits of Terminal.Resize, PTY and mirror
\* agree.  The handlers only ask for positive sizes: SizesAgree fails without the
\* assumption.
THEOREM MirrorFollowsPty ==
  ASSUME \A s \in Sizes : Cast(s) = s
  PROVE  ScreenSpec => []SizesAgree
<1>1. IAgree => SizesAgree
  <2>1. IAgree => Cast(grid.size) = grid.size
    <3>1. Cast(DefaultSize) = DefaultSize
      BY SMT DEF Cast, Uint16
    <3> QED
      BY <3>1 DEF IAgree, SyncedTo
  <2>2. Unset = {Never}
    BY DEF Unset
  <2> QED
    BY <2>1, <2>2, AgreeWhenQuiet DEF IAgree, IShape, ResizersTyped, SizesAgree
<1> QED
  BY <1>1, AgreeInv, PTL

-----------------------------------------------------------------------------
(* The Wait.                                                                *)

\* A process that was reported ended prints nothing more, and what a resize adds is empty.
ExitSeen ==
  /\ DOMAIN wait = {"pc", "result"}
  /\ wait.result = "exited" => wait.pc = "done" /\ exited /\ ~Matches(grid.rows)

\* A resize shows no text that was not there.
LEMMA ResizeAddsNoMatch ==
  ASSUME MirrorTyped, NEW s \in Nat \X Nat, ~Matches(grid.rows)
  PROVE  ~Matches(Resized(grid, s).rows)
  BY DEF Matches, Resized, MirrorTyped

\* Every step keeps what the Wait has seen of the end.
LEMMA ExitStepInv == IShape /\ ExitSeen /\ [ScreenNext]_screenVars => ExitSeen'
<1> SUFFICES ASSUME IShape, ExitSeen, [ScreenNext]_screenVars PROVE ExitSeen'
  OBVIOUS
<1> USE DEF IShape, ExitSeen, mirrorVars
<1>1. ASSUME NEW p \in Resizers, SyncSize(p) PROVE ExitSeen'
  <2>1. grid' = grid \/ grid' = Resized(grid, resizer[p].size)
    BY <1>1 DEF SyncSize, SyncMirror
  <2>2. ~Matches(grid.rows) => ~Matches(grid'.rows)
    BY <2>1, ResizeAddsNoMatch DEF ResizersTyped, ResizerType
  <2> QED
    BY <1>1, <2>2 DEF SyncSize, watchVars, Matches
<1>2. ASSUME NEW p \in Resizers,
             \/ AttachReplays(p) \/ RelayResize(p) \/ RestResize(p) \/ RecordSize(p)
             \/ Shrink(p) \/ Restore(p) \/ PtyTakes(p) \/ PtyRefuses(p) \/ RelayEnds(p)
      PROVE  ExitSeen'
  BY <1>2 DEF AttachReplays, RelayResize, RestResize, RecordSize, Shrink, Restore, PtyTakes,
              PtyRefuses, RelayEnds, watchVars, Matches
<1>3. CASE Output \/ OutputEnds
  BY <1>3 DEF Output, OutputEnds, watchVars, Matches
<1>4. CASE Monitor \/ MonitorEnds
  BY <1>4 DEF Monitor, MonitorFull, MonitorTick, MonitorResized, MonitorSame, MonitorDiff, MonitorEnds, Matches
<1>5. CASE Waiting
  <2>1. wait.pc # "done" /\ UNCHANGED <<grid, exited>>
    BY <1>5 DEF Waiting, WaitLook, WaitTick, WaitExit
  <2>2. ASSUME NEW result, Return(result), result = "exited" => exited /\ ~Matches(grid.rows)
        PROVE  ExitSeen'
    BY <2>1, <2>2 DEF Return, Matches
  <2>3. ASSUME NEW pc, wait' = [wait EXCEPT !.pc = pc]
        PROVE  ExitSeen'
    BY <2>1, <2>3
  <2> QED
    BY <1>5, <2>2, <2>3 DEF Waiting, WaitLook, WaitTick, WaitExit
<1>6. CASE UNCHANGED screenVars
  BY <1>6 DEF screenVars, watchVars, Matches
<1> QED
  BY <1>1, <1>2, <1>3, <1>4, <1>5, <1>6 DEF ScreenNext, Resizing, Resizers

\* A Wait that reports the end of the process, however many times it looked before, has
\* not missed a match on the final screen, whatever resizes came after (WaitFor).
THEOREM ExitIsNoMatch == ScreenSpec => []ExitMissesNothing
<1>1. ScreenInit => IShape /\ ExitSeen
  <2>1. ScreenInit => ExitSeen
    BY DEF ScreenInit, ExitSeen
  <2> QED
    BY <2>1, ScreenInitInv
<1>2. IShape /\ ExitSeen /\ [ScreenNext]_screenVars => IShape' /\ ExitSeen'
  BY ScreenStepShape, ExitStepInv
<1>3. ExitSeen => ExitMissesNothing
  BY DEF ExitSeen, ExitMissesNothing
<1> QED
  BY <1>1, <1>2, <1>3, PTL DEF ScreenSpec

=============================================================================
