------------------------------ MODULE Channels ------------------------------
(***************************************************************************)
(* One session as a browser page sees it.  The page multiplexes its panes  *)
(* over one WebSocket (utils/multiplexer.ts, session-channel.ts,           *)
(* TerminalPane.vue); the server routes the frames of a connection to      *)
(* logical channels (wsRouter and virtualConn, internal/api/ws_handler.go) *)
(* and each channel attaches to the session.                               *)
(*                                                                         *)
(* The session itself is SessionOwner, the protocol that Session           *)
(* implements; other clients are channels that come and go.  A page that   *)
(* lost its connection opens another one; the server may notice the loss   *)
(* of the first much later.  Only the frames that open, confirm or end a   *)
(* channel are on the wire: input, sizes and output are left out, and the  *)
(* frames of the handshake travel as one.                                  *)
(***************************************************************************)
EXTENDS Naturals, Sequences

CONSTANTS
  Rivals,         \* the channels of other clients of the session
  NoChan,         \* no channel
  AutoReconnect,  \* the server option --reconnect
  MaxLinks,       \* bound: connections the page opens
  MaxAttaches     \* bound: attach frames the page sends

Links == 1..MaxLinks
Own   == 1..MaxAttaches
Chans == Own \cup Rivals

ASSUME ChannelsAssumption ==
  /\ MaxLinks \in Nat \ {0} /\ MaxAttaches \in Nat
  /\ Rivals \cap Own = {} /\ NoChan \notin Chans
  /\ AutoReconnect \in BOOLEAN

VARIABLES
  pane,       \* what the pane of the session shows
  wrapped,    \* the pane holds the wrapper of its channel
  awaiting,   \* multiplexer.attach waits for the connection
  seconds,    \* the page's channel knows a reconnect time
  timer,      \* it has a reconnect timer
  kicked,     \* the page was told it is preempted, and the user has not acted since
  sent,       \* how many attach frames the page sent
  opened,     \* how many connections it opened
  link,       \* each connection: "unused", "open", "lost" (for the page), "closed" (for both)
  up, down,   \* the frames under way on each connection
  chans,      \* wsRouter.chans of each connection: its channel of the session
  chan,       \* each channel: where its goroutine stands, its connection, whom it preempts
  shut,       \* the channels with vc.closed set
  destroyer,  \* the goroutine in Session.Destroy: pc and the channel it closes
  owner, phase, destroyed   \* the session

pageVars   == <<pane, wrapped, awaiting, seconds, timer, kicked>>
wireVars   == <<sent, opened, link, up, down>>
serverVars == <<chans, chan, shut, destroyer>>
ownerVars  == <<owner, phase, destroyed>>
vars == <<pageVars, wireVars, serverVars, ownerVars>>

Owner == INSTANCE SessionOwner WITH Attaches <- Chans, NoOwner <- NoChan

Init ==
  /\ pane = "away"
  /\ wrapped = FALSE /\ awaiting = FALSE /\ seconds = FALSE /\ timer = FALSE /\ kicked = FALSE
  /\ sent = 0 /\ opened = 0
  /\ link = [l \in Links |-> "unused"]
  /\ up = [l \in Links |-> <<>>]
  /\ down = [l \in Links |-> <<>>]
  /\ chans = [l \in Links |-> NoChan]
  /\ chan = [v \in Chans |-> [pc |-> IF v \in Own THEN "new" ELSE "attach", link |-> 0, old |-> NoChan]]
  /\ shut = {}
  /\ destroyer = [pc |-> "none", chan |-> NoChan]
  /\ Owner!Init

-----------------------------------------------------------------------------
(* The page.                                                               *)

IsOpen == opened > 0 /\ link[opened] = "open"

\* Multiplexer.channels has the pane's channel.  A "ghost" is a channel whose
\* pane was closed while multiplexer.attach had not returned its wrapper.
Registered == pane # "away"

Show(what) == pane' = IF pane = "ghost" THEN "ghost" ELSE what

\* Multiplexer.send: nothing is sent without an open connection.
SendAttach ==
  IF IsOpen
    THEN /\ sent < MaxAttaches
         /\ sent' = sent + 1
         /\ up' = [up EXCEPT ![opened] = Append(@, "attach")]
    ELSE UNCHANGED <<sent, up>>

\* Multiplexer.attach for a new pane.
PaneOpens ==
  /\ pane = "away"
  /\ pane' = "joining"
  /\ wrapped' = FALSE /\ seconds' = FALSE
  /\ awaiting' = ~IsOpen
  /\ SendAttach
  /\ UNCHANGED <<timer, kicked, opened, link, down, serverVars, ownerVars>>

\* The connection opens, asked for by this pane or by another one of the
\* page.  Every registered channel attaches; a multiplexer.attach that was
\* waiting for the connection sends its own frame after that.
LinkOpens ==
  LET frames == (IF Registered THEN <<"attach">> ELSE <<>>)
                  \o (IF awaiting THEN <<"attach">> ELSE <<>>)
  IN  /\ ~IsOpen /\ opened < MaxLinks
      /\ sent + Len(frames) <= MaxAttaches
      /\ opened' = opened + 1
      /\ link' = [link EXCEPT ![opened + 1] = "open"]
      /\ up' = [up EXCEPT ![opened + 1] = frames]
      /\ sent' = sent + Len(frames)
      /\ awaiting' = FALSE
      /\ UNCHANGED <<pane, wrapped, seconds, timer, kicked, down, serverVars, ownerVars>>

\* onConnClose of the channel, if it is registered.
Disconnected ==
  IF Registered
    THEN Show("lost") /\ timer' = seconds
    ELSE UNCHANGED <<pane, timer>>

\* The connection breaks for the page; what was on its way down is lost.
LinkLost ==
  /\ IsOpen
  /\ link' = [link EXCEPT ![opened] = "lost"]
  /\ down' = [down EXCEPT ![opened] = <<>>]
  /\ Disconnected
  /\ UNCHANGED <<wrapped, awaiting, seconds, kicked, sent, opened, up, serverVars, ownerVars>>

\* An attempt to connect fails; a waiting attach returns its wrapper.
ConnectFails ==
  /\ ~IsOpen /\ Registered
  /\ awaiting' = FALSE
  /\ wrapped' = (wrapped \/ awaiting)
  /\ Disconnected
  /\ UNCHANGED <<seconds, kicked, wireVars, serverVars, ownerVars>>

\* The button of the dialog.  The page asks for the session first, which is
\* answered at once here; one that is gone would be created anew, which is
\* left to Manager.
Reconnect ==
  /\ pane \in {"lost", "preempted"} /\ wrapped
  /\ ~destroyed
  /\ pane' = "joining"
  /\ kicked' = FALSE /\ timer' = FALSE
  /\ SendAttach
  /\ UNCHANGED <<wrapped, awaiting, seconds, opened, link, down, serverVars, ownerVars>>

\* The same button before attach ever returned: it calls attach again, which
\* returns the wrapper of the registered channel and sends nothing.
AttachAgain ==
  /\ pane = "lost" /\ ~wrapped
  /\ pane' = "joining"
  /\ wrapped' = TRUE
  /\ UNCHANGED <<awaiting, seconds, timer, kicked, wireVars, serverVars, ownerVars>>

TimerFires ==
  /\ timer
  /\ ~destroyed
  /\ timer' = FALSE
  /\ SendAttach
  /\ UNCHANGED <<pane, wrapped, awaiting, seconds, kicked, opened, link, down, serverVars, ownerVars>>

\* The pane is closed.  Before attach has returned there is no wrapper to
\* close: the channel stays, without a pane.
PaneCloses ==
  /\ pane \notin {"away", "ghost"}
  /\ pane' = IF wrapped THEN "away" ELSE "ghost"
  /\ timer' = (timer /\ ~wrapped)
  /\ kicked' = FALSE
  /\ up' = IF wrapped /\ IsOpen THEN [up EXCEPT ![opened] = Append(@, "detach")] ELSE up
  /\ UNCHANGED <<wrapped, awaiting, seconds, sent, opened, link, down, serverVars, ownerVars>>

\* A frame arrives: Multiplexer.dispatch, SessionChannel.handleFrame and the
\* hooks of the pane.
Receive ==
  /\ IsOpen /\ down[opened] # <<>>
  /\ down' = [down EXCEPT ![opened] = Tail(@)]
  /\ LET frame == Head(down[opened])
     IN  IF ~Registered
           THEN UNCHANGED pageVars
           ELSE /\ CASE frame = "ok"        -> Show("on")
                     [] frame = "err"       -> pane' = "away"
                     [] frame = "preempted" -> Show("preempted")
                     [] frame = "destroyed" -> Show("gone")
                     [] OTHER               -> UNCHANGED pane
                /\ wrapped' = (wrapped \/ frame \in {"ok", "err"})
                /\ seconds' = (seconds \/ (frame = "init" /\ AutoReconnect))
                /\ timer' = (timer /\ frame # "err")
                /\ kicked' = (kicked \/ frame = "preempted")
                /\ UNCHANGED awaiting
  /\ UNCHANGED <<sent, opened, link, up, serverVars, ownerVars>>

-----------------------------------------------------------------------------
(* The server's read loop of a connection, which goes on until it notices  *)
(* that the connection is gone.                                            *)

Reply(l, frame) ==
  down' = IF l \in Links /\ link[l] = "open" THEN [down EXCEPT ![l] = Append(@, frame)] ELSE down

Reads(l, frame) ==
  /\ up[l] # <<>> /\ Head(up[l]) = frame
  /\ up' = [up EXCEPT ![l] = Tail(@)]
  /\ UNCHANGED <<pageVars, sent, opened, link, ownerVars, destroyer>>

\* The page's first channel that was not used yet.
Fresh(v) == chan[v].pc = "new" /\ \A w \in 1..(v - 1) : chan[w].pc # "new"

\* Mutant: the attach of a session that is gone is dropped.
ServeAttachUnanswered(l) ==
  /\ Reads(l, "attach")
  /\ IF chans[l] = NoChan /\ destroyed THEN UNCHANGED down ELSE Reply(l, "ok")
  /\ IF chans[l] # NoChan \/ destroyed
       THEN UNCHANGED <<chans, chan>>
       ELSE \E v \in Own :
              /\ Fresh(v)
              /\ chans' = [chans EXCEPT ![l] = v]
              /\ chan' = [chan EXCEPT ![v] = [pc |-> "attach", link |-> l, old |-> NoChan]]
  /\ UNCHANGED shut

\* handleAttach: a repeated attach is confirmed, one for a destroyed session
\* refused, any other one gets a channel and its goroutine.
ServeAttach(l) ==
  /\ Reads(l, "attach")
  /\ IF chans[l] = NoChan /\ destroyed THEN Reply(l, "err") ELSE Reply(l, "ok")
  /\ IF chans[l] # NoChan \/ destroyed
       THEN UNCHANGED <<chans, chan>>
       ELSE \E v \in Own :
              /\ Fresh(v)
              /\ chans' = [chans EXCEPT ![l] = v]
              /\ chan' = [chan EXCEPT ![v] = [pc |-> "attach", link |-> l, old |-> NoChan]]
  /\ UNCHANGED shut

\* Mutant: a connection without the channel is not told apart.
ShutUnchecked(l) == shut' = shut \cup {chans[l]}

Shut(l) == shut' = IF chans[l] # NoChan THEN shut \cup {chans[l]} ELSE shut

\* handleDetach: the channel leaves the table and is closed, without an event.
ServeDetach(l) ==
  /\ Reads(l, "detach")
  /\ chans' = [chans EXCEPT ![l] = NoChan]
  /\ Shut(l)
  /\ UNCHANGED <<down, chan>>

\* Reading fails: closeAll.
ServeClose(l) ==
  /\ link[l] = "lost"
  /\ link' = [link EXCEPT ![l] = "closed"]
  /\ up' = [up EXCEPT ![l] = <<>>]
  /\ chans' = [chans EXCEPT ![l] = NoChan]
  /\ Shut(l)
  /\ UNCHANGED <<pageVars, sent, opened, down, chan, destroyer, ownerVars>>

-----------------------------------------------------------------------------
(* The goroutine of a channel: Session.Attach, and what follows it.         *)

\* Nothing but CloseOld and TellOld asks for the preempted channel.
Goto(v, label) ==
  chan' = [chan EXCEPT ![v] =
             [pc |-> label, link |-> @.link, old |-> IF label = "tellOld" THEN @.old ELSE NoChan]]

\* The takeover under s.mu; the previous client is closed afterwards.
Take(v) ==
  /\ chan[v].pc = "attach"
  /\ Owner!Take(v)
  /\ chan' = [chan EXCEPT ![v] =
               [pc |-> IF owner = NoChan THEN "init" ELSE "closeOld", link |-> @.link, old |-> owner]]
  /\ UNCHANGED <<pageVars, wireVars, chans, shut, destroyer>>

Refused(v) ==
  /\ chan[v].pc = "attach"
  /\ Owner!Refuse(v)
  /\ Goto(v, "drop")
  /\ UNCHANGED <<pageVars, wireVars, chans, shut, destroyer>>

\* CloseWithReason: who finds the channel open closes it and tells its client.
CloseOld(v) ==
  /\ chan[v].pc = "closeOld"
  /\ shut' = shut \cup {chan[v].old}
  /\ IF chan[v].old \in shut THEN Goto(v, "init") ELSE Goto(v, "tellOld")
  /\ UNCHANGED <<pageVars, wireVars, chans, destroyer, ownerVars>>

TellOld(v) ==
  /\ chan[v].pc = "tellOld"
  /\ Reply(chan[chan[v].old].link, "preempted")
  /\ Goto(v, "init")
  /\ UNCHANGED <<pageVars, sent, opened, link, up, chans, shut, destroyer, ownerVars>>

\* The frames of the handshake, replay and replay-done included.
Handshake(v) ==
  /\ chan[v].pc = "init"
  /\ Reply(chan[v].link, "init")
  /\ Goto(v, "live")
  /\ UNCHANGED <<pageVars, sent, opened, link, up, chans, shut, destroyer, ownerVars>>

\* The bridge ends and Attach gives the session back: the channel was closed,
\* the process exited, or the client sent a frame that does not decode.
BridgeEnds(v) ==
  /\ chan[v].pc = "live"
  /\ Owner!Leave(v)
  /\ Goto(v, "drop")
  /\ UNCHANGED <<pageVars, wireVars, chans, shut, destroyer>>

\* Another client detaches or loses its connection.
RivalGoes(v) ==
  /\ v \in Rivals
  /\ chan[v].pc \notin {"drop", "gone"} /\ v \notin shut
  /\ shut' = shut \cup {v}
  /\ UNCHANGED <<pageVars, wireVars, chans, chan, destroyer, ownerVars>>

\* Mutant: whatever channel the table has by now is taken out.
DropAnyChannel(v) ==
  /\ chan[v].pc = "drop"
  /\ chans' = [l \in Links |-> IF l = chan[v].link THEN NoChan ELSE chans[l]]
  /\ shut' = shut \cup {v}
  /\ Goto(v, "gone")
  /\ UNCHANGED <<pageVars, wireVars, destroyer, ownerVars>>

\* Attach returned: the channel leaves the table, if it still is there, and
\* is closed.
Drop(v) ==
  /\ chan[v].pc = "drop"
  /\ chans' = [l \in Links |-> IF chans[l] = v THEN NoChan ELSE chans[l]]
  /\ shut' = shut \cup {v}
  /\ Goto(v, "gone")
  /\ UNCHANGED <<pageVars, wireVars, destroyer, ownerVars>>

-----------------------------------------------------------------------------
(* Session.Destroy, for a DELETE request.                                  *)

Destroy ==
  /\ Owner!Destroy
  /\ destroyer' = [pc |-> IF owner = NoChan THEN "done" ELSE "close", chan |-> owner]
  /\ UNCHANGED <<pageVars, wireVars, chans, chan, shut>>

DestroyClose ==
  /\ destroyer.pc = "close"
  /\ shut' = shut \cup {destroyer.chan}
  /\ destroyer' = [destroyer EXCEPT !.pc = IF destroyer.chan \in shut THEN "done" ELSE "tell"]
  /\ UNCHANGED <<pageVars, wireVars, chans, chan, ownerVars>>

DestroyTell ==
  /\ destroyer.pc = "tell"
  /\ Reply(chan[destroyer.chan].link, "destroyed")
  /\ destroyer' = [destroyer EXCEPT !.pc = "done"]
  /\ UNCHANGED <<pageVars, sent, opened, link, up, chans, chan, shut, ownerVars>>

-----------------------------------------------------------------------------
Page ==
  \/ PaneOpens \/ PaneCloses \/ Reconnect \/ AttachAgain \/ TimerFires
  \/ LinkOpens \/ LinkLost \/ ConnectFails \/ Receive

ReadLoop(l) == ServeAttach(l) \/ ServeDetach(l) \/ ServeClose(l)

Channel(v) ==
  \/ Take(v) \/ Refused(v) \/ CloseOld(v) \/ TellOld(v) \/ Handshake(v)
  \/ BridgeEnds(v) \/ Drop(v)

Next ==
  \/ Page
  \/ \E l \in Links : ReadLoop(l)
  \/ \E v \in Chans : Channel(v) \/ RivalGoes(v)
  \/ Destroy \/ DestroyClose \/ DestroyTell

\* Goroutines that can run do, what is on a connection arrives, and the
\* server notices in the end that a connection is gone.  A bridge need not
\* end while its channel is open.
Fairness ==
  /\ WF_vars(Receive)
  /\ \A l \in Links : WF_vars(ReadLoop(l))
  /\ \A v \in Own : WF_vars((chan[v].pc = "live" => v \in shut) /\ Channel(v))

Spec == Init /\ [][Next]_vars
FairSpec == Spec /\ Fairness

-----------------------------------------------------------------------------
(* Properties.                                                             *)

TypeOK ==
  /\ pane \in {"away", "joining", "on", "lost", "preempted", "gone", "ghost"}
  /\ {wrapped, awaiting, seconds, timer, kicked} \subseteq BOOLEAN
  /\ sent \in 0..MaxAttaches /\ opened \in 0..MaxLinks
  /\ link \in [Links -> {"unused", "open", "lost", "closed"}]
  /\ up \in [Links -> Seq({"attach", "detach"})]
  /\ down \in [Links -> Seq({"ok", "err", "init", "preempted", "destroyed"})]
  /\ chans \in [Links -> Own \cup {NoChan}]
  /\ chan \in [Chans -> [pc : {"new", "attach", "closeOld", "tellOld", "init", "live", "drop", "gone"},
                         link : 0..MaxLinks, old : Chans \cup {NoChan}]]
  /\ shut \subseteq Chans
  /\ destroyer \in [pc : {"none", "close", "tell", "done"}, chan : Chans \cup {NoChan}]
  /\ owner \in Chans \cup {NoChan}

\* Attaching again on one connection is "idempotent (no second bridge)": a
\* channel that serves the session and is not closed is the one in the table,
\* where Detach and closeAll find it, so a connection has at most one.
BridgeIsRegistered ==
  \A v \in Own : chan[v].pc \in {"attach", "closeOld", "tellOld", "init", "live"} /\ v \notin shut =>
    chans[chan[v].link] = v

\* When the connection closes "all attaches return": a connection that is
\* lost gives the session back, whatever was on its way.
LostLinkFrees ==
  \A l \in Links : link[l] = "lost" ~> ~(owner # NoChan /\ chan[owner].link = l)

\* A page that attaches over an open connection is answered, or loses the
\* connection.
AttachIsAnswered == (pane = "joining" /\ IsOpen) ~> (pane # "joining" \/ ~IsOpen)

\* The preempted client shows a dialog "and does not reconnect by itself, so
\* that two clients do not preempt each other for ever": no attach is sent
\* for it until its user acts.
PreemptedStaysAway == [][kicked /\ kicked' => sent' = sent]_vars
=============================================================================
