------------------------------ MODULE Capture ------------------------------
(***************************************************************************)
(* The attached capture (internal/session/capture.go, api/capture_handler  *)
(* .go): a request asks the attached client for a picture of its terminal, *)
(* the client answers in numbered chunks, and the session puts them        *)
(* together for the one waiter it has.  No frame names the request.        *)
(*                                                                         *)
(* A request reads the connection under s.mu and installs its waiter under *)
(* captureMu, two steps; a client may be preempted at any time, and then   *)
(* the frames it already sent are still relayed, or lost.                  *)
(***************************************************************************)
EXTENDS Naturals, Sequences, SequencesExt, Http

CONSTANTS
  Reqs,        \* the capture requests over REST
  Clients,     \* the clients, in the order they attach
  NoOne,
  MaxParts     \* bound: chunks of an answer

ASSUME CaptureAssumption ==
  /\ MaxParts \in Nat \ {0}
  /\ Clients \in Seq({Clients[i] : i \in DOMAIN Clients})
  /\ NoOne \notin Reqs \cup {Clients[i] : i \in DOMAIN Clients}

VARIABLES
  attached,    \* s.conn: the client's place in Clients, 0 = nobody yet
  open,        \* s.conn is there and the session runs
  req,         \* each request: pc, the client it asks, its HTTP status and picture
  waiter,      \* s.captureWaiter
  parts,       \* s.captureChunks
  reply,       \* the waiter's channel, of capacity one
  latest,      \* s.captureLatest
  inbox,       \* the requests each client has to answer
  line,        \* the frames each client sent and the session has not read
  gaveUp       \* some request ended without an answer

captureVars == <<attached, open, req, waiter, parts, reply, latest, inbox, line, gaveUp>>

Fresh == [pc |-> "idle", client |-> 0, status |-> NoStatus, picture |-> <<>>]

CaptureInit ==
  /\ attached = 0 /\ open = FALSE
  /\ req = [r \in Reqs |-> Fresh]
  /\ waiter = NoOne /\ parts = <<>> /\ latest = <<>>
  /\ reply = [r \in Reqs |-> <<>>]
  /\ inbox = [c \in DOMAIN Clients |-> <<>>]
  /\ line = [c \in DOMAIN Clients |-> <<>>]
  /\ gaveUp = FALSE

\* The next client attaches; whoever was attached is preempted.
ClientAttaches ==
  /\ attached < Len(Clients)
  /\ attached' = attached + 1 /\ open' = TRUE
  /\ UNCHANGED <<req, waiter, parts, reply, latest, inbox, line, gaveUp>>

ClientLeaves ==
  /\ open
  /\ open' = FALSE
  /\ UNCHANGED <<attached, req, waiter, parts, reply, latest, inbox, line, gaveUp>>

-----------------------------------------------------------------------------
(* Session.Capture and handleCaptureSession.                                *)

End(r, status) == req' = [req EXCEPT ![r].pc = "done", ![r].status = status]

CaptureChecks(r) ==
  /\ req[r].pc = "idle"
  /\ IF open
     THEN req' = [req EXCEPT ![r].pc = "install", ![r].client = attached]
     ELSE End(r, StatusConflict)
  /\ UNCHANGED <<attached, open, waiter, parts, reply, latest, inbox, line, gaveUp>>

\* Mutant: a request under way is not noticed.
CaptureInstallsAnyway(r) ==
  /\ req[r].pc = "install"
  /\ waiter' = r /\ parts' = <<>> /\ req' = [req EXCEPT ![r].pc = "send"]
  /\ UNCHANGED <<attached, open, reply, latest, inbox, line, gaveUp>>

CaptureInstalls(r) ==
  /\ req[r].pc = "install"
  /\ IF waiter # NoOne
     THEN End(r, StatusTooManyRequests) /\ UNCHANGED <<waiter, parts>>
     ELSE waiter' = r /\ parts' = <<>> /\ req' = [req EXCEPT ![r].pc = "send"]
  /\ UNCHANGED <<attached, open, reply, latest, inbox, line, gaveUp>>

Leave(r, status) == req' = [req EXCEPT ![r].pc = "leave", ![r].status = status]

\* The write on the channel never fails: when its client left, the request is lost.
CaptureSends(r) ==
  /\ req[r].pc = "send"
  /\ inbox' = IF open /\ req[r].client = attached
              THEN [inbox EXCEPT ![attached] = Append(@, r)] ELSE inbox
  /\ req' = [req EXCEPT ![r].pc = "wait"]
  /\ UNCHANGED <<attached, open, waiter, parts, reply, latest, line, gaveUp>>

CaptureAnswered(r) ==
  /\ req[r].pc = "wait" /\ reply[r] # <<>>
  /\ \/ reply[r][1].error /\ Leave(r, StatusBadGateway) /\ UNCHANGED latest
     \/ /\ ~reply[r][1].error
        /\ req' = [req EXCEPT ![r].pc = "leave", ![r].status = StatusOK, ![r].picture = reply[r]]
        /\ latest' = reply[r]
  /\ UNCHANGED <<attached, open, waiter, parts, reply, inbox, line, gaveUp>>

\* The timer, or the end of the HTTP request (no status is written then).
CaptureGivesUp(r) ==
  /\ req[r].pc = "wait"
  /\ \E status \in {StatusGatewayTimeout, NoStatus} : Leave(r, status)
  /\ gaveUp' = TRUE
  /\ UNCHANGED <<attached, open, waiter, parts, reply, latest, inbox, line>>

\* Mutant: the waiter is cleared only after an answer.
CaptureCleansUpAnswered(r) ==
  /\ req[r].pc = "leave"
  /\ waiter' = IF waiter = r /\ req[r].status = StatusOK THEN NoOne ELSE waiter
  /\ parts' = <<>>
  /\ req' = [req EXCEPT ![r].pc = "done"]
  /\ UNCHANGED <<attached, open, reply, latest, inbox, line, gaveUp>>

\* The deferred cleanup.
CaptureCleansUp(r) ==
  /\ req[r].pc = "leave"
  /\ waiter' = IF waiter = r THEN NoOne ELSE waiter
  /\ parts' = <<>>
  /\ req' = [req EXCEPT ![r].pc = "done"]
  /\ UNCHANGED <<attached, open, reply, latest, inbox, line, gaveUp>>

-----------------------------------------------------------------------------
(* The client and the relay of its frames.                                  *)

\* SessionChannel.onCaptureRequest: all chunks of the picture, or an error.
ClientAnswers(c) ==
  /\ inbox[c] # <<>>
  /\ inbox' = [inbox EXCEPT ![c] = Tail(@)]
  /\ \/ \E n \in 1 .. MaxParts :
          line' = [line EXCEPT ![c] = @ \o [i \in 1 .. n |->
                     [of |-> Head(inbox[c]), seq |-> i - 1, total |-> n, error |-> FALSE]]]
     \/ line' = [line EXCEPT ![c] = Append(@,
                     [of |-> Head(inbox[c]), seq |-> 0, total |-> 0, error |-> TRUE])]
  /\ UNCHANGED <<attached, open, req, waiter, parts, reply, latest, gaveUp>>

\* A send on a channel of capacity one that never blocks.
Offer(content) ==
  reply' = IF reply[waiter] = <<>> THEN [reply EXCEPT ![waiter] = content] ELSE reply

\* Mutant: chunks are not counted.
ResolveUncounted(f) ==
  LET all == Append(parts, f) IN
    \/ waiter = NoOne /\ UNCHANGED <<parts, reply>>
    \/ waiter # NoOne /\ f.error /\ parts' = <<>> /\ Offer(<<f>>)
    \/ /\ waiter # NoOne /\ ~f.error
       /\ IF f.seq + 1 < f.total THEN parts' = all /\ UNCHANGED reply
                                 ELSE parts' = <<>> /\ Offer(all)

\* resolveCapture.
Resolve(f) ==
  LET all == Append(parts, f) IN
    \/ waiter = NoOne /\ UNCHANGED <<parts, reply>>
    \/ waiter # NoOne /\ f.error /\ parts' = <<>> /\ Offer(<<f>>)
    \/ waiter # NoOne /\ ~f.error /\ f.seq # Len(parts) /\ parts' = <<>> /\ UNCHANGED reply
    \/ /\ waiter # NoOne /\ ~f.error /\ f.seq = Len(parts)
       /\ IF Len(all) < f.total THEN parts' = all /\ UNCHANGED reply
                                ELSE parts' = <<>> /\ Offer(all)

\* masterToSlave; a closed connection may hand out what it has queued.
RelayAnswer(c) ==
  /\ line[c] # <<>>
  /\ Resolve(Head(line[c]))
  /\ line' = [line EXCEPT ![c] = Tail(@)]
  /\ UNCHANGED <<attached, open, req, waiter, latest, inbox, gaveUp>>

\* A closed connection: what is queued is lost.
RelayStops(c) ==
  /\ c < attached \/ ~open
  /\ line[c] # <<>> \/ inbox[c] # <<>>
  /\ line' = [line EXCEPT ![c] = <<>>] /\ inbox' = [inbox EXCEPT ![c] = <<>>]
  /\ UNCHANGED <<attached, open, req, waiter, parts, reply, latest, gaveUp>>

Capturing(r) ==
  \/ CaptureChecks(r) \/ CaptureInstalls(r) \/ CaptureSends(r) \/ CaptureAnswered(r)
  \/ CaptureGivesUp(r) \/ CaptureCleansUp(r)

CaptureNext ==
  \/ ClientAttaches \/ ClientLeaves
  \/ \E r \in Reqs : Capturing(r)
  \/ \E c \in DOMAIN Clients : ClientAnswers(c) \/ RelayAnswer(c) \/ RelayStops(c)

CaptureSpec == CaptureInit /\ [][CaptureNext]_captureVars

-----------------------------------------------------------------------------
(* Properties.                                                              *)

WholePicture(picture) ==
  /\ \A i \in DOMAIN picture : picture[i].of = picture[1].of /\ picture[i].seq = i - 1
  /\ Len(picture) = picture[1].total

\* A picture that is returned or kept as the latest is one whole answer, whatever was
\* late, lost or interrupted, as long as the frames of one client only are relayed.
PictureIsWhole ==
  attached <= 1 => \A p \in {latest} \cup {req[r].picture : r \in Reqs} : p # <<>> => WholePicture(p)

\* The picture answers the request that returns it, unless an earlier request gave up
\* and its answer came late: the frames name no request.
PictureIsOwn ==
  ~gaveUp => \A r \in Reqs : req[r].picture # <<>> => req[r].picture[1].of = r

\* Requests that are over, however they ended, leave no waiter: the next request is not
\* told that a capture is under way.
WaiterIsReleased ==
  waiter # NoOne => req[waiter].pc \in {"send", "wait", "leave"}
=============================================================================
