---------------------------- MODULE RequestProofs ----------------------------
(***************************************************************************)
(* Proofs about what is asked over REST, for any requests and clients: an  *)
(* attached capture has one waiter and returns its own and whole picture;  *)
(* an answer to an agent tells what became of the bytes, the agent's mouse *)
(* is the program's, a bare up releases what is held.                      *)
(***************************************************************************)
EXTENDS Capture, Agent, FiniteSetTheorems, SequenceTheorems, TLAPS

-----------------------------------------------------------------------------
(* Capture.                                                                 *)

Waiting == {"send", "wait", "leave"}

\* Every request is a record like a fresh one.
ReqRecords ==
  /\ DOMAIN req = Reqs
  /\ \A r \in Reqs : DOMAIN req[r] = {"pc", "client", "status", "picture"}

\* The requests past their installation and before their cleanup are the waiter, and
\* there is one of them at most.
OneWaiter ==
  /\ ReqRecords
  /\ waiter \in Reqs \cup {NoOne}
  /\ \A r \in Reqs : req[r].pc \in Waiting <=> waiter = r

-----------------------------------------------------------------------------
\* Only CaptureInstalls makes a request the waiter, and only its own cleanup ends that.
LEMMA CaptureStepInv == OneWaiter /\ [CaptureNext]_captureVars => OneWaiter'
<1> SUFFICES ASSUME OneWaiter, [CaptureNext]_captureVars PROVE OneWaiter'
  OBVIOUS
<1>0. NoOne \notin Reqs
  BY CaptureAssumption DEF CaptureAssumption
<1> USE <1>0 DEF OneWaiter, ReqRecords, Waiting
<1>1. ASSUME NEW r \in Reqs, CaptureChecks(r) PROVE OneWaiter'
  BY <1>1 DEF CaptureChecks, End
<1>2. ASSUME NEW r \in Reqs, CaptureInstalls(r) PROVE OneWaiter'
  BY <1>2 DEF CaptureInstalls, End
<1>3. ASSUME NEW r \in Reqs, CaptureSends(r) PROVE OneWaiter'
  BY <1>3 DEF CaptureSends, Leave
<1>4. ASSUME NEW r \in Reqs, CaptureAnswered(r) PROVE OneWaiter'
  BY <1>4 DEF CaptureAnswered, Leave
<1>5. ASSUME NEW r \in Reqs, CaptureGivesUp(r) PROVE OneWaiter'
  BY <1>5 DEF CaptureGivesUp, Leave
<1>6. ASSUME NEW r \in Reqs, CaptureCleansUp(r) PROVE OneWaiter'
  BY <1>6 DEF CaptureCleansUp
<1>7. CASE UNCHANGED <<req, waiter>>
  BY <1>7
<1>8. ASSUME NEW c, ClientAnswers(c) \/ RelayAnswer(c) \/ RelayStops(c) PROVE UNCHANGED <<req, waiter>>
  BY <1>8 DEF ClientAnswers, RelayAnswer, RelayStops
<1>9. ASSUME ClientAttaches \/ ClientLeaves \/ UNCHANGED captureVars PROVE UNCHANGED <<req, waiter>>
  BY <1>9 DEF ClientAttaches, ClientLeaves, captureVars
<1> QED
  BY <1>1, <1>2, <1>3, <1>4, <1>5, <1>6, <1>7, <1>8, <1>9 DEF CaptureNext, Capturing

\* Whatever requests there are and however they end, the waiter is one that is still under
\* way, so a request that comes later is not refused for one that is over (Capture's
\* deferred cleanup in session/capture.go).
THEOREM WaiterNeverStale == CaptureSpec => []WaiterIsReleased
<1>1. CaptureInit => OneWaiter
  BY CaptureAssumption DEF CaptureInit, Fresh, OneWaiter, ReqRecords, Waiting, CaptureAssumption
<1>2. OneWaiter /\ [CaptureNext]_captureVars => OneWaiter'
  BY CaptureStepInv
<1>3. OneWaiter => WaiterIsReleased
  BY DEF OneWaiter, WaiterIsReleased, Waiting
<1> QED
  BY <1>1, <1>2, <1>3, PTL DEF CaptureSpec

-----------------------------------------------------------------------------
(* The frames of the answers.                                               *)

Frame == [of : Reqs, seq : Nat, total : Nat, error : BOOLEAN]

Places  == 0 .. Len(Clients)
Request == [pc : {"idle", "install", "send", "wait", "leave", "done"}, client : Places,
            status : Nat, picture : Seq(Frame)]

CaptureTyped ==
  /\ attached \in Places
  /\ open \in BOOLEAN /\ (open => attached > 0)
  /\ req \in [Reqs -> Request]
  /\ parts \in Seq(Frame) /\ latest \in Seq(Frame)
  /\ reply \in [Reqs -> Seq(Frame)]
  /\ inbox \in [DOMAIN Clients -> Seq(Reqs)]
  /\ line \in [DOMAIN Clients -> Seq(Frame)]
  /\ gaveUp \in BOOLEAN

\* g may only come right after f: the next chunk of the same answer.
Continues(f, g) == ~f.error /\ ~g.error /\ g.of = f.of /\ g.seq = f.seq + 1 /\ g.total = f.total

\* The last frame of an answer.
Final(f) == f.error \/ f.seq + 1 = f.total

\* What a client sent is a row of whole answers, of which the session may have read the
\* beginning of the first.
Chained(s) ==
  /\ \A i \in DOMAIN s : ~s[i].error => s[i].seq < s[i].total
  /\ \A i \in DOMAIN s \ {Len(s)} : Final(s[i]) \/ Continues(s[i], s[i + 1])
  /\ s # <<>> => Final(s[Len(s)])

Assembled(s) ==
  \A i \in DOMAIN s : ~s[i].error /\ s[i].of = s[1].of /\ s[i].seq = i - 1 /\ s[i].total = s[1].total

\* Clients that are still to come have sent nothing.
LinesChained ==
  /\ \A c \in DOMAIN Clients : Chained(line[c])
  /\ \A c \in DOMAIN Clients : c > attached => line[c] = <<>> /\ inbox[c] = <<>>
  /\ waiter = NoOne => parts = <<>>

\* With one client so far, the next chunk of a picture under way is the next frame to be
\* read, unless the connection is gone.
OneLine ==
  attached <= 1 =>
    /\ parts # <<>> =>
         /\ Assembled(parts) /\ Len(parts) < parts[1].total
         /\ attached = 1
         /\ IF line[1] = <<>> THEN ~open /\ inbox[1] = <<>>
                              ELSE Continues(parts[Len(parts)], line[1][1])
    /\ \A r \in Reqs : reply[r] # <<>> /\ ~reply[r][1].error => WholePicture(reply[r])
    /\ \A r \in Reqs : req[r].picture # <<>> => WholePicture(req[r].picture)
    /\ latest # <<>> => WholePicture(latest)

IWhole == CaptureTyped /\ OneWaiter /\ LinesChained /\ OneLine

\* Nothing is on its way to or from a client.
Silent == \A c \in DOMAIN Clients : inbox[c] = <<>> /\ line[c] = <<>>

\* The frames s are what r's answer still lacks when the chunks p of it were read.
RestOf(s, p, r) ==
  \A i \in DOMAIN s :
    /\ s[i].of = r
    /\ IF s[i].error THEN Len(s) = 1 /\ p = <<>>
                     ELSE s[i].seq = Len(p) + i - 1 /\ s[i].total = Len(p) + Len(s)

Unanswered == waiter \in Reqs /\ req[waiter].pc = "wait" /\ reply[waiter] = <<>>

\* While no request gave up, whatever is under way is the question of the waiter to one
\* client, or the one answer to it.
OneQuestion ==
  ~gaveUp =>
    /\ \A c \in DOMAIN Clients :
         inbox[c] # <<>> => /\ Unanswered /\ inbox[c] = <<waiter>> /\ parts = <<>>
                           /\ \A d \in DOMAIN Clients : line[d] = <<>> /\ (d # c => inbox[d] = <<>>)
    /\ \A c \in DOMAIN Clients :
         line[c] # <<>> => /\ Unanswered /\ RestOf(line[c], parts, waiter)
                          /\ \A d \in DOMAIN Clients : inbox[d] = <<>> /\ (d # c => line[d] = <<>>)
    /\ parts # <<>> => Unanswered /\ \A i \in DOMAIN parts : parts[i].of = waiter
    /\ \A r \in Reqs : req[r].pc \in {"idle", "install", "send"} => reply[r] = <<>>
    /\ \A r \in Reqs : reply[r] # <<>> => reply[r][1].of = r
    /\ \A r \in Reqs : req[r].picture # <<>> => req[r].picture[1].of = r

IOwn == CaptureTyped /\ OneWaiter /\ OneQuestion

\* An answer of a client: all chunks of a picture, or one error (onCaptureRequest).
LEMMA AnswerSent ==
  ASSUME CaptureTyped, NEW c \in DOMAIN Clients, ClientAnswers(c)
  PROVE  \E a \in Seq(Frame) :
           /\ a # <<>> /\ Chained(a) /\ RestOf(a, <<>>, Head(inbox[c]))
           /\ line' = [line EXCEPT ![c] = line[c] \o a]
<1> DEFINE r == Head(inbox[c])
<1>1. r \in Reqs
  BY DEF CaptureTyped, ClientAnswers
<1>2. ASSUME NEW n \in 1 .. MaxParts,
             line' = [line EXCEPT ![c] = @ \o [i \in 1 .. n |->
                        [of |-> r, seq |-> i - 1, total |-> n, error |-> FALSE]]]
      PROVE  \E a \in Seq(Frame) : /\ a # <<>> /\ Chained(a) /\ RestOf(a, <<>>, r)
                                   /\ line' = [line EXCEPT ![c] = line[c] \o a]
  <2> DEFINE a == [i \in 1 .. n |-> [of |-> r, seq |-> i - 1, total |-> n, error |-> FALSE]]
  <2>0. n \in Nat /\ n > 0
    BY CaptureAssumption DEF CaptureAssumption
  <2>1. a \in Seq(Frame) /\ Len(a) = n /\ a # <<>>
    <3>1. \A i \in 1 .. n : [of |-> r, seq |-> i - 1, total |-> n, error |-> FALSE] \in Frame
      BY <1>1, <2>0 DEF Frame
    <3>2. a \in [1 .. n -> Frame]
      BY <3>1
    <3>3. a \in Seq(Frame) /\ Len(a) = n
      BY <3>2, <2>0
    <3> QED
      BY <3>3, <2>0
  <2>2. Chained(a)
    BY <2>0, <2>1 DEF Chained, Final, Continues
  <2>3. RestOf(a, <<>>, r)
    BY <2>0, <2>1 DEF RestOf
  <2>4. line' = [line EXCEPT ![c] = line[c] \o a]
    BY <1>2
  <2> QED
    BY <2>1, <2>2, <2>3, <2>4
<1>3. ASSUME line' = [line EXCEPT ![c] = Append(@, [of |-> r, seq |-> 0, total |-> 0, error |-> TRUE])]
      PROVE  \E a \in Seq(Frame) : /\ a # <<>> /\ Chained(a) /\ RestOf(a, <<>>, r)
                                   /\ line' = [line EXCEPT ![c] = line[c] \o a]
  <2> DEFINE e == [of |-> r, seq |-> 0, total |-> 0, error |-> TRUE]
  <2>1. e \in Frame /\ e.error /\ e.of = r
    BY <1>1 DEF Frame
  <2> HIDE DEF e
  <2>2. <<e>> \in Seq(Frame) /\ <<e>> # <<>> /\ Len(<<e>>) = 1 /\ <<e>>[1] = e
    BY <2>1
  <2>3. Append(line[c], e) = line[c] \o <<e>>
    <3>1. line[c] \in Seq(Frame)
      BY DEF CaptureTyped
    <3> QED
      BY <2>1, <3>1, AppendIsConcat
  <2>4. Chained(<<e>>)
    BY <2>1, <2>2 DEF Chained, Final
  <2>5. RestOf(<<e>>, <<>>, r)
    BY <2>1, <2>2 DEF RestOf
  <2>6. line' = [line EXCEPT ![c] = line[c] \o <<e>>]
    BY <1>3, <2>3 DEF e
  <2> QED
    BY <2>2, <2>4, <2>5, <2>6
<1> QED
  BY <1>2, <1>3 DEF ClientAnswers

LEMMA ChainedTail ==
  ASSUME NEW s \in Seq(Frame), s # <<>>, Chained(s)
  PROVE  Chained(Tail(s))
<1>1. Tail(s) \in Seq(Frame) /\ Len(Tail(s)) = Len(s) - 1
  OBVIOUS
<1>2. \A i \in 1 .. Len(s) - 1 : Tail(s)[i] = s[i + 1]
  OBVIOUS
<1>3. \A i \in DOMAIN Tail(s) : i + 1 \in DOMAIN s /\ Tail(s)[i] = s[i + 1]
  BY <1>1, <1>2
<1>4. \A i \in DOMAIN Tail(s) \ {Len(Tail(s))} : i + 1 \in DOMAIN s \ {Len(s)} /\ i + 1 \in DOMAIN Tail(s)
  BY <1>1
<1>5. \A i \in DOMAIN Tail(s) \ {Len(Tail(s))} : Final(Tail(s)[i]) \/ Continues(Tail(s)[i], Tail(s)[i + 1])
  BY <1>3, <1>4 DEF Chained
<1>6. Tail(s) # <<>> => Len(Tail(s)) \in DOMAIN Tail(s) /\ Tail(s)[Len(Tail(s))] = s[Len(s)]
  BY <1>1, <1>3
<1> QED
  BY <1>3, <1>5, <1>6 DEF Chained

LEMMA SecondIsNext ==
  ASSUME NEW s \in Seq(Frame), s # <<>>, Len(s) # 1
  PROVE  Tail(s) # <<>> /\ Tail(s)[1] = s[2]
<1>1. Len(s) \in Nat /\ Len(s) > 1
  <2>1. Len(s) \in Nat \ {0}
    BY EmptySeq, Zenon
  <2>2. \A n \in Nat \ {0} : n # 1 => n > 1
    OBVIOUS
  <2> QED
    BY <2>1, <2>2, Zenon
<1>2. Tail(s) \in Seq(Frame) /\ Len(Tail(s)) = Len(s) - 1
  OBVIOUS
<1>3. 1 \in 1 .. Len(s) - 1
  BY <1>1
<1>4. Tail(s)[1] = s[1 + 1]
  BY <1>3, HeadTailProperties
<1> QED
  BY <1>1, <1>2, <1>4

LEMMA ChainedConcat ==
  ASSUME NEW s \in Seq(Frame), NEW a \in Seq(Frame), a # <<>>, Chained(s), Chained(a)
  PROVE  Chained(s \o a)
<1> DEFINE t == s \o a
<1>1. t \in Seq(Frame) /\ Len(t) = Len(s) + Len(a)
  OBVIOUS
<1>2. \A i \in 1 .. Len(t) : t[i] = IF i <= Len(s) THEN s[i] ELSE a[i - Len(s)]
  OBVIOUS
<1> HIDE DEF t
<1>3. \A i \in DOMAIN t : ~t[i].error => t[i].seq < t[i].total
  BY <1>1, <1>2 DEF Chained
<1>4. t # <<>> => Final(t[Len(t)])
  BY <1>1, <1>2 DEF Chained
<1>5. ASSUME NEW i \in DOMAIN t \ {Len(t)} PROVE Final(t[i]) \/ Continues(t[i], t[i + 1])
  <2>1. CASE i < Len(s)
    <3>1. i \in DOMAIN s \ {Len(s)} /\ t[i] = s[i] /\ t[i + 1] = s[i + 1]
      BY <2>1, <1>1, <1>2
    <3> QED
      BY <3>1 DEF Chained
  <2>2. CASE i = Len(s)
    <3>1. s # <<>> /\ t[i] = s[Len(s)]
      BY <2>2, <1>1, <1>2
    <3> QED
      BY <3>1 DEF Chained
  <2>3. CASE i > Len(s)
    <3> DEFINE j == i - Len(s)
    <3>1. j \in DOMAIN a \ {Len(a)} /\ t[i] = a[j] /\ t[i + 1] = a[j + 1]
      BY <2>3, <1>1, <1>2
    <3> HIDE DEF j
    <3> QED
      BY <3>1 DEF Chained
  <2> QED
    BY <1>1, <2>1, <2>2, <2>3
<1> QED
  BY <1>3, <1>4, <1>5 DEF Chained, t

-----------------------------------------------------------------------------
\* No status is anything but a number.
LEMMA StatusTypes ==
  /\ StatusOK \in Nat /\ StatusConflict \in Nat /\ StatusTooManyRequests \in Nat
  /\ StatusBadGateway \in Nat /\ StatusGatewayTimeout \in Nat /\ NoStatus \in Nat
BY DEF StatusOK, StatusConflict, StatusTooManyRequests, StatusBadGateway, StatusGatewayTimeout, NoStatus

\* A request that ends is a request still.
LEMMA RequestsEnd ==
  ASSUME CaptureTyped, NEW r \in Reqs, NEW status \in Nat, End(r, status) \/ Leave(r, status)
  PROVE  req' \in [Reqs -> Request]
<1>1. CASE End(r, status)
  BY <1>1 DEF CaptureTyped, End, Request
<1>2. CASE Leave(r, status)
  BY <1>2 DEF CaptureTyped, Leave, Request
<1> QED
  BY <1>1, <1>2

\* Requests, frames and pictures keep their types.
LEMMA CaptureTypedStep == CaptureTyped /\ OneWaiter /\ [CaptureNext]_captureVars => CaptureTyped'
<1> SUFFICES ASSUME CaptureTyped, OneWaiter, [CaptureNext]_captureVars PROVE CaptureTyped'
  OBVIOUS
<1>c. Len(Clients) \in Nat /\ DOMAIN Clients = 1 .. Len(Clients)
  BY CaptureAssumption DEF CaptureAssumption
<1>q. ASSUME req' \in [Reqs -> Request], parts' \in Seq(Frame), latest' \in Seq(Frame), gaveUp' \in BOOLEAN,
             UNCHANGED <<attached, open, reply, line>>, inbox' \in [DOMAIN Clients -> Seq(Reqs)]
      PROVE  CaptureTyped'
  BY <1>q DEF CaptureTyped
<1>1. ASSUME NEW r \in Reqs, CaptureChecks(r) PROVE CaptureTyped'
  <2>1. req' \in [Reqs -> Request]
    <3>1. CASE End(r, StatusConflict)
      BY <3>1, RequestsEnd, StatusTypes
    <3>2. CASE req' = [req EXCEPT ![r].pc = "install", ![r].client = attached]
      BY <3>2 DEF CaptureTyped, Request
    <3> QED
      BY <1>1, <3>1, <3>2 DEF CaptureChecks
  <2> QED
    BY <1>1, <1>q, <2>1 DEF CaptureTyped, CaptureChecks
<1>2. ASSUME NEW r \in Reqs, CaptureInstalls(r) PROVE CaptureTyped'
  <2>1. req' \in [Reqs -> Request]
    <3>1. CASE End(r, StatusTooManyRequests)
      BY <3>1, RequestsEnd, StatusTypes
    <3>2. CASE req' = [req EXCEPT ![r].pc = "send"]
      BY <3>2 DEF CaptureTyped, Request
    <3> QED
      BY <1>2, <3>1, <3>2 DEF CaptureInstalls
  <2>2. parts' = parts \/ parts' = <<>>
    BY <1>2 DEF CaptureInstalls
  <2>3. parts' \in Seq(Frame)
    <3>1. parts \in Seq(Frame) /\ <<>> \in Seq(Frame)
      BY DEF CaptureTyped
    <3> QED
      BY <2>2, <3>1
  <2> QED
    BY <1>2, <1>q, <2>1, <2>3 DEF CaptureTyped, CaptureInstalls
<1>3. ASSUME NEW r \in Reqs, CaptureSends(r) PROVE CaptureTyped'
  <2>1. req' \in [Reqs -> Request]
    <3>1. CASE Leave(r, StatusBadGateway)
      BY <3>1, RequestsEnd, StatusTypes
    <3>2. CASE req' = [req EXCEPT ![r].pc = "wait"]
      BY <3>2 DEF CaptureTyped, Request
    <3> QED
      BY <1>3, <3>1, <3>2 DEF CaptureSends
  <2>2. ASSUME open PROVE attached \in DOMAIN Clients
    BY <2>2, <1>c DEF CaptureTyped, Places
  <2>3. ASSUME open PROVE Append(inbox[attached], r) \in Seq(Reqs)
    BY <2>2, <2>3 DEF CaptureTyped
  <2>4. inbox' \in [DOMAIN Clients -> Seq(Reqs)]
    BY <1>3, <2>3 DEF CaptureTyped, CaptureSends
  <2> QED
    BY <1>3, <1>q, <2>1, <2>4 DEF CaptureTyped, CaptureSends
<1>4. ASSUME NEW r \in Reqs, CaptureAnswered(r) PROVE CaptureTyped'
  <2>1. req' \in [Reqs -> Request] /\ latest' \in Seq(Frame)
    <3>1. CASE Leave(r, StatusBadGateway) /\ UNCHANGED latest
      BY <3>1, RequestsEnd, StatusTypes DEF CaptureTyped
    <3>2. ASSUME NEW status \in Nat, latest' = reply[r],
                 req' = [req EXCEPT ![r].pc = "leave", ![r].status = status, ![r].picture = reply[r]]
          PROVE  req' \in [Reqs -> Request] /\ latest' \in Seq(Frame)
      BY <3>2 DEF CaptureTyped, Request
    <3> QED
      BY <1>4, <3>1, <3>2, StatusTypes DEF CaptureAnswered
  <2> QED
    BY <1>4, <1>q, <2>1 DEF CaptureTyped, CaptureAnswered
<1>5. ASSUME NEW r \in Reqs, CaptureGivesUp(r) PROVE CaptureTyped'
  <2>1. req' \in [Reqs -> Request]
    BY <1>5, RequestsEnd, StatusTypes DEF CaptureGivesUp
  <2> QED
    BY <1>5, <1>q, <2>1 DEF CaptureTyped, CaptureGivesUp
<1>6. ASSUME NEW r \in Reqs, CaptureCleansUp(r) PROVE CaptureTyped'
  <2>1. req' \in [Reqs -> Request]
    BY <1>6 DEF CaptureTyped, CaptureCleansUp, Request
  <2> QED
    BY <1>6, <1>q, <2>1 DEF CaptureTyped, CaptureCleansUp
<1>7. ASSUME NEW c \in DOMAIN Clients, ClientAnswers(c) PROVE CaptureTyped'
  <2>1. PICK a \in Seq(Frame) : line' = [line EXCEPT ![c] = line[c] \o a]
    BY <1>7, AnswerSent
  <2>2. line[c] \o a \in Seq(Frame) /\ Tail(inbox[c]) \in Seq(Reqs)
    BY <1>7 DEF CaptureTyped, ClientAnswers
  <2> QED
    BY <1>7, <2>1, <2>2 DEF CaptureTyped, ClientAnswers
<1>8. ASSUME NEW c \in DOMAIN Clients, RelayAnswer(c) PROVE CaptureTyped'
  <2> DEFINE f == Head(line[c])
  <2>1. Tail(line[c]) \in Seq(Frame) /\ f \in Frame
    BY <1>8 DEF CaptureTyped, RelayAnswer
  <2> HIDE DEF f
  <2>2. Append(parts, f) \in Seq(Frame) /\ <<f>> \in Seq(Frame)
    BY <2>1 DEF CaptureTyped
  <2>3. ASSUME NEW content \in Seq(Frame), Offer(content), waiter # NoOne
        PROVE  reply' \in [Reqs -> Seq(Frame)]
    BY <2>3 DEF Offer, CaptureTyped, OneWaiter
  <2>4. parts' \in Seq(Frame) /\ reply' \in [Reqs -> Seq(Frame)]
    <3>1. Resolve(f)
      BY <1>8 DEF RelayAnswer, f
    <3> QED
      <4>1. parts' \in Seq(Frame)
        <5>1. parts' = parts \/ parts' = <<>> \/ parts' = Append(parts, f)
          BY <3>1, Zenon DEF Resolve
        <5>2. parts \in Seq(Frame) /\ <<>> \in Seq(Frame)
          BY DEF CaptureTyped
        <5> QED
          BY <5>1, <5>2, <2>2
      <4>2. UNCHANGED reply \/ (waiter # NoOne /\ \E content \in Seq(Frame) : Offer(content))
        BY <3>1, <2>2 DEF Resolve
      <4> QED
        BY <4>1, <4>2, <2>3 DEF CaptureTyped
  <2> QED
    BY <1>8, <2>1, <2>4 DEF CaptureTyped, RelayAnswer
<1>9. ASSUME NEW c \in DOMAIN Clients, RelayStops(c) PROVE CaptureTyped'
  <2>1. line' \in [DOMAIN Clients -> Seq(Frame)] /\ inbox' \in [DOMAIN Clients -> Seq(Reqs)]
    BY <1>9 DEF CaptureTyped, RelayStops
  <2> QED
    BY <1>9, <2>1 DEF CaptureTyped, RelayStops
<1>10. CASE ClientAttaches
  <2>1. attached' \in Places /\ attached' > 0
    BY <1>10, <1>c DEF CaptureTyped, ClientAttaches, Places
  <2> QED
    BY <1>10, <2>1 DEF CaptureTyped, ClientAttaches
<1>11. CASE ClientLeaves
  BY <1>11 DEF CaptureTyped, ClientLeaves
<1>12. CASE UNCHANGED captureVars
  BY <1>12 DEF CaptureTyped, captureVars
<1> QED
  BY <1>1, <1>2, <1>3, <1>4, <1>5, <1>6, <1>7, <1>8, <1>9, <1>10, <1>11, <1>12 DEF CaptureNext, Capturing

\* Clients that are still to come have sent nothing, the others whole answers.
LEMMA LinesChainedStep ==
  CaptureTyped /\ OneWaiter /\ LinesChained /\ [CaptureNext]_captureVars => LinesChained'
<1> SUFFICES ASSUME CaptureTyped, OneWaiter, LinesChained, [CaptureNext]_captureVars PROVE LinesChained'
  OBVIOUS
<1>c. Len(Clients) \in Nat /\ DOMAIN Clients = 1 .. Len(Clients) /\ attached \in Nat /\ NoOne \notin Reqs
  BY CaptureAssumption DEF CaptureAssumption, CaptureTyped, Places
<1>1. ASSUME NEW r \in Reqs, CaptureChecks(r) \/ CaptureAnswered(r) \/ CaptureGivesUp(r) PROVE LinesChained'
  BY <1>1 DEF LinesChained, CaptureChecks, CaptureAnswered, CaptureGivesUp
<1>2. ASSUME NEW r \in Reqs, CaptureInstalls(r) PROVE LinesChained'
  BY <1>2, <1>c DEF LinesChained, CaptureInstalls
<1>3. ASSUME NEW r \in Reqs, CaptureSends(r) PROVE LinesChained'
  <2>1. \A c \in DOMAIN Clients : c > attached => inbox'[c] = inbox[c]
    BY <1>3, <1>c DEF CaptureSends, CaptureTyped
  <2> QED
    BY <1>3, <2>1 DEF LinesChained, CaptureSends
<1>4. ASSUME NEW r \in Reqs, CaptureCleansUp(r) PROVE LinesChained'
  BY <1>4 DEF LinesChained, CaptureCleansUp
<1>5. ASSUME NEW c \in DOMAIN Clients, ClientAnswers(c) PROVE LinesChained'
  <2>1. PICK a \in Seq(Frame) : a # <<>> /\ Chained(a) /\ line' = [line EXCEPT ![c] = line[c] \o a]
    BY <1>5, AnswerSent
  <2>2. Chained(line[c] \o a) /\ line[c] \in Seq(Frame) /\ c <= attached
    BY <1>5, <2>1, <1>c, ChainedConcat DEF LinesChained, ClientAnswers, CaptureTyped
  <2> QED
    BY <1>5, <1>c, <2>1, <2>2 DEF LinesChained, ClientAnswers, CaptureTyped
<1>6. ASSUME NEW c \in DOMAIN Clients, RelayAnswer(c) PROVE LinesChained'
  <2>1. Chained(Tail(line[c])) /\ c <= attached
    BY <1>6, <1>c, ChainedTail DEF LinesChained, RelayAnswer, CaptureTyped
  <2>2. waiter = NoOne => parts' = <<>>
    BY <1>6 DEF LinesChained, RelayAnswer, Resolve
  <2> QED
    BY <1>6, <1>c, <2>1, <2>2 DEF LinesChained, RelayAnswer, CaptureTyped
<1>7. ASSUME NEW c \in DOMAIN Clients, RelayStops(c) PROVE LinesChained'
  <2>1. Chained(<<>>)
    BY DEF Chained
  <2> QED
    BY <1>7, <2>1 DEF LinesChained, RelayStops, CaptureTyped
<1>8. CASE ClientAttaches \/ ClientLeaves
  BY <1>8, <1>c DEF LinesChained, ClientAttaches, ClientLeaves
<1>9. CASE UNCHANGED captureVars
  BY <1>9 DEF LinesChained, captureVars
<1> QED
  BY <1>1, <1>2, <1>3, <1>4, <1>5, <1>6, <1>7, <1>8, <1>9 DEF CaptureNext, Capturing

-----------------------------------------------------------------------------
(* Whole pictures.                                                          *)

\* Only an answer changes the picture of a request.
LEMMA PicturesKept ==
  ASSUME CaptureTyped, NEW r \in Reqs, NEW pc, NEW status, NEW client,
         \/ req' = [req EXCEPT ![r].pc = pc]
         \/ req' = [req EXCEPT ![r].pc = pc, ![r].status = status]
         \/ req' = [req EXCEPT ![r].pc = pc, ![r].client = client]
  PROVE  \A q \in Reqs : req'[q].picture = req[q].picture
<1>1. CASE req' = [req EXCEPT ![r].pc = pc]
  BY <1>1 DEF CaptureTyped, Request
<1>2. CASE req' = [req EXCEPT ![r].pc = pc, ![r].status = status]
  BY <1>2 DEF CaptureTyped, Request
<1>3. CASE req' = [req EXCEPT ![r].pc = pc, ![r].client = client]
  BY <1>3 DEF CaptureTyped, Request
<1> QED
  BY <1>1, <1>2, <1>3

LEMMA StepKeepsPictures ==
  ASSUME CaptureTyped, NEW r \in Reqs,
         \/ CaptureChecks(r) \/ CaptureInstalls(r) \/ CaptureSends(r) \/ CaptureGivesUp(r)
         \/ CaptureCleansUp(r) \/ Leave(r, StatusBadGateway)
  PROVE  \A q \in Reqs : req'[q].picture = req[q].picture
<1>1. \/ UNCHANGED req
      \/ \E pc, status, client : \/ req' = [req EXCEPT ![r].pc = pc]
                                \/ req' = [req EXCEPT ![r].pc = pc, ![r].status = status]
                                \/ req' = [req EXCEPT ![r].pc = pc, ![r].client = client]
  BY DEF CaptureChecks, CaptureInstalls, CaptureSends, CaptureGivesUp, CaptureCleansUp, End, Leave
<1> QED
  BY <1>1, PicturesKept

LEMMA AssembledAppend ==
  ASSUME NEW s \in Seq(Frame), NEW f \in Frame, ~f.error, f.seq = Len(s),
         s # <<>> => Assembled(s) /\ Continues(s[Len(s)], f)
  PROVE  Assembled(Append(s, f)) /\ Append(s, f)[1].total = f.total
<1> DEFINE t == Append(s, f)
<1>1. Len(t) = Len(s) + 1 /\ DOMAIN t = 1 .. Len(s) + 1
  OBVIOUS
<1>2. t[Len(s) + 1] = f /\ \A i \in 1 .. Len(s) : t[i] = s[i]
  OBVIOUS
<1> HIDE DEF t
<1>3. CASE s = <<>>
  BY <1>1, <1>2, <1>3 DEF Assembled, t
<1>4. CASE s # <<>>
  <2>1. Len(s) \in 1 .. Len(s) /\ 1 \in 1 .. Len(s)
    BY <1>4
  <2>2. f.of = s[1].of /\ f.total = s[1].total
    BY <1>4, <2>1 DEF Assembled, Continues
  <2> QED
    BY <1>1, <1>2, <1>4, <2>1, <2>2 DEF Assembled, t
<1> QED
  BY <1>3, <1>4

\* While there was one client, a picture is put together from the chunks of one answer.
LEMMA OneLineStep == IWhole /\ [CaptureNext]_captureVars => OneLine'
<1> SUFFICES ASSUME IWhole, [CaptureNext]_captureVars, attached' <= 1 PROVE OneLine'
  BY DEF OneLine
<1>c. Len(Clients) \in Nat /\ DOMAIN Clients = 1 .. Len(Clients) /\ attached \in Nat /\ NoOne \notin Reqs
  BY CaptureAssumption DEF CaptureAssumption, CaptureTyped, Places, IWhole
<1>f. ASSUME NEW c \in DOMAIN Clients, line[c] # <<>> \/ inbox[c] # <<>>, attached <= 1
      PROVE  c = 1 /\ attached = 1
  BY <1>c, <1>f DEF IWhole, LinesChained
<1>u. ASSUME parts' = parts \/ parts' = <<>>, UNCHANGED <<attached, open, line, inbox, reply>>,
             latest' = latest \/ \E r \in Reqs : latest' = reply[r] /\ ~reply[r][1].error,
             \A r \in Reqs : \/ req'[r].picture = req[r].picture
                             \/ req'[r].picture = reply[r] /\ ~reply[r][1].error
      PROVE  OneLine'
  BY <1>u DEF OneLine, IWhole
<1>1. ASSUME NEW r \in Reqs,
             CaptureChecks(r) \/ CaptureInstalls(r) \/ CaptureGivesUp(r) \/ CaptureCleansUp(r)
      PROVE  OneLine'
  <2>1. \A q \in Reqs : req'[q].picture = req[q].picture
    BY <1>1, StepKeepsPictures DEF IWhole
  <2>2. parts' = parts \/ parts' = <<>>
    BY <1>1 DEF CaptureChecks, CaptureInstalls, CaptureGivesUp, CaptureCleansUp
  <2>3. UNCHANGED <<attached, open, line, inbox, reply, latest>>
    BY <1>1 DEF CaptureChecks, CaptureInstalls, CaptureGivesUp, CaptureCleansUp
  <2> QED
    BY <1>u, <2>1, <2>2, <2>3
<1>2. ASSUME NEW r \in Reqs, CaptureSends(r) PROVE OneLine'
  <2>1. \A q \in Reqs : req'[q].picture = req[q].picture
    BY <1>2, StepKeepsPictures DEF IWhole
  <2>2. UNCHANGED <<attached, open, line, reply, latest, parts>> /\ (~open => UNCHANGED inbox)
    BY <1>2 DEF CaptureSends
  <2> QED
    BY <2>1, <2>2 DEF OneLine, IWhole
<1>3. ASSUME NEW r \in Reqs, CaptureAnswered(r) PROVE OneLine'
  <2>1. CASE reply[r][1].error
    <3>1. \A q \in Reqs : req'[q].picture = req[q].picture
      BY <1>3, <2>1, StepKeepsPictures DEF CaptureAnswered, IWhole
    <3> QED
      BY <1>3, <2>1, <3>1, <1>u DEF CaptureAnswered
  <2>2. CASE ~reply[r][1].error
    <3>1. \A q \in Reqs : req'[q].picture = IF q = r THEN reply[r] ELSE req[q].picture
      BY <1>3, <2>2 DEF CaptureAnswered, IWhole, CaptureTyped, Request
    <3> QED
      BY <1>3, <2>2, <3>1, <1>u DEF CaptureAnswered
  <2> QED
    BY <2>1, <2>2
<1>4. ASSUME NEW c \in DOMAIN Clients, ClientAnswers(c) PROVE OneLine'
  <2>0. UNCHANGED <<attached, open, req, parts, reply, latest>> /\ inbox[c] # <<>>
    BY <1>4 DEF ClientAnswers
  <2>1. c = 1 /\ attached = 1
    BY <1>f, <2>0
  <2>2. PICK a \in Seq(Frame) : line' = [line EXCEPT ![c] = line[c] \o a]
    BY <1>4, AnswerSent DEF IWhole
  <2>3. parts # <<>> => line[1] # <<>>
    BY <2>0, <2>1 DEF IWhole, OneLine
  <2>4. line[1] # <<>> => line'[1] # <<>> /\ line'[1][1] = line[1][1]
    BY <2>1, <2>2, line[1] \in Seq(Frame) DEF IWhole, CaptureTyped
  <2> QED
    BY <2>0, <2>1, <2>3, <2>4 DEF OneLine, IWhole
<1>5. ASSUME NEW c \in DOMAIN Clients, RelayAnswer(c) PROVE OneLine'
  <2>0. UNCHANGED <<attached, open, req, inbox, latest>> /\ line[c] # <<>>
    BY <1>5 DEF RelayAnswer
  <2>1. c = 1 /\ attached = 1
    BY <1>f, <2>0
  <2> DEFINE f == line[1][1]
             rest == Tail(line[1])
  <2>2. line[1] \in Seq(Frame) /\ line[1] # <<>> /\ f \in Frame /\ parts \in Seq(Frame)
    BY <2>0, <2>1 DEF IWhole, CaptureTyped
  <2>3. Resolve(f) /\ line'[1] = rest
    BY <1>5, <2>1, <2>2 DEF RelayAnswer, IWhole, CaptureTyped
  <2>4. Chained(line[1])
    BY <2>1 DEF IWhole, LinesChained
  <2>5. ~f.error => f.seq < f.total
    BY <2>2, <2>4 DEF Chained
  <2>6. ~Final(f) => rest # <<>> /\ Continues(f, rest[1])
    <3>1. ~Final(f) => Len(line[1]) # 1
      BY <2>2, <2>4 DEF Chained
    <3>2. Len(line[1]) # 1 => rest # <<>> /\ rest[1] = line[1][2]
      BY <2>2, SecondIsNext
    <3>3. 1 \in DOMAIN line[1]
      BY <2>2
    <3> QED
      BY <3>1, <3>2, <3>3, <2>4 DEF Chained
  <2>7. parts # <<>> => Assembled(parts) /\ Continues(parts[Len(parts)], f)
    BY <2>1, <2>2 DEF IWhole, OneLine
  <2> HIDE DEF f, rest
  <2>8. ASSUME parts' = <<>>, \A r \in Reqs : \/ reply'[r] = reply[r]
                                              \/ reply'[r][1].error \/ WholePicture(reply'[r])
        PROVE  OneLine'
    BY <2>0, <2>1, <2>8 DEF OneLine, IWhole
  <2>9. CASE waiter = NoOne
    BY <2>3, <2>8, <2>9 DEF Resolve, IWhole, LinesChained
  <2>10. CASE waiter # NoOne /\ f.error
    <3>1. \A r \in Reqs : reply'[r] = reply[r] \/ reply'[r] = <<f>>
      BY <2>3, <2>10 DEF Resolve, Offer, IWhole, CaptureTyped
    <3> QED
      BY <2>3, <2>8, <2>10, <3>1 DEF Resolve
  <2>11. CASE waiter # NoOne /\ ~f.error /\ f.seq # Len(parts)
    BY <2>3, <2>8, <2>11 DEF Resolve
  <2>12. CASE waiter # NoOne /\ ~f.error /\ f.seq = Len(parts)
    <3> DEFINE all == Append(parts, f)
    <3>1. Assembled(all) /\ all[1].total = f.total
      BY <2>2, <2>7, <2>12, AssembledAppend
    <3>2. Len(all) = f.seq + 1 /\ all # <<>> /\ all[Len(all)] = f /\ all \in Seq(Frame)
      BY <2>2, <2>12
    <3>3. IF Len(all) < f.total THEN parts' = all /\ UNCHANGED reply ELSE parts' = <<>> /\ Offer(all)
      BY <2>3, <2>12 DEF Resolve
    <3>4. f.seq \in Nat /\ f.total \in Nat
      BY <2>2 DEF Frame
    <3> HIDE DEF all
    <3>5. CASE Len(all) < f.total
      <4>1. rest # <<>> /\ Continues(f, rest[1])
        BY <3>2, <3>4, <3>5, <2>6, <2>12 DEF Final
      <4> QED
        BY <2>0, <2>1, <2>3, <3>1, <3>2, <3>3, <3>5, <4>1 DEF OneLine, IWhole
    <3>6. CASE ~(Len(all) < f.total)
      <4>1. WholePicture(all)
        <5>1. Len(all) = all[1].total
          BY <3>1, <3>2, <3>4, <3>6, <2>5, <2>12
        <5> QED
          BY <3>1, <5>1 DEF WholePicture, Assembled
      <4>2. \A r \in Reqs : reply'[r] = reply[r] \/ reply'[r] = all
        BY <3>3, <3>6 DEF Offer, IWhole, CaptureTyped
      <4> QED
        BY <2>8, <3>3, <3>6, <4>1, <4>2
    <3> QED
      BY <3>5, <3>6
  <2> QED
    BY <2>9, <2>10, <2>11, <2>12
<1>6. ASSUME NEW c \in DOMAIN Clients, RelayStops(c) PROVE OneLine'
  <2>1. UNCHANGED <<attached, open, req, parts, reply, latest>> /\ (line[c] # <<>> \/ inbox[c] # <<>>)
    BY <1>6 DEF RelayStops
  <2>2. c = 1 /\ attached = 1
    BY <1>f, <2>1
  <2>3. ~open /\ line'[1] = <<>> /\ inbox'[1] = <<>>
    BY <1>6, <2>2, <1>c DEF RelayStops, IWhole, CaptureTyped
  <2> QED
    BY <2>1, <2>2, <2>3 DEF OneLine, IWhole
<1>7. CASE ClientAttaches
  BY <1>7, <1>c DEF ClientAttaches, OneLine, IWhole
<1>8. CASE ClientLeaves
  BY <1>8 DEF ClientLeaves, OneLine, IWhole
<1>9. CASE UNCHANGED captureVars
  BY <1>9 DEF captureVars, OneLine, IWhole
<1> QED
  BY <1>1, <1>2, <1>3, <1>4, <1>5, <1>6, <1>7, <1>8, <1>9 DEF CaptureNext, Capturing

LEMMA CaptureInitInv == CaptureInit => IWhole /\ IOwn
<1> SUFFICES ASSUME CaptureInit PROVE IWhole /\ IOwn
  OBVIOUS
<1>1. Len(Clients) \in Nat
  BY CaptureAssumption DEF CaptureAssumption
<1>2. CaptureTyped
  <2>1. Fresh \in Request
    BY <1>1, StatusTypes DEF Fresh, Request, Places
  <2> QED
    <3>1. <<>> \in Seq(Frame) /\ <<>> \in Seq(Reqs)
      OBVIOUS
    <3>2. req \in [Reqs -> Request] /\ reply \in [Reqs -> Seq(Frame)]
      BY <2>1, <3>1 DEF CaptureInit
    <3>3. inbox \in [DOMAIN Clients -> Seq(Reqs)] /\ line \in [DOMAIN Clients -> Seq(Frame)]
      BY <3>1 DEF CaptureInit
    <3>4. attached \in Places
      BY <1>1 DEF CaptureInit, Places
    <3> QED
      BY <3>1, <3>2, <3>3, <3>4 DEF CaptureInit, CaptureTyped
<1>3. OneWaiter
  BY CaptureAssumption DEF CaptureInit, Fresh, OneWaiter, ReqRecords, Waiting, CaptureAssumption
<1>4. LinesChained /\ OneLine
  BY DEF CaptureInit, Fresh, LinesChained, OneLine, Chained
<1>5. OneQuestion
  BY DEF CaptureInit, Fresh, OneQuestion
<1> QED
  BY <1>2, <1>3, <1>4, <1>5 DEF IWhole, IOwn

\* A picture a request returns, or the session keeps as its latest, is one whole answer of
\* the client, in order and without a gap, whatever was late, lost or interrupted, as long
\* as one client only was ever attached (resolveCapture and Capture).
THEOREM PicturesAreWhole == CaptureSpec => []PictureIsWhole
<1>1. CaptureInit => IWhole
  BY CaptureInitInv
<1>2. IWhole /\ [CaptureNext]_captureVars => IWhole'
  BY CaptureTypedStep, CaptureStepInv, LinesChainedStep, OneLineStep DEF IWhole
<1>3. IWhole => PictureIsWhole
  BY DEF IWhole, OneLine, PictureIsWhole
<1> QED
  BY <1>1, <1>2, <1>3, PTL DEF CaptureSpec

-----------------------------------------------------------------------------
(* Whose pictures they are.                                                 *)

\* When the waiter does not wait for frames there are none.
LEMMA SilentUnlessAsked ==
  ASSUME OneQuestion, ~gaveUp, ~Unanswered
  PROVE  Silent /\ parts = <<>>
  BY DEF OneQuestion, Silent

\* What is left of an answer after its first frame.
LEMMA RestOfTail ==
  ASSUME NEW s \in Seq(Frame), s # <<>>, NEW p \in Seq(Frame), NEW r \in Reqs, RestOf(s, p, r), ~s[1].error
  PROVE  RestOf(Tail(s), Append(p, s[1]), r)
<1> DEFINE t == Tail(s)
           q == Append(p, s[1])
<1>1. Len(t) = Len(s) - 1 /\ t \in Seq(Frame) /\ Len(s) \in Nat
  OBVIOUS
<1>2. Len(q) = Len(p) + 1 /\ Len(p) \in Nat
  OBVIOUS
<1>3. \A i \in DOMAIN t : i + 1 \in DOMAIN s /\ t[i] = s[i + 1] /\ i \in Nat
  <2>1. \A i \in 1 .. Len(t) : t[i] = s[i + 1]
    BY HeadTailProperties
  <2> QED
    BY <1>1, <2>1
<1> HIDE DEF t, q
<1>4. ASSUME NEW i \in DOMAIN t
      PROVE  t[i].of = r /\ ~t[i].error /\ t[i].seq = Len(q) + i - 1 /\ t[i].total = Len(q) + Len(t)
  <2>1. i + 1 \in DOMAIN s /\ t[i] = s[i + 1] /\ i \in Nat /\ i >= 1
    BY <1>1, <1>3
  <2>2. ~s[i + 1].error
    <3>1. i + 1 <= Len(s)
      BY <2>1
    <3> QED
      BY <1>1, <2>1, <3>1 DEF RestOf
  <2>3. s[i + 1].of = r /\ s[i + 1].seq = Len(p) + (i + 1) - 1 /\ s[i + 1].total = Len(p) + Len(s)
    BY <2>1, <2>2 DEF RestOf
  <2> QED
    BY <1>1, <1>2, <2>1, <2>2, <2>3
<1> QED
  BY <1>4 DEF RestOf, t, q

\* While no request gave up there is one question and one answer.
LEMMA OneQuestionStep == IOwn /\ [CaptureNext]_captureVars => OneQuestion'
<1> SUFFICES ASSUME IOwn, [CaptureNext]_captureVars, ~gaveUp' PROVE OneQuestion'
  BY DEF OneQuestion
<1>c. Len(Clients) \in Nat /\ DOMAIN Clients = 1 .. Len(Clients) /\ attached \in Nat /\ NoOne \notin Reqs
  BY CaptureAssumption DEF CaptureAssumption, CaptureTyped, Places, IOwn
<1>g. ~gaveUp
  <2>1. gaveUp => gaveUp'
    BY DEF CaptureNext, Capturing, CaptureChecks, CaptureInstalls, CaptureSends, CaptureAnswered,
           CaptureGivesUp, CaptureCleansUp, ClientAnswers, RelayAnswer, RelayStops, ClientAttaches,
           ClientLeaves, captureVars
  <2> QED
    BY <2>1
<1>q. /\ parts # <<>> => Unanswered /\ \A i \in DOMAIN parts : parts[i].of = waiter
      /\ \A r \in Reqs : req[r].pc \in {"idle", "install", "send"} => reply[r] = <<>>
      /\ \A r \in Reqs : reply[r] # <<>> => reply[r][1].of = r
      /\ \A r \in Reqs : req[r].picture # <<>> => req[r].picture[1].of = r
  BY <1>g DEF IOwn, OneQuestion
<1>s. ASSUME Silent', parts' = <<>>,
             \A r \in Reqs : req'[r].pc \in {"idle", "install", "send"} => reply'[r] = <<>>,
             \A r \in Reqs : reply'[r] # <<>> => reply'[r][1].of = r,
             \A r \in Reqs : req'[r].picture # <<>> => req'[r].picture[1].of = r
      PROVE  OneQuestion'
  BY <1>s DEF OneQuestion, Silent
<1>u. ASSUME UNCHANGED <<inbox, line, parts, reply, waiter>>,
             Unanswered => req'[waiter].pc = "wait",
             \A r \in Reqs : /\ req'[r].picture = req[r].picture
                             /\ req'[r].pc \in {"idle", "install", "send"} =>
                                  req[r].pc \in {"idle", "install", "send"}
      PROVE  OneQuestion'
  <2>1. Unanswered => Unanswered'
    BY <1>u DEF Unanswered
  <2> QED
    BY <1>u, <1>g, <2>1 DEF IOwn, OneQuestion
<1>1. ASSUME NEW r \in Reqs, CaptureChecks(r) PROVE OneQuestion'
  <2>1. \A q \in Reqs : req'[q].picture = req[q].picture
    BY <1>1, StepKeepsPictures DEF IOwn
  <2>2. waiter # r
    BY <1>1 DEF CaptureChecks, IOwn, OneWaiter, Waiting
  <2>3. \A q \in Reqs : (q # r => req'[q].pc = req[q].pc) /\ req[r].pc = "idle"
    BY <1>1 DEF CaptureChecks, End, IOwn, CaptureTyped
  <2> QED
    BY <1>1, <1>u, <2>1, <2>2, <2>3 DEF CaptureChecks, Unanswered
<1>2. ASSUME NEW r \in Reqs, CaptureInstalls(r) PROVE OneQuestion'
  <2>1. \A q \in Reqs : req'[q].picture = req[q].picture
    BY <1>2, StepKeepsPictures DEF IOwn
  <2>2. waiter # r
    BY <1>2 DEF CaptureInstalls, IOwn, OneWaiter, Waiting
  <2>3. \A q \in Reqs : (q # r => req'[q].pc = req[q].pc) /\ req[r].pc = "install"
    BY <1>2 DEF CaptureInstalls, End, IOwn, CaptureTyped
  <2>4. CASE waiter # NoOne
    BY <1>2, <1>u, <2>1, <2>2, <2>3, <2>4 DEF CaptureInstalls, Unanswered
  <2>5. CASE waiter = NoOne
    <3>1. Silent /\ parts = <<>>
      BY <1>c, <1>g, <2>5, SilentUnlessAsked DEF Unanswered, IOwn
    <3>2. Silent' /\ parts' = <<>> /\ UNCHANGED reply
      BY <1>2, <3>1 DEF CaptureInstalls, Silent
    <3>3. \A q \in Reqs : req'[q].pc \in {"idle", "install", "send"} =>
                            req[q].pc \in {"idle", "install", "send"}
      BY <2>3
    <3> QED
      BY <1>q, <1>s, <2>1, <3>2, <3>3
  <2> QED
    BY <2>4, <2>5
<1>3. ASSUME NEW r \in Reqs, CaptureSends(r) PROVE OneQuestion'
  <2>1. \A q \in Reqs : req'[q].picture = req[q].picture
    BY <1>3, StepKeepsPictures DEF IOwn
  <2>2. waiter = r /\ req[r].pc = "send" /\ UNCHANGED <<line, parts, reply, waiter>>
    BY <1>3 DEF CaptureSends, IOwn, OneWaiter, Waiting
  <2>3. Silent /\ parts = <<>> /\ reply[r] = <<>>
    BY <1>g, <1>q, <2>2, SilentUnlessAsked DEF Unanswered, IOwn
  <2>4. \A q \in Reqs : q # r => req'[q].pc = req[q].pc
    BY <1>3 DEF CaptureSends, Leave, IOwn, CaptureTyped
  <2>5. CASE open /\ req[r].client = attached
    <3>1. attached \in DOMAIN Clients
      BY <1>c, <2>5 DEF IOwn, CaptureTyped, Places
    <3>2. req'[r].pc = "wait"
      BY <1>3, <2>5 DEF CaptureSends, IOwn, CaptureTyped, Request
    <3>3. Unanswered'
      BY <2>2, <2>3, <3>2 DEF Unanswered
    <3>4. inbox' = [inbox EXCEPT ![attached] = <<r>>]
      <4>1. inbox[attached] = <<>> /\ Append(<<>>, r) = <<r>>
        BY <2>3, <3>1 DEF Silent
      <4>2. inbox' = [inbox EXCEPT ![attached] = Append(inbox[attached], r)]
        BY <1>3, <2>5 DEF CaptureSends
      <4> QED
        BY <4>1, <4>2
    <3>5. \A c \in DOMAIN Clients : inbox'[c] = IF c = attached THEN <<r>> ELSE <<>>
      BY <2>3, <3>1, <3>4 DEF Silent, IOwn, CaptureTyped
    <3>6. \A c \in DOMAIN Clients : line'[c] = <<>>
      BY <2>2, <2>3 DEF Silent
    <3> QED
      BY <1>q, <2>1, <2>2, <2>3, <2>4, <3>2, <3>3, <3>5, <3>6 DEF OneQuestion
  <2>6. CASE ~(open /\ req[r].client = attached)
    <3>1. UNCHANGED inbox
      BY <1>3, <2>6 DEF CaptureSends
    <3>2. Silent' /\ parts' = <<>>
      BY <2>2, <2>3, <3>1 DEF Silent
    <3> QED
      BY <1>q, <1>s, <2>1, <2>2, <2>3, <2>4, <3>2
  <2> QED
    BY <2>5, <2>6
<1>4. ASSUME NEW r \in Reqs, CaptureAnswered(r) PROVE OneQuestion'
  <2>1. waiter = r /\ reply[r] # <<>> /\ UNCHANGED <<inbox, line, parts, reply>>
    BY <1>4 DEF CaptureAnswered, IOwn, OneWaiter, Waiting
  <2>2. Silent /\ parts = <<>>
    BY <1>g, <2>1, SilentUnlessAsked DEF Unanswered, IOwn
  <2>3. \A q \in Reqs : req'[q].picture = req[q].picture \/ req'[q].picture = reply[q]
    <3>1. CASE reply[r][1].error
      BY <1>4, <3>1, StepKeepsPictures DEF CaptureAnswered, IOwn
    <3>2. CASE ~reply[r][1].error
      <4>1. \A q \in Reqs : req'[q].picture = IF q = r THEN reply[r] ELSE req[q].picture
        BY <1>4, <3>2 DEF CaptureAnswered, IOwn, CaptureTyped, Request
      <4> QED
        BY <4>1
    <3> QED
      BY <3>1, <3>2
  <2>4. \A q \in Reqs : (q # r => req'[q].pc = req[q].pc) /\ req'[r].pc = "leave"
    BY <1>4 DEF CaptureAnswered, Leave, IOwn, CaptureTyped, Request
  <2>5. Silent' /\ parts' = <<>>
    BY <2>1, <2>2 DEF Silent
  <2> QED
    BY <1>q, <1>s, <2>1, <2>3, <2>4, <2>5
<1>5. ASSUME NEW r \in Reqs, CaptureGivesUp(r) PROVE OneQuestion'
  BY <1>5 DEF CaptureGivesUp
<1>6. ASSUME NEW r \in Reqs, CaptureCleansUp(r) PROVE OneQuestion'
  <2>1. \A q \in Reqs : req'[q].picture = req[q].picture
    BY <1>6, StepKeepsPictures DEF IOwn
  <2>2. waiter = r /\ req[r].pc = "leave" /\ UNCHANGED <<inbox, line, reply>> /\ parts' = <<>>
    BY <1>6 DEF CaptureCleansUp, IOwn, OneWaiter, Waiting
  <2>3. Silent
    BY <1>g, <2>2, SilentUnlessAsked DEF Unanswered, IOwn
  <2>4. \A q \in Reqs : (q # r => req'[q].pc = req[q].pc) /\ req'[r].pc = "done"
    BY <1>6 DEF CaptureCleansUp, IOwn, CaptureTyped, Request
  <2>5. Silent'
    BY <2>2, <2>3 DEF Silent
  <2> QED
    BY <1>q, <1>s, <2>1, <2>2, <2>4, <2>5
<1>7. ASSUME NEW c \in DOMAIN Clients, ClientAnswers(c) PROVE OneQuestion'
  <2>1. /\ Unanswered /\ inbox[c] = <<waiter>> /\ parts = <<>>
        /\ \A d \in DOMAIN Clients : line[d] = <<>> /\ (d # c => inbox[d] = <<>>)
    BY <1>7, <1>g DEF ClientAnswers, IOwn, OneQuestion
  <2>2. UNCHANGED <<req, waiter, parts, reply>> /\ inbox' = [inbox EXCEPT ![c] = Tail(inbox[c])]
    BY <1>7 DEF ClientAnswers
  <2>3. Head(inbox[c]) = waiter /\ Tail(inbox[c]) = <<>>
    BY <2>1
  <2>4. \A d \in DOMAIN Clients : inbox'[d] = <<>>
    BY <2>1, <2>2, <2>3 DEF IOwn, CaptureTyped
  <2>5. PICK a \in Seq(Frame) : RestOf(a, <<>>, waiter) /\ line' = [line EXCEPT ![c] = line[c] \o a]
    BY <1>7, <2>3, AnswerSent DEF IOwn
  <2>6. line[c] \o a = a
    BY <2>1, ConcatEmptySeq
  <2>7. \A d \in DOMAIN Clients : line'[d] = IF d = c THEN a ELSE <<>>
    BY <2>1, <2>5, <2>6 DEF IOwn, CaptureTyped
  <2>8. Unanswered'
    BY <2>1, <2>2 DEF Unanswered
  <2> QED
    BY <1>q, <2>1, <2>2, <2>4, <2>5, <2>7, <2>8 DEF OneQuestion
<1>8. ASSUME NEW c \in DOMAIN Clients, RelayAnswer(c) PROVE OneQuestion'
  <2> DEFINE f == line[c][1]
             rest == Tail(line[c])
  <2>1. /\ Unanswered /\ RestOf(line[c], parts, waiter)
        /\ \A d \in DOMAIN Clients : inbox[d] = <<>> /\ (d # c => line[d] = <<>>)
    BY <1>8, <1>g DEF RelayAnswer, IOwn, OneQuestion
  <2>2. line[c] \in Seq(Frame) /\ line[c] # <<>> /\ f \in Frame /\ parts \in Seq(Frame)
    BY <1>8 DEF RelayAnswer, IOwn, CaptureTyped
  <2>3. UNCHANGED <<req, waiter, inbox>> /\ Resolve(f)
    BY <1>8, <2>2 DEF RelayAnswer
  <2>4. \A d \in DOMAIN Clients : line'[d] = IF d = c THEN rest ELSE <<>>
    BY <1>8, <2>1 DEF RelayAnswer, IOwn, CaptureTyped
  <2>5. 1 \in DOMAIN line[c] /\ Len(line[c]) \in Nat \ {0}
    BY <2>2
  <2>6. f.of = waiter /\ waiter \in Reqs /\ waiter # NoOne /\ reply[waiter] = <<>> /\ req[waiter].pc = "wait"
    BY <2>1, <2>5, <1>c DEF RestOf, Unanswered
  <2>7. Len(rest) = Len(line[c]) - 1 /\ rest \in Seq(Frame)
    BY <2>2
  <2>8. Len(line[c]) = 1 => rest = <<>>
    <3>1. Len(line[c]) = 1 => Len(rest) = 0
      BY <2>7
    <3>2. rest # <<>> => Len(rest) \in Nat \ {0}
      BY <2>7, EmptySeq, Zenon
    <3> QED
      BY <3>1, <3>2
  <2>9. f.error => Len(line[c]) = 1 /\ parts = <<>>
    BY <2>1, <2>5 DEF RestOf
  <2>10. ~f.error => f.seq = Len(parts) /\ f.total = Len(parts) + Len(line[c]) /\ Len(parts) \in Nat
    BY <2>1, <2>2, <2>5 DEF RestOf
  <2>11. ~f.error => RestOf(rest, Append(parts, f), waiter)
    BY <2>1, <2>2, <2>6, RestOfTail
  <2>12. ASSUME NEW content \in Seq(Frame), Offer(content), content[1].of = waiter, rest = <<>>, parts' = <<>>
         PROVE  OneQuestion'
    <3>1. \A q \in Reqs : reply'[q] = IF q = waiter THEN content ELSE reply[q]
      BY <2>6, <2>12 DEF Offer, IOwn, CaptureTyped
    <3>2. Silent'
      BY <2>1, <2>3, <2>4, <2>12 DEF Silent
    <3> QED
      BY <1>q, <1>s, <2>3, <2>6, <2>12, <3>1, <3>2
  <2> HIDE DEF f, rest
  <2>13. CASE f.error
    <3>1. Offer(<<f>>) /\ parts' = <<>>
      BY <2>3, <2>6, <2>13 DEF Resolve
    <3>2. <<f>> \in Seq(Frame) /\ <<f>>[1] = f
      BY <2>2
    <3> QED
      BY <2>6, <2>8, <2>9, <2>12, <2>13, <3>1, <3>2
  <2>14. CASE ~f.error
    <3> DEFINE all == Append(parts, f)
    <3>1. IF Len(all) < f.total THEN parts' = all /\ UNCHANGED reply ELSE parts' = <<>> /\ Offer(all)
      BY <2>3, <2>6, <2>10, <2>14 DEF Resolve
    <3>2. Len(all) = Len(parts) + 1 /\ all # <<>> /\ all \in Seq(Frame)
      BY <2>2
    <3>3. \A i \in DOMAIN all : all[i].of = waiter
      <4>1. \A i \in DOMAIN all : all[i] = f \/ (i \in DOMAIN parts /\ all[i] = parts[i])
        BY <2>2
      <4> QED
        BY <1>q, <2>6, <4>1
    <3>4. 1 \in DOMAIN all
      BY <2>2
    <3>5. RestOf(rest, all, waiter)
      BY <2>11, <2>14
    <3> HIDE DEF all
    <3>6. CASE Len(all) < f.total
      <4>1. Unanswered'
        BY <2>3, <2>6, <3>1, <3>6 DEF Unanswered
      <4> QED
        BY <1>q, <2>1, <2>3, <2>4, <3>1, <3>3, <3>5, <3>6, <4>1 DEF OneQuestion
    <3>7. CASE ~(Len(all) < f.total)
      <4>1. Len(line[c]) = 1
        <5>1. \A k \in Nat, n \in Nat \ {0} : ~(k + 1 < k + n) => n = 1
          OBVIOUS
        <5>2. ~(Len(parts) + 1 < Len(parts) + Len(line[c]))
          BY <2>10, <2>14, <3>2, <3>7, Zenon
        <5> QED
          BY <2>5, <2>10, <2>14, <5>1, <5>2, Zenon
      <4> QED
        BY <2>8, <2>12, <3>1, <3>2, <3>3, <3>4, <3>7, <4>1
    <3> QED
      BY <3>6, <3>7
  <2> QED
    BY <2>13, <2>14
<1>9. ASSUME NEW c \in DOMAIN Clients, RelayStops(c) PROVE OneQuestion'
  <2>1. \A d \in DOMAIN Clients : /\ line'[d] = line[d] \/ line'[d] = <<>>
                                  /\ inbox'[d] = inbox[d] \/ inbox'[d] = <<>>
    BY <1>9 DEF RelayStops, IOwn, CaptureTyped
  <2>2. UNCHANGED <<req, waiter, parts, reply>>
    BY <1>9 DEF RelayStops
  <2>3. Unanswered => Unanswered'
    BY <2>2 DEF Unanswered
  <2> QED
    BY <1>g, <2>1, <2>2, <2>3 DEF IOwn, OneQuestion
<1>10. ASSUME ClientAttaches \/ ClientLeaves \/ UNCHANGED captureVars PROVE OneQuestion'
  <2>1. UNCHANGED <<req, waiter, parts, reply, inbox, line, gaveUp>>
    BY <1>10 DEF ClientAttaches, ClientLeaves, captureVars
  <2> QED
    BY <1>u, <2>1 DEF Unanswered
<1> QED
  BY <1>1, <1>2, <1>3, <1>4, <1>5, <1>6, <1>7, <1>8, <1>9, <1>10 DEF CaptureNext, Capturing

\* As long as no request gave up before its answer came, a request only returns the picture
\* that was taken for it, although no frame names a request and clients come and go
\* (Capture and resolveCapture).
THEOREM PicturesAreOwn == CaptureSpec => []PictureIsOwn
<1>1. CaptureInit => IOwn
  BY CaptureInitInv
<1>2. IOwn /\ [CaptureNext]_captureVars => IOwn'
  BY CaptureTypedStep, CaptureStepInv, OneQuestionStep DEF IOwn
<1>3. IOwn => PictureIsOwn
  BY DEF IOwn, OneQuestion, PictureIsOwn
<1> QED
  BY <1>1, <1>2, <1>3, PTL DEF CaptureSpec

-----------------------------------------------------------------------------
(* Agent.                                                                   *)

Working == {"check", "write"}
Pcs == {"idle", "handler", "encode", "answered", "done"} \cup Working
Command == [pc : Pcs, kind : Kinds, button : Names \cup {NoButton}, at : Cells \cup {AtCursor},
            to : Cells \cup {AtCursor}, force : BOOLEAN, empty : BOOLEAN, wrapped : BOOLEAN, status : Nat,
            exit : {-1, 0, 1}]
Written == [by : Cmds, kind : Kinds, wrapped : BOOLEAN, whole : BOOLEAN]

\* A command that is on its way to the PTY has no answer yet; from the look at the target on,
\* a mouse request has a cell.
AgentTyped ==
  /\ permit \in BOOLEAN
  /\ cmd \in [Cmds -> Command]
  /\ input \in Seq(Written)
  /\ \A c \in Cmds :
       /\ cmd[c].kind = "drag" => cmd[c].to \in Cells
       /\ cmd[c].pc = "encode" => Mouse(cmd[c].kind) /\ cmd[c].at \in Cells
       /\ cmd[c].pc \in Working /\ Mouse(cmd[c].kind) => cmd[c].at \in Cells
  /\ cursor \in Cells
  /\ modes \in [mouse : BOOLEAN, paste : BOOLEAN]

\* What was answered is what was written: no bytes before the answer, one write at most, all
\* of it for 200 and not all of it for 500.
IAnswer ==
  \A c \in Cmds :
    /\ cmd[c].pc \notin {"answered", "done"} => cmd[c].status = NoStatus
    /\ Writes(c) # {} => \E i \in DOMAIN input : Writes(c) = {i}
    /\ cmd[c].status = StatusOK => Wholly(c) = Writes(c) /\ (Writes(c) # {} <=> HasBytes(c))
    /\ cmd[c].status = StatusInternalServerError => Wholly(c) = {}
    /\ cmd[c].status \notin {StatusOK, StatusInternalServerError} => Writes(c) = {}
    /\ cmd[c].exit = 0 => cmd[c].status = StatusOK
    /\ ~permit => Writes(c) = {} /\ cmd[c].pc \notin Working \cup {"encode"}

HeldNames == {Lower[n] : n \in held}

\* A mouse request that is encoded and not written yet is the only one, and the emulator is
\* ahead of the program by this one event.
IMouse ==
  ~loose =>
    /\ \A c, d \in Cmds : Pointing(c) /\ Pointing(d) => c = d
    /\ (\A c \in Cmds : Pointing(c) => cmd[c].pc \notin Working) =>
         seen.down \subseteq HeldNames /\ seen.at = cursor
    /\ \A c \in Cmds : Pointing(c) /\ cmd[c].pc \in Working =>
         /\ cursor = Lands(c)
         /\ cmd[c].kind \notin {"up", "click"} => seen.down \subseteq HeldNames
         /\ cmd[c].kind = "down" => Lower[cmd[c].button] \in HeldNames

\* The path of the last event.
IPath == seen.path # <<>> => Last(seen.path) = seen.at /\ Glides(seen.path)

-----------------------------------------------------------------------------
(* The statuses, and the lemmas about a command that moves on.              *)

LEMMA AgentCodes ==
  /\ {StatusOK, StatusBadRequest, StatusForbidden, StatusNotFound, StatusConflict,
      StatusInternalServerError, StatusServiceUnavailable, NoStatus} \subseteq Nat
  /\ StatusOK \notin {StatusBadRequest, StatusForbidden, StatusNotFound, StatusConflict,
                      StatusInternalServerError, StatusServiceUnavailable, NoStatus}
  /\ NoStatus # StatusInternalServerError
  /\ StatusInternalServerError \notin {StatusBadRequest, StatusForbidden, StatusNotFound, StatusConflict,
                                       StatusServiceUnavailable}
BY DEF StatusOK, StatusBadRequest, StatusForbidden, StatusNotFound, StatusConflict,
       StatusInternalServerError, StatusServiceUnavailable, NoStatus

\* The command c becomes m, which asks for the same.
Moves(c, m) ==
  /\ m \in Command /\ cmd' = [cmd EXCEPT ![c] = m]
  /\ m.kind = cmd[c].kind /\ m.button = cmd[c].button /\ m.to = cmd[c].to /\ m.force = cmd[c].force
  /\ m.empty = cmd[c].empty

\* A command that goes on has no answer it did not have.
LEMMA Going ==
  ASSUME AgentTyped, NEW c \in Cmds, NEW pc \in Pcs, Goto(c, pc)
  PROVE  \E m : /\ Moves(c, m) /\ m.pc = pc /\ m.wrapped = cmd[c].wrapped
                /\ m.at = cmd[c].at /\ m.status = cmd[c].status /\ m.exit = cmd[c].exit
<1> DEFINE m == [cmd[c] EXCEPT !.pc = pc]
<1>1. cmd[c] \in Command
  BY DEF AgentTyped
<1>2. m \in Command /\ m.pc = pc /\ \A f \in {"kind", "button", "to", "force", "empty", "at", "wrapped", "status", "exit"} : m[f] = cmd[c][f]
  BY <1>1 DEF Command
<1>3. cmd' = [cmd EXCEPT ![c] = m]
  BY DEF Goto
<1> QED
  BY <1>2, <1>3 DEF Moves

\* An answer is a status.
LEMMA Answering ==
  ASSUME AgentTyped, NEW c \in Cmds, NEW status \in Nat, Answer(c, status)
  PROVE  \E m : /\ Moves(c, m) /\ m.pc = "answered" /\ m.status = status /\ m.wrapped = cmd[c].wrapped
                /\ m.at = cmd[c].at /\ m.exit = cmd[c].exit
<1> DEFINE m == [cmd[c] EXCEPT !.pc = "answered", !.status = status]
<1>1. cmd[c] \in Command
  BY DEF AgentTyped
<1>2. m \in Command /\ m.pc = "answered" /\ m.status = status
  BY <1>1 DEF Command, Pcs
<1>3. \A f \in {"kind", "button", "to", "force", "empty", "at", "wrapped", "exit"} : m[f] = cmd[c][f]
  BY <1>1 DEF Command
<1>4. cmd' = [cmd EXCEPT ![c] = m]
  BY DEF Answer, AgentTyped
<1> QED
  BY <1>2, <1>3, <1>4 DEF Moves

\* The end of a command sets its exit code.
LEMMA Ending ==
  ASSUME AgentTyped, NEW c \in Cmds, CommandEnds(c)
  PROVE  \E m : /\ Moves(c, m) /\ m.pc = "done" /\ m.at = cmd[c].at /\ m.status = cmd[c].status
                /\ m.wrapped = cmd[c].wrapped
                /\ m.exit = 0 => m.status = StatusOK
<1>1. PICK exit \in IF cmd[c].status = StatusOK THEN {0, 1} ELSE {1} :
        cmd' = [cmd EXCEPT ![c].pc = "done", ![c].exit = exit]
  BY DEF CommandEnds
<1> DEFINE m == [cmd[c] EXCEPT !.pc = "done", !.exit = exit]
<1>2. cmd[c] \in Command /\ exit \in {-1, 0, 1}
  BY <1>1 DEF AgentTyped
<1>3. m \in Command /\ m.pc = "done" /\ m.exit = exit
  BY <1>2 DEF Command, Pcs
<1>4. \A f \in {"kind", "button", "to", "force", "empty", "at", "wrapped", "status"} : m[f] = cmd[c][f]
  BY <1>2 DEF Command
<1>5. cmd' = [cmd EXCEPT ![c] = m]
  BY <1>1 DEF AgentTyped
<1>6. exit = 0 => cmd[c].status = StatusOK
  BY <1>1
<1> QED
  BY <1>3, <1>4, <1>5, <1>6 DEF Moves

\* What a paste is wrapped in says nothing else, and a paste of nothing is answered.
LEMMA Wrapping ==
  ASSUME AgentTyped, NEW c \in Cmds, HandlePaste(c)
  PROVE  \E m : /\ Moves(c, m) /\ m.at = cmd[c].at /\ m.exit = cmd[c].exit
                /\ \/ m.pc = "check" /\ m.status = cmd[c].status
                   \/ m.pc = "answered" /\ m.status = StatusOK /\ m.empty /\ ~m.wrapped
<1> DEFINE wraps == modes.paste \/ cmd[c].force
           nothing == cmd[c].empty /\ ~wraps
           pc == IF nothing THEN "answered" ELSE "check"
           status == IF nothing THEN StatusOK ELSE cmd[c].status
           m == [cmd[c] EXCEPT !.wrapped = wraps, !.pc = pc, !.status = status]
<1>1. cmd[c] \in Command
  BY DEF AgentTyped
<1>2. wraps \in BOOLEAN /\ pc \in Pcs /\ status \in Nat
  BY <1>1, AgentCodes DEF Command, Pcs, Working
<1>3. cmd' = [cmd EXCEPT ![c] = m]
  BY DEF HandlePaste, AgentTyped
<1>4. nothing => cmd[c].empty /\ ~wraps
  OBVIOUS
<1>5. (nothing /\ pc = "answered" /\ status = StatusOK) \/ (pc = "check" /\ status = cmd[c].status)
  OBVIOUS
<1> HIDE DEF wraps, pc, status, nothing
<1>6. m \in Command /\ m.pc = pc /\ m.status = status /\ m.wrapped = wraps
  BY <1>1, <1>2 DEF Command
<1>7. \A f \in {"kind", "button", "to", "force", "empty", "at", "exit"} : m[f] = cmd[c][f]
  BY <1>1 DEF Command
<1> QED
  BY <1>3, <1>4, <1>5, <1>6, <1>7 DEF Moves

\* The look at the target gives a mouse request its cell, unless the session is destroyed.
LEMMA Targeting ==
  ASSUME AgentTyped, NEW c \in Cmds, HandleMouse(c)
  PROVE  \/ Answer(c, StatusConflict)
         \/ \E m : /\ Moves(c, m) /\ m.pc = "encode" /\ m.at \in Cells
                   /\ m.status = cmd[c].status /\ m.exit = cmd[c].exit
<1>1. CASE state = "destroyed"
  BY <1>1 DEF HandleMouse
<1>2. CASE state # "destroyed"
  <2> DEFINE at == IF cmd[c].at = AtCursor THEN cursor ELSE cmd[c].at
             m == [cmd[c] EXCEPT !.pc = "encode", !.at = at]
  <2>1. cmd[c] \in Command /\ at \in Cells
    BY DEF AgentTyped, Command
  <2>2. m \in Command /\ m.pc = "encode" /\ m.at = at
    BY <2>1 DEF Command, Pcs
  <2>3. \A f \in {"kind", "button", "to", "force", "empty", "status", "exit"} : m[f] = cmd[c][f]
    BY <2>1 DEF Command
  <2>4. cmd' = [cmd EXCEPT ![c] = m]
    BY <1>2 DEF HandleMouse, AgentTyped
  <2> QED
    BY <2>1, <2>2, <2>3, <2>4 DEF Moves
<1> QED
  BY <1>1, <1>2

\* A command that starts asks for one of the requests.
LEMMA Starting ==
  ASSUME AgentTyped, NEW c \in Cmds, KeysCommand(c) \/ MouseCommand(c)
  PROVE  \E m \in Command : /\ cmd' = [cmd EXCEPT ![c] = m]
                            /\ m.pc = "handler" /\ m.status = NoStatus /\ m.exit = -1
                            /\ m.kind = "drag" => m.to \in Cells
                            /\ Mouse(m.kind) <=> MouseCommand(c)
<1>1. PICK r \in Requests : cmd' = [cmd EXCEPT ![c] = Asks(r)] /\ (Mouse(r.kind) <=> MouseCommand(c))
  BY DEF KeysCommand, MouseCommand
<1>2. /\ r \in [kind : Kinds, button : Names \cup {NoButton}, at : Cells \cup {AtCursor},
                to : Cells \cup {AtCursor}, force : BOOLEAN, empty : BOOLEAN]
      /\ r.kind = "drag" => r.to \in Cells
  BY AgentAssumption DEF AgentAssumption
<1>3. Asks(r) \in Command
  BY <1>2, AgentCodes DEF Asks, Idle, Command, Pcs, Working
<1>4. /\ Asks(r).kind = r.kind /\ Asks(r).to = r.to /\ Asks(r).pc = "handler"
      /\ Asks(r).status = NoStatus /\ Asks(r).exit = -1
  BY DEF Asks, Idle
<1> QED
  BY <1>1, <1>2, <1>3, <1>4

\* The types survive the move of a command.
LEMMA TypedMove ==
  ASSUME AgentTyped, NEW c \in Cmds, NEW m \in Command, cmd' = [cmd EXCEPT ![c] = m],
         UNCHANGED <<permit, modes>>, cursor' \in Cells, input' \in Seq(Written),
         m.kind = "drag" => m.to \in Cells,
         m.pc = "encode" => Mouse(m.kind) /\ m.at \in Cells,
         m.pc \in Working /\ Mouse(m.kind) => m.at \in Cells
  PROVE  AgentTyped'
BY DEF AgentTyped

\* What happens to a command that did not just start: it asks for the same, and has a cell
\* from the look at the target on.
LEMMA MoveOn ==
  ASSUME AgentTyped, NEW c \in Cmds, NEW m, Moves(c, m),
         UNCHANGED <<permit, modes>>, cursor' \in Cells, input' \in Seq(Written),
         m.pc = "encode" => Mouse(m.kind) /\ m.at \in Cells,
         m.pc \in Working /\ Mouse(m.kind) => m.at \in Cells
  PROVE  AgentTyped'
<1>1. m.kind = "drag" => m.to \in Cells
  BY DEF AgentTyped, Moves
<1> QED
  BY <1>1, TypedMove DEF Moves

LEMMA AgentTypedInit == AgentInit => AgentTyped
<1> SUFFICES ASSUME AgentInit PROVE AgentTyped
  OBVIOUS
<1>1. Idle \in Command /\ Idle.kind = "keys" /\ Idle.pc = "idle"
  BY AgentCodes DEF Idle, Command, Pcs, Working, Kinds
<1>2. <<>> \in Seq(Written)
  OBVIOUS
<1>3. <<0, 0>> \in Cells
  BY DEF Cells
<1>4. cmd \in [Cmds -> Command] /\ \A c \in Cmds : cmd[c].kind = "keys" /\ cmd[c].pc = "idle"
  BY <1>1 DEF AgentInit
<1> QED
  BY <1>2, <1>3, <1>4 DEF AgentInit, AgentTyped, Working

LEMMA AgentTypedStep == AgentTyped /\ [AgentNext]_agentVars => AgentTyped'
<1> SUFFICES ASSUME AgentTyped, [AgentNext]_agentVars PROVE AgentTyped'
  OBVIOUS
<1>1. CASE Others
  <2>1. UNCHANGED <<permit, cursor, cmd, input>>
    BY <1>1 DEF Others
  <2>2. modes' \in [mouse : BOOLEAN, paste : BOOLEAN]
    <3>1. CASE ProgramSetsMode
      <4>1. PICK m \in {"mouse", "paste"} : modes' = [modes EXCEPT ![m] = ~modes[m]]
        BY <3>1 DEF ProgramSetsMode
      <4>2. modes.mouse \in BOOLEAN /\ modes.paste \in BOOLEAN
        BY DEF AgentTyped
      <4> QED
        BY <4>1, <4>2 DEF AgentTyped
    <3>2. CASE ~ProgramSetsMode
      <4>1. CASE ProgramResets
        BY <4>1 DEF ProgramResets
      <4>2. CASE UNCHANGED modes
        BY <4>2 DEF AgentTyped
      <4> QED
        BY <1>1, <3>2, <4>1, <4>2 DEF Others, ScreenShrinks, SessionEnds
    <3> QED
      BY <3>1, <3>2
  <2> QED
    BY <2>1, <2>2 DEF AgentTyped
<1>2. ASSUME NEW c \in Cmds, KeysCommand(c) \/ MouseCommand(c) PROVE AgentTyped'
  <2>1. cursor \in Cells /\ input \in Seq(Written) /\ UNCHANGED <<permit, modes, cursor, input>>
    BY <1>2 DEF AgentTyped, KeysCommand, MouseCommand, keptVars
  <2> QED
    BY <1>2, <2>1, Starting, TypedMove DEF Working
<1>3. ASSUME NEW c \in Cmds, CommandEnds(c) PROVE AgentTyped'
  <2>1. cursor \in Cells /\ input \in Seq(Written) /\ UNCHANGED <<permit, modes, cursor, input>>
    BY <1>3 DEF AgentTyped, CommandEnds, keptVars
  <2>2. PICK m : /\ Moves(c, m) /\ m.pc = "done" /\ m.at = cmd[c].at /\ m.status = cmd[c].status
                 /\ m.exit = 0 => m.status = StatusOK
    BY <1>3, Ending
  <2> QED
    BY <1>3, <2>1, <2>2, MoveOn DEF Working
<1>4. ASSUME NEW c \in Cmds, NEW status \in Nat, Answer(c, status), UNCHANGED <<permit, modes, cursor>>,
             input' \in Seq(Written)
      PROVE  AgentTyped'
  <2>1. cursor \in Cells
    BY DEF AgentTyped
  <2> QED
    BY <1>4, <2>1, Answering, MoveOn DEF Working
<1>5. ASSUME NEW c \in Cmds, RefuseRequest(c) PROVE AgentTyped'
  BY <1>5, <1>4, AgentCodes DEF RefuseRequest, keptVars, AgentTyped
<1>6. ASSUME NEW c \in Cmds, NEW pc \in Working, Goto(c, pc), UNCHANGED <<permit, modes, input>>,
             cursor' \in Cells, ~Mouse(cmd[c].kind) \/ cmd[c].at \in Cells
      PROVE  AgentTyped'
  <2>1. input \in Seq(Written)
    BY DEF AgentTyped
  <2>0. pc \in Pcs
    BY DEF Pcs
  <2>2. PICK m : /\ Moves(c, m) /\ m.pc = pc
                 /\ m.at = cmd[c].at /\ m.status = cmd[c].status /\ m.exit = cmd[c].exit
    BY <1>6, <2>0, Going
  <2>3. m.kind = cmd[c].kind /\ m.pc # "encode"
    BY <2>2 DEF Moves, Working
  <2> QED
    BY <1>6, <2>1, <2>2, <2>3, MoveOn
<1>7. ASSUME NEW c \in Cmds, HandleKeys(c) PROVE AgentTyped'
  <2>1. UNCHANGED <<permit, modes, input, cursor>> /\ cursor \in Cells /\ ~Mouse(cmd[c].kind)
        /\ input \in Seq(Written)
    BY <1>7 DEF HandleKeys, keptVars, AgentTyped, Mouse
  <2>2. CASE Goto(c, "check")
    BY <2>1, <2>2, <1>6 DEF Working
  <2>3. CASE Answer(c, StatusOK)
    BY <2>1, <2>3, <1>4, AgentCodes
  <2> QED
    BY <2>2, <2>3, <1>7 DEF HandleKeys
<1>8. ASSUME NEW c \in Cmds, HandlePaste(c) PROVE AgentTyped'
  <2>1. /\ UNCHANGED <<permit, modes, input, cursor>> /\ cursor \in Cells /\ ~Mouse(cmd[c].kind)
        /\ input \in Seq(Written)
    BY <1>8 DEF HandlePaste, keptVars, AgentTyped, Mouse
  <2> QED
    BY <2>1, <1>8, Wrapping, MoveOn DEF Moves, Working
<1>9. ASSUME NEW c \in Cmds, HandleMouse(c) PROVE AgentTyped'
  <2>1. UNCHANGED <<permit, modes, input, cursor>> /\ cursor \in Cells /\ input \in Seq(Written)
    BY <1>9 DEF HandleMouse, keptVars, AgentTyped
  <2>2. CASE Answer(c, StatusConflict)
    BY <2>1, <2>2, <1>4, AgentCodes
  <2>3. ASSUME NEW m, Moves(c, m), m.pc = "encode", m.at \in Cells PROVE AgentTyped'
    <3>1. Mouse(m.kind)
      BY <2>3, <1>9 DEF Moves, HandleMouse
    <3> QED
      BY <2>1, <2>3, <3>1, MoveOn
  <2> QED
    BY <2>2, <2>3, <1>9, Targeting
<1>10. ASSUME NEW c \in Cmds, EncodeMouse(c) PROVE AgentTyped'
  <2>1. UNCHANGED <<permit, modes, input>> /\ cursor \in Cells /\ input \in Seq(Written)
    BY <1>10 DEF EncodeMouse, AgentTyped
  <2>2. CASE UNCHANGED cursor /\ (Answer(c, StatusConflict) \/ Answer(c, StatusBadRequest))
    BY <2>1, <2>2, <1>4, AgentCodes
  <2>3. CASE Goto(c, "check") /\ cursor' = Lands(c)
    <3>1. cmd[c].at \in Cells
      BY <1>10 DEF EncodeMouse, AgentTyped
    <3>2. Lands(c) \in Cells
      BY <3>1 DEF Lands, AgentTyped
    <3> QED
      BY <3>1, <3>2, <2>1, <2>3, <1>6 DEF Working
  <2> QED
    BY <2>2, <2>3, <1>10 DEF EncodeMouse, keptVars
<1>11. ASSUME NEW c \in Cmds, CheckState(c) PROVE AgentTyped'
  <2>1. UNCHANGED <<permit, modes, input, cursor>> /\ cursor \in Cells /\ input \in Seq(Written)
    BY <1>11 DEF CheckState, keptVars, AgentTyped
  <2>2. ~Mouse(cmd[c].kind) \/ cmd[c].at \in Cells
    BY <1>11 DEF CheckState, AgentTyped, Working
  <2> QED
    BY <2>1, <2>2, <1>4, <1>6, <1>11, AgentCodes DEF CheckState, Working
<1>12. ASSUME NEW c \in Cmds, WriteInput(c) PROVE AgentTyped'
  <2>1. UNCHANGED <<permit, modes, cursor>>
    BY <1>12 DEF WriteInput, keptVars
  <2>2. Payload(c, TRUE) \in Written /\ Payload(c, FALSE) \in Written
    BY DEF Payload, Written, AgentTyped, Command
  <2>3. input' \in Seq(Written)
    <3>1. \/ input' = input
          \/ input' = Append(input, Payload(c, TRUE)) \/ input' = Append(input, Payload(c, FALSE))
      <4>1. CASE state = "running"
        BY <1>12, <4>1 DEF WriteInput
      <4>2. CASE state # "running"
        BY <1>12, <4>2 DEF WriteInput
      <4> QED
        BY <4>1, <4>2
    <3>2. input \in Seq(Written)
      BY DEF AgentTyped
    <3>3. ASSUME NEW p \in Written PROVE Append(input, p) \in Seq(Written)
      BY <3>2
    <3>4. Append(input, Payload(c, TRUE)) \in Seq(Written) /\ Append(input, Payload(c, FALSE)) \in Seq(Written)
      BY <2>2, <3>3
    <3> QED
      BY <3>1, <3>2, <3>4
  <2> QED
    BY <2>1, <2>3, <1>4, <1>12, AgentCodes DEF WriteInput
<1>13. CASE UNCHANGED agentVars
  BY <1>13 DEF agentVars, AgentTyped
<1> QED
  BY <1>1, <1>2, <1>3, <1>5, <1>7, <1>8, <1>9, <1>10, <1>11, <1>12, <1>13 DEF AgentNext, Commanding

\* A command, the writes and the virtual mouse keep their types.
THEOREM AgentTypedAlways == AgentSpec => []AgentTyped
BY AgentTypedInit, AgentTypedStep, PTL DEF AgentSpec

-----------------------------------------------------------------------------
(* The answers.                                                             *)

\* A write adds itself to the writes of its command.
LEMMA WritesGrow ==
  ASSUME AgentTyped, NEW c \in Cmds, NEW d \in Cmds, NEW whole \in BOOLEAN,
         input' = Append(input, Payload(c, whole))
  PROVE  /\ Writes(d)' = IF d = c THEN Writes(d) \cup {Len(input) + 1} ELSE Writes(d)
         /\ Wholly(d)' = IF d = c /\ whole THEN Wholly(d) \cup {Len(input) + 1} ELSE Wholly(d)
<1>1. Payload(c, whole) \in Written /\ Payload(c, whole).by = c /\ Payload(c, whole).whole = whole
  BY DEF AgentTyped, Payload, Written, Command
<1>2. /\ DOMAIN input' = DOMAIN input \cup {Len(input) + 1}
      /\ \A i \in DOMAIN input : input'[i] = input[i]
      /\ input'[Len(input) + 1] = Payload(c, whole)
      /\ Len(input) + 1 \notin DOMAIN input
  BY <1>1 DEF AgentTyped
<1>3. Writes(d)' = IF d = c THEN Writes(d) \cup {Len(input) + 1} ELSE Writes(d)
  BY <1>1, <1>2 DEF Writes
<1>4. \A i \in DOMAIN input' : i \in Wholly(d)' <=> i \in Writes(d)' /\ input'[i].whole
  BY DEF Wholly
<1>5. \A i \in DOMAIN input : i \in Wholly(d) <=> i \in Writes(d) /\ input[i].whole
  BY DEF Wholly
<1>6. Wholly(d)' \subseteq DOMAIN input' /\ Wholly(d) \subseteq DOMAIN input
  BY DEF Wholly, Writes
<1>7. Writes(d) \subseteq DOMAIN input
  BY DEF Writes
<1> HIDE DEF Payload
<1>8. CASE d = c
  <2>1. \A i : i \in Wholly(d)' <=> i \in Wholly(d) \/ (whole /\ i = Len(input) + 1)
    BY <1>1, <1>2, <1>3, <1>4, <1>5, <1>6, <1>7, <1>8
  <2>2. Wholly(d)' = IF whole THEN Wholly(d) \cup {Len(input) + 1} ELSE Wholly(d)
    BY <2>1
  <2> QED
    BY <1>3, <1>8, <2>2
<1>9. CASE d # c
  <2>1. Writes(d)' = Writes(d)
    BY <1>3, <1>9
  <2>2. \A i : i \in Wholly(d)' <=> i \in Wholly(d)
    BY <1>2, <1>4, <1>5, <1>6, <1>7, <2>1
  <2> QED
    BY <1>9, <2>1, <2>2
<1> QED
  BY <1>8, <1>9

\* A move that writes nothing and answers neither 200 nor 500 for the first time, unless
\* there was nothing to write.
LEMMA AnswerMove ==
  ASSUME AgentTyped, IAnswer, NEW c \in Cmds, NEW m \in Command, cmd' = [cmd EXCEPT ![c] = m],
         UNCHANGED <<permit, input>>,
         m.pc \notin {"answered", "done"} => m.status = NoStatus,
         \/ m.status = cmd[c].status /\ (m.status = StatusOK =>
              m.kind = cmd[c].kind /\ m.empty = cmd[c].empty /\ m.wrapped = cmd[c].wrapped)
         \/ Writes(c) = {} /\ (m.status # StatusOK \/ (m.empty /\ ~(m.kind = "paste" /\ m.wrapped))),
         m.exit = 0 => m.status = StatusOK,
         ~permit => m.pc \notin Working \cup {"encode"}
  PROVE  IAnswer'
<1>1. \A d \in Cmds : Writes(d)' = Writes(d) /\ Wholly(d)' = Wholly(d)
  BY DEF Writes, Wholly
<1>2. \A d \in Cmds : cmd'[d] = IF d = c THEN m ELSE cmd[d]
  BY DEF AgentTyped
<1>3. \A d \in Cmds : Writes(d) = {} => Wholly(d) = {}
  BY DEF Wholly
<1> DEFINE Fine(d) ==
    /\ cmd[d].pc \notin {"answered", "done"} => cmd[d].status = NoStatus
    /\ Writes(d) # {} => \E i \in DOMAIN input : Writes(d) = {i}
    /\ cmd[d].status = StatusOK => Wholly(d) = Writes(d) /\ (Writes(d) # {} <=> HasBytes(d))
    /\ cmd[d].status = StatusInternalServerError => Wholly(d) = {}
    /\ cmd[d].status \notin {StatusOK, StatusInternalServerError} => Writes(d) = {}
    /\ cmd[d].exit = 0 => cmd[d].status = StatusOK
    /\ ~permit => Writes(d) = {} /\ cmd[d].pc \notin Working \cup {"encode"}
<1>4. \A d \in Cmds : Fine(d)
  BY DEF IAnswer
<1>5. \A d \in Cmds \ {c} : Fine(d)'
  BY <1>1, <1>2, <1>4 DEF HasBytes
<1>6. Fine(c)'
  BY <1>1, <1>2, <1>3, <1>4 DEF HasBytes
<1> QED
  BY <1>5, <1>6 DEF IAnswer

LEMMA IAnswerStep == AgentTyped /\ IAnswer /\ [AgentNext]_agentVars => IAnswer'
<1> SUFFICES ASSUME AgentTyped, IAnswer, [AgentNext]_agentVars PROVE IAnswer'
  OBVIOUS
<1>1. ASSUME NEW c \in Cmds, NEW status \in Nat \ {StatusOK}, Answer(c, status), UNCHANGED <<permit, input>>,
             cmd[c].pc \notin {"answered", "done"}
      PROVE  IAnswer'
  <2>1. PICK m : /\ Moves(c, m) /\ m.pc = "answered" /\ m.status = status
                 /\ m.at = cmd[c].at /\ m.exit = cmd[c].exit
    BY <1>1, Answering
  <2>2. cmd[c].status = NoStatus /\ cmd[c].exit # 0 /\ Writes(c) = {}
    BY <1>1, AgentCodes DEF IAnswer
  <2> QED
    BY <1>1, <2>1, <2>2, AnswerMove, AgentCodes DEF Moves, Working
<1>2. ASSUME NEW c \in Cmds, NEW m, Moves(c, m), UNCHANGED <<permit, input>>,
             m.status = cmd[c].status, m.exit = cmd[c].exit,
             cmd[c].pc \notin {"answered", "done"}, ~permit => m.pc \notin Working \cup {"encode"}
      PROVE  IAnswer'
  <2>1. cmd[c].status = NoStatus /\ cmd[c].exit # 0
    BY <1>2, AgentCodes DEF IAnswer
  <2> QED
    BY <1>2, <2>1, AnswerMove, AgentCodes DEF Moves
<1>3. ASSUME NEW c \in Cmds, NEW pc \in Working, Goto(c, pc), UNCHANGED <<permit, input>>,
             cmd[c].pc \notin {"answered", "done"}, permit
      PROVE  IAnswer'
  <2>0. pc \in Pcs
    BY DEF Pcs
  <2>1. PICK m : /\ Moves(c, m) /\ m.pc = pc
                 /\ m.at = cmd[c].at /\ m.status = cmd[c].status /\ m.exit = cmd[c].exit
    BY <1>3, <2>0, Going
  <2> QED
    BY <1>3, <2>1, <1>2
<1>4. CASE Others
  BY <1>4 DEF Others, IAnswer, Writes, Wholly, HasBytes
<1>5. ASSUME NEW c \in Cmds, KeysCommand(c) \/ MouseCommand(c) PROVE IAnswer'
  <2>1. UNCHANGED <<permit, input>> /\ cmd[c].pc = "idle"
    BY <1>5 DEF KeysCommand, MouseCommand
  <2>2. PICK m \in Command : /\ cmd' = [cmd EXCEPT ![c] = m]
                             /\ m.pc = "handler" /\ m.status = NoStatus /\ m.exit = -1
                             /\ m.kind = "drag" => m.to \in Cells
                             /\ Mouse(m.kind) <=> MouseCommand(c)
    BY <1>5, Starting
  <2>3. cmd[c].status = NoStatus
    BY <2>1 DEF IAnswer
  <2>4. m.status = cmd[c].status /\ m.status # StatusOK /\ m.exit # 0
    BY <2>2, <2>3, AgentCodes
  <2>5. m.pc \notin Working \cup {"encode"}
    BY <2>2 DEF Working
  <2> QED
    BY <2>1, <2>2, <2>4, <2>5, AnswerMove
<1>6. ASSUME NEW c \in Cmds, CommandEnds(c) PROVE IAnswer'
  <2>1. UNCHANGED <<permit, input>>
    BY <1>6 DEF CommandEnds
  <2>2. PICK m : /\ Moves(c, m) /\ m.pc = "done" /\ m.at = cmd[c].at /\ m.status = cmd[c].status
                 /\ m.wrapped = cmd[c].wrapped
                 /\ m.exit = 0 => m.status = StatusOK
    BY <1>6, Ending
  <2> QED
    BY <2>1, <2>2, AnswerMove DEF Moves, Working
<1>7. ASSUME NEW c \in Cmds, RefuseRequest(c) PROVE IAnswer'
  BY <1>7, <1>1, AgentCodes DEF RefuseRequest
<1>8. ASSUME NEW c \in Cmds, HandleKeys(c) PROVE IAnswer'
  <2>1. UNCHANGED <<permit, input>> /\ cmd[c].pc = "handler" /\ permit /\ cmd[c].kind = "keys"
    BY <1>8 DEF HandleKeys
  <2>2. CASE Goto(c, "check")
    BY <2>1, <2>2, <1>3 DEF Working
  <2>3. CASE cmd[c].empty /\ Answer(c, StatusOK)
    <3>1. PICK m : /\ Moves(c, m) /\ m.pc = "answered" /\ m.status = StatusOK
                   /\ m.at = cmd[c].at /\ m.exit = cmd[c].exit
      BY <2>3, Answering, AgentCodes
    <3>2. m.empty /\ m.kind = "keys" /\ Writes(c) = {}
      BY <2>1, <2>3, <3>1, AgentCodes DEF Moves, IAnswer
    <3> QED
      BY <2>1, <3>1, <3>2, AnswerMove DEF Moves, Working
  <2> QED
    BY <2>2, <2>3, <1>8 DEF HandleKeys
<1>9. ASSUME NEW c \in Cmds, HandlePaste(c) PROVE IAnswer'
  <2>1. UNCHANGED <<permit, input>> /\ cmd[c].pc = "handler" /\ permit
    BY <1>9 DEF HandlePaste
  <2>2. PICK m : /\ Moves(c, m) /\ m.at = cmd[c].at /\ m.exit = cmd[c].exit
                 /\ \/ m.pc = "check" /\ m.status = cmd[c].status
                    \/ m.pc = "answered" /\ m.status = StatusOK /\ m.empty /\ ~m.wrapped
    BY <1>9, Wrapping
  <2>3. CASE m.pc = "check" /\ m.status = cmd[c].status
    BY <2>1, <2>2, <2>3, <1>2
  <2>4. CASE m.pc = "answered" /\ m.status = StatusOK /\ m.empty /\ ~m.wrapped
    <3>1. Writes(c) = {}
      BY <2>1, AgentCodes DEF IAnswer
    <3> QED
      BY <2>1, <2>2, <2>4, <3>1, AnswerMove DEF Moves, Working
  <2> QED
    BY <2>2, <2>3, <2>4
<1>10. ASSUME NEW c \in Cmds, HandleMouse(c) PROVE IAnswer'
  <2>1. UNCHANGED <<permit, input>> /\ cmd[c].pc = "handler" /\ permit
    BY <1>10 DEF HandleMouse
  <2>2. CASE Answer(c, StatusConflict)
    BY <2>1, <2>2, <1>1, AgentCodes
  <2>3. ASSUME NEW m, Moves(c, m), m.status = cmd[c].status, m.exit = cmd[c].exit PROVE IAnswer'
    BY <2>1, <2>3, <1>2
  <2> QED
    BY <2>2, <2>3, <1>10, Targeting
<1>11. ASSUME NEW c \in Cmds, EncodeMouse(c) PROVE IAnswer'
  <2>1. UNCHANGED <<permit, input>> /\ cmd[c].pc = "encode"
    BY <1>11 DEF EncodeMouse
  <2>2. CASE Answer(c, StatusConflict) \/ Answer(c, StatusBadRequest)
    BY <2>1, <2>2, <1>1, AgentCodes
  <2>3. CASE Goto(c, "check") /\ permit
    BY <2>1, <2>3, <1>3 DEF Working
  <2>4. permit
    BY <2>1 DEF IAnswer
  <2> QED
    BY <2>2, <2>3, <2>4, <1>11 DEF EncodeMouse
<1>12. ASSUME NEW c \in Cmds, CheckState(c) PROVE IAnswer'
  <2>1. UNCHANGED <<permit, input>> /\ cmd[c].pc = "check" /\ permit
    BY <1>12 DEF CheckState, IAnswer, Working
  <2>2. CASE Answer(c, StatusConflict)
    BY <2>1, <2>2, <1>1, AgentCodes
  <2>3. CASE Goto(c, "write")
    BY <2>1, <2>3, <1>3 DEF Working
  <2> QED
    BY <2>2, <2>3, <1>12 DEF CheckState
<1>13. ASSUME NEW c \in Cmds, WriteInput(c) PROVE IAnswer'
  <2>1. UNCHANGED permit /\ cmd[c].pc = "write" /\ permit
    BY <1>13 DEF WriteInput, IAnswer, Working
  <2>2. CASE Answer(c, StatusInternalServerError) /\ UNCHANGED input
    BY <2>1, <2>2, <1>1, AgentCodes
  <2>3. ASSUME NEW status \in {StatusOK, StatusInternalServerError}, Answer(c, status), HasBytes(c),
               input' = Append(input, Payload(c, status = StatusOK))
        PROVE  IAnswer'
    <3>1. PICK m : /\ Moves(c, m) /\ m.pc = "answered" /\ m.status = status /\ m.wrapped = cmd[c].wrapped
                   /\ m.at = cmd[c].at /\ m.exit = cmd[c].exit
      BY <2>3, Answering, AgentCodes
    <3>2. \A d \in Cmds : cmd'[d] = IF d = c THEN m ELSE cmd[d]
      BY <3>1 DEF AgentTyped, Moves
    <3>3. Writes(c) = {} /\ Wholly(c) = {} /\ cmd[c].exit # 0
      BY <2>1, AgentCodes DEF IAnswer, Wholly
    <3>4. /\ Writes(c)' = {Len(input) + 1}
          /\ Wholly(c)' = IF status = StatusOK THEN {Len(input) + 1} ELSE {}
      BY <2>3, <3>3, WritesGrow
    <3>5. Len(input) + 1 \in DOMAIN input'
      BY <3>4 DEF Writes
    <3>6. \A d \in Cmds \ {c} : Writes(d)' = Writes(d) /\ Wholly(d)' = Wholly(d)
      BY <2>3, WritesGrow
    <3>7. \A i \in DOMAIN input : i \in DOMAIN input'
      BY <2>3 DEF AgentTyped
    <3>8. \A d \in Cmds \ {c} : HasBytes(d)' <=> HasBytes(d)
      BY <3>2 DEF HasBytes
    <3>9. HasBytes(c)'
      BY <2>3, <3>1, <3>2 DEF HasBytes, Moves
    <3>10. \A d \in Cmds : Writes(d)' # {} => \E i \in DOMAIN input' : Writes(d)' = {i}
      BY <3>4, <3>5, <3>6, <3>7 DEF IAnswer
    <3>11. ASSUME NEW d \in Cmds \ {c}
           PROVE  /\ cmd'[d].pc \notin {"answered", "done"} => cmd'[d].status = NoStatus
                  /\ cmd'[d].status = StatusOK => Wholly(d)' = Writes(d)' /\ (Writes(d)' # {} <=> HasBytes(d)')
                  /\ cmd'[d].status = StatusInternalServerError => Wholly(d)' = {}
                  /\ cmd'[d].status \notin {StatusOK, StatusInternalServerError} => Writes(d)' = {}
                  /\ cmd'[d].exit = 0 => cmd'[d].status = StatusOK
      BY <3>2, <3>6, <3>8 DEF IAnswer
    <3>12. /\ cmd'[c].pc = "answered" /\ cmd'[c].status = status /\ cmd'[c].exit # 0
      BY <3>1, <3>2, <3>3
    <3> QED
      BY <2>1, <3>4, <3>9, <3>10, <3>11, <3>12, AgentCodes DEF IAnswer
  <2>4. CASE Answer(c, StatusOK) /\ ~HasBytes(c) /\ UNCHANGED input
    <3>1. PICK m : /\ Moves(c, m) /\ m.pc = "answered" /\ m.status = StatusOK /\ m.wrapped = cmd[c].wrapped
                   /\ m.at = cmd[c].at /\ m.exit = cmd[c].exit
      BY <2>4, Answering, AgentCodes
    <3>2. Writes(c) = {} /\ m.empty /\ ~(m.kind = "paste" /\ m.wrapped)
      BY <2>1, <2>4, <3>1, AgentCodes DEF IAnswer, Moves, HasBytes, AgentTyped, Command
    <3> QED
      BY <2>1, <2>4, <3>1, <3>2, AnswerMove DEF Moves, Working
  <2>5. \/ /\ Answer(c, StatusOK)
           /\ IF HasBytes(c) THEN input' = Append(input, Payload(c, TRUE)) ELSE UNCHANGED input
        \/ /\ Answer(c, StatusInternalServerError)
           /\ UNCHANGED input \/ (HasBytes(c) /\ input' = Append(input, Payload(c, FALSE)))
    BY <1>13 DEF WriteInput
  <2> QED
    BY <2>2, <2>3, <2>4, <2>5, AgentCodes
<1>14. CASE UNCHANGED agentVars
  BY <1>14 DEF agentVars, IAnswer, Writes, Wholly, HasBytes
<1> QED
  BY <1>4, <1>5, <1>6, <1>7, <1>8, <1>9, <1>10, <1>11, <1>12, <1>13, <1>14 DEF AgentNext, Commanding

\* 200 says that the PTY took all the bytes, once, or that there were none, and so does exit
\* code 0; 500 that it did not take them all; any other status, and a read-only server, that
\* it took none, whenever the session ended.
THEOREM AnswersAreTrue == AgentSpec => []AnswerIsTrue
<1>1. AgentInit => IAnswer
  <2> SUFFICES ASSUME AgentInit PROVE IAnswer
    OBVIOUS
  <2>1. \A c \in Cmds : cmd[c] = Idle /\ Writes(c) = {}
    BY DEF AgentInit, Writes
  <2>2. Idle.pc = "idle" /\ Idle.status = NoStatus /\ Idle.exit = -1
    BY DEF Idle
  <2> QED
    BY <2>1, <2>2, AgentCodes DEF IAnswer, Working
<1>2. AgentTyped /\ IAnswer => AnswerIsTrue
  <2> SUFFICES ASSUME AgentTyped, IAnswer PROVE AnswerIsTrue
    OBVIOUS
  <2>1. ASSUME NEW c \in Cmds PROVE Cardinality(Writes(c)) <= 1
    <3>1. CASE Writes(c) = {}
      BY <3>1, FS_EmptySet
    <3>2. CASE Writes(c) # {}
      <4>1. PICK i \in DOMAIN input : Writes(c) = {i}
        BY <3>2 DEF IAnswer
      <4>2. Cardinality({i}) = 1
        BY FS_Singleton
      <4> QED
        BY <4>1, <4>2
    <3> QED
      BY <3>1, <3>2
  <2> QED
    BY <2>1 DEF IAnswer, AnswerIsTrue
<1> QED
  BY <1>1, <1>2, AgentTypedInit, AgentTypedStep, IAnswerStep, PTL DEF AgentSpec

-----------------------------------------------------------------------------
(* The mouse.                                                               *)

\* A move of a command that leaves the mice alone: a mouse request that is encoded stays
\* what it is, and none comes or goes.
LEMMA MouseMove ==
  ASSUME AgentTyped, IMouse, NEW c \in Cmds, NEW m \in Command, cmd' = [cmd EXCEPT ![c] = m],
         UNCHANGED <<held, cursor, seen>>, ~loose' => ~loose,
         m.pc \notin {"idle", "answered", "done"} /\ Mouse(m.kind) => Pointing(c),
         Pointing(c) /\ cmd[c].pc \in Working <=> Mouse(m.kind) /\ m.pc \in Working,
         Mouse(m.kind) /\ m.pc \in Working =>
           m.kind = cmd[c].kind /\ m.button = cmd[c].button /\ m.to = cmd[c].to /\ m.at = cmd[c].at
  PROVE  IMouse'
<1>1. \A d \in Cmds : cmd'[d] = IF d = c THEN m ELSE cmd[d]
  BY DEF AgentTyped
<1>2. \A d \in Cmds : Pointing(d)' => Pointing(d)
  BY <1>1 DEF Pointing, InFlight
<1>3. \A d \in Cmds : Pointing(d)' /\ cmd'[d].pc \in Working <=> Pointing(d) /\ cmd[d].pc \in Working
  BY <1>1 DEF Pointing, InFlight, Working
<1>4. ASSUME NEW d \in Cmds, Pointing(d)', cmd'[d].pc \in Working
      PROVE  /\ Lands(d)' = Lands(d) /\ cmd'[d].kind = cmd[d].kind
             /\ cmd'[d].button = cmd[d].button
  <2>1. CASE d = c
    BY <1>1, <1>4, <2>1 DEF Pointing, Lands
  <2>2. CASE d # c
    BY <1>1, <2>2 DEF Lands
  <2> QED
    BY <2>1, <2>2
<1>5. HeldNames' = HeldNames
  BY DEF HeldNames
<1> QED
  BY <1>2, <1>3, <1>4, <1>5 DEF IMouse

LEMMA IMouseStep == AgentTyped /\ IMouse /\ [AgentNext]_agentVars => IMouse'
<1> SUFFICES ASSUME AgentTyped, IMouse, [AgentNext]_agentVars PROVE IMouse'
  OBVIOUS
<1>1. ASSUME NEW c \in Cmds, NEW m, Moves(c, m), UNCHANGED <<held, cursor, seen>>, ~loose' => ~loose,
             cmd[c].pc \in Working /\ Mouse(m.kind) <=> m.pc \in Working /\ Mouse(m.kind),
             m.pc \in Working /\ Mouse(m.kind) => m.at = cmd[c].at,
             cmd[c].pc \in {"idle", "answered", "done"} => m.pc \in {"idle", "answered", "done"}
      PROVE  IMouse'
  BY <1>1, MouseMove DEF Moves, Pointing, InFlight, Working
<1>2. ASSUME NEW c \in Cmds, NEW status \in Nat, Answer(c, status), UNCHANGED <<held, cursor, seen>>,
             ~loose' => ~loose, cmd[c].pc \notin Working \/ ~Mouse(cmd[c].kind)
      PROVE  IMouse'
  <2>1. PICK m : /\ Moves(c, m) /\ m.pc = "answered" /\ m.status = status
                 /\ m.at = cmd[c].at /\ m.exit = cmd[c].exit
    BY <1>2, Answering
  <2> QED
    BY <1>2, <2>1, <1>1 DEF Moves, Working
<1>3. ASSUME NEW c \in Cmds, NEW pc \in Working, Goto(c, pc), UNCHANGED <<held, cursor, seen>>,
             ~loose' => ~loose, cmd[c].pc \in Working \/ (~Mouse(cmd[c].kind) /\ cmd[c].pc = "handler")
      PROVE  IMouse'
  <2>0. pc \in Pcs
    BY DEF Pcs
  <2>1. PICK m : /\ Moves(c, m) /\ m.pc = pc
                 /\ m.at = cmd[c].at /\ m.status = cmd[c].status /\ m.exit = cmd[c].exit
    BY <1>3, <2>0, Going
  <2> QED
    BY <1>3, <2>1, <1>1 DEF Moves, Working
<1>4. CASE Others
  <2>0. UNCHANGED <<cursor, cmd>>
    BY <1>4 DEF Others
  <2>1. CASE ProgramResets
    <3>1. seen'.down = {} /\ seen'.at = seen.at
      BY <2>1 DEF ProgramResets
    <3>2. ~loose' => ~loose /\ \A c \in Cmds : Pointing(c) => cmd[c].pc \notin Working
      <4>1. loose' = (loose \/ \E c \in Cmds : Pointing(c) /\ cmd[c].pc \in Working)
        BY <2>1 DEF ProgramResets, Working
      <4> QED
        BY <4>1
    <3> QED
      BY <2>0, <3>1, <3>2 DEF IMouse, Pointing, InFlight
  <2>2. CASE ~ProgramResets
    <3>1. UNCHANGED <<held, seen, loose>>
      BY <1>4, <2>2 DEF Others, ProgramSetsMode, ScreenShrinks, SessionEnds
    <3> QED
      BY <2>0, <3>1 DEF IMouse, Pointing, InFlight, HeldNames, Lands
  <2> QED
    BY <2>1, <2>2
<1>5. ASSUME NEW c \in Cmds, KeysCommand(c) PROVE IMouse'
  <2>1. UNCHANGED <<held, cursor, seen, loose>> /\ cmd[c].pc = "idle"
    BY <1>5 DEF KeysCommand, keptVars
  <2>2. PICK r \in Requests : ~Mouse(r.kind) /\ cmd' = [cmd EXCEPT ![c] = Asks(r)]
    BY <1>5 DEF KeysCommand
  <2>3. \A d \in Cmds : Pointing(d)' <=> Pointing(d)
    BY <2>1, <2>2 DEF AgentTyped, Pointing, InFlight, Asks, Idle
  <2>4. \A d \in Cmds : Pointing(d) => cmd'[d] = cmd[d]
    BY <2>1, <2>2 DEF AgentTyped, Pointing, InFlight
  <2> QED
    BY <2>1, <2>3, <2>4 DEF IMouse, HeldNames, Lands
<1>6. ASSUME NEW c \in Cmds, MouseCommand(c) PROVE IMouse'
  <2>1. UNCHANGED <<held, cursor, seen>> /\ (~loose' => ~loose /\ \A d \in Cmds : ~Pointing(d))
    BY <1>6 DEF MouseCommand, keptVars
  <2>2. PICK r \in Requests : Mouse(r.kind) /\ cmd' = [cmd EXCEPT ![c] = Asks(r)]
    BY <1>6 DEF MouseCommand
  <2>3. ASSUME ~loose' PROVE \A d \in Cmds : Pointing(d)' => d = c /\ cmd'[d].pc \notin Working
    BY <2>1, <2>2, <2>3 DEF AgentTyped, Pointing, InFlight, Asks, Idle, Working
  <2> QED
    BY <2>1, <2>3 DEF IMouse, HeldNames
<1>7. ASSUME NEW c \in Cmds, CommandEnds(c) PROVE IMouse'
  <2>1. UNCHANGED <<held, cursor, seen, loose>> /\ cmd[c].pc = "answered"
    BY <1>7 DEF CommandEnds, keptVars
  <2>2. PICK m : /\ Moves(c, m) /\ m.pc = "done" /\ m.at = cmd[c].at /\ m.status = cmd[c].status
                 /\ m.exit = 0 => m.status = StatusOK
    BY <1>7, Ending
  <2> QED
    BY <2>1, <2>2, <1>1 DEF Working
<1>8. ASSUME NEW c \in Cmds, RefuseRequest(c) PROVE IMouse'
  <2>1. UNCHANGED <<held, cursor, seen, loose>> /\ cmd[c].pc \notin Working
    BY <1>8 DEF RefuseRequest, keptVars, Working
  <2> QED
    BY <1>8, <2>1, <1>2, AgentCodes DEF RefuseRequest
<1>9. ASSUME NEW c \in Cmds, HandleKeys(c) PROVE IMouse'
  <2>1. UNCHANGED <<held, cursor, seen, loose>> /\ cmd[c].pc = "handler" /\ ~Mouse(cmd[c].kind)
    BY <1>9 DEF HandleKeys, keptVars, Mouse
  <2> QED
    BY <1>9, <2>1, <1>2, <1>3, AgentCodes DEF HandleKeys, Working
<1>10. ASSUME NEW c \in Cmds, HandlePaste(c) PROVE IMouse'
  <2>1. UNCHANGED <<held, cursor, seen, loose>> /\ cmd[c].pc = "handler" /\ ~Mouse(cmd[c].kind)
    BY <1>10 DEF HandlePaste, keptVars, Mouse
  <2>2. PICK m : /\ Moves(c, m) /\ m.at = cmd[c].at /\ m.exit = cmd[c].exit
                 /\ \/ m.pc = "check" /\ m.status = cmd[c].status
                    \/ m.pc = "answered" /\ m.status = StatusOK /\ m.empty /\ ~m.wrapped
    BY <1>10, Wrapping
  <2> QED
    BY <2>1, <2>2, <1>1 DEF Moves
<1>11. ASSUME NEW c \in Cmds, HandleMouse(c) PROVE IMouse'
  <2>1. UNCHANGED <<held, cursor, seen, loose>> /\ cmd[c].pc = "handler"
    BY <1>11 DEF HandleMouse, keptVars
  <2>2. CASE Answer(c, StatusConflict)
    BY <2>1, <2>2, <1>2, AgentCodes DEF Working
  <2>3. ASSUME NEW m, Moves(c, m), m.pc = "encode" PROVE IMouse'
    BY <2>1, <2>3, <1>1 DEF Working
  <2> QED
    BY <2>2, <2>3, <1>11, Targeting
<1>12. ASSUME NEW c \in Cmds, EncodeMouse(c) PROVE IMouse'
  <2>1. UNCHANGED <<seen, loose>> /\ cmd[c].pc = "encode" /\ Pointing(c)
    BY <1>12 DEF EncodeMouse, AgentTyped, Pointing, InFlight
  <2>2. CASE UNCHANGED keptVars /\ (Answer(c, StatusConflict) \/ Answer(c, StatusBadRequest))
    BY <2>1, <2>2, <1>2, AgentCodes DEF keptVars, Working
  <2>3. ASSUME NEW b, held' = MarkHeld(c, b), cursor' = Lands(c), Goto(c, "check") PROVE IMouse'
    <3>1. PICK m : /\ Moves(c, m) /\ m.pc = "check"
                   /\ m.at = cmd[c].at /\ m.status = cmd[c].status /\ m.exit = cmd[c].exit
      BY <2>3, Going DEF Pcs, Working
    <3>2. \A d \in Cmds : cmd'[d] = IF d = c THEN m ELSE cmd[d]
      BY <3>1 DEF Moves, AgentTyped
    <3>3. Lands(c)' = Lands(c) /\ cmd'[c].kind = cmd[c].kind /\ cmd'[c].button = cmd[c].button
          /\ Pointing(c)' /\ cmd'[c].pc \in Working
      BY <2>1, <3>1, <3>2 DEF Moves, Lands, Pointing, InFlight, Working
    <3>4. cmd[c].kind \notin {"up", "click"} => held \subseteq held'
      BY <2>3 DEF MarkHeld
    <3>5. cmd[c].kind = "down" => cmd[c].button \in held'
      BY <2>3 DEF MarkHeld
    <3>6. ~loose => \A d \in Cmds : Pointing(d)' => d = c
      BY <2>1, <3>2 DEF IMouse, Pointing, InFlight
    <3>7. ~loose => seen.down \subseteq HeldNames
      BY <2>1 DEF IMouse, Working
    <3>8. cmd[c].kind \notin {"up", "click"} => HeldNames \subseteq HeldNames'
      BY <3>4 DEF HeldNames
    <3>9. cmd[c].kind = "down" => Lower[cmd[c].button] \in HeldNames'
      BY <3>5 DEF HeldNames
    <3> QED
      BY <2>1, <2>3, <3>3, <3>6, <3>7, <3>8, <3>9 DEF IMouse
  <2> QED
    BY <2>2, <2>3, <1>12 DEF EncodeMouse
<1>13. ASSUME NEW c \in Cmds, CheckState(c) PROVE IMouse'
  <2>1. UNCHANGED <<held, cursor, seen>> /\ cmd[c].pc = "check"
    BY <1>13 DEF CheckState, keptVars
  <2>2. CASE loose'
    BY <2>2 DEF IMouse
  <2>3. CASE ~loose'
    <3>0. loose' = (loose \/ (state = "destroyed" /\ Mouse(cmd[c].kind)))
      BY <1>13 DEF CheckState
    <3>1. ~loose /\ (state = "destroyed" => ~Mouse(cmd[c].kind))
      BY <2>3, <3>0
    <3>2. CASE Answer(c, StatusConflict) /\ state = "destroyed"
      BY <2>1, <3>1, <3>2, <1>2, AgentCodes
    <3>3. CASE Goto(c, "write")
      BY <2>1, <3>1, <3>3, <1>3 DEF Working
    <3> QED
      BY <3>2, <3>3, <1>13 DEF CheckState
  <2> QED
    BY <2>2, <2>3
<1>14. ASSUME NEW c \in Cmds, WriteInput(c) PROVE IMouse'
  <2>1. UNCHANGED <<held, cursor>> /\ cmd[c].pc = "write"
    BY <1>14 DEF WriteInput, keptVars
  <2>2. CASE loose'
    BY <2>2 DEF IMouse
  <2>3. ~loose' => ~loose /\ (state # "running" => ~Mouse(cmd[c].kind))
    <3>1. CASE state = "running"
      BY <1>14, <3>1 DEF WriteInput
    <3>2. CASE state # "running"
      <4>1. loose' = (loose \/ Mouse(cmd[c].kind))
        BY <1>14, <3>2 DEF WriteInput
      <4> QED
        BY <3>2, <4>1
    <3> QED
      BY <3>1, <3>2
  <2>4. /\ Answer(c, StatusOK) \/ Answer(c, StatusInternalServerError)
        /\ ~Mouse(cmd[c].kind) => UNCHANGED seen
        /\ state = "running" /\ Mouse(cmd[c].kind) => See(c) /\ Answer(c, StatusOK)
    BY <1>14 DEF WriteInput
  <2>5. CASE ~Mouse(cmd[c].kind)
    BY <2>1, <2>3, <2>4, <2>5, <1>2, AgentCodes
  <2>6. CASE ~loose' /\ Mouse(cmd[c].kind)
    <3>1. See(c) /\ Answer(c, StatusOK) /\ ~loose
      BY <2>3, <2>4, <2>6
    <3>2. PICK m : /\ Moves(c, m) /\ m.pc = "answered" /\ m.status = StatusOK
                   /\ m.at = cmd[c].at /\ m.exit = cmd[c].exit
      BY <3>1, Answering, AgentCodes
    <3>3. \A d \in Cmds : cmd'[d] = IF d = c THEN m ELSE cmd[d]
      BY <3>2 DEF Moves, AgentTyped
    <3>4. Pointing(c) /\ cmd[c].pc \in Working
      BY <2>1, <2>6 DEF Pointing, InFlight, Working
    <3>5. \A d \in Cmds : ~Pointing(d)'
      BY <3>1, <3>2, <3>3, <3>4 DEF IMouse, Pointing, InFlight
    <3>6. cursor = Lands(c) /\ seen'.at = Lands(c)
      BY <3>1, <3>4 DEF IMouse, See
    <3>7. seen'.down \subseteq HeldNames
      BY <3>1, <3>4 DEF IMouse, See
    <3>8. HeldNames' = HeldNames
      BY <2>1 DEF HeldNames
    <3> QED
      BY <2>1, <3>5, <3>6, <3>7, <3>8 DEF IMouse
  <2> QED
    BY <2>2, <2>5, <2>6
<1>15. CASE UNCHANGED agentVars
  BY <1>15 DEF agentVars, IMouse, Pointing, InFlight, HeldNames, Lands
<1> QED
  BY <1>4, <1>5, <1>6, <1>7, <1>8, <1>9, <1>10, <1>11, <1>12, <1>13, <1>14, <1>15 DEF AgentNext, Commanding

-----------------------------------------------------------------------------
(* The glide.                                                               *)

\* Division of natural numbers, and the laws of products its bounds rest on.
LEMMA DivFacts ==
  \A a \in Nat, s \in Nat \ {0} : a \div s \in Nat /\ s * (a \div s) <= a /\ a < s * (a \div s) + s
OBVIOUS

LEMMA Products ==
  /\ \A a, b, c \in Nat : a <= b => a * c <= b * c
  /\ \A a, b \in Int : a * b = b * a /\ (-a) * b = -(a * b)
  /\ \A a, b, c \in Int : a * (b + c) = a * b + a * c
  /\ \A a, b \in Nat : a * b \in Nat
  /\ \A p, q \in Nat, s \in Nat \ {0} : s * p < s * q + s => p <= q
<1>1. \A a, b, c \in Nat : a <= b => a * c <= b * c
  OBVIOUS
<1>2. \A a, b \in Int : a * b = b * a /\ (-a) * b = -(a * b)
  OBVIOUS
<1>3. \A a, b, c \in Int : a * (b + c) = a * b + a * c
  OBVIOUS
<1>4. \A a, b \in Nat : a * b \in Nat
  OBVIOUS
<1>5. \A p, q \in Nat, s \in Nat \ {0} : s * p < s * q + s => p <= q
  OBVIOUS
<1> QED
  BY <1>1, <1>2, <1>3, <1>4, <1>5

\* A part of a distance is no more than the distance, and the next part adds at most one
\* cell when there are as many parts as cells.
LEMMA DivParts ==
  ASSUME NEW d \in Nat, NEW s \in Nat \ {0}, NEW n \in 0 .. s
  PROVE  /\ (d * n) \div s \in 0 .. d
         /\ (d * s) \div s = d /\ (d * 0) \div s = 0
         /\ d <= s /\ n < s => (d * (n + 1)) \div s - (d * n) \div s \in {0, 1}
<1>1. (d * n) \div s \in 0 .. d
  BY DivFacts, Products
<1>2. (d * s) \div s = d /\ (d * 0) \div s = 0
  OBVIOUS
<1>3. ASSUME d <= s, n < s PROVE (d * (n + 1)) \div s - (d * n) \div s \in {0, 1}
  <2> DEFINE p == (d * n) \div s
             q == (d * (n + 1)) \div s
  <2>1. d * (n + 1) = d * n + d /\ d * n \in Nat
    BY Products
  <2>2. p \in Nat /\ s * p <= d * n /\ d * n < s * p + s
    BY <2>1, DivFacts
  <2>3. q \in Nat /\ s * q <= d * n + d /\ d * n + d < s * q + s
    BY <2>1, DivFacts
  <2> HIDE DEF p, q
  <2>4. s * p < s * q + s
    BY <2>1, <2>2, <2>3, Products
  <2>5. s * q < s * (p + 1) + s
    <3>1. s * (p + 1) = s * p + s
      BY <2>2, Products
    <3> QED
      BY <1>3, <2>1, <2>2, <2>3, <3>1, Products
  <2>6. p <= q /\ q <= p + 1
    BY <2>2, <2>3, <2>4, <2>5, Products
  <2> QED
    BY <2>2, <2>3, <2>6 DEF p, q
<1> QED
  BY <1>1, <1>2, <1>3

\* The same for distances in either direction.
LEMMA QuotParts ==
  ASSUME NEW d \in Int, NEW s \in Nat \ {0}, NEW n \in 0 .. s
  PROVE  /\ Quot(d * n, s) \in Int
         /\ (0 <= Quot(d * n, s) /\ Quot(d * n, s) <= d) \/ (d <= Quot(d * n, s) /\ Quot(d * n, s) <= 0)
         /\ Quot(d * s, s) = d /\ Quot(d * 0, s) = 0
         /\ Abs(d) <= s /\ n < s => Abs(Quot(d * n, s) - Quot(d * (n + 1), s)) <= 1
<1>1. CASE d >= 0
  <2>1. \A k \in 0 .. s : d * k >= 0 /\ d * k \in Int
    BY <1>1, Products
  <2>2. \A k \in 0 .. s : Quot(d * k, s) = (d * k) \div s
    BY <2>1 DEF Quot
  <2>3. d \in Nat /\ Abs(d) = d
    BY <1>1 DEF Abs
  <2>4. n < s => n + 1 \in 0 .. s
    OBVIOUS
  <2>5. (d * n) \div s \in 0 .. d /\ (d * s) \div s = d /\ (d * 0) \div s = 0
    BY <2>3, DivParts
  <2>6. d <= s /\ n < s => (d * (n + 1)) \div s - (d * n) \div s \in {0, 1}
    BY <2>3, DivParts
  <2>7. /\ Quot(d * n, s) = (d * n) \div s /\ Quot(d * s, s) = (d * s) \div s /\ Quot(d * 0, s) = (d * 0) \div s
        /\ n < s => Quot(d * (n + 1), s) = (d * (n + 1)) \div s
    <3>1. 0 \in 0 .. s /\ s \in 0 .. s
      OBVIOUS
    <3> QED
      BY <2>2, <2>4, <3>1, Zenon
  <2>8. n < s => (d * (n + 1)) \div s \in Int
    <3>1. n < s => d * (n + 1) \in Nat
      BY <2>3, Products
    <3> QED
      BY <3>1, DivFacts
  <2>9. \A x, y \in Int : y - x \in {0, 1} => Abs(x - y) <= 1
    BY DEF Abs
  <2>10. Abs(d) <= s /\ n < s => Abs(Quot(d * n, s) - Quot(d * (n + 1), s)) <= 1
    <3> SUFFICES ASSUME Abs(d) <= s, n < s PROVE Abs(Quot(d * n, s) - Quot(d * (n + 1), s)) <= 1
      OBVIOUS
    <3> DEFINE x == (d * n) \div s
               y == (d * (n + 1)) \div s
    <3>1. x \in Int /\ y \in Int /\ y - x \in {0, 1}
      BY <2>3, <2>5, <2>6, <2>8
    <3> HIDE DEF x, y
    <3>2. Abs(x - y) <= 1
      BY <3>1, <2>9
    <3> QED
      BY <2>7, <3>2 DEF x, y
  <2> QED
    BY <2>5, <2>7, <2>10
<1>2. CASE d < 0
  <2> DEFINE e == -d
  <2>1. e \in Nat /\ Abs(d) = e
    BY <1>2 DEF Abs
  <2>2. \A k \in 0 .. s : d * k = -(e * k) /\ e * k \in Nat
    BY <2>1, Products
  <2>3. \A k \in 0 .. s : Quot(d * k, s) = -((e * k) \div s)
    <3> SUFFICES ASSUME NEW k \in 0 .. s PROVE Quot(d * k, s) = -((e * k) \div s)
      OBVIOUS
    <3>1. CASE e * k = 0
      BY <2>2, <3>1 DEF Quot
    <3>2. CASE e * k # 0
      BY <2>2, <3>2 DEF Quot
    <3> QED
      BY <3>1, <3>2
  <2> HIDE DEF e
  <2>4. d = -e
    BY <2>1 DEF e
  <2>5. n < s => n + 1 \in 0 .. s
    OBVIOUS
  <2>6. (e * n) \div s \in 0 .. e /\ (e * s) \div s = e /\ (e * 0) \div s = 0
    BY <2>1, DivParts
  <2>7. e <= s /\ n < s => (e * (n + 1)) \div s - (e * n) \div s \in {0, 1}
    BY <2>1, DivParts
  <2>8. n < s => (e * (n + 1)) \div s \in Int
    BY <2>1, <2>2, DivFacts
  <2>9. \A x, y \in Int : y - x \in {0, 1} => Abs((-x) - (-y)) <= 1
    BY DEF Abs
  <2>10. /\ Quot(d * n, s) = -((e * n) \div s) /\ Quot(d * s, s) = -((e * s) \div s)
         /\ Quot(d * 0, s) = -((e * 0) \div s)
         /\ n < s => Quot(d * (n + 1), s) = -((e * (n + 1)) \div s)
    BY <2>3, <2>5
  <2>11. Abs(d) <= s /\ n < s => Abs(Quot(d * n, s) - Quot(d * (n + 1), s)) <= 1
    BY <2>1, <2>6, <2>7, <2>8, <2>9, <2>10
  <2> QED
    BY <2>1, <2>4, <2>6, <2>10, <2>11
<1> QED
  BY <1>1, <1>2

\* A drag from one cell to another is a glide that ends at the other.
LEMMA InterpolateGlides ==
  ASSUME NEW from \in Cells, NEW to \in Cells
  PROVE  LET path == Interpolate(from, to) IN path # <<>> /\ Last(path) = to /\ Glides(path)
<1> DEFINE path == Interpolate(from, to)
           d == [i \in 1 .. 2 |-> to[i] - from[i]]
           far == IF Abs(d[1]) > Abs(d[2]) THEN Abs(d[1]) ELSE Abs(d[2])
           steps == IF far > MaxSteps THEN MaxSteps ELSE far
<1>1. /\ from[1] \in Int /\ from[2] \in Int /\ to[1] \in Int /\ to[2] \in Int
      /\ from = <<from[1], from[2]>> /\ to = <<to[1], to[2]>>
  BY DEF Cells
<1>2. MaxSteps \in Nat \ {0}
  BY AgentAssumption DEF AgentAssumption
<1>3. \A i \in 1 .. 2 : d[i] \in Int /\ d[i] = to[i] - from[i]
  BY <1>1
<1>4. far \in Nat /\ \A i \in 1 .. 2 : Abs(d[i]) <= far
  BY <1>3 DEF Abs
<1>5. CASE far = 0
  <2>1. path = <<from>>
    BY <1>5 DEF Interpolate
  <2>2. d[1] = 0 /\ d[2] = 0
    BY <1>3, <1>4, <1>5 DEF Abs
  <2>3. from = to
    BY <1>1, <1>3, <2>2
  <2>4. Len(<<from>>) = 1 /\ <<from>>[1] = from /\ <<from>> # <<>> /\ DOMAIN <<from>> = {1}
    OBVIOUS
  <2>5. Last(<<from>>) = from
    BY <2>4 DEF Last
  <2>6. Glides(<<from>>)
    BY <1>1, <1>2, <2>4, <2>5 DEF Glides
  <2> QED
    BY <2>1, <2>3, <2>4, <2>5, <2>6
<1>6. CASE far # 0
  <2>1. steps \in Nat \ {0} /\ steps <= MaxSteps /\ (steps < MaxSteps => steps = far)
    BY <1>2, <1>4, <1>6
  <2> DEFINE At(n) == [i \in 1 .. 2 |-> from[i] + Quot(d[i] * (n - 1), steps)]
  <2>2. path = [n \in 1 .. steps + 1 |-> At(n)]
    BY <1>6 DEF Interpolate
  <2> HIDE DEF path, d, far, steps
  <2>3. ASSUME NEW n \in 1 .. steps + 1, NEW i \in 1 .. 2
        PROVE  /\ At(n)[i] = from[i] + Quot(d[i] * (n - 1), steps)
               /\ Quot(d[i] * (n - 1), steps) \in Int
               /\ \/ 0 <= Quot(d[i] * (n - 1), steps) /\ Quot(d[i] * (n - 1), steps) <= d[i]
                  \/ d[i] <= Quot(d[i] * (n - 1), steps) /\ Quot(d[i] * (n - 1), steps) <= 0
    <3>1. n - 1 \in 0 .. steps
      BY <2>1
    <3> QED
      BY <1>3, <2>1, <3>1, QuotParts
  <2>4. At(1) = from /\ At(steps + 1) = to
    <3>1. \A i \in 1 .. 2 : Quot(d[i] * 0, steps) = 0 /\ Quot(d[i] * steps, steps) = d[i]
      BY <1>3, <2>1, QuotParts
    <3>2. 1 - 1 = 0 /\ (steps + 1) - 1 = steps /\ 1 \in 1 .. 2 /\ 2 \in 1 .. 2
      BY <2>1
    <3>3. At(1)[1] = from[1] /\ At(1)[2] = from[2]
      BY <1>1, <3>1, <3>2
    <3>4. At(steps + 1)[1] = to[1] /\ At(steps + 1)[2] = to[2]
      BY <1>1, <1>3, <3>1, <3>2
    <3>5. \A n \in Int : At(n) = <<At(n)[1], At(n)[2]>>
      OBVIOUS
    <3> QED
      BY <1>1, <2>1, <3>3, <3>4, <3>5
  <2>5. Len(path) = steps + 1 /\ DOMAIN path = 1 .. steps + 1 /\ path # <<>> /\ \A n \in 1 .. steps + 1 : path[n] = At(n)
    <3> DEFINE S == {At(n) : n \in 1 .. steps + 1}
    <3> HIDE DEF At
    <3>1. DOMAIN path = 1 .. steps + 1 /\ \A n \in 1 .. steps + 1 : path[n] = At(n)
      BY <2>2
    <3>2. path \in [1 .. steps + 1 -> S]
      BY <2>2
    <3>3. steps + 1 \in Nat /\ steps + 1 # 0
      BY <2>1
    <3> HIDE DEF S
    <3>4. path \in Seq(S)
      BY <3>2, <3>3
    <3>5. Len(path) \in Nat /\ DOMAIN path = 1 .. Len(path)
      BY <3>4
    <3>6. Len(path) = steps + 1
      BY <3>1, <3>3, <3>5
    <3> QED
      BY <3>1, <3>3, <3>4, <3>6
  <2> HIDE DEF At
  <2>6. Last(path) = to /\ path[1] = from
    BY <2>1, <2>4, <2>5 DEF Last
  <2>7. Len(path) <= MaxSteps + 1
    BY <1>2, <2>1, <2>5
  <2>8. ASSUME Len(path) <= MaxSteps, NEW n \in 1 .. Len(path) - 1, NEW i \in 1 .. 2
        PROVE  Abs(path[n][i] - path[n + 1][i]) <= 1
    <3>1. steps = far /\ n \in 1 .. steps
      BY <1>2, <2>1, <2>5, <2>8
    <3>2. n \in 1 .. steps + 1 /\ n + 1 \in 1 .. steps + 1 /\ n - 1 \in 0 .. steps /\ n - 1 < steps /\ (n - 1) + 1 = n
          /\ (n + 1) - 1 = n
      BY <2>1, <3>1
    <3>3. Abs(d[i]) <= steps
      BY <1>4, <3>1
    <3>4. Abs(Quot(d[i] * (n - 1), steps) - Quot(d[i] * n, steps)) <= 1
      BY <1>3, <2>1, <3>2, <3>3, QuotParts
    <3>5. /\ path[n][i] = from[i] + Quot(d[i] * (n - 1), steps) /\ Quot(d[i] * (n - 1), steps) \in Int
          /\ path[n + 1][i] = from[i] + Quot(d[i] * n, steps) /\ Quot(d[i] * n, steps) \in Int
      BY <2>3, <2>5, <3>2
    <3>6. path[n][i] - path[n + 1][i] = Quot(d[i] * (n - 1), steps) - Quot(d[i] * n, steps)
      BY <1>1, <3>5
    <3> QED
      BY <3>4, <3>6
  <2>9. ASSUME NEW n \in DOMAIN path, NEW i \in 1 .. 2
        PROVE  \/ path[1][i] <= path[n][i] /\ path[n][i] <= Last(path)[i]
               \/ Last(path)[i] <= path[n][i] /\ path[n][i] <= path[1][i]
    <3>1. path[n][i] = from[i] + Quot(d[i] * (n - 1), steps)
      BY <2>3, <2>5
    <3>2. to[i] = from[i] + d[i] /\ from[i] \in Int /\ d[i] \in Int
      BY <1>1, <1>3
    <3> DEFINE q == Quot(d[i] * (n - 1), steps)
    <3>3. q \in Int /\ ((0 <= q /\ q <= d[i]) \/ (d[i] <= q /\ q <= 0))
      BY <2>3, <2>5
    <3>4. path[1][i] = from[i] /\ Last(path)[i] = to[i] /\ path[n][i] = from[i] + q
      BY <2>6, <3>1
    <3> HIDE DEF q
    <3> QED
      BY <3>2, <3>3, <3>4
  <2>10. Glides(path)
    BY <2>7, <2>8, <2>9 DEF Glides
  <2> QED
    BY <2>5, <2>6, <2>10 DEF path
<1> QED
  BY <1>5, <1>6

\* An event at one cell is a glide.
LEMMA PointGlides == ASSUME NEW cell \in Cells PROVE Last(<<cell>>) = cell /\ Glides(<<cell>>)
<1>1. Len(<<cell>>) = 1 /\ <<cell>>[1] = cell /\ DOMAIN <<cell>> = {1}
  OBVIOUS
<1>2. Last(<<cell>>) = cell
  BY <1>1 DEF Last
<1>3. cell[1] \in Int /\ cell[2] \in Int
  BY DEF Cells
<1>4. 1 <= MaxSteps + 1
  BY AgentAssumption DEF AgentAssumption
<1> QED
  BY <1>1, <1>2, <1>3, <1>4 DEF Glides

LEMMA IPathStep == AgentTyped /\ IPath /\ [AgentNext]_agentVars => IPath'
<1> SUFFICES ASSUME AgentTyped, IPath, [AgentNext]_agentVars PROVE IPath'
  OBVIOUS
<1>1. CASE seen'.path = seen.path /\ seen'.at = seen.at
  BY <1>1 DEF IPath
<1>2. ASSUME NEW c \in Cmds, See(c), cmd[c].pc = "write", Mouse(cmd[c].kind) PROVE IPath'
  <2>1. /\ seen'.at = Lands(c)
        /\ seen'.path = IF cmd[c].kind = "drag" THEN Interpolate(cmd[c].at, cmd[c].to) ELSE <<cmd[c].at>>
    BY <1>2 DEF See
  <2>2. cmd[c].at \in Cells /\ (cmd[c].kind = "drag" => cmd[c].to \in Cells)
    BY <1>2 DEF AgentTyped, Working
  <2>3. CASE cmd[c].kind = "drag"
    BY <2>1, <2>2, <2>3, InterpolateGlides DEF IPath, Lands
  <2>4. CASE cmd[c].kind # "drag"
    BY <2>1, <2>2, <2>4, PointGlides DEF IPath, Lands
  <2> QED
    BY <2>3, <2>4
<1>3. CASE Others
  <2>1. CASE ProgramResets
    BY <2>1, <1>1 DEF ProgramResets
  <2>2. CASE ~ProgramResets
    BY <1>3, <2>2, <1>1 DEF Others, ProgramSetsMode, ScreenShrinks, SessionEnds
  <2> QED
    BY <2>1, <2>2
<1>4. ASSUME NEW c \in Cmds, WriteInput(c) PROVE IPath'
  <2>1. cmd[c].pc = "write" /\ ((Mouse(cmd[c].kind) /\ See(c)) \/ UNCHANGED seen)
    BY <1>4 DEF WriteInput
  <2> QED
    BY <2>1, <1>1, <1>2
<1>5. ASSUME NEW c \in Cmds, Commanding(c), ~WriteInput(c) PROVE UNCHANGED seen
  BY <1>5 DEF Commanding, KeysCommand, MouseCommand, CommandEnds, RefuseRequest, HandleKeys, HandlePaste,
              HandleMouse, EncodeMouse, CheckState
<1>6. CASE UNCHANGED agentVars
  BY <1>6, <1>1 DEF agentVars
<1> QED
  BY <1>1, <1>3, <1>4, <1>5, <1>6 DEF AgentNext

\* The buttons the program sees down are held and the cursor is where it saw the last event,
\* as long as mouse requests come one at a time; every drag reaches it as a glide.
THEOREM MiceAgree == AgentSpec => []MouseAgrees
<1>1. AgentInit => IMouse /\ IPath
  BY DEF AgentInit, Idle, IMouse, IPath, Pointing, InFlight, HeldNames
<1>2. IMouse /\ IPath => MouseAgrees
  BY DEF IMouse, IPath, MouseAgrees, HeldNames
<1> QED
  BY <1>1, <1>2, AgentTypedInit, AgentTypedStep, IMouseStep, IPathStep, PTL DEF AgentSpec

-----------------------------------------------------------------------------
(* The bare up.                                                             *)

\* The button that is held under the code's own name for it is let go by a bare up.
THEOREM BareUpLetsGo == AgentSpec => BareUpReleases
<1>1. AgentTyped /\ [AgentNext]_agentVars => [BareUp]_agentVars
  <2> SUFFICES ASSUME AgentTyped, AgentNext, NEW c \in Cmds, NEW b \in Buttons,
                      cmd[c].kind = "up", cmd[c].button = NoButton, cmd[c].pc = "encode",
                      cmd'[c].pc = "check", held = {b}
               PROVE  held' = {}
    BY DEF BareUp
  <2>1. EncodeMouse(c)
    <3>1. ASSUME NEW d \in Cmds, Commanding(d), d # c PROVE cmd'[c] = cmd[c]
      BY <3>1 DEF Commanding, KeysCommand, MouseCommand, CommandEnds, RefuseRequest, HandleKeys, HandlePaste,
                  HandleMouse, EncodeMouse, CheckState, WriteInput, Goto, Answer, AgentTyped
    <3>2. ~Others
      BY DEF Others
    <3>3. Commanding(c)
      BY <3>1, <3>2 DEF AgentNext
    <3> QED
      BY <3>3 DEF Commanding, KeysCommand, MouseCommand, CommandEnds, RefuseRequest, HandleKeys, HandlePaste,
                  HandleMouse, CheckState, WriteInput
  <2>2. ~Answer(c, StatusConflict) /\ ~Answer(c, StatusBadRequest)
    BY DEF Answer, AgentTyped, Command
  <2>3. PICK p \in HeldButtons : held' = MarkHeld(c, Otherwise(p))
    BY <2>1, <2>2 DEF EncodeMouse
  <2>4. p = b /\ Otherwise(p) = b
    <3>1. b # NoButton
      BY AgentAssumption DEF AgentAssumption
    <3> QED
      BY <2>3, <3>1 DEF HeldButtons, Otherwise
  <2> QED
    BY <2>3, <2>4 DEF MarkHeld
<1> QED
  BY <1>1, AgentTypedInit, AgentTypedStep, PTL DEF AgentSpec, BareUpReleases

=============================================================================
