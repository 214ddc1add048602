------------------------------ MODULE Emulator ------------------------------
(***************************************************************************)
(* The mirror's emulator (internal/capture/emulator.go, graphics.go): a    *)
(* wrapper that scans the program's output byte by byte, tracks a few      *)
(* modes, and feeds x/vt a stream of its own: runes are held back until    *)
(* they are complete, CSI s and CSI b are replaced, an insert (ICH) or a   *)
(* line break is put before some runes.  Reads cut the stream anywhere;    *)
(* Write is called once per read, under the session's mirrorMu.            *)
(*                                                                         *)
(* A byte is a token.  "lead","cont" are the two bytes of a rune of two    *)
(* cells, "ph1","ph2" those of the kitty placeholder; "4" is any           *)
(* parameter; OSC, DCS and APC are one kind of string ("_").               *)
(***************************************************************************)
EXTENDS Naturals, Sequences, FiniteSets, SequencesExt, FiniteSetsExt, Along

CONSTANTS
  EmKinds,     \* what the program may write
  EmMaxItems,  \* bound: items the program writes
  EmMaxResize, \* bound: resizes of the mirror
  EmQueueCap   \* the capacity of answerCh (64 in the code)

EmWidth == 2   \* bound: columns of the screen

\* The sequences a program writes, as bytes.
Bytes == [
  char   |-> <<"a">>,
  wide   |-> <<"lead", "cont">>,
  hint   |-> <<"ph1", "ph2">>,
  save   |-> <<"esc", "[", "s">>,
  repeat |-> <<"esc", "[", "4", "b">>,
  irmOn  |-> <<"esc", "[", "4", "h">>,
  irmOff |-> <<"esc", "[", "4", "l">>,
  modeOn |-> <<"esc", "[", "?", "4", "h">>,
  query  |-> <<"esc", "[", "n">>,
  reset  |-> <<"esc", "c">>,
  single |-> <<"esc", "_", "G", "esc", "st">>,
  first  |-> <<"esc", "_", "1", "esc", "st">>,
  last   |-> <<"esc", "_", "0", "esc", "st">> ]

ASSUME EmAssumption ==
  /\ EmKinds \subseteq DOMAIN Bytes
  /\ EmMaxItems \in Nat /\ EmMaxResize \in Nat /\ EmQueueCap \in Nat \ {0}

VARIABLES
  emItems,     \* history: what the program wrote
  emPipe,      \* the bytes of it that were not read yet
  emScan,      \* e.scanner
  emVt,        \* x/vt: its parser and what it did
  emModes,     \* e.modes holds the one mode modelled
  emPics,      \* Len(e.images)
  emPending,   \* e.kittyPending holds data
  emQueue,     \* e.answerCh, answers numbered in the order of their queries
  emHand,      \* the answer the pump has read and not queued yet
  emAsked,     \* history: queries x/vt answered
  emTaken,     \* history: answers DrainAnswers returned
  emLost,      \* history: answers cleared, or dropped because the queue was full
  emPhase,     \* mirrorMu: "free", or Write has run and DrainAnswers has not
  emResizes,   \* resizes so far
  emBase,      \* history: Len(emItems) at the last resize
  emOdd        \* history: the stream met a gap of the wrapper (see Gap)

emulatorVars == <<emItems, emPipe, emScan, emVt, emModes, emPics, emPending, emQueue, emHand,
                  emAsked, emTaken, emLost, emPhase, emResizes, emBase, emOdd>>

-----------------------------------------------------------------------------
(* The scanner.  An event is [kind, data]; data is the rune or the           *)
(* replacement.                                                              *)

Rune == [a |-> <<"a">>, cont |-> <<"lead", "cont">>, ph2 |-> <<"ph1", "ph2">>]
CellsOf(r) == IF r = Rune.cont THEN 2 ELSE 1

ScanReset == [st |-> "scan", priv |-> FALSE, num |-> FALSE, len |-> 0, lead |-> "", last |-> <<>>,
              insert |-> FALSE, hits |-> 0, buf |-> <<>>, repl |-> <<>>]

None(s) == [s |-> s, ev |-> "none", data |-> <<>>]
Whole(s, b) == [s |-> [s EXCEPT !.st = "scan", !.last = Rune[b]], ev |-> "rune", data |-> Rune[b]]

\* A byte in the ground state.
ScanByte(s, b) ==
  CASE b = "esc" -> None([s EXCEPT !.st = "esc"])
    [] b \in {"lead", "ph1"} -> None([s EXCEPT !.st = "utf8", !.lead = b])
    [] b \in {"cont", "ph2"} -> None([s EXCEPT !.st = "scan"])
    [] OTHER -> [s |-> [s EXCEPT !.st = "scan", !.last = <<b>>], ev |-> "rune", data |-> <<b>>]

\* The final byte of a CSI: queries are counted, IRM is noted, s and b are replaced.
CSIFinal(s, b) ==
  LET t == [s EXCEPT !.st = "scan", !.hits = @ + (IF b \in {"n", "c"} THEN 1 ELSE 0)]
      u == CASE b = "s" /\ ~s.priv -> [t EXCEPT !.repl = <<"esc", "7">>]
             [] b = "b" /\ s.last # <<>> -> [t EXCEPT !.repl = s.last \o s.last]
             [] b \in {"h", "l"} /\ ~s.priv /\ s.num -> [t EXCEPT !.insert = (b = "h")]
             [] OTHER -> t
      kind == CASE b = "b" \/ (b = "s" /\ ~s.priv) -> "replaced"
                [] b \in {"h", "l"} /\ s.priv /\ s.num -> (IF b = "h" THEN "on" ELSE "off")
                [] OTHER -> "none"
  IN [s |-> u, ev |-> kind, data |-> u.repl]

Advance(s, b) ==
  CASE s.st = "scan" -> ScanByte(s, b)
    [] s.st = "utf8" -> IF b = (IF s.lead = "lead" THEN "cont" ELSE "ph2") THEN Whole(s, b) ELSE ScanByte(s, b)
    [] s.st = "esc" ->
         (CASE b = "[" -> None([s EXCEPT !.st = "csi", !.priv = FALSE, !.num = FALSE, !.len = 2])
            [] b = "_" -> None([s EXCEPT !.st = "str", !.buf = <<>>])
            [] b = "c" -> [s |-> ScanReset, ev |-> "ris", data |-> <<>>]
            [] OTHER -> None([s EXCEPT !.st = "scan"]))
    [] s.st = "csi" ->
         LET t == [s EXCEPT !.len = @ + 1] IN
         (CASE b = "?" -> None([t EXCEPT !.priv = TRUE])
            [] b = "4" -> None([t EXCEPT !.num = TRUE])
            [] OTHER -> CSIFinal(t, b))
    [] s.st = "str" ->
         None(IF b = "esc" THEN [s EXCEPT !.st = "strEnd"] ELSE [s EXCEPT !.buf = Append(@, b)])
    [] s.st = "strEnd" ->
         IF b = "st" THEN [s |-> [s EXCEPT !.st = "scan", !.buf = <<>>], ev |-> "payload", data |-> s.buf]
         ELSE None([s EXCEPT !.st = "str"])

-----------------------------------------------------------------------------
(* x/vt, external: a parser that drops a wide rune at the right edge, knows  *)
(* neither IRM nor CSI s, repeats nothing, and takes an ESC anywhere.  out   *)
(* is what it did: a rune and whether an insert of its width came before it. *)

VtReset == [st |-> "scan", x |-> 0, ins |-> 0, out |-> <<>>]

Place(v, r) ==
  LET w == CellsOf(r)
      ins == v.ins = w
      x == IF v.x + w > EmWidth THEN w ELSE v.x + w
  IN IF v.x + w > EmWidth /\ w > 1
     THEN [v EXCEPT !.ins = 0]
     ELSE [v EXCEPT !.x = x, !.ins = 0, !.out = Append(@, <<r, ins>>)]

\* Taken in any state: the start of a sequence, and what the wrapper feeds between runs.
Anywhere == {"esc", "crlf", "ich1", "ich2"}

VtByte(v, b) ==
  CASE b = "esc" -> [v EXCEPT !.st = IF v.st \in {"str", "strEnd"} THEN "strEnd" ELSE "esc"]
    [] b = "crlf" -> [v EXCEPT !.x = 0]
    [] b \in {"ich1", "ich2"} -> [v EXCEPT !.ins = IF b = "ich1" THEN 1 ELSE 2]
    [] b \notin Anywhere /\ v.st = "esc" ->
         (CASE b = "[" -> [v EXCEPT !.st = "csi"]
            [] b = "_" -> [v EXCEPT !.st = "str"]
            [] b = "c" -> VtReset
            [] b = "7" -> [v EXCEPT !.st = "scan", !.out = Append(@, <<<<"saved">>, FALSE>>)]
            [] OTHER -> [v EXCEPT !.st = "scan"])
    [] b \notin Anywhere /\ v.st = "csi" -> IF b \in {"4", "?"} THEN v ELSE [v EXCEPT !.st = "scan"]
    [] b \notin Anywhere /\ v.st = "str" -> v
    [] b \notin Anywhere /\ v.st = "strEnd" -> [v EXCEPT !.st = IF b = "st" THEN "scan" ELSE "str"]
    [] v.st = "scan" /\ b \in {"a", "cont", "ph2"} -> Place(v, Rune[b])
    [] OTHER -> v

-----------------------------------------------------------------------------
(* Emulator.Write.  w is what it works on: the scanner, x/vt, the run it has *)
(* not handed over, the modes, the pictures, and the answers.                *)

EmRoom(q, more) == SubSeq(q \o more, 1, Min({EmQueueCap, Len(q \o more)}))

\* x/vt answers a query when it gets it.  Its answers go through a pipe, so the pump has
\* queued, or dropped, all of them but the one it is busy with.
Flush(w) ==
  LET n == Cardinality({i \in DOMAIN w.run : w.run[i] = "n"})
      all == w.hand \o [i \in 1 .. n |-> w.asked + i]
      done == IF n = 0 THEN <<>> ELSE Front(all)
  IN [w EXCEPT !.vt = Along(VtByte, @, w.run), !.run = <<>>, !.asked = @ + n,
               !.queue = EmRoom(@, done),
               !.lost = @ \cup (ToSet(done) \ ToSet(EmRoom(w.queue, done))),
               !.hand = IF n = 0 THEN @ ELSE <<Last(all)>>]

\* handleAPC with finishKitty; base64 and the image decoders are external: a picture is
\* made of a single payload, or of a first part and the last one.
HandleAPC(w, p) ==
  CASE p = <<"1">> -> [w EXCEPT !.pending = TRUE]
    [] p = <<"0">> -> [w EXCEPT !.pending = FALSE, !.pics = @ + (IF w.pending THEN 1 ELSE 0)]
    [] p = <<"G">> -> [w EXCEPT !.pending = FALSE, !.pics = @ + (IF w.pending THEN 0 ELSE 1)]
    [] OTHER -> w

\* onRIS: the wrapper's own state; x/vt gets the bytes later, with the run.
OnRIS(w) ==
  [w EXCEPT !.modes = FALSE, !.pics = 0, !.pending = FALSE, !.lost = @ \cup ToSet(w.queue), !.queue = <<>>]

\* A complete rune: a line break before a wide one that does not fit, an insert under IRM.
PutRune(w, r) ==
  LET wide == CellsOf(r) > 1
      f == IF wide \/ w.scan.insert THEN Flush(w) ELSE w
      g == IF wide /\ f.vt.x + CellsOf(r) > EmWidth THEN [f EXCEPT !.vt = VtByte(@, "crlf")] ELSE f
      h == IF w.scan.insert THEN [g EXCEPT !.vt = VtByte(@, IF wide THEN "ich2" ELSE "ich1")] ELSE g
  IN [h EXCEPT !.run = @ \o r]

\* Mutant: the final byte is counted among the bytes to cut.
SpliceOneMore(w, repl) ==
  LET cut == Min({w.scan.len, Len(w.run)})
  IN [w EXCEPT !.run = SubSeq(@, 1, Len(@) - cut) \o repl]

\* The bytes of the CSI that are still in the run give way to the replacement.
Splice(w, repl) ==
  LET cut == Min({w.scan.len - 1, Len(w.run)})
  IN [w EXCEPT !.run = SubSeq(@, 1, Len(@) - cut) \o repl]

WriteByte(w, b) ==
  LET a == Advance(w.scan, b)
      u == [w EXCEPT !.scan = a.s]
  IN CASE a.ev = "rune" -> PutRune(u, a.data)
       [] a.ev = "replaced" -> Splice(u, a.data)
       [] a.ev = "payload" -> HandleAPC(Flush([u EXCEPT !.run = Append(@, b)]), a.data)
       [] a.ev = "ris" -> [OnRIS(u) EXCEPT !.run = Append(@, b)]
       [] a.ev \in {"on", "off"} -> [u EXCEPT !.modes = (a.ev = "on"), !.run = Append(@, b)]
       [] OTHER -> IF a.s.st = "utf8" THEN u ELSE [u EXCEPT !.run = Append(@, b)]

\* bytes.ReplaceAll(p, kittyPlaceholderUTF8, nil)
Stripped(p) ==
  LET Gone(i) == \/ p[i] = "ph1" /\ i < Len(p) /\ p[i+1] = "ph2"
                 \/ p[i] = "ph2" /\ i > 1 /\ p[i-1] = "ph1"
  IN Those(p, {i \in 1 .. Len(p) : ~Gone(i)})

Work == [scan |-> emScan, vt |-> emVt, run |-> <<>>, modes |-> emModes, pics |-> emPics, pending |-> emPending,
         queue |-> emQueue, hand |-> emHand, asked |-> emAsked, lost |-> emLost]

-----------------------------------------------------------------------------
(* What the reference makes of the items: a terminal that knows IRM and REP, *)
(* wraps, and does not care where reads cut.                                 *)

RefItem(f, k) ==
  LET put(r) == [f EXCEPT !.last = r, !.out = Append(@, <<r, f.insert>>)]
  IN CASE k = "char" -> put(Rune.a)
       [] k = "wide" -> put(Rune.cont)
       [] k = "save" -> [f EXCEPT !.out = Append(@, <<<<"saved">>, FALSE>>)]
       [] k = "repeat" -> [f EXCEPT !.out = @ \o (IF f.last = <<>> THEN <<>> ELSE << <<f.last, FALSE>>, <<f.last, FALSE>> >>)]
       [] k \in {"irmOn", "irmOff"} -> [f EXCEPT !.insert = (k = "irmOn")]
       [] k = "modeOn" -> [f EXCEPT !.mode = TRUE]
       [] k = "reset" -> [out |-> <<>>, last |-> <<>>, insert |-> FALSE, mode |-> FALSE, pics |-> 0, part |-> FALSE]
       [] k = "first" -> [f EXCEPT !.part = TRUE]
       [] k = "last" -> [f EXCEPT !.part = FALSE, !.pics = @ + (IF f.part THEN 1 ELSE 0)]
       [] k = "single" -> [f EXCEPT !.part = FALSE, !.pics = @ + (IF f.part THEN 0 ELSE 1)]
       [] OTHER -> f

RefBlank == [out |-> <<>>, last |-> <<>>, insert |-> FALSE, mode |-> FALSE, pics |-> 0, part |-> FALSE]
Reference(items) == Along(RefItem, RefBlank, items)

\* The gaps of the wrapper: a repeat that is cut by a read, or comes under IRM, after a
\* wide rune, or with no rune since the last resize; a placeholder that is cut.
Gap(k, cut) ==
  LET f == Reference(SubSeq(emItems, emBase + 1, Len(emItems))) IN
  \/ k = "repeat" /\ (cut \/ Reference(emItems).insert \/ f.last # Rune.a)
  \/ k = "hint" /\ cut

-----------------------------------------------------------------------------
EmulatorInit ==
  /\ emItems = <<>> /\ emPipe = <<>> /\ emScan = ScanReset /\ emVt = VtReset
  /\ emModes = FALSE /\ emPics = 0 /\ emPending = FALSE
  /\ emQueue = <<>> /\ emHand = <<>> /\ emAsked = 0 /\ emTaken = <<>> /\ emLost = {}
  /\ emPhase = "free" /\ emResizes = 0 /\ emBase = 0 /\ emOdd = FALSE

\* The program writes one item; a read takes the bytes up to any place in it, with what
\* the read before left over.  The rest stays in the pipe.
EmReads(k, n) ==
  LET bytes == emPipe \o Bytes[k]
      w == Flush(Along(WriteByte, Work, Stripped(SubSeq(bytes, 1, n))))
  IN
  /\ emPhase = "free" /\ Len(emItems) < EmMaxItems
  /\ n > Len(emPipe) /\ n <= Len(bytes)
  /\ emItems' = Append(emItems, k)
  /\ emPipe' = SubSeq(bytes, n + 1, Len(bytes))
  /\ emScan' = w.scan /\ emVt' = w.vt /\ emModes' = w.modes /\ emPics' = w.pics /\ emPending' = w.pending
  /\ emQueue' = w.queue /\ emHand' = w.hand /\ emAsked' = w.asked /\ emLost' = w.lost
  /\ emPhase' = "written"
  /\ emOdd' = (emOdd \/ Gap(k, n < Len(bytes)))
  /\ UNCHANGED <<emTaken, emResizes, emBase>>

\* The rest is read, nothing more being written.
EmReadsRest ==
  LET w == Flush(Along(WriteByte, Work, Stripped(emPipe))) IN
  /\ emPhase = "free" /\ emPipe # <<>>
  /\ emPipe' = <<>>
  /\ emScan' = w.scan /\ emVt' = w.vt /\ emModes' = w.modes /\ emPics' = w.pics /\ emPending' = w.pending
  /\ emQueue' = w.queue /\ emHand' = w.hand /\ emAsked' = w.asked /\ emLost' = w.lost
  /\ emPhase' = "written"
  /\ UNCHANGED <<emItems, emTaken, emResizes, emBase, emOdd>>

\* answerPump: the answer in hand is queued, or dropped when the queue is full.
EmPumps ==
  /\ emHand # <<>>
  /\ emQueue' = EmRoom(emQueue, emHand)
  /\ emLost' = emLost \cup (ToSet(emHand) \ ToSet(EmRoom(emQueue, emHand)))
  /\ emHand' = <<>>
  /\ UNCHANGED <<emItems, emPipe, emScan, emVt, emModes, emPics, emPending, emAsked, emTaken, emPhase,
                 emResizes, emBase, emOdd>>

\* Mutant: what the first loop took is forgotten by the one that waits.
EmDrainsAnew(late) ==
  /\ emPhase = "written"
  /\ late => emScan.hits > 0 /\ emHand # <<>>
  /\ emTaken' = emTaken \o (IF emScan.hits > 0 THEN <<>> ELSE emQueue) \o (IF late THEN emHand ELSE <<>>)
  /\ emQueue' = <<>>
  /\ emHand' = (IF late THEN <<>> ELSE emHand)
  /\ emScan' = [emScan EXCEPT !.hits = 0]
  /\ emPhase' = "free"
  /\ UNCHANGED <<emItems, emPipe, emVt, emModes, emPics, emPending, emAsked, emLost, emResizes, emBase, emOdd>>

\* DrainAnswers: the queue, and, when there was a query, what the pump delivers within
\* answerWait (late).
EmDrains(late) ==
  /\ emPhase = "written"
  /\ late => emScan.hits > 0 /\ emHand # <<>>
  /\ emTaken' = emTaken \o emQueue \o (IF late THEN emHand ELSE <<>>)
  /\ emQueue' = <<>>
  /\ emHand' = (IF late THEN <<>> ELSE emHand)
  /\ emScan' = [emScan EXCEPT !.hits = 0]
  /\ emPhase' = "free"
  /\ UNCHANGED <<emItems, emPipe, emVt, emModes, emPics, emPending, emAsked, emLost, emResizes, emBase, emOdd>>

\* Resize to another size: pictures, the scanner and the queued answers go; the modes stay.
\* A sequence that is half read, or IRM, is forgotten with the scanner.
EmResizeMirror ==
  /\ emPhase = "free" /\ emResizes < EmMaxResize
  /\ emResizes' = emResizes + 1
  /\ emPics' = 0 /\ emPending' = FALSE /\ emScan' = ScanReset
  /\ emLost' = emLost \cup ToSet(emQueue) /\ emQueue' = <<>>
  /\ emBase' = Len(emItems)
  /\ emOdd' = (emOdd \/ emScan.st # "scan" \/ emScan.insert)
  /\ UNCHANGED <<emItems, emPipe, emVt, emModes, emHand, emAsked, emTaken, emPhase>>

EmulatorNext ==
  \/ \E k \in EmKinds : \E n \in 1 .. Len(emPipe \o Bytes[k]) : EmReads(k, n)
  \/ EmReadsRest
  \/ EmPumps
  \/ \E late \in BOOLEAN : EmDrains(late)
  \/ EmResizeMirror

EmulatorSpec == EmulatorInit /\ [][EmulatorNext]_emulatorVars

-----------------------------------------------------------------------------
\* Everything the program wrote was read.
AllRead == emPipe = <<>> /\ emPhase = "free"

\* The terminal is where one that reads each sequence whole would be, wherever the reads cut
\* the stream (emulator.go Write, trackMode, onRIS, Resize; graphics.go handleAPC):
\* - x/vt did what the program asked for, in that order and once: no rune is lost at the
\*   edge or in a cut, every rune under IRM is inserted, every CSI s saves the cursor;
\* - the mode that is tracked (mouse reporting, bracketed paste) is the one last set, which
\*   a resize does not clear;
\* - the pictures are those completed since the last reset or resize: a part from before
\*   it makes no picture with a part from after it.
StreamIntact ==
  AllRead /\ ~emOdd =>
    /\ emVt.out = Reference(emItems).out
    /\ emModes = Reference(emItems).mode
    /\ emPics = Reference(SubSeq(emItems, emBase + 1, Len(emItems))).pics

\* Every answer is drained once, in the order of the queries, unless it was cleared or
\* dropped (answerPump, DrainAnswers, clearAnswers).
AnswersKept ==
  LET kept == emTaken \o emQueue \o emHand IN
  /\ \A i \in 1 .. Len(kept) - 1 : kept[i] < kept[i+1]
  /\ ToSet(kept) \cup emLost = 1 .. emAsked /\ ToSet(kept) \cap emLost = {}

=============================================================================
