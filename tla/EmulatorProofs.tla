-------------------------- MODULE EmulatorProofs --------------------------
(***************************************************************************)
(* The emulator behind the mirror (Emulator), for any stream, any cuts of  *)
(* it by reads, any number of resizes and any capacity of the queue: what  *)
(* becomes of the answers, and where the terminal is.                      *)
(***************************************************************************)
EXTENDS Emulator, Induction, FiniteSetTheorems, SequenceTheorems, TLAPS

-----------------------------------------------------------------------------
(* Emulator: rows of answers.                                               *)

\* The elements of a row are those of its parts.
LEMMA ElementsOfBoth ==
  ASSUME NEW S, NEW a \in Seq(S), NEW b \in Seq(S)
  PROVE  ToSet(a \o b) = ToSet(a) \cup ToSet(b)
<1> DEFINE n == Len(a)
           m == Len(b)
           c == a \o b
<1>1. n \in Nat /\ m \in Nat /\ DOMAIN a = 1 .. n /\ DOMAIN b = 1 .. m /\ DOMAIN c = 1 .. n + m
  BY LenProperties, ConcatProperties
<1>2. \A i \in 1 .. n + m : c[i] = IF i <= n THEN a[i] ELSE b[i - n]
  BY ConcatProperties
<1> HIDE DEF n, m, c
<1>3. ASSUME NEW x \in ToSet(c) PROVE x \in ToSet(a) \cup ToSet(b)
  <2>1. PICK i \in 1 .. n + m : x = c[i]
    BY <1>1, <1>3 DEF ToSet
  <2>2. CASE i <= n
    BY <1>1, <1>2, <2>1, <2>2 DEF ToSet
  <2>3. CASE ~ (i <= n)
    <3>1. i - n \in 1 .. m
      BY <1>1, <2>1, <2>3
    <3> QED
      BY <1>1, <1>2, <2>1, <2>3, <3>1 DEF ToSet
  <2> QED
    BY <2>2, <2>3
<1>4. ASSUME NEW x \in ToSet(a) PROVE x \in ToSet(c)
  <2>1. PICK i \in 1 .. n : x = a[i]
    BY <1>1, <1>4 DEF ToSet
  <2>2. i \in 1 .. n + m /\ i <= n
    BY <1>1, <2>1
  <2> QED
    BY <1>1, <1>2, <2>1, <2>2 DEF ToSet
<1>5. ASSUME NEW x \in ToSet(b) PROVE x \in ToSet(c)
  <2>1. PICK i \in 1 .. m : x = b[i]
    BY <1>1, <1>5 DEF ToSet
  <2>2. n + i \in 1 .. n + m /\ ~ (n + i <= n) /\ (n + i) - n = i
    BY <1>1, <2>1
  <2>3. c[n + i] = b[i]
    BY <1>2, <2>2
  <2> QED
    BY <1>1, <2>1, <2>2, <2>3 DEF ToSet
<1> QED
  BY <1>3, <1>4, <1>5 DEF c

Rises(s) == \A i, j \in 1 .. Len(s) : i < j => s[i] < s[j]

\* A row rises if its parts do and the second is above the first.
LEMMA RisesBoth ==
  ASSUME NEW a \in Seq(Nat), NEW b \in Seq(Nat)
  PROVE  Rises(a \o b) <=> Rises(a) /\ Rises(b) /\ \A x \in ToSet(a), y \in ToSet(b) : x < y
<1> DEFINE n == Len(a)
           m == Len(b)
           c == a \o b
<1>1. n \in Nat /\ m \in Nat /\ DOMAIN a = 1 .. n /\ DOMAIN b = 1 .. m /\ Len(c) = n + m
  BY LenProperties, ConcatProperties
<1>2. \A i \in 1 .. n + m : c[i] = IF i <= n THEN a[i] ELSE b[i - n]
  BY ConcatProperties
<1>3. Rises(a) <=> \A i, j \in 1 .. n : i < j => a[i] < a[j]
  BY DEF Rises
<1>4. Rises(b) <=> \A i, j \in 1 .. m : i < j => b[i] < b[j]
  BY DEF Rises
<1> HIDE DEF n, m, c
<1>5. \A i \in 1 .. n : i \in 1 .. n + m /\ c[i] = a[i]
  BY <1>1, <1>2
<1>6. \A i \in 1 .. m : n + i \in 1 .. n + m /\ c[n + i] = b[i]
  BY <1>1, <1>2
<1>7. ASSUME Rises(c) PROVE Rises(a) /\ Rises(b) /\ \A x \in ToSet(a), y \in ToSet(b) : x < y
  <2>1. \A i, j \in 1 .. n + m : i < j => c[i] < c[j]
    BY <1>1, <1>7 DEF Rises
  <2>2. Rises(a)
    BY <1>3, <1>5, <2>1
  <2>3. Rises(b)
    <3>1. ASSUME NEW i \in 1 .. m, NEW j \in 1 .. m, i < j PROVE b[i] < b[j]
      <4>1. n + i < n + j
        BY <1>1, <3>1
      <4> QED
        BY <1>6, <2>1, <4>1
    <3> QED
      BY <1>4, <3>1
  <2>4. ASSUME NEW x \in ToSet(a), NEW y \in ToSet(b) PROVE x < y
    <3>1. PICK i \in 1 .. n : x = a[i]
      BY <1>1 DEF ToSet
    <3>2. PICK j \in 1 .. m : y = b[j]
      BY <1>1 DEF ToSet
    <3>3. i < n + j
      BY <1>1
    <3> QED
      BY <1>5, <1>6, <2>1, <3>1, <3>2, <3>3
  <2> QED
    BY <2>2, <2>3, <2>4
<1>8. ASSUME Rises(a), Rises(b), \A x \in ToSet(a), y \in ToSet(b) : x < y PROVE Rises(c)
  <2>1. \A i \in 1 .. n, j \in 1 .. m : a[i] < b[j]
    BY <1>1, <1>8 DEF ToSet
  <2>2. ASSUME NEW i \in 1 .. n + m, NEW j \in 1 .. n + m, i < j PROVE c[i] < c[j]
    <3>1. CASE j <= n
      BY <1>1, <1>2, <1>3, <1>8, <2>2, <3>1
    <3>2. CASE i <= n /\ ~ (j <= n)
      <4>1. i \in 1 .. n /\ j - n \in 1 .. m
        BY <1>1, <3>2
      <4> QED
        BY <1>2, <2>1, <3>2, <4>1
    <3>3. CASE ~ (i <= n)
      <4>1. i - n \in 1 .. m /\ j - n \in 1 .. m /\ i - n < j - n /\ ~ (j <= n)
        BY <1>1, <2>2, <3>3
      <4> QED
        BY <1>2, <1>4, <1>8, <3>3, <4>1
    <3> QED
      BY <3>1, <3>2, <3>3
  <2> QED
    BY <1>1, <2>2 DEF Rises
<1> QED
  BY <1>7, <1>8 DEF c

\* The answers s are kept and those in lost are not, of the first m.
Kept(s, m, lost) == Rises(s) /\ ToSet(s) \cup lost = 1 .. m /\ ToSet(s) \cap lost = {}

\* A part of the row is lost.
LEMMA PartIsLost ==
  ASSUME NEW t \in Seq(Nat), NEW a \in Seq(Nat), NEW b \in Seq(Nat), NEW r \in Seq(Nat), NEW m, NEW lost,
         Kept(t \o ((a \o b) \o r), m, lost)
  PROVE  Kept(t \o (a \o r), m, lost \cup ToSet(b))
<1> DEFINE ab == a \o b
           abr == ab \o r
           ar == a \o r
<1>1. ab \in Seq(Nat) /\ ToSet(ab) = ToSet(a) \cup ToSet(b)
  BY ConcatProperties, ElementsOfBoth
<1>2. Rises(ab) <=> Rises(a) /\ Rises(b) /\ \A x \in ToSet(a), y \in ToSet(b) : x < y
  BY RisesBoth
<1> HIDE DEF ab
<1>3. abr \in Seq(Nat) /\ ToSet(abr) = ToSet(ab) \cup ToSet(r)
  BY <1>1, ConcatProperties, ElementsOfBoth
<1>4. Rises(abr) <=> Rises(ab) /\ Rises(r) /\ \A x \in ToSet(ab), y \in ToSet(r) : x < y
  BY <1>1, RisesBoth
<1> HIDE DEF abr
<1>5. ToSet(t \o abr) = ToSet(t) \cup ToSet(abr)
  BY <1>3, ElementsOfBoth
<1>6. Rises(t \o abr) <=> Rises(t) /\ Rises(abr) /\ \A x \in ToSet(t), y \in ToSet(abr) : x < y
  BY <1>3, RisesBoth
<1>7. ar \in Seq(Nat) /\ ToSet(ar) = ToSet(a) \cup ToSet(r)
  BY ConcatProperties, ElementsOfBoth
<1>8. Rises(ar) <=> Rises(a) /\ Rises(r) /\ \A x \in ToSet(a), y \in ToSet(r) : x < y
  BY RisesBoth
<1> HIDE DEF ar
<1>9. ToSet(t \o ar) = ToSet(t) \cup ToSet(ar)
  BY <1>7, ElementsOfBoth
<1>10. Rises(t \o ar) <=> Rises(t) /\ Rises(ar) /\ \A x \in ToSet(t), y \in ToSet(ar) : x < y
  BY <1>7, RisesBoth
<1>11. Rises(t \o abr) /\ ToSet(t \o abr) \cup lost = 1 .. m /\ ToSet(t \o abr) \cap lost = {}
  BY DEF Kept, abr, ab
<1>12. \A x \in ToSet(b) : x \notin ToSet(t) \cup ToSet(a) \cup ToSet(r)
  <2>1. \A x \in ToSet(t) \cup ToSet(a) \cup ToSet(b) \cup ToSet(r) : x \in Nat
    BY LenProperties DEF ToSet
  <2>2. \A x \in Nat : ~ (x < x)
    OBVIOUS
  <2> QED
    BY <1>1, <1>2, <1>3, <1>4, <1>6, <1>11, <2>1, <2>2
<1>13. Rises(t \o ar)
  BY <1>1, <1>2, <1>3, <1>4, <1>6, <1>7, <1>8, <1>10, <1>11
<1>14. ToSet(t \o ar) \cup (lost \cup ToSet(b)) = 1 .. m
  <2>1. ToSet(t \o ar) \cup (lost \cup ToSet(b)) = ToSet(t \o abr) \cup lost
    BY <1>1, <1>3, <1>5, <1>7, <1>9
  <2> QED
    BY <1>11, <2>1
<1>15. ToSet(t \o ar) \cap (lost \cup ToSet(b)) = {}
  BY <1>1, <1>3, <1>5, <1>7, <1>9, <1>11, <1>12
<1> QED
  BY <1>13, <1>14, <1>15 DEF Kept, ar

\* New answers are above all others.
LEMMA NewAnswers ==
  ASSUME NEW s \in Seq(Nat), NEW m \in Nat, NEW n \in Nat, NEW lost, Kept(s, m, lost)
  PROVE  /\ [i \in 1 .. n |-> m + i] \in Seq(Nat)
         /\ Kept(s \o [i \in 1 .. n |-> m + i], m + n, lost)
<1> DEFINE new == [i \in 1 .. n |-> m + i]
<1>1. new \in Seq(Nat) /\ Len(new) = n /\ \A i \in 1 .. n : new[i] = m + i
  OBVIOUS
<1>2. ToSet(new) = m + 1 .. m + n
  <2>1. DOMAIN new = 1 .. n
    OBVIOUS
  <2> HIDE DEF new
  <2>2. \A x \in m + 1 .. m + n : x - m \in 1 .. n /\ x = m + (x - m)
    OBVIOUS
  <2>3. \A i \in 1 .. n : m + i \in m + 1 .. m + n
    OBVIOUS
  <2>4. ASSUME NEW x \in ToSet(new) PROVE x \in m + 1 .. m + n
    <3>1. PICK i \in 1 .. n : x = new[i]
      BY <2>1 DEF ToSet
    <3> QED
      BY <1>1, <2>3, <3>1
  <2>5. ASSUME NEW x \in m + 1 .. m + n PROVE x \in ToSet(new)
    <3>1. x - m \in 1 .. n /\ new[x - m] = x
      BY <1>1, <2>2
    <3> QED
      BY <2>1, <3>1 DEF ToSet
  <2> QED
    BY <2>4, <2>5
<1>3. Rises(new)
  BY <1>1 DEF Rises
<1> HIDE DEF new
<1>4. ToSet(s \o new) = ToSet(s) \cup ToSet(new)
  BY <1>1, ElementsOfBoth
<1>5. Rises(s \o new) <=> Rises(s) /\ Rises(new) /\ \A x \in ToSet(s), y \in ToSet(new) : x < y
  BY <1>1, RisesBoth
<1>6. Rises(s) /\ ToSet(s) \cup lost = 1 .. m /\ ToSet(s) \cap lost = {}
  BY DEF Kept
<1>7. \A x \in ToSet(s), y \in m + 1 .. m + n : x < y
  BY <1>6
<1>8. 1 .. m + n = (1 .. m) \cup (m + 1 .. m + n) /\ (1 .. m) \cap (m + 1 .. m + n) = {}
  OBVIOUS
<1>9. Rises(s \o new)
  BY <1>2, <1>3, <1>5, <1>6, <1>7
<1>10. ToSet(s \o new) \cup lost = 1 .. m + n /\ ToSet(s \o new) \cap lost = {}
  BY <1>2, <1>4, <1>6, <1>8
<1> QED
  BY <1>1, <1>9, <1>10 DEF Kept, new

\* What does not fit into the queue is lost, and it is the newest.
LEMMA RoomIsMade ==
  ASSUME NEW t \in Seq(Nat), NEW q \in Seq(Nat), NEW d \in Seq(Nat), NEW r \in Seq(Nat), NEW m, NEW lost,
         Len(q) <= EmQueueCap, Kept(t \o ((q \o d) \o r), m, lost)
  PROVE  /\ EmRoom(q, d) \in Seq(Nat) /\ Len(EmRoom(q, d)) <= EmQueueCap
         /\ Kept(t \o (EmRoom(q, d) \o r), m, lost \cup (ToSet(d) \ ToSet(EmRoom(q, d))))
<1> DEFINE g == q \o d
           n == Len(g)
           k == Min({EmQueueCap, n})
           room == SubSeq(g, 1, k)
           rest == SubSeq(g, k + 1, n)
<1>1. /\ g \in Seq(Nat) /\ n \in Nat /\ Len(q) \in Nat /\ Len(d) \in Nat /\ n = Len(q) + Len(d)
      /\ \A i \in 1 .. n : g[i] = IF i <= Len(q) THEN q[i] ELSE d[i - Len(q)]
  BY ConcatProperties, LenProperties
<1>2. EmRoom(q, d) = room
  BY DEF EmRoom
<1> HIDE DEF g, n
<1>3. k \in Nat /\ k <= n /\ k <= EmQueueCap /\ Len(q) <= k
  <2>1. EmQueueCap \in Nat
    BY EmAssumption DEF EmAssumption
  <2>2. EmQueueCap <= n \/ n <= EmQueueCap
    BY <1>1, <2>1
  <2>3. \E x \in {EmQueueCap, n} : \A y \in {EmQueueCap, n} : x <= y
    BY <1>1, <2>1, <2>2
  <2>4. k \in {EmQueueCap, n} /\ \A y \in {EmQueueCap, n} : k <= y
    <3> DEFINE P == {x \in {EmQueueCap, n} : \A y \in {EmQueueCap, n} : x <= y}
    <3> QED
      BY <2>3 DEF Min
  <2> HIDE DEF k
  <2> QED
    BY <1>1, <2>1, <2>4
<1> HIDE DEF k
<1>4. /\ room \in Seq(Nat) /\ Len(room) = k /\ \A i \in 1 .. k : room[i] = g[i]
  <2>1. \A i \in 1 .. k : g[i] \in Nat
    BY <1>1, <1>3, ElementOfSeq DEF n
  <2>2. 1 \in Int /\ k \in Int /\ k - 1 + 1 = k /\ (1 <= k \/ k = 0)
    BY <1>3
  <2>3. room \in Seq(Nat) /\ Len(room) = (IF 1 <= k THEN k - 1 + 1 ELSE 0)
        /\ \A i \in 1 .. k - 1 + 1 : room[i] = g[1 + i - 1]
    BY <2>1, <2>2, SubSeqProperties
  <2> HIDE DEF room
  <2> QED
    BY <2>2, <2>3
<1>5. /\ rest \in Seq(Nat) /\ Len(rest) = n - k /\ \A i \in 1 .. n - k : rest[i] = g[k + i]
  <2>1. \A i \in k + 1 .. n : g[i] \in Nat
    BY <1>1, <1>3, ElementOfSeq DEF n
  <2>2. k + 1 \in Int /\ n \in Int /\ n - (k + 1) + 1 = n - k
    BY <1>1, <1>3
  <2>3. rest \in Seq(Nat) /\ Len(rest) = (IF k + 1 <= n THEN n - (k + 1) + 1 ELSE 0)
        /\ \A i \in 1 .. n - (k + 1) + 1 : rest[i] = g[k + 1 + i - 1]
    BY <2>1, <2>2, SubSeqProperties
  <2> HIDE DEF rest
  <2> QED
    BY <1>1, <1>3, <2>2, <2>3
<1>6. g = room \o rest
  <2>1. 1 \in 1 .. n + 1 /\ k \in 1 - 1 .. n /\ n \in k .. n
    BY <1>1, <1>3
  <2>2. SubSeq(g, 1, k) \o SubSeq(g, k + 1, n) = SubSeq(g, 1, n)
    BY <1>1, <2>1, ConcatAdjacentSubSeq DEF n
  <2>3. SubSeq(g, 1, n) = g
    BY <1>1, SubSeqFull DEF n
  <2> QED
    BY <2>2, <2>3
<1> HIDE DEF room, rest
<1>7. Kept(t \o (room \o r), m, lost \cup ToSet(rest))
  <2>1. Kept(t \o ((room \o rest) \o r), m, lost)
    BY <1>6 DEF g
  <2> QED
    BY <1>4, <1>5, <2>1, PartIsLost
<1>8. ToSet(rest) = ToSet(d) \ ToSet(room)
  <2>1. Rises(g)
    <3>1. Rises(t \o (g \o r))
      BY DEF g, Kept
    <3>2. g \o r \in Seq(Nat)
      BY <1>1, ConcatProperties
    <3>3. Rises(g \o r)
      BY <3>1, <3>2, RisesBoth
    <3> QED
      BY <1>1, <3>3, RisesBoth
  <2>2. \A i \in 1 .. n : g[i] \in Nat
    BY <1>1, ElementOfSeq DEF n
  <2>3. DOMAIN rest = 1 .. n - k /\ DOMAIN room = 1 .. k /\ DOMAIN d = 1 .. Len(d)
    BY <1>4, <1>5, LenProperties
  <2>4. ASSUME NEW x \in ToSet(rest) PROVE x \in ToSet(d) /\ x \notin ToSet(room)
    <3>1. PICK i \in 1 .. n - k : x = g[k + i]
      BY <1>5, <2>3 DEF ToSet
    <3>2. k + i \in 1 .. n /\ ~ (k + i <= Len(q)) /\ (k + i) - Len(q) \in 1 .. Len(d)
      BY <1>1, <1>3
    <3>3. x = d[(k + i) - Len(q)]
      <4> DEFINE j == k + i
      <4>1. g[j] = IF j <= Len(q) THEN q[j] ELSE d[j - Len(q)]
        BY <1>1, <3>2
      <4>2. ~ (j <= Len(q)) /\ x = g[j]
        BY <3>1, <3>2
      <4> HIDE DEF j
      <4>3. x = d[j - Len(q)]
        BY <4>1, <4>2
      <4>4. k + i = j
        BY DEF j
      <4> QED
        BY <4>3, <4>4, Zenon
    <3>4. x \in ToSet(d)
      BY <2>3, <3>2, <3>3 DEF ToSet
    <3>5. ASSUME NEW j \in 1 .. k PROVE room[j] # x
      <4>1. j \in 1 .. n /\ j < k + i
        BY <1>1, <1>3
      <4>2. g[j] < g[k + i]
        BY <2>1, <3>2, <4>1 DEF Rises, n
      <4>3. room[j] = g[j] /\ g[j] \in Nat /\ g[k + i] \in Nat
        BY <1>4, <2>2, <3>2, <4>1
      <4> QED
        BY <3>1, <4>2, <4>3
    <3> QED
      BY <2>3, <3>4, <3>5 DEF ToSet
  <2>5. ASSUME NEW x \in ToSet(d) PROVE x \in ToSet(room) \/ x \in ToSet(rest)
    <3>1. x \in ToSet(g)
      BY ElementsOfBoth DEF g
    <3> QED
      BY <1>4, <1>5, <1>6, <3>1, ElementsOfBoth
  <2> QED
    BY <2>4, <2>5
<1> QED
  BY <1>2, <1>3, <1>4, <1>7, <1>8

\* A row in three parts.
LEMMA Joins ==
  ASSUME NEW s \in Seq(Nat), NEW t \in Seq(Nat), NEW u \in Seq(Nat)
  PROVE  (s \o t) \o u = s \o (t \o u)
OBVIOUS

\* The answers x/vt gives to n more queries, behind the one in hand: those the pump is done
\* with, and the one it holds.
All(h, m, n) == h \o [i \in 1 .. n |-> m + i]
Done(h, m, n) == IF n = 0 THEN <<>> ELSE Front(All(h, m, n))
InHand(h, m, n) == IF n = 0 THEN h ELSE <<Last(All(h, m, n))>>

\* The two make up all of them.
LEMMA DoneOrInHand ==
  ASSUME NEW h \in Seq(Nat), NEW m \in Nat, NEW n \in Nat, Len(h) <= 1
  PROVE  /\ Done(h, m, n) \in Seq(Nat) /\ InHand(h, m, n) \in Seq(Nat) /\ Len(InHand(h, m, n)) <= 1
         /\ All(h, m, n) = Done(h, m, n) \o InHand(h, m, n)
<1> DEFINE new == [i \in 1 .. n |-> m + i]
           all == h \o new
           l == Len(all)
<1>1. new \in Seq(Nat) /\ Len(new) = n /\ Len(h) \in Nat
  OBVIOUS
<1>2. All(h, m, n) = all
  BY DEF All
<1>3. CASE n = 0
  <2>1. new = <<>>
    BY <1>3
  <2>2. h \o <<>> = h /\ <<>> \o h = h /\ <<>> \in Seq(Nat)
    OBVIOUS
  <2> QED
    BY <1>2, <1>3, <2>1, <2>2 DEF Done, InHand
<1>4. CASE n # 0
  <2> HIDE DEF new
  <2>1. all \in Seq(Nat) /\ Len(all) = Len(h) + n
    BY <1>1
  <2>2. Done(h, m, n) = SubSeq(all, 1, l - 1) /\ InHand(h, m, n) = <<all[l]>>
    BY <1>2, <1>4 DEF Done, InHand, Front, Last
  <2> HIDE DEF all
  <2>3. l \in 1 .. l /\ 1 \in 1 .. l /\ l - 1 \in Int /\ l \in Nat
    BY <1>1, <1>4, <2>1
  <2>4. SubSeq(all, 1, l) = SubSeq(all, 1, l - 1) \o <<all[l]>>
    BY <2>1, <2>3, SubSeqRecursiveSecond
  <2>5. SubSeq(all, 1, l) = all
    BY <2>1, SubSeqFull
  <2>6. all[l] \in Nat /\ \A i \in 1 .. l - 1 : all[i] \in Nat
    BY <2>1, <2>3, ElementOfSeq
  <2>7. SubSeq(all, 1, l - 1) \in Seq(Nat)
    BY <2>3, <2>6, SubSeqProperties
  <2>8. <<all[l]>> \in Seq(Nat) /\ Len(<<all[l]>>) = 1
    BY <2>6
  <2> HIDE DEF l
  <2>9. All(h, m, n) = Done(h, m, n) \o InHand(h, m, n)
    BY <1>2, <2>2, <2>4, <2>5, Zenon
  <2>10. Done(h, m, n) \in Seq(Nat) /\ InHand(h, m, n) \in Seq(Nat) /\ Len(InHand(h, m, n)) = 1
    BY <2>2, <2>7, <2>8, Zenon
  <2> QED
    BY <2>9, <2>10
<1> QED
  BY <1>3, <1>4

\* After n more queries the answers are still all there, in order, or lost.
LEMMA AnswersQueued ==
  ASSUME NEW t \in Seq(Nat), NEW q \in Seq(Nat), NEW h \in Seq(Nat), NEW m \in Nat, NEW n \in Nat, NEW lost,
         Len(q) <= EmQueueCap, Len(h) <= 1, Kept(t \o (q \o h), m, lost)
  PROVE  LET done == Done(h, m, n)
             room == EmRoom(q, done)
         IN /\ room \in Seq(Nat) /\ Len(room) <= EmQueueCap
            /\ InHand(h, m, n) \in Seq(Nat) /\ Len(InHand(h, m, n)) <= 1
            /\ Kept(t \o (room \o InHand(h, m, n)), m + n, lost \cup (ToSet(done) \ ToSet(room)))
<1> DEFINE new == [i \in 1 .. n |-> m + i]
           qh == q \o h
           tqh == t \o qh
           done == Done(h, m, n)
           hand == InHand(h, m, n)
<1>1. qh \in Seq(Nat) /\ tqh \in Seq(Nat)
  OBVIOUS
<1>2. new \in Seq(Nat) /\ Kept(tqh \o new, m + n, lost)
  <2> HIDE DEF tqh
  <2>1. Kept(tqh, m, lost)
    BY DEF tqh
  <2> QED
    BY <1>1, <2>1, NewAnswers
<1>3. done \in Seq(Nat) /\ hand \in Seq(Nat) /\ Len(hand) <= 1 /\ h \o new = done \o hand
  BY DoneOrInHand DEF All
<1> HIDE DEF new, done, hand
<1>4. tqh \o new = t \o (qh \o new)
  <2> HIDE DEF qh
  <2> QED
    BY <1>1, <1>2, Joins
<1>5. qh \o new = q \o (h \o new)
  BY <1>2, Joins
<1>6. q \o (done \o hand) = (q \o done) \o hand
  BY <1>3, Joins
<1>7. Kept(t \o ((q \o done) \o hand), m + n, lost)
  <2> HIDE DEF tqh, qh
  <2> QED
    BY <1>2, <1>3, <1>4, <1>5, <1>6
<1>8. /\ EmRoom(q, done) \in Seq(Nat) /\ Len(EmRoom(q, done)) <= EmQueueCap
      /\ Kept(t \o (EmRoom(q, done) \o hand), m + n, lost \cup (ToSet(done) \ ToSet(EmRoom(q, done))))
  BY <1>3, <1>7, RoomIsMade
<1> QED
  BY <1>3, <1>8 DEF done, hand

Byte == {"a", "lead", "cont", "ph1", "ph2", "esc", "[", "s", "4", "b", "h", "l", "?", "n", "c", "_", "G",
         "st", "1", "0", "7"}
Tokens == Seq(Byte)
States == {"scan", "esc", "utf8", "csi", "str", "strEnd"}
Scan == [st : States, priv : BOOLEAN, num : BOOLEAN, len : Nat, lead : Byte \cup {""}, last : Tokens,
         insert : BOOLEAN, hits : Nat, buf : Tokens, repl : Tokens]
IsEvent(a) == a.s \in Scan /\ a.data \in Tokens

\* Rows of bytes from shorter ones.
LEMMA RowsOfBytes ==
  /\ <<>> \in Tokens
  /\ \A b \in Byte : <<b>> \in Tokens
  /\ \A s, t \in Tokens : s \o t \in Tokens
  /\ \A s \in Tokens, b \in Byte : Append(s, b) \in Tokens
<1> HIDE DEF Byte
<1> QED
  BY DEF Tokens

\* What the scanner holds of a rune, and its replacement of CSI s, are rows of bytes.
LEMMA RunesTyped ==
  /\ Rune.a \in Tokens /\ Rune.cont \in Tokens /\ Rune.ph2 \in Tokens
  /\ Rune["a"] \in Tokens /\ Rune["cont"] \in Tokens /\ Rune["ph2"] \in Tokens
  /\ <<"esc", "7">> \in Tokens
<1>1. {"a", "lead", "cont", "ph1", "ph2", "esc", "7"} \subseteq Byte
  BY DEF Byte
<1>2. /\ Rune.a = <<"a">> /\ Rune.cont = <<"lead", "cont">> /\ Rune.ph2 = <<"ph1", "ph2">>
      /\ Rune["a"] = <<"a">> /\ Rune["cont"] = <<"lead", "cont">> /\ Rune["ph2"] = <<"ph1", "ph2">>
  BY DEF Rune
<1> HIDE DEF Byte
<1>3. <<"a">> \in Tokens /\ <<"lead", "cont">> \in Tokens /\ <<"ph1", "ph2">> \in Tokens /\ <<"esc", "7">> \in Tokens
  BY <1>1 DEF Tokens
<1> QED
  BY <1>2, <1>3

\* The scanner keeps its type: in the ground state,
LEMMA ScanByteTyped ==
  ASSUME NEW s \in Scan, NEW b \in Byte
  PROVE  IsEvent(ScanByte(s, b))
<1>1. <<>> \in Tokens /\ <<b>> \in Tokens
  BY RowsOfBytes
<1>2. ASSUME NEW x \in States PROVE IsEvent(None([s EXCEPT !.st = x]))
  BY <1>1 DEF None, Scan, IsEvent
<1>3. IsEvent(None([s EXCEPT !.st = "utf8", !.lead = b]))
  <2>1. "utf8" \in States
    BY DEF States
  <2> QED
    BY <1>1, <2>1 DEF None, Scan, IsEvent
<1>4. IsEvent([s |-> [s EXCEPT !.st = "scan", !.last = <<b>>], ev |-> "rune", data |-> <<b>>])
  <2> DEFINE one == <<b>>
  <2>1. "scan" \in States /\ one \in Tokens
    BY <1>1 DEF States
  <2> HIDE DEF one
  <2>2. [s EXCEPT !.st = "scan", !.last = one] \in Scan
    BY <2>1 DEF Scan
  <2> QED
    BY <2>1, <2>2 DEF IsEvent, one
<1>5. "scan" \in States /\ "esc" \in States
  BY DEF States
<1>6. CASE b = "esc"
  BY <1>2, <1>5, <1>6 DEF ScanByte
<1>7. CASE b \in {"lead", "ph1"}
  BY <1>3, <1>7 DEF ScanByte
<1>8. CASE b \in {"cont", "ph2"}
  BY <1>2, <1>5, <1>8 DEF ScanByte
<1>9. CASE b \notin {"esc", "lead", "ph1", "cont", "ph2"}
  BY <1>4, <1>9 DEF ScanByte
<1> QED
  BY <1>6, <1>7, <1>8, <1>9

\* at the end of a CSI,
LEMMA CSIFinalTyped ==
  ASSUME NEW s \in Scan, NEW b \in Byte
  PROVE  IsEvent(CSIFinal(s, b))
<1> DEFINE add == IF b \in {"n", "c"} THEN 1 ELSE 0
           t == [s EXCEPT !.st = "scan", !.hits = s.hits + add]
           u == CASE b = "s" /\ ~s.priv -> [t EXCEPT !.repl = <<"esc", "7">>]
                  [] b = "b" /\ s.last # <<>> -> [t EXCEPT !.repl = s.last \o s.last]
                  [] b \in {"h", "l"} /\ ~s.priv /\ s.num -> [t EXCEPT !.insert = (b = "h")]
                  [] OTHER -> t
<1>1. t \in Scan
  <2> DEFINE more == s.hits + add
  <2>1. "scan" \in States /\ more \in Nat
    <3>1. s.hits \in Nat
      BY DEF Scan
    <3>2. add \in Nat
      OBVIOUS
    <3> HIDE DEF add
    <3> QED
      BY <3>1, <3>2 DEF States
  <2> HIDE DEF more, add
  <2>2. [s EXCEPT !.st = "scan", !.hits = more] \in Scan
    BY <2>1 DEF Scan
  <2> QED
    BY <2>2 DEF more
<1>2. s.last \o s.last \in Tokens /\ <<"esc", "7">> \in Tokens
  BY RowsOfBytes, RunesTyped DEF Scan
<1> HIDE DEF t
<1>3. ASSUME NEW x \in Tokens PROVE [t EXCEPT !.repl = x] \in Scan
  BY <1>1 DEF Scan
<1>4. ASSUME NEW x \in BOOLEAN PROVE [t EXCEPT !.insert = x] \in Scan
  BY <1>1 DEF Scan
<1>5. (b = "h") \in BOOLEAN
  BY Zenon
<1>6. u \in Scan
  <2> DEFINE twice == s.last \o s.last
             save == <<"esc", "7">>
             on == (b = "h")
  <2>1. [t EXCEPT !.repl = twice] \in Scan /\ [t EXCEPT !.repl = save] \in Scan /\ [t EXCEPT !.insert = on] \in Scan
    BY <1>2, <1>3, <1>4, <1>5
  <2> HIDE DEF twice, save, on
  <2>2. u \in {[t EXCEPT !.repl = save], [t EXCEPT !.repl = twice], [t EXCEPT !.insert = on], t}
    BY DEF twice, save, on
  <2> QED
    BY <1>1, <2>1, <2>2
<1> HIDE DEF u
<1>7. u.repl \in Tokens
  BY <1>6 DEF Scan
<1>8. CSIFinal(s, b).s = u /\ CSIFinal(s, b).data = u.repl
  BY DEF CSIFinal, t, u
<1> QED
  BY <1>6, <1>7, <1>8 DEF IsEvent

\* and in every state.
LEMMA AdvanceTyped ==
  ASSUME NEW s \in Scan, NEW b \in Byte
  PROVE  IsEvent(Advance(s, b))
<1> USE RowsOfBytes
<1>1. s.buf \in Tokens /\ s.len \in Nat /\ s.st \in States
  BY DEF Scan
<1>2. {"scan", "esc", "csi", "str", "strEnd"} \subseteq States
  BY DEF States
<1>3. ASSUME NEW t \in Scan PROVE IsEvent(None(t))
  BY <1>3 DEF None, IsEvent
<1>4. ASSUME NEW x \in States PROVE [s EXCEPT !.st = x] \in Scan
  BY DEF Scan
<1>5. CASE s.st = "scan"
  BY <1>5, ScanByteTyped DEF Advance
<1>6. CASE s.st = "utf8"
  <2>1. CASE b = (IF s.lead = "lead" THEN "cont" ELSE "ph2")
    <3>1. Rune[b] \in Tokens
      BY <2>1, RunesTyped
    <3> DEFINE r == Rune[b]
    <3> HIDE DEF r
    <3>2. [s EXCEPT !.st = "scan", !.last = r] \in Scan /\ r \in Tokens
      BY <1>2, <3>1 DEF Scan, r
    <3>3. IsEvent(Whole(s, b))
      BY <3>2 DEF Whole, IsEvent, r
    <3> QED
      BY <1>6, <2>1, <3>3 DEF Advance
  <2>2. CASE b # (IF s.lead = "lead" THEN "cont" ELSE "ph2")
    BY <1>6, <2>2, ScanByteTyped DEF Advance
  <2> QED
    BY <2>1, <2>2
<1>7. CASE s.st = "esc"
  <2>1. IsEvent(None([s EXCEPT !.st = "csi", !.priv = FALSE, !.num = FALSE, !.len = 2]))
    BY <1>2, <1>3 DEF Scan
  <2>2. IsEvent(None([s EXCEPT !.st = "str", !.buf = <<>>]))
    BY <1>2, <1>3 DEF Scan
  <2>3. IsEvent([s |-> ScanReset, ev |-> "ris", data |-> <<>>])
    <3>1. ScanReset \in Scan
      BY <1>2 DEF ScanReset, Scan
    <3> QED
      BY <3>1 DEF IsEvent
  <2>4. IsEvent(None([s EXCEPT !.st = "scan"]))
    BY <1>2, <1>3, <1>4
  <2> QED
    BY <1>7, <2>1, <2>2, <2>3, <2>4 DEF Advance
<1>8. CASE s.st = "csi"
  <2> DEFINE t == [s EXCEPT !.len = s.len + 1]
  <2>1. t \in Scan
    <3> DEFINE more == s.len + 1
    <3>1. more \in Nat
      BY <1>1
    <3> HIDE DEF more
    <3>2. [s EXCEPT !.len = more] \in Scan
      BY <3>1 DEF Scan
    <3> QED
      BY <3>2 DEF more
  <2> HIDE DEF t
  <2>2. [t EXCEPT !.priv = TRUE] \in Scan /\ [t EXCEPT !.num = TRUE] \in Scan
    BY <2>1 DEF Scan
  <2>3. Advance(s, b) \in {None([t EXCEPT !.priv = TRUE]), None([t EXCEPT !.num = TRUE]), CSIFinal(t, b)}
    BY <1>8 DEF Advance, t
  <2> QED
    BY <1>3, <2>1, <2>2, <2>3, CSIFinalTyped
<1>9. CASE s.st = "str"
  <2>1. [s EXCEPT !.buf = Append(s.buf, b)] \in Scan
    <3> DEFINE x == Append(s.buf, b)
    <3>1. x \in Tokens
      BY <1>1
    <3> HIDE DEF x
    <3>2. [s EXCEPT !.buf = x] \in Scan
      BY <3>1 DEF Scan
    <3> QED
      BY <3>2 DEF x
  <2>2. Advance(s, b) \in {None([s EXCEPT !.st = "strEnd"]), None([s EXCEPT !.buf = Append(s.buf, b)])}
    BY <1>9 DEF Advance
  <2> QED
    BY <1>2, <1>3, <1>4, <2>1, <2>2
<1>10. CASE s.st = "strEnd"
  <2>1. [s EXCEPT !.st = "scan", !.buf = <<>>] \in Scan
    BY <1>2 DEF Scan
  <2>2. IsEvent([s |-> [s EXCEPT !.st = "scan", !.buf = <<>>], ev |-> "payload", data |-> s.buf])
    BY <1>1, <2>1 DEF IsEvent
  <2>3. IsEvent(None([s EXCEPT !.st = "str"]))
    BY <1>2, <1>3, <1>4
  <2> QED
    BY <1>10, <2>2, <2>3 DEF Advance
<1> QED
  BY <1>1, <1>5, <1>6, <1>7, <1>8, <1>9, <1>10 DEF States

Cells == Tokens \cup {<<"saved">>}
Vt == [st : States, x : Nat, ins : Nat, out : Seq(Cells \X BOOLEAN)]

\* x/vt keeps its type when it places a rune
LEMMA PlaceTyped ==
  ASSUME NEW v \in Vt, NEW r \in Tokens
  PROVE  Place(v, r) \in Vt
<1> DEFINE w == CellsOf(r)
           ins == (v.ins = w)
           x == IF v.x + w > EmWidth THEN w ELSE v.x + w
           out == Append(v.out, <<r, ins>>)
<1>1. w \in {1, 2}
  BY DEF CellsOf
<1>2. v.x \in Nat /\ v.out \in Seq(Cells \X BOOLEAN)
  BY DEF Vt
<1>3. ins \in BOOLEAN
  BY Zenon
<1> HIDE DEF w, ins
<1>4. x \in Nat
  BY <1>1, <1>2
<1>5. out \in Seq(Cells \X BOOLEAN)
  <2>1. <<r, ins>> \in Cells \X BOOLEAN
    BY <1>3 DEF Cells
  <2> QED
    BY <1>2, <2>1
<1> HIDE DEF x, out
<1>6. [v EXCEPT !.ins = 0] \in Vt
  BY DEF Vt
<1>7. [v EXCEPT !.x = x, !.ins = 0, !.out = out] \in Vt
  BY <1>4, <1>5 DEF Vt
<1>8. Place(v, r) \in {[v EXCEPT !.ins = 0], [v EXCEPT !.x = x, !.ins = 0, !.out = out]}
  BY DEF Place, w, ins, x, out
<1> QED
  BY <1>6, <1>7, <1>8

\* and with every byte.
LEMMA VtByteTyped ==
  ASSUME NEW v \in Vt, NEW b
  PROVE  VtByte(v, b) \in Vt
<1>1. {"scan", "esc", "csi", "str", "strEnd"} \subseteq States
  BY DEF States
<1>2. ASSUME NEW y \in States PROVE [v EXCEPT !.st = y] \in Vt
  BY DEF Vt
<1>3. [v EXCEPT !.x = 0] \in Vt /\ [v EXCEPT !.ins = IF b = "ich1" THEN 1 ELSE 2] \in Vt
  <2> DEFINE i == IF b = "ich1" THEN 1 ELSE 2
  <2>1. i \in Nat
    OBVIOUS
  <2> HIDE DEF i
  <2>2. [v EXCEPT !.ins = i] \in Vt /\ [v EXCEPT !.x = 0] \in Vt
    BY <2>1 DEF Vt
  <2> QED
    BY <2>2 DEF i
<1>4. VtReset \in Vt
  <2>1. <<>> \in Seq(Cells \X BOOLEAN)
    OBVIOUS
  <2> QED
    BY <1>1, <2>1 DEF VtReset, Vt
<1>5. [v EXCEPT !.st = "scan", !.out = Append(v.out, <<<<"saved">>, FALSE>>)] \in Vt
  <2> DEFINE saved == <<"saved">>
             out == Append(v.out, <<saved, FALSE>>)
  <2>1. saved \in Cells /\ v.out \in Seq(Cells \X BOOLEAN)
    BY DEF Cells, Vt
  <2> HIDE DEF saved
  <2>2. out \in Seq(Cells \X BOOLEAN)
    <3> DEFINE cell == <<saved, FALSE>>
    <3>1. cell \in Cells \X BOOLEAN
      BY <2>1
    <3> HIDE DEF cell
    <3>2. Append(v.out, cell) \in Seq(Cells \X BOOLEAN)
      BY <2>1, <3>1
    <3> QED
      BY <3>2 DEF cell
  <2> HIDE DEF out
  <2>3. [v EXCEPT !.st = "scan", !.out = out] \in Vt
    BY <1>1, <2>2 DEF Vt
  <2> QED
    BY <2>3 DEF out, saved
<1>6. CASE b \in Anywhere
  <2>1. CASE b = "esc"
    <3> DEFINE st == IF v.st \in {"str", "strEnd"} THEN "strEnd" ELSE "esc"
    <3>1. st \in States
      BY <1>1
    <3>2. VtByte(v, b) = [v EXCEPT !.st = st]
      BY <2>1 DEF VtByte, Anywhere
    <3> HIDE DEF st
    <3> QED
      BY <1>2, <3>1, <3>2
  <2>2. CASE b = "crlf"
    <3>1. VtByte(v, b) = [v EXCEPT !.x = 0]
      BY <2>2 DEF VtByte, Anywhere
    <3> QED
      BY <1>3, <3>1
  <2>3. CASE b \in {"ich1", "ich2"}
    <3>1. VtByte(v, b) = [v EXCEPT !.ins = IF b = "ich1" THEN 1 ELSE 2]
      BY <2>3 DEF VtByte, Anywhere
    <3> QED
      BY <1>3, <3>1, Zenon
  <2> QED
    BY <1>6, <2>1, <2>2, <2>3 DEF Anywhere
<1>7. CASE b \notin Anywhere /\ v.st = "esc"
  <2>1. VtByte(v, b) \in {[v EXCEPT !.st = "csi"], [v EXCEPT !.st = "str"], VtReset, [v EXCEPT !.st = "scan"],
                          [v EXCEPT !.st = "scan", !.out = Append(v.out, <<<<"saved">>, FALSE>>)]}
    BY <1>7 DEF VtByte, Anywhere
  <2> QED
    BY <1>1, <1>2, <1>4, <1>5, <2>1
<1>8. CASE b \notin Anywhere /\ v.st = "csi"
  BY <1>1, <1>2, <1>8 DEF VtByte, Anywhere
<1>9. CASE b \notin Anywhere /\ v.st = "str"
  BY <1>9 DEF VtByte, Anywhere
<1>10. CASE b \notin Anywhere /\ v.st = "strEnd"
  <2>1. VtByte(v, b) \in {[v EXCEPT !.st = "scan"], [v EXCEPT !.st = "str"]}
    BY <1>10 DEF VtByte, Anywhere
  <2> QED
    BY <1>1, <1>2, <2>1
<1>11. CASE b \notin Anywhere /\ v.st \notin {"esc", "csi", "str", "strEnd"}
  <2>1. CASE v.st = "scan" /\ b \in {"a", "cont", "ph2"}
    <3>1. VtByte(v, b) = Place(v, Rune[b])
      BY <1>11, <2>1 DEF VtByte, Anywhere
    <3>2. Rune[b] \in Tokens
      BY <2>1, RunesTyped
    <3> QED
      BY <3>1, <3>2, PlaceTyped
  <2>2. CASE ~ (v.st = "scan" /\ b \in {"a", "cont", "ph2"})
    BY <1>11, <2>2 DEF VtByte, Anywhere
  <2> QED
    BY <2>1, <2>2
<1> QED
  BY <1>6, <1>7, <1>8, <1>9, <1>10, <1>11

\* x/vt after each byte of a row.
VtRun(v, run) ==
  {f \in [0 .. Len(run) -> Vt] :
     f[0] = v /\ (\A i \in 1 .. Len(run) : f[i] = VtByte(f[i - 1], run[i])) /\ Along(VtByte, v, run) = f[Len(run)]}

\* There is such a function.
LEMMA VtRuns ==
  ASSUME NEW v \in Vt, NEW S, NEW run \in Seq(S)
  PROVE  \E f : f \in VtRun(v, run)
<1> DEFINE n == Len(run)
           Outs(f) == [k \in 0 .. Len(run) |-> IF k = 0 THEN v ELSE VtByte(f[k-1], run[k])]
           step == [i \in 1 .. n |-> [x \in Vt |-> VtByte(x, run[i])]]
           f == CHOOSE f : f = Outs(f)
<1>1. n \in Nat
  OBVIOUS
<1>2. \A i \in 1 .. n, x \in Vt : step[i][x] \in Vt /\ step[i][x] = VtByte(x, run[i])
  BY VtByteTyped
<1>3. PICK h : h \in Folds(Vt, v, step, n)
  <2>1. \A i \in 1 .. n, x \in Vt : step[i][x] \in Vt
    BY <1>2
  <2> HIDE DEF step, n
  <2> QED
    BY <1>1, <2>1, Fold
<1>4. h \in [0 .. n -> Vt] /\ h[0] = v /\ \A i \in 1 .. n : h[i] = step[i][h[i - 1]]
  <2> HIDE DEF step, n
  <2> QED
    BY <1>3 DEF Folds
<1>5. h = Outs(h)
  <2> HIDE DEF step
  <2>1. ASSUME NEW i \in 0 .. n PROVE h[i] = IF i = 0 THEN v ELSE VtByte(h[i - 1], run[i])
    <3>1. CASE i = 0
      BY <1>4, <3>1
    <3>2. CASE i # 0
      <4>1. i \in 1 .. n /\ i - 1 \in 0 .. n
        BY <1>1, <3>2
      <4>2. h[i] = step[i][h[i - 1]] /\ h[i - 1] \in Vt
        BY <1>4, <4>1
      <4> QED
        BY <1>2, <3>2, <4>1, <4>2
    <3> QED
      BY <3>1, <3>2
  <2>2. h = [i \in 0 .. n |-> h[i]]
    BY <1>4
  <2> QED
    BY <2>1, <2>2
<1>6. f = Outs(f)
  <2> HIDE DEF Outs
  <2> QED
    BY <1>5
<1>7. f = [i \in 0 .. n |-> f[i]] /\ f[0] = v /\ \A i \in 1 .. n : f[i] = VtByte(f[i - 1], run[i])
  <2> HIDE DEF f
  <2>1. f = [i \in 0 .. n |-> IF i = 0 THEN v ELSE VtByte(f[i - 1], run[i])]
    BY <1>6
  <2> HIDE DEF n
  <2> QED
    BY <1>1, <2>1
<1>8. f \in [0 .. n -> Vt]
  <2> HIDE DEF f, n
  <2>1. \A i \in 1 .. n : f[i - 1] \in Vt => f[i] \in Vt
    BY <1>7, VtByteTyped
  <2> QED
    BY <1>1, <1>7, <2>1, StaysIn, Zenon
<1>9. Along(VtByte, v, run) = f[n]
  BY DEF Along
<1> HIDE DEF f
<1>10. f \in VtRun(v, run)
  BY <1>7, <1>8, <1>9 DEF VtRun
<1> QED
  BY <1>10

\* x/vt keeps its type.
LEMMA VtAlong ==
  ASSUME NEW v \in Vt, NEW S, NEW run \in Seq(S)
  PROVE  Along(VtByte, v, run) \in Vt
<1> DEFINE n == Len(run)
<1>1. n \in Nat
  OBVIOUS
<1>2. PICK f : f \in VtRun(v, run)
  BY VtRuns
<1>3. f \in [0 .. n -> Vt] /\ Along(VtByte, v, run) = f[n]
  BY <1>2, Zenon DEF VtRun
<1> HIDE DEF n
<1> QED
  BY <1>1, <1>3

\* A CSI that is being read has counted its first two bytes.
FullCSI(s) == s.st = "csi" => s.len >= 2

\* What is cut for a replacement is never less than nothing: the final byte of a CSI is its third at least.
LEMMA AdvanceCounts ==
  ASSUME NEW s \in Scan, NEW b \in Byte, FullCSI(s)
  PROVE  /\ FullCSI(Advance(s, b).s)
         /\ Advance(s, b).ev = "replaced" => Advance(s, b).s.len >= 1
<1>0. \A x : None(x).s = x /\ None(x).ev = "none"
  BY DEF None
<1>1. ASSUME NEW x, x # "csi" PROVE FullCSI([s EXCEPT !.st = x])
  BY <1>1 DEF FullCSI, Scan
<1>2. FullCSI(ScanByte(s, b).s) /\ ScanByte(s, b).ev # "replaced"
  <2>1. FullCSI([s EXCEPT !.st = "utf8", !.lead = b]) /\ FullCSI([s EXCEPT !.st = "scan", !.last = <<b>>])
    BY DEF FullCSI, Scan
  <2>2. ScanByte(s, b) \in {None([s EXCEPT !.st = "esc"]), None([s EXCEPT !.st = "scan"]),
                            None([s EXCEPT !.st = "utf8", !.lead = b]),
                            [s |-> [s EXCEPT !.st = "scan", !.last = <<b>>], ev |-> "rune", data |-> <<b>>]}
    BY DEF ScanByte
  <2> QED
    BY <1>0, <1>1, <2>1, <2>2
<1>3. s.len \in Nat /\ s.st \in States
  BY DEF Scan
<1>4. CASE s.st = "scan"
  BY <1>2, <1>4 DEF Advance
<1>5. CASE s.st = "utf8"
  <2>1. FullCSI(Whole(s, b).s) /\ Whole(s, b).ev = "rune"
    BY DEF Whole, FullCSI, Scan
  <2>2. Advance(s, b) \in {Whole(s, b), ScanByte(s, b)}
    BY <1>5 DEF Advance
  <2> QED
    BY <1>2, <2>1, <2>2
<1>6. CASE s.st = "esc"
  <2>1. FullCSI([s EXCEPT !.st = "csi", !.priv = FALSE, !.num = FALSE, !.len = 2])
    <3> DEFINE c == [s EXCEPT !.st = "csi", !.priv = FALSE, !.num = FALSE, !.len = 2]
    <3>1. c.len = 2
      BY DEF Scan
    <3> HIDE DEF c
    <3>2. FullCSI(c)
      BY <3>1 DEF FullCSI
    <3> QED
      BY <3>2 DEF c
  <2>2. FullCSI([s EXCEPT !.st = "str", !.buf = <<>>]) /\ FullCSI(ScanReset)
    BY DEF FullCSI, Scan, ScanReset
  <2>3. Advance(s, b) \in {None([s EXCEPT !.st = "csi", !.priv = FALSE, !.num = FALSE, !.len = 2]),
                           None([s EXCEPT !.st = "str", !.buf = <<>>]), None([s EXCEPT !.st = "scan"]),
                           [s |-> ScanReset, ev |-> "ris", data |-> <<>>]}
    BY <1>6 DEF Advance
  <2> DEFINE c == [s EXCEPT !.st = "csi", !.priv = FALSE, !.num = FALSE, !.len = 2]
             d == [s EXCEPT !.st = "str", !.buf = <<>>]
             g == [s EXCEPT !.st = "scan"]
             r == [s |-> ScanReset, ev |-> "ris", data |-> <<>>]
  <2>4. FullCSI(c) /\ FullCSI(d) /\ FullCSI(g) /\ r.s = ScanReset /\ r.ev = "ris"
    BY <1>1, <2>1, <2>2
  <2>5. Advance(s, b) \in {None(c), None(d), None(g), r}
    BY <2>3
  <2> HIDE DEF c, d, g, r
  <2> QED
    BY <1>0, <2>2, <2>4, <2>5
<1>7. CASE s.st = "csi"
  <2> DEFINE more == s.len + 1
             t == [s EXCEPT !.len = more]
  <2>1. more \in Nat /\ more >= 2
    BY <1>3, <1>7 DEF FullCSI
  <2> HIDE DEF more
  <2>2. t \in Scan /\ t.len = more
    BY <2>1 DEF Scan
  <2>3. Advance(s, b) \in {None([t EXCEPT !.priv = TRUE]), None([t EXCEPT !.num = TRUE]), CSIFinal(t, b)}
    BY <1>7 DEF Advance, more
  <2> HIDE DEF t
  <2>4. FullCSI([t EXCEPT !.priv = TRUE]) /\ FullCSI([t EXCEPT !.num = TRUE])
    BY <2>1, <2>2 DEF FullCSI, Scan
  <2>5. CSIFinal(t, b).s.st = "scan" /\ CSIFinal(t, b).s.len = more
    <3> DEFINE hits == t.hits + (IF b \in {"n", "c"} THEN 1 ELSE 0)
               r == [t EXCEPT !.st = "scan", !.hits = hits]
               on == (b = "h")
               twice == t.last \o t.last
               save == <<"esc", "7">>
    <3>1. CSIFinal(t, b).s \in {[r EXCEPT !.repl = save], [r EXCEPT !.repl = twice], [r EXCEPT !.insert = on], r}
      <4>1. CSIFinal(t, b).s = CASE b = "s" /\ ~t.priv -> [r EXCEPT !.repl = save]
                                 [] b = "b" /\ t.last # <<>> -> [r EXCEPT !.repl = twice]
                                 [] b \in {"h", "l"} /\ ~t.priv /\ t.num -> [r EXCEPT !.insert = on]
                                 [] OTHER -> r
        BY DEF CSIFinal
      <4> HIDE DEF hits, on, twice, save, r
      <4> QED
        BY <4>1
    <3> HIDE DEF hits, on, twice, save
    <3>2. \A x : [r EXCEPT !.repl = x].st = "scan" /\ [r EXCEPT !.repl = x].len = more
      BY <2>2 DEF Scan
    <3>3. r.st = "scan" /\ r.len = more /\ [r EXCEPT !.insert = on].st = "scan" /\ [r EXCEPT !.insert = on].len = more
      BY <2>2 DEF Scan
    <3> HIDE DEF r
    <3> QED
      BY <3>1, <3>2, <3>3
  <2>6. FullCSI(CSIFinal(t, b).s) /\ CSIFinal(t, b).s.len >= 1
    BY <2>1, <2>5 DEF FullCSI
  <2> QED
    BY <1>0, <2>3, <2>4, <2>6
<1>8. CASE s.st = "str"
  <2>1. FullCSI([s EXCEPT !.buf = Append(s.buf, b)])
    BY <1>8 DEF FullCSI, Scan
  <2>2. Advance(s, b) \in {None([s EXCEPT !.st = "strEnd"]), None([s EXCEPT !.buf = Append(s.buf, b)])}
    BY <1>8 DEF Advance
  <2> DEFINE d == [s EXCEPT !.st = "strEnd"]
             g == [s EXCEPT !.buf = Append(s.buf, b)]
  <2>3. FullCSI(d) /\ FullCSI(g)
    BY <1>1, <2>1
  <2>4. Advance(s, b) \in {None(d), None(g)}
    BY <2>2
  <2> HIDE DEF d, g
  <2> QED
    BY <1>0, <2>3, <2>4
<1>9. CASE s.st = "strEnd"
  <2>1. FullCSI([s EXCEPT !.st = "scan", !.buf = <<>>])
    BY DEF FullCSI, Scan
  <2>2. Advance(s, b) \in {None([s EXCEPT !.st = "str"]),
                           [s |-> [s EXCEPT !.st = "scan", !.buf = <<>>], ev |-> "payload", data |-> s.buf]}
    BY <1>9 DEF Advance
  <2> DEFINE d == [s EXCEPT !.st = "str"]
             g == [s EXCEPT !.st = "scan", !.buf = <<>>]
             r == [s |-> g, ev |-> "payload", data |-> s.buf]
  <2>3. FullCSI(d) /\ FullCSI(g) /\ r.s = g /\ r.ev = "payload"
    BY <1>1, <2>1
  <2>4. Advance(s, b) \in {None(d), r}
    BY <2>2
  <2> HIDE DEF d, g, r
  <2> QED
    BY <1>0, <2>3, <2>4
<1> QED
  BY <1>3, <1>4, <1>5, <1>6, <1>7, <1>8, <1>9 DEF States

\* What Write works on, while the answers of taken were drained.
Works(taken) ==
  {w \in [scan : Scan, vt : Vt, run : Tokens, modes : BOOLEAN, pics : Nat, pending : BOOLEAN,
          queue : Seq(Nat), hand : Seq(Nat), asked : Nat, lost : SUBSET Nat] :
     /\ FullCSI(w.scan)
     /\ Len(w.queue) <= EmQueueCap /\ Len(w.hand) <= 1
     /\ Kept(taken \o (w.queue \o w.hand), w.asked, w.lost)}

\* The parts of it that have nothing to do with answers.
LEMMA WorkParts ==
  ASSUME NEW taken, NEW w \in Works(taken)
  PROVE  /\ w.scan \in Scan /\ w.vt \in Vt /\ w.run \in Tokens /\ w.modes \in BOOLEAN /\ w.pics \in Nat
         /\ w.pending \in BOOLEAN
         /\ \A x \in Scan : FullCSI(x) => [w EXCEPT !.scan = x] \in Works(taken)
         /\ \A x \in Vt : [w EXCEPT !.vt = x] \in Works(taken)
         /\ \A x \in Tokens : [w EXCEPT !.run = x] \in Works(taken)
         /\ \A x \in Tokens, m \in BOOLEAN : [w EXCEPT !.modes = m, !.run = x] \in Works(taken)
         /\ \A p \in Nat, b \in BOOLEAN : [w EXCEPT !.pending = b, !.pics = p] \in Works(taken)
         /\ \A b \in BOOLEAN : [w EXCEPT !.pending = b] \in Works(taken)
BY DEF Works

\* Each part of Write keeps Works: the run is handed over, and what it asks is answered,
LEMMA FlushStays ==
  ASSUME NEW taken \in Seq(Nat), NEW w \in Works(taken)
  PROVE  Flush(w) \in Works(taken) /\ Flush(w).scan = w.scan
<1> DEFINE n == Cardinality({i \in DOMAIN w.run : w.run[i] = "n"})
           done == Done(w.hand, w.asked, n)
           room == EmRoom(w.queue, done)
           hand == InHand(w.hand, w.asked, n)
           vt == Along(VtByte, w.vt, w.run)
           lost == w.lost \cup (ToSet(done) \ ToSet(room))
           queries == w.asked + n
           none == <<>>
<1>1. /\ w.vt \in Vt /\ w.run \in Tokens /\ w.queue \in Seq(Nat) /\ w.hand \in Seq(Nat) /\ w.asked \in Nat
      /\ w.lost \in SUBSET Nat /\ Len(w.queue) <= EmQueueCap /\ Len(w.hand) <= 1
      /\ Kept(taken \o (w.queue \o w.hand), w.asked, w.lost)
  BY DEF Works
<1>2. n \in Nat
  <2> DEFINE at == {i \in DOMAIN w.run : w.run[i] = "n"}
  <2>1. Len(w.run) \in Nat /\ DOMAIN w.run = 1 .. Len(w.run)
    <3> HIDE DEF Byte
    <3> QED
      BY <1>1 DEF Tokens
  <2>2. IsFiniteSet(1 .. Len(w.run)) /\ at \in SUBSET (1 .. Len(w.run))
    BY <2>1, FS_Interval
  <2> HIDE DEF at
  <2>3. IsFiniteSet(at)
    BY <2>2, FS_Subset
  <2> QED
    BY <2>3, FS_CardinalityType DEF at
<1>3. vt \in Vt
  <2> HIDE DEF Byte
  <2> QED
    BY <1>1, VtAlong DEF Tokens
<1> HIDE DEF n
<1>4. /\ room \in Seq(Nat) /\ Len(room) <= EmQueueCap /\ hand \in Seq(Nat) /\ Len(hand) <= 1
      /\ Kept(taken \o (room \o hand), w.asked + n, lost)
  BY <1>1, <1>2, AnswersQueued
<1>5. done \in Seq(Nat)
  BY <1>1, <1>2, DoneOrInHand
<1>6. lost \in SUBSET Nat /\ queries \in Nat /\ none \in Tokens
  <2> HIDE DEF done, room
  <2>1. ToSet(done) \in SUBSET Nat
    BY <1>5, LenProperties DEF ToSet
  <2> QED
    BY <1>1, <1>2, <2>1, RowsOfBytes
<1>7. Flush(w) = [w EXCEPT !.vt = vt, !.run = none, !.asked = queries, !.queue = room, !.lost = lost, !.hand = hand]
  BY DEF Flush, n, Done, InHand, All
<1> HIDE DEF done, room, hand, vt, lost, queries, none
<1>8. [w EXCEPT !.vt = vt, !.run = none, !.asked = queries, !.queue = room, !.lost = lost, !.hand = hand] \in Works(taken)
  <2>1. Kept(taken \o (room \o hand), queries, lost)
    BY <1>4 DEF queries
  <2> QED
    BY <1>3, <1>4, <1>6, <2>1 DEF Works
<1> QED
  BY <1>7, <1>8 DEF Works

\* a picture's part is taken,
LEMMA HandleAPCStays ==
  ASSUME NEW taken, NEW w \in Works(taken), NEW p
  PROVE  HandleAPC(w, p) \in Works(taken)
<1>1. w.pics \in Nat /\ w.pending \in BOOLEAN
  BY WorkParts
<1> DEFINE up == w.pics + (IF w.pending THEN 1 ELSE 0)
           alone == w.pics + (IF w.pending THEN 0 ELSE 1)
<1>2. up \in Nat /\ alone \in Nat
  BY <1>1
<1>3. HandleAPC(w, p) \in {[w EXCEPT !.pending = TRUE], [w EXCEPT !.pending = FALSE, !.pics = up],
                           [w EXCEPT !.pending = FALSE, !.pics = alone], w}
  BY DEF HandleAPC
<1> HIDE DEF up, alone
<1>4. \A x \in Nat, b \in BOOLEAN : [w EXCEPT !.pending = b, !.pics = x] \in Works(taken)
  BY WorkParts
<1>5. \A b \in BOOLEAN : [w EXCEPT !.pending = b] \in Works(taken)
  BY WorkParts
<1> QED
  BY <1>2, <1>3, <1>4, <1>5

\* a reset clears the answers that are queued,
LEMMA OnRISStays ==
  ASSUME NEW taken \in Seq(Nat), NEW w \in Works(taken)
  PROVE  OnRIS(w) \in Works(taken) /\ OnRIS(w).run = w.run
<1> DEFINE none == <<>>
           lost == w.lost \cup ToSet(w.queue)
<1>1. /\ w.queue \in Seq(Nat) /\ w.hand \in Seq(Nat) /\ w.lost \in SUBSET Nat /\ Len(w.hand) <= 1
      /\ Kept(taken \o (w.queue \o w.hand), w.asked, w.lost)
  BY DEF Works
<1>2. none \in Seq(Nat) /\ none \o w.queue = w.queue /\ Len(none) <= EmQueueCap
  BY <1>1, EmAssumption DEF EmAssumption
<1>3. lost \in SUBSET Nat
  <2>1. ToSet(w.queue) \in SUBSET Nat
    BY <1>1, LenProperties DEF ToSet
  <2> QED
    BY <1>1, <2>1
<1>4. Kept(taken \o (none \o w.hand), w.asked, lost)
  <2> HIDE DEF none
  <2>1. Kept(taken \o ((none \o w.queue) \o w.hand), w.asked, w.lost)
    BY <1>1, <1>2
  <2> QED
    BY <1>1, <1>2, <2>1, PartIsLost
<1>5. OnRIS(w) = [w EXCEPT !.modes = FALSE, !.pics = 0, !.pending = FALSE, !.lost = lost, !.queue = none]
  BY DEF OnRIS
<1> HIDE DEF none, lost
<1>6. [w EXCEPT !.modes = FALSE, !.pics = 0, !.pending = FALSE, !.lost = lost, !.queue = none] \in Works(taken)
  BY <1>2, <1>3, <1>4 DEF Works
<1> QED
  BY <1>5, <1>6 DEF Works

\* a rune is put into the run,
LEMMA PutRuneStays ==
  ASSUME NEW taken \in Seq(Nat), NEW w \in Works(taken), NEW r \in Tokens
  PROVE  PutRune(w, r) \in Works(taken)
<1> DEFINE wide == CellsOf(r) > 1
           f == IF wide \/ w.scan.insert THEN Flush(w) ELSE w
           broken == VtByte(f.vt, "crlf")
           g == IF wide /\ f.vt.x + CellsOf(r) > EmWidth THEN [f EXCEPT !.vt = broken] ELSE f
           ich == IF wide THEN "ich2" ELSE "ich1"
           inserted == VtByte(g.vt, ich)
           h == IF w.scan.insert THEN [g EXCEPT !.vt = inserted] ELSE g
           run == h.run \o r
<1>1. f \in Works(taken)
  BY FlushStays
<1>2. PutRune(w, r) = [h EXCEPT !.run = run]
  BY DEF PutRune
<1> HIDE DEF f
<1>3. broken \in Vt
  BY <1>1, WorkParts, VtByteTyped
<1> HIDE DEF broken
<1>4. g \in Works(taken)
  BY <1>1, <1>3, WorkParts
<1> HIDE DEF g
<1>5. inserted \in Vt
  <2>1. g.vt \in Vt
    BY <1>4, WorkParts
  <2> HIDE DEF ich
  <2> QED
    BY <2>1, VtByteTyped
<1> HIDE DEF inserted
<1>6. h \in Works(taken)
  BY <1>4, <1>5, WorkParts
<1> HIDE DEF h
<1>7. run \in Tokens
  BY <1>6, WorkParts, RowsOfBytes
<1> HIDE DEF run
<1>8. \A x \in Tokens : [h EXCEPT !.run = x] \in Works(taken)
  BY <1>6, WorkParts
<1> QED
  BY <1>2, <1>7, <1>8

\* a CSI gives way to its replacement,
LEMMA SpliceStays ==
  ASSUME NEW taken, NEW w \in Works(taken), NEW repl \in Tokens, w.scan.len >= 1
  PROVE  Splice(w, repl) \in Works(taken)
<1> DEFINE n == Len(w.run)
           S == {w.scan.len - 1, n}
           cut == Min(S)
           front == SubSeq(w.run, 1, n - cut)
           run == front \o repl
<1>1. w.scan.len \in Nat /\ w.run \in Tokens
  <2>1. w.scan \in Scan /\ w.run \in Tokens
    BY WorkParts
  <2> QED
    BY <2>1 DEF Scan
<1>2. n \in Nat /\ \A i \in 1 .. n : w.run[i] \in Byte
  <2> HIDE DEF Byte
  <2> QED
    BY <1>1, ElementOfSeq DEF Tokens
<1> HIDE DEF n
<1>3. cut \in Nat
  <2>1. w.scan.len - 1 \in Nat
    BY <1>1
  <2>2. \E x \in S : \A y \in S : x <= y
    BY <1>2, <2>1
  <2>3. cut \in S
    BY <2>2 DEF Min
  <2> QED
    BY <1>2, <2>1, <2>3
<1>4. Splice(w, repl) = [w EXCEPT !.run = run]
  BY DEF Splice, n
<1> HIDE DEF cut
<1>5. front \in Tokens
  <2>1. n - cut \in Int /\ \A i \in 1 .. n - cut : w.run[i] \in Byte
    BY <1>2, <1>3
  <2> HIDE DEF Byte
  <2> QED
    BY <2>1, SubSeqProperties DEF Tokens
<1> HIDE DEF front
<1>6. run \in Tokens
  BY <1>5, RowsOfBytes
<1> HIDE DEF run
<1>7. \A x \in Tokens : [w EXCEPT !.run = x] \in Works(taken)
  BY WorkParts
<1> QED
  BY <1>4, <1>6, <1>7

\* and so does each byte.
LEMMA WriteByteStays ==
  ASSUME NEW taken \in Seq(Nat), NEW w \in Works(taken), NEW b \in Byte
  PROVE  WriteByte(w, b) \in Works(taken)
<1> DEFINE a == Advance(w.scan, b)
           u == [w EXCEPT !.scan = a.s]
           run == Append(w.run, b)
           on == (a.ev = "on")
           fed == [u EXCEPT !.run = run]
           flushed == Flush(fed)
           wiped == OnRIS(u)
<1>1. w.scan \in Scan /\ FullCSI(w.scan) /\ w.run \in Tokens
  BY WorkParts DEF Works
<1>2. a.s \in Scan /\ a.data \in Tokens /\ FullCSI(a.s) /\ (a.ev = "replaced" => a.s.len >= 1)
  BY <1>1, AdvanceTyped, AdvanceCounts DEF IsEvent
<1> HIDE DEF a
<1>3. u \in Works(taken) /\ u.run = w.run /\ u.scan = a.s
  BY <1>2, WorkParts DEF Works
<1>4. run \in Tokens
  BY <1>1, RowsOfBytes
<1>5. WriteByte(w, b) =
        CASE a.ev = "rune" -> PutRune(u, a.data)
          [] a.ev = "replaced" -> Splice(u, a.data)
          [] a.ev = "payload" -> HandleAPC(flushed, a.data)
          [] a.ev = "ris" -> [wiped EXCEPT !.run = Append(wiped.run, b)]
          [] a.ev \in {"on", "off"} -> [u EXCEPT !.modes = on, !.run = Append(u.run, b)]
          [] OTHER -> IF a.s.st = "utf8" THEN u ELSE [u EXCEPT !.run = Append(u.run, b)]
  BY <1>3 DEF WriteByte, a
<1>6. on \in BOOLEAN
  BY Zenon
<1>7. wiped \in Works(taken) /\ wiped.run = w.run
  BY <1>3, OnRISStays
<1> HIDE DEF u, run, wiped, on
<1>8. fed \in Works(taken) /\ [wiped EXCEPT !.run = run] \in Works(taken)
      /\ [u EXCEPT !.modes = on, !.run = run] \in Works(taken)
  BY <1>3, <1>4, <1>6, <1>7, WorkParts
<1> HIDE DEF fed
<1>9. flushed \in Works(taken)
  BY <1>8, FlushStays
<1> HIDE DEF flushed
<1>10. HandleAPC(flushed, a.data) \in Works(taken)
  BY <1>9, HandleAPCStays
<1>11. PutRune(u, a.data) \in Works(taken)
  BY <1>2, <1>3, PutRuneStays
<1>12. a.ev = "replaced" => Splice(u, a.data) \in Works(taken)
  BY <1>2, <1>3, SpliceStays
<1>13. Append(u.run, b) = run /\ Append(wiped.run, b) = run
  BY <1>3, <1>7 DEF run
<1>14. [u EXCEPT !.run = Append(u.run, b)] = fed
  BY <1>13 DEF fed
<1> QED
  BY <1>3, <1>5, <1>8, <1>10, <1>11, <1>12, <1>13, <1>14

\* Write after each byte.
WriteRun(taken, w, p) ==
  {f \in [0 .. Len(p) -> Works(taken)] :
     f[0] = w /\ (\A i \in 1 .. Len(p) : f[i] = WriteByte(f[i - 1], p[i])) /\ Along(WriteByte, w, p) = f[Len(p)]}

\* There is such a function.
LEMMA WriteRuns ==
  ASSUME NEW taken \in Seq(Nat), NEW w \in Works(taken), NEW p \in Tokens
  PROVE  \E f : f \in WriteRun(taken, w, p)
<1> DEFINE n == Len(p)
           W == Works(taken)
           Outs(f) == [k \in 0 .. Len(p) |-> IF k = 0 THEN w ELSE WriteByte(f[k-1], p[k])]
           step == [i \in 1 .. n |-> [x \in W |-> WriteByte(x, p[i])]]
           f == CHOOSE f : f = Outs(f)
<1>1. n \in Nat /\ \A i \in 1 .. n : p[i] \in Byte
  <2> HIDE DEF Byte
  <2> QED
    BY ElementOfSeq DEF Tokens
<1>0. \A i \in 1 .. n, x \in W : WriteByte(x, p[i]) \in W
  <2> HIDE DEF n
  <2> QED
    BY <1>1, WriteByteStays
<1> HIDE DEF W
<1>2. \A i \in 1 .. n, x \in W : step[i][x] \in W /\ step[i][x] = WriteByte(x, p[i])
  BY <1>0
<1>3. PICK h : h \in Folds(W, w, step, n)
  <2>1. (\A i \in 1 .. n, x \in W : step[i][x] \in W) /\ w \in W
    BY <1>2 DEF W
  <2> HIDE DEF step, n
  <2> QED
    BY <1>1, <2>1, Fold
<1>4. h \in [0 .. n -> W] /\ h[0] = w /\ \A i \in 1 .. n : h[i] = step[i][h[i - 1]]
  <2> HIDE DEF step, n
  <2> QED
    BY <1>3 DEF Folds
<1>5. h = Outs(h)
  <2> HIDE DEF step
  <2>1. ASSUME NEW i \in 0 .. n PROVE h[i] = IF i = 0 THEN w ELSE WriteByte(h[i - 1], p[i])
    <3>1. CASE i = 0
      BY <1>4, <3>1
    <3>2. CASE i # 0
      <4>1. i \in 1 .. n /\ i - 1 \in 0 .. n
        BY <1>1, <3>2
      <4>2. h[i] = step[i][h[i - 1]] /\ h[i - 1] \in W
        BY <1>4, <4>1
      <4> QED
        BY <1>2, <3>2, <4>1, <4>2
    <3> QED
      BY <3>1, <3>2
  <2>2. h = [i \in 0 .. n |-> h[i]]
    BY <1>4
  <2> QED
    BY <2>1, <2>2
<1>6. f = Outs(f)
  <2> HIDE DEF Outs
  <2> QED
    BY <1>5
<1>7. f = [i \in 0 .. n |-> f[i]] /\ f[0] = w /\ \A i \in 1 .. n : f[i] = WriteByte(f[i - 1], p[i])
  <2> HIDE DEF f
  <2>1. f = [i \in 0 .. n |-> IF i = 0 THEN w ELSE WriteByte(f[i - 1], p[i])]
    BY <1>6
  <2>2. n \in Nat
    BY <1>1
  <2> HIDE DEF n
  <2>3. \A i \in 0 .. n : f[i] = IF i = 0 THEN w ELSE WriteByte(f[i - 1], p[i])
    BY <2>1
  <2>4. \A i \in 1 .. n : i \in 0 .. n /\ i # 0
    BY <2>2
  <2>5. f = [i \in 0 .. n |-> f[i]]
    BY <2>1
  <2>6. 0 \in 0 .. n
    BY <2>2
  <2> QED
    BY <2>3, <2>4, <2>5, <2>6
<1>8. f \in [0 .. n -> W]
  <2> HIDE DEF f, n
  <2>1. (\A i \in 1 .. n : f[i - 1] \in W => f[i] \in W) /\ w \in W
    BY <1>0, <1>7 DEF W
  <2> QED
    BY <1>1, <1>7, <2>1, StaysIn, Zenon
<1>9. Along(WriteByte, w, p) = f[n]
  BY DEF Along
<1> HIDE DEF f
<1>10. f \in WriteRun(taken, w, p)
  BY <1>7, <1>8, <1>9 DEF WriteRun, W
<1> QED
  BY <1>10

\* Write keeps Works.
LEMMA WriteStays ==
  ASSUME NEW taken \in Seq(Nat), NEW w \in Works(taken), NEW p \in Tokens
  PROVE  Along(WriteByte, w, p) \in Works(taken)
<1> DEFINE n == Len(p)
<1>1. n \in Nat
  BY DEF Tokens
<1>2. PICK f : f \in WriteRun(taken, w, p)
  BY WriteRuns
<1>3. f \in [0 .. n -> Works(taken)] /\ Along(WriteByte, w, p) = f[n]
  BY <1>2, Zenon DEF WriteRun
<1> HIDE DEF n
<1> QED
  BY <1>1, <1>3

\* Every sequence a program writes is a row of bytes.
LEMMA BytesTyped == \A k \in DOMAIN Bytes : Bytes[k] \in Tokens
<1>1. /\ "a" \in Byte /\ "lead" \in Byte /\ "cont" \in Byte /\ "ph1" \in Byte /\ "ph2" \in Byte /\ "esc" \in Byte
      /\ "[" \in Byte /\ "s" \in Byte /\ "4" \in Byte /\ "b" \in Byte /\ "h" \in Byte /\ "l" \in Byte
      /\ "?" \in Byte /\ "n" \in Byte /\ "c" \in Byte /\ "_" \in Byte /\ "G" \in Byte /\ "st" \in Byte
      /\ "1" \in Byte /\ "0" \in Byte
  BY DEF Byte
<1>2. \A a, b \in Byte : <<a, b>> \in Tokens
  <2> HIDE DEF Byte
  <2> QED
    BY DEF Tokens
<1>3. \A x \in Byte : <<"esc", "[", x>> \in Tokens
  <2>1. "esc" \in Byte /\ "[" \in Byte
    BY <1>1
  <2> HIDE DEF Byte
  <2> QED
    BY <2>1 DEF Tokens
<1>4. \A x \in Byte : <<"esc", "[", "4", x>> \in Tokens
  <2>1. "esc" \in Byte /\ "[" \in Byte /\ "4" \in Byte
    BY <1>1
  <2> HIDE DEF Byte
  <2> QED
    BY <2>1 DEF Tokens
<1>5. /\ \A x \in Byte : <<"esc", "_", x, "esc", "st">> \in Tokens
      /\ <<"esc", "[", "?", "4", "h">> \in Tokens
  <2>1. \A a, b, c, d, e \in Byte : <<a, b, c, d, e>> \in Tokens
    <3> HIDE DEF Byte
    <3> QED
      BY DEF Tokens
  <2>2. "esc" \in Byte /\ "_" \in Byte /\ "st" \in Byte
    BY <1>1
  <2>3. "esc" \in Byte /\ "[" \in Byte /\ "?" \in Byte /\ "4" \in Byte /\ "h" \in Byte
    BY <1>1
  <2> HIDE DEF Byte, Tokens
  <2>4. \A x \in Byte : <<"esc", "_", x, "esc", "st">> \in Tokens
    BY <2>1, <2>2
  <2>5. <<"esc", "[", "?", "4", "h">> \in Tokens
    BY <2>1, <2>3
  <2> QED
    BY <2>4, <2>5
<1>6. DOMAIN Bytes = {"char", "wide", "hint", "save", "repeat", "irmOn", "irmOff", "modeOn", "query", "reset",
                      "single", "first", "last"}
  BY DEF Bytes
<1>7. Bytes["char"] = <<"a">> /\ Bytes["wide"] = <<"lead", "cont">> /\ Bytes["hint"] = <<"ph1", "ph2">>
  BY DEF Bytes
<1>8. Bytes["save"] = <<"esc", "[", "s">> /\ Bytes["repeat"] = <<"esc", "[", "4", "b">>
      /\ Bytes["irmOn"] = <<"esc", "[", "4", "h">>
  BY DEF Bytes
<1>9. Bytes["irmOff"] = <<"esc", "[", "4", "l">> /\ Bytes["modeOn"] = <<"esc", "[", "?", "4", "h">>
      /\ Bytes["query"] = <<"esc", "[", "n">>
  BY DEF Bytes
<1>10. Bytes["reset"] = <<"esc", "c">> /\ Bytes["single"] = <<"esc", "_", "G", "esc", "st">>
  BY DEF Bytes
<1>11. Bytes["first"] = <<"esc", "_", "1", "esc", "st">> /\ Bytes["last"] = <<"esc", "_", "0", "esc", "st">>
  BY DEF Bytes
<1> HIDE DEF Byte, Tokens
<1>12. Bytes["char"] \in Tokens /\ Bytes["wide"] \in Tokens /\ Bytes["hint"] \in Tokens
  BY <1>1, <1>2, <1>7, RowsOfBytes, Zenon
<1>13. Bytes["save"] \in Tokens /\ Bytes["repeat"] \in Tokens /\ Bytes["irmOn"] \in Tokens
  BY <1>1, <1>3, <1>4, <1>8, Zenon
<1>14. Bytes["irmOff"] \in Tokens /\ Bytes["query"] \in Tokens
  BY <1>1, <1>3, <1>4, <1>9, Zenon
<1>15. Bytes["modeOn"] \in Tokens
  BY <1>5, <1>9, Zenon
<1>16. Bytes["reset"] \in Tokens /\ Bytes["single"] \in Tokens
  BY <1>1, <1>2, <1>5, <1>10, Zenon
<1>17. Bytes["first"] \in Tokens /\ Bytes["last"] \in Tokens
  BY <1>1, <1>5, <1>11, Zenon
<1> QED
  BY <1>6, <1>12, <1>13, <1>14, <1>15, <1>16, <1>17, Zenon

\* Stripped keeps bytes.
LEMMA StrippedTyped ==
  ASSUME NEW p \in Tokens
  PROVE  Stripped(p) \in Tokens
<1> HIDE DEF Byte
<1> DEFINE Gone(i) == \/ p[i] = "ph1" /\ i < Len(p) /\ p[i+1] = "ph2"
                      \/ p[i] = "ph2" /\ i > 1 /\ p[i-1] = "ph1"
           at == {i \in 1 .. Len(p) : ~Gone(i)}
<1>1. Stripped(p) = Those(p, at)
  BY DEF Stripped
<1>2. at \in SUBSET (1 .. Len(p)) /\ p \in Seq(Byte)
  BY DEF Tokens
<1> HIDE DEF at
<1>3. PICK f : f \in Grows(Byte, p, at)
  BY <1>2, ThoseGrow
<1>4. Len(p) \in 0 .. Len(p)
  BY <1>2
<1>5. Those(p, at) \in Seq(Byte)
  BY <1>3, <1>4 DEF Grows
<1> QED
  BY <1>1, <1>5 DEF Tokens

\* The answers that Work and emTaken hold between them are those that were not lost.
IAnswers == Work \in Works(emTaken) /\ emTaken \in Seq(Nat) /\ emPipe \in Tokens

\* The record of what Write works on, from its fields.
LEMMA WorkOf ==
  ASSUME NEW taken, NEW s \in Scan, NEW v \in Vt, NEW m \in BOOLEAN, NEW p \in Nat, NEW h \in BOOLEAN,
         NEW q \in Seq(Nat), NEW r \in Seq(Nat), NEW a \in Nat, NEW l \in SUBSET Nat,
         FullCSI(s), Len(q) <= EmQueueCap, Len(r) <= 1, Kept(taken \o (q \o r), a, l)
  PROVE  [scan |-> s, vt |-> v, run |-> <<>>, modes |-> m, pics |-> p, pending |-> h,
          queue |-> q, hand |-> r, asked |-> a, lost |-> l] \in Works(taken)
<1> DEFINE none == <<>>
           w == [scan |-> s, vt |-> v, run |-> none, modes |-> m, pics |-> p, pending |-> h,
                 queue |-> q, hand |-> r, asked |-> a, lost |-> l]
<1>1. none \in Tokens
  BY RowsOfBytes
<1> HIDE DEF none
<1>2. w \in [scan : Scan, vt : Vt, run : Tokens, modes : BOOLEAN, pics : Nat, pending : BOOLEAN,
             queue : Seq(Nat), hand : Seq(Nat), asked : Nat, lost : SUBSET Nat]
  BY <1>1
<1>3. w.scan = s /\ w.queue = q /\ w.hand = r /\ w.asked = a /\ w.lost = l
  OBVIOUS
<1> HIDE DEF w
<1>4. FullCSI(w.scan)
  BY <1>3
<1>5. Len(w.queue) <= EmQueueCap /\ Len(w.hand) <= 1
  BY <1>3
<1>6. Kept(taken \o (w.queue \o w.hand), w.asked, w.lost)
  BY <1>3
<1>7. w \in Works(taken)
  BY <1>2, <1>4, <1>5, <1>6 DEF Works
<1> QED
  BY <1>7 DEF w, none

\* The invariant, variable by variable.
LEMMA WorkIs ==
  ASSUME NEW taken
  PROVE  Work \in Works(taken) <=>
           /\ emScan \in Scan /\ emVt \in Vt /\ emModes \in BOOLEAN /\ emPics \in Nat /\ emPending \in BOOLEAN
           /\ emQueue \in Seq(Nat) /\ emHand \in Seq(Nat) /\ emAsked \in Nat /\ emLost \in SUBSET Nat
           /\ FullCSI(emScan) /\ Len(emQueue) <= EmQueueCap /\ Len(emHand) <= 1
           /\ Kept(taken \o (emQueue \o emHand), emAsked, emLost)
<1>1. Work = [scan |-> emScan, vt |-> emVt, run |-> <<>>, modes |-> emModes, pics |-> emPics, pending |-> emPending,
              queue |-> emQueue, hand |-> emHand, asked |-> emAsked, lost |-> emLost]
  BY DEF Work
<1>2. ASSUME Work \in Works(taken)
      PROVE  /\ emScan \in Scan /\ emVt \in Vt /\ emModes \in BOOLEAN /\ emPics \in Nat /\ emPending \in BOOLEAN
             /\ emQueue \in Seq(Nat) /\ emHand \in Seq(Nat) /\ emAsked \in Nat /\ emLost \in SUBSET Nat
             /\ FullCSI(emScan) /\ Len(emQueue) <= EmQueueCap /\ Len(emHand) <= 1
             /\ Kept(taken \o (emQueue \o emHand), emAsked, emLost)
  <2>1. /\ Work.scan = emScan /\ Work.vt = emVt /\ Work.modes = emModes /\ Work.pics = emPics
        /\ Work.pending = emPending /\ Work.queue = emQueue /\ Work.hand = emHand /\ Work.asked = emAsked
        /\ Work.lost = emLost
    BY <1>1
  <2>2. /\ Work.scan \in Scan /\ Work.vt \in Vt /\ Work.modes \in BOOLEAN /\ Work.pics \in Nat
        /\ Work.pending \in BOOLEAN /\ Work.queue \in Seq(Nat) /\ Work.hand \in Seq(Nat) /\ Work.asked \in Nat
        /\ Work.lost \in SUBSET Nat
        /\ FullCSI(Work.scan) /\ Len(Work.queue) <= EmQueueCap /\ Len(Work.hand) <= 1
        /\ Kept(taken \o (Work.queue \o Work.hand), Work.asked, Work.lost)
    BY <1>2 DEF Works
  <2> QED
    BY <2>1, <2>2
<1>3. ASSUME /\ emScan \in Scan /\ emVt \in Vt /\ emModes \in BOOLEAN /\ emPics \in Nat /\ emPending \in BOOLEAN
             /\ emQueue \in Seq(Nat) /\ emHand \in Seq(Nat) /\ emAsked \in Nat /\ emLost \in SUBSET Nat
             /\ FullCSI(emScan) /\ Len(emQueue) <= EmQueueCap /\ Len(emHand) <= 1
             /\ Kept(taken \o (emQueue \o emHand), emAsked, emLost)
      PROVE  Work \in Works(taken)
  <2> HIDE DEF Scan, Vt
  <2> QED
    BY <1>1, <1>3, WorkOf
<1> QED
  BY <1>2, <1>3

\* The same after a step.
LEMMA WorkWillBe ==
  ASSUME /\ emScan' \in Scan /\ emVt' \in Vt /\ emModes' \in BOOLEAN /\ emPics' \in Nat /\ emPending' \in BOOLEAN
         /\ emQueue' \in Seq(Nat) /\ emHand' \in Seq(Nat) /\ emAsked' \in Nat /\ emLost' \in SUBSET Nat
         /\ FullCSI(emScan') /\ Len(emQueue') <= EmQueueCap /\ Len(emHand') <= 1
         /\ Kept(emTaken' \o (emQueue' \o emHand'), emAsked', emLost')
  PROVE  Work' \in Works(emTaken')
<1>1. [scan |-> emScan', vt |-> emVt', run |-> <<>>, modes |-> emModes', pics |-> emPics', pending |-> emPending',
       queue |-> emQueue', hand |-> emHand', asked |-> emAsked', lost |-> emLost'] \in Works(emTaken')
  <2> HIDE DEF Scan, Vt
  <2> QED
    BY WorkOf
<1> QED
  BY <1>1 DEF Work

\* The answers are kept at the start (New, with an empty queue).
THEOREM IAnswersInit == EmulatorInit => IAnswers
<1> SUFFICES ASSUME EmulatorInit PROVE IAnswers
  OBVIOUS
<1> DEFINE none == <<>>
<1>1. none \in Seq(Nat) /\ none \in Tokens /\ Len(none) = 0 /\ none \o (none \o none) = none /\ ToSet(none) = {}
  BY RowsOfBytes DEF ToSet
<1>2. Kept(none \o (none \o none), 0, {})
  BY <1>1 DEF Kept, Rises
<1>3. ScanReset \in Scan /\ FullCSI(ScanReset) /\ VtReset \in Vt
  BY RowsOfBytes DEF ScanReset, Scan, FullCSI, States, VtReset, Vt
<1>4. /\ emScan = ScanReset /\ emVt = VtReset /\ emModes = FALSE /\ emPics = 0 /\ emPending = FALSE
      /\ emQueue = none /\ emHand = none /\ emAsked = 0 /\ emLost = {} /\ emTaken = none /\ emPipe = none
  BY DEF EmulatorInit
<1>5. 0 <= EmQueueCap /\ 0 \in Nat /\ 0 <= 1
  BY EmAssumption DEF EmAssumption
<1> HIDE DEF none
<1>6. Work \in Works(emTaken)
  BY <1>1, <1>2, <1>3, <1>4, <1>5, WorkIs
<1> QED
  BY <1>1, <1>4, <1>6 DEF IAnswers

\* What Write leaves behind is Work again, once its fields are stored.
LEMMA WorkIsStored ==
  ASSUME NEW w \in Works(emTaken), emTaken \in Seq(Nat), emTaken' = emTaken,
         emScan' = Flush(w).scan, emVt' = Flush(w).vt, emModes' = Flush(w).modes, emPics' = Flush(w).pics,
         emPending' = Flush(w).pending, emQueue' = Flush(w).queue, emHand' = Flush(w).hand,
         emAsked' = Flush(w).asked, emLost' = Flush(w).lost
  PROVE  Work' \in Works(emTaken')
<1> DEFINE g == Flush(w)
<1>1. g \in Works(emTaken)
  BY FlushStays
<1>2. /\ emScan' = g.scan /\ emVt' = g.vt /\ emModes' = g.modes /\ emPics' = g.pics /\ emPending' = g.pending
      /\ emQueue' = g.queue /\ emHand' = g.hand /\ emAsked' = g.asked /\ emLost' = g.lost
  OBVIOUS
<1> HIDE DEF g
<1>3. /\ g.scan \in Scan /\ g.vt \in Vt /\ g.modes \in BOOLEAN /\ g.pics \in Nat /\ g.pending \in BOOLEAN
      /\ g.queue \in Seq(Nat) /\ g.hand \in Seq(Nat) /\ g.asked \in Nat /\ g.lost \in SUBSET Nat
      /\ FullCSI(g.scan) /\ Len(g.queue) <= EmQueueCap /\ Len(g.hand) <= 1
      /\ Kept(emTaken \o (g.queue \o g.hand), g.asked, g.lost)
  BY <1>1 DEF Works
<1>4. [scan |-> g.scan, vt |-> g.vt, run |-> <<>>, modes |-> g.modes, pics |-> g.pics, pending |-> g.pending,
       queue |-> g.queue, hand |-> g.hand, asked |-> g.asked, lost |-> g.lost] \in Works(emTaken)
  BY <1>3, WorkOf
<1>5. Work' = [scan |-> g.scan, vt |-> g.vt, run |-> <<>>, modes |-> g.modes, pics |-> g.pics, pending |-> g.pending,
               queue |-> g.queue, hand |-> g.hand, asked |-> g.asked, lost |-> g.lost]
  BY <1>2 DEF Work
<1> QED
  BY <1>4, <1>5

\* A chunk of the stream is read.
LEMMA ChunkIsWritten ==
  ASSUME NEW p \in Tokens, IAnswers, emTaken' = emTaken,
         LET w == Flush(Along(WriteByte, Work, Stripped(p))) IN
           /\ emScan' = w.scan /\ emVt' = w.vt /\ emModes' = w.modes /\ emPics' = w.pics /\ emPending' = w.pending
           /\ emQueue' = w.queue /\ emHand' = w.hand /\ emAsked' = w.asked /\ emLost' = w.lost
  PROVE  Work' \in Works(emTaken')
<1> DEFINE w == Along(WriteByte, Work, Stripped(p))
<1>1. Work \in Works(emTaken) /\ emTaken \in Seq(Nat)
  BY DEF IAnswers
<1>2. w \in Works(emTaken)
  BY <1>1, StrippedTyped, WriteStays
<1>3. /\ emScan' = Flush(w).scan /\ emVt' = Flush(w).vt /\ emModes' = Flush(w).modes /\ emPics' = Flush(w).pics
      /\ emPending' = Flush(w).pending /\ emQueue' = Flush(w).queue /\ emHand' = Flush(w).hand
      /\ emAsked' = Flush(w).asked /\ emLost' = Flush(w).lost
  OBVIOUS
<1> HIDE DEF w
<1> QED
  BY <1>1, <1>2, <1>3, WorkIsStored

\* A part of a row of bytes.
LEMMA PartOfBytes ==
  ASSUME NEW p \in Tokens, NEW i \in Nat \ {0}, NEW j \in Nat, j <= Len(p)
  PROVE  SubSeq(p, i, j) \in Tokens
<1> HIDE DEF Byte
<1>1. \A k \in i .. j : p[k] \in Byte
  BY ElementOfSeq DEF Tokens
<1> QED
  BY <1>1, SubSeqProperties DEF Tokens

\* Every read, drain, resize and step of the pump keeps them (Write, DrainAnswers, answerPump,
\* Resize, each the whole of it).
THEOREM IAnswersStep == IAnswers /\ [EmulatorNext]_emulatorVars => IAnswers'
<1> SUFFICES ASSUME IAnswers, [EmulatorNext]_emulatorVars PROVE IAnswers'
  OBVIOUS
<1>1. /\ emScan \in Scan /\ emVt \in Vt /\ emModes \in BOOLEAN /\ emPics \in Nat /\ emPending \in BOOLEAN
      /\ emQueue \in Seq(Nat) /\ emHand \in Seq(Nat) /\ emAsked \in Nat /\ emLost \in SUBSET Nat
      /\ FullCSI(emScan) /\ Len(emQueue) <= EmQueueCap /\ Len(emHand) <= 1
      /\ Kept(emTaken \o (emQueue \o emHand), emAsked, emLost)
  BY WorkIs DEF IAnswers
<1>2. emTaken \in Seq(Nat) /\ emPipe \in Tokens
  BY DEF IAnswers
<1> DEFINE none == <<>>
<1>3. none \in Seq(Nat) /\ Len(none) = 0 /\ none \in Tokens /\ ToSet(none) = {} /\ \A s \in Seq(Nat) : s \o none = s /\ none \o s = s
  BY RowsOfBytes DEF ToSet
<1>4. 0 <= EmQueueCap /\ 0 <= 1
  BY EmAssumption DEF EmAssumption
<1>5. ASSUME NEW k \in EmKinds, NEW n \in 1 .. Len(emPipe \o Bytes[k]), EmReads(k, n) PROVE IAnswers'
  <2> DEFINE bytes == emPipe \o Bytes[k]
             part == SubSeq(bytes, 1, n)
             rest == SubSeq(bytes, n + 1, Len(bytes))
  <2>1. bytes \in Tokens
    BY <1>2, BytesTyped, RowsOfBytes, EmAssumption DEF EmAssumption
  <2>2. emTaken' = emTaken /\ emPipe' = rest
    BY <1>5 DEF EmReads
  <2>3. LET w == Flush(Along(WriteByte, Work, Stripped(part))) IN
          /\ emScan' = w.scan /\ emVt' = w.vt /\ emModes' = w.modes /\ emPics' = w.pics /\ emPending' = w.pending
          /\ emQueue' = w.queue /\ emHand' = w.hand /\ emAsked' = w.asked /\ emLost' = w.lost
    BY <1>5 DEF EmReads
  <2>4. n \in 1 .. Len(bytes)
    OBVIOUS
  <2> HIDE DEF bytes
  <2>5. Len(bytes) \in Nat
    <3> HIDE DEF Byte
    <3> QED
      BY <2>1 DEF Tokens
  <2>6. part \in Tokens /\ rest \in Tokens
    <3>1. n \in Nat /\ n <= Len(bytes) /\ n + 1 \in Nat \ {0} /\ 1 \in Nat \ {0}
      BY <2>4, <2>5
    <3> QED
      BY <2>1, <2>5, <3>1, PartOfBytes
  <2> HIDE DEF part, rest
  <2>7. Work' \in Works(emTaken')
    BY <2>2, <2>3, <2>6, ChunkIsWritten
  <2> QED
    BY <1>2, <2>2, <2>6, <2>7 DEF IAnswers
<1>6. CASE EmReadsRest
  <2>1. emTaken' = emTaken /\ emPipe' = none
    BY <1>6 DEF EmReadsRest
  <2>2. LET w == Flush(Along(WriteByte, Work, Stripped(emPipe))) IN
          /\ emScan' = w.scan /\ emVt' = w.vt /\ emModes' = w.modes /\ emPics' = w.pics /\ emPending' = w.pending
          /\ emQueue' = w.queue /\ emHand' = w.hand /\ emAsked' = w.asked /\ emLost' = w.lost
    BY <1>6 DEF EmReadsRest
  <2>3. Work' \in Works(emTaken')
    BY <1>2, <2>1, <2>2, ChunkIsWritten
  <2> HIDE DEF none
  <2> QED
    BY <1>2, <1>3, <2>1, <2>3 DEF IAnswers
<1>7. CASE EmPumps
  <2> DEFINE room == EmRoom(emQueue, emHand)
             lost == emLost \cup (ToSet(emHand) \ ToSet(room))
  <2>1. /\ emQueue' = room /\ emLost' = lost /\ emHand' = none
        /\ emScan' = emScan /\ emVt' = emVt /\ emModes' = emModes /\ emPics' = emPics /\ emPending' = emPending
        /\ emAsked' = emAsked /\ emTaken' = emTaken /\ emPipe' = emPipe
    BY <1>7 DEF EmPumps
  <2> HIDE DEF none
  <2>2. emTaken \o ((emQueue \o emHand) \o none) = emTaken \o (emQueue \o emHand)
    BY <1>1, <1>3, ConcatProperties
  <2>3. room \in Seq(Nat) /\ Len(room) <= EmQueueCap /\ Kept(emTaken \o (room \o none), emAsked, lost)
    BY <1>1, <1>2, <1>3, <2>2, RoomIsMade
  <2>4. lost \in SUBSET Nat
    <3>1. ToSet(emHand) \in SUBSET Nat
      BY <1>1, LenProperties DEF ToSet
    <3> QED
      BY <1>1, <3>1
  <2> HIDE DEF room, lost
  <2>5. Work' \in Works(emTaken')
    <3>1. /\ emScan' \in Scan /\ emVt' \in Vt /\ emModes' \in BOOLEAN /\ emPics' \in Nat /\ emPending' \in BOOLEAN
          /\ emQueue' \in Seq(Nat) /\ emHand' \in Seq(Nat) /\ emAsked' \in Nat /\ emLost' \in SUBSET Nat
          /\ FullCSI(emScan') /\ Len(emQueue') <= EmQueueCap /\ Len(emHand') <= 1
          /\ Kept(emTaken' \o (emQueue' \o emHand'), emAsked', emLost')
      BY <1>1, <1>3, <1>4, <2>1, <2>3, <2>4
    <3> QED
      BY <3>1, WorkWillBe
  <2> QED
    BY <1>2, <2>1, <2>5 DEF IAnswers
<1>8. ASSUME NEW late \in BOOLEAN, EmDrains(late) PROVE IAnswers'
  <2> DEFINE more == IF late THEN emHand ELSE none
             hand == IF late THEN none ELSE emHand
             drained == emTaken \o emQueue
             taken == drained \o more
             scan == [emScan EXCEPT !.hits = 0]
  <2>1. /\ emTaken' = taken /\ emQueue' = none /\ emHand' = hand /\ emScan' = scan
        /\ emVt' = emVt /\ emModes' = emModes /\ emPics' = emPics /\ emPending' = emPending
        /\ emAsked' = emAsked /\ emLost' = emLost /\ emPipe' = emPipe
    BY <1>8 DEF EmDrains
  <2> HIDE DEF none
  <2>2. more \in Seq(Nat) /\ hand \in Seq(Nat) /\ Len(hand) <= 1 /\ more \o hand = emHand
    BY <1>1, <1>3, <1>4
  <2> HIDE DEF more, hand
  <2>3. drained \in Seq(Nat) /\ drained \o emHand = emTaken \o (emQueue \o emHand)
    <3>1. drained \in Seq(Nat)
      BY <1>1, <1>2, ConcatProperties
    <3>2. emTaken \in Seq(Nat) /\ emQueue \in Seq(Nat) /\ emHand \in Seq(Nat)
      BY <1>1, <1>2
    <3> QED
      BY <3>1, <3>2, Joins
  <2> HIDE DEF drained
  <2>4. taken \in Seq(Nat) /\ taken \o hand = drained \o (more \o hand)
    <3>1. (drained \o more) \o hand = drained \o (more \o hand)
      BY <2>2, <2>3, Joins
    <3>2. drained \o more \in Seq(Nat)
      BY <2>2, <2>3, ConcatProperties
    <3> QED
      BY <3>1, <3>2
  <2> HIDE DEF taken
  <2>5. none \o hand = hand
    BY <1>3, <2>2
  <2>6. Kept(taken \o (none \o hand), emAsked, emLost)
    BY <1>1, <2>2, <2>3, <2>4, <2>5
  <2>7. scan \in Scan /\ FullCSI(scan)
    BY <1>1 DEF Scan, FullCSI
  <2> HIDE DEF scan
  <2>8. Work' \in Works(emTaken')
    <3>1. /\ emScan' \in Scan /\ emVt' \in Vt /\ emModes' \in BOOLEAN /\ emPics' \in Nat /\ emPending' \in BOOLEAN
          /\ emQueue' \in Seq(Nat) /\ emHand' \in Seq(Nat) /\ emAsked' \in Nat /\ emLost' \in SUBSET Nat
          /\ FullCSI(emScan') /\ Len(emQueue') <= EmQueueCap /\ Len(emHand') <= 1
          /\ Kept(emTaken' \o (emQueue' \o emHand'), emAsked', emLost')
      BY <1>1, <1>3, <1>4, <2>1, <2>2, <2>6, <2>7
    <3> QED
      BY <3>1, WorkWillBe
  <2> QED
    BY <1>2, <2>1, <2>4, <2>8 DEF IAnswers
<1>9. CASE EmResizeMirror
  <2> DEFINE lost == emLost \cup ToSet(emQueue)
  <2>1. /\ emQueue' = none /\ emHand' = emHand /\ emScan' = ScanReset
        /\ emVt' = emVt /\ emModes' = emModes /\ emPics' = 0 /\ emPending' = FALSE
        /\ emAsked' = emAsked /\ emLost' = lost /\ emPipe' = emPipe /\ emTaken' = emTaken
    BY <1>9 DEF EmResizeMirror
  <2> HIDE DEF none
  <2>2. Kept(emTaken \o ((none \o emQueue) \o emHand), emAsked, emLost)
    BY <1>1, <1>3
  <2>3. Kept(emTaken \o (none \o emHand), emAsked, lost)
    BY <1>1, <1>2, <1>3, <2>2, PartIsLost
  <2>4. lost \in SUBSET Nat
    <3>1. ToSet(emQueue) \in SUBSET Nat
      BY <1>1, LenProperties DEF ToSet
    <3> QED
      BY <1>1, <3>1
  <2> HIDE DEF lost
  <2>5. ScanReset \in Scan /\ FullCSI(ScanReset)
    BY RowsOfBytes DEF ScanReset, Scan, FullCSI, States
  <2>6. Work' \in Works(emTaken')
    <3>1. /\ emScan' \in Scan /\ emVt' \in Vt /\ emModes' \in BOOLEAN /\ emPics' \in Nat /\ emPending' \in BOOLEAN
          /\ emQueue' \in Seq(Nat) /\ emHand' \in Seq(Nat) /\ emAsked' \in Nat /\ emLost' \in SUBSET Nat
          /\ FullCSI(emScan') /\ Len(emQueue') <= EmQueueCap /\ Len(emHand') <= 1
          /\ Kept(emTaken' \o (emQueue' \o emHand'), emAsked', emLost')
      BY <1>1, <1>3, <1>4, <2>1, <2>3, <2>4, <2>5
    <3> QED
      BY <3>1, WorkWillBe
  <2> QED
    BY <1>2, <2>1, <2>6 DEF IAnswers
<1>10. CASE UNCHANGED emulatorVars
  BY <1>10 DEF emulatorVars, IAnswers, Work
<1> QED
  BY <1>5, <1>6, <1>7, <1>8, <1>9, <1>10 DEF EmulatorNext

\* The answers are in order, and none is missing or there twice.
LEMMA IAnswersKeep == IAnswers => AnswersKept
<1> SUFFICES ASSUME IAnswers PROVE AnswersKept
  OBVIOUS
<1> DEFINE kept == emTaken \o emQueue \o emHand
<1>1. /\ emTaken \in Seq(Nat) /\ emQueue \in Seq(Nat) /\ emHand \in Seq(Nat)
      /\ Kept(emTaken \o (emQueue \o emHand), emAsked, emLost)
  BY WorkIs DEF IAnswers
<1>2. kept = emTaken \o (emQueue \o emHand) /\ kept \in Seq(Nat)
  BY <1>1, Joins
<1> HIDE DEF kept
<1>3. Rises(kept) /\ ToSet(kept) \cup emLost = 1 .. emAsked /\ ToSet(kept) \cap emLost = {}
  BY <1>1, <1>2 DEF Kept
<1>4. \A i \in 1 .. Len(kept) - 1 : kept[i] < kept[i + 1]
  <2>1. Len(kept) \in Nat
    BY <1>2, LenProperties
  <2>2. \A i \in 1 .. Len(kept) - 1 : i \in 1 .. Len(kept) /\ i + 1 \in 1 .. Len(kept) /\ i < i + 1
    BY <2>1
  <2> QED
    BY <1>3, <2>2 DEF Rises
<1> QED
  BY <1>3, <1>4 DEF AnswersKept, kept

\* Whatever the program writes, wherever reads cut it and whenever the mirror is resized:
\* every answer is drained once and in the order of the queries, unless it was cleared or
\* did not fit into the queue (answerPump, DrainAnswers, clearAnswers, onRIS).
THEOREM AnswersStayInOrder == EmulatorSpec => []AnswersKept
BY IAnswersInit, IAnswersStep, IAnswersKeep, PTL DEF EmulatorSpec

-----------------------------------------------------------------------------
(* The reference, and one more byte or item.                                *)

\* The types of the reference and of its steps.
Refs == [out : Seq(Cells \X BOOLEAN), last : Tokens, insert : BOOLEAN, mode : BOOLEAN, pics : Nat, part : BOOLEAN]

\* The reference keeps its type with every item.
LEMMA RefTyped ==
  /\ RefBlank \in Refs
  /\ \A f \in Refs : \A k : RefItem(f, k) \in Refs
<1>1. RefBlank \in Refs
  BY RowsOfBytes DEF RefBlank, Refs
<1>2. ASSUME NEW f \in Refs, NEW k PROVE RefItem(f, k) \in Refs
  <2> DEFINE Put(r) == Append(f.out, <<r, f.insert>>)
             save == Append(f.out, <<<<"saved">>, FALSE>>)
             twice == f.out \o (IF f.last = <<>> THEN <<>> ELSE << <<f.last, FALSE>>, <<f.last, FALSE>> >>)
             on == (k = "irmOn")
             up == f.pics + (IF f.part THEN 1 ELSE 0)
             alone == f.pics + (IF f.part THEN 0 ELSE 1)
  <2>1. f.out \in Seq(Cells \X BOOLEAN) /\ f.last \in Tokens /\ f.insert \in BOOLEAN /\ f.pics \in Nat /\ f.part \in BOOLEAN
    BY DEF Refs
  <2>2. \A r \in Tokens : Put(r) \in Seq(Cells \X BOOLEAN)
    <3> HIDE DEF Tokens
    <3>1. \A r \in Tokens : <<r, f.insert>> \in Cells \X BOOLEAN
      BY <2>1 DEF Cells
    <3> HIDE DEF Cells
    <3> QED
      BY <2>1, <3>1
  <2>3. save \in Seq(Cells \X BOOLEAN)
    <3>1. <<<<"saved">>, FALSE>> \in Cells \X BOOLEAN
      BY DEF Cells
    <3> HIDE DEF Cells
    <3> QED
      BY <2>1, <3>1
  <2>4. twice \in Seq(Cells \X BOOLEAN)
    <3> DEFINE e == <<f.last, FALSE>>
               C == Cells \X BOOLEAN
    <3> HIDE DEF Tokens
    <3>1. e \in C /\ f.out \in Seq(C)
      BY <2>1 DEF Cells
    <3>2. twice \in {f.out \o <<>>, f.out \o <<e, e>>}
      OBVIOUS
    <3> HIDE DEF e, C, twice
    <3>3. f.out \o <<>> \in Seq(C) /\ f.out \o <<e, e>> \in Seq(C)
      BY <3>1
    <3> QED
      BY <3>2, <3>3 DEF C
  <2>5. on \in BOOLEAN
    BY Zenon
  <2>6. up \in Nat /\ alone \in Nat
    BY <2>1
  <2>7. RefItem(f, k) \in
          {[f EXCEPT !.last = Rune.a, !.out = Put(Rune.a)], [f EXCEPT !.last = Rune.cont, !.out = Put(Rune.cont)],
           [f EXCEPT !.out = save], [f EXCEPT !.out = twice], [f EXCEPT !.insert = on], [f EXCEPT !.mode = TRUE],
           RefBlank, [f EXCEPT !.part = TRUE], [f EXCEPT !.part = FALSE, !.pics = up],
           [f EXCEPT !.part = FALSE, !.pics = alone], f}
    BY DEF RefItem, RefBlank
  <2> HIDE DEF save, twice, on, up, alone, Put
  <2>8. \A r \in Tokens : [f EXCEPT !.last = r, !.out = Put(r)] \in Refs
    BY <2>2 DEF Refs
  <2>9. /\ [f EXCEPT !.out = save] \in Refs /\ [f EXCEPT !.out = twice] \in Refs /\ [f EXCEPT !.insert = on] \in Refs
        /\ [f EXCEPT !.mode = TRUE] \in Refs /\ [f EXCEPT !.part = TRUE] \in Refs
        /\ [f EXCEPT !.part = FALSE, !.pics = up] \in Refs /\ [f EXCEPT !.part = FALSE, !.pics = alone] \in Refs
    BY <2>3, <2>4, <2>5, <2>6 DEF Refs
  <2> HIDE DEF Refs
  <2>10. Rune.a \in Tokens /\ Rune.cont \in Tokens
    BY RunesTyped
  <2> QED
    BY <1>1, <2>7, <2>8, <2>9, <2>10
<1> QED
  BY <1>1, <1>2

RefRun(items) ==
  {f \in [0 .. Len(items) -> Refs] :
     f[0] = RefBlank /\ (\A i \in 1 .. Len(items) : f[i] = RefItem(f[i - 1], items[i])) /\ Reference(items) = f[Len(items)]}

\* There is a function that has the reference after each item.
LEMMA RefRuns ==
  ASSUME NEW S, NEW items \in Seq(S)
  PROVE  \E f : f \in RefRun(items)
<1> DEFINE n == Len(items)
           W == Refs
           Outs(f) == [k \in 0 .. Len(items) |-> IF k = 0 THEN RefBlank ELSE RefItem(f[k-1], items[k])]
           step == [i \in 1 .. n |-> [x \in W |-> RefItem(x, items[i])]]
           f == CHOOSE f : f = Outs(f)
<1>1. n \in Nat /\ RefBlank \in Refs
  BY RefTyped
<1>0. \A i \in 1 .. n, x \in W : RefItem(x, items[i]) \in W
  <2> HIDE DEF n
  <2> QED
    BY <1>1, RefTyped
<1> HIDE DEF W
<1>2. \A i \in 1 .. n, x \in W : step[i][x] \in W /\ step[i][x] = RefItem(x, items[i])
  BY <1>0
<1>3. PICK h : h \in Folds(W, RefBlank, step, n)
  <2>1. (\A i \in 1 .. n, x \in W : step[i][x] \in W) /\ RefBlank \in W
    BY <1>1, <1>2 DEF W
  <2> HIDE DEF step, n
  <2> QED
    BY <1>1, <2>1, Fold
<1>4. h \in [0 .. n -> W] /\ h[0] = RefBlank /\ \A i \in 1 .. n : h[i] = step[i][h[i - 1]]
  <2> HIDE DEF step, n
  <2> QED
    BY <1>3 DEF Folds
<1>5. h = Outs(h)
  <2> HIDE DEF step
  <2>1. ASSUME NEW i \in 0 .. n PROVE h[i] = IF i = 0 THEN RefBlank ELSE RefItem(h[i - 1], items[i])
    <3>1. CASE i = 0
      BY <1>4, <3>1
    <3>2. CASE i # 0
      <4>1. i \in 1 .. n /\ i - 1 \in 0 .. n
        BY <1>1, <3>2
      <4>2. h[i] = step[i][h[i - 1]] /\ h[i - 1] \in W
        BY <1>4, <4>1
      <4> QED
        BY <1>2, <3>2, <4>1, <4>2
    <3> QED
      BY <3>1, <3>2
  <2>2. h = [i \in 0 .. n |-> h[i]]
    BY <1>4
  <2> QED
    BY <2>1, <2>2
<1>6. f = Outs(f)
  <2> HIDE DEF Outs
  <2> QED
    BY <1>5
<1>7. f = [i \in 0 .. n |-> f[i]] /\ f[0] = RefBlank /\ \A i \in 1 .. n : f[i] = RefItem(f[i - 1], items[i])
  <2> HIDE DEF f
  <2>1. f = [i \in 0 .. n |-> IF i = 0 THEN RefBlank ELSE RefItem(f[i - 1], items[i])]
    BY <1>6
  <2>2. n \in Nat
    BY <1>1
  <2> HIDE DEF n
  <2>3. \A i \in 0 .. n : f[i] = IF i = 0 THEN RefBlank ELSE RefItem(f[i - 1], items[i])
    BY <2>1
  <2>4. \A i \in 1 .. n : i \in 0 .. n /\ i # 0
    BY <2>2
  <2>5. f = [i \in 0 .. n |-> f[i]]
    BY <2>1
  <2>6. 0 \in 0 .. n
    BY <2>2
  <2> QED
    BY <2>3, <2>4, <2>5, <2>6
<1>8. f \in [0 .. n -> W]
  <2> HIDE DEF f, n
  <2>1. (\A i \in 1 .. n : f[i - 1] \in W => f[i] \in W) /\ RefBlank \in W
    BY <1>0, <1>1, <1>7 DEF W
  <2> QED
    BY <1>1, <1>7, <2>1, StaysIn, Zenon
<1>9. Reference(items) = f[n]
  BY DEF Reference, Along
<1> HIDE DEF f
<1>10. f \in RefRun(items)
  BY <1>7, <1>8, <1>9 DEF RefRun, W
<1> QED
  BY <1>10

\* One more byte.
LEMMA VtMore ==
  ASSUME NEW v \in Vt, NEW S, NEW run \in Seq(S), NEW b \in S
  PROVE  Along(VtByte, v, Append(run, b)) = VtByte(Along(VtByte, v, run), b)
<1> DEFINE more == Append(run, b)
           n == Len(run)
<1>1. more \in Seq(S) /\ n \in Nat /\ Len(more) = n + 1 /\ more[n + 1] = b /\ \A i \in 1 .. n : more[i] = run[i]
  OBVIOUS
<1> HIDE DEF more
<1>2. PICK f : f \in VtRun(v, more)
  BY <1>1, VtRuns
<1>3. PICK g : g \in VtRun(v, run)
  BY VtRuns
<1>4. /\ f[0] = v /\ (\A i \in 1 .. n + 1 : f[i] = VtByte(f[i - 1], more[i])) /\ Along(VtByte, v, more) = f[n + 1]
      /\ g[0] = v /\ (\A i \in 1 .. n : g[i] = VtByte(g[i - 1], run[i])) /\ Along(VtByte, v, run) = g[n]
  BY <1>1, <1>2, <1>3 DEF VtRun
<1> HIDE DEF n
<1> DEFINE S2 == {i \in Nat : i <= n => f[i] = g[i]}
<1>5. 0 \in S2
  BY <1>4
<1>6. ASSUME NEW i \in Nat, i \in S2 PROVE i + 1 \in S2
  <2> SUFFICES ASSUME i + 1 <= n PROVE f[i + 1] = g[i + 1]
    OBVIOUS
  <2>1. i + 1 \in 1 .. n /\ i + 1 \in 1 .. n + 1 /\ (i + 1) - 1 = i /\ i <= n
    BY <1>1
  <2> QED
    BY <1>1, <1>4, <1>6, <2>1
<1> HIDE DEF S2
<1>7. n \in S2
  BY <1>1, <1>5, <1>6, Climb
<1>8. f[n] = g[n]
  BY <1>1, <1>7 DEF S2
<1>9. n + 1 \in 1 .. n + 1 /\ (n + 1) - 1 = n
  BY <1>1
<1>10. f[n + 1] = VtByte(f[n], b)
  BY <1>1, <1>4, <1>9
<1> QED
  BY <1>4, <1>8, <1>10 DEF more

\* Without a byte x/vt stays where it is.
LEMMA VtNone == ASSUME NEW v \in Vt PROVE Along(VtByte, v, <<>>) = v
<1> DEFINE none == <<>>
<1>1. none \in Seq(Byte) /\ Len(none) = 0
  <2> HIDE DEF Byte
  <2> QED
    OBVIOUS
<1> HIDE DEF none
<1>2. PICK f : f \in VtRun(v, none)
  BY <1>1, VtRuns
<1> QED
  BY <1>1, <1>2 DEF VtRun, none

\* One more item.
LEMMA RefMore ==
  ASSUME NEW S, NEW items \in Seq(S), NEW k \in S
  PROVE  Reference(Append(items, k)) = RefItem(Reference(items), k)
<1> DEFINE more == Append(items, k)
           n == Len(items)
<1>1. more \in Seq(S) /\ n \in Nat /\ Len(more) = n + 1 /\ more[n + 1] = k /\ \A i \in 1 .. n : more[i] = items[i]
  OBVIOUS
<1> HIDE DEF more
<1>2. PICK f : f \in RefRun(more)
  BY <1>1, RefRuns
<1>3. PICK g : g \in RefRun(items)
  BY RefRuns
<1>4. /\ f[0] = RefBlank /\ (\A i \in 1 .. n + 1 : f[i] = RefItem(f[i - 1], more[i])) /\ Reference(more) = f[n + 1]
      /\ g[0] = RefBlank /\ (\A i \in 1 .. n : g[i] = RefItem(g[i - 1], items[i])) /\ Reference(items) = g[n]
  BY <1>1, <1>2, <1>3 DEF RefRun
<1> HIDE DEF n
<1> DEFINE S2 == {i \in Nat : i <= n => f[i] = g[i]}
<1>5. 0 \in S2
  BY <1>4
<1>6. ASSUME NEW i \in Nat, i \in S2 PROVE i + 1 \in S2
  <2> SUFFICES ASSUME i + 1 <= n PROVE f[i + 1] = g[i + 1]
    OBVIOUS
  <2>1. i + 1 \in 1 .. n /\ i + 1 \in 1 .. n + 1 /\ (i + 1) - 1 = i /\ i <= n
    BY <1>1
  <2> QED
    BY <1>1, <1>4, <1>6, <2>1
<1> HIDE DEF S2
<1>7. n \in S2
  BY <1>1, <1>5, <1>6, Climb
<1>8. f[n] = g[n]
  BY <1>1, <1>7 DEF S2
<1>9. n + 1 \in 1 .. n + 1 /\ (n + 1) - 1 = n
  BY <1>1
<1>10. f[n + 1] = RefItem(f[n], k)
  BY <1>1, <1>4, <1>9
<1> QED
  BY <1>4, <1>8, <1>10 DEF more

\* Before the first item the reference is blank.
LEMMA RefNone == Reference(<<>>) = RefBlank
<1> DEFINE none == <<>>
<1>1. none \in Seq(Byte) /\ Len(none) = 0
  <2> HIDE DEF Byte
  <2> QED
    OBVIOUS
<1> HIDE DEF none
<1>2. PICK f : f \in RefRun(none)
  BY <1>1, RefRuns
<1> QED
  BY <1>1, <1>2 DEF RefRun, none

-----------------------------------------------------------------------------
(* The scanner, byte by byte.                                               *)

\* What the scanner makes of a byte in the ground state,
LEMMA AtGround ==
  ASSUME NEW s \in Scan, s.st = "scan"
  PROVE  /\ LET a == Advance(s, "a") IN
              a.ev = "rune" /\ a.data = Rune.a /\ a.s.st = "scan" /\ a.s.last = Rune.a /\ a.s.insert = s.insert
         /\ LET a == Advance(s, "lead") IN
              a.ev = "none" /\ a.s.st = "utf8" /\ a.s.lead = "lead" /\ a.s.last = s.last /\ a.s.insert = s.insert
         /\ LET a == Advance(s, "esc") IN
              a.ev = "none" /\ a.s.st = "esc" /\ a.s.last = s.last /\ a.s.insert = s.insert
<1>1. \A b : Advance(s, b) = ScanByte(s, b)
  BY DEF Advance
<1>2. ScanByte(s, "a") = [s |-> [s EXCEPT !.st = "scan", !.last = <<"a">>], ev |-> "rune", data |-> <<"a">>]
  BY DEF ScanByte
<1> DEFINE inRune == [s EXCEPT !.st = "utf8", !.lead = "lead"]
           inEsc == [s EXCEPT !.st = "esc"]
<1>3. ScanByte(s, "lead") = None(inRune)
  BY DEF ScanByte
<1>4. ScanByte(s, "esc") = None(inEsc)
  BY DEF ScanByte
<1>5. Rune.a = <<"a">>
  BY DEF Rune
<1> DEFINE one == <<"a">>
<1>6. LET r == [s |-> [s EXCEPT !.st = "scan", !.last = one], ev |-> "rune", data |-> one] IN
        r.ev = "rune" /\ r.data = one /\ r.s.st = "scan" /\ r.s.last = one /\ r.s.insert = s.insert
  <2> HIDE DEF one
  <2> QED
    BY DEF Scan
<1>7. inRune.st = "utf8" /\ inRune.lead = "lead" /\ inRune.last = s.last /\ inRune.insert = s.insert
  BY DEF Scan
<1>8. inEsc.st = "esc" /\ inEsc.last = s.last /\ inEsc.insert = s.insert
  BY DEF Scan
<1> HIDE DEF inRune, inEsc
<1>9. \A x : None(x).ev = "none" /\ None(x).s = x
  BY DEF None
<1>10. LET a == Advance(s, "a") IN
         a.ev = "rune" /\ a.data = Rune.a /\ a.s.st = "scan" /\ a.s.last = Rune.a /\ a.s.insert = s.insert
  BY <1>1, <1>2, <1>5, <1>6
<1>11. LET a == Advance(s, "lead") IN
         a.ev = "none" /\ a.s.st = "utf8" /\ a.s.lead = "lead" /\ a.s.last = s.last /\ a.s.insert = s.insert
  BY <1>1, <1>3, <1>7, <1>9
<1>12. LET a == Advance(s, "esc") IN
         a.ev = "none" /\ a.s.st = "esc" /\ a.s.last = s.last /\ a.s.insert = s.insert
  BY <1>1, <1>4, <1>8, <1>9
<1> QED
  BY <1>10, <1>11, <1>12

\* inside a rune,
LEMMA AtRune ==
  ASSUME NEW s \in Scan, s.st = "utf8", s.lead = "lead"
  PROVE  LET a == Advance(s, "cont") IN
           a.ev = "rune" /\ a.data = Rune.cont /\ a.s.st = "scan" /\ a.s.last = Rune.cont /\ a.s.insert = s.insert
<1> DEFINE two == Rune["cont"]
<1>1. Advance(s, "cont") = [s |-> [s EXCEPT !.st = "scan", !.last = two], ev |-> "rune", data |-> two]
  BY DEF Advance, Whole
<1>2. Rune.cont = two
  OBVIOUS
<1> HIDE DEF two
<1>3. LET r == [s |-> [s EXCEPT !.st = "scan", !.last = two], ev |-> "rune", data |-> two] IN
        r.ev = "rune" /\ r.data = two /\ r.s.st = "scan" /\ r.s.last = two /\ r.s.insert = s.insert
  BY DEF Scan
<1> QED
  BY <1>1, <1>2, <1>3

\* after an ESC,
LEMMA AtEsc ==
  ASSUME NEW s \in Scan, s.st = "esc"
  PROVE  /\ LET a == Advance(s, "[") IN
              /\ a.ev = "none" /\ a.s.st = "csi" /\ a.s.priv = FALSE /\ a.s.num = FALSE /\ a.s.len = 2
              /\ a.s.last = s.last /\ a.s.insert = s.insert
         /\ LET a == Advance(s, "_") IN
              a.ev = "none" /\ a.s.st = "str" /\ a.s.buf = <<>> /\ a.s.last = s.last /\ a.s.insert = s.insert
         /\ Advance(s, "c").ev = "ris" /\ Advance(s, "c").s = ScanReset
<1> DEFINE none == <<>>
           csi == [s EXCEPT !.st = "csi", !.priv = FALSE, !.num = FALSE, !.len = 2]
           str == [s EXCEPT !.st = "str", !.buf = none]
<1>1. Advance(s, "[") = None(csi)
  BY DEF Advance
<1>2. Advance(s, "_") = None(str)
  BY DEF Advance
<1>3. Advance(s, "c") = [s |-> ScanReset, ev |-> "ris", data |-> <<>>]
  BY DEF Advance
<1>4. csi.st = "csi" /\ csi.priv = FALSE /\ csi.num = FALSE /\ csi.len = 2 /\ csi.last = s.last /\ csi.insert = s.insert
  BY DEF Scan
<1> HIDE DEF none
<1>5. str.st = "str" /\ str.buf = none /\ str.last = s.last /\ str.insert = s.insert
  BY DEF Scan
<1> HIDE DEF csi, str
<1>6. \A x : None(x).ev = "none" /\ None(x).s = x
  BY DEF None
<1>7. LET a == Advance(s, "[") IN
        /\ a.ev = "none" /\ a.s.st = "csi" /\ a.s.priv = FALSE /\ a.s.num = FALSE /\ a.s.len = 2
        /\ a.s.last = s.last /\ a.s.insert = s.insert
  BY <1>1, <1>4, <1>6
<1>8. LET a == Advance(s, "_") IN
        a.ev = "none" /\ a.s.st = "str" /\ a.s.buf = none /\ a.s.last = s.last /\ a.s.insert = s.insert
  BY <1>2, <1>5, <1>6
<1>9. Advance(s, "c").ev = "ris" /\ Advance(s, "c").s = ScanReset
  BY <1>3
<1> QED
  BY <1>7, <1>8, <1>9 DEF none

\* inside a CSI,
LEMMA AtCSI ==
  ASSUME NEW s \in Scan, s.st = "csi"
  PROVE  /\ LET a == Advance(s, "?") IN
              /\ a.ev = "none" /\ a.s.st = "csi" /\ a.s.priv = TRUE /\ a.s.num = s.num /\ a.s.len = s.len + 1
              /\ a.s.last = s.last /\ a.s.insert = s.insert
         /\ LET a == Advance(s, "4") IN
              /\ a.ev = "none" /\ a.s.st = "csi" /\ a.s.priv = s.priv /\ a.s.num = TRUE /\ a.s.len = s.len + 1
              /\ a.s.last = s.last /\ a.s.insert = s.insert
<1> DEFINE more == s.len + 1
           t == [s EXCEPT !.len = more]
           withPriv == [t EXCEPT !.priv = TRUE]
           withNum == [t EXCEPT !.num = TRUE]
<1>1. Advance(s, "?") = None(withPriv) /\ Advance(s, "4") = None(withNum)
  BY DEF Advance
<1> HIDE DEF more
<1>2. /\ withPriv.st = "csi" /\ withPriv.priv = TRUE /\ withPriv.num = s.num /\ withPriv.len = more
      /\ withPriv.last = s.last /\ withPriv.insert = s.insert
  BY DEF Scan
<1>3. /\ withNum.st = "csi" /\ withNum.priv = s.priv /\ withNum.num = TRUE /\ withNum.len = more
      /\ withNum.last = s.last /\ withNum.insert = s.insert
  BY DEF Scan
<1>4. \A x : None(x).ev = "none" /\ None(x).s = x
  BY DEF None
<1> HIDE DEF withPriv, withNum
<1>5. LET a == Advance(s, "?") IN
        /\ a.ev = "none" /\ a.s.st = "csi" /\ a.s.priv = TRUE /\ a.s.num = s.num /\ a.s.len = more
        /\ a.s.last = s.last /\ a.s.insert = s.insert
  BY <1>1, <1>2, <1>4
<1>6. LET a == Advance(s, "4") IN
        /\ a.ev = "none" /\ a.s.st = "csi" /\ a.s.priv = s.priv /\ a.s.num = TRUE /\ a.s.len = more
        /\ a.s.last = s.last /\ a.s.insert = s.insert
  BY <1>1, <1>3, <1>4
<1> QED
  BY <1>5, <1>6 DEF more

\* at its final byte,
LEMMA AtFinal ==
  ASSUME NEW s \in Scan, s.st = "csi"
  PROVE  /\ LET a == Advance(s, "s") IN
              ~s.priv => /\ a.ev = "replaced" /\ a.data = <<"esc", "7">> /\ a.s.st = "scan" /\ a.s.len = s.len + 1
                         /\ a.s.last = s.last /\ a.s.insert = s.insert
         /\ LET a == Advance(s, "b") IN
              s.last # <<>> => /\ a.ev = "replaced" /\ a.data = s.last \o s.last /\ a.s.st = "scan" /\ a.s.len = s.len + 1
                               /\ a.s.last = s.last /\ a.s.insert = s.insert
         /\ \A b \in {"h", "l"} : LET a == Advance(s, b) IN
              ~s.priv /\ s.num => /\ a.ev = "none" /\ a.s.st = "scan" /\ a.s.insert = (b = "h") /\ a.s.last = s.last
         /\ LET a == Advance(s, "h") IN
              s.priv /\ s.num => /\ a.ev = "on" /\ a.s.st = "scan" /\ a.s.insert = s.insert /\ a.s.last = s.last
         /\ LET a == Advance(s, "n") IN
              a.ev = "none" /\ a.s.st = "scan" /\ a.s.insert = s.insert /\ a.s.last = s.last
<1> DEFINE more == s.len + 1
           q == [s EXCEPT !.len = more]
           End(b) == s.hits + (IF b \in {"n", "c"} THEN 1 ELSE 0)
           T(b) == [q EXCEPT !.st = "scan", !.hits = End(b)]
           save == <<"esc", "7">>
           twice == s.last \o s.last
           Saved == [T("s") EXCEPT !.repl = save]
           Twice == [T("b") EXCEPT !.repl = twice]
           Told(b) == [T(b) EXCEPT !.insert = (b = "h")]
<1>0. q.priv = s.priv /\ q.num = s.num /\ q.last = s.last /\ q.hits = s.hits /\ q \in [DOMAIN s -> UNION {{q[x]} : x \in DOMAIN s}]
  BY DEF Scan
<1>1. \A b \in {"s", "b", "h", "l", "n"} : Advance(s, b) = CSIFinal(q, b)
  BY DEF Advance
<1>2. ~s.priv => CSIFinal(q, "s").s = Saved /\ CSIFinal(q, "s").ev = "replaced" /\ CSIFinal(q, "s").data = CSIFinal(q, "s").s.repl
  BY <1>0 DEF CSIFinal
<1>3. s.last # <<>> => CSIFinal(q, "b").s = Twice /\ CSIFinal(q, "b").ev = "replaced" /\ CSIFinal(q, "b").data = CSIFinal(q, "b").s.repl
  BY <1>0 DEF CSIFinal
<1>4. ASSUME NEW b \in {"h", "l"}, ~s.priv, s.num
      PROVE  CSIFinal(q, b).s = Told(b) /\ CSIFinal(q, b).ev = "none"
  BY <1>0, <1>4 DEF CSIFinal
<1>5. s.priv /\ s.num => CSIFinal(q, "h").s = T("h") /\ CSIFinal(q, "h").ev = "on"
  BY <1>0 DEF CSIFinal
<1>6. CSIFinal(q, "n").s = T("n") /\ CSIFinal(q, "n").ev = "none"
  BY <1>0 DEF CSIFinal
<1> HIDE DEF more, End, save, twice
<1>7. /\ Saved.st = "scan" /\ Saved.len = more /\ Saved.last = s.last /\ Saved.insert = s.insert /\ Saved.repl = save
      /\ Twice.st = "scan" /\ Twice.len = more /\ Twice.last = s.last /\ Twice.insert = s.insert /\ Twice.repl = twice
  BY DEF Scan
<1>8. \A b : Told(b).st = "scan" /\ Told(b).last = s.last /\ Told(b).insert = (b = "h")
  BY DEF Scan
<1>9. \A b : T(b).st = "scan" /\ T(b).last = s.last /\ T(b).insert = s.insert
  BY DEF Scan
<1> HIDE DEF T, q, Saved, Twice, Told
<1>10. LET a == Advance(s, "s") IN
         ~s.priv => /\ a.ev = "replaced" /\ a.data = save /\ a.s.st = "scan" /\ a.s.len = more
                    /\ a.s.last = s.last /\ a.s.insert = s.insert
  BY <1>1, <1>2, <1>7
<1>11. LET a == Advance(s, "b") IN
         s.last # <<>> => /\ a.ev = "replaced" /\ a.data = twice /\ a.s.st = "scan" /\ a.s.len = more
                          /\ a.s.last = s.last /\ a.s.insert = s.insert
  BY <1>1, <1>3, <1>7
<1>12. \A b \in {"h", "l"} : LET a == Advance(s, b) IN
         ~s.priv /\ s.num => /\ a.ev = "none" /\ a.s.st = "scan" /\ a.s.insert = (b = "h") /\ a.s.last = s.last
  BY <1>1, <1>4, <1>8
<1>13. LET a == Advance(s, "h") IN
         s.priv /\ s.num => /\ a.ev = "on" /\ a.s.st = "scan" /\ a.s.insert = s.insert /\ a.s.last = s.last
  BY <1>1, <1>5, <1>9
<1>14. LET a == Advance(s, "n") IN
         a.ev = "none" /\ a.s.st = "scan" /\ a.s.insert = s.insert /\ a.s.last = s.last
  BY <1>1, <1>6, <1>9
<1> QED
  BY <1>10, <1>11, <1>12, <1>13, <1>14 DEF more, save, twice

\* and inside a string.
LEMMA AtString ==
  ASSUME NEW s \in Scan
  PROVE  /\ s.st = "str" => LET a == Advance(s, "esc") IN
              a.ev = "none" /\ a.s.st = "strEnd" /\ a.s.buf = s.buf /\ a.s.last = s.last /\ a.s.insert = s.insert
         /\ s.st = "str" => \A b \in {"G", "1", "0"} : LET a == Advance(s, b) IN
              a.ev = "none" /\ a.s.st = "str" /\ a.s.buf = Append(s.buf, b) /\ a.s.last = s.last /\ a.s.insert = s.insert
         /\ s.st = "strEnd" => LET a == Advance(s, "st") IN
              a.ev = "payload" /\ a.data = s.buf /\ a.s.st = "scan" /\ a.s.last = s.last /\ a.s.insert = s.insert
<1> DEFINE none == <<>>
           end == [s EXCEPT !.st = "strEnd"]
           Longer(b) == [s EXCEPT !.buf = Append(s.buf, b)]
           done == [s EXCEPT !.st = "scan", !.buf = none]
<1>1. s.st = "str" => Advance(s, "esc") = None(end)
  BY DEF Advance
<1>2. s.st = "str" => \A b \in {"G", "1", "0"} : Advance(s, b) = None(Longer(b))
  BY DEF Advance
<1>3. s.st = "strEnd" => Advance(s, "st") = [s |-> done, ev |-> "payload", data |-> s.buf]
  BY DEF Advance
<1>4. \A x : None(x).ev = "none" /\ None(x).s = x
  BY DEF None
<1>5. end.st = "strEnd" /\ end.buf = s.buf /\ end.last = s.last /\ end.insert = s.insert
  BY DEF Scan
<1>6. \A b : Longer(b).st = s.st /\ Longer(b).buf = Append(s.buf, b) /\ Longer(b).last = s.last /\ Longer(b).insert = s.insert
  BY DEF Scan
<1> HIDE DEF none
<1>7. done.st = "scan" /\ done.last = s.last /\ done.insert = s.insert
  BY DEF Scan
<1> HIDE DEF end, Longer, done
<1>8. s.st = "str" => LET a == Advance(s, "esc") IN
        a.ev = "none" /\ a.s.st = "strEnd" /\ a.s.buf = s.buf /\ a.s.last = s.last /\ a.s.insert = s.insert
  BY <1>1, <1>4, <1>5
<1>9. s.st = "str" => \A b \in {"G", "1", "0"} : LET a == Advance(s, b) IN
        a.ev = "none" /\ a.s.st = "str" /\ a.s.buf = Append(s.buf, b) /\ a.s.last = s.last /\ a.s.insert = s.insert
  BY <1>2, <1>4, <1>6
<1>10. s.st = "strEnd" => LET a == Advance(s, "st") IN
         a.ev = "payload" /\ a.data = s.buf /\ a.s.st = "scan" /\ a.s.last = s.last /\ a.s.insert = s.insert
  BY <1>3, <1>7
<1> QED
  BY <1>8, <1>9, <1>10

-----------------------------------------------------------------------------
(* x/vt, byte by byte.                                                      *)

\* x/vt takes the start of a sequence anywhere but in a string, and the rest of it as it comes.
LEMMA VtSequences ==
  ASSUME NEW v \in Vt
  PROVE  /\ v.st \in {"scan", "esc", "csi"} => VtByte(v, "esc") = [v EXCEPT !.st = "esc"]
         /\ v.st = "esc" => /\ VtByte(v, "[") = [v EXCEPT !.st = "csi"]
                            /\ VtByte(v, "_") = [v EXCEPT !.st = "str"]
                            /\ VtByte(v, "c") = VtReset
                            /\ VtByte(v, "7") = [v EXCEPT !.st = "scan", !.out = Append(v.out, <<<<"saved">>, FALSE>>)]
         /\ v.st = "csi" => /\ VtByte(v, "?") = v /\ VtByte(v, "4") = v
                            /\ \A b \in {"s", "b", "h", "l", "n"} : VtByte(v, b) = [v EXCEPT !.st = "scan"]
         /\ v.st = "str" => /\ \A b \in {"G", "1", "0"} : VtByte(v, b) = v
                            /\ VtByte(v, "esc") = [v EXCEPT !.st = "strEnd"]
         /\ v.st = "strEnd" => VtByte(v, "st") = [v EXCEPT !.st = "scan"]
<1>1. v.st \in {"scan", "esc", "csi"} => VtByte(v, "esc") = [v EXCEPT !.st = "esc"]
  BY DEF VtByte, Anywhere
<1>2. v.st = "esc" => /\ VtByte(v, "[") = [v EXCEPT !.st = "csi"]
                      /\ VtByte(v, "_") = [v EXCEPT !.st = "str"]
                      /\ VtByte(v, "c") = VtReset
  BY DEF VtByte, Anywhere
<1>3. v.st = "esc" => VtByte(v, "7") = [v EXCEPT !.st = "scan", !.out = Append(v.out, <<<<"saved">>, FALSE>>)]
  BY DEF VtByte, Anywhere
<1>4. v.st = "csi" => VtByte(v, "?") = v /\ VtByte(v, "4") = v
  BY DEF VtByte, Anywhere
<1>5. v.st = "csi" => \A b \in {"s", "b", "h", "l", "n"} : VtByte(v, b) = [v EXCEPT !.st = "scan"]
  BY DEF VtByte, Anywhere
<1>6. v.st = "str" => /\ \A b \in {"G", "1", "0"} : VtByte(v, b) = v
                      /\ VtByte(v, "esc") = [v EXCEPT !.st = "strEnd"]
  BY DEF VtByte, Anywhere
<1>7. v.st = "strEnd" => VtByte(v, "st") = [v EXCEPT !.st = "scan"]
  BY DEF VtByte, Anywhere
<1> QED
  BY <1>1, <1>2, <1>3, <1>4, <1>5, <1>6, <1>7

\* Runes are placed once they are whole; a wide one fits behind a line break.
LEMMA VtRunes ==
  ASSUME NEW v \in Vt, v.st = "scan"
  PROVE  /\ LET u == VtByte(v, "a") IN
              u.st = "scan" /\ u.ins = 0 /\ u.out = Append(v.out, <<Rune.a, v.ins = 1>>)
         /\ VtByte(v, "lead") = v
         /\ v.x = 0 => LET u == VtByte(v, "cont") IN
              u.st = "scan" /\ u.ins = 0 /\ u.out = Append(v.out, <<Rune.cont, v.ins = 2>>)
<1> DEFINE one == Rune.a
           two == Rune.cont
           ins1 == (v.ins = 1)
           ins2 == (v.ins = 2)
           X == IF v.x + 1 > 2 THEN 1 ELSE v.x + 1
           placed == [v EXCEPT !.x = X, !.ins = 0, !.out = Append(v.out, <<one, ins1>>)]
           wide == [v EXCEPT !.x = 2, !.ins = 0, !.out = Append(v.out, <<two, ins2>>)]
<1>1. CellsOf(one) = 1 /\ CellsOf(two) = 2
  BY DEF CellsOf, Rune
<1>2. Rune["a"] = one /\ Rune["cont"] = two
  OBVIOUS
<1> HIDE DEF one, two
<1>3. VtByte(v, "a") = Place(v, one) /\ VtByte(v, "cont") = Place(v, two) /\ VtByte(v, "lead") = v
  BY <1>2 DEF VtByte, Anywhere
<1>4. v.x \in Nat
  BY DEF Vt
<1>5. Place(v, one) = placed
  BY <1>1, <1>4 DEF Place, EmWidth
<1>6. v.x = 0 => Place(v, two) = wide
  BY <1>1, <1>4 DEF Place, EmWidth
<1> DEFINE outA == Append(v.out, <<one, ins1>>)
           outC == Append(v.out, <<two, ins2>>)
<1>7. placed = [v EXCEPT !.x = X, !.ins = 0, !.out = outA] /\ wide = [v EXCEPT !.x = 2, !.ins = 0, !.out = outC]
  OBVIOUS
<1> HIDE DEF ins1, ins2, X, placed, wide, outA, outC
<1>8. placed.st = "scan" /\ placed.ins = 0 /\ placed.out = outA /\ wide.st = "scan" /\ wide.ins = 0 /\ wide.out = outC
  BY <1>7 DEF Vt
<1> QED
  BY <1>3, <1>5, <1>6, <1>8 DEF ins1, ins2, outA, outC, one, two

\* What the wrapper feeds between runs.
LEMMA VtBetween ==
  ASSUME NEW v \in Vt
  PROVE  /\ LET u == VtByte(v, "crlf") IN u.st = v.st /\ u.ins = v.ins /\ u.out = v.out /\ u.x = 0
         /\ LET u == VtByte(v, "ich1") IN u.st = v.st /\ u.ins = 1 /\ u.out = v.out /\ u.x = v.x
         /\ LET u == VtByte(v, "ich2") IN u.st = v.st /\ u.ins = 2 /\ u.out = v.out /\ u.x = v.x
<1>1. VtByte(v, "crlf") = [v EXCEPT !.x = 0]
  BY DEF VtByte, Anywhere
<1>2. VtByte(v, "ich1") = [v EXCEPT !.ins = 1] /\ VtByte(v, "ich2") = [v EXCEPT !.ins = 2]
  BY DEF VtByte, Anywhere
<1> QED
  BY <1>1, <1>2 DEF Vt

-----------------------------------------------------------------------------
(* What x/vt has seen of the stream.                                        *)

\* What x/vt has done when it gets the run.
Seen(w) == Along(VtByte, w.vt, w.run)

\* Without the last i bytes of the stream, or the part of them that is in the run.
Before(w, i) == Along(VtByte, w.vt, SubSeq(w.run, 1, Len(w.run) - Min({i, Len(w.run)})))

\* Nothing but the scanner, x/vt, the run and the answers differs.
Beside(u, w) == u.modes = w.modes /\ u.pics = w.pics /\ u.pending = w.pending

\* The smaller of two numbers.
LEMMA Smaller ==
  ASSUME NEW i \in Nat, NEW n \in Nat
  PROVE  Min({i, n}) = IF i <= n THEN i ELSE n
<1> DEFINE S == {i, n}
           m == IF i <= n THEN i ELSE n
<1>1. m \in S /\ (\A y \in S : m <= y) /\ \A x \in S : (\A y \in S : x <= y) => x = m
  OBVIOUS
<1> HIDE DEF m
<1>2. Min(S) = m
  BY <1>1 DEF Min
<1> QED
  BY <1>2 DEF m

\* What x/vt has seen, of all the run or of its first bytes, is typed.
LEMMA SeenTyped ==
  ASSUME NEW taken, NEW w \in Works(taken)
  PROVE  /\ Seen(w) \in Vt /\ w.vt \in Vt /\ w.run \in Seq(Byte) /\ Len(w.run) \in Nat
         /\ \A i \in Nat : Before(w, i) \in Vt
         /\ Before(w, 0) = Seen(w)
<1> HIDE DEF Byte
<1>1. w.vt \in Vt /\ w.run \in Seq(Byte)
  BY WorkParts DEF Tokens
<1>2. Len(w.run) \in Nat
  BY <1>1
<1>3. Seen(w) \in Vt
  BY <1>1, VtAlong DEF Seen
<1>4. ASSUME NEW i \in Nat PROVE Before(w, i) \in Vt
  <2> DEFINE k == Len(w.run) - Min({i, Len(w.run)})
             part == SubSeq(w.run, 1, k)
  <2>1. k \in Nat /\ k <= Len(w.run)
    BY <1>2, Smaller
  <2>2. part \in Seq(Byte)
    <3> HIDE DEF k
    <3>1. k \in Int /\ \A j \in 1 .. k : w.run[j] \in Byte
      BY <1>1, <2>1, ElementOfSeq
    <3> QED
      BY <3>1, SubSeqProperties
  <2> HIDE DEF part
  <2> QED
    BY <1>1, <2>2, VtAlong DEF Before, part
<1>5. Before(w, 0) = Seen(w)
  <2>1. Min({0, Len(w.run)}) = 0
    BY <1>2, Smaller
  <2>2. Len(w.run) - 0 = Len(w.run)
    BY <1>2
  <2>3. SubSeq(w.run, 1, Len(w.run)) = w.run
    BY <1>1, SubSeqFull
  <2> QED
    BY <2>1, <2>2, <2>3 DEF Before, Seen
<1> QED
  BY <1>1, <1>2, <1>3, <1>4, <1>5

\* A byte more in the run.
LEMMA SeenMore ==
  ASSUME NEW taken, NEW w \in Works(taken), NEW u, NEW b \in Byte, u.vt = w.vt, u.run = Append(w.run, b)
  PROVE  /\ Seen(u) = VtByte(Seen(w), b)
         /\ \A i \in Nat : Before(u, i + 1) = Before(w, i) /\ (Len(u.run) >= i + 1 <=> Len(w.run) >= i)
<1> HIDE DEF Byte
<1>1. w.vt \in Vt /\ w.run \in Seq(Byte) /\ Len(w.run) \in Nat
  BY SeenTyped
<1>2. Seen(u) = VtByte(Seen(w), b)
  <2> DEFINE v == w.vt
             r == w.run
             more == Append(r, b)
  <2> HIDE DEF v, r
  <2>1. Along(VtByte, v, more) = VtByte(Along(VtByte, v, r), b)
    <3>1. v \in Vt /\ r \in Seq(Byte)
      BY <1>1 DEF v, r
    <3> QED
      BY <3>1, VtMore
  <2>2. u.vt = v /\ u.run = more
    BY DEF v, r
  <2> HIDE DEF more
  <2> QED
    BY <2>1, <2>2 DEF Seen, v, r
<1>3. ASSUME NEW i \in Nat PROVE Before(u, i + 1) = Before(w, i) /\ (Len(u.run) >= i + 1 <=> Len(w.run) >= i)
  <2> DEFINE n == Len(w.run)
             m == Min({i, n})
             m2 == Min({i + 1, n + 1})
             j == i + 1
             k == n - m
  <2>1. Len(u.run) = n + 1
    BY <1>1
  <2>2. m \in Nat /\ m <= n /\ m2 = m + 1
    <3>1. n \in Nat /\ n + 1 \in Nat /\ i + 1 \in Nat
      BY <1>1
    <3>2. m = (IF i <= n THEN i ELSE n) /\ m2 = IF i + 1 <= n + 1 THEN i + 1 ELSE n + 1
      BY <3>1, Smaller
    <3> HIDE DEF m, m2, n
    <3> QED
      BY <3>1, <3>2
  <2>3. Len(u.run) - Min({j, Len(u.run)}) = k
    BY <1>1, <2>1, <2>2
  <2>4. SubSeq(u.run, 1, k) = SubSeq(w.run, 1, k)
    <3> HIDE DEF m
    <3>1. k \in Nat /\ k <= n
      BY <1>1, <2>2
    <3> HIDE DEF k
    <3> QED
      BY <1>1, <3>1
  <2>5. Before(u, j) = Before(w, i)
    BY <2>3, <2>4 DEF Before
  <2>6. Len(u.run) >= i + 1 <=> Len(w.run) >= i
    BY <1>1, <2>1
  <2> QED
    BY <2>5, <2>6 DEF j
<1> QED
  BY <1>2, <1>3

\* Handing over the run changes nothing that is seen, but nothing of it can be cut any more.
LEMMA FlushSeen ==
  ASSUME NEW taken \in Seq(Nat), NEW w \in Works(taken)
  PROVE  /\ Flush(w).vt = Seen(w) /\ Flush(w).run = <<>> /\ Flush(w).scan = w.scan /\ Beside(Flush(w), w)
         /\ Seen(Flush(w)) = Seen(w)
         /\ \A i \in Nat : Before(Flush(w), i) = Seen(w)
<1> DEFINE n == Cardinality({i \in DOMAIN w.run : w.run[i] = "n"})
           done == Done(w.hand, w.asked, n)
           room == EmRoom(w.queue, done)
           hand == InHand(w.hand, w.asked, n)
           vt == Along(VtByte, w.vt, w.run)
           lost == w.lost \cup (ToSet(done) \ ToSet(room))
           queries == w.asked + n
           none == <<>>
           u == [w EXCEPT !.vt = vt, !.run = none, !.asked = queries, !.queue = room, !.lost = lost, !.hand = hand]
<1>1. Flush(w) = u
  BY DEF Flush, Done, InHand, All
<1>2. vt = Seen(w)
  BY DEF Seen
<1> HIDE DEF n, done, room, hand, vt, lost, queries, none
<1>3. u.vt = vt /\ u.run = none /\ u.scan = w.scan /\ u.modes = w.modes /\ u.pics = w.pics /\ u.pending = w.pending
  BY DEF Works
<1> HIDE DEF u
<1>4. Seen(w) \in Vt
  BY SeenTyped
<1>5. Seen(u) = Seen(w)
  BY <1>2, <1>3, <1>4, VtNone DEF Seen, none
<1>6. ASSUME NEW i \in Nat PROVE Before(u, i) = Seen(w)
  <2>1. Len(none) = 0
    BY DEF none
  <2>2. Min({i, 0}) = 0
    BY Smaller
  <2>3. SubSeq(none, 1, 0 - 0) = none
    BY DEF none
  <2>4. Before(u, i) = Along(VtByte, vt, none)
    BY <1>3, <2>1, <2>2, <2>3 DEF Before
  <2> QED
    BY <1>2, <1>4, <2>4, VtNone DEF none
<1> QED
  BY <1>1, <1>2, <1>3, <1>5, <1>6 DEF Beside, none

\* A byte that means nothing to the wrapper, or turns the mode on, goes into the run.
LEMMA Feeds ==
  ASSUME NEW taken \in Seq(Nat), NEW w \in Works(taken), NEW b \in Byte,
         Advance(w.scan, b).ev \in {"none", "on"}, Advance(w.scan, b).s.st # "utf8"
  PROVE  LET u == WriteByte(w, b) IN
           /\ u.scan = Advance(w.scan, b).s
           /\ u.modes = (IF Advance(w.scan, b).ev = "on" THEN TRUE ELSE w.modes)
           /\ u.pics = w.pics /\ u.pending = w.pending
           /\ Seen(u) = VtByte(Seen(w), b)
           /\ \A i \in Nat : Before(u, i + 1) = Before(w, i) /\ (Len(u.run) >= i + 1 <=> Len(w.run) >= i)
<1> DEFINE a == Advance(w.scan, b)
           x == [w EXCEPT !.scan = a.s]
           run == Append(x.run, b)
           run2 == Append(w.run, b)
           u == WriteByte(w, b)
<1>1. u = IF a.ev = "on" THEN [x EXCEPT !.modes = TRUE, !.run = run] ELSE [x EXCEPT !.run = run]
  <2> DEFINE on == (a.ev = "on")
  <2>1. u = CASE a.ev = "rune" -> PutRune(x, a.data)
              [] a.ev = "replaced" -> Splice(x, a.data)
              [] a.ev = "payload" -> HandleAPC(Flush([x EXCEPT !.run = run]), a.data)
              [] a.ev = "ris" -> [OnRIS(x) EXCEPT !.run = Append(OnRIS(x).run, b)]
              [] a.ev \in {"on", "off"} -> [x EXCEPT !.modes = on, !.run = run]
              [] OTHER -> IF a.s.st = "utf8" THEN x ELSE [x EXCEPT !.run = run]
    BY DEF WriteByte
  <2> HIDE DEF x, run, a, u, on
  <2>2. CASE a.ev = "none"
    BY <2>1, <2>2 DEF a
  <2>3. CASE a.ev = "on"
    <3>1. on = TRUE
      BY <2>3 DEF on
    <3> QED
      BY <2>1, <2>3, <3>1
  <2> QED
    BY <2>2, <2>3 DEF a
<1> HIDE DEF a, u
<1>2. run = run2
  BY DEF Works
<1> HIDE DEF run
<1>3. /\ u.scan = a.s /\ u.pics = w.pics /\ u.pending = w.pending /\ u.vt = w.vt /\ u.run = run2
      /\ u.modes = (IF a.ev = "on" THEN TRUE ELSE w.modes)
  <2> DEFINE y == [x EXCEPT !.modes = TRUE, !.run = run]
             z == [x EXCEPT !.run = run]
  <2> HIDE DEF run2
  <2>1. y.scan = a.s /\ y.pics = w.pics /\ y.pending = w.pending /\ y.vt = w.vt /\ y.run = run /\ y.modes = TRUE
    BY DEF Works
  <2>2. z.scan = a.s /\ z.pics = w.pics /\ z.pending = w.pending /\ z.vt = w.vt /\ z.run = run /\ z.modes = w.modes
    BY DEF Works
  <2>3. u = IF a.ev = "on" THEN y ELSE z
    BY <1>1
  <2> HIDE DEF y, z
  <2> QED
    BY <1>2, <2>1, <2>2, <2>3
<1>4. Seen(u) = VtByte(Seen(w), b) /\ \A i \in Nat : Before(u, i + 1) = Before(w, i) /\ (Len(u.run) >= i + 1 <=> Len(w.run) >= i)
  BY <1>3, SeenMore
<1> QED
  BY <1>3, <1>4 DEF u, a

\* A rune in the run.
LEMMA VtRune ==
  ASSUME NEW v \in Vt, NEW run \in Seq(Byte)
  PROVE  /\ Along(VtByte, v, run \o Rune.a) = VtByte(Along(VtByte, v, run), "a")
         /\ Along(VtByte, v, run \o Rune.cont) = VtByte(VtByte(Along(VtByte, v, run), "lead"), "cont")
<1>1. "a" \in Byte /\ "lead" \in Byte /\ "cont" \in Byte
  BY DEF Byte
<1> HIDE DEF Byte
<1> DEFINE one == Append(run, "lead")
<1>2. run \o Rune.a = Append(run, "a") /\ run \o Rune.cont = Append(one, "cont") /\ one \in Seq(Byte)
  BY <1>1 DEF Rune
<1>3. Along(VtByte, v, Append(run, "a")) = VtByte(Along(VtByte, v, run), "a")
  BY <1>1, VtMore
<1>4. Along(VtByte, v, one) = VtByte(Along(VtByte, v, run), "lead")
  BY <1>1, VtMore
<1> HIDE DEF one
<1>5. Along(VtByte, v, Append(one, "cont")) = VtByte(Along(VtByte, v, one), "cont")
  BY <1>1, <1>2, VtMore
<1> QED
  BY <1>2, <1>3, <1>4, <1>5

\* A complete rune reaches x/vt once, with an insert before it under IRM, and it fits.
LEMMA PutsRune ==
  ASSUME NEW taken \in Seq(Nat), NEW w \in Works(taken), NEW b \in Byte, NEW r \in {Rune.a, Rune.cont},
         Advance(w.scan, b).ev = "rune", Advance(w.scan, b).data = r,
         Seen(w).st = "scan", Seen(w).ins = 0
  PROVE  LET u == WriteByte(w, b) IN
           /\ u.scan = Advance(w.scan, b).s /\ Beside(u, w)
           /\ Seen(u).st = "scan" /\ Seen(u).ins = 0
           /\ Seen(u).out = Append(Seen(w).out, <<r, Advance(w.scan, b).s.insert>>)
<1> DEFINE a == Advance(w.scan, b)
           x == [w EXCEPT !.scan = a.s]
           u == WriteByte(w, b)
           v == Seen(w)
           wide == CellsOf(r) > 1
           ins == a.s.insert
           f == IF wide \/ ins THEN Flush(x) ELSE x
           broken == VtByte(f.vt, "crlf")
           g == IF wide /\ f.vt.x + CellsOf(r) > EmWidth THEN [f EXCEPT !.vt = broken] ELSE f
           ich == IF wide THEN "ich2" ELSE "ich1"
           inserted == VtByte(g.vt, ich)
           h == IF ins THEN [g EXCEPT !.vt = inserted] ELSE g
           run == h.run \o r
           k == [h EXCEPT !.run = run]
<1>1. w.scan \in Scan /\ FullCSI(w.scan) /\ w.vt \in Vt /\ w.run \in Seq(Byte)
  BY WorkParts DEF Works, Tokens
<1>2. IsEvent(a) /\ FullCSI(a.s)
  BY <1>1, AdvanceTyped, AdvanceCounts
<1>3. a.s \in Scan /\ ins \in BOOLEAN
  <2>1. a.s \in Scan
    BY <1>2 DEF IsEvent
  <2> HIDE DEF a
  <2> QED
    BY <2>1 DEF Scan
<1>4. x \in Works(taken)
  BY <1>2, <1>3, WorkParts
<1>5. x.scan = a.s /\ x.vt = w.vt /\ x.run = w.run /\ Beside(x, w) /\ Seen(x) = v
  <2> HIDE DEF a
  <2>1. x.scan = a.s /\ x.vt = w.vt /\ x.run = w.run /\ x.modes = w.modes /\ x.pics = w.pics /\ x.pending = w.pending
    BY DEF Works
  <2> HIDE DEF x
  <2> QED
    BY <2>1 DEF Beside, Seen
<1>6. u = PutRune(x, r)
  <2> HIDE DEF x
  <2> QED
    BY DEF WriteByte, x
<1>7. x.scan.insert = ins
  BY <1>5
<1>8. u = k
  <2> HIDE DEF a, x
  <2> QED
    BY <1>6, <1>7 DEF PutRune
<1>9. v \in Vt /\ v.st = "scan" /\ v.ins = 0
  BY SeenTyped
<1> HIDE DEF a, u, x, v, ins
<1>10. x \in Works(taken) /\ Flush(x) \in Works(taken)
  BY <1>4, FlushStays
<1>11. /\ Flush(x).vt = v /\ Flush(x).run = <<>> /\ Flush(x).scan = a.s /\ Beside(Flush(x), w)
  BY <1>4, <1>5, FlushSeen DEF Beside
<1>12. CellsOf(Rune.a) = 1 /\ CellsOf(Rune.cont) = 2
  BY DEF CellsOf, Rune
<1>13. f \in Works(taken) /\ f.scan = a.s /\ Beside(f, w) /\ (wide \/ ins => f.vt = v /\ f.run = <<>>)
       /\ (~wide /\ ~ins => f.vt = w.vt /\ f.run = w.run)
  BY <1>5, <1>10, <1>11
<1> HIDE DEF f
<1>14. /\ g \in Works(taken) /\ g.scan = a.s /\ Beside(g, w) /\ g.run = f.run
       /\ g.vt = (IF wide /\ f.vt.x + CellsOf(r) > EmWidth THEN broken ELSE f.vt)
  <2>1. f.vt \in Vt
    BY <1>13, WorkParts
  <2>2. broken \in Vt
    BY <2>1, VtByteTyped
  <2> HIDE DEF broken, wide
  <2> DEFINE fb == [f EXCEPT !.vt = broken]
  <2>3. fb \in Works(taken)
    BY <1>13, <2>2, WorkParts
  <2>4. fb.scan = f.scan /\ fb.run = f.run /\ fb.vt = broken /\ fb.modes = f.modes /\ fb.pics = f.pics /\ fb.pending = f.pending
    BY <1>13 DEF Works
  <2>5. g \in {fb, f}
    OBVIOUS
  <2> HIDE DEF fb
  <2> QED
    BY <1>13, <2>3, <2>4 DEF Beside, fb
<1> DEFINE gvt == IF wide /\ f.vt.x + CellsOf(r) > EmWidth THEN broken ELSE f.vt
<1>15. /\ gvt \in Vt /\ gvt.st = f.vt.st /\ gvt.ins = f.vt.ins /\ gvt.out = f.vt.out /\ (wide => gvt.x = 0)
       /\ (~wide => gvt = f.vt)
  <2>1. f.vt \in Vt
    BY <1>13, WorkParts
  <2>2. broken \in Vt /\ broken.st = f.vt.st /\ broken.ins = f.vt.ins /\ broken.out = f.vt.out /\ broken.x = 0
    BY <2>1, VtByteTyped, VtBetween
  <2>3. f.vt.x \in Nat
    BY <2>1 DEF Vt
  <2>4. wide => CellsOf(r) = 2
    BY <1>12
  <2> HIDE DEF broken, wide
  <2>5. wide /\ ~(f.vt.x + CellsOf(r) > EmWidth) => f.vt.x = 0
    BY <2>3, <2>4 DEF EmWidth
  <2> QED
    BY <2>1, <2>2, <2>5
<1>16. g.vt = gvt
  BY <1>14
<1> HIDE DEF g, gvt
<1>17. /\ h \in Works(taken) /\ h.scan = a.s /\ Beside(h, w) /\ h.run = f.run
       /\ h.vt = (IF ins THEN VtByte(gvt, ich) ELSE gvt)
  <2>1. inserted \in Vt /\ inserted = VtByte(gvt, ich)
    BY <1>15, <1>16, VtByteTyped
  <2> HIDE DEF inserted
  <2> DEFINE gi == [g EXCEPT !.vt = inserted]
  <2>2. gi \in Works(taken)
    BY <1>14, <2>1, WorkParts
  <2>3. gi.scan = g.scan /\ gi.run = g.run /\ gi.vt = inserted /\ gi.modes = g.modes /\ gi.pics = g.pics /\ gi.pending = g.pending
    BY <1>14 DEF Works
  <2>4. h = IF ins THEN gi ELSE g
    OBVIOUS
  <2> HIDE DEF gi, ich, h
  <2> QED
    BY <1>14, <1>16, <2>1, <2>2, <2>3, <2>4 DEF Beside
<1> DEFINE hvt == IF ins THEN VtByte(gvt, ich) ELSE gvt
<1>18. /\ hvt \in Vt /\ hvt.st = gvt.st /\ hvt.out = gvt.out /\ hvt.x = gvt.x
       /\ hvt.ins = (IF ins THEN (IF wide THEN 2 ELSE 1) ELSE gvt.ins)
  <2> HIDE DEF wide
  <2> QED
    BY <1>15, VtByteTyped, VtBetween
<1>19. h.vt = hvt
  BY <1>17
<1> HIDE DEF h, hvt
<1>20. u.scan = a.s /\ Beside(u, w) /\ u.vt = hvt /\ u.run = f.run \o r
  <2> HIDE DEF run
  <2>1. k.scan = h.scan /\ k.modes = h.modes /\ k.pics = h.pics /\ k.pending = h.pending /\ k.vt = h.vt /\ k.run = run
    BY <1>17 DEF Works
  <2> HIDE DEF k
  <2> QED
    BY <1>8, <1>17, <1>19, <2>1 DEF Beside, run
<1>21. f.run \in Seq(Byte)
  BY <1>13, SeenTyped
<1> DEFINE s == Along(VtByte, hvt, f.run)
<1>22. s \in Vt /\ s.st = "scan" /\ s.out = v.out /\ s.ins = (IF ins THEN (IF wide THEN 2 ELSE 1) ELSE 0) /\ (wide => s.x = 0)
  <2>1. CASE wide \/ ins
    <3>1. s = hvt
      BY <1>13, <1>18, <2>1, VtNone
    <3> HIDE DEF s, wide
    <3> QED
      BY <1>9, <1>13, <1>15, <1>18, <2>1, <3>1
  <2>2. CASE ~wide /\ ~ins
    <3>1. hvt = w.vt
      BY <1>13, <1>15, <2>2 DEF hvt
    <3>2. s = v
      BY <1>13, <2>2, <3>1 DEF v, Seen
    <3> HIDE DEF s, wide
    <3> QED
      BY <1>9, <2>2, <3>2
  <2> QED
    BY <2>1, <2>2
<1>23. Seen(u) = Along(VtByte, hvt, f.run \o r)
  BY <1>20 DEF Seen
<1>24. CASE r = Rune.a
  <2>1. Seen(u) = VtByte(s, "a")
    BY <1>18, <1>21, <1>23, <1>24, VtRune
  <2>2. ~wide
    BY <1>12, <1>24
  <2> HIDE DEF s, wide
  <2>3. Seen(u).st = "scan" /\ Seen(u).ins = 0 /\ Seen(u).out = Append(s.out, <<Rune.a, s.ins = 1>>)
    BY <1>22, <2>1, VtRunes
  <2>4. (s.ins = 1) = ins
    BY <1>3, <1>22, <2>2 DEF ins
  <2> QED
    BY <1>20, <1>22, <1>24, <2>3, <2>4 DEF a, u, v, ins
<1>25. CASE r = Rune.cont
  <2>1. Seen(u) = VtByte(VtByte(s, "lead"), "cont")
    BY <1>18, <1>21, <1>23, <1>25, VtRune
  <2>2. wide
    BY <1>12, <1>25
  <2> HIDE DEF s, wide
  <2>3. Seen(u).st = "scan" /\ Seen(u).ins = 0 /\ Seen(u).out = Append(s.out, <<Rune.cont, s.ins = 2>>)
    BY <1>22, <2>1, <2>2, VtRunes
  <2>4. (s.ins = 2) = ins
    BY <1>3, <1>22, <2>2 DEF ins
  <2> QED
    BY <1>20, <1>22, <1>25, <2>3, <2>4 DEF a, u, v, ins
<1> QED
  BY <1>24, <1>25

\* A replacement of two bytes takes the place of the last i bytes, or of those in the run.
LEMMA Splices ==
  ASSUME NEW taken \in Seq(Nat), NEW w \in Works(taken), NEW b \in Byte, NEW i \in Nat, NEW c \in Byte, NEW d \in Byte,
         Advance(w.scan, b).ev = "replaced", Advance(w.scan, b).data = <<c, d>>, Advance(w.scan, b).s.len = i + 1
  PROVE  LET u == WriteByte(w, b) IN
           /\ u.scan = Advance(w.scan, b).s /\ Beside(u, w)
           /\ Seen(u) = VtByte(VtByte(Before(w, i), c), d)
<1> DEFINE a == Advance(w.scan, b)
           x == [w EXCEPT !.scan = a.s]
           u == WriteByte(w, b)
           repl == <<c, d>>
           n == Len(w.run)
           kept == SubSeq(w.run, 1, n - Min({i, n}))
           one == Append(kept, c)
           run == kept \o repl
           y == [x EXCEPT !.run = run]
<1> HIDE DEF Byte
<1>1. w.vt \in Vt /\ w.run \in Seq(Byte) /\ n \in Nat
  BY SeenTyped
<1>2. x.scan = a.s /\ x.vt = w.vt /\ x.run = w.run /\ x.modes = w.modes /\ x.pics = w.pics /\ x.pending = w.pending
  <2> HIDE DEF a
  <2> QED
    BY DEF Works
<1>3. y.scan = a.s /\ y.vt = w.vt /\ y.run = run /\ y.modes = w.modes /\ y.pics = w.pics /\ y.pending = w.pending
  <2> HIDE DEF a, run
  <2> QED
    BY DEF Works
<1>4. u = Splice(x, repl)
  <2> HIDE DEF x, repl
  <2> QED
    BY DEF WriteByte, x, repl
<1>5. u = y
  <2>1. a.s.len - 1 = i
    BY DEF a
  <2> HIDE DEF a, x, repl
  <2>2. Splice(x, repl) = [x EXCEPT !.run = SubSeq(x.run, 1, Len(x.run) - Min({x.scan.len - 1, Len(x.run)})) \o repl]
    BY DEF Splice
  <2> QED
    BY <1>2, <1>4, <2>1, <2>2
<1>6. kept \in Seq(Byte)
  <2> DEFINE k == n - Min({i, n})
  <2>1. k \in Nat /\ k <= n
    <3>1. Min({i, n}) = IF i <= n THEN i ELSE n
      BY <1>1, Smaller
    <3> HIDE DEF n
    <3> QED
      BY <1>1, <3>1
  <2> HIDE DEF k
  <2>2. k \in Int /\ \A j \in 1 .. k : w.run[j] \in Byte
    BY <1>1, <2>1, ElementOfSeq
  <2>3. SubSeq(w.run, 1, k) \in Seq(Byte)
    BY <2>2, SubSeqProperties
  <2> QED
    BY <2>3 DEF k
<1>7. Along(VtByte, w.vt, kept) = Before(w, i)
  BY DEF Before
<1> DEFINE v == w.vt
<1> HIDE DEF a, x, y, u, kept, v
<1>8. run = Append(one, d) /\ one \in Seq(Byte) /\ v \in Vt
  BY <1>1, <1>6 DEF v
<1>9. Along(VtByte, v, one) = VtByte(Along(VtByte, v, kept), c)
  BY <1>6, <1>8, VtMore
<1> HIDE DEF one, run
<1>10. Along(VtByte, v, run) = VtByte(Along(VtByte, v, one), d)
  BY <1>8, VtMore
<1>11. Seen(u) = VtByte(VtByte(Before(w, i), c), d)
  BY <1>3, <1>5, <1>7, <1>9, <1>10 DEF Seen, v
<1> QED
  BY <1>3, <1>5, <1>11 DEF Beside, a, u

\* A reset clears what the wrapper tracks; x/vt gets it with the run.
LEMMA Resets ==
  ASSUME NEW taken \in Seq(Nat), NEW w \in Works(taken), NEW b \in Byte, Advance(w.scan, b).ev = "ris"
  PROVE  LET u == WriteByte(w, b) IN
           /\ u.scan = Advance(w.scan, b).s /\ u.modes = FALSE /\ u.pics = 0 /\ u.pending = FALSE
           /\ Seen(u) = VtByte(Seen(w), b)
<1> DEFINE a == Advance(w.scan, b)
           x == [w EXCEPT !.scan = a.s]
           u == WriteByte(w, b)
           none == <<>>
           lost == x.lost \cup ToSet(x.queue)
           y == [x EXCEPT !.modes = FALSE, !.pics = 0, !.pending = FALSE, !.lost = lost, !.queue = none]
           run == Append(w.run, b)
           z == [y EXCEPT !.run = run]
<1>1. OnRIS(x) = y
  BY DEF OnRIS
<1>2. y.scan = a.s /\ y.vt = w.vt /\ y.run = w.run /\ y.modes = FALSE /\ y.pics = 0 /\ y.pending = FALSE
  <2> HIDE DEF a, none, lost
  <2> QED
    BY DEF Works
<1>3. z.scan = a.s /\ z.vt = w.vt /\ z.run = run /\ z.modes = FALSE /\ z.pics = 0 /\ z.pending = FALSE
  <2> HIDE DEF a, none, lost, run
  <2> QED
    BY DEF Works
<1>4. u = [OnRIS(x) EXCEPT !.run = Append(OnRIS(x).run, b)]
  <2> HIDE DEF x
  <2> QED
    BY DEF WriteByte, x
<1>5. u = z
  <2> HIDE DEF x, y
  <2> QED
    BY <1>1, <1>2, <1>4
<1> HIDE DEF a, y, z, u
<1>6. Seen(u) = VtByte(Seen(w), b)
  BY <1>3, <1>5, SeenMore
<1> QED
  BY <1>3, <1>5, <1>6 DEF a, u

\* A string that is complete: x/vt has it, and the payload is handled.
LEMMA Completes ==
  ASSUME NEW taken \in Seq(Nat), NEW w \in Works(taken), NEW b \in Byte, NEW p,
         Advance(w.scan, b).ev = "payload", Advance(w.scan, b).data = p
  PROVE  LET u == WriteByte(w, b) IN
           /\ u.scan = Advance(w.scan, b).s /\ u.modes = w.modes
           /\ Seen(u) = VtByte(Seen(w), b)
           /\ p = <<"1">> => u.pending = TRUE /\ u.pics = w.pics
           /\ p = <<"0">> => u.pending = FALSE /\ u.pics = w.pics + (IF w.pending THEN 1 ELSE 0)
           /\ p = <<"G">> => u.pending = FALSE /\ u.pics = w.pics + (IF w.pending THEN 0 ELSE 1)
<1> DEFINE a == Advance(w.scan, b)
           x == [w EXCEPT !.scan = a.s]
           u == WriteByte(w, b)
           run == Append(w.run, b)
           run2 == Append(x.run, b)
           y == [x EXCEPT !.run = run]
           f == Flush(y)
<1>1. w.scan \in Scan /\ FullCSI(w.scan) /\ w.run \in Tokens
  BY WorkParts DEF Works
<1>2. a.s \in Scan /\ FullCSI(a.s)
  BY <1>1, AdvanceTyped, AdvanceCounts DEF IsEvent
<1> HIDE DEF a
<1>3. x \in Works(taken) /\ run \in Tokens
  BY <1>1, <1>2, WorkParts, RowsOfBytes
<1>4. run2 = run
  BY DEF Works
<1>5. u = HandleAPC(Flush([x EXCEPT !.run = run2]), p)
  <2> HIDE DEF x
  <2> QED
    BY DEF WriteByte, x, a
<1>6. u = HandleAPC(f, p)
  <2> HIDE DEF x, run, run2
  <2> QED
    BY <1>4, <1>5
<1>7. y.scan = a.s /\ y.vt = w.vt /\ y.run = run /\ y.modes = w.modes /\ y.pics = w.pics /\ y.pending = w.pending
  <2> HIDE DEF run
  <2> QED
    BY DEF Works
<1> HIDE DEF x, u
<1>8. y \in Works(taken)
  <2> HIDE DEF run
  <2> QED
    BY <1>3, WorkParts
<1> HIDE DEF y
<1>9. Seen(y) = VtByte(Seen(w), b)
  BY <1>7, SeenMore
<1>10. f \in Works(taken) /\ f.scan = a.s /\ f.modes = w.modes /\ f.pics = w.pics /\ f.pending = w.pending /\ Seen(f) = Seen(y)
  BY <1>7, <1>8, FlushStays, FlushSeen DEF Beside
<1> HIDE DEF f
<1> DEFINE up == f.pics + (IF f.pending THEN 1 ELSE 0)
           alone == f.pics + (IF f.pending THEN 0 ELSE 1)
           waits == [f EXCEPT !.pending = TRUE]
           ends == [f EXCEPT !.pending = FALSE, !.pics = up]
           single == [f EXCEPT !.pending = FALSE, !.pics = alone]
<1>11. <<"1">> # <<"0">> /\ <<"1">> # <<"G">> /\ <<"0">> # <<"G">>
  OBVIOUS
<1>12. /\ HandleAPC(f, p) \in {waits, ends, single, f}
       /\ p = <<"1">> => HandleAPC(f, p) = waits
       /\ p = <<"0">> => HandleAPC(f, p) = ends
       /\ p = <<"G">> => HandleAPC(f, p) = single
  <2> DEFINE one == <<"1">>
             zero == <<"0">>
             gee == <<"G">>
  <2>1. HandleAPC(f, p) = CASE p = one -> waits [] p = zero -> ends [] p = gee -> single [] OTHER -> f
    BY DEF HandleAPC
  <2>2. one # zero /\ one # gee /\ zero # gee
    OBVIOUS
  <2> HIDE DEF one, zero, gee, waits, ends, single
  <2>3. p = one => HandleAPC(f, p) = waits
    BY <2>1, <2>2
  <2>4. p = zero => HandleAPC(f, p) = ends
    BY <2>1, <2>2
  <2>5. p = gee => HandleAPC(f, p) = single
    BY <2>1, <2>2
  <2>6. HandleAPC(f, p) \in {waits, ends, single, f}
    BY <2>1, <2>2
  <2> QED
    BY <2>3, <2>4, <2>5, <2>6 DEF one, zero, gee
<1> HIDE DEF up, alone
<1>13. /\ waits.pending = TRUE /\ waits.pics = f.pics /\ ends.pending = FALSE /\ ends.pics = up
       /\ single.pending = FALSE /\ single.pics = alone
  BY <1>10 DEF Works
<1>14. \A e \in {waits, ends, single, f} : e.scan = f.scan /\ e.modes = f.modes /\ e.vt = f.vt /\ e.run = f.run
  BY <1>10 DEF Works
<1> HIDE DEF waits, ends, single
<1>15. u.scan = f.scan /\ u.modes = f.modes /\ u.vt = f.vt /\ u.run = f.run
  BY <1>6, <1>12, <1>14
<1>16. Seen(u) = VtByte(Seen(w), b)
  BY <1>9, <1>10, <1>15 DEF Seen
<1>17. /\ p = <<"1">> => u.pending = TRUE /\ u.pics = w.pics
       /\ p = <<"0">> => u.pending = FALSE /\ u.pics = up
       /\ p = <<"G">> => u.pending = FALSE /\ u.pics = alone
  BY <1>6, <1>10, <1>12, <1>13
<1>18. up = w.pics + (IF w.pending THEN 1 ELSE 0) /\ alone = w.pics + (IF w.pending THEN 0 ELSE 1)
  BY <1>10 DEF up, alone
<1> HIDE DEF up, alone
<1> QED
  BY <1>10, <1>15, <1>16, <1>17, <1>18 DEF a, u

-----------------------------------------------------------------------------
(* The reference, item by item.                                             *)

\* What the reference makes of runes,
LEMMA RefRunes ==
  ASSUME NEW f \in Refs
  PROVE  /\ LET r == RefItem(f, "char") IN
              /\ r.out = Append(f.out, <<Rune.a, f.insert>>) /\ r.last = Rune.a
              /\ r.insert = f.insert /\ r.mode = f.mode /\ r.pics = f.pics /\ r.part = f.part
         /\ LET r == RefItem(f, "wide") IN
              /\ r.out = Append(f.out, <<Rune.cont, f.insert>>) /\ r.last = Rune.cont
              /\ r.insert = f.insert /\ r.mode = f.mode /\ r.pics = f.pics /\ r.part = f.part
<1> DEFINE one == Rune.a
           two == Rune.cont
           outA == Append(f.out, <<one, f.insert>>)
           outC == Append(f.out, <<two, f.insert>>)
           char == [f EXCEPT !.last = one, !.out = outA]
           wide == [f EXCEPT !.last = two, !.out = outC]
<1>1. RefItem(f, "char") = char /\ RefItem(f, "wide") = wide
  BY DEF RefItem
<1> HIDE DEF one, two, outA, outC
<1>2. /\ char.out = outA /\ char.last = one /\ char.insert = f.insert /\ char.mode = f.mode
      /\ char.pics = f.pics /\ char.part = f.part
  BY DEF Refs
<1>3. /\ wide.out = outC /\ wide.last = two /\ wide.insert = f.insert /\ wide.mode = f.mode
      /\ wide.pics = f.pics /\ wide.part = f.part
  BY DEF Refs
<1> HIDE DEF char, wide
<1> QED
  BY <1>1, <1>2, <1>3 DEF one, two, outA, outC

\* of control sequences,
LEMMA RefSequences ==
  ASSUME NEW f \in Refs
  PROVE  /\ LET r == RefItem(f, "save") IN
              /\ r.out = Append(f.out, <<<<"saved">>, FALSE>>) /\ r.last = f.last
              /\ r.insert = f.insert /\ r.mode = f.mode /\ r.pics = f.pics /\ r.part = f.part
         /\ LET r == RefItem(f, "modeOn") IN
              /\ r.out = f.out /\ r.last = f.last
              /\ r.insert = f.insert /\ r.mode = TRUE /\ r.pics = f.pics /\ r.part = f.part
         /\ RefItem(f, "reset") = RefBlank
         /\ RefItem(f, "hint") = f /\ RefItem(f, "query") = f
<1> DEFINE save == Append(f.out, <<<<"saved">>, FALSE>>)
           saves == [f EXCEPT !.out = save]
           modeOn == [f EXCEPT !.mode = TRUE]
<1>1. /\ RefItem(f, "save") = saves /\ RefItem(f, "modeOn") = modeOn /\ RefItem(f, "reset") = RefBlank
      /\ RefItem(f, "hint") = f /\ RefItem(f, "query") = f
  BY DEF RefItem, RefBlank
<1> HIDE DEF save
<1>2. /\ saves.out = save /\ saves.last = f.last /\ saves.insert = f.insert /\ saves.mode = f.mode
      /\ saves.pics = f.pics /\ saves.part = f.part
  BY DEF Refs
<1>3. /\ modeOn.out = f.out /\ modeOn.last = f.last /\ modeOn.insert = f.insert /\ modeOn.mode = TRUE
      /\ modeOn.pics = f.pics /\ modeOn.part = f.part
  BY DEF Refs
<1> HIDE DEF saves, modeOn
<1> QED
  BY <1>1, <1>2, <1>3 DEF save

\* of IRM,
LEMMA RefInsert ==
  ASSUME NEW f \in Refs, NEW k \in {"irmOn", "irmOff"}
  PROVE  LET r == RefItem(f, k) IN
           /\ r.out = f.out /\ r.last = f.last
           /\ r.insert = (k = "irmOn") /\ r.mode = f.mode /\ r.pics = f.pics /\ r.part = f.part
<1> DEFINE on == (k = "irmOn")
           r == [f EXCEPT !.insert = on]
<1>1. RefItem(f, k) = r
  BY DEF RefItem
<1> HIDE DEF on
<1>2. r.out = f.out /\ r.last = f.last /\ r.insert = on /\ r.mode = f.mode /\ r.pics = f.pics /\ r.part = f.part
  BY DEF Refs
<1> HIDE DEF r
<1> QED
  BY <1>1, <1>2 DEF on

\* of a repeat,
LEMMA RefRepeat ==
  ASSUME NEW f \in Refs
  PROVE  LET r == RefItem(f, "repeat") IN
           /\ f.last # <<>> => r.out = f.out \o << <<f.last, FALSE>>, <<f.last, FALSE>> >>
           /\ r.last = f.last
           /\ r.insert = f.insert /\ r.mode = f.mode /\ r.pics = f.pics /\ r.part = f.part
<1> DEFINE twice == f.out \o (IF f.last = <<>> THEN <<>> ELSE << <<f.last, FALSE>>, <<f.last, FALSE>> >>)
           repeats == [f EXCEPT !.out = twice]
<1>1. RefItem(f, "repeat") = repeats
  BY DEF RefItem
<1>2. f.last # <<>> => twice = f.out \o << <<f.last, FALSE>>, <<f.last, FALSE>> >>
  OBVIOUS
<1> HIDE DEF twice
<1>3. /\ repeats.out = twice /\ repeats.last = f.last /\ repeats.insert = f.insert /\ repeats.mode = f.mode
      /\ repeats.pics = f.pics /\ repeats.part = f.part
  BY DEF Refs
<1> HIDE DEF repeats
<1> QED
  BY <1>1, <1>2, <1>3

\* and of pictures.
LEMMA RefPictures ==
  ASSUME NEW f \in Refs, NEW k \in {"first", "last", "single"}
  PROVE  LET r == RefItem(f, k) IN r.out = f.out /\ r.last = f.last /\ r.insert = f.insert /\ r.mode = f.mode
<1> DEFINE up == f.pics + (IF f.part THEN 1 ELSE 0)
           alone == f.pics + (IF f.part THEN 0 ELSE 1)
           first == [f EXCEPT !.part = TRUE]
           end == [f EXCEPT !.part = FALSE, !.pics = up]
           single == [f EXCEPT !.part = FALSE, !.pics = alone]
<1>1. RefItem(f, k) \in {first, end, single}
  BY DEF RefItem
<1> HIDE DEF up, alone
<1>2. \A r \in {first, end, single} : r.out = f.out /\ r.last = f.last /\ r.insert = f.insert /\ r.mode = f.mode
  BY DEF Refs
<1> HIDE DEF first, end, single
<1> QED
  BY <1>1, <1>2

\* How the parts of a picture are counted.
LEMMA RefCounts ==
  ASSUME NEW f \in Refs
  PROVE  /\ RefItem(f, "first").pics = f.pics /\ RefItem(f, "first").part = TRUE
         /\ RefItem(f, "last").pics = f.pics + (IF f.part THEN 1 ELSE 0) /\ RefItem(f, "last").part = FALSE
         /\ RefItem(f, "single").pics = f.pics + (IF f.part THEN 0 ELSE 1) /\ RefItem(f, "single").part = FALSE
<1> DEFINE up == f.pics + (IF f.part THEN 1 ELSE 0)
           alone == f.pics + (IF f.part THEN 0 ELSE 1)
           first == [f EXCEPT !.part = TRUE]
           end == [f EXCEPT !.part = FALSE, !.pics = up]
           single == [f EXCEPT !.part = FALSE, !.pics = alone]
<1>1. RefItem(f, "first") = first /\ RefItem(f, "last") = end /\ RefItem(f, "single") = single
  BY DEF RefItem
<1> HIDE DEF up, alone
<1>2. /\ first.pics = f.pics /\ first.part = TRUE /\ end.pics = up /\ end.part = FALSE
      /\ single.pics = alone /\ single.part = FALSE
  BY DEF Refs
<1> HIDE DEF first, end, single
<1> QED
  BY <1>1, <1>2 DEF up, alone

-----------------------------------------------------------------------------
(* The places of a read in an item.                                         *)

\* What the wrapper tracks is what the reference has, f from the start and g since the resize.
Same(w, f, g) ==
  /\ w.scan.insert = f.insert /\ w.scan.last = g.last
  /\ w.modes = f.mode /\ w.pics = g.pics /\ w.pending = g.part
  /\ g.last # <<>> => g.last = f.last

Shows(v, st, f) == v.st = st /\ v.ins = 0 /\ v.out = f.out

\* The last i bytes can be taken out of the run: what x/vt has had of them shows nothing.
Cuttable(w, i, f) ==
  LET v == Before(w, i) IN
  v.st \in {"scan", "esc", "csi"} /\ v.ins = 0 /\ v.out = f.out /\ (Len(w.run) >= i => v.st = "scan")

\* Between two items,
Ground(w, f, g) == Same(w, f, g) /\ w.scan.st = "scan" /\ Shows(Seen(w), "scan", f)
\* and inside of one.
InRune(w, f, g) == Same(w, f, g) /\ w.scan.st = "utf8" /\ w.scan.lead = "lead" /\ Shows(Seen(w), "scan", f)
InEsc(w, f, g) == Same(w, f, g) /\ w.scan.st = "esc" /\ Shows(Seen(w), "esc", f) /\ Cuttable(w, 1, f)
InCSI(w, i, priv, num, f, g) ==
  /\ Same(w, f, g) /\ w.scan.st = "csi" /\ w.scan.priv = priv /\ w.scan.num = num /\ w.scan.len = i
  /\ Shows(Seen(w), "csi", f) /\ Cuttable(w, i, f)
InStr(w, buf, f, g) == Same(w, f, g) /\ w.scan.st = "str" /\ w.scan.buf = buf /\ Shows(Seen(w), "str", f)
InEnd(w, buf, f, g) == Same(w, f, g) /\ w.scan.st = "strEnd" /\ w.scan.buf = buf /\ Shows(Seen(w), "strEnd", f)

\* Runes.
LEMMA RuneSteps ==
  ASSUME NEW taken \in Seq(Nat), NEW w \in Works(taken), NEW f \in Refs, NEW g \in Refs
  PROVE  /\ Ground(w, f, g) => Ground(WriteByte(w, "a"), RefItem(f, "char"), RefItem(g, "char"))
         /\ Ground(w, f, g) => InRune(WriteByte(w, "lead"), f, g)
         /\ InRune(w, f, g) => Ground(WriteByte(w, "cont"), RefItem(f, "wide"), RefItem(g, "wide"))
<1>1. w.scan \in Scan
  BY WorkParts
<1>2. "a" \in Byte /\ "lead" \in Byte /\ "cont" \in Byte
  BY DEF Byte
<1>3. Rune.a # <<>> /\ Rune.cont # <<>>
  BY DEF Rune
<1>4. ASSUME Ground(w, f, g) PROVE Ground(WriteByte(w, "a"), RefItem(f, "char"), RefItem(g, "char"))
  <2> DEFINE a == Advance(w.scan, "a")
             u == WriteByte(w, "a")
             ff == RefItem(f, "char")
             gg == RefItem(g, "char")
  <2>1. a.ev = "rune" /\ a.data = Rune.a /\ a.s.st = "scan" /\ a.s.last = Rune.a /\ a.s.insert = w.scan.insert
    BY <1>1, <1>4, AtGround DEF Ground
  <2>2. /\ u.scan = a.s /\ Beside(u, w) /\ Seen(u).st = "scan" /\ Seen(u).ins = 0
        /\ Seen(u).out = Append(Seen(w).out, <<Rune.a, a.s.insert>>)
    BY <1>2, <1>4, <2>1, PutsRune DEF Ground, Shows
  <2>3. ff.out = Append(f.out, <<Rune.a, f.insert>>) /\ ff.last = Rune.a /\ ff.insert = f.insert /\ ff.mode = f.mode
    BY RefRunes
  <2>4. gg.last = Rune.a /\ gg.pics = g.pics /\ gg.part = g.part
    BY RefRunes
  <2> HIDE DEF a, u, ff, gg
  <2>5. Same(u, ff, gg)
    BY <1>4, <2>1, <2>2, <2>3, <2>4 DEF Ground, Same, Beside
  <2>6. Shows(Seen(u), "scan", ff)
    BY <1>4, <2>1, <2>2, <2>3 DEF Ground, Same, Shows
  <2> QED
    BY <2>1, <2>2, <2>5, <2>6 DEF Ground, u, ff, gg
<1>5. ASSUME Ground(w, f, g) PROVE InRune(WriteByte(w, "lead"), f, g)
  <2> DEFINE a == Advance(w.scan, "lead")
             x == [w EXCEPT !.scan = a.s]
             u == WriteByte(w, "lead")
  <2>1. a.ev = "none" /\ a.s.st = "utf8" /\ a.s.lead = "lead" /\ a.s.last = w.scan.last /\ a.s.insert = w.scan.insert
    BY <1>1, <1>4, <1>5, AtGround DEF Ground
  <2>2. u = x
    <3> HIDE DEF x
    <3> QED
      BY <2>1 DEF WriteByte, x
  <2> HIDE DEF a, u
  <2>3. x.scan = a.s /\ x.vt = w.vt /\ x.run = w.run /\ x.modes = w.modes /\ x.pics = w.pics /\ x.pending = w.pending
    BY DEF Works
  <2> HIDE DEF x
  <2>4. Seen(u) = Seen(w)
    BY <2>2, <2>3 DEF Seen
  <2> QED
    BY <1>5, <2>1, <2>2, <2>3, <2>4 DEF Ground, InRune, Same, u
<1>6. ASSUME InRune(w, f, g) PROVE Ground(WriteByte(w, "cont"), RefItem(f, "wide"), RefItem(g, "wide"))
  <2> DEFINE a == Advance(w.scan, "cont")
             u == WriteByte(w, "cont")
             ff == RefItem(f, "wide")
             gg == RefItem(g, "wide")
  <2>1. a.ev = "rune" /\ a.data = Rune.cont /\ a.s.st = "scan" /\ a.s.last = Rune.cont /\ a.s.insert = w.scan.insert
    BY <1>1, <1>6, AtRune DEF InRune
  <2>2. /\ u.scan = a.s /\ Beside(u, w) /\ Seen(u).st = "scan" /\ Seen(u).ins = 0
        /\ Seen(u).out = Append(Seen(w).out, <<Rune.cont, a.s.insert>>)
    BY <1>2, <1>6, <2>1, PutsRune DEF InRune, Shows
  <2>3. ff.out = Append(f.out, <<Rune.cont, f.insert>>) /\ ff.last = Rune.cont /\ ff.insert = f.insert /\ ff.mode = f.mode
    BY RefRunes
  <2>4. gg.last = Rune.cont /\ gg.pics = g.pics /\ gg.part = g.part
    BY RefRunes
  <2> HIDE DEF a, u, ff, gg
  <2>5. Same(u, ff, gg)
    BY <1>6, <2>1, <2>2, <2>3, <2>4 DEF InRune, Same, Beside
  <2>6. Shows(Seen(u), "scan", ff)
    BY <1>6, <2>1, <2>2, <2>3 DEF InRune, Same, Shows
  <2> QED
    BY <2>1, <2>2, <2>5, <2>6 DEF Ground, u, ff, gg
<1> QED
  BY <1>4, <1>5, <1>6

\* A byte that means nothing more than that the sequence goes on.
LEMMA GoesOn ==
  ASSUME NEW taken \in Seq(Nat), NEW w \in Works(taken), NEW f, NEW g, NEW b \in Byte, Same(w, f, g),
         Advance(w.scan, b).ev = "none", Advance(w.scan, b).s.st # "utf8",
         Advance(w.scan, b).s.last = w.scan.last, Advance(w.scan, b).s.insert = w.scan.insert
  PROVE  LET u == WriteByte(w, b) IN
           /\ u.scan = Advance(w.scan, b).s /\ Same(u, f, g) /\ Seen(u) = VtByte(Seen(w), b)
           /\ \A i \in Nat : Cuttable(w, i, f) => Cuttable(u, i + 1, f)
<1> DEFINE a == Advance(w.scan, b)
           u == WriteByte(w, b)
<1>1. /\ u.scan = a.s /\ u.modes = w.modes /\ u.pics = w.pics /\ u.pending = w.pending
      /\ Seen(u) = VtByte(Seen(w), b)
      /\ \A i \in Nat : Before(u, i + 1) = Before(w, i) /\ (Len(u.run) >= i + 1 <=> Len(w.run) >= i)
  BY Feeds
<1>2. a.s.last = w.scan.last /\ a.s.insert = w.scan.insert
  OBVIOUS
<1> HIDE DEF a, u
<1>3. Same(u, f, g)
  BY <1>1, <1>2 DEF Same
<1>4. \A i \in Nat : Cuttable(w, i, f) => Cuttable(u, i + 1, f)
  BY <1>1 DEF Cuttable
<1> QED
  BY <1>1, <1>3, <1>4 DEF a, u

\* The start of a sequence.
LEMMA EscSteps ==
  ASSUME NEW taken \in Seq(Nat), NEW w \in Works(taken), NEW f \in Refs, NEW g \in Refs
  PROVE  /\ Ground(w, f, g) => InEsc(WriteByte(w, "esc"), f, g)
         /\ InEsc(w, f, g) => InCSI(WriteByte(w, "["), 2, FALSE, FALSE, f, g)
         /\ InEsc(w, f, g) => InStr(WriteByte(w, "_"), <<>>, f, g)
<1>1. w.scan \in Scan
  BY WorkParts
<1>2. "esc" \in Byte /\ "[" \in Byte /\ "_" \in Byte
  BY DEF Byte
<1>3. Seen(w) \in Vt
  BY SeenTyped
<1>4. ASSUME Ground(w, f, g) PROVE InEsc(WriteByte(w, "esc"), f, g)
  <2> DEFINE a == Advance(w.scan, "esc")
             u == WriteByte(w, "esc")
             v == Seen(w)
             e == [v EXCEPT !.st = "esc"]
  <2>1. a.ev = "none" /\ a.s.st = "esc" /\ a.s.last = w.scan.last /\ a.s.insert = w.scan.insert
    BY <1>1, <1>4, AtGround DEF Ground
  <2>2. /\ u.scan = a.s /\ Same(u, f, g) /\ Seen(u) = VtByte(v, "esc")
        /\ \A i \in Nat : Cuttable(w, i, f) => Cuttable(u, i + 1, f)
    BY <1>2, <1>4, <2>1, GoesOn DEF Ground
  <2>3. Cuttable(w, 0, f)
    <3>1. Before(w, 0) = v /\ Shows(v, "scan", f)
      BY <1>4, SeenTyped DEF Ground
    <3> HIDE DEF v
    <3> QED
      BY <3>1 DEF Cuttable, Shows
  <2>4. v \in Vt /\ v.st = "scan" /\ v.ins = 0 /\ v.out = f.out
    BY <1>3, <1>4 DEF Ground, Shows
  <2> HIDE DEF a, u, v
  <2>5. Seen(u) = e
    BY <2>2, <2>4, VtSequences
  <2>6. e.st = "esc" /\ e.ins = v.ins /\ e.out = v.out
    BY <2>4 DEF Vt
  <2> HIDE DEF e
  <2>7. Shows(Seen(u), "esc", f)
    BY <2>4, <2>5, <2>6 DEF Shows
  <2>8. 0 + 1 = 1 /\ 0 \in Nat
    OBVIOUS
  <2>9. Cuttable(u, 1, f)
    BY <2>2, <2>3, <2>8
  <2> QED
    BY <2>1, <2>2, <2>7, <2>9 DEF InEsc, u
<1>5. ASSUME InEsc(w, f, g) PROVE InCSI(WriteByte(w, "["), 2, FALSE, FALSE, f, g)
  <2> DEFINE a == Advance(w.scan, "[")
             u == WriteByte(w, "[")
             v == Seen(w)
             e == [v EXCEPT !.st = "csi"]
  <2>1. /\ a.ev = "none" /\ a.s.st = "csi" /\ a.s.priv = FALSE /\ a.s.num = FALSE /\ a.s.len = 2
        /\ a.s.last = w.scan.last /\ a.s.insert = w.scan.insert
    BY <1>1, <1>5, AtEsc DEF InEsc
  <2>2. /\ u.scan = a.s /\ Same(u, f, g) /\ Seen(u) = VtByte(v, "[")
        /\ \A i \in Nat : Cuttable(w, i, f) => Cuttable(u, i + 1, f)
    BY <1>2, <1>5, <2>1, GoesOn DEF InEsc
  <2>3. v \in Vt /\ v.st = "esc" /\ v.ins = 0 /\ v.out = f.out /\ Cuttable(w, 1, f)
    BY <1>3, <1>5 DEF InEsc, Shows
  <2> HIDE DEF a, u, v
  <2>4. Seen(u) = e
    BY <2>2, <2>3, VtSequences
  <2>5. e.st = "csi" /\ e.ins = v.ins /\ e.out = v.out
    BY <2>3 DEF Vt
  <2> HIDE DEF e
  <2>6. Shows(Seen(u), "csi", f)
    BY <2>3, <2>4, <2>5 DEF Shows
  <2>7. 1 + 1 = 2 /\ 1 \in Nat
    OBVIOUS
  <2>8. Cuttable(u, 2, f)
    BY <2>2, <2>3, <2>7
  <2> QED
    BY <2>1, <2>2, <2>6, <2>8 DEF InCSI, u
<1>6. ASSUME InEsc(w, f, g) PROVE InStr(WriteByte(w, "_"), <<>>, f, g)
  <2> DEFINE a == Advance(w.scan, "_")
             u == WriteByte(w, "_")
             v == Seen(w)
             e == [v EXCEPT !.st = "str"]
             none == <<>>
  <2>1. a.ev = "none" /\ a.s.st = "str" /\ a.s.buf = none /\ a.s.last = w.scan.last /\ a.s.insert = w.scan.insert
    BY <1>1, <1>6, AtEsc DEF InEsc
  <2>2. u.scan = a.s /\ Same(u, f, g) /\ Seen(u) = VtByte(v, "_")
    BY <1>2, <1>6, <2>1, GoesOn DEF InEsc
  <2>3. v \in Vt /\ v.st = "esc" /\ v.ins = 0 /\ v.out = f.out
    BY <1>3, <1>6 DEF InEsc, Shows
  <2> HIDE DEF a, u, v, none
  <2>4. Seen(u) = e
    BY <2>2, <2>3, VtSequences
  <2>5. e.st = "str" /\ e.ins = v.ins /\ e.out = v.out
    BY <2>3 DEF Vt
  <2> HIDE DEF e
  <2>6. Shows(Seen(u), "str", f)
    BY <2>3, <2>4, <2>5 DEF Shows
  <2> QED
    BY <2>1, <2>2, <2>6 DEF InStr, u, none
<1> QED
  BY <1>4, <1>5, <1>6

\* ESC c: both start anew.
LEMMA ResetStep ==
  ASSUME NEW taken \in Seq(Nat), NEW w \in Works(taken), NEW f \in Refs, NEW g \in Refs, InEsc(w, f, g)
  PROVE  Ground(WriteByte(w, "c"), RefItem(f, "reset"), RefItem(g, "reset"))
<1> DEFINE a == Advance(w.scan, "c")
           u == WriteByte(w, "c")
           none == <<>>
<1>1. w.scan \in Scan /\ Seen(w) \in Vt
  BY WorkParts, SeenTyped
<1>2. "c" \in Byte
  BY DEF Byte
<1>3. a.ev = "ris" /\ a.s = ScanReset
  BY <1>1, AtEsc DEF InEsc
<1>4. u.scan = a.s /\ u.modes = FALSE /\ u.pics = 0 /\ u.pending = FALSE /\ Seen(u) = VtByte(Seen(w), "c")
  BY <1>2, <1>3, Resets
<1>5. VtByte(Seen(w), "c") = VtReset
  BY <1>1, VtSequences DEF InEsc, Shows
<1>6. RefItem(f, "reset") = RefBlank /\ RefItem(g, "reset") = RefBlank
  BY RefSequences
<1> HIDE DEF a, u
<1>7. ScanReset.insert = FALSE /\ ScanReset.last = none /\ ScanReset.st = "scan"
  BY DEF ScanReset
<1>8. /\ RefBlank.insert = FALSE /\ RefBlank.last = none /\ RefBlank.mode = FALSE /\ RefBlank.pics = 0
      /\ RefBlank.part = FALSE /\ RefBlank.out = none
  BY DEF RefBlank
<1>9. VtReset.st = "scan" /\ VtReset.ins = 0 /\ VtReset.out = none
  BY DEF VtReset
<1> HIDE DEF none
<1>10. Same(u, RefBlank, RefBlank)
  BY <1>3, <1>4, <1>7, <1>8 DEF Same
<1>11. Shows(Seen(u), "scan", RefBlank)
  BY <1>4, <1>5, <1>8, <1>9 DEF Shows
<1> QED
  BY <1>3, <1>4, <1>6, <1>7, <1>10, <1>11 DEF Ground, u

\* The parameters of a CSI.
LEMMA ParamSteps ==
  ASSUME NEW taken \in Seq(Nat), NEW w \in Works(taken), NEW f \in Refs, NEW g \in Refs,
         NEW i \in Nat, NEW priv, NEW num, InCSI(w, i, priv, num, f, g)
  PROVE  /\ InCSI(WriteByte(w, "4"), i + 1, priv, TRUE, f, g)
         /\ InCSI(WriteByte(w, "?"), i + 1, TRUE, num, f, g)
<1>1. w.scan \in Scan
  BY WorkParts
<1>2. "4" \in Byte /\ "?" \in Byte
  BY DEF Byte
<1>3. Seen(w) \in Vt /\ Shows(Seen(w), "csi", f) /\ Cuttable(w, i, f)
  BY SeenTyped DEF InCSI
<1>4. VtByte(Seen(w), "4") = Seen(w) /\ VtByte(Seen(w), "?") = Seen(w)
  BY <1>3, VtSequences DEF Shows
<1>5. w.scan.st = "csi" /\ w.scan.priv = priv /\ w.scan.num = num /\ w.scan.len = i /\ Same(w, f, g)
  BY DEF InCSI
<1>6. InCSI(WriteByte(w, "4"), i + 1, priv, TRUE, f, g)
  <2> DEFINE a == Advance(w.scan, "4")
             u == WriteByte(w, "4")
  <2>1. /\ a.ev = "none" /\ a.s.st = "csi" /\ a.s.priv = priv /\ a.s.num = TRUE /\ a.s.len = i + 1
        /\ a.s.last = w.scan.last /\ a.s.insert = w.scan.insert
    BY <1>1, <1>5, AtCSI
  <2>2. /\ u.scan = a.s /\ Same(u, f, g) /\ Seen(u) = VtByte(Seen(w), "4")
        /\ \A j \in Nat : Cuttable(w, j, f) => Cuttable(u, j + 1, f)
    BY <1>2, <1>5, <2>1, GoesOn
  <2> HIDE DEF a, u
  <2> QED
    BY <1>3, <1>4, <2>1, <2>2 DEF InCSI, u
<1>7. InCSI(WriteByte(w, "?"), i + 1, TRUE, num, f, g)
  <2> DEFINE a == Advance(w.scan, "?")
             u == WriteByte(w, "?")
  <2>1. /\ a.ev = "none" /\ a.s.st = "csi" /\ a.s.priv = TRUE /\ a.s.num = num /\ a.s.len = i + 1
        /\ a.s.last = w.scan.last /\ a.s.insert = w.scan.insert
    BY <1>1, <1>5, AtCSI
  <2>2. /\ u.scan = a.s /\ Same(u, f, g) /\ Seen(u) = VtByte(Seen(w), "?")
        /\ \A j \in Nat : Cuttable(w, j, f) => Cuttable(u, j + 1, f)
    BY <1>2, <1>5, <2>1, GoesOn
  <2> HIDE DEF a, u
  <2> QED
    BY <1>3, <1>4, <2>1, <2>2 DEF InCSI, u
<1> QED
  BY <1>6, <1>7

\* CSI s: what is left of it in the run gives way to an ESC 7.
LEMMA SaveStep ==
  ASSUME NEW taken \in Seq(Nat), NEW w \in Works(taken), NEW f \in Refs, NEW g \in Refs,
         NEW i \in Nat, NEW num, InCSI(w, i, FALSE, num, f, g)
  PROVE  Ground(WriteByte(w, "s"), RefItem(f, "save"), RefItem(g, "save"))
<1> DEFINE a == Advance(w.scan, "s")
           u == WriteByte(w, "s")
           v == Before(w, i)
           e == [v EXCEPT !.st = "esc"]
           ff == RefItem(f, "save")
           gg == RefItem(g, "save")
           out == Append(e.out, <<<<"saved">>, FALSE>>)
           d == [e EXCEPT !.st = "scan", !.out = out]
<1>1. w.scan \in Scan /\ v \in Vt
  BY WorkParts, SeenTyped
<1>2. "s" \in Byte /\ "esc" \in Byte /\ "7" \in Byte
  BY DEF Byte
<1>3. a.ev = "replaced" /\ a.data = <<"esc", "7">> /\ a.s.st = "scan" /\ a.s.len = i + 1
      /\ a.s.last = w.scan.last /\ a.s.insert = w.scan.insert
  <2>1. w.scan.st = "csi" /\ w.scan.priv = FALSE /\ w.scan.len = i
    BY DEF InCSI
  <2> QED
    BY <1>1, <2>1, AtFinal
<1>4. u.scan = a.s /\ Beside(u, w) /\ Seen(u) = VtByte(VtByte(v, "esc"), "7")
  BY <1>2, <1>3, Splices
<1>5. v.st \in {"scan", "esc", "csi"} /\ v.ins = 0 /\ v.out = f.out
  BY DEF InCSI, Cuttable
<1>6. ff.out = Append(f.out, <<<<"saved">>, FALSE>>) /\ ff.last = f.last /\ ff.insert = f.insert /\ ff.mode = f.mode
  BY RefSequences
<1>7. gg.last = g.last /\ gg.pics = g.pics /\ gg.part = g.part
  BY RefSequences
<1> HIDE DEF a, u, v, ff, gg
<1>8. VtByte(v, "esc") = e
  BY <1>1, <1>5, VtSequences
<1>9. e \in Vt
  BY <1>1, <1>8, VtByteTyped
<1>10. e.st = "esc" /\ e.ins = v.ins /\ e.out = v.out
  BY <1>1 DEF Vt
<1> HIDE DEF e
<1>11. VtByte(e, "7") = d
  BY <1>9, <1>10, VtSequences
<1> HIDE DEF out
<1>12. d.st = "scan" /\ d.ins = e.ins /\ d.out = out
  BY <1>9 DEF Vt
<1> HIDE DEF d
<1>13. Shows(Seen(u), "scan", ff)
  BY <1>4, <1>5, <1>6, <1>8, <1>10, <1>11, <1>12 DEF Shows, out
<1>14. Same(u, ff, gg)
  BY <1>3, <1>4, <1>6, <1>7 DEF InCSI, Same, Beside
<1> QED
  BY <1>3, <1>4, <1>13, <1>14 DEF Ground, u, ff, gg

\* A rune twice, as CSI b repeats it.
LEMMA TwoOfOne == ASSUME NEW S, NEW x \in S PROVE <<x>> \o <<x>> = <<x, x>>
<1> DEFINE s == <<x>>
           c == s \o s
<1>1. s \in Seq(S) /\ Len(s) = 1 /\ s[1] = x
  OBVIOUS
<1> HIDE DEF s
<1>2. c \in Seq(S) /\ Len(c) = 2 /\ \A i \in 1 .. 2 : c[i] = IF i <= 1 THEN s[i] ELSE s[i - 1]
  BY <1>1, ConcatProperties
<1> HIDE DEF c
<1>3. c[1] = x /\ c[2] = x
  BY <1>1, <1>2
<1>4. c = <<x, x>>
  BY <1>2, <1>3
<1> QED
  BY <1>4 DEF c, s

\* CSI b: all of it gives way to the rune, twice.
LEMMA RepeatStep ==
  ASSUME NEW taken \in Seq(Nat), NEW w \in Works(taken), NEW f \in Refs, NEW g \in Refs,
         NEW i \in Nat, NEW priv, NEW num, InCSI(w, i, priv, num, f, g), Len(w.run) >= i, g.last = Rune.a
  PROVE  Ground(WriteByte(w, "b"), RefItem(f, "repeat"), RefItem(g, "repeat"))
<1> DEFINE a == Advance(w.scan, "b")
           u == WriteByte(w, "b")
           v == Before(w, i)
           e == VtByte(v, "a")
           d == VtByte(e, "a")
           ff == RefItem(f, "repeat")
           gg == RefItem(g, "repeat")
           one == <<Rune.a, FALSE>>
<1>1. w.scan \in Scan /\ v \in Vt
  BY WorkParts, SeenTyped
<1>2. "b" \in Byte /\ "a" \in Byte
  BY DEF Byte
<1>3. Same(w, f, g) /\ w.scan.st = "csi" /\ w.scan.len = i /\ Cuttable(w, i, f)
  BY DEF InCSI
<1>4. w.scan.last = Rune.a /\ Rune.a = <<"a">> /\ f.last = Rune.a /\ Rune.a # <<>>
  <2>1. Rune.a = <<"a">> /\ Rune.a # <<>>
    BY DEF Rune
  <2> QED
    BY <1>3, <2>1 DEF Same
<1>5. a.ev = "replaced" /\ a.data = <<"a", "a">> /\ a.s.st = "scan" /\ a.s.len = i + 1
      /\ a.s.last = w.scan.last /\ a.s.insert = w.scan.insert
  <2>1. a.ev = "replaced" /\ a.data = w.scan.last \o w.scan.last /\ a.s.st = "scan" /\ a.s.len = i + 1
        /\ a.s.last = w.scan.last /\ a.s.insert = w.scan.insert
    BY <1>1, <1>3, <1>4, AtFinal
  <2> QED
    BY <1>2, <1>4, <2>1, TwoOfOne
<1>6. u.scan = a.s /\ Beside(u, w) /\ Seen(u) = d
  BY <1>2, <1>5, Splices
<1>7. v.st = "scan" /\ v.ins = 0 /\ v.out = f.out
  BY <1>3 DEF Cuttable
<1>8. ff.out = f.out \o << <<f.last, FALSE>>, <<f.last, FALSE>> >> /\ ff.last = f.last /\ ff.insert = f.insert
      /\ ff.mode = f.mode
  BY <1>4, RefRepeat
<1>9. gg.last = g.last /\ gg.pics = g.pics /\ gg.part = g.part
  BY RefRepeat
<1> HIDE DEF a, u, v, ff, gg
<1>10. e \in Vt /\ e.st = "scan" /\ e.ins = 0 /\ e.out = Append(v.out, <<Rune.a, v.ins = 1>>)
  BY <1>1, <1>7, VtByteTyped, VtRunes
<1> HIDE DEF e
<1>11. d.st = "scan" /\ d.ins = 0 /\ d.out = Append(e.out, <<Rune.a, e.ins = 1>>)
  BY <1>10, VtRunes
<1> HIDE DEF d
<1>12. d.out = ff.out
  <2>1. (v.ins = 1) = FALSE /\ (e.ins = 1) = FALSE
    BY <1>7, <1>10
  <2>2. d.out = Append(Append(f.out, one), one)
    BY <1>7, <1>10, <1>11, <2>1
  <2>3. ff.out = f.out \o <<one, one>>
    BY <1>4, <1>8
  <2> DEFINE C == Cells \X BOOLEAN
             out == f.out
  <2>4. out \in Seq(C)
    BY DEF Refs
  <2>5. one \in C
    BY RunesTyped DEF Cells
  <2> HIDE DEF C, one, out
  <2>6. Append(Append(out, one), one) = out \o <<one, one>>
    BY <2>4, <2>5
  <2> QED
    BY <2>2, <2>3, <2>6 DEF out
<1>13. Shows(Seen(u), "scan", ff)
  BY <1>6, <1>11, <1>12 DEF Shows
<1>14. Same(u, ff, gg)
  BY <1>3, <1>5, <1>6, <1>8, <1>9 DEF Same, Beside
<1> QED
  BY <1>5, <1>6, <1>13, <1>14 DEF Ground, u, ff, gg

\* IRM, the mode that is tracked, and a query.
LEMMA ModeSteps ==
  ASSUME NEW taken \in Seq(Nat), NEW w \in Works(taken), NEW f \in Refs, NEW g \in Refs, NEW i \in Nat
  PROVE  /\ InCSI(w, i, FALSE, TRUE, f, g) =>
              /\ Ground(WriteByte(w, "h"), RefItem(f, "irmOn"), RefItem(g, "irmOn"))
              /\ Ground(WriteByte(w, "l"), RefItem(f, "irmOff"), RefItem(g, "irmOff"))
         /\ InCSI(w, i, TRUE, TRUE, f, g) => Ground(WriteByte(w, "h"), RefItem(f, "modeOn"), RefItem(g, "modeOn"))
         /\ InCSI(w, i, FALSE, FALSE, f, g) => Ground(WriteByte(w, "n"), RefItem(f, "query"), RefItem(g, "query"))
<1> DEFINE v == Seen(w)
           e == [v EXCEPT !.st = "scan"]
           In == \E priv, num \in BOOLEAN : InCSI(w, i, priv, num, f, g)
<1>1. w.scan \in Scan /\ v \in Vt
  BY WorkParts, SeenTyped
<1>2. {"h", "l", "n"} \subseteq Byte
  BY DEF Byte
<1>3. In => Same(w, f, g) /\ v.st = "csi" /\ v.ins = 0 /\ v.out = f.out
  BY DEF InCSI, Shows
<1> HIDE DEF v
<1>4. In => \A b \in {"h", "l", "n"} : VtByte(v, b) = e
  BY <1>1, <1>3, VtSequences
<1>5. e.st = "scan" /\ e.ins = v.ins /\ e.out = v.out
  BY <1>1 DEF Vt
<1> HIDE DEF e
<1>6. In => \A b \in {"h", "l", "n"} : \A ff : VtByte(v, b) = e /\ (ff.out = f.out => Shows(e, "scan", ff))
  BY <1>3, <1>4, <1>5 DEF Shows
<1>7. ASSUME InCSI(w, i, FALSE, TRUE, f, g), NEW b \in {"h", "l"}, NEW k \in {"irmOn", "irmOff"}, b = "h" <=> k = "irmOn"
      PROVE  Ground(WriteByte(w, b), RefItem(f, k), RefItem(g, k))
  <2> DEFINE a == Advance(w.scan, b)
             u == WriteByte(w, b)
             ff == RefItem(f, k)
             gg == RefItem(g, k)
  <2>1. w.scan.st = "csi" /\ w.scan.priv = FALSE /\ w.scan.num = TRUE /\ In
    BY <1>7 DEF InCSI
  <2>2. a.ev = "none" /\ a.s.st = "scan" /\ a.s.insert = (b = "h") /\ a.s.last = w.scan.last
    BY <1>1, <2>1, AtFinal
  <2>3. u.scan = a.s /\ u.modes = w.modes /\ u.pics = w.pics /\ u.pending = w.pending /\ Seen(u) = VtByte(v, b)
    <3>1. b \in Byte /\ a.ev \in {"none", "on"} /\ a.s.st # "utf8" /\ a.ev # "on"
      BY <1>2, <2>2
    <3> QED
      BY <3>1, Feeds DEF v
  <2>4. ff.out = f.out /\ ff.last = f.last /\ ff.insert = (k = "irmOn") /\ ff.mode = f.mode
    BY RefInsert
  <2>5. gg.last = g.last /\ gg.pics = g.pics /\ gg.part = g.part
    BY RefInsert
  <2> HIDE DEF a, u, ff, gg
  <2>6. (b = "h") = (k = "irmOn")
    BY <1>7
  <2>7. Same(u, ff, gg)
    BY <1>3, <2>1, <2>2, <2>3, <2>4, <2>5, <2>6 DEF Same
  <2>8. Shows(Seen(u), "scan", ff)
    BY <1>6, <2>1, <2>3, <2>4
  <2> QED
    BY <2>2, <2>3, <2>7, <2>8 DEF Ground, u, ff, gg
<1>8. ASSUME InCSI(w, i, TRUE, TRUE, f, g)
      PROVE  Ground(WriteByte(w, "h"), RefItem(f, "modeOn"), RefItem(g, "modeOn"))
  <2> DEFINE a == Advance(w.scan, "h")
             u == WriteByte(w, "h")
             ff == RefItem(f, "modeOn")
             gg == RefItem(g, "modeOn")
  <2>1. w.scan.st = "csi" /\ w.scan.priv = TRUE /\ w.scan.num = TRUE /\ In
    BY <1>8 DEF InCSI
  <2>2. a.ev = "on" /\ a.s.st = "scan" /\ a.s.insert = w.scan.insert /\ a.s.last = w.scan.last
    BY <1>1, <2>1, AtFinal
  <2>3. u.scan = a.s /\ u.modes = TRUE /\ u.pics = w.pics /\ u.pending = w.pending /\ Seen(u) = VtByte(v, "h")
    BY <1>2, <2>2, Feeds DEF v
  <2>4. ff.out = f.out /\ ff.last = f.last /\ ff.insert = f.insert /\ ff.mode = TRUE
    BY RefSequences
  <2>5. gg.last = g.last /\ gg.pics = g.pics /\ gg.part = g.part
    BY RefSequences
  <2> HIDE DEF a, u, ff, gg
  <2>6. Same(u, ff, gg)
    BY <1>3, <2>1, <2>2, <2>3, <2>4, <2>5 DEF Same
  <2>7. Shows(Seen(u), "scan", ff)
    BY <1>6, <2>1, <2>3, <2>4
  <2> QED
    BY <2>2, <2>3, <2>6, <2>7 DEF Ground, u, ff, gg
<1>9. ASSUME InCSI(w, i, FALSE, FALSE, f, g)
      PROVE  Ground(WriteByte(w, "n"), RefItem(f, "query"), RefItem(g, "query"))
  <2> DEFINE a == Advance(w.scan, "n")
             u == WriteByte(w, "n")
  <2>1. w.scan.st = "csi" /\ In
    BY <1>9 DEF InCSI
  <2>2. a.ev = "none" /\ a.s.st = "scan" /\ a.s.insert = w.scan.insert /\ a.s.last = w.scan.last
    BY <1>1, <2>1, AtFinal
  <2>3. u.scan = a.s /\ Same(u, f, g) /\ Seen(u) = VtByte(v, "n")
    BY <1>2, <1>3, <2>1, <2>2, GoesOn DEF v
  <2>4. RefItem(f, "query") = f /\ RefItem(g, "query") = g
    BY RefSequences
  <2> HIDE DEF a, u
  <2>5. Shows(Seen(u), "scan", f)
    BY <1>6, <2>1, <2>3
  <2> QED
    BY <2>2, <2>3, <2>4, <2>5 DEF Ground, u
<1> QED
  BY <1>7, <1>8, <1>9

\* A string is collected, and handled at its end.
LEMMA StringSteps ==
  ASSUME NEW taken \in Seq(Nat), NEW w \in Works(taken), NEW f \in Refs, NEW g \in Refs, NEW buf
  PROVE  /\ InStr(w, buf, f, g) => InEnd(WriteByte(w, "esc"), buf, f, g)
         /\ InStr(w, buf, f, g) => \A b \in {"G", "1", "0"} : InStr(WriteByte(w, b), Append(buf, b), f, g)
         /\ InEnd(w, buf, f, g) /\ buf = <<"1">> => Ground(WriteByte(w, "st"), RefItem(f, "first"), RefItem(g, "first"))
         /\ InEnd(w, buf, f, g) /\ buf = <<"0">> => Ground(WriteByte(w, "st"), RefItem(f, "last"), RefItem(g, "last"))
         /\ InEnd(w, buf, f, g) /\ buf = <<"G">> => Ground(WriteByte(w, "st"), RefItem(f, "single"), RefItem(g, "single"))
<1> DEFINE v == Seen(w)
<1>1. w.scan \in Scan /\ v \in Vt
  BY WorkParts, SeenTyped
<1>2. {"esc", "G", "1", "0", "st"} \subseteq Byte
  BY DEF Byte
<1>3. ASSUME InStr(w, buf, f, g) PROVE InEnd(WriteByte(w, "esc"), buf, f, g)
  <2> DEFINE a == Advance(w.scan, "esc")
             u == WriteByte(w, "esc")
             e == [v EXCEPT !.st = "strEnd"]
  <2>1. v.st = "str" /\ v.ins = 0 /\ v.out = f.out /\ w.scan.st = "str" /\ w.scan.buf = buf /\ Same(w, f, g)
    BY <1>3 DEF InStr, Shows
  <2>2. a.ev = "none" /\ a.s.st = "strEnd" /\ a.s.buf = buf /\ a.s.last = w.scan.last /\ a.s.insert = w.scan.insert
    BY <1>1, <2>1, AtString
  <2>3. u.scan = a.s /\ Same(u, f, g) /\ Seen(u) = VtByte(v, "esc")
    BY <1>2, <2>1, <2>2, GoesOn
  <2> HIDE DEF a, u, v
  <2>4. Seen(u) = e
    BY <1>1, <2>1, <2>3, VtSequences
  <2>5. e.st = "strEnd" /\ e.ins = v.ins /\ e.out = v.out
    BY <1>1 DEF Vt
  <2> HIDE DEF e
  <2>6. Shows(Seen(u), "strEnd", f)
    BY <2>1, <2>4, <2>5 DEF Shows
  <2> QED
    BY <2>2, <2>3, <2>6 DEF InEnd, u
<1>4. ASSUME InStr(w, buf, f, g), NEW b \in {"G", "1", "0"} PROVE InStr(WriteByte(w, b), Append(buf, b), f, g)
  <2> DEFINE a == Advance(w.scan, b)
             u == WriteByte(w, b)
             more == Append(buf, b)
  <2>1. v.st = "str" /\ Shows(v, "str", f) /\ w.scan.st = "str" /\ w.scan.buf = buf /\ Same(w, f, g)
    BY <1>4 DEF InStr, Shows
  <2>2. a.ev = "none" /\ a.s.st = "str" /\ a.s.buf = more /\ a.s.last = w.scan.last /\ a.s.insert = w.scan.insert
    BY <1>1, <2>1, AtString
  <2>3. u.scan = a.s /\ Same(u, f, g) /\ Seen(u) = VtByte(v, b)
    BY <1>2, <2>1, <2>2, GoesOn
  <2> HIDE DEF a, u, v, more
  <2>4. Seen(u) = v
    BY <1>1, <2>1, <2>3, VtSequences
  <2> QED
    BY <2>1, <2>2, <2>3, <2>4 DEF InStr, u, more
<1>5. ASSUME InEnd(w, buf, f, g), NEW k \in {"first", "last", "single"},
             buf = CASE k = "first" -> <<"1">> [] k = "last" -> <<"0">> [] k = "single" -> <<"G">>
      PROVE  Ground(WriteByte(w, "st"), RefItem(f, k), RefItem(g, k))
  <2> DEFINE a == Advance(w.scan, "st")
             u == WriteByte(w, "st")
             e == [v EXCEPT !.st = "scan"]
             ff == RefItem(f, k)
             gg == RefItem(g, k)
  <2>1. v.st = "strEnd" /\ v.ins = 0 /\ v.out = f.out /\ w.scan.st = "strEnd" /\ w.scan.buf = buf /\ Same(w, f, g)
    BY <1>5 DEF InEnd, Shows
  <2>2. a.ev = "payload" /\ a.data = buf /\ a.s.st = "scan" /\ a.s.last = w.scan.last /\ a.s.insert = w.scan.insert
    BY <1>1, <2>1, AtString
  <2>3. /\ u.scan = a.s /\ u.modes = w.modes /\ Seen(u) = VtByte(v, "st")
        /\ buf = <<"1">> => u.pending = TRUE /\ u.pics = w.pics
        /\ buf = <<"0">> => u.pending = FALSE /\ u.pics = w.pics + (IF w.pending THEN 1 ELSE 0)
        /\ buf = <<"G">> => u.pending = FALSE /\ u.pics = w.pics + (IF w.pending THEN 0 ELSE 1)
    BY <1>2, <2>2, Completes
  <2>4. ff.out = f.out /\ ff.last = f.last /\ ff.insert = f.insert /\ ff.mode = f.mode /\ gg.last = g.last
    BY RefPictures
  <2>5. /\ k = "first" => gg.pics = g.pics /\ gg.part = TRUE
        /\ k = "last" => gg.pics = g.pics + (IF g.part THEN 1 ELSE 0) /\ gg.part = FALSE
        /\ k = "single" => gg.pics = g.pics + (IF g.part THEN 0 ELSE 1) /\ gg.part = FALSE
    <3>1. /\ RefItem(g, "first").pics = g.pics /\ RefItem(g, "first").part = TRUE
          /\ RefItem(g, "last").pics = g.pics + (IF g.part THEN 1 ELSE 0) /\ RefItem(g, "last").part = FALSE
          /\ RefItem(g, "single").pics = g.pics + (IF g.part THEN 0 ELSE 1) /\ RefItem(g, "single").part = FALSE
      BY RefCounts
    <3> QED
      BY <3>1, Zenon
  <2> DEFINE is1 == buf = <<"1">>
             is0 == buf = <<"0">>
             isG == buf = <<"G">>
  <2>6. (k = "first" => is1) /\ (k = "last" => is0) /\ (k = "single" => isG)
    BY <1>5
  <2>7. /\ is1 => u.pending = TRUE /\ u.pics = w.pics
        /\ is0 => u.pending = FALSE /\ u.pics = w.pics + (IF w.pending THEN 1 ELSE 0)
        /\ isG => u.pending = FALSE /\ u.pics = w.pics + (IF w.pending THEN 0 ELSE 1)
    BY <2>3
  <2> HIDE DEF a, u, v, ff, gg, is1, is0, isG
  <2>8. u.pics = gg.pics /\ u.pending = gg.part
    BY <2>1, <2>5, <2>6, <2>7 DEF Same
  <2>9. Same(u, ff, gg)
    BY <2>1, <2>2, <2>3, <2>4, <2>8 DEF Same
  <2>10. Seen(u) = e
    BY <1>1, <2>1, <2>3, VtSequences
  <2>11. e.st = "scan" /\ e.ins = v.ins /\ e.out = v.out
    BY <1>1 DEF Vt
  <2> HIDE DEF e
  <2>12. Shows(Seen(u), "scan", ff)
    BY <2>1, <2>4, <2>10, <2>11 DEF Shows
  <2> QED
    BY <2>2, <2>3, <2>9, <2>12 DEF Ground, u, ff, gg
<1> QED
  BY <1>3, <1>4, <1>5

-----------------------------------------------------------------------------
(* One byte on.                                                             *)

CSIs == {"save", "repeat", "irmOn", "irmOff", "modeOn", "query"}
Strings == {"first", "last", "single"}

Size(k) == Len(Bytes[k])

\* After i bytes of an item of kind k, before which the reference had f and g.
Stage(w, k, i, f, g) ==
  \/ i = 0 /\ Ground(w, f, g)
  \/ i = Size(k) /\ Ground(w, RefItem(f, k), RefItem(g, k))
  \/ k = "wide" /\ i = 1 /\ InRune(w, f, g)
  \/ k \in CSIs \cup Strings \cup {"reset"} /\ i = 1 /\ InEsc(w, f, g)
  \/ k \in CSIs /\ i = 2 /\ InCSI(w, 2, FALSE, FALSE, f, g)
  \/ k \in {"repeat", "irmOn", "irmOff"} /\ i = 3 /\ InCSI(w, 3, FALSE, TRUE, f, g)
  \/ k = "modeOn" /\ i = 3 /\ InCSI(w, 3, TRUE, FALSE, f, g)
  \/ k = "modeOn" /\ i = 4 /\ InCSI(w, 4, TRUE, TRUE, f, g)
  \/ k \in Strings /\ i = 2 /\ InStr(w, <<>>, f, g)
  \/ k \in Strings /\ i = 3 /\ InStr(w, <<Bytes[k][3]>>, f, g)
  \/ k \in Strings /\ i = 4 /\ InEnd(w, <<Bytes[k][3]>>, f, g)

\* All of the item is still in the run.
AllInRun(w, k, i) == i < Size(k) => Len(w.run) >= i

\* The bytes of each kind.
LEMMA BytesAre ==
  /\ Size("char") = 1 /\ Bytes["char"][1] = "a"
  /\ Size("wide") = 2 /\ Bytes["wide"][1] = "lead" /\ Bytes["wide"][2] = "cont"
  /\ Size("reset") = 2 /\ Bytes["reset"][1] = "esc" /\ Bytes["reset"][2] = "c"
  /\ Size("save") = 3 /\ Bytes["save"][1] = "esc" /\ Bytes["save"][2] = "[" /\ Bytes["save"][3] = "s"
  /\ Size("query") = 3 /\ Bytes["query"][1] = "esc" /\ Bytes["query"][2] = "[" /\ Bytes["query"][3] = "n"
  /\ Size("repeat") = 4 /\ Bytes["repeat"][1] = "esc" /\ Bytes["repeat"][2] = "["
  /\ Bytes["repeat"][3] = "4" /\ Bytes["repeat"][4] = "b"
  /\ Size("irmOn") = 4 /\ Bytes["irmOn"][1] = "esc" /\ Bytes["irmOn"][2] = "["
  /\ Bytes["irmOn"][3] = "4" /\ Bytes["irmOn"][4] = "h"
  /\ Size("irmOff") = 4 /\ Bytes["irmOff"][1] = "esc" /\ Bytes["irmOff"][2] = "["
  /\ Bytes["irmOff"][3] = "4" /\ Bytes["irmOff"][4] = "l"
  /\ Size("modeOn") = 5 /\ Bytes["modeOn"][1] = "esc" /\ Bytes["modeOn"][2] = "["
  /\ Bytes["modeOn"][3] = "?" /\ Bytes["modeOn"][4] = "4" /\ Bytes["modeOn"][5] = "h"
<1>1. Size("char") = 1 /\ Bytes["char"][1] = "a"
  BY DEF Bytes, Size
<1>2. Size("wide") = 2 /\ Bytes["wide"][1] = "lead" /\ Bytes["wide"][2] = "cont"
  BY DEF Bytes, Size
<1>3. Size("reset") = 2 /\ Bytes["reset"][1] = "esc" /\ Bytes["reset"][2] = "c"
  BY DEF Bytes, Size
<1>4. Size("save") = 3 /\ Bytes["save"][1] = "esc" /\ Bytes["save"][2] = "[" /\ Bytes["save"][3] = "s"
  BY DEF Bytes, Size
<1>5. Size("query") = 3 /\ Bytes["query"][1] = "esc" /\ Bytes["query"][2] = "[" /\ Bytes["query"][3] = "n"
  BY DEF Bytes, Size
<1>6. /\ Size("repeat") = 4 /\ Bytes["repeat"][1] = "esc" /\ Bytes["repeat"][2] = "["
      /\ Bytes["repeat"][3] = "4" /\ Bytes["repeat"][4] = "b"
  BY DEF Bytes, Size
<1>7. /\ Size("irmOn") = 4 /\ Bytes["irmOn"][1] = "esc" /\ Bytes["irmOn"][2] = "["
      /\ Bytes["irmOn"][3] = "4" /\ Bytes["irmOn"][4] = "h"
  BY DEF Bytes, Size
<1>8. /\ Size("irmOff") = 4 /\ Bytes["irmOff"][1] = "esc" /\ Bytes["irmOff"][2] = "["
      /\ Bytes["irmOff"][3] = "4" /\ Bytes["irmOff"][4] = "l"
  BY DEF Bytes, Size
<1>9. /\ Size("modeOn") = 5 /\ Bytes["modeOn"][1] = "esc" /\ Bytes["modeOn"][2] = "["
      /\ Bytes["modeOn"][3] = "?" /\ Bytes["modeOn"][4] = "4" /\ Bytes["modeOn"][5] = "h"
  BY DEF Bytes, Size
<1> QED
  BY <1>1, <1>2, <1>3, <1>4, <1>5, <1>6, <1>7, <1>8, <1>9

\* The bytes of the strings: a start, a payload of one byte, an end of two.
LEMMA StringBytes ==
  ASSUME NEW k \in Strings
  PROVE  /\ Size(k) = 5 /\ Bytes[k][1] = "esc" /\ Bytes[k][2] = "_" /\ Bytes[k][4] = "esc" /\ Bytes[k][5] = "st"
         /\ Bytes[k][3] \in {"G", "1", "0"}
         /\ k = "first" => Bytes[k][3] = "1"
         /\ k = "last" => Bytes[k][3] = "0"
         /\ k = "single" => Bytes[k][3] = "G"
<1>1. CASE k = "first"
  BY <1>1 DEF Bytes, Size
<1>2. CASE k = "last"
  BY <1>2 DEF Bytes, Size
<1>3. CASE k = "single"
  BY <1>3 DEF Bytes, Size
<1> QED
  BY <1>1, <1>2, <1>3 DEF Strings

\* What comes into the run of a control sequence.
LEMMA RunGrows ==
  ASSUME NEW taken \in Seq(Nat), NEW w \in Works(taken), NEW f, NEW g, NEW i \in Nat
  PROVE  /\ Ground(w, f, g) => (Len(w.run) >= i => Len(WriteByte(w, "esc").run) >= i + 1)
         /\ InEsc(w, f, g) => (Len(w.run) >= i => Len(WriteByte(w, "[").run) >= i + 1)
         /\ \A n, priv, num : InCSI(w, n, priv, num, f, g) => (Len(w.run) >= i => Len(WriteByte(w, "4").run) >= i + 1)
<1>1. w.scan \in Scan
  BY WorkParts
<1>2. "esc" \in Byte /\ "[" \in Byte /\ "4" \in Byte
  BY DEF Byte
<1>3. ASSUME Ground(w, f, g) PROVE Len(w.run) >= i => Len(WriteByte(w, "esc").run) >= i + 1
  <2>1. Advance(w.scan, "esc").ev = "none" /\ Advance(w.scan, "esc").s.st = "esc"
    BY <1>1, <1>3, AtGround DEF Ground
  <2> QED
    BY <1>2, <2>1, Feeds
<1>4. ASSUME InEsc(w, f, g) PROVE Len(w.run) >= i => Len(WriteByte(w, "[").run) >= i + 1
  <2>1. Advance(w.scan, "[").ev = "none" /\ Advance(w.scan, "[").s.st = "csi"
    BY <1>1, <1>4, AtEsc DEF InEsc
  <2> QED
    BY <1>2, <2>1, Feeds
<1>5. ASSUME NEW n, NEW priv, NEW num, InCSI(w, n, priv, num, f, g)
      PROVE  Len(w.run) >= i => Len(WriteByte(w, "4").run) >= i + 1
  <2>1. Advance(w.scan, "4").ev = "none" /\ Advance(w.scan, "4").s.st = "csi"
    BY <1>1, <1>5, AtCSI DEF InCSI
  <2> QED
    BY <1>2, <2>1, Feeds
<1> QED
  BY <1>3, <1>4, <1>5

\* Where an item that is not complete may be.
LEMMA StageIs ==
  ASSUME NEW w, NEW f, NEW g, NEW k, NEW i \in Nat, Size(k) \in Nat, i < Size(k), Stage(w, k, i, f, g)
  PROVE  /\ i = 0 => Ground(w, f, g)
         /\ i = 1 => \/ k = "wide" /\ InRune(w, f, g)
                     \/ k \in CSIs \cup Strings \cup {"reset"} /\ InEsc(w, f, g)
         /\ i = 2 => \/ k \in CSIs /\ InCSI(w, 2, FALSE, FALSE, f, g)
                     \/ k \in Strings /\ InStr(w, <<>>, f, g)
         /\ i = 3 => \/ k \in {"repeat", "irmOn", "irmOff"} /\ InCSI(w, 3, FALSE, TRUE, f, g)
                     \/ k = "modeOn" /\ InCSI(w, 3, TRUE, FALSE, f, g)
                     \/ k \in Strings /\ InStr(w, <<Bytes[k][3]>>, f, g)
         /\ i = 4 => \/ k = "modeOn" /\ InCSI(w, 4, TRUE, TRUE, f, g)
                     \/ k \in Strings /\ InEnd(w, <<Bytes[k][3]>>, f, g)
         /\ i \in 0 .. 4
<1>1. i # Size(k)
  OBVIOUS
<1>2. i \in {0, 1, 2, 3, 4}
  BY <1>1, Zenon DEF Stage
<1>3. 0 # 1 /\ 0 # 2 /\ 0 # 3 /\ 0 # 4 /\ 1 # 2 /\ 1 # 3 /\ 1 # 4 /\ 2 # 3 /\ 2 # 4 /\ 3 # 4
  OBVIOUS
<1>4. i = 0 => Ground(w, f, g)
  BY <1>1, <1>3, Zenon DEF Stage
<1>5. i = 1 => \/ k = "wide" /\ InRune(w, f, g)
               \/ k \in CSIs \cup Strings \cup {"reset"} /\ InEsc(w, f, g)
  BY <1>1, <1>3, Zenon DEF Stage
<1>6. i = 2 => \/ k \in CSIs /\ InCSI(w, 2, FALSE, FALSE, f, g)
               \/ k \in Strings /\ InStr(w, <<>>, f, g)
  BY <1>1, <1>3, Zenon DEF Stage
<1>7. i = 3 => \/ k \in {"repeat", "irmOn", "irmOff"} /\ InCSI(w, 3, FALSE, TRUE, f, g)
               \/ k = "modeOn" /\ InCSI(w, 3, TRUE, FALSE, f, g)
               \/ k \in Strings /\ InStr(w, <<Bytes[k][3]>>, f, g)
  BY <1>1, <1>3, Zenon DEF Stage
<1>8. i = 4 => \/ k = "modeOn" /\ InCSI(w, 4, TRUE, TRUE, f, g)
               \/ k \in Strings /\ InEnd(w, <<Bytes[k][3]>>, f, g)
  BY <1>1, <1>3, Zenon DEF Stage
<1>9. i \in 0 .. 4
  BY <1>2
<1> QED
  BY <1>4, <1>5, <1>6, <1>7, <1>8, <1>9

\* One byte on.
LEMMA StageStep ==
  ASSUME NEW taken \in Seq(Nat), NEW w \in Works(taken), NEW f \in Refs, NEW g \in Refs,
         NEW k \in (DOMAIN Bytes) \ {"hint"}, NEW i \in Nat, i < Size(k), Stage(w, k, i, f, g),
         k = "repeat" => g.last = Rune.a /\ AllInRun(w, k, i)
  PROVE  LET u == WriteByte(w, Bytes[k][i + 1]) IN
           Stage(u, k, i + 1, f, g) /\ (k = "repeat" => AllInRun(u, k, i + 1))
<1> DEFINE U(b) == WriteByte(w, b)
           Goal(b) == Bytes[k][i + 1] = b /\ Stage(U(b), k, i + 1, f, g) /\ (k = "repeat" => AllInRun(U(b), k, i + 1))
<1> SUFFICES \E b : Goal(b)
  OBVIOUS
<1>0. k \in {"char", "wide", "reset", "save", "query", "repeat", "irmOn", "irmOff", "modeOn"} \cup Strings
  BY DEF Bytes, Strings
<1>1. Size(k) \in Nat /\ Len(w.run) >= 0
  <2>1. Size(k) \in Nat
    <3>1. k \notin Strings => Size(k) \in {1, 2, 3, 4, 5}
      BY <1>0, BytesAre
    <3>2. k \in Strings => Size(k) \in {1, 2, 3, 4, 5}
      BY StringBytes
    <3> HIDE DEF Size
    <3> QED
      BY <3>1, <3>2
  <2> QED
    BY <2>1, SeenTyped
<1>2. /\ i = 0 => Ground(w, f, g)
      /\ i = 1 => \/ k = "wide" /\ InRune(w, f, g)
                  \/ k \in CSIs \cup Strings \cup {"reset"} /\ InEsc(w, f, g)
      /\ i = 2 => \/ k \in CSIs /\ InCSI(w, 2, FALSE, FALSE, f, g)
                  \/ k \in Strings /\ InStr(w, <<>>, f, g)
      /\ i = 3 => \/ k \in {"repeat", "irmOn", "irmOff"} /\ InCSI(w, 3, FALSE, TRUE, f, g)
                  \/ k = "modeOn" /\ InCSI(w, 3, TRUE, FALSE, f, g)
                  \/ k \in Strings /\ InStr(w, <<Bytes[k][3]>>, f, g)
      /\ i = 4 => \/ k = "modeOn" /\ InCSI(w, 4, TRUE, TRUE, f, g)
                  \/ k \in Strings /\ InEnd(w, <<Bytes[k][3]>>, f, g)
      /\ i \in 0 .. 4
  BY <1>1, StageIs
<1>3. k \notin Strings => k \in {"char", "wide", "reset", "save", "query", "repeat", "irmOn", "irmOff", "modeOn"}
  BY <1>0
\* the last byte of an item,
<1>4. ASSUME NEW b, NEW r, r = k, NEW n \in Nat, Size(k) = n, i + 1 = n, Bytes[k][n] = b,
             Ground(U(b), RefItem(f, r), RefItem(g, r))
      PROVE  Goal(b)
  <2> HIDE DEF U
  <2>1. Stage(U(b), k, i + 1, f, g)
    BY <1>4, Zenon DEF Stage
  <2>2. AllInRun(U(b), k, i + 1)
    BY <1>4 DEF AllInRun
  <2> QED
    BY <1>4, <2>1, <2>2
\* and another one.
<1>5. ASSUME NEW b, NEW n \in Nat, i + 1 = n, Bytes[k][n] = b, Stage(U(b), k, n, f, g),
             k = "repeat" /\ Len(w.run) >= i => Len(U(b).run) >= n
      PROVE  Goal(b)
  <2> HIDE DEF U
  <2>1. k = "repeat" => AllInRun(U(b), k, i + 1)
    BY <1>5 DEF AllInRun
  <2> QED
    BY <1>5, <2>1
<1>6. ASSUME k \in CSIs \cup Strings \cup {"reset"}, Bytes[k][1] = "esc", i = 0 PROVE Goal("esc")
  <2>1. InEsc(U("esc"), f, g)
    BY <1>2, <1>6, EscSteps
  <2>2. Len(U("esc").run) >= 1
    <3>1. Ground(w, f, g) /\ 0 \in Nat
      BY <1>2, <1>6
    <3>2. Len(U("esc").run) >= 0 + 1
      BY <1>1, <3>1, RunGrows
    <3> QED
      BY <3>2
  <2> HIDE DEF U
  <2>3. Stage(U("esc"), k, 1, f, g)
    BY <1>6, <2>1, Zenon DEF Stage
  <2> HIDE DEF Goal
  <2> QED
    BY <1>5, <1>6, <2>2, <2>3
<1>7. ASSUME k \in CSIs, Bytes[k][2] = "[", k # "wide", i = 1 PROVE Goal("[")
  <2>1. InEsc(w, f, g) /\ 1 \in Nat /\ 1 + 1 = 2
    BY <1>2, <1>7
  <2>2. InCSI(U("["), 2, FALSE, FALSE, f, g)
    BY <2>1, EscSteps
  <2>3. Len(w.run) >= 1 => Len(U("[").run) >= 2
    <3>1. Len(w.run) >= 1 => Len(U("[").run) >= 1 + 1
      BY <2>1, RunGrows
    <3> QED
      BY <3>1
  <2> HIDE DEF U
  <2>4. Stage(U("["), k, 2, f, g)
    BY <1>7, <2>2, Zenon DEF Stage
  <2> HIDE DEF Goal
  <2> QED
    BY <1>5, <1>7, <2>3, <2>4
<1>8. CASE k = "char"
  <2>1. Size(k) = 1 /\ Bytes[k][1] = "a"
    BY <1>8, BytesAre
  <2>2. i = 0
    BY <2>1
  <2>3. Ground(U("a"), RefItem(f, "char"), RefItem(g, "char"))
    BY <1>2, <2>2, RuneSteps
  <2> HIDE DEF U, Goal
  <2> QED
    BY <1>4, <1>8, <2>1, <2>2, <2>3
<1>9. CASE k = "wide"
  <2>1. Size(k) = 2 /\ Bytes[k][1] = "lead" /\ Bytes[k][2] = "cont"
    BY <1>9, BytesAre
  <2>2. CASE i = 0
    <3>1. InRune(U("lead"), f, g)
      BY <1>2, <2>2, RuneSteps
    <3> HIDE DEF U
    <3>2. Stage(U("lead"), k, 1, f, g)
      BY <1>9, <3>1, Zenon DEF Stage
    <3>3. k # "repeat"
      BY <1>9
    <3> HIDE DEF Goal
    <3> QED
      BY <1>5, <2>1, <2>2, <3>2, <3>3
  <2>3. CASE i = 1
    <3>1. InRune(w, f, g)
      BY <1>2, <1>9, <2>3 DEF CSIs, Strings
    <3>2. Ground(U("cont"), RefItem(f, "wide"), RefItem(g, "wide"))
      BY <3>1, RuneSteps
    <3> HIDE DEF U, Goal
    <3> QED
      BY <1>4, <1>9, <2>1, <2>3, <3>2
  <2> QED
    BY <2>1, <2>2, <2>3
<1>10. CASE k = "reset"
  <2>1. Size(k) = 2 /\ Bytes[k][1] = "esc" /\ Bytes[k][2] = "c"
    BY <1>10, BytesAre
  <2>2. CASE i = 1
    <3>1. InEsc(w, f, g)
      BY <1>2, <1>10, <2>2
    <3>2. Ground(U("c"), RefItem(f, "reset"), RefItem(g, "reset"))
      BY <3>1, ResetStep
    <3> HIDE DEF U, Goal
    <3> QED
      BY <1>4, <1>10, <2>1, <2>2, <3>2
  <2> HIDE DEF Goal
  <2> QED
    BY <1>6, <1>10, <2>1, <2>2
<1>11. CASE k = "save"
  <2>1. Size(k) = 3 /\ Bytes[k][1] = "esc" /\ Bytes[k][2] = "[" /\ Bytes[k][3] = "s" /\ k \in CSIs /\ k \notin Strings
    BY <1>11, BytesAre DEF CSIs, Strings
  <2>2. CASE i = 2
    <3>1. InCSI(w, 2, FALSE, FALSE, f, g)
      BY <1>2, <2>1, <2>2
    <3>2. Ground(U("s"), RefItem(f, "save"), RefItem(g, "save"))
      BY <3>1, SaveStep
    <3> HIDE DEF U, Goal
    <3> QED
      BY <1>4, <1>11, <2>1, <2>2, <3>2
  <2> HIDE DEF Goal
  <2> QED
    BY <1>6, <1>7, <1>11, <2>1, <2>2
<1>12. CASE k = "query"
  <2>1. Size(k) = 3 /\ Bytes[k][1] = "esc" /\ Bytes[k][2] = "[" /\ Bytes[k][3] = "n" /\ k \in CSIs /\ k \notin Strings
    BY <1>12, BytesAre DEF CSIs, Strings
  <2>2. CASE i = 2
    <3>1. InCSI(w, 2, FALSE, FALSE, f, g)
      BY <1>2, <2>1, <2>2
    <3>2. Ground(U("n"), RefItem(f, "query"), RefItem(g, "query"))
      BY <3>1, ModeSteps
    <3> HIDE DEF U, Goal
    <3> QED
      BY <1>4, <1>12, <2>1, <2>2, <3>2
  <2> HIDE DEF Goal
  <2> QED
    BY <1>6, <1>7, <1>12, <2>1, <2>2
<1>13. ASSUME k \in {"repeat", "irmOn", "irmOff"}, Bytes[k][3] = "4", i = 2 PROVE Goal("4")
  <2>0. 2 \in Nat /\ 2 + 1 = 3 /\ k \notin Strings
    BY <1>13 DEF Strings
  <2>1. InCSI(w, 2, FALSE, FALSE, f, g)
    BY <1>2, <1>13, <2>0
  <2>2. InCSI(U("4"), 2 + 1, FALSE, TRUE, f, g) /\ (Len(w.run) >= 2 => Len(U("4").run) >= 2 + 1)
    BY <2>0, <2>1, ParamSteps, RunGrows
  <2>3. InCSI(U("4"), 3, FALSE, TRUE, f, g) /\ (Len(w.run) >= 2 => Len(U("4").run) >= 3)
    BY <2>0, <2>2
  <2> HIDE DEF U
  <2>4. Stage(U("4"), k, 3, f, g)
    BY <1>13, <2>3, Zenon DEF Stage
  <2> HIDE DEF Goal
  <2> QED
    BY <1>5, <1>13, <2>3, <2>4
<1>14. CASE k = "repeat"
  <2>1. /\ Size(k) = 4 /\ Bytes[k][1] = "esc" /\ Bytes[k][2] = "[" /\ Bytes[k][3] = "4" /\ Bytes[k][4] = "b"
        /\ k \in CSIs /\ k \notin Strings
    BY <1>14, BytesAre DEF CSIs, Strings
  <2>2. CASE i = 3
    <3>1. InCSI(w, 3, FALSE, TRUE, f, g) /\ 3 \in Nat
      BY <1>2, <1>14, <2>1, <2>2
    <3>2. g.last = Rune.a /\ Len(w.run) >= 3
      BY <1>14, <2>1, <2>2 DEF AllInRun
    <3>3. Ground(U("b"), RefItem(f, "repeat"), RefItem(g, "repeat"))
      BY <3>1, <3>2, RepeatStep
    <3> HIDE DEF U, Goal
    <3> QED
      BY <1>4, <1>14, <2>1, <2>2, <3>3
  <2> HIDE DEF Goal
  <2> QED
    BY <1>6, <1>7, <1>13, <1>14, <2>1, <2>2
<1>15. CASE k \in {"irmOn", "irmOff"}
  <2> DEFINE e == IF k = "irmOn" THEN "h" ELSE "l"
  <2>1. /\ Size(k) = 4 /\ Bytes[k][1] = "esc" /\ Bytes[k][2] = "[" /\ Bytes[k][3] = "4"
        /\ k \in CSIs /\ k \notin Strings
    BY <1>15, BytesAre DEF CSIs, Strings
  <2>2. CASE i = 3
    <3>1. InCSI(w, 3, FALSE, TRUE, f, g) /\ 3 \in Nat
      BY <1>2, <1>15, <2>1, <2>2
    <3>2. /\ Ground(U("h"), RefItem(f, "irmOn"), RefItem(g, "irmOn"))
          /\ Ground(U("l"), RefItem(f, "irmOff"), RefItem(g, "irmOff"))
      BY <3>1, ModeSteps
    <3>3. Bytes["irmOn"][4] = "h" /\ Bytes["irmOff"][4] = "l"
      BY BytesAre
    <3> HIDE DEF U, Goal
    <3>4. CASE k = "irmOn"
      BY <1>4, <2>1, <2>2, <3>2, <3>3, <3>4
    <3>5. CASE k = "irmOff"
      BY <1>4, <2>1, <2>2, <3>2, <3>3, <3>5
    <3> QED
      BY <1>15, <3>4, <3>5
  <2> HIDE DEF Goal
  <2> QED
    BY <1>6, <1>7, <1>13, <1>15, <2>1, <2>2
<1>16. CASE k = "modeOn"
  <2>1. /\ Size(k) = 5 /\ Bytes[k][1] = "esc" /\ Bytes[k][2] = "[" /\ Bytes[k][3] = "?" /\ Bytes[k][4] = "4"
        /\ Bytes[k][5] = "h" /\ k \in CSIs /\ k \notin Strings /\ k # "repeat"
    BY <1>16, BytesAre DEF CSIs, Strings
  <2>2. CASE i = 2
    <3>0. 2 \in Nat /\ 2 + 1 = 3
      OBVIOUS
    <3>1. InCSI(w, 2, FALSE, FALSE, f, g)
      BY <1>2, <2>1, <2>2
    <3>2. InCSI(U("?"), 2 + 1, TRUE, FALSE, f, g)
      BY <3>0, <3>1, ParamSteps
    <3>3. InCSI(U("?"), 3, TRUE, FALSE, f, g)
      BY <3>0, <3>2
    <3> HIDE DEF U
    <3>4. Stage(U("?"), k, 3, f, g)
      BY <1>16, <3>3, Zenon DEF Stage
    <3> HIDE DEF Goal
    <3> QED
      BY <1>5, <2>1, <2>2, <3>4
  <2>3. CASE i = 3
    <3>0. 3 \in Nat /\ 3 + 1 = 4
      OBVIOUS
    <3>1. InCSI(w, 3, TRUE, FALSE, f, g)
      BY <1>2, <1>16, <2>1, <2>3
    <3>2. InCSI(U("4"), 3 + 1, TRUE, TRUE, f, g)
      BY <3>0, <3>1, ParamSteps
    <3>3. InCSI(U("4"), 4, TRUE, TRUE, f, g)
      BY <3>0, <3>2
    <3> HIDE DEF U
    <3>4. Stage(U("4"), k, 4, f, g)
      BY <1>16, <3>3, Zenon DEF Stage
    <3> HIDE DEF Goal
    <3> QED
      BY <1>5, <2>1, <2>3, <3>4
  <2>4. CASE i = 4
    <3>1. InCSI(w, 4, TRUE, TRUE, f, g) /\ 4 \in Nat
      BY <1>2, <2>1, <2>4
    <3>2. Ground(U("h"), RefItem(f, "modeOn"), RefItem(g, "modeOn"))
      BY <3>1, ModeSteps
    <3> HIDE DEF U, Goal
    <3> QED
      BY <1>4, <1>16, <2>1, <2>4, <3>2
  <2>5. i \in {0, 1, 2, 3, 4}
    BY <2>1
  <2> HIDE DEF Goal, Size
  <2> QED
    BY <1>6, <1>7, <1>16, <2>1, <2>2, <2>3, <2>4, <2>5
<1>17. CASE k \in Strings
  <2> DEFINE c == Bytes[k][3]
             buf == <<c>>
  <2>1. /\ Size(k) = 5 /\ Bytes[k][1] = "esc" /\ Bytes[k][2] = "_" /\ Bytes[k][4] = "esc" /\ Bytes[k][5] = "st"
        /\ c \in {"G", "1", "0"}
    BY <1>17, StringBytes
  <2>2. k # "repeat" /\ k \notin CSIs /\ k # "wide" /\ k # "modeOn" /\ k \notin {"repeat", "irmOn", "irmOff"}
    BY <1>17 DEF CSIs, Strings
  <2>3. CASE i = 1
    <3>1. InEsc(w, f, g)
      BY <1>2, <2>2, <2>3
    <3>2. InStr(U("_"), <<>>, f, g)
      BY <3>1, EscSteps
    <3> HIDE DEF U
    <3>3. Stage(U("_"), k, 2, f, g)
      BY <1>17, <3>2, Zenon DEF Stage
    <3> HIDE DEF Goal
    <3>4. i + 1 = 2 /\ 2 \in Nat
      BY <2>3
    <3> QED
      BY <1>5, <2>1, <2>2, <3>3, <3>4
  <2>4. CASE i = 2
    <3>1. InStr(w, <<>>, f, g)
      BY <1>2, <2>2, <2>4
    <3> HIDE DEF c
    <3>2. InStr(U(c), Append(<<>>, c), f, g)
      BY <2>1, <3>1, StringSteps
    <3>3. Append(<<>>, c) = buf
      OBVIOUS
    <3> HIDE DEF U
    <3>4. InStr(U(c), buf, f, g)
      BY <3>2, <3>3
    <3>5. Stage(U(c), k, 3, f, g)
      BY <1>17, <3>4, Zenon DEF Stage, c
    <3>6. Bytes[k][3] = c
      BY DEF c
    <3> HIDE DEF Goal
    <3> QED
      BY <1>5, <2>2, <2>4, <3>5, <3>6
  <2>5. CASE i = 3
    <3>1. InStr(w, buf, f, g)
      BY <1>2, <2>2, <2>5
    <3> HIDE DEF buf
    <3>2. InEnd(U("esc"), buf, f, g)
      BY <3>1, StringSteps
    <3> HIDE DEF U
    <3>3. Stage(U("esc"), k, 4, f, g)
      BY <1>17, <3>2, Zenon DEF Stage, buf
    <3> HIDE DEF Goal
    <3>4. i + 1 = 4 /\ 4 \in Nat
      BY <2>5
    <3> QED
      BY <1>5, <2>1, <2>2, <3>3, <3>4
  <2>6. CASE i = 4
    <3>1. InEnd(w, buf, f, g)
      BY <1>2, <2>2, <2>6
    <3>2. /\ k = "first" => buf = <<"1">>
          /\ k = "last" => buf = <<"0">>
          /\ k = "single" => buf = <<"G">>
      BY <1>17, StringBytes
    <3> HIDE DEF buf
    <3>3. Ground(U("st"), RefItem(f, k), RefItem(g, k))
      <4>1. CASE k = "first"
        BY <3>1, <3>2, <4>1, StringSteps
      <4>2. CASE k = "last"
        BY <3>1, <3>2, <4>2, StringSteps
      <4>3. CASE k = "single"
        BY <3>1, <3>2, <4>3, StringSteps
      <4> QED
        BY <1>17, <4>1, <4>2, <4>3 DEF Strings
    <3> HIDE DEF U, Goal, Size
    <3>4. i + 1 = 5 /\ 5 \in Nat
      BY <2>6
    <3> QED
      BY <1>4, <2>1, <3>3, <3>4
  <2>7. i \in {0, 1, 2, 3, 4}
    <3>1. Size(k) = 5
      BY <2>1
    <3> QED
      BY <3>1
  <2> HIDE DEF Goal, Size, c, buf
  <2> QED
    BY <1>6, <1>17, <2>1, <2>3, <2>4, <2>5, <2>6, <2>7
<1> HIDE DEF Goal
<1> QED
  BY <1>3, <1>8, <1>9, <1>10, <1>11, <1>12, <1>14, <1>15, <1>16, <1>17

-----------------------------------------------------------------------------
(* Chunks.                                                                  *)

\* Write goes on with the second part where it left the first.
LEMMA WriteBoth ==
  ASSUME NEW taken \in Seq(Nat), NEW w \in Works(taken), NEW a \in Tokens, NEW b \in Tokens
  PROVE  Along(WriteByte, w, a \o b) = Along(WriteByte, Along(WriteByte, w, a), b)
<1> DEFINE n == Len(a)
           m == Len(b)
           c == a \o b
           u == Along(WriteByte, w, a)
<1>1. /\ n \in Nat /\ m \in Nat /\ c \in Tokens /\ Len(c) = n + m
      /\ (\A x \in 1 .. n : c[x] = a[x]) /\ (\A x \in 1 .. m : c[n + x] = b[x])
  BY DEF Tokens
<1>2. u \in Works(taken)
  BY WriteStays
<1> HIDE DEF c, u
<1>3. PICK h : h \in WriteRun(taken, w, c)
  BY <1>1, WriteRuns
<1>4. PICK h1 : h1 \in WriteRun(taken, w, a)
  BY WriteRuns
<1>5. PICK h2 : h2 \in WriteRun(taken, u, b)
  BY <1>2, WriteRuns
<1>6. /\ h[0] = w /\ (\A x \in 1 .. n + m : h[x] = WriteByte(h[x - 1], c[x])) /\ Along(WriteByte, w, c) = h[n + m]
  BY <1>1, <1>3, Zenon DEF WriteRun
<1>7. /\ h1[0] = w /\ (\A x \in 1 .. n : h1[x] = WriteByte(h1[x - 1], a[x])) /\ u = h1[n]
  BY <1>4, Zenon DEF WriteRun, u
<1>8. /\ h2[0] = u /\ (\A x \in 1 .. m : h2[x] = WriteByte(h2[x - 1], b[x])) /\ Along(WriteByte, u, b) = h2[m]
  BY <1>5, Zenon DEF WriteRun
<1> HIDE DEF n, m
<1>9. \A x \in Nat : x <= n => h[x] = h1[x]
  <2> DEFINE S == {x \in Nat : x <= n => h[x] = h1[x]}
  <2>1. 0 \in S
    BY <1>6, <1>7
  <2>2. ASSUME NEW x \in Nat, x \in S PROVE x + 1 \in S
    <3> SUFFICES ASSUME x + 1 <= n PROVE h[x + 1] = h1[x + 1]
      OBVIOUS
    <3>1. x <= n /\ x + 1 \in 1 .. n /\ x + 1 \in 1 .. n + m /\ (x + 1) - 1 = x
      BY <1>1
    <3> QED
      BY <1>1, <1>6, <1>7, <2>2, <3>1
  <2> HIDE DEF S
  <2>3. \A x \in Nat : x \in S
    BY <2>1, <2>2, Climb
  <2> QED
    BY <2>3 DEF S
<1>10. \A x \in Nat : x <= m => h[n + x] = h2[x]
  <2> DEFINE S == {x \in Nat : x <= m => h[n + x] = h2[x]}
  <2>1. 0 \in S
    BY <1>1, <1>7, <1>8, <1>9
  <2>2. ASSUME NEW x \in Nat, x \in S PROVE x + 1 \in S
    <3> SUFFICES ASSUME x + 1 <= m PROVE h[n + (x + 1)] = h2[x + 1]
      OBVIOUS
    <3>1. x <= m /\ x + 1 \in 1 .. m /\ n + (x + 1) \in 1 .. n + m /\ (x + 1) - 1 = x /\ (n + (x + 1)) - 1 = n + x
      BY <1>1
    <3> QED
      BY <1>1, <1>6, <1>8, <2>2, <3>1
  <2> HIDE DEF S
  <2>3. \A x \in Nat : x \in S
    BY <2>1, <2>2, Climb
  <2> QED
    BY <2>3 DEF S
<1>11. Along(WriteByte, w, c) = Along(WriteByte, u, b)
  BY <1>1, <1>6, <1>8, <1>10
<1> QED
  BY <1>11 DEF c, u

\* Nothing to read.
LEMMA WriteNone ==
  ASSUME NEW taken \in Seq(Nat), NEW w \in Works(taken)
  PROVE  Along(WriteByte, w, <<>>) = w
<1>1. <<>> \in Tokens /\ Len(<<>>) = 0
  BY RowsOfBytes
<1>2. PICK h : h \in WriteRun(taken, w, <<>>)
  BY <1>1, WriteRuns
<1>3. h[0] = w /\ Along(WriteByte, w, <<>>) = h[Len(<<>>)]
  BY <1>2, Zenon DEF WriteRun
<1> QED
  BY <1>1, <1>3

\* A read takes an item from one place in it to another.
LEMMA Reads ==
  ASSUME NEW taken \in Seq(Nat), NEW w \in Works(taken), NEW f \in Refs, NEW g \in Refs,
         NEW k \in (DOMAIN Bytes) \ {"hint"}, NEW i \in Nat, NEW j \in Nat, i <= j, j <= Size(k), Stage(w, k, i, f, g),
         k = "repeat" => g.last = Rune.a /\ AllInRun(w, k, i)
  PROVE  LET u == Along(WriteByte, w, SubSeq(Bytes[k], i + 1, j)) IN u \in Works(taken) /\ Stage(u, k, j, f, g)
<1> DEFINE all == Bytes[k]
           p == SubSeq(all, i + 1, j)
           n == j - i
<1>1. all \in Tokens /\ Len(all) = Size(k) /\ Size(k) \in Nat
  <2>1. all \in Tokens /\ Len(all) = Size(k)
    BY BytesTyped DEF Size
  <2> HIDE DEF all
  <2> QED
    BY <2>1 DEF Tokens
<1> HIDE DEF all
<1>2. p \in Tokens /\ Len(p) = n /\ n \in Nat /\ \A x \in 1 .. n : p[x] = all[i + x]
  BY <1>1 DEF Tokens
<1> HIDE DEF p
<1>3. PICK h : h \in WriteRun(taken, w, p)
  BY <1>2, WriteRuns
<1>4. h \in [0 .. n -> Works(taken)] /\ h[0] = w /\ (\A x \in 1 .. n : h[x] = WriteByte(h[x - 1], p[x])) /\ Along(WriteByte, w, p) = h[n]
  <2> HIDE DEF n
  <2> QED
    BY <1>2, <1>3, Zenon DEF WriteRun
<1> DEFINE Held(x) == Stage(h[x], k, i + x, f, g) /\ (k = "repeat" => AllInRun(h[x], k, i + x))
           S == {x \in Nat : x <= n => Held(x)}
<1>5. 0 \in S
  <2>1. i + 0 = i
    OBVIOUS
  <2> QED
    BY <1>4, <2>1
<1>6. ASSUME NEW x \in Nat, x \in S PROVE x + 1 \in S
  <2> SUFFICES ASSUME x + 1 <= n PROVE Held(x + 1)
    OBVIOUS
  <2> DEFINE v == h[x]
             y == i + x
  <2>1. x <= n /\ x + 1 \in 1 .. n /\ (x + 1) - 1 = x /\ y \in Nat /\ y < Size(k) /\ y + 1 = i + (x + 1) /\ x \in 0 .. n
    BY <1>1, <1>2
  <2>2. v \in Works(taken) /\ Stage(v, k, y, f, g) /\ (k = "repeat" => AllInRun(v, k, y))
    <3>1. Held(x)
      BY <1>6, <2>1
    <3>2. v \in Works(taken)
      <4> HIDE DEF n, Held, S
      <4> QED
        BY <1>4, <2>1
    <3> QED
      BY <3>1, <3>2
  <2>3. h[x + 1] = WriteByte(v, all[y + 1])
    <3>1. h[x + 1] = WriteByte(h[x], p[x + 1]) /\ p[x + 1] = all[i + (x + 1)]
      <4> HIDE DEF n, Held, S
      <4> QED
        BY <1>2, <1>4, <2>1
    <3> QED
      BY <2>1, <3>1
  <2> HIDE DEF v, y, n, S
  <2>4. LET u == WriteByte(v, Bytes[k][y + 1]) IN Stage(u, k, y + 1, f, g) /\ (k = "repeat" => AllInRun(u, k, y + 1))
    BY <2>1, <2>2, StageStep
  <2>5. Stage(h[x + 1], k, y + 1, f, g) /\ (k = "repeat" => AllInRun(h[x + 1], k, y + 1))
    BY <2>3, <2>4 DEF all
  <2> QED
    BY <2>1, <2>5
<1>7. \A x \in Nat : x \in S
  <2> HIDE DEF S
  <2> QED
    BY <1>5, <1>6, Climb
<1>8. Held(n) /\ i + n = j /\ n \in 0 .. n
  BY <1>2, <1>7
<1>9. h[n] \in Works(taken)
  <2> HIDE DEF n, Held
  <2> QED
    BY <1>4, <1>8
<1> QED
  BY <1>4, <1>8, <1>9 DEF p, all

\* The first elements of a row.
LEMMA ThoseFirst ==
  ASSUME NEW E, NEW s \in Seq(E), NEW m \in 0 .. Len(s)
  PROVE  Those(s, 1 .. m) = SubSeq(s, 1, m)
<1> DEFINE n == Len(s)
           at == 1 .. m
<1>1. n \in Nat /\ m \in Nat /\ m <= n /\ at \in SUBSET (1 .. n)
  OBVIOUS
<1>2. PICK h : h \in Grows(E, s, at)
  BY <1>1, ThoseGrow
<1>3. /\ h[0] = <<>>
      /\ \A i \in 1 .. n : h[i] = IF i \in at THEN Append(h[i - 1], s[i]) ELSE h[i - 1]
      /\ Those(s, at) = h[n]
  <2> HIDE DEF n, at
  <2> QED
    BY <1>2 DEF Grows, n
<1> DEFINE S == {i \in Nat : i <= n => h[i] = SubSeq(s, 1, IF i <= m THEN i ELSE m)}
<1>4. 0 \in S
  <2>1. SubSeq(s, 1, 0) = <<>> /\ (IF 0 <= m THEN 0 ELSE m) = 0
    BY <1>1
  <2> QED
    BY <1>3, <2>1
<1>5. ASSUME NEW i \in Nat, i \in S PROVE i + 1 \in S
  <2> SUFFICES ASSUME i + 1 <= n PROVE h[i + 1] = SubSeq(s, 1, IF i + 1 <= m THEN i + 1 ELSE m)
    OBVIOUS
  <2>1. i + 1 \in 1 .. n /\ (i + 1) - 1 = i /\ h[i] = SubSeq(s, 1, IF i <= m THEN i ELSE m)
    BY <1>1, <1>5
  <2>2. CASE i + 1 <= m
    <3>1. h[i + 1] = Append(SubSeq(s, 1, i), s[i + 1])
      <4>1. i + 1 \in at /\ i <= m
        BY <1>1, <2>2
      <4> HIDE DEF at, S
      <4> QED
        BY <1>3, <2>1, <4>1
    <3>2. SubSeq(s, 1, i + 1) = Append(SubSeq(s, 1, i), s[i + 1])
      BY <1>1, <2>1
    <3> QED
      BY <2>2, <3>1, <3>2
  <2>3. CASE ~(i + 1 <= m)
    <3>1. i + 1 \notin at /\ (IF i <= m THEN i ELSE m) = m
      BY <1>1, <2>3
    <3> HIDE DEF at, S
    <3> QED
      BY <1>3, <2>1, <2>3, <3>1
  <2> QED
    BY <2>2, <2>3
<1>6. \A i \in Nat : i \in S
  <2> HIDE DEF S
  <2> QED
    BY <1>4, <1>5, Climb
<1>7. h[n] = SubSeq(s, 1, m)
  BY <1>1, <1>6
<1> QED
  BY <1>3, <1>7

\* No byte of a placeholder.
Clean(p) == \A i \in 1 .. Len(p) : p[i] # "ph1" /\ p[i] # "ph2"

\* Nothing is stripped where there is no placeholder, and a whole one at the end is.
LEMMA StrippedOf ==
  ASSUME NEW p \in Tokens, Clean(p)
  PROVE  /\ Stripped(p) = p
         /\ Stripped(p \o <<"ph1", "ph2">>) = p
<1>1. Stripped(p) = p
  <2> DEFINE Gone(i) == \/ p[i] = "ph1" /\ i < Len(p) /\ p[i+1] = "ph2"
                        \/ p[i] = "ph2" /\ i > 1 /\ p[i-1] = "ph1"
             at == {i \in 1 .. Len(p) : ~Gone(i)}
  <2>1. at = 1 .. Len(p)
    BY DEF Clean
  <2>2. Stripped(p) = Those(p, 1 .. Len(p))
    BY <2>1 DEF Stripped
  <2>3. p \in Seq(Byte) /\ Len(p) \in 0 .. Len(p) /\ SubSeq(p, 1, Len(p)) = p
    BY DEF Tokens
  <2> HIDE DEF at
  <2>4. Those(p, 1 .. Len(p)) = SubSeq(p, 1, Len(p))
    BY <2>3, ThoseFirst
  <2> QED
    BY <2>2, <2>3, <2>4
<1>2. Stripped(p \o <<"ph1", "ph2">>) = p
  <2> DEFINE q == p \o <<"ph1", "ph2">>
             n == Len(p)
             Gone(i) == \/ q[i] = "ph1" /\ i < Len(q) /\ q[i+1] = "ph2"
                        \/ q[i] = "ph2" /\ i > 1 /\ q[i-1] = "ph1"
             at == {i \in 1 .. Len(q) : ~Gone(i)}
  <2>1. /\ q \in Seq(Byte) /\ n \in Nat /\ Len(q) = n + 2 /\ n \in 0 .. Len(q)
        /\ (\A i \in 1 .. n : q[i] = p[i]) /\ q[n + 1] = "ph1" /\ q[n + 2] = "ph2"
    <3>0. "ph1" \in Byte /\ "ph2" \in Byte
      BY DEF Byte
    <3>1. p \in Seq(Byte) /\ <<"ph1", "ph2">> \in Seq(Byte) /\ n \in Nat
      BY <3>0 DEF Tokens
    <3> QED
      BY <3>1
  <2>2. SubSeq(q, 1, n) = p
    BY <2>1 DEF Tokens
  <2> HIDE DEF q
  <2>3. at = 1 .. n
    <3>1. Gone(n + 1) /\ Gone(n + 2)
      <4>1. n + 1 < Len(q) /\ (n + 1) + 1 = n + 2 /\ n + 2 > 1 /\ (n + 2) - 1 = n + 1
        BY <2>1
      <4> QED
        BY <2>1, <4>1
    <3>2. ASSUME NEW i \in 1 .. n PROVE ~Gone(i)
      BY <2>1 DEF Clean
    <3>3. \A i \in 1 .. Len(q) : i \in 1 .. n \/ i = n + 1 \/ i = n + 2
      BY <2>1
    <3>4. \A i \in 1 .. n : i \in 1 .. Len(q)
      BY <2>1
    <3> HIDE DEF Gone, n
    <3> QED
      BY <3>1, <3>2, <3>3, <3>4
  <2>4. Stripped(q) = Those(q, 1 .. n)
    BY <2>3 DEF Stripped
  <2> HIDE DEF at
  <2>5. Those(q, 1 .. n) = SubSeq(q, 1, n)
    BY <2>1, ThoseFirst
  <2> QED
    BY <2>2, <2>4, <2>5 DEF q
<1> QED
  BY <1>1, <1>2

\* u is at the same place of an item as w: what the place depends on is as it was, and what
\* could be taken out of the run either still can, or has left it.
LEMMA StageOf ==
  ASSUME NEW w, NEW u, u.modes = w.modes, u.pics = w.pics, u.pending = w.pending, Seen(u) = Seen(w),
         \A x \in {"st", "priv", "num", "len", "lead", "last", "insert", "buf"} : u.scan[x] = w.scan[x],
         \A i \in {1, 2, 3, 4} : \/ Before(u, i) = Before(w, i) /\ Len(u.run) = Len(w.run)
                                 \/ Before(u, i) = Seen(w) /\ ~(Len(u.run) >= i)
  PROVE  /\ \A f, g : Ground(w, f, g) => Ground(u, f, g)
         /\ \A f, g, k, i : Stage(w, k, i, f, g) /\ i # Size(k) => Stage(u, k, i, f, g)
<1>1. /\ u.scan.st = w.scan.st /\ u.scan.priv = w.scan.priv /\ u.scan.num = w.scan.num /\ u.scan.len = w.scan.len
      /\ u.scan.lead = w.scan.lead /\ u.scan.last = w.scan.last /\ u.scan.insert = w.scan.insert /\ u.scan.buf = w.scan.buf
  OBVIOUS
<1>2. ASSUME NEW f, NEW g
      PROVE  /\ Same(w, f, g) => Same(u, f, g)
             /\ \A i \in {1, 2, 3, 4}, st \in {"esc", "csi"} :
                  Shows(Seen(w), st, f) /\ Cuttable(w, i, f) => Cuttable(u, i, f)
  <2>1. Same(w, f, g) => Same(u, f, g)
    BY <1>1 DEF Same
  <2>2. ASSUME NEW i \in {1, 2, 3, 4}, NEW st \in {"esc", "csi"}, Shows(Seen(w), st, f), Cuttable(w, i, f)
        PROVE  Cuttable(u, i, f)
    <3>1. CASE Before(u, i) = Before(w, i) /\ Len(u.run) = Len(w.run)
      BY <2>2, <3>1 DEF Cuttable
    <3>2. CASE Before(u, i) = Seen(w) /\ ~(Len(u.run) >= i)
      BY <2>2, <3>2 DEF Cuttable, Shows
    <3> QED
      BY <3>1, <3>2
  <2> QED
    BY <2>1, <2>2
<1>3. ASSUME NEW f, NEW g
      PROVE  /\ Ground(w, f, g) => Ground(u, f, g)
             /\ InRune(w, f, g) => InRune(u, f, g)
             /\ InEsc(w, f, g) => InEsc(u, f, g)
             /\ \A buf : InStr(w, buf, f, g) => InStr(u, buf, f, g)
             /\ \A buf : InEnd(w, buf, f, g) => InEnd(u, buf, f, g)
             /\ \A i \in {2, 3, 4} : \A priv, num : InCSI(w, i, priv, num, f, g) => InCSI(u, i, priv, num, f, g)
  <2>1. Ground(w, f, g) => Ground(u, f, g)
    BY <1>1, <1>2 DEF Ground
  <2>2. InRune(w, f, g) => InRune(u, f, g)
    BY <1>1, <1>2 DEF InRune
  <2>3. InEsc(w, f, g) => InEsc(u, f, g)
    BY <1>1, <1>2 DEF InEsc
  <2>4. \A buf : InStr(w, buf, f, g) => InStr(u, buf, f, g)
    BY <1>1, <1>2 DEF InStr
  <2>5. \A buf : InEnd(w, buf, f, g) => InEnd(u, buf, f, g)
    BY <1>1, <1>2 DEF InEnd
  <2>6. ASSUME NEW i \in {2, 3, 4}, NEW priv, NEW num, InCSI(w, i, priv, num, f, g) PROVE InCSI(u, i, priv, num, f, g)
    BY <1>1, <1>2, <2>6 DEF InCSI
  <2> QED
    BY <2>1, <2>2, <2>3, <2>4, <2>5, <2>6
<1>4. ASSUME NEW f, NEW g, NEW k, NEW i, Stage(w, k, i, f, g), i # Size(k) PROVE Stage(u, k, i, f, g)
  <2>1. 2 \in {2, 3, 4} /\ 3 \in {2, 3, 4} /\ 4 \in {2, 3, 4}
    OBVIOUS
  <2>2. /\ InCSI(w, 2, FALSE, FALSE, f, g) => InCSI(u, 2, FALSE, FALSE, f, g)
        /\ InCSI(w, 3, FALSE, TRUE, f, g) => InCSI(u, 3, FALSE, TRUE, f, g)
        /\ InCSI(w, 3, TRUE, FALSE, f, g) => InCSI(u, 3, TRUE, FALSE, f, g)
        /\ InCSI(w, 4, TRUE, TRUE, f, g) => InCSI(u, 4, TRUE, TRUE, f, g)
    BY <1>3, <2>1, Zenon
  <2>3. /\ InStr(w, <<>>, f, g) => InStr(u, <<>>, f, g)
        /\ InStr(w, <<Bytes[k][3]>>, f, g) => InStr(u, <<Bytes[k][3]>>, f, g)
        /\ InEnd(w, <<Bytes[k][3]>>, f, g) => InEnd(u, <<Bytes[k][3]>>, f, g)
    BY <1>3, Zenon
  <2>4. (Ground(w, f, g) => Ground(u, f, g)) /\ (InRune(w, f, g) => InRune(u, f, g)) /\ (InEsc(w, f, g) => InEsc(u, f, g))
    BY <1>3, Zenon
  <2> QED
    BY <1>4, <2>2, <2>3, <2>4, Zenon DEF Stage
<1> QED
  BY <1>3, <1>4

\* Handing the run over changes no place.
LEMMA FlushStage ==
  ASSUME NEW taken \in Seq(Nat), NEW w \in Works(taken)
  PROVE  /\ \A f, g : Ground(w, f, g) => Ground(Flush(w), f, g)
         /\ \A f, g, k, i : Stage(w, k, i, f, g) /\ i # Size(k) => Stage(Flush(w), k, i, f, g)
<1> DEFINE u == Flush(w)
<1>1. u.run = <<>> /\ u.scan = w.scan /\ Beside(u, w) /\ Seen(u) = Seen(w) /\ \A i \in Nat : Before(u, i) = Seen(w)
  BY FlushSeen
<1> HIDE DEF u
<1>2. u.modes = w.modes /\ u.pics = w.pics /\ u.pending = w.pending
  BY <1>1 DEF Beside
<1>3. \A i \in {1, 2, 3, 4} : Before(u, i) = Seen(w) /\ ~(Len(u.run) >= i)
  BY <1>1
<1>4. \A x \in {"st", "priv", "num", "len", "lead", "last", "insert", "buf"} : u.scan[x] = w.scan[x]
  BY <1>1
<1>5. /\ \A f, g : Ground(w, f, g) => Ground(u, f, g)
      /\ \A f, g, k, i : Stage(w, k, i, f, g) /\ i # Size(k) => Stage(u, k, i, f, g)
  BY <1>1, <1>2, <1>3, <1>4, StageOf
<1> QED
  BY <1>5 DEF u

\* Neither do the answers, or the queries the scanner counts.
LEMMA StageAlike ==
  ASSUME NEW w, NEW u, u.vt = w.vt, u.run = w.run, u.modes = w.modes, u.pics = w.pics, u.pending = w.pending,
         \A x \in {"st", "priv", "num", "len", "lead", "last", "insert", "buf"} : u.scan[x] = w.scan[x]
  PROVE  /\ \A f, g : Ground(w, f, g) => Ground(u, f, g)
         /\ \A f, g, k, i : Stage(w, k, i, f, g) /\ i # Size(k) => Stage(u, k, i, f, g)
<1>1. Seen(u) = Seen(w)
  BY DEF Seen
<1>2. \A i \in {1, 2, 3, 4} : Before(u, i) = Before(w, i) /\ Len(u.run) = Len(w.run)
  BY DEF Before
<1> QED
  BY <1>1, <1>2, StageOf

\* The reference is typed.
LEMMA RefIn ==
  ASSUME NEW S, NEW items \in Seq(S)
  PROVE  Reference(items) \in Refs
<1> DEFINE n == Len(items)
<1>1. n \in Nat
  OBVIOUS
<1>2. PICK h : h \in RefRun(items)
  BY RefRuns
<1>3. h \in [0 .. n -> Refs] /\ Reference(items) = h[n]
  BY <1>2, Zenon DEF RefRun
<1> HIDE DEF n
<1> QED
  BY <1>1, <1>3

Since(items, base) == SubSeq(items, base + 1, Len(items))

\* One more item, and none.
LEMMA SinceMore ==
  ASSUME NEW S, NEW items \in Seq(S), NEW k \in S, NEW base \in 0 .. Len(items)
  PROVE  /\ Since(items, base) \in Seq(S)
         /\ Since(Append(items, k), base) = Append(Since(items, base), k)
         /\ Since(items, Len(items)) = <<>>
<1> DEFINE n == Len(items)
           more == Append(items, k)
<1>1. n \in Nat /\ more \in Seq(S) /\ Len(more) = n + 1 /\ more[n + 1] = k /\ \A i \in 1 .. n : more[i] = items[i]
  OBVIOUS
<1>2. SubSeq(items, base + 1, n) \in Seq(S) /\ SubSeq(items, n + 1, n) = <<>>
  OBVIOUS
<1> HIDE DEF more
<1>3. SubSeq(more, base + 1, n + 1) = Append(SubSeq(more, base + 1, n), more[n + 1])
  <2> DEFINE a == SubSeq(more, base + 1, n + 1)
             b == SubSeq(more, base + 1, n)
             m == n - base
  <2>1. /\ a \in Seq(S) /\ Len(a) = m + 1 /\ (\A i \in 1 .. m + 1 : a[i] = more[base + i])
        /\ b \in Seq(S) /\ Len(b) = m /\ (\A i \in 1 .. m : b[i] = more[base + i]) /\ m \in Nat
        /\ base + (m + 1) = n + 1 /\ more[n + 1] \in S
    BY <1>1
  <2> HIDE DEF a, b, m
  <2>2. PICK c \in S : c = more[n + 1]
    BY <2>1
  <2>3. a[m + 1] = c /\ \A i \in 1 .. m : a[i] = b[i]
    <3> HIDE DEF n
    <3>1. m + 1 \in 1 .. m + 1 /\ \A i \in 1 .. m : i \in 1 .. m + 1
      BY <2>1
    <3>2. a[m + 1] = more[base + (m + 1)]
      BY <2>1, <3>1
    <3>3. a[m + 1] = c
      BY <2>1, <2>2, <3>2
    <3>4. \A i \in 1 .. m : a[i] = b[i]
      BY <2>1, <3>1
    <3> QED
      BY <3>3, <3>4
  <2>4. a = Append(b, c)
    BY <2>1, <2>3
  <2> QED
    BY <2>2, <2>4 DEF a, b
<1>4. SubSeq(more, base + 1, n) = SubSeq(items, base + 1, n)
  BY <1>1
<1> QED
  BY <1>1, <1>2, <1>3, <1>4 DEF Since, more

\* An item that is read up to its end is complete.
LEMMA StageEnd ==
  ASSUME NEW w, NEW f, NEW g, NEW k \in (DOMAIN Bytes) \ {"hint"}, Stage(w, k, Size(k), f, g)
  PROVE  Ground(w, RefItem(f, k), RefItem(g, k))
<1> DEFINE n == Size(k)
<1>0. k \in {"char", "wide", "reset", "save", "query", "repeat", "irmOn", "irmOff", "modeOn"} \cup Strings
  BY DEF Bytes, Strings
<1>9. k \in Strings => Size(k) \in {5}
  BY StringBytes
<1>1. n # 0
  <2>1. k \notin Strings => n # 0
    BY <1>0, BytesAre
  <2>2. k \in Strings => n # 0
    BY <1>9
  <2> QED
    BY <2>1, <2>2
<1>2. k = "wide" => n # 1
  BY BytesAre
<1>3. k \in CSIs \cup Strings \cup {"reset"} => n # 1
  BY <1>9, BytesAre DEF CSIs
<1>4. k \in CSIs => n # 2
  BY BytesAre DEF CSIs
<1>5. k \in {"repeat", "irmOn", "irmOff"} => n # 3
  BY BytesAre
<1>6. k = "modeOn" => n # 3 /\ n # 4
  BY BytesAre
<1>7. k \in Strings => n # 2 /\ n # 3 /\ n # 4
  BY <1>9
<1> HIDE DEF n
<1>8. Stage(w, k, n, f, g)
  BY DEF n
<1> QED
  BY <1>1, <1>2, <1>3, <1>4, <1>5, <1>6, <1>7, <1>8, Zenon DEF Stage

\* Only a hint holds a placeholder.
LEMMA CleanBytes ==
  ASSUME NEW k \in (DOMAIN Bytes) \ {"hint"}
  PROVE  Bytes[k] \in Tokens /\ Len(Bytes[k]) = Size(k) /\ Size(k) \in Nat \ {0} /\ Clean(Bytes[k])
<1>0. k \in {"char", "wide", "reset", "save", "query", "repeat", "irmOn", "irmOff", "modeOn"} \cup Strings
  BY DEF Bytes, Strings
<1>1. Bytes[k] \in Tokens /\ Len(Bytes[k]) = Size(k)
  BY BytesTyped DEF Size
<1>2. k \notin Strings => Size(k) \in {1, 2, 3, 4, 5}
  BY <1>0, BytesAre
<1>3. k \in Strings => Size(k) \in {1, 2, 3, 4, 5}
  BY StringBytes
<1>4. \A i \in 1 .. Size(k) : Bytes[k][i] # "ph1" /\ Bytes[k][i] # "ph2"
  <2> SUFFICES ASSUME NEW i \in 1 .. Size(k) PROVE Bytes[k][i] # "ph1" /\ Bytes[k][i] # "ph2"
    OBVIOUS
  <2>1. CASE k \in Strings
    <3>1. i \in {1, 2, 3, 4, 5}
      BY <1>3, <2>1
    <3> QED
      BY <2>1, <3>1, StringBytes
  <2>2. CASE k \notin Strings
    <3>1. i \in {1, 2, 3, 4, 5}
      BY <1>2, <2>2
    <3>2. CASE k \in {"char", "wide", "reset"}
      BY <3>2, BytesAre
    <3>3. CASE k \in {"save", "query"}
      BY <3>3, BytesAre
    <3>4. CASE k \in {"repeat", "irmOn", "irmOff"}
      BY <3>4, BytesAre
    <3>5. CASE k = "modeOn"
      BY <3>1, <3>5, BytesAre
    <3> QED
      BY <1>0, <2>2, <3>2, <3>3, <3>4, <3>5
  <2> QED
    BY <2>1, <2>2
<1>5. Clean(Bytes[k])
  <2> DEFINE all == Bytes[k]
  <2>1. Len(all) = Size(k) /\ \A i \in 1 .. Size(k) : all[i] # "ph1" /\ all[i] # "ph2"
    BY <1>1, <1>4
  <2> HIDE DEF all
  <2>2. Clean(all)
    BY <2>1 DEF Clean
  <2> QED
    BY <2>2 DEF all
<1>6. Size(k) \in Nat \ {0}
  BY <1>2, <1>3
<1> QED
  BY <1>1, <1>5, <1>6

-----------------------------------------------------------------------------
(* The stream.                                                              *)

\* Nothing is left in the pipe, and the terminal is where the reference is;
Between(w, items, base, pipe) == pipe = <<>> /\ Ground(w, Reference(items), Reference(Since(items, base)))
\* or the last item was read up to its i-th byte.
InItem(w, items, base, pipe, before, k, i) ==
  /\ before \in Seq(EmKinds) /\ k \in EmKinds \ {"hint", "repeat"} /\ i \in Nat
  /\ items = Append(before, k) /\ base <= Len(before)
  /\ 1 <= i /\ i < Size(k) /\ pipe = SubSeq(Bytes[k], i + 1, Size(k))
  /\ Stage(w, k, i, Reference(before), Reference(Since(before, base)))
Reached(w, items, base, pipe) ==
  Between(w, items, base, pipe) \/ \E before, k, i : InItem(w, items, base, pipe, before, k, i)

\* The stream so far, unless it met a gap.
IStream ==
  /\ emItems \in Seq(EmKinds) /\ emBase \in 0 .. Len(emItems)
  /\ emOdd \/ Reached(Work, emItems, emBase, emPipe)

\* The rest of the item takes the terminal to where the reference is.
LEMMA RestIsRead ==
  ASSUME NEW taken \in Seq(Nat), NEW w \in Works(taken), NEW items \in Seq(EmKinds), NEW base \in 0 .. Len(items),
         NEW pipe, Reached(w, items, base, pipe)
  PROVE  /\ pipe \in Tokens /\ Clean(pipe)
         /\ Along(WriteByte, w, pipe) \in Works(taken)
         /\ Ground(Along(WriteByte, w, pipe), Reference(items), Reference(Since(items, base)))
<1>1. CASE Between(w, items, base, pipe)
  <2>1. pipe = <<>> /\ Ground(w, Reference(items), Reference(Since(items, base)))
    BY <1>1 DEF Between
  <2>2. Along(WriteByte, w, pipe) = w
    BY <2>1, WriteNone
  <2>3. pipe \in Tokens /\ Clean(pipe)
    BY <2>1, RowsOfBytes DEF Clean
  <2> QED
    BY <2>1, <2>2, <2>3
<1>2. ASSUME NEW before, NEW k, NEW i, InItem(w, items, base, pipe, before, k, i)
      PROVE  /\ pipe \in Tokens /\ Clean(pipe)
             /\ Along(WriteByte, w, pipe) \in Works(taken)
             /\ Ground(Along(WriteByte, w, pipe), Reference(items), Reference(Since(items, base)))
  <2> DEFINE f == Reference(before)
             g == Reference(Since(before, base))
             n == Size(k)
             all == Bytes[k]
             u == Along(WriteByte, w, pipe)
  <2>1. /\ before \in Seq(EmKinds) /\ k \in EmKinds /\ k \in (DOMAIN Bytes) \ {"hint"} /\ k # "repeat" /\ i \in Nat
        /\ items = Append(before, k) /\ base <= Len(before) /\ 1 <= i /\ i < n
        /\ pipe = SubSeq(all, i + 1, n) /\ Stage(w, k, i, f, g)
    BY <1>2, EmAssumption DEF InItem, EmAssumption
  <2>2. base \in 0 .. Len(before)
    <3>1. Len(before) \in Nat /\ base \in Nat
      BY <2>1
    <3> QED
      BY <2>1, <3>1
  <2>3. f \in Refs /\ g \in Refs /\ Since(before, base) \in Seq(EmKinds)
    BY <2>1, <2>2, RefIn, SinceMore
  <2>4. RefItem(f, k) = Reference(items)
    BY <2>1, RefMore
  <2>5. RefItem(g, k) = Reference(Since(items, base))
    <3>1. Since(items, base) = Append(Since(before, base), k)
      BY <2>1, <2>2, SinceMore
    <3> QED
      BY <2>1, <2>3, <3>1, RefMore
  <2>6. all \in Tokens /\ Len(all) = n /\ n \in Nat \ {0} /\ Clean(all)
    BY <2>1, CleanBytes
  <2> HIDE DEF f, g, n, all
  <2>7. pipe \in Tokens
    <3>1. i + 1 \in Nat \ {0} /\ n \in Nat /\ n <= Len(all)
      BY <2>1, <2>6
    <3> QED
      BY <2>1, <2>6, <3>1, PartOfBytes
  <2>8. Clean(pipe)
    <3>1. Len(pipe) = n - i /\ \A x \in 1 .. n - i : pipe[x] = all[i + x] /\ i + x \in 1 .. n
      BY <2>1, <2>6 DEF Tokens
    <3> QED
      BY <2>6, <3>1 DEF Clean
  <2>9. u \in Works(taken) /\ Stage(u, k, n, f, g)
    <3>1. n \in Nat /\ i <= n /\ n <= Size(k)
      BY <2>1, <2>6 DEF n
    <3>2. LET v == Along(WriteByte, w, SubSeq(Bytes[k], i + 1, n)) IN v \in Works(taken) /\ Stage(v, k, n, f, g)
      BY <2>1, <2>3, <3>1, Reads
    <3> QED
      BY <2>1, <3>2 DEF all
  <2> HIDE DEF u
  <2>10. Ground(u, RefItem(f, k), RefItem(g, k))
    <3>1. Stage(u, k, Size(k), f, g)
      BY <2>9 DEF n
    <3> QED
      BY <2>1, <3>1, StageEnd
  <2> QED
    BY <2>4, <2>5, <2>7, <2>8, <2>9, <2>10 DEF u
<1> QED
  BY <1>1, <1>2 DEF Reached

\* A row of bytes behind another.
LEMMA BytesJoined ==
  ASSUME NEW p \in Tokens, NEW q \in Tokens
  PROVE  /\ p \o q \in Tokens /\ Len(p) \in Nat /\ Len(q) \in Nat /\ Len(p \o q) = Len(p) + Len(q)
         /\ \A x \in 1 .. Len(p) : (p \o q)[x] = p[x]
         /\ \A x \in 1 .. Len(q) : (p \o q)[Len(p) + x] = q[x]
BY DEF Tokens

\* A part of a row, in two rows.
LEMMA JoinsBytes ==
  ASSUME NEW p \in Tokens, NEW q \in Tokens, NEW n \in Nat, n > Len(p), n <= Len(p \o q)
  PROVE  LET m == n - Len(p) IN
           /\ m \in Nat /\ 1 <= m /\ m <= Len(q)
           /\ SubSeq(p \o q, 1, n) = p \o SubSeq(q, 1, m)
           /\ SubSeq(p \o q, n + 1, Len(p \o q)) = SubSeq(q, m + 1, Len(q))
           /\ (n < Len(p \o q) <=> m < Len(q))
           /\ SubSeq(q, 1, m) \in Tokens
<1> DEFINE a == Len(p)
           b == Len(q)
           c == p \o q
           m == n - a
<1>1. /\ a \in Nat /\ b \in Nat /\ c \in Seq(Byte) /\ Len(c) = a + b
      /\ (\A x \in 1 .. a : c[x] = p[x]) /\ (\A x \in 1 .. b : c[a + x] = q[x]) /\ p \in Seq(Byte) /\ q \in Seq(Byte)
  BY DEF Tokens
<1>2. m \in Nat /\ 1 <= m /\ m <= b
  BY <1>1
<1> HIDE DEF c
<1>3. n = a + m /\ n <= Len(c) /\ n \in Nat
  BY <1>1, <1>2
<1>4. SubSeq(q, 1, m) \in Tokens /\ SubSeq(q, 1, m) \in Seq(Byte) /\ Len(SubSeq(q, 1, m)) = m /\ \A x \in 1 .. m : SubSeq(q, 1, m)[x] = q[x]
  BY <1>1, <1>2 DEF Tokens
<1> HIDE DEF m
<1>5. SubSeq(c, 1, n) = p \o SubSeq(q, 1, m)
  <2> DEFINE s == SubSeq(c, 1, n)
             r == SubSeq(q, 1, m)
             t == p \o r
  <2>1. s \in Seq(Byte) /\ Len(s) = a + m /\ \A x \in 1 .. a + m : s[x] = c[x]
    BY <1>1, <1>2, <1>3
  <2>2. r \in Seq(Byte) /\ Len(r) = m /\ \A x \in 1 .. m : r[x] = q[x]
    BY <1>4
  <2> HIDE DEF s, r
  <2>3. /\ t \in Seq(Byte) /\ Len(t) = a + m
        /\ (\A x \in 1 .. a : t[x] = p[x]) /\ (\A x \in 1 .. m : t[a + x] = r[x])
    <3>1. r \in Tokens /\ p \in Tokens
      BY <2>2 DEF Tokens
    <3>2. /\ t \in Tokens /\ Len(t) = Len(p) + Len(r)
          /\ (\A x \in 1 .. Len(p) : t[x] = p[x]) /\ (\A x \in 1 .. Len(r) : t[Len(p) + x] = r[x])
      BY <3>1, BytesJoined
    <3>3. t \in Seq(Byte)
      BY <3>2 DEF Tokens
    <3> HIDE DEF t
    <3> QED
      BY <2>2, <3>2, <3>3
  <2> HIDE DEF t, a, b
  <2>4. \A x \in 1 .. a + m : s[x] = t[x]
    <3> SUFFICES ASSUME NEW x \in 1 .. a + m PROVE s[x] = t[x]
      OBVIOUS
    <3>1. CASE x <= a
      <4>1. x \in 1 .. a
        BY <1>1, <1>2, <3>1
      <4> QED
        BY <1>1, <2>1, <2>3, <4>1
    <3>2. CASE ~(x <= a)
      <4>1. PICK y \in Nat : y = x - a
        BY <1>1, <1>2, <3>2
      <4>2. y \in 1 .. m /\ y \in 1 .. b /\ x = a + y
        BY <1>1, <1>2, <3>2, <4>1
      <4> QED
        BY <1>1, <2>1, <2>2, <2>3, <4>2
    <3> QED
      BY <3>1, <3>2
  <2>5. s = t
    BY <2>1, <2>3, <2>4
  <2> QED
    BY <2>5 DEF s, t, r
<1>6. SubSeq(c, n + 1, Len(c)) = SubSeq(q, m + 1, b)
  <2> DEFINE s == SubSeq(c, n + 1, Len(c))
             t == SubSeq(q, m + 1, b)
             l == b - m
  <2>1. s \in Seq(Byte) /\ Len(s) = l /\ (\A x \in 1 .. l : s[x] = c[n + x]) /\ l \in Nat
    BY <1>1, <1>2, <1>3
  <2>2. t \in Seq(Byte) /\ Len(t) = l /\ \A x \in 1 .. l : t[x] = q[m + x]
    BY <1>1, <1>2
  <2> HIDE DEF s, t
  <2>3. \A x \in 1 .. l : n + x = a + (m + x) /\ m + x \in 1 .. b
    BY <1>1, <1>2, <1>3
  <2> HIDE DEF l, a, b
  <2>4. \A x \in 1 .. l : s[x] = t[x]
    BY <1>1, <2>1, <2>2, <2>3
  <2>5. s = t
    BY <2>1, <2>2, <2>4
  <2> QED
    BY <2>5 DEF s, t, b
<1>7. n < Len(c) <=> m < b
  BY <1>1, <1>2, <1>3
<1> QED
  BY <1>2, <1>4, <1>5, <1>6, <1>7 DEF c, m

\* One more item, up to some place in it.
LEMMA ItemIsRead ==
  ASSUME NEW taken \in Seq(Nat), NEW w \in Works(taken), NEW items \in Seq(EmKinds), NEW base \in 0 .. Len(items),
         NEW pipe, Reached(w, items, base, pipe), NEW k \in EmKinds, NEW n \in Nat,
         n > Len(pipe), n <= Len(pipe \o Bytes[k]),
         k = "repeat" => ~(n < Len(pipe \o Bytes[k])) /\ Reference(Since(items, base)).last = Rune.a,
         k = "hint" => ~(n < Len(pipe \o Bytes[k]))
  PROVE  LET all == pipe \o Bytes[k] IN
           Reached(Flush(Along(WriteByte, w, Stripped(SubSeq(all, 1, n)))), Append(items, k), base,
                   SubSeq(all, n + 1, Len(all)))
<1> DEFINE q == Bytes[k]
           f == Reference(items)
           g == Reference(Since(items, base))
           m == n - Len(pipe)
           part == SubSeq(q, 1, m)
           rest == SubSeq(q, m + 1, Len(q))
           u == Along(WriteByte, w, pipe)
           v == Along(WriteByte, w, Stripped(pipe \o part))
           more == Append(items, k)
<1>0. k \in DOMAIN Bytes /\ q \in Tokens
  BY BytesTyped, EmAssumption DEF EmAssumption
<1>1. pipe \in Tokens /\ Clean(pipe) /\ u \in Works(taken) /\ Ground(u, f, g)
  BY RestIsRead
<1>2. /\ m \in Nat /\ 1 <= m /\ m <= Len(q) /\ part \in Tokens
      /\ SubSeq(pipe \o q, 1, n) = pipe \o part
      /\ SubSeq(pipe \o q, n + 1, Len(pipe \o q)) = rest
      /\ (n < Len(pipe \o q) <=> m < Len(q))
  <2>1. n > Len(pipe) /\ n <= Len(pipe \o q)
    OBVIOUS
  <2> HIDE DEF q
  <2> QED
    BY <1>0, <1>1, <2>1, JoinsBytes
<1>3. /\ f \in Refs /\ g \in Refs /\ Since(items, base) \in Seq(EmKinds)
      /\ Since(more, base) = Append(Since(items, base), k)
  BY RefIn, SinceMore
<1>4. Reference(more) = RefItem(f, k) /\ Reference(Since(more, base)) = RefItem(g, k)
  BY <1>3, RefMore
<1>5. Len(q) \in Nat /\ Size(k) = Len(q)
  BY <1>0 DEF Tokens, Size
<1>6. v \in Works(taken)
  BY <1>0, <1>1, <1>2, RowsOfBytes, StrippedTyped, WriteStays
<1> HIDE DEF m, u, f, g
<1>7. CASE k = "hint"
  <2>1. m = Len(q)
    BY <1>2, <1>5, <1>7
  <2>2. part = <<"ph1", "ph2">> /\ rest = <<>>
    <3>1. q = <<"ph1", "ph2">>
      BY <1>7 DEF Bytes
    <3> HIDE DEF q
    <3>2. SubSeq(q, 1, Len(q)) = q /\ SubSeq(q, Len(q) + 1, Len(q)) = <<>>
      BY <1>0 DEF Tokens
    <3> QED
      BY <2>1, <3>1, <3>2
  <2>3. v = u
    BY <1>1, <2>2, StrippedOf DEF u
  <2>4. RefItem(f, k) = f /\ RefItem(g, k) = g
    BY <1>3, <1>7, RefSequences
  <2> HIDE DEF v, q, more, part, rest
  <2>5. Ground(Flush(v), Reference(more), Reference(Since(more, base)))
    BY <1>1, <1>4, <2>3, <2>4, FlushStage
  <2> QED
    BY <1>2, <2>2, <2>5 DEF Reached, Between, v, q, more
<1>8. CASE k # "hint"
  <2>1. k \in (DOMAIN Bytes) \ {"hint"} /\ Clean(q)
    BY <1>0, <1>8, CleanBytes
  <2>2. v = Along(WriteByte, u, part)
    <3> DEFINE s == pipe \o part
               l == Len(pipe)
    <3>0. Len(part) = m /\ \A x \in 1 .. m : part[x] = q[x]
      BY <1>0, <1>2, <1>5 DEF Tokens
    <3> HIDE DEF part
    <3>1. s \in Tokens /\ Len(s) = l + m /\ l \in Nat
          /\ (\A x \in 1 .. l : s[x] = pipe[x]) /\ (\A x \in 1 .. m : s[l + x] = part[x])
          /\ (\A x \in 1 .. m : part[x] = q[x])
      BY <1>1, <1>2, <3>0, BytesJoined
    <3>2. \A x \in 1 .. m : x \in 1 .. Len(q)
      BY <1>2, <1>5
    <3> HIDE DEF s
    <3>3. Clean(s)
      <4> SUFFICES ASSUME NEW x \in 1 .. Len(s) PROVE s[x] # "ph1" /\ s[x] # "ph2"
        BY DEF Clean
      <4>0. x \in 1 .. l + m
        BY <3>1
      <4>1. CASE x <= l
        <5>1. x \in 1 .. Len(pipe) /\ s[x] = pipe[x]
          BY <3>1, <4>0, <4>1
        <5> QED
          BY <1>1, <5>1 DEF Clean
      <4>2. CASE ~(x <= l)
        <5> HIDE DEF l
        <5>1. PICK y \in Nat : y = x - l
          BY <1>2, <3>1, <4>0, <4>2
        <5>2. y \in 1 .. m /\ x = l + y
          BY <1>2, <3>1, <4>0, <4>2, <5>1
        <5>3. s[x] = q[y] /\ y \in 1 .. Len(q)
          BY <3>1, <3>2, <5>2
        <5> QED
          BY <2>1, <5>3 DEF Clean
      <4> QED
        BY <4>1, <4>2
    <3>4. Stripped(s) = s
      BY <3>1, <3>3, StrippedOf
    <3>5. Along(WriteByte, w, s) = Along(WriteByte, u, part)
      BY <1>1, <1>2, WriteBoth DEF s, u
    <3> QED
      BY <3>4, <3>5 DEF s
  <2>3. Stage(v, k, m, f, g)
    <3>1. Stage(u, k, 0, f, g)
      BY <1>1 DEF Stage
    <3>2. k = "repeat" => g.last = Rune.a /\ AllInRun(u, k, 0)
      <4>1. Len(u.run) >= 0
        BY <1>1, SeenTyped
      <4> QED
        BY <4>1 DEF AllInRun, g
    <3>3. 0 \in Nat /\ 0 <= m /\ m <= Size(k) /\ m \in Nat /\ 0 + 1 = 1
      BY <1>2, <1>5
    <3> HIDE DEF v
    <3>4. LET x == Along(WriteByte, u, SubSeq(Bytes[k], 0 + 1, m)) IN x \in Works(taken) /\ Stage(x, k, m, f, g)
      BY <1>1, <1>3, <2>1, <3>1, <3>2, <3>3, Reads
    <3>5. part = SubSeq(Bytes[k], 0 + 1, m)
      BY <3>3
    <3> HIDE DEF part
    <3> QED
      BY <2>2, <3>4, <3>5
  <2>4. CASE m = Len(q)
    <3>1. Ground(v, RefItem(f, k), RefItem(g, k))
      BY <1>5, <2>1, <2>3, <2>4, StageEnd
    <3>2. rest = <<>>
      <4> HIDE DEF q
      <4> QED
        BY <1>0, <1>5, <2>4 DEF Tokens
    <3> HIDE DEF v, q, more, part, rest
    <3>3. Ground(Flush(v), Reference(more), Reference(Since(more, base)))
      BY <1>4, <1>6, <3>1, FlushStage
    <3> QED
      BY <1>2, <3>2, <3>3 DEF Reached, Between, v, q, more
  <2>5. CASE m # Len(q)
    <3>1. m < Size(k) /\ m # Size(k)
      BY <1>2, <1>5, <2>5
    <3>2. k \notin {"hint", "repeat"}
      BY <1>2, <1>5, <1>8, <2>5
    <3> HIDE DEF v
    <3>3. Stage(Flush(v), k, m, f, g)
      BY <1>6, <2>3, <3>1, FlushStage
    <3>4. rest = SubSeq(Bytes[k], m + 1, Size(k)) /\ base <= Len(items)
      BY <1>5
    <3> HIDE DEF q, part, rest, more
    <3>5. InItem(Flush(v), more, base, rest, items, k, m)
      BY <1>2, <3>1, <3>2, <3>3, <3>4 DEF InItem, f, g, more
    <3>6. Reached(Flush(v), more, base, rest)
      BY <3>5 DEF Reached
    <3> QED
      BY <1>2, <3>6 DEF v, q, more
  <2> QED
    BY <2>4, <2>5
<1> QED
  BY <1>7, <1>8

\* What is stored after Write is what it worked on.
LEMMA WorkIsThat ==
  ASSUME NEW taken \in Seq(Nat), NEW w \in Works(taken),
         emScan' = Flush(w).scan, emVt' = Flush(w).vt, emModes' = Flush(w).modes, emPics' = Flush(w).pics,
         emPending' = Flush(w).pending, emQueue' = Flush(w).queue, emHand' = Flush(w).hand,
         emAsked' = Flush(w).asked, emLost' = Flush(w).lost
  PROVE  Work' = Flush(w)
<1> DEFINE g == Flush(w)
<1>1. g \in Works(taken) /\ g.run = <<>>
  BY FlushStays, FlushSeen
<1>2. /\ emScan' = g.scan /\ emVt' = g.vt /\ emModes' = g.modes /\ emPics' = g.pics /\ emPending' = g.pending
      /\ emQueue' = g.queue /\ emHand' = g.hand /\ emAsked' = g.asked /\ emLost' = g.lost
  OBVIOUS
<1> HIDE DEF g
<1>3. g = [scan |-> g.scan, vt |-> g.vt, run |-> g.run, modes |-> g.modes, pics |-> g.pics, pending |-> g.pending,
           queue |-> g.queue, hand |-> g.hand, asked |-> g.asked, lost |-> g.lost]
  BY <1>1 DEF Works
<1>4. Work' = [scan |-> g.scan, vt |-> g.vt, run |-> <<>>, modes |-> g.modes, pics |-> g.pics, pending |-> g.pending,
               queue |-> g.queue, hand |-> g.hand, asked |-> g.asked, lost |-> g.lost]
  BY <1>2 DEF Work
<1>5. Work' = g
  BY <1>1, <1>3, <1>4
<1> QED
  BY <1>5 DEF g

\* The same place of the stream for another Work.
LEMMA ReachedAlike ==
  ASSUME NEW w, NEW u, u.vt = w.vt, u.run = w.run, u.modes = w.modes, u.pics = w.pics, u.pending = w.pending,
         \A x \in {"st", "priv", "num", "len", "lead", "last", "insert", "buf"} : u.scan[x] = w.scan[x],
         NEW items, NEW base, NEW pipe, Reached(w, items, base, pipe)
  PROVE  Reached(u, items, base, pipe)
<1>1. /\ \A f, g : Ground(w, f, g) => Ground(u, f, g)
      /\ \A f, g, k, i : Stage(w, k, i, f, g) /\ i # Size(k) => Stage(u, k, i, f, g)
  BY StageAlike
<1>2. CASE Between(w, items, base, pipe)
  BY <1>1, <1>2 DEF Reached, Between
<1>3. ASSUME NEW before, NEW k, NEW i, InItem(w, items, base, pipe, before, k, i)
      PROVE  Reached(u, items, base, pipe)
  <2>1. k \in DOMAIN Bytes \ {"hint"} /\ i \in Nat /\ i < Size(k)
    BY <1>3, EmAssumption DEF InItem, EmAssumption
  <2>2. i # Size(k)
    BY <2>1, CleanBytes
  <2>3. InItem(u, items, base, pipe, before, k, i)
    BY <1>1, <1>3, <2>2 DEF InItem
  <2> QED
    BY <2>3 DEF Reached
<1> QED
  BY <1>2, <1>3 DEF Reached

\* What both start with.
LEMMA Blanks ==
  /\ ScanReset.st = "scan" /\ ScanReset.insert = FALSE /\ ScanReset.last = <<>>
  /\ RefBlank.out = <<>> /\ RefBlank.last = <<>> /\ RefBlank.insert = FALSE /\ RefBlank.mode = FALSE
  /\ RefBlank.pics = 0 /\ RefBlank.part = FALSE
  /\ VtReset.st = "scan" /\ VtReset.ins = 0 /\ VtReset.out = <<>>
<1>1. ScanReset.st = "scan" /\ ScanReset.insert = FALSE /\ ScanReset.last = <<>>
  BY DEF ScanReset
<1>2. /\ RefBlank.out = <<>> /\ RefBlank.last = <<>> /\ RefBlank.insert = FALSE /\ RefBlank.mode = FALSE
      /\ RefBlank.pics = 0 /\ RefBlank.part = FALSE
  BY DEF RefBlank
<1>3. VtReset.st = "scan" /\ VtReset.ins = 0 /\ VtReset.out = <<>>
  BY DEF VtReset
<1> QED
  BY <1>1, <1>2, <1>3

\* The terminal and the reference start alike.
LEMMA IStreamInit == EmulatorInit => IStream
<1> SUFFICES ASSUME EmulatorInit PROVE IStream
  OBVIOUS
<1>1. /\ emItems = <<>> /\ emPipe = <<>> /\ emScan = ScanReset /\ emVt = VtReset
      /\ emModes = FALSE /\ emPics = 0 /\ emPending = FALSE /\ emBase = 0
  BY DEF EmulatorInit
<1> DEFINE none == <<>>
           w == Work
<1>2. none \in Seq(EmKinds) /\ Len(none) = 0 /\ Since(none, 0) = none
  <2>1. none \in Seq(EmKinds) /\ Len(none) = 0
    OBVIOUS
  <2> QED
    BY <2>1 DEF Since
<1>3. Reference(none) = RefBlank
  BY RefNone
<1>4. /\ w.scan = ScanReset /\ w.vt = VtReset /\ w.run = none /\ w.modes = FALSE /\ w.pics = 0 /\ w.pending = FALSE
  BY <1>1 DEF Work
<1>5. VtReset \in Vt
  BY RowsOfBytes DEF VtReset, Vt, States
<1> HIDE DEF w, none
<1>6. Seen(w) = VtReset
  BY <1>4, <1>5, VtNone DEF Seen, none
<1>7. Ground(w, RefBlank, RefBlank)
  <2>1. Same(w, RefBlank, RefBlank)
    BY <1>4, Blanks DEF Same
  <2>2. Shows(Seen(w), "scan", RefBlank)
    BY <1>6, Blanks DEF Shows
  <2> QED
    BY <1>4, <2>1, <2>2, Blanks DEF Ground
<1>8. Reached(w, none, 0, none)
  BY <1>2, <1>3, <1>7 DEF Reached, Between, none
<1> QED
  BY <1>1, <1>2, <1>8 DEF IStream, w, none

\* A read keeps up with the reference wherever it cuts, unless there is a gap; so do the
\* rest that is read, a drain, the pump, and a resize between two items.
LEMMA IStreamStep == IAnswers /\ IStream /\ [EmulatorNext]_emulatorVars => IStream'
<1> SUFFICES ASSUME IAnswers, IStream, [EmulatorNext]_emulatorVars PROVE IStream'
  OBVIOUS
<1>1. /\ Work \in Works(emTaken) /\ emTaken \in Seq(Nat) /\ emPipe \in Tokens
      /\ emItems \in Seq(EmKinds) /\ emBase \in 0 .. Len(emItems)
      /\ emOdd \/ Reached(Work, emItems, emBase, emPipe)
  BY DEF IAnswers, IStream
<1> DEFINE w == Work
<1>2. /\ w.scan = emScan /\ w.vt = emVt /\ w.run = <<>> /\ w.modes = emModes /\ w.pics = emPics /\ w.pending = emPending
  BY DEF Work
<1>3. /\ Work'.scan = emScan' /\ Work'.vt = emVt' /\ Work'.run = <<>> /\ Work'.modes = emModes'
      /\ Work'.pics = emPics' /\ Work'.pending = emPending'
  BY DEF Work
<1>4. ASSUME NEW k \in EmKinds, NEW n \in 1 .. Len(emPipe \o Bytes[k]), EmReads(k, n) PROVE IStream'
  <2> DEFINE bytes == emPipe \o Bytes[k]
             more == Append(emItems, k)
             u == Along(WriteByte, w, Stripped(SubSeq(bytes, 1, n)))
             rest == SubSeq(bytes, n + 1, Len(bytes))
  <2>1. /\ emItems' = more /\ emBase' = emBase /\ emPipe' = rest
        /\ emOdd' = (emOdd \/ Gap(k, n < Len(bytes))) /\ n > Len(emPipe) /\ n <= Len(bytes)
    BY <1>4 DEF EmReads
  <2>2. more \in Seq(EmKinds) /\ emBase \in 0 .. Len(more)
    BY <1>1
  <2>3. bytes \in Tokens
    BY <1>1, BytesTyped, RowsOfBytes, EmAssumption DEF EmAssumption
  <2>4. n \in Nat /\ 1 <= n
    OBVIOUS
  <2>5. Work' = Flush(u)
    <3>1. /\ emScan' = Flush(u).scan /\ emVt' = Flush(u).vt /\ emModes' = Flush(u).modes /\ emPics' = Flush(u).pics
          /\ emPending' = Flush(u).pending /\ emQueue' = Flush(u).queue /\ emHand' = Flush(u).hand
          /\ emAsked' = Flush(u).asked /\ emLost' = Flush(u).lost
      BY <1>4 DEF EmReads
    <3>2. u \in Works(emTaken)
      <4> HIDE DEF bytes
      <4>1. SubSeq(bytes, 1, n) \in Tokens
        BY <2>1, <2>3, <2>4, PartOfBytes
      <4> QED
        BY <1>1, <4>1, StrippedTyped, WriteStays
    <3> HIDE DEF u
    <3> QED
      BY <1>1, <3>1, <3>2, WorkIsThat
  <2>6. CASE emOdd'
    BY <2>1, <2>2, <2>6 DEF IStream
  <2>7. CASE ~emOdd'
    <3>1. Reached(w, emItems, emBase, emPipe) /\ ~Gap(k, n < Len(bytes))
      BY <1>1, <2>1, <2>7
    <3>2. /\ k = "repeat" => ~(n < Len(bytes)) /\ Reference(Since(emItems, emBase)).last = Rune.a
          /\ k = "hint" => ~(n < Len(bytes))
      BY <3>1, Zenon DEF Gap, Since
    <3> HIDE DEF w
    <3>3. Reached(Flush(u), more, emBase, rest)
      <4>1. w \in Works(emTaken)
        BY <1>1 DEF w
      <4> QED
        BY <1>1, <2>1, <2>4, <3>1, <3>2, <4>1, ItemIsRead
    <3> HIDE DEF u, more, rest
    <3> QED
      BY <2>1, <2>2, <2>5, <3>3 DEF IStream
  <2> QED
    BY <2>6, <2>7
<1>5. CASE EmReadsRest
  <2> DEFINE u == Along(WriteByte, w, Stripped(emPipe))
             f == Reference(emItems)
             g == Reference(Since(emItems, emBase))
  <2>1. emItems' = emItems /\ emBase' = emBase /\ emPipe' = <<>> /\ emOdd' = emOdd
    BY <1>5 DEF EmReadsRest
  <2>2. Work' = Flush(u)
    <3>1. /\ emScan' = Flush(u).scan /\ emVt' = Flush(u).vt /\ emModes' = Flush(u).modes /\ emPics' = Flush(u).pics
          /\ emPending' = Flush(u).pending /\ emQueue' = Flush(u).queue /\ emHand' = Flush(u).hand
          /\ emAsked' = Flush(u).asked /\ emLost' = Flush(u).lost
      BY <1>5 DEF EmReadsRest
    <3>2. u \in Works(emTaken)
      BY <1>1, StrippedTyped, WriteStays
    <3> HIDE DEF u
    <3> QED
      BY <1>1, <3>1, <3>2, WorkIsThat
  <2>3. CASE emOdd
    BY <1>1, <2>1, <2>3 DEF IStream
  <2>4. CASE ~emOdd
    <3>1. Clean(emPipe) /\ Along(WriteByte, w, emPipe) \in Works(emTaken) /\ Ground(Along(WriteByte, w, emPipe), f, g)
      BY <1>1, <2>4, RestIsRead
    <3>2. u = Along(WriteByte, w, emPipe)
      BY <1>1, <3>1, StrippedOf
    <3> HIDE DEF u, f, g
    <3>3. Ground(Flush(u), f, g)
      BY <1>1, <3>1, <3>2, FlushStage
    <3>4. Reached(Flush(u), emItems, emBase, <<>>)
      BY <3>3 DEF Reached, Between, f, g
    <3> QED
      BY <1>1, <2>1, <2>2, <3>4 DEF IStream
  <2> QED
    BY <2>3, <2>4
<1>6. ASSUME emItems' = emItems, emBase' = emBase, emPipe' = emPipe, emOdd' = emOdd,
             emVt' = emVt, emModes' = emModes, emPics' = emPics, emPending' = emPending,
             \A x \in {"st", "priv", "num", "len", "lead", "last", "insert", "buf"} : emScan'[x] = emScan[x]
      PROVE  IStream'
  <2> PICK v : v = Work'
    OBVIOUS
  <2>1. /\ v.vt = w.vt /\ v.run = w.run /\ v.modes = w.modes /\ v.pics = w.pics /\ v.pending = w.pending
        /\ \A x \in {"st", "priv", "num", "len", "lead", "last", "insert", "buf"} : v.scan[x] = w.scan[x]
    BY <1>2, <1>3, <1>6
  <2>2. Reached(w, emItems, emBase, emPipe) => Reached(v, emItems, emBase, emPipe)
    <3> HIDE DEF w
    <3> QED
      BY <2>1, ReachedAlike
  <2> QED
    BY <1>1, <1>6, <2>2 DEF IStream
<1>7. CASE EmPumps
  BY <1>6, <1>7 DEF EmPumps
<1>8. ASSUME NEW late \in BOOLEAN, EmDrains(late) PROVE IStream'
  <2>1. /\ emItems' = emItems /\ emBase' = emBase /\ emPipe' = emPipe /\ emOdd' = emOdd
        /\ emVt' = emVt /\ emModes' = emModes /\ emPics' = emPics /\ emPending' = emPending
        /\ emScan' = [emScan EXCEPT !.hits = 0]
    BY <1>8 DEF EmDrains
  <2>2. emScan \in Scan
    BY <1>1, <1>2, WorkParts
  <2>3. \A x \in {"st", "priv", "num", "len", "lead", "last", "insert", "buf"} : emScan'[x] = emScan[x]
    BY <2>1, <2>2 DEF Scan
  <2> QED
    BY <1>6, <2>1, <2>3
<1>9. CASE EmResizeMirror
  <2>1. /\ emItems' = emItems /\ emBase' = Len(emItems) /\ emPipe' = emPipe /\ emVt' = emVt /\ emModes' = emModes
        /\ emPics' = 0 /\ emPending' = FALSE /\ emScan' = ScanReset
        /\ emOdd' = (emOdd \/ emScan.st # "scan" \/ emScan.insert)
    BY <1>9 DEF EmResizeMirror
  <2>2. Len(emItems) \in 0 .. Len(emItems)
    BY <1>1
  <2>3. CASE emOdd'
    BY <1>1, <2>1, <2>2, <2>3 DEF IStream
  <2>4. CASE ~emOdd'
    <3>1. Reached(w, emItems, emBase, emPipe) /\ w.scan.st = "scan" /\ ~w.scan.insert
      BY <1>1, <1>2, <2>1, <2>4
    <3>2. Between(w, emItems, emBase, emPipe)
      <4> SUFFICES ASSUME NEW before, NEW k, NEW i, InItem(w, emItems, emBase, emPipe, before, k, i) PROVE FALSE
        BY <3>1 DEF Reached
      <4> DEFINE f == Reference(before)
                 g == Reference(Since(before, emBase))
      <4>1. k \in DOMAIN Bytes \ {"hint"} /\ i \in Nat /\ 1 <= i /\ i < Size(k) /\ Stage(w, k, i, f, g)
        BY EmAssumption DEF InItem, EmAssumption
      <4>2. Size(k) \in Nat
        BY <4>1, CleanBytes
      <4> HIDE DEF f, g, w
      <4>3. /\ i = 1 => InRune(w, f, g) \/ InEsc(w, f, g)
            /\ i = 2 => InCSI(w, 2, FALSE, FALSE, f, g) \/ InStr(w, <<>>, f, g)
            /\ i = 3 => \/ InCSI(w, 3, FALSE, TRUE, f, g) \/ InCSI(w, 3, TRUE, FALSE, f, g)
                        \/ InStr(w, <<Bytes[k][3]>>, f, g)
            /\ i = 4 => InCSI(w, 4, TRUE, TRUE, f, g) \/ InEnd(w, <<Bytes[k][3]>>, f, g)
            /\ i \in {1, 2, 3, 4}
        <5>1. /\ i = 0 => Ground(w, f, g)
              /\ i = 1 => \/ k = "wide" /\ InRune(w, f, g)
                          \/ k \in CSIs \cup Strings \cup {"reset"} /\ InEsc(w, f, g)
              /\ i = 2 => \/ k \in CSIs /\ InCSI(w, 2, FALSE, FALSE, f, g)
                          \/ k \in Strings /\ InStr(w, <<>>, f, g)
              /\ i = 3 => \/ k \in {"repeat", "irmOn", "irmOff"} /\ InCSI(w, 3, FALSE, TRUE, f, g)
                          \/ k = "modeOn" /\ InCSI(w, 3, TRUE, FALSE, f, g)
                          \/ k \in Strings /\ InStr(w, <<Bytes[k][3]>>, f, g)
              /\ i = 4 => \/ k = "modeOn" /\ InCSI(w, 4, TRUE, TRUE, f, g)
                          \/ k \in Strings /\ InEnd(w, <<Bytes[k][3]>>, f, g)
              /\ i \in 0 .. 4
          BY <4>1, <4>2, StageIs
        <5>2. i \in {1, 2, 3, 4}
          BY <4>1, <5>1
        <5> QED
          BY <5>1, <5>2, Zenon
      <4>4. w.scan.st # "scan"
        <5>1. /\ InRune(w, f, g) => w.scan.st = "utf8"
              /\ InEsc(w, f, g) => w.scan.st = "esc"
          BY Zenon DEF InRune, InEsc
        <5>2. \A n, priv, num : InCSI(w, n, priv, num, f, g) => w.scan.st = "csi"
          BY Zenon DEF InCSI
        <5>3. \A buf : (InStr(w, buf, f, g) => w.scan.st = "str") /\ (InEnd(w, buf, f, g) => w.scan.st = "strEnd")
          BY Zenon DEF InStr, InEnd
        <5>4. w.scan.st \in {"utf8", "esc", "csi", "str", "strEnd"}
          BY <4>3, <5>1, <5>2, <5>3, Zenon
        <5> QED
          BY <5>4
      <4> QED
        BY <3>1, <4>4
    <3> DEFINE f == Reference(emItems)
               g == Reference(Since(emItems, emBase))
    <3>3. emPipe = <<>> /\ Same(w, f, g) /\ Shows(Seen(w), "scan", f)
      BY <3>2 DEF Between, Ground
    <3>4. Reference(Since(emItems, Len(emItems))) = RefBlank
      <4>1. Since(emItems, Len(emItems)) = <<>>
        BY <1>1 DEF Since
      <4> QED
        BY <4>1, RefNone
    <3> PICK v : v = Work'
      OBVIOUS
    <3>5. Seen(v) = Seen(w)
      BY <1>2, <1>3, <2>1 DEF Seen
    <3>6. v.scan = ScanReset /\ v.modes = w.modes /\ v.pics = 0 /\ v.pending = FALSE
      BY <1>2, <1>3, <2>1
    <3>7. w.scan.insert \in BOOLEAN
      <4>1. w.scan \in Scan
        BY <1>1, WorkParts
      <4> QED
        BY <4>1 DEF Scan
    <3> HIDE DEF f, g, w
    <3>8. Ground(v, f, RefBlank)
      <4>1. Same(v, f, RefBlank)
        <5>1. f.insert = FALSE
          BY <3>1, <3>3, <3>7 DEF Same
        <5> QED
          BY <3>3, <3>6, <5>1, Blanks DEF Same
      <4>2. v.scan.st = "scan"
        BY <3>6, Blanks
      <4> QED
        BY <3>3, <3>5, <4>1, <4>2 DEF Ground
    <3>9. Reached(v, emItems, Len(emItems), <<>>)
      BY <3>4, <3>8 DEF Reached, Between, f
    <3> QED
      BY <1>1, <2>1, <2>2, <3>3, <3>9 DEF IStream
  <2> QED
    BY <2>3, <2>4
<1>10. CASE UNCHANGED emulatorVars
  BY <1>6, <1>10 DEF emulatorVars
<1> QED
  BY <1>4, <1>5, <1>7, <1>8, <1>9, <1>10 DEF EmulatorNext

\* Once everything is read, the terminal is where the reference is.
LEMMA IStreamKeeps == IAnswers /\ IStream => StreamIntact
<1> SUFFICES ASSUME IAnswers, IStream, emPipe = <<>>, ~emOdd
             PROVE  /\ emVt.out = Reference(emItems).out
                    /\ emModes = Reference(emItems).mode
                    /\ emPics = Reference(SubSeq(emItems, emBase + 1, Len(emItems))).pics
  BY DEF StreamIntact, AllRead
<1> DEFINE w == Work
           f == Reference(emItems)
           g == Reference(Since(emItems, emBase))
<1>1. /\ w.vt = emVt /\ w.run = <<>> /\ w.modes = emModes /\ w.pics = emPics
  BY DEF Work
<1>2. emTaken \in Seq(Nat) /\ w \in Works(emTaken) /\ Ground(Along(WriteByte, w, emPipe), f, g)
  BY RestIsRead DEF IAnswers, IStream
<1>3. Along(WriteByte, w, emPipe) = w
  BY <1>2, WriteNone
<1>4. w.vt \in Vt
  BY <1>2, SeenTyped
<1> HIDE DEF w, f, g
<1>5. Same(w, f, g) /\ Shows(Seen(w), "scan", f)
  BY <1>2, <1>3 DEF Ground
<1>6. Seen(w) = emVt
  BY <1>1, <1>4, VtNone DEF Seen
<1>7. emVt.out = f.out /\ emModes = f.mode /\ emPics = g.pics
  BY <1>1, <1>5, <1>6 DEF Same, Shows
<1> QED
  BY <1>7 DEF f, g, Since

\* Whatever the program writes and wherever reads cut it: once all of it is read, x/vt has
\* done what the program asked for, the mode is the one last set, and the pictures are
\* those completed since the last reset or resize, unless the stream met a gap of the
\* wrapper (Write, trackMode, onRIS, handleAPC, Resize).
THEOREM StreamStaysIntact == EmulatorSpec => []StreamIntact
<1>1. EmulatorInit => IAnswers /\ IStream
  BY IAnswersInit, IStreamInit
<1>2. IAnswers /\ IStream /\ [EmulatorNext]_emulatorVars => (IAnswers /\ IStream)'
  BY IAnswersStep, IStreamStep
<1> QED
  BY <1>1, <1>2, IStreamKeeps, PTL DEF EmulatorSpec

=============================================================================
