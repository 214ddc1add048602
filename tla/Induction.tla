----------------------------- MODULE Induction -----------------------------
(***************************************************************************)
(* Induction over the natural numbers, stated of sets: what holds of 0 and *)
(* is passed on to the next number holds of all, and what a number has is  *)
(* a function of what its predecessor has.                                 *)
(***************************************************************************)
EXTENDS Integers, Sequences, Along, WellFoundedInduction, TLAPS

LEMMA LeastNumber ==
  ASSUME NEW T, T \subseteq Nat, T # {}
  PROVE  \E x \in T : \A y \in T : x <= y
<1> DEFINE Below == {p \in Nat \X Nat : p[1] < p[2]}
<1>1. IsWellFoundedOn(Below, Nat)
  BY NatLessThanWellFounded DEF OpToRel
<1>2. PICK x \in T : \A y \in T : ~(<<y, x>> \in Below)
  <2> HIDE DEF Below
  <2> QED
    BY <1>1, WFMin
<1>3. ASSUME NEW y \in T PROVE x <= y
  <2>1. ~(<<y, x>> \in Nat \X Nat /\ <<y, x>>[1] < <<y, x>>[2])
    BY <1>2
  <2>2. x \in Nat /\ y \in Nat
    OBVIOUS
  <2> QED
    BY <2>1, <2>2, SMT
<1> QED
  BY <1>3

\* Whatever holds of 0, and of n + 1 if it holds of n, holds of every number.
LEMMA Climb ==
  ASSUME NEW S, 0 \in S, \A n \in Nat : n \in S => n + 1 \in S
  PROVE  \A n \in Nat : n \in S
<1> DEFINE T == Nat \ S
<1> SUFFICES ASSUME T # {} PROVE FALSE
  OBVIOUS
<1>1. PICK x \in T : \A y \in T : x <= y
  BY LeastNumber
<1>2. x \in Nat /\ x # 0
  OBVIOUS
<1>3. x - 1 \in Nat /\ x - 1 \notin T
  BY <1>1, <1>2, SMT
<1>4. x - 1 \in S
  BY <1>3
<1> QED
  BY <1>2, <1>3, <1>4, SMT

\* The beginnings of the function that starts at base and goes on with step.
Begins(W, base, step, n) ==
  {g \in [0 .. n -> W] : g[0] = base /\ \A i \in 0 .. n - 1 : g[i + 1] = step[i][g[i]]}

LEMMA BeginningsAgree ==
  ASSUME NEW W, NEW base, NEW step, NEW n \in Nat, NEW m \in Nat,
         NEW g \in Begins(W, base, step, n), NEW h \in Begins(W, base, step, m)
  PROVE  \A i \in Nat : i <= n /\ i <= m => g[i] = h[i]
<1> DEFINE S == {i \in Nat : i <= n /\ i <= m => g[i] = h[i]}
<1>1. 0 \in S
  BY DEF Begins
<1>2. ASSUME NEW i \in Nat, i \in S PROVE i + 1 \in S
  <2> SUFFICES ASSUME i + 1 <= n, i + 1 <= m PROVE g[i + 1] = h[i + 1]
    OBVIOUS
  <2>1. i \in 0 .. n - 1 /\ i \in 0 .. m - 1 /\ i <= n /\ i <= m
    BY SMT
  <2>2. g[i] = h[i]
    BY <1>2, <2>1
  <2>3. g[i + 1] = step[i][g[i]] /\ h[i + 1] = step[i][h[i]]
    BY <2>1 DEF Begins
  <2> QED
    BY <2>2, <2>3
<1>3. \A i \in Nat : i \in S
  <2> HIDE DEF S
  <2> QED
    BY <1>1, <1>2, Climb
<1> QED
  BY <1>3

LEMMA BeginningsExist ==
  ASSUME NEW W, NEW base \in W, NEW step, \A n \in Nat, x \in W : step[n][x] \in W
  PROVE  \A n \in Nat : Begins(W, base, step, n) # {}
<1> DEFINE S == {n \in Nat : Begins(W, base, step, n) # {}}
<1>1. 0 \in S
  <2>1. [i \in 0 .. 0 |-> base] \in Begins(W, base, step, 0)
    BY SMT DEF Begins
  <2> QED
    BY <2>1
<1>2. ASSUME NEW n \in Nat, n \in S PROVE n + 1 \in S
  <2>1. PICK g : g \in Begins(W, base, step, n)
    BY <1>2
  <2> DEFINE h == [i \in 0 .. n + 1 |-> IF i <= n THEN g[i] ELSE step[n][g[n]]]
  <2>2. g \in [0 .. n -> W] /\ g[0] = base /\ \A i \in 0 .. n - 1 : g[i + 1] = step[i][g[i]]
    BY <2>1 DEF Begins
  <2>3. step[n][g[n]] \in W
    BY <2>2, SMT
  <2>4. h \in [0 .. n + 1 -> W]
    BY <2>2, <2>3, SMT
  <2>5. h[0] = base
    BY <2>2, SMT
  <2>6. ASSUME NEW i \in 0 .. (n + 1) - 1 PROVE h[i + 1] = step[i][h[i]]
    <3>1. CASE i < n
      BY <2>2, <3>1, SMT
    <3>2. CASE i = n
      BY <2>2, <3>2, SMT
    <3> QED
      BY <3>1, <3>2, SMT
  <2>7. h \in Begins(W, base, step, n + 1)
    <3> HIDE DEF h
    <3> QED
      BY <2>4, <2>5, <2>6 DEF Begins
  <2>8. n + 1 \in Nat
    BY SMT
  <2> QED
    BY <2>7, <2>8
<1>3. \A n \in Nat : n \in S
  <2> HIDE DEF S
  <2> QED
    BY <1>1, <1>2, Climb
<1> QED
  BY <1>3

\* What is defined for 0, and for n + 1 from n, is a function.
LEMMA Recursion ==
  ASSUME NEW W, NEW base \in W, NEW step, \A n \in Nat, x \in W : step[n][x] \in W
  PROVE  \E f \in [Nat -> W] : f[0] = base /\ \A n \in Nat : f[n + 1] = step[n][f[n]]
<1> DEFINE From(n) == CHOOSE g : g \in Begins(W, base, step, n)
           f == [n \in Nat |-> From(n)[n]]
<1>1. ASSUME NEW n \in Nat PROVE From(n) \in Begins(W, base, step, n)
  BY BeginningsExist
<1>2. ASSUME NEW n \in Nat PROVE From(n) \in [0 .. n -> W] /\ From(n)[0] = base
  BY <1>1 DEF Begins
<1>3. ASSUME NEW n \in Nat PROVE f[n] = From(n)[n] /\ f[n] \in W
  <2>1. n \in 0 .. n
    BY SMT
  <2>2. From(n)[n] \in W
    BY <1>2, <2>1
  <2> QED
    BY <2>2
<1>4. ASSUME NEW n \in Nat PROVE f[n + 1] = step[n][f[n]]
  <2>1. n + 1 \in Nat /\ n <= n + 1 /\ n <= n /\ n \in 0 .. (n + 1) - 1
    BY SMT
  <2> DEFINE g == From(n)
             h == From(n + 1)
  <2>2. g \in Begins(W, base, step, n) /\ h \in Begins(W, base, step, n + 1)
    BY <1>1, <2>1
  <2>3. f[n] = g[n] /\ f[n + 1] = h[n + 1]
    BY <1>3, <2>1
  <2> HIDE DEF g, h, f, From
  <2>4. h[n + 1] = step[n][h[n]]
    BY <2>1, <2>2 DEF Begins
  <2>5. g[n] = h[n]
    BY <2>1, <2>2, BeginningsAgree
  <2> QED
    BY <2>3, <2>4, <2>5
<1>5. f \in [Nat -> W]
  <2>1. \A n \in Nat : f[n] \in W
    BY <1>3
  <2>2. f = [n \in Nat |-> f[n]]
    OBVIOUS
  <2> HIDE DEF f, From
  <2> QED
    BY <2>1, <2>2
<1>6. f[0] = base
  BY <1>2, <1>3
<1> HIDE DEF f, From
<1> QED
  BY <1>4, <1>5, <1>6

\* The same for the first n steps only, the i-th from i - 1 to i.
Folds(W, base, step, n) ==
  {f \in [0 .. n -> W] : f[0] = base /\ \A i \in 1 .. n : f[i] = step[i][f[i - 1]]}

LEMMA Fold ==
  ASSUME NEW W, NEW base \in W, NEW n \in Nat, NEW step,
         \A i \in 1 .. n, x \in W : step[i][x] \in W
  PROVE  \E f : f \in Folds(W, base, step, n)
<1> DEFINE later == [i \in Nat |-> IF i < n THEN step[i + 1] ELSE [x \in W |-> x]]
<1>1. \A i \in Nat, x \in W : later[i][x] \in W
  OBVIOUS
<1>2. \A i \in 1 .. n : i - 1 \in 0 .. n - 1 /\ (i - 1) + 1 = i /\ later[i - 1] = step[i]
  OBVIOUS
<1> HIDE DEF later
<1>3. PICK f : f \in Begins(W, base, later, n)
  BY <1>1, BeginningsExist
<1>4. f \in [0 .. n -> W] /\ f[0] = base /\ \A i \in 0 .. n - 1 : f[i + 1] = later[i][f[i]]
  BY <1>3 DEF Begins
<1>5. ASSUME NEW i \in 1 .. n PROVE f[i] = step[i][f[i - 1]]
  <2> DEFINE j == i - 1
  <2>1. j \in 0 .. n - 1 /\ j + 1 = i /\ later[j] = step[i]
    BY <1>2
  <2> HIDE DEF j
  <2>2. f[i] = step[i][f[j]]
    BY <1>4, <2>1
  <2> QED
    BY <2>2 DEF j
<1>6. f \in Folds(W, base, step, n)
  BY <1>4, <1>5 DEF Folds
<1> QED
  BY <1>6

\* A function on 0 .. n of which each value is in W if the one before is.
LEMMA StaysIn ==
  ASSUME NEW W, NEW n \in Nat, NEW f, f = [i \in 0 .. n |-> f[i]], f[0] \in W,
         \A i \in 1 .. n : f[i - 1] \in W => f[i] \in W
  PROVE  f \in [0 .. n -> W]
<1> DEFINE S == {i \in Nat : i <= n => f[i] \in W}
<1>1. 0 \in S
  OBVIOUS
<1>2. ASSUME NEW i \in Nat, i \in S PROVE i + 1 \in S
  <2> SUFFICES ASSUME i + 1 <= n PROVE f[i + 1] \in W
    OBVIOUS
  <2>1. i <= n /\ i + 1 \in 1 .. n /\ (i + 1) - 1 = i
    OBVIOUS
  <2> QED
    BY <1>2, <2>1
<1>3. \A i \in Nat : i \in S
  <2> HIDE DEF S
  <2> QED
    BY <1>1, <1>2, Climb
<1>4. \A i \in 0 .. n : f[i] \in W
  BY <1>3
<1> QED
  BY <1>4

\* Those, element by element.
Grows(E, seq, at) ==
  {f \in [0 .. Len(seq) -> Seq(E)] :
     /\ f[0] = <<>>
     /\ \A i \in 1 .. Len(seq) : f[i] = IF i \in at THEN Append(f[i - 1], seq[i]) ELSE f[i - 1]
     /\ Those(seq, at) = f[Len(seq)]}

LEMMA ThoseGrow ==
  ASSUME NEW E, NEW seq \in Seq(E), NEW at \in SUBSET (1 .. Len(seq))
  PROVE  \E f : f \in Grows(E, seq, at)
<1> DEFINE n == Len(seq)
           ids == [i \in 1 .. n |-> i]
           W == Seq(E)
           Outs(f) == [k \in 0 .. Len(ids) |-> IF k = 0 THEN <<>> ELSE
                         IF ids[k] \in at THEN Append(f[k-1], seq[ids[k]]) ELSE f[k-1]]
           step == [i \in 1 .. n |-> [x \in W |-> IF i \in at THEN Append(x, seq[i]) ELSE x]]
           f == CHOOSE f : f = Outs(f)
<1>0. n \in Nat /\ <<>> \in W /\ \A i \in 1 .. n : seq[i] \in E
  OBVIOUS
<1>1. ids \in Seq(Nat) /\ Len(ids) = n /\ \A k \in 1 .. n : ids[k] = k
  BY <1>0
<1>2. \A i \in 1 .. n, x \in W : step[i][x] \in W /\ step[i][x] = IF i \in at THEN Append(x, seq[i]) ELSE x
  BY <1>0
<1>3. PICK h : h \in Folds(W, <<>>, step, n)
  <2>1. \A i \in 1 .. n, x \in W : step[i][x] \in W
    BY <1>2
  <2> HIDE DEF step, n, W
  <2> QED
    BY <1>0, <2>1, Fold
<1>4. h \in [0 .. n -> W] /\ h[0] = <<>> /\ \A i \in 1 .. n : h[i] = step[i][h[i - 1]]
  <2> HIDE DEF step, n, W
  <2> QED
    BY <1>3 DEF Folds
<1>5. h = Outs(h)
  <2>1. ASSUME NEW i \in 0 .. n PROVE h[i] = Outs(h)[i]
    <3>1. CASE i = 0
      BY <1>1, <1>4, <3>1
    <3>2. CASE i # 0
      <4>1. i \in 1 .. n /\ i - 1 \in 0 .. n /\ ids[i] = i
        BY <1>0, <1>1, <3>2
      <4>2. h[i] = step[i][h[i - 1]] /\ h[i - 1] \in W
        <5> HIDE DEF step, W
        <5> QED
          BY <1>4, <4>1
      <4>3. step[i][h[i - 1]] = IF i \in at THEN Append(h[i - 1], seq[i]) ELSE h[i - 1]
        <5> HIDE DEF step, W
        <5> QED
          BY <1>2, <4>1, <4>2
      <4>4. Outs(h)[i] = IF i \in at THEN Append(h[i - 1], seq[i]) ELSE h[i - 1]
        BY <1>1, <3>2, <4>1
      <4> HIDE DEF step, Outs
      <4> QED
        BY <4>2, <4>3, <4>4
    <3> QED
      BY <3>1, <3>2
  <2>2. h = [i \in 0 .. n |-> h[i]]
    BY <1>4
  <2>3. Outs(h) = [i \in 0 .. n |-> Outs(h)[i]]
    BY <1>1
  <2> HIDE DEF Outs, ids, n
  <2> QED
    BY <2>1, <2>2, <2>3
<1>6. f = Outs(f)
  <2> HIDE DEF Outs
  <2> QED
    BY <1>5
<1>7. /\ f = [i \in 0 .. n |-> f[i]] /\ f[0] = <<>>
      /\ \A i \in 1 .. n : f[i] = IF i \in at THEN Append(f[i - 1], seq[i]) ELSE f[i - 1]
  <2>1. f = [i \in 0 .. n |-> f[i]]
    <3> HIDE DEF f, n, ids
    <3> QED
      BY <1>1, <1>6
  <2>2. \A i \in 0 .. n : f[i] = IF i = 0 THEN <<>> ELSE IF ids[i] \in at THEN Append(f[i - 1], seq[ids[i]]) ELSE f[i - 1]
    <3> HIDE DEF f, n, ids
    <3>1. \A i \in 0 .. n : Outs(f)[i] = IF i = 0 THEN <<>> ELSE IF ids[i] \in at THEN Append(f[i - 1], seq[ids[i]]) ELSE f[i - 1]
      BY <1>1
    <3> HIDE DEF Outs
    <3> QED
      BY <1>6, <3>1
  <2> HIDE DEF f, n, ids
  <2>3. f[0] = <<>>
    BY <1>0, <2>2
  <2>4. ASSUME NEW i \in 1 .. n
        PROVE  f[i] = IF i \in at THEN Append(f[i - 1], seq[i]) ELSE f[i - 1]
    <3>1. i \in 0 .. n /\ i # 0 /\ ids[i] = i
      BY <1>0, <1>1
    <3> QED
      BY <2>2, <3>1
  <2> QED
    BY <2>1, <2>3, <2>4
<1>8. f \in [0 .. n -> W]
  <2> HIDE DEF f, n
  <2>1. ASSUME NEW i \in 1 .. n, f[i - 1] \in W PROVE f[i] \in W
    <3>1. seq[i] \in E
      BY <1>0
    <3>2. f[i] = IF i \in at THEN Append(f[i - 1], seq[i]) ELSE f[i - 1]
      BY <1>7
    <3>3. Append(f[i - 1], seq[i]) \in W
      BY <2>1, <3>1
    <3> QED
      BY <2>1, <3>2, <3>3
  <2> HIDE DEF W
  <2> QED
    BY <1>0, <1>7, <2>1, StaysIn, Zenon
<1>9. Those(seq, at) = f[n]
  BY <1>1 DEF Those, Along
<1> HIDE DEF f
<1>10. f \in Grows(E, seq, at)
  BY <1>7, <1>8, <1>9 DEF Grows
<1> QED
  BY <1>10

=============================================================================
