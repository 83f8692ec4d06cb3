--------------------------- MODULE Context_proofs ---------------------------
(***************************************************************************)
(* What FetchContext makes of an answer of VictoriaLogs, for every answer  *)
(* and every budget: the context is the longest newest part that fits.     *)
(* The model's loops are recursive functions; that such a function exists, *)
(* and what it computes, is proved from the first place where it would not *)
(* (a nonempty set of natural numbers has a least one).                    *)
(***************************************************************************)
EXTENDS Intake_proofs, SequenceTheorems

\* Induction over the numbers up to N, for a set.
LEMMA Upwards ==
  ASSUME NEW N \in Nat, NEW G, 0 \in G,
         \A n \in 1..N : n - 1 \in G => n \in G
  PROVE  0..N \subseteq G
<1> DEFINE Bad == (0..N) \ G
<1> SUFFICES ASSUME Bad # {} PROVE FALSE
  OBVIOUS
<1>1. Bad \in SUBSET Nat
  OBVIOUS
<1>2. Min(Bad) \in Bad /\ \A i \in Bad : Min(Bad) <= i
  BY <1>1, MinIs
<1> DEFINE m == Min(Bad)
<1>3. m \in 1..N /\ m \notin G
  BY <1>2
<1> HIDE DEF m
<1>4. m - 1 \in (0..N) \ Bad
  BY <1>2, <1>3 DEF m
<1>5. QED BY <1>3, <1>4

Steps(N, S) == [1..N -> [S -> S]]
Follows(f, N, S, a, F) ==
  f \in [0..N -> S] /\ f[0] = a /\ \A n \in 1..N : f[n] = F[n][f[n - 1]]

\* A function on 0..N is given by its first value and its steps.
LEMMA Recursion ==
  ASSUME NEW N \in Nat, NEW S, NEW a \in S, NEW F \in Steps(N, S)
  PROVE  \E f : Follows(f, N, S, a, F)
<1> USE DEF Steps, Follows
<1> DEFINE Upto(n, f) == /\ f \in [0..n -> S] /\ f[0] = a
                         /\ \A i \in 1..n : f[i] = F[i][f[i - 1]]
           G == {n \in 0..N : \E f : Upto(n, f)}
<1>1. 0 \in G
  <2>1. Upto(0, [i \in 0..0 |-> a])
    OBVIOUS
  <2> HIDE DEF Upto
  <2>2. QED BY <2>1
<1>2. ASSUME NEW n \in 1..N, n - 1 \in G PROVE n \in G
  <2>1. PICK f : Upto(n - 1, f)
    BY <1>2
  <2> DEFINE g == [i \in 0..n |-> IF i = n THEN F[n][f[n - 1]] ELSE f[i]]
  <2>2. n - 1 \in 0..(n - 1) /\ f[n - 1] \in S
    BY <2>1
  <2>3. F[n][f[n - 1]] \in S
    BY <2>2
  <2>4. g \in [0..n -> S] /\ g[0] = a
    BY <2>1, <2>3
  <2>5. ASSUME NEW i \in 1..n PROVE g[i] = F[i][g[i - 1]]
    <3>1. g[i - 1] = f[i - 1]
      OBVIOUS
    <3>2. CASE i = n
      BY <3>1, <3>2
    <3>3. CASE i # n
      <4>1. i \in 1..(n - 1)
        BY <3>3
      <4>2. QED BY <2>1, <3>1, <3>3, <4>1
    <3>4. QED BY <3>2, <3>3
  <2>6. Upto(n, g)
    BY <2>4, <2>5
  <2> HIDE DEF Upto, g
  <2>7. n \in 0..N
    OBVIOUS
  <2>8. QED BY <2>6, <2>7
<1>3. N \in G
  <2>1. 0..N \subseteq G
    BY <1>1, <1>2, Upwards
  <2>2. QED BY <2>1
<1>4. QED BY <1>3
-----------------------------------------------------------------------------
(* The loops of client.go.                                                 *)

Parsed(lines) == {i \in DOMAIN lines : lines[i] # 0}

LEMMA LinesAre ==
  ASSUME NEW lines \in Answers \union {<<>>}
  PROVE  /\ Len(lines) \in Nat /\ DOMAIN lines = 1..Len(lines)
         /\ \A i \in 1..Len(lines) : lines[i] \in Nat
<1>1. CASE lines \in Answers
  <2>1. PICK n \in 0..MaxLines : lines \in [1..n -> LineBytes]
    BY <1>1 DEF Answers
  <2>2. n \in Nat /\ lines \in Seq(LineBytes) /\ LineBytes \subseteq Nat
    BY <2>1, IntakeAssumption
  <2>3. Len(lines) \in Nat /\ DOMAIN lines = 1..Len(lines)
    BY <2>2, LenProperties
  <2>4. \A i \in 1..Len(lines) : lines[i] \in LineBytes
    BY <2>2, ElementOfSeq
  <2>5. QED BY <2>2, <2>3, <2>4
<1>2. CASE lines = <<>>
  BY <1>2
<1>3. QED BY <1>1, <1>2

\* The numbers of a loop that adds c[k] in its step k.
Adds(f, N, c) ==
  f \in [0..N -> Nat] /\ f[0] = 0 /\ \A k \in 1..N : f[k] = f[k - 1] + c[k]

LEMMA Adding ==
  ASSUME NEW N \in Nat, NEW c \in [1..N -> Nat]
  PROVE  \E f : Adds(f, N, c)
<1> DEFINE F == [k \in 1..N |-> [n \in Nat |-> n + c[k]]]
<1>1. F \in Steps(N, Nat) /\ \A k \in 1..N, n \in Nat : F[k][n] = n + c[k]
  BY DEF Steps
<1> HIDE DEF F
<1>2. PICK f : Follows(f, N, Nat, 0, F)
  BY <1>1, Recursion
<1>3. f \in [0..N -> Nat] /\ f[0] = 0 /\ \A k \in 1..N : f[k] = F[k][f[k - 1]]
  BY <1>2 DEF Follows
<1>4. \A k \in 1..N : f[k] = f[k - 1] + c[k]
  <2>1. \A k \in 1..N : k - 1 \in 0..N
    OBVIOUS
  <2>2. \A k \in 1..N : f[k - 1] \in Nat
    BY <1>3, <2>1
  <2>3. QED BY <1>1, <1>3, <2>2
<1>5. QED BY <1>3, <1>4 DEF Adds

Sizes(lines, order, N) == \A i \in 1..N : lines[order[i]] \in Nat

Totals(T, lines, order, N) ==
  /\ T \in [0..N -> Nat] /\ T[0] = 0
  /\ \A k \in 1..N : T[k] = T[k - 1] + (lines[order[N + 1 - k]] + 1)

\* The total of the loop, step by step.
LEMMA TotalIs ==
  ASSUME NEW lines, NEW order, NEW N \in Nat, Len(order) = N, Sizes(lines, order, N)
  PROVE  Totals(Total(order, lines), lines, order, N)
<1> DEFINE B(k) == lines[order[N + 1 - k]] + 1
           Is(f) == f = [k \in 0..N |-> IF k = 0 THEN 0 ELSE f[k - 1] + B(k)]
<1>1. \A k \in 1..N : N + 1 - k \in 1..N /\ B(k) \in Nat
  BY DEF Sizes
<1>2. Total(order, lines) = CHOOSE t : Is(t)
  BY DEF Total, Cost
<1> HIDE DEF B
<1> DEFINE c == [k \in 1..N |-> B(k)]
<1>3. c \in [1..N -> Nat] /\ \A k \in 1..N : c[k] = B(k)
  BY <1>1
<1> HIDE DEF c
<1>4. PICK f \in [0..N -> Nat] : f[0] = 0 /\ \A k \in 1..N : f[k] = f[k - 1] + B(k)
  <2>1. PICK f : Adds(f, N, c)
    BY <1>3, Adding
  <2>2. QED BY <1>3, <2>1 DEF Adds
<1>5. Is(f)
  BY <1>4
<1> DEFINE t == Total(order, lines)
<1>6. Is(t)
  <2> HIDE DEF Is
  <2>1. QED BY <1>2, <1>5
<1> HIDE DEF t
<1>7. t[0] = 0 /\ DOMAIN t = 0..N /\ \A k \in 1..N : t[k] = t[k - 1] + B(k)
  BY <1>6
<1> DEFINE G == {k \in 0..N : t[k] \in Nat}
<1>8. 0 \in G /\ \A k \in 1..N : k - 1 \in G => k \in G
  BY <1>1, <1>7
<1>9. 0..N \subseteq G
  <2> HIDE DEF G
  <2>1. QED BY <1>8, Upwards
<1>10. t \in [0..N -> Nat]
  BY <1>6, <1>9
<1>11. QED BY <1>7, <1>10 DEF t, B, Totals

\* The sequence s has the places of the lines that parse, of the first n, the
\* last of them first.
Backwards(s, lines, n) ==
  /\ s \in Seq(Nat)
  /\ \A i, j \in 1..Len(s) : i < j => s[i] > s[j]
  /\ \A i \in 1..Len(s) : s[i] \in 1..n /\ lines[s[i]] # 0
  /\ \A p \in 1..n : lines[p] # 0 => \E i \in 1..Len(s) : s[i] = p

LEMMA Prepended ==
  ASSUME NEW n \in Nat, NEW s \in Seq(Nat)
  PROVE  /\ <<n>> \o s \in Seq(Nat) /\ Len(<<n>> \o s) = Len(s) + 1
         /\ (<<n>> \o s)[1] = n
         /\ \A i \in 1..Len(s) : (<<n>> \o s)[i + 1] = s[i]
<1>1. <<n>> \in Seq(Nat) /\ Len(<<n>>) = 1 /\ <<n>>[1] = n
  OBVIOUS
<1>2. Len(s) \in Nat
  BY LenProperties
<1>3. /\ <<n>> \o s \in Seq(Nat) /\ Len(<<n>> \o s) = Len(<<n>>) + Len(s)
      /\ \A i \in 1..(Len(<<n>>) + Len(s)) :
           (<<n>> \o s)[i] = IF i <= Len(<<n>>) THEN <<n>>[i] ELSE s[i - Len(<<n>>)]
  BY <1>1, ConcatProperties
<1> HIDE <1>1
<1> DEFINE t == <<n>> \o s
<1> HIDE DEF t
<1>4. \A i \in 1..(1 + Len(s)) : t[i] = IF i <= 1 THEN n ELSE s[i - 1]
  BY <1>1, <1>3 DEF t
<1>5. QED BY <1>1, <1>2, <1>3, <1>4 DEF t

LEMMA BackwardsStep ==
  ASSUME NEW lines, NEW n \in Nat \ {0}, NEW s, Backwards(s, lines, n - 1)
  PROVE  Backwards(IF lines[n] = 0 THEN s ELSE <<n>> \o s, lines, n)
<1>1. s \in Seq(Nat) /\ Len(s) \in Nat
  BY LenProperties DEF Backwards
<1>2. CASE lines[n] = 0
  BY <1>2 DEF Backwards
<1>3. CASE lines[n] # 0
  <2> DEFINE t == <<n>> \o s
  <2>1. /\ t \in Seq(Nat) /\ Len(t) = Len(s) + 1 /\ t[1] = n
        /\ \A i \in 1..Len(s) : t[i + 1] = s[i]
    BY <1>1, Prepended
  <2> HIDE DEF t
  <2>2. \A i \in 1..Len(t) : i = 1 \/ (i - 1 \in 1..Len(s) /\ t[i] = s[i - 1])
    <3> SUFFICES ASSUME NEW i \in 1..Len(t), i # 1
                 PROVE  i - 1 \in 1..Len(s) /\ t[i] = s[i - 1]
      OBVIOUS
    <3>1. i - 1 \in 1..Len(s) /\ (i - 1) + 1 = i
      BY <1>1, <2>1
    <3>2. QED BY <2>1, <3>1
  <2>3. \A i \in 1..Len(s) : s[i] \in 1..(n - 1) /\ s[i] < n /\ lines[s[i]] # 0
    BY DEF Backwards
  <2>4. \A i, j \in 1..Len(t) : i < j => t[i] > t[j]
    <3> SUFFICES ASSUME NEW i \in 1..Len(t), NEW j \in 1..Len(t), i < j PROVE t[i] > t[j]
      OBVIOUS
    <3>1. j - 1 \in 1..Len(s) /\ t[j] = s[j - 1]
      BY <1>1, <2>1, <2>2
    <3>2. CASE i = 1
      BY <2>1, <2>3, <3>1, <3>2
    <3>3. CASE i # 1
      <4>1. i - 1 \in 1..Len(s) /\ t[i] = s[i - 1] /\ i - 1 < j - 1
        BY <1>1, <2>1, <2>2, <3>3
      <4>2. QED BY <3>1, <4>1 DEF Backwards
    <3>4. QED BY <3>2, <3>3
  <2>5. ASSUME NEW i \in 1..Len(t) PROVE t[i] \in 1..n /\ lines[t[i]] # 0
    <3>1. CASE i = 1
      BY <1>3, <2>1, <3>1
    <3>2. CASE i # 1
      <4>1. i - 1 \in 1..Len(s) /\ t[i] = s[i - 1]
        BY <2>2, <3>2
      <4>2. s[i - 1] \in 1..(n - 1) /\ lines[s[i - 1]] # 0
        BY <2>3, <4>1
      <4>3. QED BY <4>1, <4>2
    <3>3. QED BY <3>1, <3>2
  <2>6. ASSUME NEW p \in 1..n, lines[p] # 0 PROVE \E i \in 1..Len(t) : t[i] = p
    <3>1. CASE p = n
      <4>1. 1 \in 1..Len(t)
        BY <1>1, <2>1
      <4>2. QED BY <2>1, <3>1, <4>1
    <3>2. CASE p # n
      <4>1. p \in 1..(n - 1)
        BY <3>2
      <4>2. PICK i \in 1..Len(s) : s[i] = p
        BY <2>6, <4>1 DEF Backwards
      <4>3. i + 1 \in 1..Len(t) /\ t[i + 1] = p
        BY <1>1, <2>1, <4>2
      <4>4. QED BY <4>3
    <3>3. QED BY <3>1, <3>2
  <2>7. Backwards(t, lines, n)
    BY <2>1, <2>4, <2>5, <2>6 DEF Backwards
  <2>8. QED BY <1>3, <2>7 DEF t
<1>4. QED BY <1>2, <1>3

\* The scan finds the lines that parse, and reverse puts the oldest first.
LEMMA ScannedIs ==
  ASSUME NEW lines, Len(lines) \in Nat
  PROVE  Backwards(Scanned(lines)[Len(lines)], lines, Len(lines))
<1> DEFINE N == Len(lines)
           After(n, s) == IF lines[n] = 0 THEN s ELSE <<n>> \o s
           F == [n \in 1..N |-> [s \in Seq(Nat) |-> After(n, s)]]
           Is(f) == f = [n \in 0..N |-> IF n = 0 THEN <<>>
                                         ELSE IF lines[n] = 0 THEN f[n - 1]
                                              ELSE <<n>> \o f[n - 1]]
<1>1. Scanned(lines) = CHOOSE f : Is(f)
  BY DEF Scanned
<1>2. \A n \in 1..N, s \in Seq(Nat) : After(n, s) \in Seq(Nat)
  <2>1. \A n \in 1..N, s \in Seq(Nat) : <<n>> \o s \in Seq(Nat)
    BY Prepended
  <2>2. QED BY <2>1
<1>3. <<>> \in Seq(Nat)
  OBVIOUS
<1>4. \A f : Is(f) <=> f = [n \in 0..N |-> IF n = 0 THEN <<>> ELSE After(n, f[n - 1])]
  OBVIOUS
<1> HIDE DEF After
<1>5. F \in Steps(N, Seq(Nat)) /\ \A n \in 1..N, s \in Seq(Nat) : F[n][s] = After(n, s)
  BY <1>2 DEF Steps
<1> HIDE DEF F, Is
<1>6. PICK f : Follows(f, N, Seq(Nat), <<>>, F)
  BY <1>3, <1>5, Recursion
<1>7. Is(f)
  <2>1. f \in [0..N -> Seq(Nat)] /\ f[0] = <<>> /\ \A n \in 1..N : f[n] = F[n][f[n - 1]]
    BY <1>6 DEF Follows
  <2>2. \A n \in 1..N : n - 1 \in 0..N
    OBVIOUS
  <2>3. \A n \in 1..N : f[n] = After(n, f[n - 1])
    BY <1>5, <2>1, <2>2
  <2>4. f = [n \in 0..N |-> f[n]]
    BY <2>1
  <2>5. \A n \in 0..N : f[n] = IF n = 0 THEN <<>> ELSE After(n, f[n - 1])
    BY <2>1, <2>3
  <2>6. QED BY <1>4, <2>4, <2>5
<1> DEFINE sc == Scanned(lines)
<1>8. Is(sc)
  BY <1>1, <1>7
<1> HIDE DEF sc
<1>9. sc[0] = <<>> /\ \A n \in 1..N : sc[n] = After(n, sc[n - 1])
  BY <1>4, <1>8
<1> DEFINE G == {n \in 0..N : Backwards(sc[n], lines, n)}
<1>10. 0 \in G
  <2>1. Backwards(<<>>, lines, 0)
    BY <1>3 DEF Backwards
  <2>2. QED BY <1>9, <2>1
<1>11. ASSUME NEW n \in 1..N, n - 1 \in G PROVE n \in G
  <2>1. Backwards(sc[n - 1], lines, n - 1) /\ n \in Nat \ {0}
    BY <1>11
  <2>2. Backwards(After(n, sc[n - 1]), lines, n)
    BY <2>1, BackwardsStep DEF After
  <2>3. QED BY <1>9, <2>2
<1>12. N \in G
  <2> HIDE DEF G
  <2>1. 0..N \subseteq G
    BY <1>10, <1>11, Upwards
  <2>2. QED BY <2>1
<1>13. QED BY <1>12 DEF sc

LEMMA Minus ==
  ASSUME NEW x \in Nat, NEW y \in Nat, NEW z \in Nat, NEW b \in Nat,
         NEW v \in Nat, NEW w \in Nat,
         y = z + b + 1, v = x - y - 1, w = v + (b + 1)
  PROVE  w = x - z - 1
  OBVIOUS

\* The numbers of join, when the loop's go up by b[n] + 1 from T[k - n].
LEMMA Suffix ==
  ASSUME NEW k \in Nat, NEW T \in [0..k -> Nat], T[0] = 0,
         NEW b \in [1..k -> Nat], \A n \in 1..k : T[k - n + 1] = T[k - n] + b[n] + 1,
         NEW j \in [0..k -> Nat], j[0] = 0,
         \A n \in 1..k : j[n] = j[n - 1] + (b[n] + (IF n = 1 THEN 0 ELSE 1))
  PROVE  j[k] = IF k = 0 THEN 0 ELSE T[k] - 1
<1> DEFINE G == {n \in 0..k : n = 0 \/ j[n] = T[k] - T[k - n] - 1}
<1>1. 0 \in G
  OBVIOUS
<1>2. ASSUME NEW n \in 1..k, n - 1 \in G PROVE n \in G
  <2>1. k - n \in 0..k /\ k - n + 1 \in 0..k /\ n - 1 \in 0..k /\ n \in 0..k /\ k \in 0..k
    OBVIOUS
  <2>2. /\ T[k - n] \in Nat /\ T[k - n + 1] \in Nat /\ T[k] \in Nat
        /\ b[n] \in Nat /\ j[n - 1] \in Nat /\ j[n] \in Nat
    BY <2>1
  <2>3. T[k - n + 1] = T[k - n] + b[n] + 1
    OBVIOUS
  <2>4. CASE n = 1
    <3>1. j[1] = b[1]
      BY <2>2, <2>4
    <3>2. k - n + 1 = k
      BY <2>4
    <3>3. T[k] = T[k - n] + b[n] + 1
      BY <2>3, <3>2
    <3>4. j[n] = T[k] - T[k - n] - 1
      BY <2>2, <2>4, <3>1, <3>3
    <3>5. QED BY <3>4
  <2>5. CASE n # 1
    <3>1. n - 1 # 0 /\ k - (n - 1) = k - n + 1
      BY <2>5
    <3>2. j[n - 1] = T[k] - T[k - n + 1] - 1
      BY <1>2, <3>1
    <3>3. j[n] = j[n - 1] + (b[n] + 1)
      BY <2>5
    <3>4. j[n] = T[k] - T[k - n] - 1
      <4> HIDE DEF G
      <4>1. PICK x \in Nat, y \in Nat, z \in Nat, u \in Nat, v \in Nat, w \in Nat :
              /\ x = T[k] /\ y = T[k - n + 1] /\ z = T[k - n]
              /\ u = b[n] /\ v = j[n - 1] /\ w = j[n]
        BY <2>2
      <4>2. y = z + u + 1 /\ v = x - y - 1 /\ w = v + (u + 1)
        BY <2>3, <3>2, <3>3, <4>1
      <4>3. w = x - z - 1
        BY <4>2, Minus
      <4>4. QED BY <4>1, <4>3
    <3>5. QED BY <3>4
  <2>6. QED BY <2>4, <2>5
<1>3. k \in G
  <2> HIDE DEF G
  <2>1. 0..k \subseteq G
    BY <1>1, <1>2, Upwards
  <2>2. QED BY <2>1
<1>4. k - k = 0 /\ T[k] \in Nat
  OBVIOUS
<1>5. QED BY <1>3, <1>4

\* The places c are the last k of order's L.
LastOf(c, k, order, L) ==
  /\ Len(order) = L /\ Len(c) = k
  /\ \A i \in 1..k : c[i] = order[L - k + i]

\* The last k of the places, joined, have the bytes of k steps of the loop, less
\* the newline that join does not write.
LEMMA JoinedIs ==
  ASSUME NEW lines, NEW order, NEW L \in Nat, NEW k \in Nat, k <= L, NEW c,
         Sizes(lines, order, L), LastOf(c, k, order, L)
  PROVE  Joined(lines, c) = IF k = 0 THEN 0 ELSE Total(order, lines)[k] - 1
<1> DEFINE T == Total(order, lines)
           B(n) == lines[c[n]] + (IF n = 1 THEN 0 ELSE 1)
           Is(f) == f = [n \in 0..k |-> IF n = 0 THEN 0 ELSE f[n - 1] + B(n)]
<1>1. /\ T \in [0..L -> Nat] /\ T[0] = 0
      /\ \A n \in 1..L : T[n] = T[n - 1] + (lines[order[L + 1 - n]] + 1)
  <2>1. Len(order) = L
    BY DEF LastOf
  <2>2. Totals(T, lines, order, L)
    BY <2>1, TotalIs
  <2> HIDE DEF T
  <2>3. QED BY <2>2 DEF Totals
<1> HIDE DEF T
<1>2. ASSUME NEW n \in 1..k
      PROVE  lines[c[n]] \in Nat /\ T[k - n + 1] = T[k - n] + lines[c[n]] + 1
  <2>1. k - n + 1 \in 1..L /\ L - k + n \in 1..L /\ k - n \in 0..L
    OBVIOUS
  <2>2. /\ L + 1 - (k - n + 1) = L - k + n /\ (k - n + 1) - 1 = k - n
    OBVIOUS
  <2>3. c[n] = order[L - k + n]
    BY DEF LastOf
  <2>4. T[k - n + 1] = T[k - n] + (lines[order[L - k + n]] + 1)
    BY <1>1, <2>1, <2>2
  <2>5. T[k - n] \in Nat /\ lines[c[n]] \in Nat
    BY <1>1, <2>1, <2>3 DEF Sizes
  <2>6. QED BY <2>3, <2>4, <2>5
<1>3. Joined(lines, c) = (CHOOSE f : Is(f))[k]
  BY DEF Joined, LastOf
<1>4. \A n \in 1..k : B(n) \in Nat
  BY <1>2
<1> DEFINE b == [n \in 1..k |-> lines[c[n]]]
           d == [n \in 1..k |-> B(n)]
           U == [n \in 0..k |-> T[n]]
<1>5. /\ b \in [1..k -> Nat]
      /\ \A n \in 1..k : b[n] = lines[c[n]] /\ B(n) = b[n] + (IF n = 1 THEN 0 ELSE 1)
  BY <1>2
<1> HIDE DEF b, B
<1>6. d \in [1..k -> Nat] /\ \A n \in 1..k : d[n] = B(n)
  BY <1>4
<1> HIDE DEF d
<1>7. PICK f \in [0..k -> Nat] : f[0] = 0 /\ \A n \in 1..k : f[n] = f[n - 1] + B(n)
  <2>1. PICK f : Adds(f, k, d)
    BY <1>6, Adding
  <2>2. QED BY <1>6, <2>1 DEF Adds
<1>8. Is(f)
  BY <1>7
<1> DEFINE j == CHOOSE g : Is(g)
<1>9. Is(j)
  <2> HIDE DEF Is
  <2>1. QED BY <1>8
<1> HIDE DEF j
<1>10. DOMAIN j = 0..k /\ j[0] = 0 /\ \A n \in 1..k : j[n] = j[n - 1] + B(n)
  BY <1>9
<1> HIDE DEF Is
<1> DEFINE H == {n \in 0..k : j[n] \in Nat}
<1>11. 0..k \subseteq H
  <2>1. 0 \in H /\ \A n \in 1..k : n - 1 \in H => n \in H
    BY <1>4, <1>10
  <2> HIDE DEF H
  <2>2. QED BY <2>1, Upwards
<1>12. j \in [0..k -> Nat]
  <2>1. j = [n \in 0..k |-> j[n]]
    BY <1>9 DEF Is
  <2>2. QED BY <1>11, <2>1
<1>13. U \in [0..k -> Nat] /\ \A n \in 0..k : U[n] = T[n]
  BY <1>1
<1> HIDE DEF U
<1>14. \A n \in 1..k : U[k - n + 1] = U[k - n] + b[n] + 1
  <2>1. \A n \in 1..k : k - n + 1 \in 0..k /\ k - n \in 0..k
    OBVIOUS
  <2>2. QED BY <1>2, <1>5, <1>13, <2>1
<1>15. \A n \in 1..k : j[n] = j[n - 1] + (b[n] + (IF n = 1 THEN 0 ELSE 1))
  BY <1>5, <1>10
<1>16. U[0] = 0 /\ U[k] = T[k]
  BY <1>1, <1>13
<1>17. j[k] = IF k = 0 THEN 0 ELSE U[k] - 1
  BY <1>5, <1>10, <1>12, <1>13, <1>14, <1>15, <1>16, Suffix
<1>18. QED BY <1>3, <1>16, <1>17 DEF j, T
-----------------------------------------------------------------------------
(* What truncateOldestFirst takes.                                         *)

\* After k steps the budget holds, and no longer part fits.
Fits(k, T, L, bytes) ==
  k \in 0..L /\ T[k] <= bytes /\ \A j \in (k + 1)..L : T[j] > bytes

LEMMA SomeFits ==
  ASSUME NEW L \in Nat, NEW T \in [0..L -> Nat], T[0] = 0, NEW bytes \in Nat
  PROVE  \E k : Fits(k, T, L, bytes)
<1> DEFINE K == {m \in 0..L : T[L - m] <= bytes}
<1>1. L \in K /\ K \in SUBSET Nat
  OBVIOUS
<1>2. Min(K) \in K /\ \A i \in K : Min(K) <= i
  BY <1>1, MinIs
<1> DEFINE m == Min(K)
<1>3. m \in 0..L /\ T[L - m] <= bytes
  BY <1>2
<1>4. ASSUME NEW j \in (L - m + 1)..L PROVE T[j] > bytes
  <2>1. L - j \in 0..L /\ L - j < m /\ L - (L - j) = j
    BY <1>3
  <2>2. L - j \notin K
    <3> HIDE DEF K
    <3>1. QED BY <1>2, <1>3, <2>1
  <2>3. T[j] \in Nat
    BY <1>3
  <2>4. QED BY <2>1, <2>2, <2>3
<1> HIDE DEF m
<1>5. Fits(L - m, T, L, bytes)
  BY <1>3, <1>4 DEF Fits
<1>6. QED BY <1>5

\* The properties of a context c for the answer lines.
Newest(lines, c) ==
  LET parsed == {i \in DOMAIN lines : lines[i] # 0}
      left == parsed \ ToSet(c) IN
  /\ ToSet(c) \subseteq parsed
  /\ \A i, j \in DOMAIN c : i < j => c[i] > c[j]
  /\ Joined(lines, c) <= MaxContextBytes
  /\ \A i \in left, j \in ToSet(c) : i > j
  /\ left # {} => Joined(lines, <<Min(left)>> \o c) >= MaxContextBytes

\* The context is the last k of the places that the scan found.
LEMMA TakenIs ==
  ASSUME NEW lines, NEW N \in Nat, NEW order, Backwards(order, lines, N),
         NEW L \in Nat, Len(order) = L, Sizes(lines, order, L)
  PROVE  \E k : /\ Fits(k, Total(order, lines), L, MaxContextBytes)
                /\ truncateOldestFirst(order, lines, MaxContextBytes) \in Seq(Nat)
                /\ LastOf(truncateOldestFirst(order, lines, MaxContextBytes), k, order, L)
<1> DEFINE T == Total(order, lines)
           k == CHOOSE m \in 0..L :
                  T[m] <= MaxContextBytes /\ \A j \in (m + 1)..L : T[j] > MaxContextBytes
           c == SubSeq(order, L - k + 1, L)
<1>1. truncateOldestFirst(order, lines, MaxContextBytes) = c
  BY DEF truncateOldestFirst
<1>2. Totals(T, lines, order, L)
  BY TotalIs
<1> HIDE DEF T
<1>3. \E m : Fits(m, T, L, MaxContextBytes)
  BY <1>2, SomeFits, IntakeAssumption DEF Totals
<1>4. Fits(k, T, L, MaxContextBytes)
  BY <1>3 DEF Fits
<1>5. k \in 0..L
  BY <1>4 DEF Fits
<1> HIDE DEF k
<1>6. \A i \in (L - k + 1)..L : order[i] \in Nat
  <2>1. order \in Seq(Nat)
    BY DEF Backwards
  <2>2. \A i \in 1..L : order[i] \in Nat
    BY <2>1, ElementOfSeq
  <2>3. QED BY <1>5, <2>2
<1>7. /\ c \in Seq(Nat)
      /\ Len(c) = IF L - k + 1 <= L THEN L - (L - k + 1) + 1 ELSE 0
      /\ \A i \in 1..(L - (L - k + 1) + 1) : c[i] = order[(L - k + 1) + i - 1]
  <2>1. L - k + 1 \in Int /\ L \in Int
    BY <1>5
  <2>2. QED BY <1>6, <2>1, SubSeqProperties
<1> HIDE DEF c
<1>8. LastOf(c, k, order, L)
  <2>1. L - (L - k + 1) + 1 = k /\ (L - k + 1 <= L <=> k # 0)
    BY <1>5
  <2>2. Len(c) = k
    BY <1>5, <1>7, <2>1
  <2>3. \A i \in 1..k : (L - k + 1) + i - 1 = L - k + i
    BY <1>5
  <2>4. QED BY <1>7, <2>1, <2>2, <2>3 DEF LastOf
<1>9. QED BY <1>1, <1>4, <1>7, <1>8 DEF T

\* One place more, at the front.
LEMMA OneMore ==
  ASSUME NEW order, NEW L \in Nat, NEW k \in Nat, k < L, order[L - k] \in Nat,
         NEW c \in Seq(Nat), LastOf(c, k, order, L)
  PROVE  LastOf(<<order[L - k]>> \o c, k + 1, order, L)
<1> DEFINE p == order[L - k]
           d == <<p>> \o c
<1>1. p \in Nat
  OBVIOUS
<1> HIDE DEF p
<1>2. Len(d) = Len(c) + 1 /\ d[1] = p /\ \A i \in 1..Len(c) : d[i + 1] = c[i]
  BY <1>1, Prepended
<1> HIDE DEF d
<1>3. Len(c) = k /\ Len(order) = L /\ \A i \in 1..k : c[i] = order[L - k + i]
  BY DEF LastOf
<1>4. ASSUME NEW i \in 1..(k + 1) PROVE d[i] = order[L - (k + 1) + i]
  <2>1. CASE i = 1
    <3>1. L - (k + 1) + 1 = L - k
      OBVIOUS
    <3>2. QED BY <1>2, <2>1, <3>1 DEF p
  <2>2. CASE i # 1
    <3>1. i - 1 \in 1..k /\ (i - 1) + 1 = i /\ L - k + (i - 1) = L - (k + 1) + i
      BY <2>2
    <3>2. d[(i - 1) + 1] = c[i - 1]
      BY <1>2, <1>3, <3>1
    <3>3. QED BY <1>3, <3>1, <3>2
  <2>3. QED BY <2>1, <2>2
<1>5. LastOf(d, k + 1, order, L)
  BY <1>2, <1>3, <1>4 DEF LastOf
<1>6. QED BY <1>5 DEF d, p

\* An answer's context leaves out the oldest of the lines that parse, and only
\* those that do not fit.
LEMMA ContextIs ==
  ASSUME NEW lines, lines \in Answers \union {<<>>}
  PROVE  Newest(lines, FetchContext(lines))
<1> DEFINE N == Len(lines)
           order == Scanned(lines)[N]
           L == Len(order)
           T == Total(order, lines)
           c == FetchContext(lines)
           parsed == {i \in DOMAIN lines : lines[i] # 0}
           left == parsed \ ToSet(c)
<1>1. N \in Nat /\ DOMAIN lines = 1..N /\ \A i \in 1..N : lines[i] \in Nat
  BY LinesAre
<1>2. Backwards(order, lines, N)
  BY <1>1, ScannedIs
<1> HIDE DEF N
<1>3. c = truncateOldestFirst(order, lines, MaxContextBytes)
  BY DEF FetchContext, N
<1> HIDE DEF order, c
<1>4. /\ order \in Seq(Nat)
      /\ \A i, j \in 1..L : i < j => order[i] > order[j]
      /\ \A i \in 1..L : order[i] \in 1..N /\ lines[order[i]] # 0
      /\ \A p \in 1..N : lines[p] # 0 => \E i \in 1..L : order[i] = p
  BY <1>2 DEF Backwards
<1>5. L \in Nat
  BY <1>4, LenProperties
<1>6. Sizes(lines, order, L)
  BY <1>1, <1>4 DEF Sizes
<1>7. PICK k : /\ Fits(k, T, L, MaxContextBytes) /\ c \in Seq(Nat)
               /\ LastOf(c, k, order, L)
  BY <1>1, <1>2, <1>3, <1>5, <1>6, TakenIs
<1>8. Totals(T, lines, order, L)
  BY <1>5, <1>6, TotalIs
<1>9. k \in Nat /\ k <= L
  BY <1>5, <1>7 DEF Fits
<1>10. DOMAIN c = 1..k /\ Len(c) = k /\ \A i \in 1..k : c[i] = order[L - k + i]
  <2>1. Len(c) = k /\ \A i \in 1..k : c[i] = order[L - k + i]
    BY <1>7 DEF LastOf
  <2>2. QED BY <1>7, <2>1, LenProperties
<1> HIDE DEF T, L
<1>11. ToSet(c) = {order[i] : i \in (L - k + 1)..L}
  <2>1. ToSet(c) = {c[i] : i \in 1..k}
    BY <1>10 DEF ToSet
  <2>2. ASSUME NEW i \in 1..k PROVE c[i] \in {order[n] : n \in (L - k + 1)..L}
    <3>1. L - k + i \in (L - k + 1)..L
      BY <1>5, <1>9
    <3>2. QED BY <1>10, <3>1
  <2>3. ASSUME NEW n \in (L - k + 1)..L PROVE order[n] \in {c[i] : i \in 1..k}
    <3>1. n - (L - k) \in 1..k /\ L - k + (n - (L - k)) = n
      BY <1>5, <1>9
    <3>2. c[n - (L - k)] = order[n]
      BY <1>10, <3>1
    <3>3. QED BY <3>1, <3>2
  <2>4. QED BY <2>1, <2>2, <2>3
<1>12. ToSet(c) \subseteq parsed
  <2>1. \A i \in (L - k + 1)..L : i \in 1..L
    BY <1>5, <1>9
  <2>2. QED BY <1>1, <1>4, <1>11, <2>1 DEF L
<1>13. ASSUME NEW i \in DOMAIN c, NEW j \in DOMAIN c, i < j PROVE c[i] > c[j]
  <2>1. L - k + i \in 1..L /\ L - k + j \in 1..L /\ L - k + i < L - k + j
    BY <1>5, <1>9, <1>10, <1>13
  <2>2. order[L - k + i] > order[L - k + j]
    BY <1>4, <2>1 DEF L
  <2>3. QED BY <1>10, <2>2
<1>14. Joined(lines, c) <= MaxContextBytes
  <2>1. Joined(lines, c) = IF k = 0 THEN 0 ELSE T[k] - 1
    BY <1>5, <1>6, <1>7, <1>9, JoinedIs DEF T
  <2>2. T[k] \in Nat /\ T[k] <= MaxContextBytes
    BY <1>5, <1>7, <1>8, <1>9 DEF Fits, Totals
  <2>3. QED BY <2>1, <2>2, IntakeAssumption
\* The lines left out are the oldest ones.
<1>15. ASSUME NEW p \in left PROVE \E i \in 1..(L - k) : order[i] = p
  <2>1. PICK i \in 1..L : order[i] = p
    BY <1>1, <1>4 DEF L
  <2>2. i \notin (L - k + 1)..L
    BY <1>11, <2>1
  <2>3. i \in 1..(L - k)
    BY <1>5, <1>9, <2>2
  <2>4. QED BY <2>1, <2>3
<1>16. ASSUME NEW p \in left, NEW q \in ToSet(c) PROVE p > q
  <2>1. PICK i \in 1..(L - k) : order[i] = p
    BY <1>15
  <2>2. PICK j \in (L - k + 1)..L : order[j] = q
    BY <1>11
  <2>3. i \in 1..L /\ j \in 1..L /\ i < j
    BY <1>5, <1>9
  <2>4. QED BY <1>4, <2>1, <2>2, <2>3 DEF L
<1>17. ASSUME left # {} PROVE Joined(lines, <<Min(left)>> \o c) >= MaxContextBytes
  <2>1. PICK p \in left : TRUE
    BY <1>17
  <2>2. k < L
    BY <1>5, <1>9, <1>15, <2>1
  <2> DEFINE q == order[L - k]
  <2>3. L - k \in 1..L /\ q \in Nat /\ lines[q] # 0 /\ q \in 1..N
    BY <1>4, <1>5, <1>9, <2>2 DEF L
  <2>4. \A j \in (L - k + 1)..L : order[j] # q
    <3> SUFFICES ASSUME NEW j \in (L - k + 1)..L PROVE order[j] # q
      OBVIOUS
    <3>1. j \in 1..L /\ L - k < j /\ order[j] \in Nat
      BY <1>4, <1>5, <1>9, <2>2 DEF L
    <3>2. order[L - k] > order[j]
      BY <1>4, <2>3, <3>1 DEF L
    <3>3. QED BY <2>3, <3>1, <3>2
  <2>5. q \in left
    BY <1>1, <1>11, <2>3, <2>4
  <2>6. ASSUME NEW x \in left PROVE q <= x
    <3>1. PICK i \in 1..(L - k) : order[i] = x
      BY <1>15
    <3>2. i \in 1..L /\ (i = L - k \/ i < L - k) /\ order[i] \in Nat
      BY <1>4, <1>5, <1>9 DEF L
    <3>3. CASE i = L - k
      BY <2>3, <3>1, <3>3
    <3>4. CASE i < L - k
      <4>1. order[i] > order[L - k]
        BY <1>4, <2>3, <3>2, <3>4 DEF L
      <4>2. QED BY <2>3, <3>1, <3>2, <4>1
    <3>5. QED BY <3>2, <3>3, <3>4
  <2>7. Min(left) = q
    <3>1. left \in SUBSET Nat
      BY <1>1
    <3> HIDE DEF left, q
    <3>2. Min(left) \in left /\ \A i \in left : Min(left) <= i
      BY <1>17, <3>1, MinIs
    <3>3. q <= Min(left) /\ Min(left) <= q /\ q \in Nat /\ Min(left) \in Nat
      BY <2>5, <2>6, <3>1, <3>2
    <3>4. QED BY <3>3
  <2>8. LastOf(<<q>> \o c, k + 1, order, L)
    BY <1>5, <1>7, <1>9, <2>2, <2>3, OneMore
  <2>9. k + 1 \in Nat /\ k + 1 <= L /\ k + 1 # 0
    BY <1>5, <1>9, <2>2
  <2>10. Joined(lines, <<q>> \o c) = T[k + 1] - 1
    BY <1>5, <1>6, <2>8, <2>9, JoinedIs DEF T
  <2>11. T[k + 1] \in Nat /\ T[k + 1] > MaxContextBytes
    BY <1>5, <1>7, <1>8, <1>9, <2>9 DEF Fits, Totals
  <2>12. Joined(lines, <<q>> \o c) >= MaxContextBytes
    BY <2>10, <2>11, IntakeAssumption
  <2>13. QED BY <2>7, <2>12
<1>18. QED BY <1>12, <1>13, <1>14, <1>16, <1>17 DEF Newest, c
-----------------------------------------------------------------------------
(* The context of a request.                                               *)


\* No lines leave no context.
LEMMA NoneIs == Newest(<<>>, <<>>)
<1>1. Joined(<<>>, <<>>) = 0
  <2>1. Sizes(<<>>, <<>>, 0) /\ LastOf(<<>>, 0, <<>>, 0)
    BY DEF Sizes, LastOf
  <2>2. QED BY <2>1, JoinedIs
<1>2. DOMAIN <<>> = {} /\ ToSet(<<>>) = {}
  BY DEF ToSet
<1>3. QED BY <1>1, <1>2, IntakeAssumption DEF Newest

\* A request has a context from the fetch to the publish only, and then that of
\* an answer, or none.
Blank(h) == req[h].lines = <<>> /\ req[h].context = <<>>
Fetched(h) ==
  /\ req[h].pc = "publish" /\ req[h].lines \in Answers
  /\ req[h].context = FetchContext(req[h].lines)
ContextInv == \A h \in Handlers : Blank(h) \/ Fetched(h)

LEMMA FateBlank ==
  ASSUME Types, NEW h \in Handlers, NEW fate, Fate(h, fate)
  PROVE  Blank(h)'
<1> DEFINE With(set, result) == IF fate = result THEN set \union {Place(h)} ELSE set
           published == With(req[h].published, "published")
           halted == With(req[h].halted, "halted")
           payload == req[h].payload
           done == fate = "failed" \/ Over(req[h].todo)
           status == IF fate = "failed" THEN 500 ELSE IF published # {} THEN 202 ELSE 200
           pc == IF done THEN "answered" ELSE "lock"
           todo == IF done THEN {} ELSE req[h].todo \ {Place(h)}
           answer == IF done THEN status ELSE 0
           r == [ReqIdle EXCEPT !.payload = payload, !.published = published,
                                !.halted = halted, !.pc = pc, !.todo = todo,
                                !.answer = answer]
<1>1. req' = [req EXCEPT ![h] = r]
  BY DEF Fate
<1>2. r.lines = <<>> /\ r.context = <<>>
  <2> HIDE DEF payload, published, halted, pc, todo, answer
  <2>1. QED BY DEF ReqIdle
<1> HIDE DEF r
<1>3. req'[h] = r
  BY <1>1 DEF Types
<1>4. QED BY <1>2, <1>3 DEF Blank

LEMMA ReceiveBlank ==
  ASSUME Types, NEW h \in Handlers, Receive(h)
  PROVE  Blank(h)'
<1>1. req \in [Handlers -> Requests]
  BY DEF Types
<1>2. CASE \E n \in {400, 401} :
             req' = [req EXCEPT ![h] = [ReqIdle EXCEPT !.pc = "answered", !.answer = n]]
  BY <1>1, <1>2 DEF ReqIdle, Blank
<1>3. CASE \E p \in Payloads :
             LET fired == mapAlerts(p) IN
             req' = [req EXCEPT ![h] =
                      [ReqIdle EXCEPT !.payload = p, !.todo = fired,
                                      !.pc = IF fired = {} THEN "answered" ELSE "lock",
                                      !.answer = IF fired = {} THEN 200 ELSE 0]]
  <2>1. PICK p \in Payloads :
          LET fired == mapAlerts(p) IN
          req' = [req EXCEPT ![h] =
                   [ReqIdle EXCEPT !.payload = p, !.todo = fired,
                                   !.pc = IF fired = {} THEN "answered" ELSE "lock",
                                   !.answer = IF fired = {} THEN 200 ELSE 0]]
    BY <1>3
  <2> DEFINE todo == mapAlerts(p)
             pc == IF todo = {} THEN "answered" ELSE "lock"
             answer == IF todo = {} THEN 200 ELSE 0
  <2>2. req'[h] = [ReqIdle EXCEPT !.payload = p, !.todo = todo, !.pc = pc, !.answer = answer]
    BY <1>1, <2>1
  <2> HIDE DEF todo, pc, answer
  <2>3. QED BY <2>2 DEF ReqIdle, Blank
<1>4. QED BY <1>2, <1>3 DEF Receive

\* The step of one request leaves the others' contexts.
LEMMA ContextMoves ==
  ASSUME ContextInv, NEW h \in Handlers, Moves(h), (Blank(h) \/ Fetched(h))'
  PROVE  ContextInv'
<1>1. \A g \in Handlers \ {h} : req'[g] = req[g]
  BY DEF Moves
<1>2. \A g \in Handlers \ {h} : (Blank(g) \/ Fetched(g))'
  BY <1>1 DEF ContextInv, Blank, Fetched
<1>3. QED BY <1>2 DEF ContextInv

LEMMA ContextStep ==
  ASSUME Types, Types', ContextInv, [Next]_vars
  PROVE  ContextInv'
<1>1. ASSUME NEW h \in Handlers, Receive(h) PROVE ContextInv'
  BY <1>1, ReceiveIs, ReceiveBlank, ContextMoves
<1>2. ASSUME NEW h \in Handlers, NEW fate \in {"published", "halted", "failed"},
             req[h].pc \in Working, Fate(h, fate)
      PROVE  ContextInv'
  BY <1>2, FateIs, FateBlank, ContextMoves
<1>3. ASSUME NEW h \in Handlers, TryLock(h) PROVE ContextInv'
  <2>1. req[h].pc = "lock" /\ req[h].pc \in Working
    BY <1>3, TryLockIs DEF Working
  <2>2. Blank(h)
    BY <2>1 DEF ContextInv, Fetched
  <2>3. CASE Goto(h, "fetch")
    <3>1. Moves(h) /\ Blank(h)'
      <4>1. "fetch" \in Working /\ req \in [Handlers -> Requests]
        BY DEF Working, Types
      <4>2. Moves(h)
        BY <2>3, <4>1, GotoIs DEF Stays
      <4>3. req'[h] = [req[h] EXCEPT !.pc = "fetch"]
        BY <2>3, <4>1 DEF Goto
      <4>4. QED BY <2>2, <4>2, <4>3, <4>1 DEF Blank, Requests
    <3>2. QED BY <3>1, ContextMoves
  <2>4. CASE req' = [req EXCEPT ![h].pc = "returned", ![h].result = "halted"]
    <3>1. Moves(h)
      BY <1>3, <2>1, TryLockIs, FateIs DEF Stays
    <3>2. req'[h] = [req[h] EXCEPT !.pc = "returned", !.result = "halted"]
      BY <2>4 DEF Types
    <3>3. Blank(h)'
      BY <2>2, <3>2 DEF Blank, Types, Requests
    <3>4. QED BY <3>1, <3>3, ContextMoves
  <2>5. CASE Fate(h, "failed")
    BY <1>2, <2>1, <2>5
  <2>6. QED BY <1>3, <2>3, <2>4, <2>5 DEF TryLock
<1>4. ASSUME NEW h \in Handlers, Enrich(h) PROVE ContextInv'
  <2>1. req[h].pc = "fetch" /\ Moves(h) /\ req'[h].pc = "publish"
    BY <1>4, EnrichIs DEF Stays
  <2>2. Blank(h)
    BY <2>1 DEF ContextInv, Fetched
  <2>3. req \in [Handlers -> Requests]
    BY DEF Types
  <2>4. CASE Goto(h, "publish")
    <3>1. req'[h] = [req[h] EXCEPT !.pc = "publish"]
      BY <2>3, <2>4 DEF Goto
    <3>2. Blank(h)'
      BY <2>2, <2>3, <3>1 DEF Blank, Requests
    <3>3. QED BY <2>1, <3>2, ContextMoves
  <2>5. CASE \E lines \in Answers :
               req' = [req EXCEPT ![h].pc = "publish", ![h].lines = lines,
                                  ![h].context = FetchContext(lines)]
    <3>1. PICK lines \in Answers :
            req' = [req EXCEPT ![h].pc = "publish", ![h].lines = lines,
                               ![h].context = FetchContext(lines)]
      BY <2>5
    <3> DEFINE context == FetchContext(lines)
    <3>2. req' = [req EXCEPT ![h].pc = "publish", ![h].lines = lines, ![h].context = context]
      BY <3>1
    <3> HIDE DEF context
    <3>3. req'[h] = [req[h] EXCEPT !.pc = "publish", !.lines = lines, !.context = context]
      BY <2>3, <3>2
    <3>4. req'[h].lines = lines /\ req'[h].context = context
      BY <2>3, <3>3 DEF Requests
    <3>5. Fetched(h)'
      BY <2>1, <3>4 DEF Fetched, context
    <3>6. QED BY <2>1, <3>5, ContextMoves
  <2>6. QED BY <1>4, <2>4, <2>5 DEF Enrich
<1>5. ASSUME NEW h \in Handlers, PublishMessage(h) PROVE ContextInv'
  <2>1. req[h].pc \in Working /\ req \in [Handlers -> Requests]
    BY <1>5, PublishIs DEF Working, Types
  <2>2. CASE req' = [req EXCEPT ![h].pc = "returned", ![h].result = "published",
                                ![h].lines = <<>>, ![h].context = <<>>]
    <3>1. Moves(h)
      BY <1>5, <2>1, PublishIs, FateIs DEF Stays
    <3>2. req'[h] = [req[h] EXCEPT !.pc = "returned", !.result = "published",
                                   !.lines = <<>>, !.context = <<>>]
      BY <2>1, <2>2
    <3>3. Blank(h)'
      BY <2>1, <3>2 DEF Blank, Requests
    <3>4. QED BY <3>1, <3>3, ContextMoves
  <2>3. CASE Fate(h, "failed")
    BY <1>2, <2>1, <2>3
  <2>4. QED BY <1>5, <2>2, <2>3 DEF PublishMessage
<1>6. ASSUME NEW h \in Handlers, Returned(h) PROVE ContextInv'
  <2>1. req[h].pc \in Working
    BY <1>6, ReturnedIs DEF Working
  <2>2. QED BY <1>2, <1>6, <2>1, ReturnedIs
<1>7. CASE Crash
  <2>1. \A h \in Handlers : Blank(h)'
    BY <1>7 DEF Crash, Blank, ReqIdle
  <2>2. QED BY <2>1 DEF ContextInv
<1>8. CASE (\E k \in Keys : Unlock(k)) \/ UNCHANGED vars
  <2>1. req' = req
    BY <1>8 DEF Unlock, vars
  <2>2. QED BY <2>1 DEF ContextInv, Blank, Fetched
<1>9. QED BY <1>1, <1>3, <1>4, <1>5, <1>6, <1>7, <1>8 DEF Next

\* Whatever VictoriaLogs answers, the context a message carries has lines that
\* parse, in the order of time and within the budget; it leaves out no line
\* newer than one it has, and leaves a line out only when that would have
\* filled the budget (FetchContext, truncateOldestFirst).
THEOREM ContextNewest == Spec => []ContextIsNewest
<1>1. Init => ContextInv
  BY DEF Init, ContextInv, Blank, ReqIdle
<1>2. Types /\ Types' /\ ContextInv /\ [Next]_vars => ContextInv'
  BY ContextStep
<1>3. ContextInv => ContextIsNewest
  <2> SUFFICES ASSUME ContextInv, NEW h \in Handlers, req[h].pc = "publish"
               PROVE  Newest(req[h].lines, req[h].context)
    BY DEF ContextIsNewest, Newest
  <2>1. CASE Blank(h)
    BY <2>1, NoneIs DEF Blank
  <2>2. CASE Fetched(h)
    <3>1. req[h].lines \in Answers \union {<<>>}
      BY <2>2 DEF Fetched
    <3>2. Newest(req[h].lines, FetchContext(req[h].lines))
      BY <3>1, ContextIs
    <3>3. QED BY <2>2, <3>2 DEF Fetched
  <2>3. QED BY <2>1, <2>2 DEF ContextInv
<1>4. QED BY <1>1, <1>2, <1>3, TypesHold, PTL DEF Spec
=============================================================================
