--------------------------- MODULE TaskSplitProofs ---------------------------
(***************************************************************************)
(* Theorems about TaskSplit: pages and rows are split exactly, whatever the *)
(* configuration and the file, and when all tasks of a document are done,   *)
(* what is stored is what was asked for.                                    *)
(*                                                                         *)
(* The split itself is data: recursive functions over page ranges and       *)
(* sheets.  Induction here is over sets of natural numbers, so that it      *)
(* needs no operator as a parameter: a lemma about a recursive function     *)
(* names the set S of the arguments it holds for.                           *)
(***************************************************************************)
EXTENDS TaskSplit, Recursion, FiniteSetTheorems, SequenceTheorems

-----------------------------------------------------------------------------
(* A range is cut into pieces that follow each other.                           *)

LEMMA Times ==
    ASSUME NEW a \in Int, NEW b \in Int, NEW n \in Nat, a <= b
    PROVE  a * n <= b * n
  OBVIOUS

LEMMA Quotient ==
    ASSUME NEW x \in Nat, NEW n \in Nat \ {0}
    PROVE  /\ x \div n \in Nat
           /\ (x \div n) * n <= x
           /\ x < (x \div n) * n + n
<1>1. x \div n \in Nat /\ x % n \in 0 .. n - 1 /\ x = n * (x \div n) + (x % n)
  OBVIOUS
<1> QED
  BY <1>1

Ranged == [from : Int, to : Int]
Covers(t, x) == t.from <= x /\ x < t.to

LEMMA PieceBounds ==
    ASSUME NEW s \in Int, NEW e \in Int, NEW n \in Nat \ {0}
    PROVE  /\ Pieces(s, e, n) \in Seq(Ranged)
           /\ \A i \in DOMAIN Pieces(s, e, n) :
                LET t == Pieces(s, e, n)[i]
                IN  s <= t.from /\ t.from < t.to /\ t.to <= e /\ t.to - t.from <= n
<1> DEFINE q == IF s < e THEN (e - s + n - 1) \div n ELSE 0
<1>1. q \in Nat
  BY Quotient
<1>2. ASSUME NEW i \in 1 .. q
      PROVE  /\ (i - 1) * n \in Int /\ i * n \in Int /\ i * n = (i - 1) * n + n
             /\ 0 <= (i - 1) * n /\ (i - 1) * n < e - s
  <2>1. s < e
    OBVIOUS
  <2>2. q \in Nat /\ q * n <= e - s + n - 1
    BY <2>1, Quotient
  <2>3. i * n \in Int /\ i * n <= q * n
    BY <2>2, Times
  <2>4. (i - 1) * n \in Int /\ i * n = (i - 1) * n + n
    OBVIOUS
  <2>5. 0 * n <= (i - 1) * n
    BY Times
  <2> HIDE DEF q
  <2> QED
    BY <2>2, <2>3, <2>4, <2>5
<1>3. Pieces(s, e, n) = [i \in 1 .. q |-> [from |-> s + (i - 1) * n, to |-> AtMost(s + i * n, e)]]
  BY DEF Pieces
<1> HIDE DEF q
<1>4. ASSUME NEW i \in 1 .. q
      PROVE  LET t == Pieces(s, e, n)[i]
             IN  t \in Ranged /\ s <= t.from /\ t.from < t.to /\ t.to <= e /\ t.to - t.from <= n
  <2>1. PICK a \in Int : a = (i - 1) * n /\ a + n = i * n /\ 0 <= a /\ a < e - s
    BY <1>2
  <2>2. Pieces(s, e, n)[i] = [from |-> s + a, to |-> AtMost(s + (a + n), e)]
    BY <1>3, <2>1
  <2> QED
    BY <2>1, <2>2 DEF AtMost, Ranged
<1>5. DOMAIN Pieces(s, e, n) = 1 .. q /\ Pieces(s, e, n) = [i \in 1 .. q |-> Pieces(s, e, n)[i]]
  BY <1>3
<1>6. \A i \in 1 .. q : Pieces(s, e, n)[i] \in Ranged
  BY <1>4
<1>7. Pieces(s, e, n) \in Seq(Ranged)
  BY <1>1, <1>5, <1>6
<1> QED
  BY <1>4, <1>5, <1>7

LEMMA PieceOf ==
    ASSUME NEW s \in Int, NEW e \in Int, NEW n \in Nat \ {0}, NEW x \in Int
    PROVE  IF s <= x /\ x < e
             THEN \E i \in DOMAIN Pieces(s, e, n) : \A j \in DOMAIN Pieces(s, e, n) :
                    Covers(Pieces(s, e, n)[j], x) <=> j = i
             ELSE \A j \in DOMAIN Pieces(s, e, n) : ~ Covers(Pieces(s, e, n)[j], x)
<1>1. CASE ~ (s <= x /\ x < e)
  <2>1. \A j \in DOMAIN Pieces(s, e, n) : LET t == Pieces(s, e, n)[j]
                                           IN  t \in Ranged /\ s <= t.from /\ t.to <= e
    <3> TAKE j \in DOMAIN Pieces(s, e, n)
    <3>1. Pieces(s, e, n) \in Seq(Ranged)
      BY PieceBounds
    <3>2. Pieces(s, e, n)[j] \in Ranged
      BY <3>1
    <3> QED
      BY <3>2, PieceBounds
  <2> QED
    BY <1>1, <2>1 DEF Covers, Ranged
<1>2. CASE s <= x /\ x < e
  <2> DEFINE m == (e - s + n - 1) \div n
             q == (x - s) \div n
  <2>1. m \in Nat /\ e - s + n - 1 < m * n + n
    BY <1>2, Quotient
  <2>2. q \in Nat /\ q * n \in Int /\ q * n <= x - s /\ x - s < q * n + n
    BY <1>2, Quotient
  <2>3. Pieces(s, e, n) = [i \in 1 .. m |-> [from |-> s + (i - 1) * n, to |-> AtMost(s + i * n, e)]]
    BY <1>2 DEF Pieces
  <2> HIDE DEF m, q
  <2>4. q + 1 \in 1 .. m
    <3> SUFFICES ASSUME m <= q PROVE FALSE
      BY <2>1, <2>2
    <3>1. m * n \in Int /\ m * n <= q * n
      BY <2>1, <2>2, Times
    <3> QED
      BY <1>2, <2>1, <2>2, <3>1
  <2>5. ASSUME NEW j \in 1 .. m PROVE Covers(Pieces(s, e, n)[j], x) <=> j = q + 1
    <3>1. PICK a \in Int, b \in Int :
            a = (j - 1) * n /\ b = q * n /\ j * n = a + n /\ (q + 1) * n = b + n
      BY <2>2
    <3>2. Pieces(s, e, n)[j] = [from |-> s + a, to |-> AtMost(s + (a + n), e)]
      BY <2>3, <3>1
    <3>3. Covers(Pieces(s, e, n)[j], x) <=> a <= x - s /\ x - s < a + n
      BY <1>2, <3>2 DEF Covers, AtMost
    <3>4. q \in Nat /\ b <= x - s /\ x - s < b + n
      BY <2>2, <3>1
    <3>5. CASE j <= q
      <4>1. j * n <= q * n
        BY <2>2, <3>5, Times
      <4>2. a + n <= b
        BY <3>1, <4>1
      <4> QED
        BY <3>3, <3>4, <3>5, <4>2
    <3>6. CASE j = q + 1
      <4>1. a = b
        <5>1. j - 1 = q
          BY <3>4, <3>6
        <5> QED
          BY <3>1, <5>1, Zenon
      <4> QED
        BY <3>3, <3>4, <3>6, <4>1
    <3>7. CASE q + 1 <= j - 1
      <4>1. (q + 1) * n <= (j - 1) * n
        BY <2>2, <3>7, Times
      <4>2. b + n <= a
        BY <3>1, <4>1
      <4> QED
        BY <3>3, <3>4, <3>7, <4>2
    <3> QED
      BY <2>1, <2>2, <3>5, <3>6, <3>7
  <2>6. DOMAIN Pieces(s, e, n) = 1 .. m
    BY <2>3
  <2> QED
    BY <1>2, <2>4, <2>5, <2>6
<1> QED
  BY <1>1, <1>2

-----------------------------------------------------------------------------
(* The tasks of several page ranges follow each other in one sequence.          *)

LEMMA FlattenSteps ==
    ASSUME NEW V, NEW seqs \in Seq(Seq(V))
    PROVE  \E F : /\ F[0] = <<>> /\ F[Len(seqs)] = FlattenSeq(seqs)
                  /\ \A k \in 1 .. Len(seqs) : F[k] = F[k - 1] \o seqs[k]
<1> DEFINE L == Len(seqs)
           Is(f, n) == f = [i \in 1 .. n |-> IF i = 1 THEN seqs[i] ELSE f[i - 1] \o seqs[i]]
           S == {n \in Nat : \E f : Is(f, n)}
<1>0. L \in Nat /\ DOMAIN seqs = 1 .. L /\ \A k \in 1 .. L : seqs[k] \in Seq(V)
  OBVIOUS
<1>1. 0 \in S
  <2>1. Is([i \in 1 .. 0 |-> {}], 0)
    OBVIOUS
  <2> QED
    BY <2>1
<1>2. ASSUME NEW n \in Nat, n \in S PROVE n + 1 \in S
  <2>1. PICK f : Is(f, n)
    BY <1>2
  <2> DEFINE g == [i \in 1 .. n + 1 |-> IF i = 1 THEN seqs[i]
                                        ELSE IF i = n + 1 THEN f[n] \o seqs[i] ELSE f[i]]
  <2>2. ASSUME NEW i \in 1 .. n + 1 PROVE g[i] = IF i = 1 THEN seqs[i] ELSE g[i - 1] \o seqs[i]
    <3>1. CASE i = 1
      BY <3>1
    <3>2. CASE i = n + 1 /\ i # 1
      <4>1. n # 0 /\ n \in 1 .. n /\ n \in 1 .. n + 1 /\ n # n + 1 /\ i - 1 = n
        BY <3>2
      <4>2. g[i] = f[n] \o seqs[i]
        BY <3>2
      <4>3. g[n] = f[n]
        BY <2>1, <4>1
      <4> HIDE DEF g
      <4> QED
        BY <3>2, <4>1, <4>2, <4>3
    <3>3. CASE i # n + 1 /\ i # 1
      <4>1. i \in 1 .. n /\ i - 1 \in 1 .. n /\ g[i] = f[i]
        BY <3>3
      <4>2. f[i] = f[i - 1] \o seqs[i]
        BY <2>1, <3>3, <4>1
      <4>3. g[i - 1] = f[i - 1]
        BY <2>1, <4>1
      <4> QED
        BY <3>3, <4>1, <4>2, <4>3
    <3> QED
      BY <3>1, <3>2, <3>3
  <2>3. g = [i \in 1 .. n + 1 |-> g[i]]
    OBVIOUS
  <2> HIDE DEF g
  <2>4. Is(g, n + 1)
    BY <2>2, <2>3, Zenon
  <2>5. \E h : Is(h, n + 1)
    BY Zenon, <2>4
  <2> HIDE DEF Is
  <2> QED
    BY <2>5
<1>3. \A n \in Nat : n \in S
  <2> HIDE DEF S
  <2> QED
    BY <1>1, <1>2, Induction
<1>4. PICK f : Is(f, L)
  BY <1>0, <1>3
<1>5. CASE L = 0
  <2>1. seqs = <<>>
    BY <1>0, <1>5
  <2>2. FlattenSeq(seqs) = <<>>
    BY <1>5, <2>1 DEF FlattenSeq
  <2> WITNESS [n \in {0} |-> <<>>]
  <2> QED
    BY <1>5, <2>2
<1>6. CASE L # 0
  <2> DEFINE flat == CHOOSE h : Is(h, L)
             F == [n \in 0 .. L |-> IF n = 0 THEN <<>> ELSE flat[n]]
  <2>1. FlattenSeq(seqs) = flat[L]
    BY <1>6 DEF FlattenSeq
  <2>2. Is(flat, L)
    BY <1>4
  <2> HIDE DEF flat
  <2>3. F[0] = <<>> /\ F[L] = FlattenSeq(seqs)
    BY <1>0, <1>6, <2>1
  <2>4. ASSUME NEW k \in 1 .. L PROVE F[k] = F[k - 1] \o seqs[k]
    <3>1. F[k] = flat[k] /\ flat[k] = IF k = 1 THEN seqs[k] ELSE flat[k - 1] \o seqs[k]
      <4>1. flat = [i \in 1 .. L |-> IF i = 1 THEN seqs[i] ELSE flat[i - 1] \o seqs[i]]
        BY <2>2
      <4>2. k \in 0 .. L /\ k # 0
        BY <1>0
      <4> HIDE DEF L, Is
      <4> QED
        BY <4>1, <4>2
    <3>2. CASE k = 1
      <4>1. F[k - 1] = <<>> /\ <<>> \o seqs[k] = seqs[k]
        BY <1>0, <3>2
      <4> QED
        BY <3>1, <3>2, <4>1
    <3>3. CASE k # 1
      <4>1. F[k - 1] = flat[k - 1]
        BY <1>0, <3>3
      <4> QED
        BY <3>1, <3>3, <4>1
    <3> QED
      BY <3>2, <3>3
  <2> HIDE DEF F
  <2> QED
    BY <2>3, <2>4
<1> QED
  BY <1>5, <1>6

Hits(s, H) == {i \in DOMAIN s : s[i] \in H}
\* At most one entry of s is in H.
OneHit(s, H) == \A i, j \in Hits(s, H) : i = j

LEMMA AppendedHits ==
    ASSUME NEW V, NEW s \in Seq(V), NEW t \in Seq(V), NEW H
    PROVE  Hits(s \o t, H) = Hits(s, H) \cup {Len(s) + i : i \in Hits(t, H)}
<1>1. /\ s \o t \in Seq(V) /\ DOMAIN (s \o t) = 1 .. Len(s) + Len(t)
      /\ DOMAIN s = 1 .. Len(s) /\ DOMAIN t = 1 .. Len(t) /\ Len(s) \in Nat /\ Len(t) \in Nat
  OBVIOUS
<1>2. ASSUME NEW k \in Hits(s \o t, H) PROVE k \in Hits(s, H) \cup {Len(s) + i : i \in Hits(t, H)}
  <2>1. k \in 1 .. Len(s) + Len(t) /\ (s \o t)[k] \in H
    BY <1>1 DEF Hits
  <2>2. CASE k <= Len(s)
    BY <1>1, <2>1, <2>2 DEF Hits
  <2>3. CASE k > Len(s)
    <3>1. k - Len(s) \in 1 .. Len(t) /\ (s \o t)[k] = t[k - Len(s)] /\ k = Len(s) + (k - Len(s))
      BY <1>1, <2>1, <2>3
    <3>2. k - Len(s) \in Hits(t, H)
      BY <1>1, <2>1, <3>1 DEF Hits
    <3> QED
      BY <3>1, <3>2
  <2> QED
    BY <1>1, <2>1, <2>2, <2>3
<1>3. ASSUME NEW k \in Hits(s, H) PROVE k \in Hits(s \o t, H)
  BY <1>1 DEF Hits
<1>4. ASSUME NEW i \in Hits(t, H) PROVE Len(s) + i \in Hits(s \o t, H)
  <2>1. Len(s) + i \in 1 .. Len(s) + Len(t) /\ (s \o t)[Len(s) + i] = t[i]
    BY <1>1 DEF Hits
  <2> QED
    BY <1>1, <2>1 DEF Hits
<1> QED
  BY <1>2, <1>3, <1>4

LEMMA OneMoreHit ==
    ASSUME NEW V, NEW s \in Seq(V), NEW t \in Seq(V), NEW H, OneHit(t, H),
           NEW M, NEW m, m \notin M, IsFiniteSet(M), IsFiniteSet(Hits(s, H)),
           Cardinality(Hits(s, H)) = Cardinality(M),
           NEW N, N = IF Hits(t, H) = {} THEN M ELSE M \cup {m}
    PROVE  /\ IsFiniteSet(N) /\ IsFiniteSet(Hits(s \o t, H))
           /\ Cardinality(Hits(s \o t, H)) = Cardinality(N)
<1>1. Hits(s \o t, H) = Hits(s, H) \cup {Len(s) + i : i \in Hits(t, H)}
  BY AppendedHits
<1>2. CASE Hits(t, H) = {}
  <2>1. Hits(s \o t, H) = Hits(s, H)
    BY <1>1, <1>2
  <2> QED
    BY <1>2, <2>1
<1>3. CASE Hits(t, H) # {}
  <2>1. PICK i : i \in Hits(t, H)
    BY <1>3
  <2>2. Hits(t, H) = {i}
    BY <2>1, Zenon DEF OneHit
  <2>3. Hits(s \o t, H) = Hits(s, H) \cup {Len(s) + i}
    BY <1>1, <2>2
  <2>4. Len(s) + i \notin Hits(s, H)
    <3>1. i \in 1 .. Len(t) /\ Len(s) \in Nat /\ Len(t) \in Nat /\ DOMAIN s = 1 .. Len(s)
      BY <2>1 DEF Hits
    <3> QED
      BY <3>1 DEF Hits
  <2>5. IsFiniteSet(M \cup {m}) /\ Cardinality(M \cup {m}) = Cardinality(M) + 1
    BY FS_AddElement
  <2>6. /\ IsFiniteSet(Hits(s \o t, H))
        /\ Cardinality(Hits(s \o t, H)) = Cardinality(Hits(s, H)) + 1
    BY <2>3, <2>4, FS_AddElement
  <2> QED
    BY <1>3, <2>5, <2>6
<1> QED
  BY <1>2, <1>3

LEMMA FlattenHits ==
    ASSUME NEW V, NEW seqs \in Seq(Seq(V)), NEW H,
           \A k \in DOMAIN seqs : OneHit(seqs[k], H)
    PROVE  /\ FlattenSeq(seqs) \in Seq(V)
           /\ Cardinality(Hits(FlattenSeq(seqs), H))
                = Cardinality({k \in DOMAIN seqs : Hits(seqs[k], H) # {}})
<1> DEFINE L == Len(seqs)
           Met(n) == {k \in 1 .. n : Hits(seqs[k], H) # {}}
<1>1. L \in Nat /\ DOMAIN seqs = 1 .. L /\ \A k \in 1 .. L : seqs[k] \in Seq(V)
  OBVIOUS
<1>2. PICK F : /\ F[0] = <<>> /\ F[L] = FlattenSeq(seqs)
               /\ \A k \in 1 .. L : F[k] = F[k - 1] \o seqs[k]
  BY FlattenSteps
<1> HIDE DEF L
<1> DEFINE Good(n) == /\ F[n] \in Seq(V) /\ IsFiniteSet(Hits(F[n], H)) /\ IsFiniteSet(Met(n))
                      /\ Cardinality(Hits(F[n], H)) = Cardinality(Met(n))
           S == {n \in Nat : n <= L => Good(n)}
<1>6. Good(0)
  <2>1. Hits(<<>>, H) = {} /\ Met(0) = {} /\ <<>> \in Seq(V)
    BY DEF Hits
  <2> HIDE DEF Met
  <2> QED
    BY <1>2, <2>1, FS_EmptySet
<1>7. ASSUME NEW n \in Nat, n + 1 <= L, Good(n) PROVE Good(n + 1)
  <2> DEFINE t == seqs[n + 1]
  <2>1. n + 1 \in 1 .. L
    BY <1>1, <1>7
  <2>2. t \in Seq(V) /\ OneHit(t, H)
    BY <1>1, <2>1
  <2>3. F[n + 1] = F[n] \o t
    <3>1. F[n + 1] = F[(n + 1) - 1] \o t
      BY <1>2, <2>1
    <3>2. (n + 1) - 1 = n
      OBVIOUS
    <3> QED
      BY <3>1, <3>2, Zenon
  <2>4. Met(n + 1) = IF Hits(t, H) = {} THEN Met(n) ELSE Met(n) \cup {n + 1}
    <3>1. 1 .. n + 1 = (1 .. n) \cup {n + 1}
      OBVIOUS
    <3> QED
      BY <3>1
  <2>5. n + 1 \notin Met(n)
    OBVIOUS
  <2> HIDE DEF Met, t
  <2>6. F[n] \in Seq(V) /\ F[n] \o t \in Seq(V)
    BY <1>7, <2>2
  <2>7. /\ IsFiniteSet(Met(n + 1)) /\ IsFiniteSet(Hits(F[n] \o t, H))
        /\ Cardinality(Hits(F[n] \o t, H)) = Cardinality(Met(n + 1))
    <3>1. IsFiniteSet(Met(n)) /\ IsFiniteSet(Hits(F[n], H)) /\ Cardinality(Hits(F[n], H)) = Cardinality(Met(n))
      BY <1>7
    <3> HIDE DEF Good
    <3> DEFINE N == IF Hits(t, H) = {} THEN Met(n) ELSE Met(n) \cup {n + 1}
    <3>2. /\ IsFiniteSet(N) /\ IsFiniteSet(Hits(F[n] \o t, H))
          /\ Cardinality(Hits(F[n] \o t, H)) = Cardinality(N)
      <4> DEFINE M == Met(n)
                 m == n + 1
                 s == F[n]
      <4>1. /\ s \in Seq(V) /\ t \in Seq(V) /\ OneHit(t, H) /\ m \notin M
            /\ IsFiniteSet(M) /\ IsFiniteSet(Hits(s, H)) /\ Cardinality(Hits(s, H)) = Cardinality(M)
        BY <2>2, <2>5, <2>6, <3>1
      <4>2. N = IF Hits(t, H) = {} THEN M ELSE M \cup {m}
        OBVIOUS
      <4> HIDE DEF N, S, M, m, s
      <4>3. /\ IsFiniteSet(N) /\ IsFiniteSet(Hits(s \o t, H))
            /\ Cardinality(Hits(s \o t, H)) = Cardinality(N)
        BY <4>1, <4>2, OneMoreHit
      <4> QED
        BY <4>3 DEF s
    <3> HIDE DEF N
    <3> QED
      BY <2>4, <3>2 DEF N
  <2> QED
    BY <2>3, <2>6, <2>7
<1> HIDE DEF Good
<1>8. \A n \in Nat : n \in S
  <2>1. 0 \in S
    BY <1>6
  <2>2. ASSUME NEW n \in Nat, n \in S PROVE n + 1 \in S
    BY <1>1, <1>7, <2>2
  <2> HIDE DEF S
  <2> QED
    BY <2>1, <2>2, Induction
<1>9. Good(L)
  BY <1>1, <1>8
<1> QED
  BY <1>1, <1>2, <1>9 DEF Good

-----------------------------------------------------------------------------
(* Counting rows.  The server adds up the rows of the sheets, headers too; each   *)
(* executor adds up the rows of data it has seen, and stops counting in a sheet   *)
(* at the row beyond its task.                                                    *)

LEMMA Counter ==
    ASSUME NEW L \in Nat, NEW step \in [(1 .. L) \X Nat -> Nat]
    PROVE  \E h \in [0 .. L -> Nat] : h[0] = 0 /\ \A k \in 1 .. L : h[k] = step[<<k, h[k - 1]>>]
<1> DEFINE V == Nat
<1>1. 0 \in V /\ step \in [(1 .. L) \X V -> V]
  OBVIOUS
<1> HIDE DEF V
<1>2. \E h : Unfolds(h, L, V, 0, step)
  BY <1>1, Recursive
<1> QED
  BY <1>2 DEF V, Unfolds

LEMMA CounterTypes ==
    ASSUME NEW L \in Nat, NEW h, h[0] = 0, \A k \in 1 .. L : h[k - 1] \in Nat => h[k] \in Nat
    PROVE  \A k \in 0 .. L : h[k] \in Nat
<1> DEFINE V == Nat
<1>1. h[0] \in V /\ \A k \in 1 .. L : h[k - 1] \in V => h[k] \in V
  OBVIOUS
<1> HIDE DEF V
<1>2. \A k \in 0 .. L : h[k] \in V
  BY <1>1, StaysIn
<1> QED
  BY <1>2 DEF V

Sheets == Seq([head : Nat, data : Nat])
DataUpTo(f) ==
    LET rows[k \in 0 .. Len(f.sheets)] == IF k = 0 THEN 0 ELSE rows[k - 1] + f.sheets[k].data
    IN  rows

LEMMA SheetCounts ==
    ASSUME NEW f, f.sheets \in Sheets
    PROVE  /\ Len(f.sheets) \in Nat /\ DOMAIN f.sheets = 1 .. Len(f.sheets)
           /\ \A k \in 1 .. Len(f.sheets) : f.sheets[k].head \in Nat /\ f.sheets[k].data \in Nat
<1> DEFINE s == f.sheets
           Sheet == [head : Nat, data : Nat]
<1>1. s \in Seq(Sheet)
  BY DEF Sheets
<1> HIDE DEF s
<1>2. Len(s) \in Nat /\ DOMAIN s = 1 .. Len(s) /\ \A k \in 1 .. Len(s) : s[k] \in Sheet
  <2> HIDE DEF Sheet
  <2> QED
    BY <1>1
<1>3. \A k \in 1 .. Len(s) : s[k].head \in Nat /\ s[k].data \in Nat
  BY <1>2
<1> QED
  BY <1>2, <1>3 DEF s

LEMMA RowsUpToSteps ==
    ASSUME NEW f, f.sheets \in Sheets
    PROVE  LET h == RowsUpTo(f)
           IN  /\ h \in [0 .. Len(f.sheets) -> Nat] /\ h[0] = 0
               /\ \A k \in 1 .. Len(f.sheets) : h[k] = h[k - 1] + f.sheets[k].head + f.sheets[k].data
<1> DEFINE L == Len(f.sheets)
           sh(k) == f.sheets[k]
           step == [p \in (1 .. L) \X Nat |-> p[2] + sh(p[1]).head + sh(p[1]).data]
           Is(h) == h = [k \in 0 .. L |-> IF k = 0 THEN 0 ELSE h[k - 1] + sh(k).head + sh(k).data]
<1>1. L \in Nat /\ \A k \in 1 .. L : sh(k).head \in Nat /\ sh(k).data \in Nat
  BY SheetCounts
<1> HIDE DEF L, sh
<1>2. step \in [(1 .. L) \X Nat -> Nat]
  BY <1>1
<1>3. \A k \in 1 .. L, x \in Nat : step[<<k, x>>] = x + sh(k).head + sh(k).data
  BY <1>1
<1> HIDE DEF step
<1>4. PICK h \in [0 .. L -> Nat] : h[0] = 0 /\ \A k \in 1 .. L : h[k] = step[<<k, h[k - 1]>>]
  BY <1>1, <1>2, Counter
<1>5. ASSUME NEW k \in 1 .. L PROVE h[k] = h[k - 1] + sh(k).head + sh(k).data
  <2>1. k - 1 \in 0 .. L /\ h[k - 1] \in Nat
    BY <1>1, <1>4
  <2> QED
    BY <1>3, <1>4, <2>1
<1>6. Is(h)
  <2>1. \A k \in 0 .. L : h[k] = IF k = 0 THEN 0 ELSE h[k - 1] + sh(k).head + sh(k).data
    BY <1>1, <1>4, <1>5
  <2>2. h = [k \in 0 .. L |-> h[k]]
    BY <1>4
  <2> QED
    BY <2>1, <2>2, Zenon
<1> DEFINE rows == CHOOSE g : Is(g)
<1>7. RowsUpTo(f) = rows
  BY DEF RowsUpTo, L, sh
<1>8. Is(rows)
  <2> HIDE DEF Is
  <2> QED
    BY <1>6
<1> HIDE DEF rows
<1>9. rows[0] = 0 /\ \A k \in 1 .. L : rows[k] = rows[k - 1] + sh(k).head + sh(k).data
  BY <1>1, <1>8
<1>10. \A k \in 0 .. L : rows[k] \in Nat
  <2>1. ASSUME NEW k \in 1 .. L, rows[k - 1] \in Nat PROVE rows[k] \in Nat
    <3>1. rows[k] = rows[k - 1] + sh(k).head + sh(k).data
      BY <1>9
    <3>2. sh(k).head \in Nat /\ sh(k).data \in Nat
      BY <1>1
    <3> QED
      BY <2>1, <3>1, <3>2
  <2> QED
    BY <1>1, <1>9, <2>1, CounterTypes
<1>11. rows = [k \in 0 .. L |-> rows[k]]
  BY <1>8
<1>12. rows \in [0 .. L -> Nat]
  BY <1>10, <1>11
<1> QED
  BY <1>7, <1>9, <1>12 DEF L, sh

LEMMA DataUpToSteps ==
    ASSUME NEW f, f.sheets \in Sheets
    PROVE  LET h == DataUpTo(f)
           IN  /\ h \in [0 .. Len(f.sheets) -> Nat] /\ h[0] = 0
               /\ \A k \in 1 .. Len(f.sheets) : h[k] = h[k - 1] + f.sheets[k].data
<1> DEFINE L == Len(f.sheets)
           sh(k) == f.sheets[k]
           step == [p \in (1 .. L) \X Nat |-> p[2] + sh(p[1]).data]
           Is(h) == h = [k \in 0 .. L |-> IF k = 0 THEN 0 ELSE h[k - 1] + sh(k).data]
<1>1. L \in Nat /\ \A k \in 1 .. L : sh(k).head \in Nat /\ sh(k).data \in Nat
  BY SheetCounts
<1> HIDE DEF L, sh
<1>2. step \in [(1 .. L) \X Nat -> Nat]
  BY <1>1
<1>3. \A k \in 1 .. L, x \in Nat : step[<<k, x>>] = x + sh(k).data
  BY <1>1
<1> HIDE DEF step
<1>4. PICK h \in [0 .. L -> Nat] : h[0] = 0 /\ \A k \in 1 .. L : h[k] = step[<<k, h[k - 1]>>]
  BY <1>1, <1>2, Counter
<1>5. ASSUME NEW k \in 1 .. L PROVE h[k] = h[k - 1] + sh(k).data
  <2>1. k - 1 \in 0 .. L /\ h[k - 1] \in Nat
    BY <1>1, <1>4
  <2> QED
    BY <1>3, <1>4, <2>1
<1>6. Is(h)
  <2>1. \A k \in 0 .. L : h[k] = IF k = 0 THEN 0 ELSE h[k - 1] + sh(k).data
    BY <1>1, <1>4, <1>5
  <2>2. h = [k \in 0 .. L |-> h[k]]
    BY <1>4
  <2> QED
    BY <2>1, <2>2, Zenon
<1> DEFINE rows == CHOOSE g : Is(g)
<1>7. DataUpTo(f) = rows
  BY DEF DataUpTo, L, sh
<1>8. Is(rows)
  <2> HIDE DEF Is
  <2> QED
    BY <1>6
<1> HIDE DEF rows
<1>9. rows[0] = 0 /\ \A k \in 1 .. L : rows[k] = rows[k - 1] + sh(k).data
  BY <1>1, <1>8
<1>10. \A k \in 0 .. L : rows[k] \in Nat
  <2>1. ASSUME NEW k \in 1 .. L, rows[k - 1] \in Nat PROVE rows[k] \in Nat
    <3>1. rows[k] = rows[k - 1] + sh(k).data
      BY <1>9
    <3>2. sh(k).head \in Nat /\ sh(k).data \in Nat
      BY <1>1
    <3> QED
      BY <2>1, <3>1, <3>2
  <2> QED
    BY <1>1, <1>9, <2>1, CounterTypes
<1>11. rows = [k \in 0 .. L |-> rows[k]]
  BY <1>8
<1>12. rows \in [0 .. L -> Nat]
  BY <1>10, <1>11
<1> QED
  BY <1>7, <1>9, <1>12 DEF L, sh

LEMMA RowsBeforeSteps ==
    ASSUME NEW f, f.sheets \in Sheets, NEW to \in Int
    PROVE  LET h == RowsBefore(f, to)
           IN  /\ h \in [0 .. Len(f.sheets) -> Nat] /\ h[0] = 0
               /\ \A k \in 1 .. Len(f.sheets) : h[k] = h[k - 1] + AtMost(f.sheets[k].data, AtLeast(to - h[k - 1], 0) + 1)
<1> DEFINE L == Len(f.sheets)
           sh(k) == f.sheets[k]
           step == [p \in (1 .. L) \X Nat |-> p[2] + AtMost(sh(p[1]).data, AtLeast(to - p[2], 0) + 1)]
           Is(h) == h = [k \in 0 .. L |-> IF k = 0 THEN 0 ELSE h[k - 1] + AtMost(sh(k).data, AtLeast(to - h[k - 1], 0) + 1)]
<1>1. L \in Nat /\ \A k \in 1 .. L : sh(k).head \in Nat /\ sh(k).data \in Nat
  BY SheetCounts
<1> HIDE DEF L, sh
<1>2. step \in [(1 .. L) \X Nat -> Nat]
  BY <1>1 DEF AtMost, AtLeast
<1>3. \A k \in 1 .. L, x \in Nat : step[<<k, x>>] = x + AtMost(sh(k).data, AtLeast(to - x, 0) + 1)
  BY <1>1
<1> HIDE DEF step
<1>4. PICK h \in [0 .. L -> Nat] : h[0] = 0 /\ \A k \in 1 .. L : h[k] = step[<<k, h[k - 1]>>]
  BY <1>1, <1>2, Counter
<1>5. ASSUME NEW k \in 1 .. L PROVE h[k] = h[k - 1] + AtMost(sh(k).data, AtLeast(to - h[k - 1], 0) + 1)
  <2>1. k - 1 \in 0 .. L /\ h[k - 1] \in Nat
    BY <1>1, <1>4
  <2> QED
    BY <1>3, <1>4, <2>1
<1>6. Is(h)
  <2>1. \A k \in 0 .. L : h[k] = IF k = 0 THEN 0 ELSE h[k - 1] + AtMost(sh(k).data, AtLeast(to - h[k - 1], 0) + 1)
    BY <1>1, <1>4, <1>5
  <2>2. h = [k \in 0 .. L |-> h[k]]
    BY <1>4
  <2> QED
    BY <2>1, <2>2, Zenon
<1> DEFINE rows == CHOOSE g : Is(g)
<1>7. RowsBefore(f, to) = rows
  BY DEF RowsBefore, L, sh
<1>8. Is(rows)
  <2> HIDE DEF Is
  <2> QED
    BY <1>6
<1> HIDE DEF rows
<1>9. rows[0] = 0 /\ \A k \in 1 .. L : rows[k] = rows[k - 1] + AtMost(sh(k).data, AtLeast(to - rows[k - 1], 0) + 1)
  BY <1>1, <1>8
<1>10. \A k \in 0 .. L : rows[k] \in Nat
  <2>1. ASSUME NEW k \in 1 .. L, rows[k - 1] \in Nat PROVE rows[k] \in Nat
    <3>1. rows[k] = rows[k - 1] + AtMost(sh(k).data, AtLeast(to - rows[k - 1], 0) + 1)
      BY <1>9
    <3>2. sh(k).head \in Nat /\ sh(k).data \in Nat
      BY <1>1
    <3> QED
      BY <2>1, <3>1, <3>2 DEF AtMost, AtLeast
  <2> QED
    BY <1>1, <1>9, <2>1, CounterTypes
<1>11. rows = [k \in 0 .. L |-> rows[k]]
  BY <1>8
<1>12. rows \in [0 .. L -> Nat]
  BY <1>10, <1>11
<1> QED
  BY <1>7, <1>9, <1>12 DEF L, sh

LEMMA DataWithinRows ==
    ASSUME NEW f, f.sheets \in Sheets, NEW k \in 1 .. Len(f.sheets)
    PROVE  DataUpTo(f)[k] <= RowNumber(f)
<1> DEFINE L == Len(f.sheets)
           D == DataUpTo(f)
           R == RowsUpTo(f)
           S == {n \in Nat : n <= L => D[n] <= R[n]}
           T == {n \in Nat : k + n <= L => R[k] <= R[k + n]}
<1>1. L \in Nat /\ \A i \in 1 .. L : f.sheets[i].head \in Nat /\ f.sheets[i].data \in Nat
  BY SheetCounts
<1>2. D \in [0 .. L -> Nat] /\ D[0] = 0 /\ \A i \in 1 .. L : D[i] = D[i - 1] + f.sheets[i].data
  BY DataUpToSteps
<1>3. /\ R \in [0 .. L -> Nat] /\ R[0] = 0
      /\ \A i \in 1 .. L : R[i] = R[i - 1] + f.sheets[i].head + f.sheets[i].data
  BY RowsUpToSteps
<1>4. k \in 1 .. L /\ RowNumber(f) = R[L]
  BY DEF RowNumber
<1> HIDE DEF L, D, R
<1>5. 0 \in S /\ 0 \in T
  BY <1>1, <1>2, <1>3, <1>4
<1>6. ASSUME NEW n \in Nat, n \in S PROVE n + 1 \in S
  <2> SUFFICES ASSUME n + 1 <= L PROVE D[n + 1] <= R[n + 1]
    OBVIOUS
  <2>1. n + 1 \in 1 .. L /\ n \in 0 .. L /\ (n + 1) - 1 = n
    BY <1>1
  <2>2. D[n] <= R[n] /\ D[n] \in Nat /\ R[n] \in Nat
    BY <1>1, <1>2, <1>3, <1>6, <2>1
  <2>3. D[n + 1] = D[n] + f.sheets[n + 1].data
    BY <1>2, <2>1
  <2>4. R[n + 1] = R[n] + f.sheets[n + 1].head + f.sheets[n + 1].data
    BY <1>3, <2>1
  <2>5. f.sheets[n + 1].head \in Nat /\ f.sheets[n + 1].data \in Nat
    BY <1>1, <2>1
  <2> QED
    BY <2>2, <2>3, <2>4, <2>5
<1>7. ASSUME NEW n \in Nat, n \in T PROVE n + 1 \in T
  <2> SUFFICES ASSUME k + (n + 1) <= L PROVE R[k] <= R[k + (n + 1)]
    OBVIOUS
  <2> DEFINE m == k + n
  <2>1. m + 1 \in 1 .. L /\ m \in 0 .. L /\ (m + 1) - 1 = m /\ k + (n + 1) = m + 1 /\ m <= L
    BY <1>1, <1>4
  <2>2. R[k] <= R[m] /\ R[m] \in Nat /\ R[k] \in Nat
    BY <1>1, <1>3, <1>4, <1>7, <2>1
  <2> HIDE DEF m
  <2>4. R[m + 1] = R[m] + f.sheets[m + 1].head + f.sheets[m + 1].data
    BY <1>3, <2>1
  <2>5. f.sheets[m + 1].head \in Nat /\ f.sheets[m + 1].data \in Nat
    BY <1>1, <2>1
  <2>6. R[k] <= R[m + 1]
    BY <2>2, <2>4, <2>5
  <2> QED
    BY <2>1, <2>6, Zenon
<1> HIDE DEF S, T
<1>8. k \in S /\ L - k \in T
  <2>1. k \in Nat /\ L - k \in Nat
    BY <1>1, <1>4
  <2>2. \A n \in Nat : n \in S
    BY <1>5, <1>6, Induction
  <2>3. \A n \in Nat : n \in T
    BY <1>5, <1>7, Induction
  <2> QED
    BY <2>1, <2>2, <2>3
<1>9. D[k] <= R[k] /\ R[k] <= R[k + (L - k)]
  BY <1>1, <1>4, <1>8 DEF S, T
<1>10. k + (L - k) = L /\ D[k] \in Nat /\ R[k] \in Nat /\ R[L] \in Nat
  BY <1>1, <1>2, <1>3, <1>4
<1> QED
  BY <1>4, <1>9, <1>10 DEF D

LEMMA CountedAlike ==
    ASSUME NEW f, f.sheets \in Sheets, NEW to \in Int, NEW k \in 0 .. Len(f.sheets)
    PROVE  \/ RowsBefore(f, to)[k] = DataUpTo(f)[k]
           \/ RowsBefore(f, to)[k] > to /\ DataUpTo(f)[k] > to
<1> DEFINE L == Len(f.sheets)
           D == DataUpTo(f)
           R == RowsBefore(f, to)
           S == {n \in Nat : n <= L => R[n] = D[n] \/ (R[n] > to /\ D[n] > to)}
<1>1. L \in Nat /\ \A i \in 1 .. L : f.sheets[i].data \in Nat
  BY SheetCounts
<1>2. D \in [0 .. L -> Nat] /\ D[0] = 0 /\ \A i \in 1 .. L : D[i] = D[i - 1] + f.sheets[i].data
  BY DataUpToSteps
<1>3. /\ R \in [0 .. L -> Nat] /\ R[0] = 0
      /\ \A i \in 1 .. L : R[i] = R[i - 1] + AtMost(f.sheets[i].data, AtLeast(to - R[i - 1], 0) + 1)
  BY RowsBeforeSteps
<1>4. k \in 0 .. L
  OBVIOUS
<1> HIDE DEF L, D, R
<1>5. 0 \in S
  BY <1>2, <1>3
<1>6. ASSUME NEW n \in Nat, n \in S PROVE n + 1 \in S
  <2> SUFFICES ASSUME n + 1 <= L
               PROVE  R[n + 1] = D[n + 1] \/ (R[n + 1] > to /\ D[n + 1] > to)
    OBVIOUS
  <2> DEFINE d == f.sheets[n + 1].data
  <2>1. n + 1 \in 1 .. L /\ n \in 0 .. L /\ n <= L /\ (n + 1) - 1 = n
    BY <1>1
  <2>2. (R[n] = D[n] \/ (R[n] > to /\ D[n] > to)) /\ D[n] \in Nat /\ R[n] \in Nat
    BY <1>1, <1>2, <1>3, <1>6, <2>1
  <2>3. D[n + 1] = D[n] + d
    BY <1>2, <2>1
  <2>4. R[n + 1] = R[n] + AtMost(d, AtLeast(to - R[n], 0) + 1)
    BY <1>3, <2>1
  <2>5. d \in Nat
    BY <1>1, <2>1
  <2> HIDE DEF d
  <2> QED
    BY <2>2, <2>3, <2>4, <2>5 DEF AtMost, AtLeast
<1>7. k \in S
  <2> HIDE DEF S
  <2> QED
    BY <1>1, <1>4, <1>5, <1>6, Induction
<1> QED
  BY <1>1, <1>4, <1>7 DEF R, D

\* A row of data is of the task that covers its number in the workbook.
LEMMA RowOfTask ==
    ASSUME NEW f, f.sheets \in Sheets, NEW t \in Ranged,
           NEW k \in 1 .. Len(f.sheets), NEW i \in 0 .. f.sheets[k].data - 1
    PROVE  <<k, i>> \in RowsOf(f, t) <=> Covers(t, DataUpTo(f)[k - 1] + i)
<1> DEFINE L == Len(f.sheets)
           D == DataUpTo(f)[k - 1]
           R == RowsBefore(f, t.to)[k - 1]
<1>1. /\ L \in Nat /\ DOMAIN f.sheets = 1 .. L /\ k - 1 \in 0 .. L /\ t.from \in Int /\ t.to \in Int
      /\ i \in Nat /\ f.sheets[k].data \in Nat
  BY SheetCounts DEF Ranged
<1>2. D \in Nat /\ R \in Nat
  BY <1>1, DataUpToSteps, RowsBeforeSteps
<1>3. D = R \/ (R > t.to /\ D > t.to)
  BY <1>1, CountedAlike
<1>4. <<k, i>> \in RowsOf(f, t) <=> t.from <= R + i /\ R + i < t.to
  <2>1. ASSUME <<k, i>> \in RowsOf(f, t) PROVE t.from <= R + i /\ R + i < t.to
    BY <2>1 DEF RowsOf
  <2>2. ASSUME t.from <= R + i, R + i < t.to PROVE <<k, i>> \in RowsOf(f, t)
    <3>1. i \in {j \in 0 .. f.sheets[k].data - 1 :
                   LET at == RowsBefore(f, t.to)[k - 1] + j IN t.from <= at /\ at < t.to}
      BY <2>2
    <3> QED
      BY <1>1, <3>1 DEF RowsOf
  <2> QED
    BY <2>1, <2>2
<1> HIDE DEF D, R
<1>5. (t.from <= R + i /\ R + i < t.to) <=> Covers(t, D + i)
  BY <1>1, <1>2, <1>3 DEF Covers
<1> QED
  BY <1>4, <1>5 DEF D

-----------------------------------------------------------------------------
(* What queue_tasks and the executors make of a document.                       *)

\* What a task of the split may be.
Largest(c, f) == CASE f.kind = "pdf" -> c.step
                   [] ByRows(c, f) -> RowStep
                   [] OTHER -> Whole
Fitting(c, f) == {t \in Ranged : 0 <= t.from /\ t.from < t.to /\ t.to - t.from <= Largest(c, f)}

LEMMA IsSequence ==
    ASSUME NEW W, NEW n \in Nat, NEW s, s = [k \in 1 .. n |-> s[k]], \A k \in 1 .. n : s[k] \in W
    PROVE  s \in Seq(W)
<1>1. s \in [1 .. n -> W]
  OBVIOUS
<1> QED
  BY <1>1

LEMMA Cases ==
    ASSUME NEW c, NEW f
    PROVE  /\ f.kind = "pdf" => /\ Largest(c, f) = c.step
                                /\ ParseTasks(c, f) = FlattenSeq([k \in DOMAIN c.ranges |-> PagePieces(c, f, c.ranges[k])])
           /\ ByRows(c, f) => /\ Largest(c, f) = RowStep
                              /\ ParseTasks(c, f) = Pieces(0, RowNumber(f), RowStep)
           /\ f.kind # "pdf" /\ ~ ByRows(c, f) => /\ Largest(c, f) = Whole
                                                 /\ ParseTasks(c, f) = <<[from |-> 0, to |-> Whole]>>
<1>1. f.kind = "pdf" => ~ ByRows(c, f)
  BY DEF ByRows
<1>2. ASSUME f.kind = "pdf"
      PROVE  /\ Largest(c, f) = c.step
             /\ ParseTasks(c, f) = FlattenSeq([k \in DOMAIN c.ranges |-> PagePieces(c, f, c.ranges[k])])
  BY <1>1, <1>2 DEF Largest, ParseTasks
<1>3. ASSUME ByRows(c, f)
      PROVE  Largest(c, f) = RowStep /\ ParseTasks(c, f) = Pieces(0, RowNumber(f), RowStep)
  BY <1>1, <1>3 DEF Largest, ParseTasks
<1>4. ASSUME f.kind # "pdf", ~ ByRows(c, f)
      PROVE  Largest(c, f) = Whole /\ ParseTasks(c, f) = <<[from |-> 0, to |-> Whole]>>
  BY <1>4 DEF Largest, ParseTasks
<1> QED
  BY <1>2, <1>3, <1>4

LEMMA KindsOfFiles ==
    ASSUME NEW c \in Configs, NEW f \in Files
    PROVE  /\ c.step \in Nat \ {0} /\ c.ranges \in Seq(Int \X Int)
           /\ f.kind = "pdf" \/ f.kind = "book"
           /\ f.pages \in Nat /\ f.sheets \in Sheets /\ RowStep \in Nat \ {0}
  BY SplitAssumption DEF Sheets

LEMMA RowNumberType ==
    ASSUME NEW f, f.sheets \in Sheets
    PROVE  RowNumber(f) \in Nat
<1>1. Len(f.sheets) \in Nat
  BY SheetCounts
<1> QED
  BY <1>1, RowsUpToSteps DEF RowNumber

LEMMA PagePieceBounds ==
    ASSUME NEW c \in Configs, NEW f \in Files, f.kind = "pdf", NEW r \in Int \X Int
    PROVE  PagePieces(c, f, r) \in Seq(Fitting(c, f))
<1> DEFINE s == AtLeast(r[1] - 1, 0)
           e == AtMost(r[2] - 1, f.pages)
           n == c.step
<1>1. s \in Nat /\ e \in Int /\ n \in Nat \ {0}
  BY KindsOfFiles DEF AtLeast, AtMost
<1>2. PagePieces(c, f, r) = Pieces(s, e, n)
  BY DEF PagePieces
<1>3. \A t \in Ranged : 0 <= t.from /\ t.from < t.to /\ t.to - t.from <= n => t \in Fitting(c, f)
  <2>1. Largest(c, f) = n
    BY Cases
  <2> QED
    BY <2>1, Zenon DEF Fitting
<1> HIDE DEF s, e, n
<1>4. Pieces(s, e, n) \in Seq(Ranged)
  BY <1>1, PieceBounds
<1>5. ASSUME NEW i \in DOMAIN Pieces(s, e, n) PROVE Pieces(s, e, n)[i] \in Fitting(c, f)
  <2>1. Pieces(s, e, n)[i] \in Ranged
    BY <1>4
  <2>2. LET t == Pieces(s, e, n)[i]
        IN  s <= t.from /\ t.from < t.to /\ t.to <= e /\ t.to - t.from <= n
    BY <1>1, PieceBounds
  <2> QED
    BY <1>1, <1>3, <2>1, <2>2 DEF Ranged
<1>6. Pieces(s, e, n) \in Seq(Fitting(c, f))
  BY <1>4, <1>5
<1> QED
  BY <1>2, <1>6

LEMMA ParseTasksFit ==
    ASSUME NEW c \in Configs, NEW f \in Files
    PROVE  ParseTasks(c, f) \in Seq(Fitting(c, f))
<1>1. CASE f.kind = "pdf"
  <2> DEFINE seqs == [k \in DOMAIN c.ranges |-> PagePieces(c, f, c.ranges[k])]
             V == Fitting(c, f)
  <2>1. c.ranges \in Seq(Int \X Int)
    BY KindsOfFiles
  <2>2. Len(c.ranges) \in Nat /\ DOMAIN c.ranges = 1 .. Len(c.ranges) /\ \A k \in DOMAIN c.ranges : c.ranges[k] \in Int \X Int
    BY <2>1
  <2>3. \A k \in DOMAIN c.ranges : seqs[k] \in Seq(V)
    BY <1>1, <2>2, PagePieceBounds
  <2> HIDE DEF V
  <2>4. seqs \in Seq(Seq(V))
    <3> DEFINE W == Seq(V)
    <3>1. seqs = [k \in 1 .. Len(c.ranges) |-> seqs[k]] /\ \A k \in 1 .. Len(c.ranges) : seqs[k] \in W
      BY <2>2, <2>3
    <3> HIDE DEF seqs, W
    <3>2. seqs \in Seq(W)
      BY <2>2, <3>1, IsSequence
    <3> QED
      BY <3>2 DEF W
  <2> HIDE DEF seqs
  <2>5. \A k \in DOMAIN seqs : OneHit(seqs[k], {})
    BY DEF OneHit, Hits
  <2>6. FlattenSeq(seqs) \in Seq(V)
    BY <2>4, <2>5, FlattenHits
  <2> QED
    BY <1>1, <2>6, Cases DEF seqs, V
<1>2. CASE ByRows(c, f)
  <2> DEFINE s == Pieces(0, RowNumber(f), RowStep)
  <2>1. RowNumber(f) \in Nat /\ RowStep \in Nat \ {0}
    BY KindsOfFiles, RowNumberType
  <2>2. f.kind # "pdf" /\ ParseTasks(c, f) = s
    BY <1>2, Cases DEF ByRows
  <2>3. s \in Seq(Ranged) /\ \A i \in DOMAIN s : 0 <= s[i].from /\ s[i].from < s[i].to /\ s[i].to - s[i].from <= RowStep
    <3> DEFINE e == RowNumber(f)  n == RowStep
    <3>1. e \in Int /\ n \in Nat \ {0} /\ 0 \in Int
      BY <2>1
    <3>2. s = Pieces(0, e, n) /\ n = RowStep
      OBVIOUS
    <3> HIDE DEF e, n, s
    <3>3. Pieces(0, e, n) \in Seq(Ranged)
      BY <3>1, PieceBounds
    <3>4. \A i \in DOMAIN Pieces(0, e, n) :
            LET t == Pieces(0, e, n)[i]
            IN  0 <= t.from /\ t.from < t.to /\ t.to <= e /\ t.to - t.from <= n
      BY <3>1, PieceBounds
    <3> QED
      BY <3>2, <3>3, <3>4
  <2> HIDE DEF s
  <2>4. \A i \in DOMAIN s : s[i] \in Fitting(c, f)
    <3>1. \A i \in DOMAIN s : s[i] \in Ranged
      BY <2>3
    <3> QED
      BY <1>2, <2>3, <3>1, Cases DEF Fitting
  <2> QED
    BY <2>2, <2>3, <2>4
<1>3. CASE f.kind # "pdf" /\ ~ ByRows(c, f)
  <2>1. ParseTasks(c, f) = <<[from |-> 0, to |-> Whole]>>
    BY <1>3, Cases
  <2>2. [from |-> 0, to |-> Whole] \in Fitting(c, f)
    <3>1. Whole \in Int /\ 0 < Whole
      BY SMT DEF Whole
    <3>2. Largest(c, f) = Whole
      BY <1>3, Cases
    <3> QED
      BY <3>1, <3>2 DEF Fitting, Ranged
  <2> QED
    BY <2>1, <2>2
<1> QED
  BY <1>1, <1>2, <1>3

Holding(c, f, u) == {i \in DOMAIN ParseTasks(c, f) : u \in UnitsOf(c, f, ParseTasks(c, f)[i])}

LEMMA UnitsCases ==
    ASSUME NEW c, NEW f, NEW t
    PROVE  /\ f.kind = "pdf" => UnitsOf(c, f, t) = PagesOf(f, t)
           /\ ByRows(c, f) => UnitsOf(c, f, t) = RowsOf(f, t)
           /\ f.kind # "pdf" /\ ~ ByRows(c, f) => UnitsOf(c, f, t) = Units(f)
<1>1. f.kind = "pdf" => ~ ByRows(c, f)
  BY DEF ByRows
<1>2. ASSUME f.kind = "pdf" PROVE UnitsOf(c, f, t) = PagesOf(f, t)
  BY <1>1, <1>2 DEF UnitsOf
<1>3. ASSUME ByRows(c, f) PROVE UnitsOf(c, f, t) = RowsOf(f, t)
  BY <1>1, <1>3 DEF UnitsOf
<1>4. ASSUME f.kind # "pdf", ~ ByRows(c, f) PROVE UnitsOf(c, f, t) = Units(f)
  BY <1>4 DEF UnitsOf
<1> QED
  BY <1>2, <1>3, <1>4

\* A page range has one task with a page it asks for, and none with another page.
LEMMA RangeHits ==
    ASSUME NEW c \in Configs, NEW f \in Files, f.kind = "pdf",
           NEW p \in 0 .. f.pages - 1, NEW r \in Int \X Int
    PROVE  LET H == {t \in Ranged : Covers(t, p)}
           IN  /\ OneHit(PagePieces(c, f, r), H)
               /\ Hits(PagePieces(c, f, r), H) # {} <=> r[1] <= p + 1 /\ p + 1 < r[2]
<1> DEFINE H == {t \in Ranged : Covers(t, p)}
           s == AtLeast(r[1] - 1, 0)
           e == AtMost(r[2] - 1, f.pages)
           n == c.step
<1>1. s \in Int /\ e \in Int /\ n \in Nat \ {0} /\ p \in Int
  BY KindsOfFiles DEF AtLeast, AtMost
<1>2. s <= p /\ p < e <=> r[1] <= p + 1 /\ p + 1 < r[2]
  BY KindsOfFiles DEF AtLeast, AtMost
<1>3. PagePieces(c, f, r) = Pieces(s, e, n)
  BY DEF PagePieces
<1> HIDE DEF s, e, n
<1>4. Pieces(s, e, n) \in Seq(Ranged)
  BY <1>1, PieceBounds
<1>5. \A j \in DOMAIN Pieces(s, e, n) : j \in Hits(Pieces(s, e, n), H) <=> Covers(Pieces(s, e, n)[j], p)
  BY <1>4 DEF Hits
<1>6. CASE s <= p /\ p < e
  <2>1. PICK i \in DOMAIN Pieces(s, e, n) : \A j \in DOMAIN Pieces(s, e, n) : Covers(Pieces(s, e, n)[j], p) <=> j = i
    BY <1>1, <1>6, PieceOf
  <2>2. Hits(Pieces(s, e, n), H) = {i}
    <3>1. \A j \in Hits(Pieces(s, e, n), H) : j \in DOMAIN Pieces(s, e, n)
      BY DEF Hits
    <3> QED
      BY <1>5, <2>1, <3>1
  <2> QED
    BY <1>2, <1>3, <1>6, <2>2 DEF OneHit
<1>7. CASE ~ (s <= p /\ p < e)
  <2>1. \A j \in DOMAIN Pieces(s, e, n) : ~ Covers(Pieces(s, e, n)[j], p)
    BY <1>1, <1>7, PieceOf
  <2>2. Hits(Pieces(s, e, n), H) = {}
    <3>1. \A j \in Hits(Pieces(s, e, n), H) : j \in DOMAIN Pieces(s, e, n)
      BY DEF Hits
    <3> QED
      BY <1>5, <2>1, <3>1
  <2> QED
    BY <1>2, <1>3, <1>7, <2>2 DEF OneHit
<1> QED
  BY <1>6, <1>7

LEMMA PagesAreExact ==
    ASSUME NEW c \in Configs, NEW f \in Files, f.kind = "pdf", NEW u \in Units(f)
    PROVE  Cardinality(Holding(c, f, u)) = Cardinality(Asks(c, f, u))
<1>1. PICK p \in 0 .. f.pages - 1 : u = <<0, p>>
  BY DEF Units
<1> DEFINE H == {t \in Ranged : Covers(t, p)}
           seqs == [k \in DOMAIN c.ranges |-> PagePieces(c, f, c.ranges[k])]
<1>2. /\ c.ranges \in Seq(Int \X Int) /\ f.pages \in Nat
      /\ Len(c.ranges) \in Nat /\ DOMAIN c.ranges = 1 .. Len(c.ranges)
  BY KindsOfFiles
<1>3. \A k \in DOMAIN c.ranges : c.ranges[k] \in Int \X Int
  BY <1>2
<1>4. \A k \in DOMAIN c.ranges : PagePieces(c, f, c.ranges[k]) \in Seq(Ranged)
  <2>1. \A k \in DOMAIN c.ranges : PagePieces(c, f, c.ranges[k]) \in Seq(Fitting(c, f))
    BY <1>3, PagePieceBounds
  <2>2. Fitting(c, f) \subseteq Ranged
    BY DEF Fitting
  <2> QED
    BY <2>1, <2>2
<1>5. seqs \in Seq(Seq(Ranged))
  <2> DEFINE W == Seq(Ranged)
  <2>1. seqs = [k \in 1 .. Len(c.ranges) |-> seqs[k]] /\ \A k \in 1 .. Len(c.ranges) : seqs[k] \in W
    BY <1>2, <1>4
  <2> HIDE DEF seqs, W
  <2>2. seqs \in Seq(W)
    BY <1>2, <2>1, IsSequence
  <2> QED
    BY <2>2 DEF W
<1>6. DOMAIN seqs = DOMAIN c.ranges /\ \A k \in DOMAIN c.ranges : seqs[k] = PagePieces(c, f, c.ranges[k])
  OBVIOUS
<1>7. \A k \in DOMAIN c.ranges : /\ OneHit(seqs[k], H)
                                 /\ Hits(seqs[k], H) # {} <=> c.ranges[k][1] <= p + 1 /\ p + 1 < c.ranges[k][2]
  BY <1>3, <1>6, RangeHits
<1>8. ParseTasks(c, f) = FlattenSeq(seqs)
  BY Cases
<1> HIDE DEF seqs, H
<1>9. /\ FlattenSeq(seqs) \in Seq(Ranged)
      /\ Cardinality(Hits(FlattenSeq(seqs), H)) = Cardinality({k \in DOMAIN seqs : Hits(seqs[k], H) # {}})
  <2>1. \A k \in DOMAIN seqs : OneHit(seqs[k], H)
    BY <1>6, <1>7
  <2> DEFINE R == Ranged
  <2> HIDE DEF R
  <2>2. seqs \in Seq(Seq(R))
    BY <1>5 DEF R
  <2>3. /\ FlattenSeq(seqs) \in Seq(R)
        /\ Cardinality(Hits(FlattenSeq(seqs), H)) = Cardinality({k \in DOMAIN seqs : Hits(seqs[k], H) # {}})
    BY <2>1, <2>2, FlattenHits
  <2> QED
    BY <2>3 DEF R
<1>10. Hits(FlattenSeq(seqs), H) = Holding(c, f, u)
  <2> DEFINE s == FlattenSeq(seqs)
  <2>1. ASSUME NEW i \in DOMAIN s PROVE s[i] \in H <=> u \in UnitsOf(c, f, s[i])
    <3>1. s[i] \in Ranged
      BY <1>9
    <3>2. UnitsOf(c, f, s[i]) = PagesOf(f, s[i])
      BY UnitsCases
    <3>3. u \in PagesOf(f, s[i]) <=> p \in s[i].from .. AtMost(s[i].to, f.pages) - 1
      BY <1>1 DEF PagesOf
    <3> HIDE DEF s
    <3>4. p \in s[i].from .. AtMost(s[i].to, f.pages) - 1 <=> Covers(s[i], p)
      BY <1>2, <3>1 DEF AtMost, Covers, Ranged
    <3>5. s[i] \in H <=> Covers(s[i], p)
      BY <3>1 DEF H
    <3> QED
      BY <3>2, <3>3, <3>4, <3>5
  <2>2. ParseTasks(c, f) = s
    BY <1>8
  <2> HIDE DEF s
  <2>3. Hits(s, H) = Holding(c, f, u)
    BY <2>1, <2>2 DEF Hits, Holding
  <2> QED
    BY <2>3 DEF s
<1>11. {k \in DOMAIN seqs : Hits(seqs[k], H) # {}} = Asks(c, f, u)
  <2>1. u[2] = p
    BY <1>1
  <2> QED
    BY <1>6, <1>7, <2>1 DEF Asks
<1> QED
  BY <1>9, <1>10, <1>11

LEMMA SplitIsExact ==
    ASSUME NEW c \in Configs, NEW f \in Files, NEW u \in Units(f)
    PROVE  Cardinality(Holding(c, f, u)) = Cardinality(Asks(c, f, u))
<1>1. CASE f.kind = "pdf"
  BY <1>1, PagesAreExact
<1>2. CASE ByRows(c, f)
  <2> DEFINE s == Pieces(0, RowNumber(f), RowStep)
             e == RowNumber(f)
             L == Len(f.sheets)
             D == DataUpTo(f)
  <2>1. f.sheets \in Sheets /\ e \in Int /\ RowStep \in Nat \ {0} /\ f.kind # "pdf" /\ 0 \in Int
    BY <1>2, KindsOfFiles, RowNumberType DEF ByRows
  <2>2. /\ L \in Nat /\ DOMAIN f.sheets = 1 .. L
        /\ \A k \in 1 .. L : f.sheets[k].data \in Nat
    BY <2>1, SheetCounts
  <2>0. PICK k \in 1 .. L : \E i \in 0 .. f.sheets[k].data - 1 : u = <<k, i>>
    BY <2>1, <2>2 DEF Units
  <2>3. PICK i \in 0 .. f.sheets[k].data - 1 : u = <<k, i>>
    BY <2>0
  <2>4. D \in [0 .. L -> Nat] /\ D[k] = D[k - 1] + f.sheets[k].data
    BY <2>1, DataUpToSteps
  <2> DEFINE x == D[k - 1] + i
  <2>5. x \in Int /\ 0 <= x /\ x < e
    <3>1. D[k] <= e
      BY <2>1, DataWithinRows
    <3>2. k - 1 \in 0 .. L /\ k \in 0 .. L /\ f.sheets[k].data \in Nat
      BY <2>2
    <3>3. D[k - 1] \in Nat /\ D[k] \in Nat
      BY <2>4, <3>2
    <3> DEFINE a == D[k - 1]  b == D[k]  d == f.sheets[k].data
    <3>4. a \in Nat /\ b \in Nat /\ d \in Nat /\ b = a + d /\ b <= e /\ e \in Int /\ i \in 0 .. d - 1
      BY <2>1, <2>4, <3>1, <3>2, <3>3
    <3>5. x = a + i
      OBVIOUS
    <3> HIDE DEF a, b, d, x, e
    <3> QED
      BY <3>4, <3>5
  <2>6. s \in Seq(Ranged)
    BY <2>1, PieceBounds
  <2>7. ASSUME NEW j \in DOMAIN s PROVE u \in UnitsOf(c, f, s[j]) <=> Covers(s[j], x)
    <3>1. s[j] \in Ranged
      BY <2>6
    <3>2. UnitsOf(c, f, s[j]) = RowsOf(f, s[j])
      BY <1>2, UnitsCases
    <3> HIDE DEF s
    <3> QED
      BY <2>1, <2>3, <3>1, <3>2, RowOfTask
  <2>8. ParseTasks(c, f) = s
    BY <1>2, Cases
  <2> HIDE DEF x, e
  <2>9. PICK j \in DOMAIN s : \A i2 \in DOMAIN s : Covers(s[i2], x) <=> i2 = j
    BY <2>1, <2>5, PieceOf DEF e
  <2> HIDE DEF s
  <2>10. Holding(c, f, u) = {j}
    BY <2>7, <2>8, <2>9 DEF Holding
  <2>11. Asks(c, f, u) = {1}
    BY <2>1 DEF Asks
  <2> QED
    BY <2>10, <2>11, FS_Singleton
<1>3. CASE f.kind # "pdf" /\ ~ ByRows(c, f)
  <2>1. ParseTasks(c, f) = <<[from |-> 0, to |-> Whole]>>
    BY <1>3, Cases
  <2>2. \A t : u \in UnitsOf(c, f, t)
    BY <1>3, UnitsCases
  <2>3. DOMAIN ParseTasks(c, f) = {1}
    BY <2>1
  <2>4. Holding(c, f, u) = {1}
    BY <2>2, <2>3 DEF Holding
  <2>5. Asks(c, f, u) = {1}
    BY <1>3 DEF Asks
  <2> QED
    BY <2>4, <2>5
<1> QED
  BY <1>1, <1>2, <1>3

-----------------------------------------------------------------------------
(* Types, and what a task is: one of the split that its configuration and      *)
(* content give.                                                               *)

Chunk == Configs \X Files \X (Int \X Int)
TaskRow == [from : Int, to : Int, digest : Configs \X Files \X Int \X Int,
            progress : -1 .. 2, chunks : SUBSET Chunk]

SplitTypes ==
    /\ config \in Configs /\ file \in Files /\ run \in {"UNSTART", "RUNNING"}
    /\ tasks \in Seq(TaskRow) /\ store \in SUBSET Chunk
    /\ counted \in BOOLEAN /\ disturbed \in BOOLEAN /\ wiped \in BOOLEAN /\ unnamed \in BOOLEAN
    /\ docRequests \in 0 .. MaxDocRequests /\ breakOffs \in 0 .. MaxBreakOffs

PlannedBy(c, f) ==
    LET new == ParseTasks(c, f)
    IN  /\ DOMAIN tasks = DOMAIN new
        /\ \A i \in DOMAIN tasks : /\ tasks[i].from = new[i].from /\ tasks[i].to = new[i].to
                                   /\ tasks[i].digest = Digest(c, f, new[i])
Planned == tasks = <<>> \/ \E c \in Configs, f \in Files : PlannedBy(c, f)

LEMMA UnitsType ==
    ASSUME NEW c \in Configs, NEW f \in Files, NEW t, t.from \in Int, t.to \in Int
    PROVE  UnitsOf(c, f, t) \subseteq Int \X Int
<1>1. f.kind = "pdf" => PagesOf(f, t) \subseteq Int \X Int
  BY KindsOfFiles DEF PagesOf, AtMost
<1>2. f.sheets \in Sheets
  BY KindsOfFiles
<1>3. RowsOf(f, t) \subseteq Int \X Int
  <2>1. DOMAIN f.sheets \subseteq Int
    BY <1>2, SheetCounts
  <2> QED
    BY <2>1 DEF RowsOf
<1>4. Units(f) \subseteq Int \X Int
  <2>1. DOMAIN f.sheets \subseteq Int
    BY <1>2, SheetCounts
  <2> QED
    BY <2>1 DEF Units
<1> QED
  BY <1>1, <1>3, <1>4, UnitsCases

LEMMA MadeType ==
    ASSUME SplitTypes, NEW t, t.from \in Int, t.to \in Int
    PROVE  /\ Made(t) \in SUBSET Chunk
           /\ \A toc \in Tocs(t) : toc \in SUBSET Chunk
<1>1. config \in Configs /\ file \in Files
  BY DEF SplitTypes
<1>2. Made(t) \in SUBSET Chunk
  BY <1>1, UnitsType DEF Made, Chunk
<1>3. Contents(config, file) \in Chunk
  BY <1>1 DEF Contents, Chunk
<1>4. \A toc \in Tocs(t) : toc = {} \/ toc = {Contents(config, file)}
  BY DEF Tocs
<1> QED
  BY <1>2, <1>3, <1>4

\* The tasks when task i ends a run with progress p and the chunks N.
Update(s, i, p, N) == [s EXCEPT ![i].progress = p, ![i].chunks = N]

\* A task that is updated keeps its place, its range and its digest.
LEMMA Updated ==
    ASSUME NEW s \in Seq(TaskRow), NEW i \in DOMAIN s, NEW p \in -1 .. 2, NEW N \in SUBSET Chunk
    PROVE  LET new == Update(s, i, p, N)
           IN  /\ new \in Seq(TaskRow) /\ DOMAIN new = DOMAIN s
               /\ \A j \in DOMAIN s : /\ new[j].from = s[j].from /\ new[j].to = s[j].to
                                      /\ new[j].digest = s[j].digest
                                      /\ j # i => new[j] = s[j]
               /\ new[i].progress = p /\ new[i].chunks = N
<1> DEFINE r == [[s[i] EXCEPT !.progress = p] EXCEPT !.chunks = N]
           new == [s EXCEPT ![i] = r]
<1>1. i \in 1 .. Len(s) /\ s[i] \in TaskRow
  OBVIOUS
<1>2. Update(s, i, p, N) = new
  BY DEF Update
<1>3. /\ r \in TaskRow /\ r.progress = p /\ r.chunks = N
      /\ r.from = s[i].from /\ r.to = s[i].to /\ r.digest = s[i].digest
  <2> DEFINE q == s[i]
  <2>1. q \in TaskRow /\ r = [[q EXCEPT !.progress = p] EXCEPT !.chunks = N]
    BY <1>1
  <2> HIDE DEF q, r, new
  <2> DEFINE M == SUBSET Chunk
             D == Configs \X Files \X Int \X Int
             R == [from : Int, to : Int, digest : D, progress : -1 .. 2, chunks : M]
  <2>2. TaskRow = R /\ N \in M
    BY DEF TaskRow
  <2> HIDE DEF M, D
  <2>3. q \in R /\ r = [[q EXCEPT !.progress = p] EXCEPT !.chunks = N]
    BY <2>1, <2>2
  <2>4. r \in R /\ r.progress = p /\ r.chunks = N /\ r.from = q.from /\ r.to = q.to /\ r.digest = q.digest
    BY <2>2, <2>3
  <2> HIDE DEF R
  <2> QED
    BY <2>2, <2>4 DEF q
<1> HIDE DEF r
<1>4. new \in Seq(TaskRow)
  BY <1>1, <1>3, ExceptSeq
<1>5. DOMAIN new = DOMAIN s /\ new[i] = r /\ \A j \in DOMAIN s : j # i => new[j] = s[j]
  OBVIOUS
<1> HIDE DEF new
<1> QED
  BY <1>2, <1>3, <1>4, <1>5

LEMMA QueueTasksEffect ==
    ASSUME SplitTypes, NEW prev \in Seq(TaskRow), NEW left \in SUBSET Chunk, QueueTasks(prev, left)
    PROVE  /\ tasks' \in Seq(TaskRow) /\ store' \in SUBSET Chunk
           /\ DOMAIN tasks' = DOMAIN ParseTasks(config, file)
           /\ \A i \in DOMAIN tasks' :
                LET new == ParseTasks(config, file)
                    lenders == Lenders(prev, new, i)
                IN  /\ tasks'[i].from = new[i].from /\ tasks'[i].to = new[i].to
                    /\ tasks'[i].digest = Digest(config, file, new[i])
                    /\ tasks'[i].progress = IF lenders = {} THEN 0 ELSE 2
                    /\ tasks'[i].chunks = UNION {prev[j].chunks : j \in lenders}
<1> DEFINE new == ParseTasks(config, file)
           row(i) == [from |-> new[i].from, to |-> new[i].to, digest |-> Digest(config, file, new[i]),
                      progress |-> IF Lenders(prev, new, i) = {} THEN 0 ELSE 2,
                      chunks |-> UNION {prev[j].chunks : j \in Lenders(prev, new, i)}]
<1>1. config \in Configs /\ file \in Files
  BY DEF SplitTypes
<1>2. new \in Seq(Fitting(config, file))
  BY <1>1, ParseTasksFit
<1>3. Len(new) \in Nat /\ DOMAIN new = 1 .. Len(new) /\ \A i \in DOMAIN new : new[i].from \in Int /\ new[i].to \in Int
  <2>1. \A i \in DOMAIN new : new[i] \in Fitting(config, file)
    BY <1>2
  <2> QED
    BY <1>2, <2>1 DEF Fitting, Ranged
<1>4. \A j \in DOMAIN prev : prev[j].chunks \in SUBSET Chunk
  <2>1. \A j \in DOMAIN prev : prev[j] \in TaskRow
    OBVIOUS
  <2> QED
    BY <2>1 DEF TaskRow
<1>5. tasks' = [i \in DOMAIN new |-> row(i)] /\ store' \subseteq left
  BY DEF QueueTasks
<1> HIDE DEF new
<1>6. ASSUME NEW i \in DOMAIN new PROVE row(i) \in TaskRow
  <2>1. Lenders(prev, new, i) \subseteq DOMAIN prev
    BY DEF Lenders, Lender
  <2>2. UNION {prev[j].chunks : j \in Lenders(prev, new, i)} \in SUBSET Chunk
    BY <1>4, <2>1
  <2>3. Digest(config, file, new[i]) \in Configs \X Files \X Int \X Int
    BY <1>1, <1>3 DEF Digest
  <2> HIDE DEF Chunk
  <2> QED
    BY <1>3, <2>2, <2>3 DEF TaskRow
<1>7. \A i \in DOMAIN new : tasks'[i] = row(i)
  BY <1>5
<1>8. tasks' \in Seq(TaskRow)
  <2>1. tasks' = [i \in 1 .. Len(new) |-> tasks'[i]] /\ \A i \in 1 .. Len(new) : tasks'[i] \in TaskRow
    BY <1>3, <1>5, <1>6, <1>7
  <2> QED
    BY <1>3, <2>1, IsSequence
<1> QED
  BY <1>5, <1>7, <1>8 DEF new

LEMMA RowTypes ==
    ASSUME SplitTypes
    PROVE  \A i \in DOMAIN tasks : /\ tasks[i] \in TaskRow /\ tasks[i].from \in Int /\ tasks[i].to \in Int
                                   /\ tasks[i].digest \in Configs \X Files \X Int \X Int
                                   /\ tasks[i].progress \in -1 .. 2 /\ tasks[i].chunks \in SUBSET Chunk
<1>1. \A i \in DOMAIN tasks : tasks[i] \in TaskRow
  BY DEF SplitTypes
<1> DEFINE C == SUBSET Chunk
<1> HIDE DEF C
<1> QED
  BY <1>1 DEF TaskRow, C

LEMMA NamesCases ==
    ASSUME NEW t, NEW toc \in Tocs(t)
    PROVE  /\ Made(t) = {} => Names(t, toc) = t.chunks /\ toc = {}
           /\ Made(t) # {} /\ toc # {} => Names(t, toc) = toc /\ toc = {Contents(config, file)}
           /\ Made(t) # {} /\ toc = {} => Names(t, toc) = Made(t)
<1>1. Made(t) = {} => toc = {}
  BY DEF Tocs
<1>2. toc = {} \/ toc = {Contents(config, file)}
  BY DEF Tocs
<1>3. ASSUME Made(t) = {} PROVE Names(t, toc) = t.chunks
  BY <1>1, <1>3 DEF Names
<1>4. ASSUME Made(t) # {}, toc # {} PROVE Names(t, toc) = toc
  BY <1>4 DEF Names
<1>5. ASSUME Made(t) # {}, toc = {} PROVE Names(t, toc) = Made(t)
  BY <1>5 DEF Names
<1> QED
  BY <1>1, <1>2, <1>3, <1>4, <1>5

LEMMA FinishRan ==
    ASSUME SplitTypes, NEW i \in DOMAIN tasks, Finish(i)
    PROVE  \E toc \in Tocs(tasks[i]) :
             /\ Names(tasks[i], toc) \in SUBSET Chunk
             /\ tasks' = Update(tasks, i, 2, Names(tasks[i], toc))
             /\ store' = store \cup Made(tasks[i]) \cup toc /\ store' \in SUBSET Chunk
             /\ unnamed' = (unnamed \/ ~ tasks[i].chunks \cup Made(tasks[i]) \subseteq Names(tasks[i], toc))
<1>1. PICK toc \in Tocs(tasks[i]) :
        /\ tasks' = Update(tasks, i, 2, Names(tasks[i], toc))
        /\ store' = store \cup Made(tasks[i]) \cup toc
        /\ unnamed' = (unnamed \/ ~ tasks[i].chunks \cup Made(tasks[i]) \subseteq Names(tasks[i], toc))
  BY DEF Finish, Update
<1>2. tasks[i].chunks \in SUBSET Chunk /\ Made(tasks[i]) \in SUBSET Chunk /\ toc \in SUBSET Chunk
  BY RowTypes, MadeType
<1>3. Names(tasks[i], toc) \in SUBSET Chunk
  BY <1>2, NamesCases
<1>4. store' \in SUBSET Chunk
  BY <1>1, <1>2 DEF SplitTypes
<1> QED
  BY <1>1, <1>3, <1>4

\* Task i broke off: some of what it made is stored, and N is named.
Broke(i, o, stored, N) ==
    /\ N = tasks[i].chunks \/ N \subseteq stored
    /\ tasks' = Update(tasks, i, o, N)
    /\ store' = store \cup stored /\ store' \in SUBSET Chunk
    /\ unnamed' = (unnamed \/ ~ tasks[i].chunks \cup stored \subseteq N)

LEMMA BreakOffRan ==
    ASSUME SplitTypes, NEW i \in DOMAIN tasks, NEW o \in {-1, 1}, BreakOff(i, o)
    PROVE  \E stored \in SUBSET Made(tasks[i]), N \in SUBSET Chunk : Broke(i, o, stored, N)
<1>1. PICK stored \in Firsts(tasks[i]), named \in Firsts(tasks[i]) :
        /\ named \subseteq stored
        /\ store' = store \cup stored
        /\ tasks' = [tasks EXCEPT ![i].progress = o, ![i].chunks = IF named = {} THEN @ ELSE named]
        /\ unnamed' = (unnamed \/ ~ tasks[i].chunks \cup stored \subseteq tasks'[i].chunks)
  BY DEF BreakOff
<1>2. \A x \in Firsts(tasks[i]) : x \subseteq Made(tasks[i])
  BY DEF Firsts
<1>3. tasks[i].chunks \in SUBSET Chunk /\ Made(tasks[i]) \in SUBSET Chunk
  BY RowTypes, MadeType
<1> DEFINE N == IF named = {} THEN tasks[i].chunks ELSE named
<1>4. tasks' = Update(tasks, i, o, N)
  <2>1. [tasks EXCEPT ![i].progress = o, ![i].chunks = IF named = {} THEN @ ELSE named]
          = [tasks EXCEPT ![i].progress = o, ![i].chunks = N]
    OBVIOUS
  <2> QED
    BY <1>1, <2>1 DEF Update
<1>5. N \in SUBSET Chunk /\ (N = tasks[i].chunks \/ N \subseteq stored)
  BY <1>1, <1>2, <1>3
<1> HIDE DEF N
<1>6. tasks'[i].chunks = N
  <2>1. tasks \in Seq(TaskRow) /\ o \in -1 .. 2
    BY DEF SplitTypes
  <2> QED
    BY <1>4, <1>5, <2>1, Updated
<1>7. store' \in SUBSET Chunk
  BY <1>1, <1>2, <1>3 DEF SplitTypes
<1> QED
  <2>1. stored \in SUBSET Made(tasks[i])
    BY <1>2
  <2>2. unnamed' = (unnamed \/ ~ tasks[i].chunks \cup stored \subseteq N)
    BY <1>1, <1>6
  <2>3. Broke(i, o, stored, N)
    BY <1>1, <1>4, <1>5, <1>7, <2>2 DEF Broke
  <2> QED
    BY <1>5, <2>1, <2>3

\* The steps that leave the tasks alone.
Edit == \/ \E c \in Configs : ChangeParser(c) \/ SetChunkMethod(c) \/ EditConfig(c)
        \/ \E f \in Files : ReplaceContent(f)

\* What these steps have in common.
Edited ==
    /\ config' \in Configs /\ file' \in Files /\ run' \in {"UNSTART", "RUNNING"}
    /\ tasks' = tasks /\ counted' \in BOOLEAN /\ wiped' \in BOOLEAN
    /\ unnamed' = unnamed /\ breakOffs' = breakOffs
    /\ docRequests < MaxDocRequests /\ docRequests' = docRequests + 1
    /\ disturbed' = (disturbed \/ Unfinished)
    /\ store' \subseteq store /\ (store' # store => wiped') /\ (wiped => wiped')

LEMMA EditIsEdited ==
    ASSUME SplitTypes, Edit
    PROVE  Edited
<1>0. /\ config \in Configs /\ file \in Files /\ run \in {"UNSTART", "RUNNING"}
      /\ counted \in BOOLEAN /\ wiped \in BOOLEAN
  BY DEF SplitTypes
<1>1. ASSUME DropChunksIfCounted
      PROVE  /\ store' \subseteq store /\ (store' # store => wiped') /\ (wiped => wiped')
             /\ counted' \in BOOLEAN /\ wiped' \in BOOLEAN
  BY <1>0, <1>1 DEF DropChunksIfCounted
<1>2. ASSUME NEW c \in Configs, ChangeParser(c) PROVE Edited
  <2>1. DropChunksIfCounted
    BY <1>2 DEF ChangeParser
  <2> QED
    BY <1>0, <1>1, <1>2, <2>1 DEF ChangeParser, Ask, Changes, Edited
<1>3. ASSUME NEW c \in Configs, SetChunkMethod(c) PROVE Edited
  <2>1. DropChunksIfCounted
    BY <1>3 DEF SetChunkMethod
  <2> QED
    BY <1>0, <1>1, <1>3, <2>1 DEF SetChunkMethod, Ask, Changes, Edited
<1>4. ASSUME NEW c \in Configs, EditConfig(c) PROVE Edited
  BY <1>0, <1>4 DEF EditConfig, Ask, Changes, Edited
<1>5. ASSUME NEW f \in Files, ReplaceContent(f) PROVE Edited
  BY <1>0, <1>5 DEF ReplaceContent, Ask, Changes, Edited
<1> QED
  BY <1>2, <1>3, <1>4, <1>5 DEF Edit

LEMMA NextCases ==
    ASSUME SplitNext
    PROVE  \/ Keep \/ Redo \/ Edit
           \/ \E i \in DOMAIN tasks : Finish(i)
           \/ \E i \in DOMAIN tasks, o \in {-1, 1} : BreakOff(i, o)
  BY DEF SplitNext, Edit

LEMMA SplitTypesInit ==
    SplitInit => SplitTypes /\ Planned
<1> SUFFICES ASSUME SplitInit PROVE SplitTypes /\ Planned
  OBVIOUS
<1>1. PICK c \in Configs, f \in Files : SplitStart(c, f)
  BY DEF SplitInit
<1>2. MaxDocRequests \in Nat /\ MaxBreakOffs \in Nat
  BY SplitAssumption
<1> QED
  <2>1. tasks = <<>> /\ store = {} /\ tasks \in Seq(TaskRow)
    BY <1>1 DEF SplitStart
  <2>2. counted \in BOOLEAN /\ disturbed \in BOOLEAN /\ wiped \in BOOLEAN /\ unnamed \in BOOLEAN
    BY <1>1, Zenon DEF SplitStart
  <2>3. docRequests \in 0 .. MaxDocRequests /\ breakOffs \in 0 .. MaxBreakOffs
    BY <1>1, <1>2 DEF SplitStart
  <2>4. config \in Configs /\ file \in Files /\ run \in {"UNSTART", "RUNNING"}
    BY <1>1 DEF SplitStart
  <2> QED
    BY <2>1, <2>2, <2>3, <2>4 DEF SplitTypes, Planned

LEMMA SplitTypesStep ==
    ASSUME SplitTypes, [SplitNext]_splitVars
    PROVE  SplitTypes'
<1>0. MaxDocRequests \in Nat /\ MaxBreakOffs \in Nat
  BY SplitAssumption
<1>1. CASE Keep
  <2>1. tasks \in Seq(TaskRow) /\ store \in SUBSET Chunk
    BY DEF SplitTypes
  <2>2. QueueTasks(tasks, store)
    BY <1>1 DEF Keep
  <2>3. tasks' \in Seq(TaskRow) /\ store' \in SUBSET Chunk
    BY <2>1, <2>2, QueueTasksEffect
  <2>4. wiped' \in BOOLEAN
    BY <2>2 DEF QueueTasks
  <2> QED
    BY <1>0, <1>1, <2>3, <2>4 DEF Keep, Ask, SplitTypes
<1>2. CASE Redo
  <2>1. <<>> \in Seq(TaskRow) /\ {} \in SUBSET Chunk
    OBVIOUS
  <2>2. QueueTasks(<<>>, {})
    BY <1>2 DEF Redo
  <2>3. tasks' \in Seq(TaskRow) /\ store' \in SUBSET Chunk
    BY <2>1, <2>2, QueueTasksEffect
  <2>4. wiped' \in BOOLEAN
    BY <2>2 DEF QueueTasks
  <2> QED
    <3>1. counted' \in BOOLEAN /\ disturbed' \in BOOLEAN /\ unnamed' \in BOOLEAN
      BY <1>2, Zenon DEF Redo
    <3>2. docRequests' \in 0 .. MaxDocRequests /\ breakOffs' \in 0 .. MaxBreakOffs
      BY <1>0, <1>2 DEF Redo, Ask, SplitTypes
    <3>3. config' \in Configs /\ file' \in Files /\ run' \in {"UNSTART", "RUNNING"}
      BY <1>2 DEF Redo, SplitTypes
    <3> QED
      BY <2>3, <2>4, <3>1, <3>2, <3>3 DEF SplitTypes
<1>3. CASE Edit
  <2>1. Edited
    BY <1>3, EditIsEdited
  <2>2. store' \in SUBSET Chunk /\ disturbed' \in BOOLEAN
    BY <2>1 DEF Edited, SplitTypes, Unfinished
  <2> QED
    BY <1>0, <2>1, <2>2 DEF Edited, SplitTypes
<1>4. ASSUME NEW i \in DOMAIN tasks, Finish(i) PROVE SplitTypes'
  <2>1. PICK N \in SUBSET Chunk : tasks' = Update(tasks, i, 2, N)
    BY <1>4, FinishRan
  <2>2. tasks \in Seq(TaskRow) /\ 2 \in -1 .. 2
    BY DEF SplitTypes
  <2>3. tasks' \in Seq(TaskRow)
    BY <2>1, <2>2, Updated
  <2>4. store' \in SUBSET Chunk /\ unnamed' \in BOOLEAN
    BY <1>4, FinishRan
  <2>5. counted' \in BOOLEAN
    BY <1>4 DEF Finish, SplitTypes
  <2> QED
    BY <1>4, <2>3, <2>4, <2>5 DEF Finish, SplitTypes
<1>5. ASSUME NEW i \in DOMAIN tasks, NEW o \in {-1, 1}, BreakOff(i, o) PROVE SplitTypes'
  <2>1. PICK N \in SUBSET Chunk : tasks' = Update(tasks, i, o, N)
    BY <1>5, BreakOffRan DEF Broke
  <2>2. tasks \in Seq(TaskRow) /\ o \in -1 .. 2
    BY DEF SplitTypes
  <2>3. tasks' \in Seq(TaskRow)
    BY <2>1, <2>2, Updated
  <2>4. store' \in SUBSET Chunk /\ unnamed' \in BOOLEAN
    BY <1>5, BreakOffRan DEF Broke
  <2> QED
    <3>1. breakOffs' = breakOffs + 1 /\ breakOffs < MaxBreakOffs
          /\ UNCHANGED <<config, file, run, counted, disturbed, wiped, docRequests>>
      BY <1>5, Zenon DEF BreakOff
    <3>2. breakOffs' \in 0 .. MaxBreakOffs
      BY <1>0, <3>1 DEF SplitTypes
    <3> QED
      BY <2>3, <2>4, <3>1, <3>2 DEF SplitTypes
<1>6. CASE UNCHANGED splitVars
  BY <1>6 DEF splitVars, SplitTypes
<1> QED
  BY <1>1, <1>2, <1>3, <1>4, <1>5, <1>6, NextCases

LEMMA PlannedAgain ==
    ASSUME SplitTypes, NEW prev \in Seq(TaskRow), NEW left \in SUBSET Chunk, QueueTasks(prev, left)
    PROVE  Planned'
<1> DEFINE c == config  f == file
           new == ParseTasks(c, f)
<1>1. c \in Configs /\ f \in Files
  BY DEF SplitTypes
<1>2. DOMAIN tasks' = DOMAIN new
  BY QueueTasksEffect
<1>3. \A i \in DOMAIN tasks' : /\ tasks'[i].from = new[i].from /\ tasks'[i].to = new[i].to
                               /\ tasks'[i].digest = Digest(c, f, new[i])
  BY QueueTasksEffect
<1>4. \E c0 \in Configs, f0 \in Files :
        LET n == ParseTasks(c0, f0)
        IN  /\ DOMAIN tasks' = DOMAIN n
            /\ \A i \in DOMAIN tasks' : /\ tasks'[i].from = n[i].from /\ tasks'[i].to = n[i].to
                                        /\ tasks'[i].digest = Digest(c0, f0, n[i])
  BY <1>1, <1>2, <1>3, Zenon
<1> QED
  BY <1>4, Zenon DEF Planned, PlannedBy

\* A request makes the tasks anew; the run of a task leaves its range and its digest.
LEMMA PlannedStep ==
    ASSUME SplitTypes, Planned, [SplitNext]_splitVars
    PROVE  Planned'
<1>0. tasks \in Seq(TaskRow)
  BY DEF SplitTypes
<1>1. CASE Keep
  <2>1. QueueTasks(tasks, store) /\ store \in SUBSET Chunk
    BY <1>1 DEF Keep, SplitTypes
  <2> QED
    BY <1>0, <2>1, PlannedAgain
<1>2. CASE Redo
  <2>1. QueueTasks(<<>>, {}) /\ <<>> \in Seq(TaskRow) /\ {} \in SUBSET Chunk
    BY <1>2 DEF Redo
  <2> QED
    BY <2>1, PlannedAgain
<1>3. ASSUME tasks' = tasks PROVE Planned'
  BY <1>3 DEF Planned, PlannedBy
<1>4. ASSUME NEW i \in DOMAIN tasks, NEW p \in -1 .. 2, NEW N \in SUBSET Chunk,
             tasks' = Update(tasks, i, p, N)
      PROVE  Planned'
  <2>1. tasks # <<>>
    OBVIOUS
  <2>2. PICK c \in Configs, f \in Files : PlannedBy(c, f)
    BY <2>1 DEF Planned
  <2>3. /\ DOMAIN tasks' = DOMAIN tasks
        /\ \A j \in DOMAIN tasks : /\ tasks'[j].from = tasks[j].from /\ tasks'[j].to = tasks[j].to
                                   /\ tasks'[j].digest = tasks[j].digest
    BY <1>0, <1>4, Updated
  <2>4. PlannedBy(c, f)'
    BY <2>2, <2>3 DEF PlannedBy
  <2> QED
    BY <2>4 DEF Planned
<1>5. ASSUME Edit PROVE tasks' = tasks
  BY <1>5, EditIsEdited DEF Edited
<1>6. ASSUME NEW i \in DOMAIN tasks, Finish(i) PROVE Planned'
  BY <1>4, <1>6, FinishRan
<1>7. ASSUME NEW i \in DOMAIN tasks, NEW o \in {-1, 1}, BreakOff(i, o) PROVE Planned'
  <2>1. o \in -1 .. 2
    OBVIOUS
  <2> QED
    BY <1>4, <1>7, <2>1, BreakOffRan DEF Broke
<1>8. CASE UNCHANGED splitVars
  BY <1>3, <1>8 DEF splitVars
<1> QED
  BY <1>1, <1>2, <1>3, <1>5, <1>6, <1>7, <1>8, NextCases

\* What a task makes of a file depends on its range alone.
LEMMA UnitsAlike ==
    ASSUME NEW s, NEW t, s.from = t.from, s.to = t.to
    PROVE  \A d, g : UnitsOf(d, g, s) = UnitsOf(d, g, t)
<1> TAKE d, g
<1>1. PagesOf(g, s) = PagesOf(g, t)
  BY Zenon DEF PagesOf
<1>2. RowsOf(g, s) = RowsOf(g, t)
  <2> DEFINE Rows(a, b) ==
        UNION {{<<k, m>> : m \in {j \in 0 .. g.sheets[k].data - 1 :
                                     LET at == RowsBefore(g, b)[k - 1] + j IN a <= at /\ at < b}}
                 : k \in DOMAIN g.sheets}
  <2>1. \A x : RowsOf(g, x) = Rows(x.from, x.to)
    BY Zenon DEF RowsOf
  <2> HIDE DEF Rows
  <2> QED
    BY <2>1, Zenon
<1> QED
  BY <1>1, <1>2 DEF UnitsOf

\* What a planned task is.
LEMMA PlannedTask ==
    ASSUME NEW c \in Configs, NEW f \in Files, PlannedBy(c, f), NEW i \in DOMAIN tasks
    PROVE  /\ ConfigOf(tasks[i]) = c /\ FileOf(tasks[i]) = f
           /\ i \in DOMAIN ParseTasks(c, f)
           /\ ParseTasks(c, f)[i] \in Fitting(c, f)
           /\ tasks[i].from = ParseTasks(c, f)[i].from /\ tasks[i].to = ParseTasks(c, f)[i].to
           /\ tasks[i].digest = Digest(c, f, ParseTasks(c, f)[i])
           /\ \A d, g : UnitsOf(d, g, tasks[i]) = UnitsOf(d, g, ParseTasks(c, f)[i])
<1>1. /\ i \in DOMAIN ParseTasks(c, f)
      /\ tasks[i].from = ParseTasks(c, f)[i].from /\ tasks[i].to = ParseTasks(c, f)[i].to
      /\ tasks[i].digest = Digest(c, f, ParseTasks(c, f)[i])
  BY DEF PlannedBy
<1>2. ParseTasks(c, f)[i] \in Fitting(c, f)
  BY <1>1, ParseTasksFit
<1>3. ConfigOf(tasks[i]) = c /\ FileOf(tasks[i]) = f
  BY <1>1 DEF ConfigOf, FileOf, Digest
<1>4. \A d, g : UnitsOf(d, g, tasks[i]) = UnitsOf(d, g, ParseTasks(c, f)[i])
  BY <1>1, UnitsAlike
<1> QED
  BY <1>1, <1>2, <1>3, <1>4

(* The tasks of a document have the sizes queue_tasks gives them, and the   *)
(* other variables their types.                                             *)
THEOREM SplitTypeCorrect == SplitSpec => []SplitTypeOK
<1>1. SplitInit => SplitTypes /\ Planned
  BY SplitTypesInit
<1>2. SplitTypes /\ Planned /\ [SplitNext]_splitVars => SplitTypes' /\ Planned'
  BY SplitTypesStep, PlannedStep
<1>3. SplitTypes /\ Planned => SplitTypeOK
  <2> SUFFICES ASSUME SplitTypes, Planned PROVE SplitTypeOK
    OBVIOUS
  <2>1. ASSUME NEW i \in DOMAIN tasks
        PROVE  /\ 0 <= tasks[i].from /\ tasks[i].from < tasks[i].to
               /\ tasks[i].to - tasks[i].from <= Largest(ConfigOf(tasks[i]), FileOf(tasks[i]))
               /\ tasks[i].progress \in -1 .. 2
    <3>1. PICK c \in Configs, f \in Files : PlannedBy(c, f)
      BY DEF Planned
    <3> QED
      BY <3>1, PlannedTask, RowTypes DEF Fitting
  <2>2. \A i \in DOMAIN tasks :
          LET t == tasks[i]
          IN  /\ 0 <= t.from /\ t.from < t.to
              /\ t.to - t.from <= CASE FileOf(t).kind = "pdf" -> ConfigOf(t).step
                                    [] ByRows(ConfigOf(t), FileOf(t)) -> RowStep
                                    [] OTHER -> Whole
              /\ t.progress \in -1 .. 2
    BY <2>1, Zenon DEF Largest
  <2>3. {counted, disturbed, wiped, unnamed} \subseteq BOOLEAN
    BY Zenon DEF SplitTypes
  <2> QED
    BY <2>2, <2>3, Zenon DEF SplitTypes, SplitTypeOK
<1> QED
  BY <1>1, <1>2, <1>3, PTL DEF SplitSpec

(* Server and executors count alike: a page is in as many tasks as ranges   *)
(* ask for it, a row of data of a workbook of the table method in one, for  *)
(* all page ranges, page sizes and sheets (queue_tasks, Excel.__call__).    *)
THEOREM UnitsAreSplitExactly == SplitSpec => []EachUnitOnce
<1>1. SplitInit => SplitTypes /\ Planned
  BY SplitTypesInit
<1>2. SplitTypes /\ Planned /\ [SplitNext]_splitVars => SplitTypes' /\ Planned'
  BY SplitTypesStep, PlannedStep
<1>3. SplitTypes /\ Planned => EachUnitOnce
  <2> SUFFICES ASSUME SplitTypes, Planned, tasks # <<>>,
                      NEW u \in Units(FileOf(tasks[1]))
               PROVE  Cardinality({i \in DOMAIN tasks :
                                     u \in UnitsOf(ConfigOf(tasks[1]), FileOf(tasks[1]), tasks[i])})
                        = Cardinality(Asks(ConfigOf(tasks[1]), FileOf(tasks[1]), u))
    BY DEF EachUnitOnce
  <2>1. PICK c \in Configs, f \in Files : PlannedBy(c, f)
    BY DEF Planned
  <2>2. 1 \in DOMAIN tasks
    BY DEF SplitTypes
  <2>3. ConfigOf(tasks[1]) = c /\ FileOf(tasks[1]) = f
    BY <2>1, <2>2, PlannedTask
  <2>4. {i \in DOMAIN tasks : u \in UnitsOf(c, f, tasks[i])} = Holding(c, f, u)
    BY <2>1, PlannedTask DEF Holding, PlannedBy
  <2> QED
    <3>1. u \in Units(f) /\ Cardinality(Holding(c, f, u)) = Cardinality(Asks(c, f, u))
      BY <2>3, SplitIsExact
    <3> QED
      BY <2>3, <2>4, <3>1, Zenon
<1> QED
  BY <1>1, <1>2, <1>3, PTL DEF SplitSpec

-----------------------------------------------------------------------------
(* What is stored.  A task that is done has its content in the store, unless   *)
(* a task that is not done will bring it; what is stored is named by a task.   *)

Content(t) == {<<ConfigOf(t), FileOf(t), u>> : u \in UnitsOf(ConfigOf(t), FileOf(t), t)}
TocOf(t) == Contents(ConfigOf(t), FileOf(t))

Current ==
    ~ disturbed => \A i \in DOMAIN tasks :
        tasks[i].progress \in {0, 1} => ConfigOf(tasks[i]) = config /\ FileOf(tasks[i]) = file
OwnChunks ==
    ~ disturbed => \A i \in DOMAIN tasks : tasks[i].chunks \subseteq Content(tasks[i]) \cup {TocOf(tasks[i])}
Backed ==
    ~ disturbed /\ ~ wiped => \A i \in DOMAIN tasks : tasks[i].progress = 2 =>
        \A x \in Content(tasks[i]) :
            \/ x \in store
            \/ \E j \in DOMAIN tasks : tasks[j].progress # 2 /\ x \in Content(tasks[j])
Named == ~ unnamed => \A x \in store : \E i \in DOMAIN tasks : x \in tasks[i].chunks

SplitInv == SplitTypes /\ Planned /\ Current /\ OwnChunks /\ Backed /\ Named

LEMMA ContentAlike ==
    ASSUME NEW s, NEW t, s.from = t.from, s.to = t.to, s.digest = t.digest
    PROVE  /\ Content(s) = Content(t) /\ TocOf(s) = TocOf(t)
           /\ ConfigOf(s) = ConfigOf(t) /\ FileOf(s) = FileOf(t)
<1>1. ConfigOf(s) = ConfigOf(t) /\ FileOf(s) = FileOf(t)
  BY DEF ConfigOf, FileOf
<1>2. UnitsOf(ConfigOf(t), FileOf(t), s) = UnitsOf(ConfigOf(t), FileOf(t), t)
  BY UnitsAlike
<1> QED
  BY <1>1, <1>2, Zenon DEF Content, TocOf

LEMMA UnitsWithin ==
    ASSUME NEW c \in Configs, NEW f \in Files, NEW t, t.from \in Int, t.to \in Int, 0 <= t.from
    PROVE  UnitsOf(c, f, t) \subseteq Units(f)
<1>1. CASE f.kind = "pdf"
  <2>1. \A p \in t.from .. AtMost(t.to, f.pages) - 1 : p \in 0 .. f.pages - 1
    BY KindsOfFiles DEF AtMost
  <2>2. PagesOf(f, t) \subseteq Units(f)
    BY <1>1, <2>1 DEF PagesOf, Units
  <2> QED
    BY <1>1, <2>2, UnitsCases
<1>2. CASE ByRows(c, f)
  <2>1. RowsOf(f, t) \subseteq Units(f)
    BY <1>2 DEF RowsOf, Units, ByRows
  <2> QED
    BY <1>2, <2>1, UnitsCases
<1>3. CASE f.kind # "pdf" /\ ~ ByRows(c, f)
  BY <1>3, UnitsCases
<1> QED
  BY <1>1, <1>2, <1>3

LEMMA NoUnitIsToc ==
    ASSUME NEW f \in Files, NEW u \in Units(f)
    PROVE  u # <<-1, 0>>
<1>1. CASE f.kind = "pdf"
  BY <1>1 DEF Units
<1>2. CASE f.kind # "pdf"
  <2>1. DOMAIN f.sheets = 1 .. Len(f.sheets) /\ Len(f.sheets) \in Nat
    BY KindsOfFiles, SheetCounts
  <2>2. PICK k \in DOMAIN f.sheets : \E i : u = <<k, i>>
    BY <1>2 DEF Units
  <2> QED
    BY <2>1, <2>2
<1> QED
  BY <1>1, <1>2

\* A page or row of a planned task is not its table of contents.
LEMMA TocApart ==
    ASSUME SplitTypes, Planned, NEW i \in DOMAIN tasks, NEW x \in Content(tasks[i]),
           NEW c, NEW f
    PROVE  /\ \E u \in Units(FileOf(tasks[i])) : x = <<ConfigOf(tasks[i]), FileOf(tasks[i]), u>>
           /\ x # Contents(c, f)
<1>1. PICK d \in Configs, g \in Files : PlannedBy(d, g)
  BY DEF Planned
<1>2. ConfigOf(tasks[i]) = d /\ FileOf(tasks[i]) = g /\ 0 <= tasks[i].from /\ tasks[i].from \in Int /\ tasks[i].to \in Int
  BY <1>1, PlannedTask, RowTypes DEF Fitting
<1>3. PICK u \in UnitsOf(d, g, tasks[i]) : x = <<d, g, u>>
  BY <1>2 DEF Content
<1>4. u \in Units(g)
  BY <1>2, <1>3, UnitsWithin
<1>5. u # <<-1, 0>>
  BY <1>4, NoUnitIsToc
<1> QED
  BY <1>2, <1>3, <1>4, <1>5 DEF Contents

\* Tasks and store are those of the step before, and a change that disturbs is noted.
LEMMA EditKeepsInv ==
    ASSUME SplitInv, Edited
    PROVE  Current' /\ OwnChunks' /\ Backed' /\ Named'
<1>1. tasks' = tasks /\ (disturbed' <=> disturbed \/ Unfinished) /\ (wiped => wiped') /\ unnamed' = unnamed
  BY DEF Edited
<1>2. Current'
  BY <1>1 DEF Current, Unfinished
<1>3. OwnChunks'
  BY <1>1 DEF OwnChunks, SplitInv
<1>4. Backed'
  <2>1. ~ wiped' => store' = store
    BY DEF Edited
  <2> QED
    BY <1>1, <2>1 DEF Backed, SplitInv
<1>5. Named'
  <2>1. store' \subseteq store
    BY DEF Edited
  <2> QED
    BY <1>1, <2>1 DEF Named, SplitInv
<1> QED
  BY <1>2, <1>3, <1>4, <1>5

\* A task makes its own content, unless it is disturbed.
LEMMA MadeIsContent ==
    ASSUME SplitInv, ~ disturbed, NEW i \in DOMAIN tasks, tasks[i].progress \in {0, 1}
    PROVE  /\ Made(tasks[i]) = Content(tasks[i]) /\ Contents(config, file) = TocOf(tasks[i])
           /\ ConfigOf(tasks[i]) = config /\ FileOf(tasks[i]) = file
<1>1. ConfigOf(tasks[i]) = config /\ FileOf(tasks[i]) = file
  BY DEF SplitInv, Current
<1> QED
  BY <1>1, Zenon DEF Made, Content, TocOf

\* Task i ends a run with progress p and the chunks N; all it made, or some of it, is stored.
LEMMA RunKeepsInv ==
    ASSUME SplitInv, NEW i \in DOMAIN tasks, tasks[i].progress \in {0, 1},
           NEW p \in {-1, 1, 2}, NEW N \in SUBSET Chunk, NEW X,
           tasks' = Update(tasks, i, p, N), store' = store \cup X,
           config' = config, file' = file, disturbed' = disturbed, wiped' = wiped,
           p = 2 => Made(tasks[i]) \subseteq X,
           N \subseteq tasks[i].chunks \cup Made(tasks[i]) \cup {Contents(config, file)},
           ~ unnamed' => ~ unnamed /\ tasks[i].chunks \cup X \subseteq N
    PROVE  Current' /\ OwnChunks' /\ Backed' /\ Named'
<1>1. /\ DOMAIN tasks' = DOMAIN tasks
      /\ \A j \in DOMAIN tasks : /\ tasks'[j].from = tasks[j].from /\ tasks'[j].to = tasks[j].to
                                 /\ tasks'[j].digest = tasks[j].digest
                                 /\ j # i => tasks'[j] = tasks[j]
      /\ tasks'[i].progress = p /\ tasks'[i].chunks = N
  <2>1. tasks \in Seq(TaskRow) /\ p \in -1 .. 2
    BY DEF SplitInv, SplitTypes
  <2> QED
    BY <2>1, Updated
<1>2. \A j \in DOMAIN tasks : /\ Content(tasks'[j]) = Content(tasks[j]) /\ TocOf(tasks'[j]) = TocOf(tasks[j])
                              /\ ConfigOf(tasks'[j]) = ConfigOf(tasks[j]) /\ FileOf(tasks'[j]) = FileOf(tasks[j])
  BY <1>1, ContentAlike
<1>3. Current'
  <2> SUFFICES ASSUME ~ disturbed, NEW j \in DOMAIN tasks, tasks'[j].progress \in {0, 1}
               PROVE  ConfigOf(tasks'[j]) = config /\ FileOf(tasks'[j]) = file
    BY <1>1 DEF Current
  <2>1. CASE j = i
    BY <1>2, <2>1, MadeIsContent
  <2>2. CASE j # i
    BY <1>1, <2>2 DEF Current, SplitInv
  <2> QED
    BY <2>1, <2>2
<1>4. OwnChunks'
  <2> SUFFICES ASSUME ~ disturbed, NEW j \in DOMAIN tasks
               PROVE  tasks'[j].chunks \subseteq Content(tasks'[j]) \cup {TocOf(tasks'[j])}
    BY <1>1 DEF OwnChunks
  <2>1. tasks[j].chunks \subseteq Content(tasks[j]) \cup {TocOf(tasks[j])}
    BY DEF OwnChunks, SplitInv
  <2>2. CASE j = i
    <3>1. Made(tasks[i]) = Content(tasks[i]) /\ Contents(config, file) = TocOf(tasks[i])
      BY MadeIsContent
    <3> QED
      BY <1>1, <1>2, <2>1, <2>2, <3>1
  <2>3. CASE j # i
    BY <1>1, <2>1, <2>3
  <2> QED
    BY <2>2, <2>3
<1>5. Backed'
  <2> SUFFICES ASSUME ~ disturbed, ~ wiped, NEW j \in DOMAIN tasks, tasks'[j].progress = 2,
                      NEW x \in Content(tasks'[j])
               PROVE  \/ x \in store'
                      \/ \E k \in DOMAIN tasks : tasks'[k].progress # 2 /\ x \in Content(tasks'[k])
    BY <1>1 DEF Backed
  <2>0. p = 2 => Content(tasks[i]) \subseteq store'
    BY MadeIsContent
  <2>1. x \in Content(tasks[j])
    BY <1>2
  <2>2. CASE j = i
    BY <1>1, <2>0, <2>1, <2>2
  <2>3. CASE j # i
    <3>1. tasks[j].progress = 2
      BY <1>1, <2>3
    <3>2. x \in store \/ \E k \in DOMAIN tasks : tasks[k].progress # 2 /\ x \in Content(tasks[k])
      BY <2>1, <3>1 DEF Backed, SplitInv
    <3>3. ASSUME NEW k \in DOMAIN tasks, tasks[k].progress # 2, x \in Content(tasks[k]), x \notin store'
          PROVE  tasks'[k].progress # 2 /\ x \in Content(tasks'[k])
      <4>1. x \in Content(tasks'[k])
        BY <1>2, <3>3
      <4>2. CASE k = i
        BY <1>1, <2>0, <3>3, <4>1, <4>2
      <4>3. CASE k # i
        BY <1>1, <3>3, <4>1, <4>3
      <4> QED
        BY <4>2, <4>3
    <3> QED
      BY <3>2, <3>3
  <2> QED
    BY <2>2, <2>3
<1>6. Named'
  <2> SUFFICES ASSUME ~ unnamed', NEW x \in store' PROVE \E j \in DOMAIN tasks : x \in tasks'[j].chunks
    BY <1>1 DEF Named
  <2>1. ~ unnamed /\ tasks[i].chunks \cup X \subseteq N
    OBVIOUS
  <2>2. CASE x \in X
    BY <1>1, <2>1, <2>2
  <2>3. CASE x \in store
    <3>1. PICK j \in DOMAIN tasks : x \in tasks[j].chunks
      BY <2>1, <2>3 DEF Named, SplitInv
    <3>2. CASE j = i
      BY <1>1, <2>1, <3>1, <3>2
    <3>3. CASE j # i
      BY <1>1, <3>1, <3>3
    <3> QED
      BY <3>2, <3>3
  <2> QED
    BY <2>2, <2>3
<1> QED
  BY <1>3, <1>4, <1>5, <1>6

LEMMA FinishKeepsInv ==
    ASSUME SplitInv, NEW i \in DOMAIN tasks, Finish(i)
    PROVE  Current' /\ OwnChunks' /\ Backed' /\ Named'
<1>1. SplitTypes
  BY DEF SplitInv
<1> DEFINE t == tasks[i]
<1>2. PICK toc \in Tocs(t) :
        /\ Names(t, toc) \in SUBSET Chunk /\ tasks' = Update(tasks, i, 2, Names(t, toc))
        /\ store' = store \cup Made(t) \cup toc
        /\ unnamed' = (unnamed \/ ~ t.chunks \cup Made(t) \subseteq Names(t, toc))
  BY <1>1, FinishRan
<1>3. t.progress \in {0, 1} /\ UNCHANGED <<config, file, disturbed, wiped>>
  BY Zenon DEF Finish
<1> DEFINE N == Names(t, toc)
           X == Made(t) \cup toc
<1>4. toc = {} \/ toc = {Contents(config, file)}
  BY DEF Tocs
<1>5. N \subseteq t.chunks \cup Made(t) \cup {Contents(config, file)}
  BY <1>4, NamesCases
<1>6. toc \subseteq N
  BY NamesCases
<1>7. ~ unnamed' => ~ unnamed /\ t.chunks \cup X \subseteq N
  BY <1>2, <1>6
<1>8. store' = store \cup X
  BY <1>2
<1> HIDE DEF N, X
<1>9. Made(t) \subseteq X
  BY DEF X
<1>10. N \in SUBSET Chunk /\ tasks' = Update(tasks, i, 2, N)
  BY <1>2 DEF N
<1> QED
  BY <1>3, <1>5, <1>7, <1>8, <1>9, <1>10, RunKeepsInv

LEMMA BreakOffKeepsInv ==
    ASSUME SplitInv, NEW i \in DOMAIN tasks, NEW o \in {-1, 1}, BreakOff(i, o)
    PROVE  Current' /\ OwnChunks' /\ Backed' /\ Named'
<1>1. SplitTypes
  BY DEF SplitInv
<1> DEFINE t == tasks[i]
<1>0. PICK stored \in SUBSET Made(t), N \in SUBSET Chunk : Broke(i, o, stored, N)
  BY <1>1, BreakOffRan
<1>2. /\ N = t.chunks \/ N \subseteq stored
      /\ tasks' = Update(tasks, i, o, N)
      /\ store' = store \cup stored
      /\ unnamed' = (unnamed \/ ~ t.chunks \cup stored \subseteq N)
  BY <1>0 DEF Broke
<1>3. t.progress \in {0, 1} /\ UNCHANGED <<config, file, disturbed, wiped>>
  BY Zenon DEF BreakOff
<1>4. N \subseteq t.chunks \cup Made(t) \cup {Contents(config, file)}
  BY <1>2
<1>5. ~ unnamed' => ~ unnamed /\ t.chunks \cup stored \subseteq N
  BY <1>2
<1>6. o \in {-1, 1, 2} /\ o # 2
  OBVIOUS
<1> QED
  BY <1>2, <1>3, <1>4, <1>5, <1>6, RunKeepsInv

LEMMA RedoKeepsInv ==
    ASSUME SplitInv, Redo
    PROVE  Current' /\ OwnChunks' /\ Backed' /\ Named'
<1>1. SplitTypes /\ QueueTasks(<<>>, {}) /\ UNCHANGED <<config, file>>
  BY DEF SplitInv, Redo
<1>2. \A new, i : Lenders(<<>>, new, i) = {}
  BY DEF Lenders, Lender
<1> DEFINE new == ParseTasks(config, file)
<1>3. \A i \in DOMAIN tasks' : /\ tasks'[i].digest = Digest(config, file, new[i])
                               /\ tasks'[i].progress = 0 /\ tasks'[i].chunks = {}
  <2>1. <<>> \in Seq(TaskRow) /\ {} \in SUBSET Chunk
    OBVIOUS
  <2>2. \A i \in DOMAIN tasks' :
          /\ tasks'[i].digest = Digest(config, file, new[i])
          /\ tasks'[i].progress = IF Lenders(<<>>, new, i) = {} THEN 0 ELSE 2
          /\ tasks'[i].chunks = UNION {<<>>[j].chunks : j \in Lenders(<<>>, new, i)}
    BY <1>1, <2>1, QueueTasksEffect, Zenon
  <2>3. \A i : UNION {<<>>[j].chunks : j \in Lenders(<<>>, new, i)} = {}
    BY <1>2
  <2> QED
    BY <1>2, <2>2, <2>3
<1>4. \A i \in DOMAIN tasks' : ConfigOf(tasks'[i]) = config /\ FileOf(tasks'[i]) = file
  BY <1>3 DEF ConfigOf, FileOf, Digest
<1>5. store' = {}
  BY <1>1 DEF QueueTasks
<1> QED
  BY <1>1, <1>3, <1>4, <1>5 DEF Current, OwnChunks, Backed, Named

\* Two tasks of one split with the same range: only the first may be done at once.
LEMMA FirstBorrows ==
    ASSUME NEW prev, NEW new, NEW k, NEW m, k \in 1 .. m - 1, new[k] = new[m]
    PROVE  Lenders(prev, new, m) = {}
  BY DEF Lenders

\* When the chunks of a task of the current split go, a new task will make them again.
LEMMA WillBeMadeAgain ==
    ASSUME SplitInv, QueueTasks(tasks, store), UNCHANGED <<config, file>>,
           NEW k \in DOMAIN tasks, ConfigOf(tasks[k]) = config, FileOf(tasks[k]) = file,
           \A i \in DOMAIN tasks' : k \notin Lenders(tasks, ParseTasks(config, file), i)
    PROVE  \E m \in DOMAIN tasks' : tasks'[m].progress = 0 /\ Content(tasks'[m]) = Content(tasks[k])
<1> DEFINE new == ParseTasks(config, file)
<1>1. SplitTypes /\ Planned /\ config \in Configs /\ file \in Files /\ tasks \in Seq(TaskRow) /\ store \in SUBSET Chunk
  BY DEF SplitInv, SplitTypes
<1>2. PlannedBy(config, file)
  <2>1. PICK c \in Configs, f \in Files : PlannedBy(c, f)
    BY <1>1 DEF Planned
  <2>2. c = config /\ f = file
    BY <2>1, PlannedTask
  <2> QED
    BY <2>1, <2>2
<1>3. /\ DOMAIN tasks = DOMAIN new /\ DOMAIN new = 1 .. Len(new) /\ Len(new) \in Nat
      /\ \A m \in DOMAIN new : new[m] \in Ranged
  <2>1. new \in Seq(Fitting(config, file))
    BY <1>1, ParseTasksFit
  <2>2. Fitting(config, file) \subseteq Ranged
    BY DEF Fitting
  <2> QED
    BY <1>2, <2>1, <2>2 DEF PlannedBy
<1>4. \A m \in DOMAIN new : /\ tasks[m].from = new[m].from /\ tasks[m].to = new[m].to
                            /\ tasks[m].digest = Digest(config, file, new[m])
  BY <1>2, <1>3 DEF PlannedBy
<1>5. /\ DOMAIN tasks' = DOMAIN new
      /\ \A m \in DOMAIN new : /\ tasks'[m].from = new[m].from /\ tasks'[m].to = new[m].to
                               /\ tasks'[m].digest = Digest(config, file, new[m])
                               /\ tasks'[m].progress = IF Lenders(tasks, new, m) = {} THEN 0 ELSE 2
  BY <1>1, QueueTasksEffect
<1> HIDE DEF new
<1>6. \A m \in DOMAIN new : Content(tasks'[m]) = Content(tasks[m])
  BY <1>4, <1>5, ContentAlike
<1>7. CASE Lenders(tasks, new, k) = {}
  BY <1>3, <1>5, <1>6, <1>7
<1>8. CASE Lenders(tasks, new, k) # {}
  <2>1. PICK m : m \in Lenders(tasks, new, k)
    BY <1>8
  <2>2. m \in DOMAIN tasks /\ tasks[m].digest = Digest(config, file, new[k])
    BY <2>1 DEF Lenders, Lender
  <2>3. k \in {j \in DOMAIN tasks : tasks[j].digest = Digest(config, file, new[k])}
    BY <1>3, <1>4
  <2>4. k <= m
    BY <2>1, <2>3 DEF Lenders, Lender
  <2>5. k # m
    BY <1>3, <1>5, <2>1 DEF new
  <2>6. new[k] = new[m]
    <3>1. Digest(config, file, new[m]) = Digest(config, file, new[k])
      BY <1>3, <1>4, <2>2
    <3>2. new[m].from = new[k].from /\ new[m].to = new[k].to
      BY <3>1 DEF Digest
    <3>3. new[m] \in Ranged /\ new[k] \in Ranged
      BY <1>3, <2>2
    <3> QED
      BY <3>2, <3>3 DEF Ranged
  <2>7. k \in 1 .. m - 1
    BY <1>3, <2>2, <2>4, <2>5
  <2>8. Lenders(tasks, new, m) = {}
    BY <2>6, <2>7, FirstBorrows
  <2>9. tasks'[m].progress = 0 /\ m \in DOMAIN tasks'
    BY <1>3, <1>5, <2>2, <2>8
  <2>10. Content(tasks'[m]) = Content(tasks[k])
    <3>1. tasks'[m].from = tasks[k].from /\ tasks'[m].to = tasks[k].to /\ tasks'[m].digest = tasks[k].digest
      BY <1>3, <1>4, <1>5, <2>2, <2>6
    <3> QED
      BY <3>1, ContentAlike
  <2> QED
    BY <2>9, <2>10
<1> QED
  BY <1>7, <1>8

LEMMA KeepKeepsInv ==
    ASSUME SplitInv, Keep
    PROVE  Current' /\ OwnChunks' /\ Backed' /\ Named'
<1> DEFINE new == ParseTasks(config, file)
           lenders(i) == Lenders(tasks, new, i)
           lent == UNION {lenders(i) : i \in DOMAIN new}
<1>1. /\ SplitTypes /\ Planned /\ tasks \in Seq(TaskRow) /\ store \in SUBSET Chunk
      /\ QueueTasks(tasks, store) /\ UNCHANGED <<config, file, disturbed, unnamed>>
  BY DEF SplitInv, SplitTypes, Keep
<1>2. /\ DOMAIN tasks' = DOMAIN new
      /\ \A i \in DOMAIN new : /\ tasks'[i].from = new[i].from /\ tasks'[i].to = new[i].to
                               /\ tasks'[i].digest = Digest(config, file, new[i])
                               /\ tasks'[i].progress = IF lenders(i) = {} THEN 0 ELSE 2
                               /\ tasks'[i].chunks = UNION {tasks[j].chunks : j \in lenders(i)}
  BY <1>1, QueueTasksEffect
<1>3. store' = store \ Dropped(tasks, lent) /\ wiped' = (wiped /\ lent # {})
  BY <1>1 DEF QueueTasks
<1>4. \A i \in DOMAIN new : ConfigOf(tasks'[i]) = config /\ FileOf(tasks'[i]) = file
  BY <1>2 DEF ConfigOf, FileOf, Digest
<1>5. ASSUME NEW i \in DOMAIN new, NEW j \in lenders(i)
      PROVE  /\ j \in DOMAIN tasks /\ j \in lent /\ tasks[j].progress = 2
             /\ Content(tasks[j]) = Content(tasks'[i]) /\ TocOf(tasks[j]) = TocOf(tasks'[i])
  <2>1. j \in DOMAIN tasks /\ tasks[j].progress = 2 /\ tasks[j].digest = Digest(config, file, new[i])
    BY <1>5 DEF Lenders, Lender
  <2>2. PICK c \in Configs, f \in Files : PlannedBy(c, f)
    BY <1>1, <2>1 DEF Planned
  <2>3. tasks[j].digest = Digest(c, f, ParseTasks(c, f)[j])
        /\ tasks[j].from = ParseTasks(c, f)[j].from /\ tasks[j].to = ParseTasks(c, f)[j].to
    BY <2>1, <2>2, PlannedTask
  <2>4. tasks[j].from = new[i].from /\ tasks[j].to = new[i].to
    <3> HIDE DEF new
    <3> QED
      BY <2>1, <2>3 DEF Digest
  <2>5. tasks'[i].from = tasks[j].from /\ tasks'[i].to = tasks[j].to /\ tasks'[i].digest = tasks[j].digest
    BY <1>2, <2>1, <2>4
  <2> HIDE DEF new, lenders
  <2>6. j \in lent
    BY <1>5
  <2> QED
    BY <2>1, <2>5, <2>6, ContentAlike
<1> HIDE DEF lenders
<1>6. Current'
  BY <1>1, <1>2, <1>4 DEF Current
<1>7. OwnChunks'
  <2> SUFFICES ASSUME ~ disturbed, NEW i \in DOMAIN new, NEW x \in tasks'[i].chunks
               PROVE  x \in Content(tasks'[i]) \cup {TocOf(tasks'[i])}
    BY <1>1, <1>2 DEF OwnChunks
  <2>1. PICK j \in lenders(i) : x \in tasks[j].chunks
    BY <1>2
  <2>2. tasks[j].chunks \subseteq Content(tasks[j]) \cup {TocOf(tasks[j])}
    BY <1>5 DEF OwnChunks, SplitInv
  <2> QED
    BY <1>5, <2>1, <2>2
<1>8. Named'
  <2> SUFFICES ASSUME ~ unnamed, NEW x \in store' PROVE \E i \in DOMAIN new : x \in tasks'[i].chunks
    BY <1>1, <1>2 DEF Named
  <2>1. PICK j \in DOMAIN tasks : x \in tasks[j].chunks
    BY <1>3 DEF Named, SplitInv
  <2>2. j \in lent
    BY <1>3, <2>1 DEF Dropped
  <2>3. PICK i \in DOMAIN new : j \in lenders(i)
    BY <2>2
  <2> QED
    BY <1>2, <2>1, <2>3
<1>9. Backed'
  <2> SUFFICES ASSUME ~ disturbed, ~ wiped', NEW i \in DOMAIN new, tasks'[i].progress = 2,
                      NEW x \in Content(tasks'[i]), x \notin store'
               PROVE  \E m \in DOMAIN new : tasks'[m].progress # 2 /\ x \in Content(tasks'[m])
    BY <1>1, <1>2 DEF Backed
  <2>1. PICK j \in lenders(i) : TRUE
    BY <1>2
  <2>2. /\ j \in DOMAIN tasks /\ j \in lent /\ tasks[j].progress = 2
        /\ x \in Content(tasks[j]) /\ ConfigOf(tasks'[i]) = config /\ FileOf(tasks'[i]) = file
    BY <1>4, <1>5, <2>1
  <2>3. ~ wiped
    BY <1>3, <2>2
  <2>4. \E k \in DOMAIN tasks \ lent : x \in Content(tasks[k])
    <3>1. CASE x \in store
      <4>1. PICK k \in DOMAIN tasks \ lent : x \in tasks[k].chunks
        BY <1>3, <3>1 DEF Dropped
      <4>2. tasks[k].chunks \subseteq Content(tasks[k]) \cup {TocOf(tasks[k])}
        BY DEF OwnChunks, SplitInv
      <4>3. x # TocOf(tasks[k])
        BY <1>1, <2>2, TocApart DEF TocOf
      <4> QED
        BY <4>1, <4>2, <4>3
    <3>2. CASE x \notin store
      <4>1. PICK k \in DOMAIN tasks : tasks[k].progress # 2 /\ x \in Content(tasks[k])
        BY <2>2, <2>3, <3>2 DEF Backed, SplitInv
      <4>2. k \notin lent
        BY <1>5, <4>1
      <4> QED
        BY <4>1, <4>2
    <3> QED
      BY <3>1, <3>2
  <2>5. PICK k \in DOMAIN tasks : k \notin lent /\ x \in Content(tasks[k])
    BY <2>4
  <2>6. ConfigOf(tasks[k]) = config /\ FileOf(tasks[k]) = file
    <3>1. \E u : x = <<ConfigOf(tasks'[i]), FileOf(tasks'[i]), u>>
      BY DEF Content
    <3>2. \E u : x = <<ConfigOf(tasks[k]), FileOf(tasks[k]), u>>
      BY <2>5 DEF Content
    <3> QED
      BY <2>2, <3>1, <3>2
  <2>7. \A m \in DOMAIN tasks' : k \notin Lenders(tasks, new, m)
    BY <1>2, <2>5 DEF lenders
  <2>8. PICK m \in DOMAIN tasks' : tasks'[m].progress = 0 /\ Content(tasks'[m]) = Content(tasks[k])
    BY <1>1, <2>6, <2>7, WillBeMadeAgain
  <2> QED
    BY <1>2, <2>5, <2>8
<1> QED
  BY <1>6, <1>7, <1>8, <1>9

LEMMA SplitInvStep ==
    ASSUME SplitInv, [SplitNext]_splitVars
    PROVE  SplitInv'
<1>1. SplitTypes' /\ Planned'
  BY SplitTypesStep, PlannedStep DEF SplitInv
<1>2. ASSUME Edit PROVE Current' /\ OwnChunks' /\ Backed' /\ Named'
  <2>1. Edited
    BY <1>2, EditIsEdited DEF SplitInv
  <2> QED
    BY <2>1, EditKeepsInv
<1>3. ASSUME UNCHANGED splitVars PROVE Current' /\ OwnChunks' /\ Backed' /\ Named'
  <2>1. UNCHANGED <<config, file, tasks, store, disturbed, wiped, unnamed>>
    BY <1>3 DEF splitVars
  <2>2. Current' /\ OwnChunks'
    BY <2>1 DEF SplitInv, Current, OwnChunks
  <2>3. Backed' /\ Named'
    BY <2>1 DEF SplitInv, Backed, Named
  <2> QED
    BY <2>2, <2>3
<1>4. Current' /\ OwnChunks' /\ Backed' /\ Named'
  BY <1>2, <1>3, KeepKeepsInv, RedoKeepsInv, FinishKeepsInv, BreakOffKeepsInv, NextCases
<1> QED
  BY <1>1, <1>4 DEF SplitInv

LEMMA SplitInvInit ==
    SplitInit => SplitInv
<1> SUFFICES ASSUME SplitInit PROVE SplitInv
  OBVIOUS
<1>1. SplitTypes /\ Planned
  BY SplitTypesInit
<1>2. tasks = <<>> /\ store = {}
  BY DEF SplitInit, SplitStart
<1> QED
  BY <1>1, <1>2 DEF SplitInv, Current, OwnChunks, Backed, Named

\* A unit is asked for if and only if a task of the split holds it.
LEMMA AskedIsHeld ==
    ASSUME NEW c \in Configs, NEW f \in Files, NEW u \in Units(f)
    PROVE  Asks(c, f, u) # {} <=> Holding(c, f, u) # {}
<1>1. IsFiniteSet(Asks(c, f, u))
  <2>1. c.ranges \in Seq(Int \X Int) /\ IsFiniteSet({1})
    BY KindsOfFiles, FS_Singleton
  <2>2. DOMAIN c.ranges = 1 .. Len(c.ranges) /\ Len(c.ranges) \in Nat
    BY <2>1
  <2>3. IsFiniteSet(1 .. Len(c.ranges))
    BY <2>2, FS_Interval
  <2>4. Asks(c, f, u) \subseteq 1 .. Len(c.ranges) \/ Asks(c, f, u) = {1}
    BY <2>2 DEF Asks
  <2> QED
    BY <2>1, <2>3, <2>4, FS_Subset
<1>2. IsFiniteSet(Holding(c, f, u))
  <2> DEFINE new == ParseTasks(c, f)
  <2>1. DOMAIN new = 1 .. Len(new) /\ Len(new) \in Nat
    <3>1. new \in Seq(Fitting(c, f))
      BY ParseTasksFit
    <3> HIDE DEF new
    <3> QED
      BY <3>1
  <2>2. IsFiniteSet(1 .. Len(new))
    BY <2>1, FS_Interval
  <2>3. Holding(c, f, u) \subseteq 1 .. Len(new)
    BY <2>1 DEF Holding
  <2> QED
    BY <2>2, <2>3, FS_Subset
<1> QED
  BY <1>1, <1>2, SplitIsExact, FS_EmptySet

(* When all tasks of a document are done, everything its parse was asked    *)
(* for is stored, and nothing else: reuse_prev_task_chunks and the deletion *)
(* by chunk ids in queue_tasks leave the store to the tasks that are to be  *)
(* done again, whatever the page ranges and however often requests, changes *)
(* of the configuration and failures alternate.                             *)
THEOREM DoneMeansStored == SplitSpec => []DoneIsStored
<1>1. SplitInv => DoneIsStored
  <2> SUFFICES ASSUME SplitInv, Done, ~ disturbed
               PROVE  LET c == ConfigOf(tasks[1])  f == FileOf(tasks[1])
                      IN  /\ ~ wiped => Asked(c, f) \subseteq store
                          /\ ~ unnamed => store \subseteq Asked(c, f) \cup {Contents(c, f)}
    BY DEF DoneIsStored
  <2>1. SplitTypes /\ Planned /\ tasks # <<>> /\ \A i \in DOMAIN tasks : tasks[i].progress = 2
    BY DEF SplitInv, Done
  <2>2. PICK c \in Configs, f \in Files : PlannedBy(c, f)
    BY <2>1 DEF Planned
  <2>3. 1 \in DOMAIN tasks
    BY <2>1 DEF SplitTypes
  <2>4. ConfigOf(tasks[1]) = c /\ FileOf(tasks[1]) = f
    BY <2>2, <2>3, PlannedTask
  <2>5. \A i \in DOMAIN tasks : Content(tasks[i]) = {<<c, f, u>> : u \in UnitsOf(c, f, ParseTasks(c, f)[i])}
    BY <2>2, PlannedTask DEF Content
  <2>6. DOMAIN tasks = DOMAIN ParseTasks(c, f)
    BY <2>2 DEF PlannedBy
  <2>7. ASSUME ~ wiped, NEW x \in Asked(c, f) PROVE x \in store
    <3>1. PICK u \in Units(f) : Asks(c, f, u) # {} /\ x = <<c, f, u>>
      BY DEF Asked
    <3>2. PICK i \in DOMAIN ParseTasks(c, f) : u \in UnitsOf(c, f, ParseTasks(c, f)[i])
      BY <3>1, AskedIsHeld DEF Holding
    <3>3. x \in Content(tasks[i])
      BY <2>5, <2>6, <3>1, <3>2
    <3> QED
      BY <2>1, <2>6, <2>7, <3>3 DEF Backed, SplitInv
  <2>8. ASSUME ~ unnamed, NEW x \in store PROVE x \in Asked(c, f) \cup {Contents(c, f)}
    <3>1. PICK i \in DOMAIN tasks : x \in tasks[i].chunks
      BY <2>8 DEF Named, SplitInv
    <3>2. x \in Content(tasks[i]) \/ x = TocOf(tasks[i])
      BY <3>1 DEF OwnChunks, SplitInv
    <3>3. ConfigOf(tasks[i]) = c /\ FileOf(tasks[i]) = f
      BY <2>2, PlannedTask
    <3>4. CASE x \in Content(tasks[i])
      <4>1. PICK u \in Units(f) : x = <<c, f, u>>
        BY <2>1, <3>3, <3>4, TocApart
      <4>2. u \in UnitsOf(c, f, ParseTasks(c, f)[i])
        BY <2>5, <3>4, <4>1
      <4>3. Asks(c, f, u) # {}
        BY <2>6, <4>2, AskedIsHeld DEF Holding
      <4> QED
        BY <4>1, <4>3 DEF Asked
    <3> QED
      BY <3>2, <3>3, <3>4 DEF TocOf
  <2> QED
    BY <2>4, <2>7, <2>8
<1>2. SplitInv /\ [SplitNext]_splitVars => SplitInv'
  BY SplitInvStep
<1> QED
  BY <1>1, <1>2, SplitInvInit, PTL DEF SplitSpec
====
