------------------------------ MODULE CanvasProofs ------------------------------
(***************************************************************************)
(* CanvasRun for any set of canvases, any number of turns, errors and       *)
(* cancellations: its types, that a component of the first turn reads what  *)
(* has been made, and that an iteration goes through its items once.        *)
(*                                                                          *)
(* The path is made by walking over a batch, so first come lemmas about     *)
(* Walk: what it stays in (WalkAdmit) and what it does to a path            *)
(* (GoesExtends, StartedBehindReads).  CanvasInv says where the first turn  *)
(* stands: it began with "begin" (so CanStart looks at what is read, not at *)
(* a question to the user), all before the batch has run, and what of the   *)
(* batch has not run has a task.  The last part follows control through a   *)
(* canvas that goes one way (ChainInv).                                     *)
(***************************************************************************)
EXTENDS CanvasRun, Recursion

-----------------------------------------------------------------------------
(* Walking over a batch. *)

\* Walk stays among the sequences that no step leaves.
LEMMA WalkAdmit ==
    ASSUME NEW G, NEW p \in G, NEW cs, Len(cs) \in Nat,
           \A q \in G, k \in 1 .. Len(cs) : Admit(q, cs[k]) \in G
    PROVE  Walk(Admit, p, cs) \in G
<1> DEFINE L == Len(cs)
           step == [x \in (1 .. L) \X G |-> Admit(x[2], cs[x[1]])]
           Is(h) == h = [k \in 0 .. L |-> IF k = 0 THEN p ELSE Admit(h[k - 1], cs[k])]
           w == CHOOSE h : Is(h)
<1>1. step \in [(1 .. L) \X G -> G] /\ \A k \in 1 .. L, q \in G : step[<<k, q>>] = Admit(q, cs[k])
  OBVIOUS
<1>2. Walk(Admit, p, cs) = w[L]
  BY DEF Walk
<1> HIDE DEF step, L
<1>3. PICK h : Unfolds(h, L, G, p, step)
  BY <1>1, Recursive DEF L
<1>4. Is(h)
  <2>1. h \in [0 .. L -> G] /\ h[0] = p /\ \A k \in 1 .. L : h[k] = step[<<k, h[k - 1]>>]
    BY <1>3 DEF Unfolds
  <2>2. ASSUME NEW k \in 1 .. L PROVE h[k] = Admit(h[k - 1], cs[k])
    <3>1. h[k - 1] \in G
      BY <2>1 DEF L
    <3> QED
      BY <1>1, <2>1, <3>1
  <2>3. \A k \in 0 .. L : h[k] = IF k = 0 THEN p ELSE Admit(h[k - 1], cs[k])
    BY <2>1, <2>2 DEF L
  <2>4. h = [k \in 0 .. L |-> h[k]]
    BY <2>1
  <2> QED
    BY <2>3, <2>4, Zenon
<1>5. Is(w)
  <2> HIDE DEF Is
  <2> QED
    BY <1>4
<1> HIDE DEF w
<1>6. w[0] = p /\ \A k \in 1 .. L : w[k] = Admit(w[k - 1], cs[k])
  BY <1>5 DEF L
<1>7. \A k \in 0 .. L : w[k] \in G
  <2>1. \A k \in 1 .. L : w[k - 1] \in G => w[k] \in G
    BY <1>6 DEF L
  <2> QED
    BY <1>6, <2>1, StaysIn DEF L
<1> QED
  BY <1>2, <1>7 DEF L

LEMMA WalkAppendNew ==
    ASSUME NEW G, NEW p \in G, NEW cs, Len(cs) \in Nat,
           \A q \in G, k \in 1 .. Len(cs) : AppendNew(q, cs[k]) \in G
    PROVE  Walk(AppendNew, p, cs) \in G
<1> DEFINE L == Len(cs)
           step == [x \in (1 .. L) \X G |-> AppendNew(x[2], cs[x[1]])]
           Is(h) == h = [k \in 0 .. L |-> IF k = 0 THEN p ELSE AppendNew(h[k - 1], cs[k])]
           w == CHOOSE h : Is(h)
<1>1. step \in [(1 .. L) \X G -> G] /\ \A k \in 1 .. L, q \in G : step[<<k, q>>] = AppendNew(q, cs[k])
  OBVIOUS
<1>2. Walk(AppendNew, p, cs) = w[L]
  BY DEF Walk
<1> HIDE DEF step, L
<1>3. PICK h : Unfolds(h, L, G, p, step)
  BY <1>1, Recursive DEF L
<1>4. Is(h)
  <2>1. h \in [0 .. L -> G] /\ h[0] = p /\ \A k \in 1 .. L : h[k] = step[<<k, h[k - 1]>>]
    BY <1>3 DEF Unfolds
  <2>2. ASSUME NEW k \in 1 .. L PROVE h[k] = AppendNew(h[k - 1], cs[k])
    <3>1. h[k - 1] \in G
      BY <2>1 DEF L
    <3> QED
      BY <1>1, <2>1, <3>1
  <2>3. \A k \in 0 .. L : h[k] = IF k = 0 THEN p ELSE AppendNew(h[k - 1], cs[k])
    BY <2>1, <2>2 DEF L
  <2>4. h = [k \in 0 .. L |-> h[k]]
    BY <2>1
  <2> QED
    BY <2>3, <2>4, Zenon
<1>5. Is(w)
  <2> HIDE DEF Is
  <2> QED
    BY <1>4
<1> HIDE DEF w
<1>6. w[0] = p /\ \A k \in 1 .. L : w[k] = AppendNew(w[k - 1], cs[k])
  BY <1>5 DEF L
<1>7. \A k \in 0 .. L : w[k] \in G
  <2>1. \A k \in 1 .. L : w[k - 1] \in G => w[k] \in G
    BY <1>6 DEF L
  <2> QED
    BY <1>6, <2>1, StaysIn DEF L
<1> QED
  BY <1>2, <1>7 DEF L

LEMMA WalkGoes ==
    ASSUME NEW G, NEW p \in G, NEW cs, Len(cs) \in Nat,
           \A q \in G, k \in 1 .. Len(cs) : Goes(q, cs[k]) \in G
    PROVE  Walk(Goes, p, cs) \in G
<1> DEFINE L == Len(cs)
           step == [x \in (1 .. L) \X G |-> Goes(x[2], cs[x[1]])]
           Is(h) == h = [k \in 0 .. L |-> IF k = 0 THEN p ELSE Goes(h[k - 1], cs[k])]
           w == CHOOSE h : Is(h)
<1>1. step \in [(1 .. L) \X G -> G] /\ \A k \in 1 .. L, q \in G : step[<<k, q>>] = Goes(q, cs[k])
  OBVIOUS
<1>2. Walk(Goes, p, cs) = w[L]
  BY DEF Walk
<1> HIDE DEF step, L
<1>3. PICK h : Unfolds(h, L, G, p, step)
  BY <1>1, Recursive DEF L
<1>4. Is(h)
  <2>1. h \in [0 .. L -> G] /\ h[0] = p /\ \A k \in 1 .. L : h[k] = step[<<k, h[k - 1]>>]
    BY <1>3 DEF Unfolds
  <2>2. ASSUME NEW k \in 1 .. L PROVE h[k] = Goes(h[k - 1], cs[k])
    <3>1. h[k - 1] \in G
      BY <2>1 DEF L
    <3> QED
      BY <1>1, <2>1, <3>1
  <2>3. \A k \in 0 .. L : h[k] = IF k = 0 THEN p ELSE Goes(h[k - 1], cs[k])
    BY <2>1, <2>2 DEF L
  <2>4. h = [k \in 0 .. L |-> h[k]]
    BY <2>1
  <2> QED
    BY <2>3, <2>4, Zenon
<1>5. Is(w)
  <2> HIDE DEF Is
  <2> QED
    BY <1>4
<1> HIDE DEF w
<1>6. w[0] = p /\ \A k \in 1 .. L : w[k] = Goes(w[k - 1], cs[k])
  BY <1>5 DEF L
<1>7. \A k \in 0 .. L : w[k] \in G
  <2>1. \A k \in 1 .. L : w[k - 1] \in G => w[k] \in G
    BY <1>6 DEF L
  <2> QED
    BY <1>6, <2>1, StaysIn DEF L
<1> QED
  BY <1>2, <1>7 DEF L

LEMMA WalkAddAsked ==
    ASSUME NEW G, NEW p \in G, NEW cs, Len(cs) \in Nat,
           \A q \in G, k \in 1 .. Len(cs) : AddAsked(q, cs[k]) \in G
    PROVE  Walk(AddAsked, p, cs) \in G
<1> DEFINE L == Len(cs)
           step == [x \in (1 .. L) \X G |-> AddAsked(x[2], cs[x[1]])]
           Is(h) == h = [k \in 0 .. L |-> IF k = 0 THEN p ELSE AddAsked(h[k - 1], cs[k])]
           w == CHOOSE h : Is(h)
<1>1. step \in [(1 .. L) \X G -> G] /\ \A k \in 1 .. L, q \in G : step[<<k, q>>] = AddAsked(q, cs[k])
  OBVIOUS
<1>2. Walk(AddAsked, p, cs) = w[L]
  BY DEF Walk
<1> HIDE DEF step, L
<1>3. PICK h : Unfolds(h, L, G, p, step)
  BY <1>1, Recursive DEF L
<1>4. Is(h)
  <2>1. h \in [0 .. L -> G] /\ h[0] = p /\ \A k \in 1 .. L : h[k] = step[<<k, h[k - 1]>>]
    BY <1>3 DEF Unfolds
  <2>2. ASSUME NEW k \in 1 .. L PROVE h[k] = AddAsked(h[k - 1], cs[k])
    <3>1. h[k - 1] \in G
      BY <2>1 DEF L
    <3> QED
      BY <1>1, <2>1, <3>1
  <2>3. \A k \in 0 .. L : h[k] = IF k = 0 THEN p ELSE AddAsked(h[k - 1], cs[k])
    BY <2>1, <2>2 DEF L
  <2>4. h = [k \in 0 .. L |-> h[k]]
    BY <2>1
  <2> QED
    BY <2>3, <2>4, Zenon
<1>5. Is(w)
  <2> HIDE DEF Is
  <2> QED
    BY <1>4
<1> HIDE DEF w
<1>6. w[0] = p /\ \A k \in 1 .. L : w[k] = AddAsked(w[k - 1], cs[k])
  BY <1>5 DEF L
<1>7. \A k \in 0 .. L : w[k] \in G
  <2>1. \A k \in 1 .. L : w[k - 1] \in G => w[k] \in G
    BY <1>6 DEF L
  <2> QED
    BY <1>6, <2>1, StaysIn DEF L
<1> QED
  BY <1>2, <1>7 DEF L

LEMMA WalkAddOther ==
    ASSUME NEW G, NEW p \in G, NEW cs, Len(cs) \in Nat,
           \A q \in G, k \in 1 .. Len(cs) : AddOther(q, cs[k]) \in G
    PROVE  Walk(AddOther, p, cs) \in G
<1> DEFINE L == Len(cs)
           step == [x \in (1 .. L) \X G |-> AddOther(x[2], cs[x[1]])]
           Is(h) == h = [k \in 0 .. L |-> IF k = 0 THEN p ELSE AddOther(h[k - 1], cs[k])]
           w == CHOOSE h : Is(h)
<1>1. step \in [(1 .. L) \X G -> G] /\ \A k \in 1 .. L, q \in G : step[<<k, q>>] = AddOther(q, cs[k])
  OBVIOUS
<1>2. Walk(AddOther, p, cs) = w[L]
  BY DEF Walk
<1> HIDE DEF step, L
<1>3. PICK h : Unfolds(h, L, G, p, step)
  BY <1>1, Recursive DEF L
<1>4. Is(h)
  <2>1. h \in [0 .. L -> G] /\ h[0] = p /\ \A k \in 1 .. L : h[k] = step[<<k, h[k - 1]>>]
    BY <1>3 DEF Unfolds
  <2>2. ASSUME NEW k \in 1 .. L PROVE h[k] = AddOther(h[k - 1], cs[k])
    <3>1. h[k - 1] \in G
      BY <2>1 DEF L
    <3> QED
      BY <1>1, <2>1, <3>1
  <2>3. \A k \in 0 .. L : h[k] = IF k = 0 THEN p ELSE AddOther(h[k - 1], cs[k])
    BY <2>1, <2>2 DEF L
  <2>4. h = [k \in 0 .. L |-> h[k]]
    BY <2>1
  <2> QED
    BY <2>3, <2>4, Zenon
<1>5. Is(w)
  <2> HIDE DEF Is
  <2> QED
    BY <1>4
<1> HIDE DEF w
<1>6. w[0] = p /\ \A k \in 1 .. L : w[k] = AddOther(w[k - 1], cs[k])
  BY <1>5 DEF L
<1>7. \A k \in 0 .. L : w[k] \in G
  <2>1. \A k \in 1 .. L : w[k - 1] \in G => w[k] \in G
    BY <1>6 DEF L
  <2> QED
    BY <1>6, <2>1, StaysIn DEF L
<1> QED
  BY <1>2, <1>7 DEF L

-----------------------------------------------------------------------------
(* What a path is made into. *)

Extends(q, p) == Len(p) <= Len(q) /\ \A i \in 1 .. Len(p) : q[i] = p[i]
Paths == Seq(Cpns)

LEMMA OneMore ==
    ASSUME NEW S, NEW p \in Seq(S), NEW q \in Seq(S), NEW c \in S, Extends(q, p)
    PROVE  /\ Append(q, c) \in Seq(S) /\ Extends(Append(q, c), p)
           /\ Len(Append(q, c)) = Len(q) + 1 /\ Append(q, c)[Len(q) + 1] = c
           /\ \A i \in 1 .. Len(q) : Append(q, c)[i] = q[i]
  BY DEF Extends

LEMMA InSequence ==
    ASSUME NEW S, NEW cs \in Seq(S)
    PROVE  Len(cs) \in Nat /\ DOMAIN cs = 1 .. Len(cs) /\ \A k \in 1 .. Len(cs) : cs[k] \in S
  OBVIOUS

LEMMA ExtendExtends ==
    ASSUME NEW p \in Paths, NEW cs \in Paths
    PROVE  Extend(p, cs) \in Paths /\ Extends(Extend(p, cs), p)
<1> DEFINE G == {q \in Paths : Extends(q, p)}
<1>1. p \in G
  BY DEF Extends, Paths
<1>2. ASSUME NEW q \in G, NEW k \in 1 .. Len(cs) PROVE AppendNew(q, cs[k]) \in G
  <2>1. cs[k] \in Cpns
    BY InSequence DEF Paths
  <2>2. Append(q, cs[k]) \in G
    BY <2>1, OneMore DEF Paths
  <2> QED
    BY <2>2 DEF AppendNew
<1>3. Walk(AppendNew, p, cs) \in G
  <2> HIDE DEF G
  <2>1. Len(cs) \in Nat
    BY InSequence DEF Paths
  <2> QED
    BY <1>1, <1>2, <2>1, WalkAppendNew
<1> QED
  BY <1>3 DEF Extend

LEMMA ResumedIsPath ==
    ASSUME NEW rest \in Paths
    PROVE  Resumed(rest) \in Paths
<1>1. Len(rest) \in Nat /\ \A k \in 1 .. Len(rest) : rest[k] \in Cpns
  BY InSequence DEF Paths
<1>2. \A q \in Paths, k \in 1 .. Len(rest) : AddAsked(q, rest[k]) \in Paths /\ AddOther(q, rest[k]) \in Paths
  BY <1>1 DEF AddAsked, AddOther, Paths
<1>3. Walk(AddAsked, <<>>, rest) \in Paths
  <2>1. <<>> \in Paths
    BY DEF Paths
  <2> QED
    BY <1>1, <1>2, <2>1, WalkAddAsked
<1>4. Walk(AddOther, Walk(AddAsked, <<>>, rest), rest) \in Paths
  BY <1>1, <1>2, <1>3, WalkAddOther
<1> QED
  BY <1>4 DEF Resumed

\* A component that may start has what it reads before it, unless it stands first.
Admitted(q, from) == \A i \in from + 1 .. Len(q) : CanStart(q[i], SubSeq(q, 1, i - 1))

LEMMA StartedBehindReads ==
    ASSUME NEW p \in Paths, NEW cs \in Paths
    PROVE  /\ Walk(Admit, p, cs) \in Paths /\ Extends(Walk(Admit, p, cs), p)
           /\ Admitted(Walk(Admit, p, cs), Len(p))
<1> DEFINE G == {q \in Paths : Extends(q, p) /\ Admitted(q, Len(p))}
<1>1. p \in G
  <2>1. p \in Paths /\ Extends(p, p)
    BY DEF Extends, Paths
  <2>2. Len(p) + 1 .. Len(p) = {}
    BY InSequence DEF Paths
  <2> QED
    BY <2>1, <2>2 DEF Admitted
<1>2. ASSUME NEW q \in G, NEW k \in 1 .. Len(cs) PROVE Admit(q, cs[k]) \in G
  <2>1. cs[k] \in Cpns
    BY InSequence DEF Paths
  <2> SUFFICES ASSUME CanStart(cs[k], q) PROVE Append(q, cs[k]) \in G
    BY DEF Admit
  <2> DEFINE r == Append(q, cs[k])
  <2>2. /\ r \in Paths /\ Extends(r, p) /\ Len(r) = Len(q) + 1 /\ r[Len(q) + 1] = cs[k]
        /\ \A i \in 1 .. Len(q) : r[i] = q[i]
    BY <2>1, OneMore DEF Paths
  <2>3. Len(p) \in Nat /\ Len(q) \in Nat /\ Len(p) <= Len(q) /\ Len(r) \in Nat
    BY <2>2, InSequence DEF Paths, Extends
  <2> HIDE DEF r
  <2>4. \A i \in 1 .. Len(r) : SubSeq(r, 1, i - 1) = SubSeq(q, 1, i - 1)
    BY <2>2, <2>3 DEF Paths
  <2>5. SubSeq(q, 1, Len(q)) = q
    BY DEF Paths
  <2>6. ASSUME NEW i \in Len(p) + 1 .. Len(r) PROVE CanStart(r[i], SubSeq(r, 1, i - 1))
    <3>1. CASE i = Len(q) + 1
      <4>1. r[i] = cs[k] /\ i \in 1 .. Len(r) /\ i - 1 = Len(q)
        BY <2>2, <2>3, <3>1
      <4>2. SubSeq(r, 1, i - 1) = q
        BY <2>4, <2>5, <4>1
      <4> QED
        BY <4>1, <4>2
    <3>2. CASE i # Len(q) + 1
      <4>1. i \in Len(p) + 1 .. Len(q) /\ i \in 1 .. Len(q) /\ i \in 1 .. Len(r)
        BY <2>2, <2>3, <3>2
      <4> QED
        BY <2>2, <2>4, <4>1 DEF Admitted
    <3> QED
      BY <3>1, <3>2
  <2> QED
    BY <2>2, <2>6 DEF Admitted, r
<1>3. Walk(Admit, p, cs) \in G
  <2> HIDE DEF G
  <2>1. Len(cs) \in Nat
    BY InSequence DEF Paths
  <2> QED
    BY <1>1, <1>2, <2>1, WalkAdmit
<1> QED
  BY <1>3

-----------------------------------------------------------------------------
(* Types. *)

CanvasTypes ==
    /\ graph \in Graphs /\ path \in Paths /\ saved \in Paths /\ turn \in Nat
    /\ phase \in {"rest", "next", "batch"} /\ (tasks # {} => phase = "batch")
    /\ idx \in Nat /\ (phase # "rest" => idx <= Len(path))
    /\ \A t \in tasks : /\ t.at \in idx + 1 .. Len(path) /\ t.cpn = path[t.at]
                        /\ t.input \in [graph.reads[t.cpn] -> Nat]
                        /\ t = [at |-> t.at, cpn |-> t.cpn, input |-> t.input]
    /\ out \in [Cpns -> Nat] /\ index \in [Cpns -> Int] /\ chosen \in [Cpns -> Paths]
    /\ failed \subseteq Cpns /\ canceled \in BOOLEAN

LEMMA GraphFacts ==
    ASSUME graph \in Graphs
    PROVE  /\ "begin" \in Cpns /\ Kind("begin") = "begin"
           /\ \A c \in Cpns : graph.down[c] \in Paths
           /\ \A c \in Cpns : graph.goto[c] \in Paths
           /\ \A c \in Cpns : graph.parent[c] \in Cpns
           /\ \A c \in Cpns : graph.reads[c] \subseteq Cpns
           /\ \A c \in Cpns : Kind(c) \in {"begin", "userfillup"} => graph.reads[c] = {}
           /\ \A c \in Cpns : graph.parent[c] # c => Kind(graph.parent[c]) \in {"iteration", "loop"}
           /\ \A c \in Cpns : Kind(c) \in {"iteration", "loop"} =>
                  ItemOf(c) \in Cpns /\ Kind(ItemOf(c)) \in {"iterationitem", "loopitem"}
           /\ \A c \in Cpns : Kind(c) = "iterationitem" => Kind(graph.parent[c]) = "iteration"
           /\ \A c \in Cpns : Kind(c) = "loopitem" => Kind(graph.parent[c]) = "loop"
<1>1. IsCanvas(graph)
  BY CanvasAssumption
<1>2. /\ "begin" \in Cpns /\ Kind("begin") = "begin"
      /\ graph.down \in [Cpns -> Paths] /\ graph.goto \in [Cpns -> Paths]
      /\ graph.parent \in [Cpns -> Cpns] /\ graph.reads \in [Cpns -> SUBSET Cpns]
      /\ \A c \in Cpns :
             /\ Kind(c) \in {"begin", "userfillup"} => graph.reads[c] = {}
             /\ graph.parent[c] # c => Kind(graph.parent[c]) \in {"iteration", "loop"}
             /\ Kind(c) \in {"iteration", "loop"} =>
                    \E d \in Cpns : graph.parent[d] = c /\ Kind(d) \in {"iterationitem", "loopitem"}
             /\ Kind(c) = "iterationitem" => Kind(graph.parent[c]) = "iteration"
             /\ Kind(c) = "loopitem" => Kind(graph.parent[c]) = "loop"
  BY <1>1 DEF IsCanvas, Cpns, Kind, Paths
<1>3. \A c \in Cpns : Kind(c) \in {"iteration", "loop"} =>
          ItemOf(c) \in Cpns /\ Kind(ItemOf(c)) \in {"iterationitem", "loopitem"}
  BY <1>2 DEF ItemOf
<1> QED
  BY <1>2, <1>3

LEMMA AfterIsPath ==
    ASSUME CanvasTypes, NEW c \in Cpns
    PROVE  After(c) \in Paths
<1>1. graph \in Graphs /\ chosen[c] \in Paths
  BY DEF CanvasTypes
<1>2. \A d \in Cpns : <<d>> \in Paths
  BY DEF Paths
<1>3. graph.down[c] \in Paths /\ graph.down[graph.parent[c]] \in Paths
  BY <1>1, GraphFacts
<1>4. Kind(c) \in {"iteration", "loop"} => <<ItemOf(c)>> \in Paths
  BY <1>1, <1>2, GraphFacts
<1>5. graph.parent[c] # c => <<ItemOf(graph.parent[c])>> \in Paths
  BY <1>1, <1>2, GraphFacts
<1> QED
  BY <1>1, <1>3, <1>4, <1>5 DEF After

LEMMA GoesExtends ==
    ASSUME CanvasTypes, NEW p \in Paths, NEW c \in Cpns
    PROVE  Goes(p, c) \in Paths /\ Extends(Goes(p, c), p)
<1>1. graph \in Graphs /\ chosen[c] \in Paths
  BY DEF CanvasTypes
<1>2. After(c) \in Paths
  BY AfterIsPath
<1>3. p \o graph.goto[c] \in Paths /\ Extends(p \o graph.goto[c], p)
  <2>1. graph.goto[c] \in Paths
    BY <1>1, GraphFacts
  <2> QED
    BY <2>1 DEF Paths, Extends
<1> QED
  BY <1>2, <1>3, ExtendExtends DEF Goes

LEMMA BatchExtends ==
    ASSUME CanvasTypes
    PROVE  LET p == Walk(Goes, path, SubSeq(path, idx + 1, Len(path)))
           IN  p \in Paths /\ Extends(p, path)
<1> DEFINE cs == SubSeq(path, idx + 1, Len(path))
           G == {q \in Paths : Extends(q, path)}
<1>1. path \in Paths /\ idx \in Nat /\ path \in G
  BY DEF CanvasTypes, Extends, Paths
<1>2. cs \in Paths /\ Len(cs) \in Nat
  BY <1>1 DEF Paths
<1> HIDE DEF cs
<1>3. ASSUME NEW q \in G, NEW k \in 1 .. Len(cs) PROVE Goes(q, cs[k]) \in G
  <2>1. cs[k] \in Cpns
    BY <1>2, InSequence DEF Paths
  <2>2. Goes(q, cs[k]) \in Paths /\ Extends(Goes(q, cs[k]), q)
    BY <2>1, GoesExtends
  <2>3. Len(path) \in Nat /\ Len(q) \in Nat
    BY <1>1, InSequence DEF Paths
  <2> QED
    BY <2>2, <2>3 DEF Extends
<1>4. Walk(Goes, path, cs) \in G
  <2> HIDE DEF G
  <2> QED
    BY <1>1, <1>2, <1>3, WalkGoes
<1> QED
  BY <1>4 DEF cs

-----------------------------------------------------------------------------
(* What the end of a task leaves behind it. *)

HasRun(c) == Kind(c) \in Silent \/ out[c] # Nothing \/ c \in failed

\* An item that has been given out has an output.
ItemsOut == \A c \in Cpns : Kind(c) = "iterationitem" /\ index[c] > 0 => out[c] # Nothing

LEMMA MadeFromSomething ==
    ASSUME NEW S, NEW input \in [S -> Nat]
    PROVE  MadeFrom(input) \in Nat /\ MadeFrom(input) # Nothing
<1> DEFINE read == {input[r] : r \in DOMAIN input} \ {Nothing}
<1>1. read \subseteq Nat /\ Nothing \notin read
  OBVIOUS
<1>2. MadeFrom(input) = IF read = {} THEN 1 ELSE CHOOSE v \in read : TRUE
  BY DEF MadeFrom
<1> HIDE DEF read
<1>3. read # {} => (CHOOSE v \in read : TRUE) \in read
  OBVIOUS
<1>4. MadeFrom(input) = 1 \/ MadeFrom(input) \in read
  BY <1>2, <1>3
<1>5. 1 \in Nat /\ 1 # Nothing
  BY DEF Nothing
<1> QED
  BY <1>1, <1>4, <1>5

\* Outputs and positions after a step, in terms of those before it.
Advances(c) ==
    /\ out' \in [Cpns -> Nat] /\ index' \in [Cpns -> Int] /\ chosen' \in [Cpns -> Paths]
    /\ failed' \subseteq Cpns /\ failed \subseteq failed'
    /\ \A d \in Cpns : out[d] # Nothing => out'[d] # Nothing
    /\ Kind(c) \in Silent \/ out'[c] # Nothing \/ c \in failed'
    /\ \A d \in Cpns : Kind(d) = "iterationitem" /\ index'[d] > 0 => out'[d] # Nothing

LEMMA TaskEndsAdvances ==
    ASSUME CanvasTypes, ItemsOut, NEW t \in tasks, EndTask(t)
    PROVE  Advances(t.cpn)
<1> DEFINE c == t.cpn
<1>1. /\ graph \in Graphs /\ c \in Cpns /\ t.input \in [graph.reads[c] -> Nat]
      /\ out \in [Cpns -> Nat] /\ index \in [Cpns -> Int] /\ chosen \in [Cpns -> Paths] /\ failed \subseteq Cpns
  <2>1. path \in Paths /\ t.at \in 1 .. Len(path) /\ t.cpn = path[t.at]
    BY InSequence DEF CanvasTypes, Paths
  <2>2. c \in Cpns
    BY <2>1, InSequence DEF Paths
  <2> QED
    BY <2>2 DEF CanvasTypes
<1>2. Items \in Nat \ {0}
  BY CanvasAssumption
<1> HIDE DEF c
<1>3. CASE EndPlain(t)
  <2>1. /\ Kind(c) \notin {"iterationitem", "loopitem"} /\ UNCHANGED <<index, chosen, failed>>
        /\ Kind(c) \in Silent => out' = out
        /\ Kind(c) \notin Silent => out' = [out EXCEPT ![c] = MadeFrom(t.input)]
    BY <1>3 DEF EndPlain, Put, c
  <2>2. MadeFrom(t.input) \in Nat /\ MadeFrom(t.input) # Nothing
    BY <1>1, MadeFromSomething
  <2> QED
    BY <1>1, <2>1, <2>2 DEF Advances, ItemsOut, c
<1>4. CASE EndSwitch(t)
  <2>1. PICK d \in ToSet(graph.down[c]) : chosen' = [chosen EXCEPT ![c] = <<d>>]
    BY <1>4 DEF EndSwitch, Put, c
  <2>2. UNCHANGED <<index, failed>> /\ out' = [out EXCEPT ![c] = 1]
    BY <1>4 DEF EndSwitch, Put, c
  <2>3. <<d>> \in Paths
    <3>1. graph.down[c] \in Paths
      BY <1>1, GraphFacts
    <3>2. d \in Cpns
      BY <2>1, <3>1 DEF ToSet, Paths
    <3> QED
      BY <3>2 DEF Paths
  <2> QED
    BY <1>1, <2>1, <2>2, <2>3 DEF Advances, ItemsOut, Nothing, c
<1>5. CASE TaskRaises(t)
  <2>1. /\ UNCHANGED <<out, chosen>> /\ failed' = failed \cup {c}
        /\ index' = index \/ index' = [index EXCEPT ![c] = -1]
    BY <1>5 DEF TaskRaises, Put, c
  <2>2. index' \in [Cpns -> Int] /\ \A d \in Cpns : index'[d] > 0 => index[d] > 0
    BY <1>1, <2>1
  <2> QED
    BY <1>1, <2>1, <2>2 DEF Advances, ItemsOut, c
<1>6. CASE EndItem(t)
  <2> DEFINE it == graph.parent[c]
             i == index[c]
             collected == IF Collects(i) THEN [out EXCEPT ![it] = 1] ELSE out
  <2>1. /\ Kind(c) = "iterationitem" /\ UNCHANGED <<chosen, failed>>
        /\ IF ItemsOver(i)
              THEN index' = [index EXCEPT ![c] = -1] /\ out' = collected
              ELSE /\ index' = [index EXCEPT ![c] = i + 1]
                   /\ out' = [collected EXCEPT ![c] = IF i < 0 THEN Items ELSE i + 1]
    BY <1>6 DEF EndItem, Put, c
  <2>2. it \in Cpns /\ i \in Int
    BY <1>1, GraphFacts
  <2>3. collected \in [Cpns -> Nat] /\ \A d \in Cpns : out[d] # Nothing => collected[d] # Nothing
    BY <1>1, <2>2 DEF Nothing
  <2> HIDE DEF it, collected
  <2>4. CASE ItemsOver(i)
    <3>1. i > 0
      BY <1>2, <2>2, <2>4 DEF ItemsOver
    <3>2. out[c] # Nothing
      BY <1>1, <2>1, <3>1 DEF ItemsOut
    <3>3. index' = [index EXCEPT ![c] = -1] /\ out' = collected
      BY <2>1, <2>4
    <3>4. index' \in [Cpns -> Int] /\ \A d \in Cpns : d # c => index'[d] = index[d]
      BY <1>1, <3>3
    <3> HIDE DEF i
    <3> QED
      BY <1>1, <2>1, <2>3, <3>2, <3>3, <3>4 DEF Advances, ItemsOut, c
  <2>5. CASE ~ ItemsOver(i)
    <3> DEFINE v == IF i < 0 THEN Items ELSE i + 1
    <3>1. v \in Nat /\ v # Nothing
      BY <1>2, <2>2 DEF Nothing
    <3> HIDE DEF v
    <3>2. index' = [index EXCEPT ![c] = i + 1] /\ out' = [collected EXCEPT ![c] = v]
      BY <2>1, <2>5 DEF v
    <3>3. index' \in [Cpns -> Int] /\ out' \in [Cpns -> Nat] /\ out'[c] # Nothing
      BY <1>1, <2>2, <2>3, <3>1, <3>2
    <3>4. \A d \in Cpns : out[d] # Nothing => out'[d] # Nothing
      BY <2>3, <3>1, <3>2
    <3>5. \A d \in Cpns : d # c => index'[d] = index[d]
      BY <1>1, <3>2
    <3> HIDE DEF i
    <3> QED
      BY <1>1, <2>1, <3>3, <3>4, <3>5 DEF Advances, ItemsOut, c
  <2> QED
    BY <2>4, <2>5
<1>7. CASE EndLoopItem(t)
  <2>1. Kind(c) = "loopitem" /\ UNCHANGED <<out, chosen, failed>>
    BY <1>7 DEF EndLoopItem, c
  <2>2. \E i \in Int : index' = [index EXCEPT ![c] = i]
    BY <1>1, <1>7 DEF EndLoopItem, Put, c
  <2>3. index' \in [Cpns -> Int] /\ \A d \in Cpns : d # c => index'[d] = index[d]
    BY <1>1, <2>2
  <2> QED
    BY <1>1, <2>1, <2>3 DEF Advances, ItemsOut, Silent, c
<1> QED
  BY <1>3, <1>4, <1>5, <1>6, <1>7 DEF EndTask

-----------------------------------------------------------------------------
(* The first turn: everything before the batch has run, and what of the batch *)
(* has not run has a task.                                                    *)

AtFirst == turn = 0 => saved = <<>> /\ phase = "rest"
FirstTurn ==
    turn = 1 /\ phase # "rest" =>
        /\ Len(path) >= 1 /\ path[1] = "begin" /\ (idx = 0 => Len(path) = 1)
        /\ \A i \in 1 .. idx : HasRun(path[i])
        /\ phase = "batch" => \A i \in idx + 1 .. Len(path) : HasRun(path[i]) \/ \E t \in tasks : t.at = i

CanvasInv == CanvasTypes /\ ItemsOut /\ AtFirst /\ FirstTurn

LEMMA SameGraph ==
    ASSUME UNCHANGED graph
    PROVE  Cpns' = Cpns /\ Paths' = Paths /\ \A c : Kind(c)' = Kind(c)
  BY DEF Cpns, Paths, Kind

LEMMA BeginTurnKeeps ==
    ASSUME CanvasInv, BeginTurn
    PROVE  CanvasInv'
<1> DEFINE p == IF saved # <<>> /\ Kind(Last(saved)) = "userfillup"
                  THEN saved ELSE Append(saved, "begin")
<1>1. /\ UNCHANGED <<graph, saved, tasks, canceled>> /\ phase = "rest" /\ turn' = turn + 1
      /\ IF canceled THEN phase' = "rest" /\ UNCHANGED <<path, idx>>
                     ELSE phase' = "next" /\ path' = p /\ idx' = Len(p) - 1
      /\ out' = [c \in Cpns |-> Nothing] /\ index' = [c \in Cpns |-> 0]
      /\ chosen' = [c \in Cpns |-> <<>>] /\ failed' = {}
  BY DEF BeginTurn
<1>2. /\ graph \in Graphs /\ saved \in Paths /\ path \in Paths /\ idx \in Nat /\ turn \in Nat
      /\ tasks = {} /\ canceled \in BOOLEAN
  BY <1>1 DEF CanvasInv, CanvasTypes
<1>3. p \in Paths /\ Len(p) \in Nat \ {0}
  <2>1. "begin" \in Cpns
    BY <1>2, GraphFacts
  <2> QED
    BY <1>2, <2>1 DEF Paths
<1> HIDE DEF p
<1>4. CanvasTypes'
  <2>1. <<>> \in Paths
    BY DEF Paths
  <2>2. path' \in Paths /\ idx' \in Nat /\ (phase' # "rest" => idx' <= Len(path')) /\ phase' \in {"rest", "next", "batch"}
    BY <1>1, <1>2, <1>3
  <2>3. /\ out' \in [Cpns -> Nat] /\ index' \in [Cpns -> Int] /\ chosen' \in [Cpns -> Paths]
    BY <1>1, <2>1 DEF Nothing
  <2> QED
    BY <1>1, <1>2, <2>2, <2>3, SameGraph DEF CanvasTypes
<1>5. ItemsOut'
  BY <1>1, SameGraph DEF ItemsOut
<1>6. AtFirst' /\ FirstTurn'
  <2>1. turn' # 0
    BY <1>1, <1>2
  <2>2. ASSUME turn' = 1, phase' # "rest" PROVE path' = <<"begin">> /\ idx' = 0 /\ phase' = "next"
    <3>1. saved = <<>>
      BY <1>1, <1>2, <2>2 DEF CanvasInv, AtFirst
    <3>2. p = <<"begin">>
      BY <3>1 DEF p
    <3> QED
      BY <1>1, <2>2, <3>2
  <2> QED
    BY <2>1, <2>2 DEF AtFirst, FirstTurn
<1> QED
  BY <1>4, <1>5, <1>6 DEF CanvasInv

LEMMA BatchStarted ==
    ASSUME CanvasInv, StartBatch
    PROVE  LET p == Walk(Admit, SubSeq(path, 1, idx), Pending)
           IN  /\ p \in Paths /\ Len(p) \in Nat /\ idx <= Len(p)
               /\ \A i \in 1 .. idx : p[i] = path[i]
               /\ \A i \in idx + 1 .. Len(p) : CanStart(p[i], SubSeq(p, 1, i - 1))
<1> DEFINE q == SubSeq(path, 1, idx)
           p == Walk(Admit, q, Pending)
<1>1. path \in Paths /\ idx \in Nat /\ idx <= Len(path) /\ Len(path) \in Nat
  BY InSequence DEF CanvasInv, CanvasTypes, StartBatch, Paths
<1>2. q \in Paths /\ Len(q) = idx /\ \A i \in 1 .. idx : q[i] = path[i]
  BY <1>1 DEF Paths
<1>3. Pending \in Paths
  BY <1>1 DEF Pending, Paths
<1> HIDE DEF q
<1>4. p \in Paths /\ Extends(p, q) /\ Admitted(p, Len(q))
  BY <1>2, <1>3, StartedBehindReads
<1> HIDE DEF p
<1>5. Len(p) \in Nat
  BY <1>4, InSequence DEF Paths
<1>6. /\ p \in Paths /\ Len(p) \in Nat /\ idx <= Len(p)
      /\ \A i \in 1 .. idx : p[i] = path[i]
      /\ \A i \in idx + 1 .. Len(p) : CanStart(p[i], SubSeq(p, 1, i - 1))
  BY <1>2, <1>4, <1>5 DEF Extends, Admitted
<1> QED
  BY <1>6 DEF p, q

\* The first batch of the first turn is "begin".
LEMMA WalkOne ==
    ASSUME NEW p, NEW c
    PROVE  Walk(Admit, p, <<c>>) = Admit(p, c)
<1> DEFINE cs == <<c>>
           Is(h) == h = [k \in 0 .. Len(cs) |-> IF k = 0 THEN p ELSE Admit(h[k - 1], cs[k])]
           w == CHOOSE h : Is(h)
           h1 == [k \in 0 .. 1 |-> IF k = 0 THEN p ELSE Admit(p, c)]
<1>1. Walk(Admit, p, cs) = w[Len(cs)]
  BY DEF Walk
<1>2. Len(cs) = 1 /\ cs[1] = c
  OBVIOUS
<1> HIDE DEF cs
<1>3. Is(h1)
  <2>1. \A k \in 0 .. 1 : h1[k] = IF k = 0 THEN p ELSE Admit(h1[k - 1], cs[k])
    <3>1. h1[0] = p /\ h1[1] = Admit(p, c)
      OBVIOUS
    <3> HIDE DEF h1
    <3>2. \A k \in 0 .. 1 : k = 0 \/ (k = 1 /\ k - 1 = 0)
      OBVIOUS
    <3> QED
      BY <1>2, <3>1, <3>2
  <2>2. h1 = [k \in 0 .. Len(cs) |-> h1[k]]
    BY <1>2
  <2> HIDE DEF h1
  <2>3. \A k \in 0 .. Len(cs) : h1[k] = IF k = 0 THEN p ELSE Admit(h1[k - 1], cs[k])
    BY <1>2, <2>1
  <2> QED
    BY <2>2, <2>3, Zenon
<1>4. Is(w)
  <2> HIDE DEF Is
  <2> QED
    BY <1>3
<1> HIDE DEF w
<1>5. w[0] = p /\ w[1] = Admit(w[0], cs[1])
  <2>1. 0 \in 0 .. 1 /\ 1 \in 0 .. 1 /\ 1 - 1 = 0 /\ 1 # 0
    OBVIOUS
  <2>2. w = [k \in 0 .. 1 |-> IF k = 0 THEN p ELSE Admit(w[k - 1], cs[k])]
    BY <1>2, <1>4
  <2> QED
    BY <2>1, <2>2
<1> QED
  BY <1>1, <1>2, <1>5 DEF cs

LEMMA StartBatchKeeps ==
    ASSUME CanvasInv, StartBatch
    PROVE  CanvasInv'
<1> DEFINE p == Walk(Admit, SubSeq(path, 1, idx), Pending)
<1>1. /\ UNCHANGED <<graph, saved, idx, out, index, chosen, failed, canceled, turn>>
      /\ phase = "next" /\ phase' = "batch" /\ path' = p
      /\ tasks' = {[at |-> i, cpn |-> p[i], input |-> InputOf(p[i])] : i \in idx + 1 .. Len(p)}
  BY DEF StartBatch
<1>2. /\ p \in Paths /\ Len(p) \in Nat /\ idx <= Len(p)
      /\ \A i \in 1 .. idx : p[i] = path[i]
  BY BatchStarted
<1>3. /\ graph \in Graphs /\ path \in Paths /\ idx \in Nat /\ out \in [Cpns -> Nat] /\ Len(path) \in Nat
  BY InSequence DEF CanvasInv, CanvasTypes, Paths
<1>4. ASSUME turn = 1, idx = 0 PROVE p = <<"begin">>
  <2>1. Len(path) = 1 /\ path[1] = "begin"
    BY <1>1, <1>4 DEF CanvasInv, FirstTurn
  <2>2. path = <<"begin">>
    BY <1>3, <2>1 DEF Paths
  <2>3. SubSeq(path, 1, 0) = <<>> /\ SubSeq(path, 1, Len(path)) = path
    BY <1>3 DEF Paths
  <2>4. SubSeq(path, 1, idx) = <<>> /\ Pending = <<"begin">>
    BY <1>4, <2>2, <2>3 DEF Pending
  <2>5. CanStart("begin", <<>>)
    BY <1>3, GraphFacts DEF CanStart, HeldBack
  <2>6. Admit(<<>>, "begin") = <<"begin">>
    BY <2>5 DEF Admit
  <2>7. p = Walk(Admit, <<>>, <<"begin">>)
    BY <2>4
  <2> HIDE DEF p
  <2> QED
    BY <2>6, <2>7, WalkOne
<1> HIDE DEF p
<1>5. CanvasTypes'
  <2>1. ASSUME NEW t \in tasks'
        PROVE  /\ t.at \in idx + 1 .. Len(p) /\ t.cpn = p[t.at]
               /\ t.input \in [graph.reads[t.cpn] -> Nat]
               /\ t = [at |-> t.at, cpn |-> t.cpn, input |-> t.input]
    <3>1. PICK i \in idx + 1 .. Len(p) : t = [at |-> i, cpn |-> p[i], input |-> InputOf(p[i])]
      BY <1>1
    <3>2. t.at = i /\ t.cpn = p[i] /\ t.input = InputOf(p[i])
      BY <3>1
    <3>3. p[i] \in Cpns
      BY <1>2, <1>3, InSequence DEF Paths
    <3>4. graph.reads[p[i]] \subseteq Cpns
      BY <1>3, <3>3, GraphFacts
    <3>5. InputOf(p[i]) \in [graph.reads[p[i]] -> Nat]
      BY <1>3, <3>4 DEF InputOf
    <3> QED
      BY <3>1, <3>2, <3>5
  <2> QED
    BY <1>1, <1>2, <2>1, SameGraph DEF CanvasInv, CanvasTypes
<1>6. ItemsOut' /\ AtFirst'
  BY <1>1, SameGraph DEF CanvasInv, ItemsOut, AtFirst
<1>7. ASSUME turn = 1 PROVE FirstTurn'
  <2>1. Len(path) >= 1 /\ path[1] = "begin" /\ \A i \in 1 .. idx : HasRun(path[i])
    BY <1>1, <1>7 DEF CanvasInv, FirstTurn
  <2>2. Len(p) >= 1 /\ p[1] = "begin" /\ (idx = 0 => Len(p) = 1)
    <3>1. CASE idx = 0
      BY <1>4, <1>7, <3>1
    <3>2. CASE idx # 0
      BY <1>2, <1>3, <2>1, <3>2
    <3> QED
      BY <3>1, <3>2
  <2>3. \A i \in 1 .. idx' : Kind(path'[i]) \in Silent \/ out'[path'[i]] # Nothing \/ path'[i] \in failed'
    BY <1>1, <1>2, <2>1 DEF HasRun
  <2>4. ASSUME NEW i \in idx + 1 .. Len(p) PROVE \E t \in tasks' : t.at = i
    <3>1. [at |-> i, cpn |-> p[i], input |-> InputOf(p[i])] \in tasks'
      BY <1>1
    <3> QED
      BY <3>1
  <2> QED
    BY <1>1, <2>2, <2>3, <2>4 DEF FirstTurn, HasRun, Kind
<1>8. ASSUME turn # 1 PROVE FirstTurn'
  BY <1>1, <1>8 DEF FirstTurn
<1> QED
  BY <1>5, <1>6, <1>7, <1>8 DEF CanvasInv

LEMMA EndTaskKeeps ==
    ASSUME CanvasInv, NEW t \in tasks, EndTask(t)
    PROVE  CanvasInv'
<1>1. /\ UNCHANGED <<graph, path, saved, idx, phase, canceled, turn>>
      /\ phase = "batch" /\ tasks' = tasks \ {t}
  BY DEF EndTask, EndPlain, EndSwitch, TaskRaises, EndItem, EndLoopItem, EndsTask
<1>2. Advances(t.cpn)
  BY TaskEndsAdvances DEF CanvasInv
<1>3. CanvasTypes'
  BY <1>1, <1>2, SameGraph DEF CanvasInv, CanvasTypes, Advances
<1>4. ItemsOut' /\ AtFirst'
  BY <1>1, <1>2, SameGraph DEF CanvasInv, ItemsOut, AtFirst, Advances
<1>5. ASSUME turn = 1 PROVE FirstTurn'
  <2>1. /\ Len(path) >= 1 /\ path[1] = "begin" /\ (idx = 0 => Len(path) = 1)
        /\ \A i \in 1 .. idx : HasRun(path[i])
        /\ \A i \in idx + 1 .. Len(path) : HasRun(path[i]) \/ \E u \in tasks : u.at = i
    BY <1>1, <1>5 DEF CanvasInv, FirstTurn
  <2>2. /\ idx \in Nat /\ idx <= Len(path) /\ Len(path) \in Nat /\ \A i \in 1 .. Len(path) : path[i] \in Cpns
        /\ t.cpn = path[t.at]
    BY <1>1, InSequence DEF CanvasInv, CanvasTypes, Paths
  <2>3. ASSUME NEW c \in Cpns, HasRun(c) \/ c = t.cpn
        PROVE  Kind(c) \in Silent \/ out'[c] # Nothing \/ c \in failed'
    BY <1>2, <2>3 DEF HasRun, Advances
  <2>4. \A i \in 1 .. idx : Kind(path[i]) \in Silent \/ out'[path[i]] # Nothing \/ path[i] \in failed'
    BY <2>1, <2>2, <2>3
  <2>5. ASSUME NEW i \in idx + 1 .. Len(path)
        PROVE  \/ Kind(path[i]) \in Silent \/ out'[path[i]] # Nothing \/ path[i] \in failed'
               \/ \E u \in tasks' : u.at = i
    <3>1. path[i] \in Cpns
      BY <2>2
    <3>2. CASE HasRun(path[i]) \/ i = t.at
      BY <2>2, <2>3, <3>1, <3>2
    <3>3. CASE ~ HasRun(path[i]) /\ i # t.at
      <4>1. PICK u \in tasks : u.at = i
        BY <2>1, <3>3
      <4> QED
        BY <1>1, <3>3, <4>1
    <3> QED
      BY <3>2, <3>3
  <2> QED
    BY <1>1, <2>1, <2>4, <2>5 DEF FirstTurn, HasRun, Kind
<1>6. ASSUME turn # 1 PROVE FirstTurn'
  BY <1>1, <1>6 DEF FirstTurn
<1> QED
  BY <1>3, <1>4, <1>5, <1>6 DEF CanvasInv

\* A task that reads stays where it is.
LEMMA Rereads ==
    ASSUME CanvasTypes, NEW t \in tasks, NEW r \in graph.reads[t.cpn], TaskReads(t, r)
    PROVE  /\ UNCHANGED <<graph, path, saved, idx, phase, out, index, result, chosen, failed, canceled,
                         turn, handled>>
           /\ phase = "batch"
           /\ tasks' = (tasks \ {t})
                      \cup {[at |-> t.at, cpn |-> t.cpn, input |-> [t.input EXCEPT ![r] = out[r]]]}
           /\ [t.input EXCEPT ![r] = out[r]] \in [graph.reads[t.cpn] -> Nat]
<1>1. /\ t = [at |-> t.at, cpn |-> t.cpn, input |-> t.input] /\ t.input \in [graph.reads[t.cpn] -> Nat]
      /\ graph \in Graphs /\ out \in [Cpns -> Nat]
  BY DEF CanvasTypes
<1>2. r \in Cpns
  <2>1. path \in Paths /\ t.at \in 1 .. Len(path) /\ t.cpn = path[t.at]
    BY InSequence DEF CanvasTypes, Paths
  <2>2. t.cpn \in Cpns
    BY <2>1, InSequence DEF Paths
  <2> QED
    BY <1>1, <2>2, GraphFacts
<1>3. [t.input EXCEPT ![r] = out[r]] \in [graph.reads[t.cpn] -> Nat]
  BY <1>1, <1>2
<1>4. [t EXCEPT !.input[r] = out[r]]
          = [at |-> t.at, cpn |-> t.cpn, input |-> [t.input EXCEPT ![r] = out[r]]]
  BY <1>1
<1>5. /\ UNCHANGED <<graph, path, saved, idx, phase, out, index, result, chosen, failed, canceled,
                    turn, handled>>
      /\ phase = "batch" /\ tasks' = (tasks \ {t}) \cup {[t EXCEPT !.input[r] = out[r]]}
  BY DEF TaskReads
<1> QED
  BY <1>3, <1>4, <1>5

LEMMA TaskReadsKeeps ==
    ASSUME CanvasInv, NEW t \in tasks, NEW r \in graph.reads[t.cpn], TaskReads(t, r)
    PROVE  CanvasInv'
<1> DEFINE input == [t.input EXCEPT ![r] = out[r]]
           now == [at |-> t.at, cpn |-> t.cpn, input |-> input]
<1>1. /\ UNCHANGED <<graph, path, saved, idx, phase, out, index, chosen, failed, canceled, turn>>
      /\ phase = "batch" /\ tasks' = (tasks \ {t}) \cup {now}
      /\ input \in [graph.reads[t.cpn] -> Nat]
  BY Rereads DEF CanvasInv
<1> HIDE DEF input
<1>2. now.at = t.at /\ now.cpn = t.cpn /\ now.input = input
      /\ now = [at |-> now.at, cpn |-> now.cpn, input |-> now.input]
  OBVIOUS
<1> HIDE DEF now
<1>3. ASSUME NEW u \in tasks'
      PROVE  /\ u.at \in idx + 1 .. Len(path) /\ u.cpn = path[u.at]
             /\ u.input \in [graph.reads[u.cpn] -> Nat]
             /\ u = [at |-> u.at, cpn |-> u.cpn, input |-> u.input]
  <2>1. CASE u \in tasks
    BY <2>1 DEF CanvasInv, CanvasTypes
  <2>2. CASE u = now
    <3>1. t.at \in idx + 1 .. Len(path) /\ t.cpn = path[t.at]
      BY DEF CanvasInv, CanvasTypes
    <3> QED
      BY <1>1, <1>2, <2>2, <3>1
  <2> QED
    BY <1>1, <2>1, <2>2
<1>4. CanvasTypes'
  BY <1>1, <1>3, SameGraph DEF CanvasInv, CanvasTypes
<1>5. ItemsOut' /\ AtFirst'
  BY <1>1, SameGraph DEF CanvasInv, ItemsOut, AtFirst
<1>6. \A i : (\E u \in tasks : u.at = i) => \E u \in tasks' : u.at = i
  BY <1>1, <1>2
<1>7. FirstTurn'
  <2>1. /\ turn' = turn /\ phase' = phase /\ path' = path /\ idx' = idx
        /\ graph' = graph /\ out' = out /\ failed' = failed
    BY <1>1
  <2>2. \A c : HasRun(c)' = HasRun(c)
    BY <2>1 DEF HasRun, Kind
  <2> QED
    BY <1>6, <2>1, <2>2 DEF CanvasInv, FirstTurn
<1> QED
  BY <1>4, <1>5, <1>7 DEF CanvasInv

LEMMA EndBatchKeeps ==
    ASSUME CanvasInv, EndBatch
    PROVE  CanvasInv'
<1> DEFINE batch == SubSeq(path, idx + 1, Len(path))
           p == Walk(Goes, path, batch)
           rest == SubSeq(p, Len(path) + 1, Len(p))
<1>1. /\ UNCHANGED <<graph, tasks, out, index, chosen, failed, canceled, turn>>
      /\ phase = "batch" /\ tasks = {}
      /\ \/ phase' = "rest" /\ path' = SubSeq(path, 1, idx) /\ saved' = path' /\ UNCHANGED idx
         \/ phase' = "rest" /\ path' = Resumed(rest) /\ saved' = path' /\ UNCHANGED idx
         \/ phase' = "next" /\ path' = p /\ idx' = Len(path) /\ UNCHANGED saved
  BY DEF EndBatch
<1>2. /\ path \in Paths /\ saved \in Paths /\ idx \in Nat /\ idx <= Len(path) /\ Len(path) \in Nat
  BY <1>1, InSequence DEF CanvasInv, CanvasTypes, Paths
<1>3. p \in Paths /\ Extends(p, path)
  BY BatchExtends DEF CanvasInv
<1> HIDE DEF p
<1>4. Len(p) \in Nat
  BY <1>3, InSequence DEF Paths
<1>5. SubSeq(path, 1, idx) \in Paths /\ rest \in Paths
  BY <1>2, <1>3, <1>4 DEF Paths
<1> HIDE DEF rest
<1>6. Resumed(rest) \in Paths
  BY <1>5, ResumedIsPath
<1>7. CanvasTypes'
  <2>1. /\ path' \in Paths /\ saved' \in Paths /\ phase' \in {"rest", "next"} /\ idx' \in Nat
        /\ phase' # "rest" => idx' <= Len(path')
    BY <1>1, <1>2, <1>3, <1>5, <1>6 DEF Extends
  <2> QED
    BY <1>1, <2>1, SameGraph DEF CanvasInv, CanvasTypes
<1>8. ItemsOut'
  BY <1>1, SameGraph DEF CanvasInv, ItemsOut
<1>9. AtFirst'
  BY <1>1 DEF CanvasInv, AtFirst
<1>10. ASSUME turn = 1, phase' = "next" PROVE FirstTurn'
  <2>1. /\ Len(path) >= 1 /\ path[1] = "begin" /\ \A i \in 1 .. idx : HasRun(path[i])
        /\ \A i \in idx + 1 .. Len(path) : HasRun(path[i])
    BY <1>1, <1>10 DEF CanvasInv, FirstTurn
  <2>2. path' = p /\ idx' = Len(path)
    BY <1>1, <1>10
  <2>3. Len(p) >= 1 /\ p[1] = "begin" /\ idx' # 0
    BY <1>2, <1>3, <1>4, <2>1, <2>2 DEF Extends
  <2>4. \A i \in 1 .. Len(path) : p[i] = path[i] /\ HasRun(path[i])
    BY <1>2, <1>3, <2>1 DEF Extends
  <2>5. \A i \in 1 .. idx' : Kind(path'[i]) \in Silent \/ out'[path'[i]] # Nothing \/ path'[i] \in failed'
    BY <1>1, <2>2, <2>4 DEF HasRun
  <2> QED
    BY <1>1, <1>10, <2>2, <2>3, <2>5 DEF FirstTurn, HasRun, Kind
<1>11. ASSUME turn # 1 \/ phase' # "next" PROVE FirstTurn'
  BY <1>1, <1>11 DEF FirstTurn
<1> QED
  BY <1>7, <1>8, <1>9, <1>10, <1>11 DEF CanvasInv

\* The rest leaves the components as they are.
LEMMA OthersKeep ==
    ASSUME CanvasInv, Raise \/ EndTurn \/ Cancel \/ UNCHANGED canvasVars
    PROVE  CanvasInv'
<1>1. /\ UNCHANGED <<graph, idx, tasks, out, index, chosen, failed, turn>>
      /\ canceled' \in BOOLEAN
      /\ \/ phase = "next" /\ phase' = "rest" /\ path' \in {path, saved} /\ saved' \in {path, saved}
         \/ UNCHANGED <<phase, path, saved>>
  BY DEF Raise, EndTurn, Cancel, canvasVars, CanvasInv, CanvasTypes
<1>2. CanvasTypes'
  BY <1>1, SameGraph DEF CanvasInv, CanvasTypes
<1>3. ItemsOut' /\ AtFirst'
  BY <1>1, SameGraph DEF CanvasInv, ItemsOut, AtFirst
<1>4. FirstTurn'
  <2>1. CASE phase' = "rest"
    BY <2>1 DEF FirstTurn
  <2>2. CASE UNCHANGED <<phase, path, saved>>
    <3>1. /\ turn' = turn /\ phase' = phase /\ path' = path /\ idx' = idx /\ tasks' = tasks
          /\ graph' = graph /\ out' = out /\ failed' = failed
      BY <1>1, <2>2
    <3> QED
      BY <3>1 DEF CanvasInv, FirstTurn, HasRun, Kind
  <2> QED
    BY <1>1, <2>1, <2>2
<1> QED
  BY <1>2, <1>3, <1>4 DEF CanvasInv

LEMMA CanvasInvStep ==
    ASSUME CanvasInv, [CanvasNext]_canvasVars
    PROVE  CanvasInv'
<1>1. CASE BeginTurn
  BY <1>1, BeginTurnKeeps
<1>2. CASE StartBatch
  BY <1>2, StartBatchKeeps
<1>3. CASE EndBatch
  BY <1>3, EndBatchKeeps
<1>4. ASSUME NEW t \in tasks, EndTask(t) PROVE CanvasInv'
  BY <1>4, EndTaskKeeps
<1>5. ASSUME NEW t \in tasks, NEW r \in graph.reads[t.cpn], TaskReads(t, r) PROVE CanvasInv'
  BY <1>5, TaskReadsKeeps
<1>6. CASE Raise \/ EndTurn \/ Cancel \/ UNCHANGED canvasVars
  BY <1>6, OthersKeep
<1> QED
  BY <1>1, <1>2, <1>3, <1>4, <1>5, <1>6 DEF CanvasNext, RunOn

LEMMA CanvasInvInit == CanvasInit => CanvasInv
<1> SUFFICES ASSUME NEW g \in Graphs, CanvasStart(g) PROVE CanvasInv
  BY DEF CanvasInit
<1>1. /\ graph = g /\ path = <<>> /\ saved = <<>> /\ idx = 0 /\ tasks = {} /\ phase = "rest"
      /\ out = [c \in Cpns |-> Nothing] /\ index = [c \in Cpns |-> 0] /\ chosen = [c \in Cpns |-> <<>>]
      /\ failed = {} /\ canceled = FALSE /\ turn = 0
  BY DEF CanvasStart, Cpns
<1>2. <<>> \in Paths
  BY DEF Paths
<1>3. /\ out \in [Cpns -> Nat] /\ index \in [Cpns -> Int] /\ chosen \in [Cpns -> Paths]
  BY <1>1, <1>2 DEF Nothing
<1>4. CanvasTypes
  BY <1>1, <1>2, <1>3 DEF CanvasTypes
<1>5. ItemsOut
  BY <1>1 DEF ItemsOut
<1> QED
  BY <1>1, <1>4, <1>5 DEF CanvasInv, AtFirst, FirstTurn

LEMMA CanvasTyped == CanvasInit /\ [][CanvasNext]_canvasVars => []CanvasTypeOK
<1>1. CanvasInv => CanvasTypeOK
  <2> SUFFICES ASSUME CanvasInv PROVE CanvasTypeOK
    OBVIOUS
  <2>1. DOMAIN path = 1 .. Len(path) /\ idx \in Nat /\ Len(path) \in Nat
    BY InSequence DEF CanvasInv, CanvasTypes, Paths
  <2>2. \A t \in tasks : t.at \in DOMAIN path /\ path[t.at] = t.cpn
    BY <2>1 DEF CanvasInv, CanvasTypes
  <2> QED
    BY <2>2 DEF CanvasInv, CanvasTypes, CanvasTypeOK, Paths
<1> QED
  BY <1>1, CanvasInvInit, CanvasInvStep, PTL

\* Types of a canvas in execution.
THEOREM CanvasTypesHold == CanvasSpec => []CanvasTypeOK
  BY CanvasTyped, PTL DEF CanvasSpec

-----------------------------------------------------------------------------
(* Reads.  An iteration's result comes later than the iteration's own run, so  *)
(* what reads it must come later too.                                          *)

\* An index is no less than -1; an iteration whose item is over has its result, or its item
\* found no array; a switch chooses what is below it; a reader of an iteration's result gets into the path when the
\* result is there.
ResultOut ==
    \A c \in Cpns : /\ index[c] >= -1
                    /\ Kind(c) = "iterationitem" /\ index[c] = -1 =>
                           out[graph.parent[c]] # Nothing \/ c \in failed
ChosenBelow == \A c \in Cpns : ToSet(chosen[c]) \subseteq ToSet(graph.down[c])
MayFollow == {c \in Cpns : \A r \in graph.reads[c] : Kind(r) \in Silent => out[r] # Nothing}
FollowInv == /\ ResultOut /\ ChosenBelow
             /\ turn = 1 /\ phase # "rest" => path \in Seq(MayFollow)

LEMMA Members ==
    ASSUME NEW S, NEW cs \in Seq(S)
    PROVE  ToSet(cs) = {cs[k] : k \in 1 .. Len(cs)} /\ ToSet(cs) \subseteq S
<1>1. DOMAIN cs = 1 .. Len(cs)
  OBVIOUS
<1> QED
  BY <1>1, InSequence DEF ToSet

LEMMA SequenceOf ==
    ASSUME NEW S, NEW T, NEW cs \in Seq(S), ToSet(cs) \subseteq T
    PROVE  cs \in Seq(T)
<1>1. \A k \in 1 .. Len(cs) : cs[k] \in T
  BY Members
<1>2. Len(cs) \in Nat /\ cs = [k \in 1 .. Len(cs) |-> cs[k]]
  OBVIOUS
<1> QED
  BY <1>1, <1>2

\* What comes after a component may follow.
LEMMA AfterFollows ==
    ASSUME CanvasTypes, ReadsFollow(graph), ResultOut, ChosenBelow, NEW c \in Cpns
    PROVE  /\ c \notin failed => After(c) \in Seq(MayFollow)
           /\ graph.goto[c] \in Seq(MayFollow)
<1> DEFINE Item(d) == Kind(d) \in {"iterationitem", "loopitem"}
           Late(d) == \E r \in graph.reads[d] : Kind(r) \in Silent /\ out[r] = Nothing
<1>1. graph \in Graphs /\ chosen[c] \in Paths /\ graph.parent[c] \in Cpns
  BY GraphFacts DEF CanvasTypes
<1>2. graph.down[c] \in Paths /\ graph.goto[c] \in Paths /\ graph.down[graph.parent[c]] \in Paths
  BY <1>1, GraphFacts
<1>3. ASSUME NEW d \in Cpns, NEW r \in graph.reads[d], Kind(r) \in Silent
      PROVE  /\ Kind(r) = "iteration" /\ ~Item(d)
             /\ \A x \in Cpns : (d \in ToSet(graph.down[x]) => x = r) /\ d \notin ToSet(graph.goto[x])
  BY <1>3 DEF ReadsFollow, Cpns, Kind
<1>4. ASSUME NEW d \in Cpns, Item(d) PROVE d \in MayFollow
  BY <1>3, <1>4 DEF MayFollow
<1>5. ASSUME NEW x \in Cpns, NEW d \in ToSet(graph.down[x]), d \in Cpns,
             Kind(x) # "iteration" \/ out[x] # Nothing
      PROVE  d \in MayFollow
  BY <1>3, <1>5 DEF MayFollow
<1>6. graph.goto[c] \in Seq(MayFollow)
  <2>1. ToSet(graph.goto[c]) \subseteq Cpns
    BY <1>2, Members DEF Paths
  <2>2. ToSet(graph.goto[c]) \subseteq MayFollow
    BY <1>3, <2>1 DEF MayFollow
  <2> QED
    BY <1>2, <2>2, SequenceOf DEF Paths
<1>7. ASSUME Kind(c) # "iteration" PROVE graph.down[c] \in Seq(MayFollow)
  <2>1. ToSet(graph.down[c]) \subseteq MayFollow
    BY <1>2, <1>5, <1>7, Members DEF Paths
  <2> QED
    BY <1>2, <2>1, SequenceOf DEF Paths
<1>8. ASSUME Kind(graph.parent[c]) # "iteration" \/ out[graph.parent[c]] # Nothing
      PROVE  graph.down[graph.parent[c]] \in Seq(MayFollow)
  <2>1. ToSet(graph.down[graph.parent[c]]) \subseteq MayFollow
    BY <1>1, <1>2, <1>5, <1>8, Members DEF Paths
  <2> QED
    BY <1>2, <2>1, SequenceOf DEF Paths
<1>9. ASSUME NEW d \in Cpns, Kind(d) \in {"iteration", "loop"} PROVE <<ItemOf(d)>> \in Seq(MayFollow)
  <2>1. ItemOf(d) \in MayFollow
    BY <1>1, <1>4, <1>9, GraphFacts
  <2> QED
    BY <2>1
<1>10. CASE IsDone(c) /\ c \notin failed
  <2>1. After(c) = graph.down[graph.parent[c]]
    BY <1>10 DEF After
  <2>2. Kind(c) = "loopitem" => Kind(graph.parent[c]) = "loop"
    BY <1>1, GraphFacts
  <2>3. Kind(c) = "iterationitem" => out[graph.parent[c]] # Nothing
    BY <1>10 DEF IsDone, ResultOut
  <2>4. Kind(c) \in {"iterationitem", "loopitem"}
    BY <1>10 DEF IsDone
  <2> QED
    BY <1>6, <1>8, <2>1, <2>2, <2>3, <2>4
<1>11. CASE ~IsDone(c) /\ Branches(Kind(c))
  <2>1. After(c) = chosen[c]
    BY <1>11 DEF After
  <2>2. ToSet(chosen[c]) \subseteq ToSet(graph.down[c]) /\ ToSet(graph.down[c]) \subseteq MayFollow
    BY <1>7, <1>11, Members DEF ChosenBelow, Branches
  <2>3. chosen[c] \in Seq(MayFollow)
    BY <1>1, <2>2, SequenceOf DEF Paths
  <2> QED
    BY <1>6, <2>1, <2>3
<1>12. CASE ~IsDone(c) /\ Kind(c) \in {"iteration", "loop"}
  BY <1>6, <1>9, <1>12 DEF After, Branches
<1>13. CASE ~IsDone(c) /\ ~Branches(Kind(c)) /\ Kind(c) \notin {"iteration", "loop"}
  <2>1. \/ Inside(c, "loop") /\ After(c) = graph.down[graph.parent[c]]
        \/ graph.parent[c] # c /\ After(c) = <<ItemOf(graph.parent[c])>>
        \/ After(c) = graph.down[c]
    BY <1>13 DEF After
  <2>2. graph.parent[c] # c => Kind(graph.parent[c]) \in {"iteration", "loop"}
    BY <1>1, GraphFacts
  <2> QED
    BY <1>1, <1>6, <1>7, <1>8, <1>9, <1>13, <2>1, <2>2 DEF Inside
<1> QED
  BY <1>6, <1>10, <1>11, <1>12, <1>13

\* A batch goes on to what may follow.
LEMMA GoesFollows ==
    ASSUME CanvasTypes, ReadsFollow(graph), ResultOut, ChosenBelow,
           NEW p \in Seq(MayFollow), NEW c \in Cpns, c \notin failed \/ graph.goto[c] # <<>>
    PROVE  Goes(p, c) \in Seq(MayFollow)
<1>6. CASE c \in failed
  <2>1. graph.goto[c] \in Seq(MayFollow)
    BY AfterFollows
  <2> QED
    BY <1>6, <2>1 DEF Goes
<1> SUFFICES ASSUME c \notin failed PROVE Goes(p, c) \in Seq(MayFollow)
  BY <1>6
<1> DEFINE V == Seq(MayFollow)
           cs == After(c)
<1>1. cs \in V /\ graph.goto[c] \in V
  BY AfterFollows
<1>2. p \o graph.goto[c] \in V
  BY <1>1
<1>3. ASSUME NEW q \in V, NEW k \in 1 .. Len(cs) PROVE AppendNew(q, cs[k]) \in V
  <2>1. cs[k] \in MayFollow
    BY <1>1, InSequence
  <2> QED
    BY <2>1 DEF AppendNew
<1>4. Len(cs) \in Nat
  BY <1>1, InSequence
<1> HIDE DEF cs
<1>5. Walk(AppendNew, p, cs) \in V
  <2>1. p \in V
    OBVIOUS
  <2> HIDE DEF V
  <2> QED
    BY <1>3, <1>4, <2>1, WalkAppendNew
<1> QED
  BY <1>2, <1>5 DEF Goes, Extend, cs

\* A batch starts what may follow.
LEMMA StartedFollows ==
    ASSUME CanvasTypes, phase = "next", path \in Seq(MayFollow)
    PROVE  Walk(Admit, SubSeq(path, 1, idx), Pending) \in Seq(MayFollow)
<1> DEFINE V == Seq(MayFollow)
           cs == Pending
           p == SubSeq(path, 1, idx)
<1>1. idx \in Nat /\ idx <= Len(path) /\ Len(path) \in Nat
  BY InSequence DEF CanvasTypes, Paths
<1>2. p \in V /\ cs \in V
  BY <1>1 DEF Pending
<1>3. Len(cs) \in Nat /\ \A k \in 1 .. Len(cs) : cs[k] \in MayFollow
  BY <1>2, InSequence
<1> HIDE DEF cs, p
<1>4. ASSUME NEW q \in V, NEW k \in 1 .. Len(cs) PROVE Admit(q, cs[k]) \in V
  BY <1>3 DEF Admit
<1>5. Walk(Admit, p, cs) \in V
  <2> HIDE DEF V
  <2> QED
    BY <1>2, <1>3, <1>4, WalkAdmit
<1> QED
  BY <1>5 DEF p, cs

\* What the end of a task does to what may follow.
LEMMA TaskEndsFollow ==
    ASSUME CanvasInv, FollowInv, NEW t \in tasks, EndTask(t)
    PROVE  ResultOut' /\ ChosenBelow'
<1> DEFINE c == t.cpn
<1>1. UNCHANGED graph /\ Advances(c)
  BY TaskEndsAdvances DEF EndTask, EndPlain, EndSwitch, TaskRaises, EndItem, EndLoopItem, CanvasInv
<1>2. /\ graph \in Graphs /\ c \in Cpns
      /\ out \in [Cpns -> Nat] /\ index \in [Cpns -> Int] /\ chosen \in [Cpns -> Paths]
  <2>1. path \in Paths /\ t.at \in 1 .. Len(path) /\ t.cpn = path[t.at]
    BY InSequence DEF CanvasInv, CanvasTypes, Paths
  <2>2. c \in Cpns
    BY <2>1, InSequence DEF Paths
  <2> QED
    BY <2>2 DEF CanvasInv, CanvasTypes
<1>3. \A d \in Cpns : graph.parent[d] \in Cpns
  BY <1>2, GraphFacts
<1>4. \A d \in Cpns : out[d] # Nothing => out'[d] # Nothing
  BY <1>1 DEF Advances
<1>5. Items \in Nat \ {0} /\ \A d \in Cpns : index[d] >= -1 /\ index[d] \in Int
  BY <1>2, CanvasAssumption DEF FollowInv, ResultOut
<1> HIDE DEF c
<1>6. ASSUME \A d \in Cpns : index'[d] >= -1,
             \A d \in Cpns : Kind(d) = "iterationitem" /\ index'[d] = -1 /\ index[d] # -1 =>
                                 out'[graph.parent[d]] # Nothing \/ d \in failed'
      PROVE  ResultOut'
  <2>1. \A d \in Cpns : Kind(d) = "iterationitem" /\ index'[d] = -1 =>
                              out'[graph.parent[d]] # Nothing \/ d \in failed'
    BY <1>1, <1>3, <1>4, <1>6 DEF FollowInv, ResultOut, Advances
  <2> QED
    BY <1>1, <1>6, <2>1, SameGraph DEF ResultOut
<1>7. ASSUME chosen' = chosen PROVE ChosenBelow'
  BY <1>1, <1>7, SameGraph DEF FollowInv, ChosenBelow
<1>8. CASE EndPlain(t)
  BY <1>5, <1>6, <1>7, <1>8 DEF EndPlain
<1>12. CASE TaskRaises(t)
  <2>1. /\ chosen' = chosen /\ failed' = failed \cup {c}
        /\ index' = index \/ index' = [index EXCEPT ![c] = -1]
    BY <1>12 DEF TaskRaises, Put, c
  <2>2. /\ \A d \in Cpns : index'[d] >= -1
        /\ \A d \in Cpns : index'[d] = index[d] \/ d \in failed'
    BY <1>2, <1>5, <2>1
  <2> QED
    BY <1>6, <1>7, <2>1, <2>2
<1>9. CASE EndSwitch(t)
  <2>1. index' = index
    BY <1>9 DEF EndSwitch
  <2>2. PICK d \in ToSet(graph.down[c]) : chosen' = [chosen EXCEPT ![c] = <<d>>]
    BY <1>9 DEF EndSwitch, Put, c
  <2>3. ToSet(<<d>>) = {d}
    BY DEF ToSet
  <2>4. \A x \in Cpns : ToSet(chosen'[x]) \subseteq ToSet(graph.down[x])
    BY <1>2, <2>2, <2>3 DEF FollowInv, ChosenBelow
  <2> QED
    BY <1>1, <1>5, <1>6, <2>1, <2>4, SameGraph DEF ChosenBelow
<1>10. CASE EndItem(t)
  <2>1. /\ Kind(c) = "iterationitem" /\ chosen' = chosen
        /\ \A d \in Cpns : d # c => index'[d] = index[d]
        /\ ItemsOver(index[c]) => out' = IF Collects(index[c]) THEN [out EXCEPT ![graph.parent[c]] = 1] ELSE out
        /\ index'[c] = IF ItemsOver(index[c]) THEN -1 ELSE index[c] + 1
    BY <1>2, <1>10 DEF EndItem, Put, c
  <2>2. ASSUME index'[c] = -1, index[c] # -1 PROVE out'[graph.parent[c]] # Nothing
    <3>1. CASE ItemsOver(index[c])
      <4>1. Collects(index[c])
        BY <1>2, <1>5, <3>1 DEF ItemsOver, Collects
      <4> QED
        BY <1>2, <1>3, <2>1, <3>1, <4>1 DEF Nothing
    <3>2. CASE ~ItemsOver(index[c])
      BY <1>2, <1>5, <2>1, <2>2, <3>2
    <3> QED
      BY <3>1, <3>2
  <2>3. \A d \in Cpns : index'[d] >= -1
    BY <1>2, <1>5, <2>1
  <2> QED
    BY <1>6, <1>7, <2>1, <2>2, <2>3
<1>11. CASE EndLoopItem(t)
  <2>1. Kind(c) = "loopitem" /\ chosen' = chosen /\ \A d \in Cpns : d # c => index'[d] = index[d]
    BY <1>2, <1>11 DEF EndLoopItem, Put, c
  <2>2. index'[c] = -1 \/ index'[c] = index[c] + 1
    BY <1>2, <1>11 DEF EndLoopItem, Put, c
  <2>3. \A d \in Cpns : index'[d] >= -1
    BY <1>2, <1>5, <2>1, <2>2
  <2> QED
    BY <1>6, <1>7, <2>1, <2>3
<1> QED
  BY <1>8, <1>9, <1>10, <1>11, <1>12 DEF EndTask

LEMMA FollowStep ==
    ASSUME \A g \in Graphs : ReadsFollow(g), CanvasInv, FollowInv, [CanvasNext]_canvasVars
    PROVE  FollowInv'
<1>1. /\ graph \in Graphs /\ path \in Paths /\ idx \in Nat /\ Len(path) \in Nat
      /\ (phase # "rest" => idx <= Len(path))
      /\ CanvasTypes /\ ReadsFollow(graph)
  BY InSequence DEF CanvasInv, CanvasTypes, Paths
<1>2. ASSUME UNCHANGED <<graph, index, chosen, out, failed>> PROVE ResultOut' /\ ChosenBelow' /\ MayFollow' = MayFollow
  BY <1>2, SameGraph DEF FollowInv, ResultOut, ChosenBelow, MayFollow
<1>3. CASE BeginTurn
  <2>1. /\ graph' = graph /\ index' = [c \in Cpns |-> 0] /\ chosen' = [c \in Cpns |-> <<>>]
        /\ turn' = turn + 1
    BY <1>3 DEF BeginTurn
  <2>2. ResultOut'
    BY <2>1, SameGraph DEF ResultOut
  <2>3. ChosenBelow'
    <3>1. ToSet(<<>>) = {}
      BY DEF ToSet
    <3> QED
      BY <2>1, <3>1, SameGraph DEF ChosenBelow
  <2>4. ASSUME turn' = 1, phase' # "rest" PROVE path' \in Seq(MayFollow')
    <3>1. saved = <<>>
      BY <2>1, <2>4 DEF CanvasInv, CanvasTypes, AtFirst
    <3>2. "begin" \in Cpns /\ graph.reads["begin"] = {}
      BY <1>1, GraphFacts
    <3>3. "begin" \in MayFollow'
      BY <2>1, <3>2, SameGraph DEF MayFollow
    <3>4. path' = Append(saved, "begin")
      BY <1>3, <2>4, <3>1 DEF BeginTurn
    <3>5. path' = <<"begin">>
      BY <3>1, <3>4
    <3> QED
      BY <3>3, <3>5
  <2> QED
    BY <2>2, <2>3, <2>4 DEF FollowInv
<1>4. CASE StartBatch
  <2>1. UNCHANGED <<graph, index, chosen, out, failed, turn>> /\ phase = "next"
        /\ path' = Walk(Admit, SubSeq(path, 1, idx), Pending)
    BY <1>4 DEF StartBatch
  <2>2. turn = 1 => path' \in Seq(MayFollow)
    BY <1>1, <2>1, StartedFollows DEF FollowInv
  <2> QED
    BY <1>2, <2>1, <2>2 DEF FollowInv
<1>5. ASSUME NEW t \in tasks, EndTask(t) PROVE FollowInv'
  <2>1. UNCHANGED <<graph, path, phase, turn>>
    BY <1>5 DEF EndTask, EndPlain, EndSwitch, TaskRaises, EndItem, EndLoopItem
  <2>2. \A d \in Cpns : out[d] # Nothing => out'[d] # Nothing
    BY <1>5, TaskEndsAdvances DEF CanvasInv, Advances
  <2>3. \A c \in Cpns : graph.reads[c] \subseteq Cpns
    BY <1>1, GraphFacts
  <2>4. MayFollow \subseteq MayFollow'
    BY <2>1, <2>2, <2>3, SameGraph DEF MayFollow
  <2>5. path \in Seq(MayFollow) => path' \in Seq(MayFollow')
    <3>1. ASSUME path \in Seq(MayFollow) PROVE path \in Seq(MayFollow')
      <4>1. ToSet(path) \subseteq MayFollow'
        BY <2>4, <3>1, Members
      <4> QED
        BY <3>1, <4>1, SequenceOf
    <3> QED
      BY <2>1, <3>1
  <2>6. ResultOut' /\ ChosenBelow'
    BY <1>5, TaskEndsFollow
  <2> QED
    BY <2>1, <2>5, <2>6 DEF FollowInv
<1>6. CASE EndBatch
  <2> DEFINE cs == SubSeq(path, idx + 1, Len(path))
             V == Seq(MayFollow)
  <2>1. UNCHANGED <<graph, index, chosen, out, failed, turn>> /\ phase = "batch"
        /\ (phase' # "rest" => path' = Walk(Goes, path, cs) /\ ~Unhandled(ToSet(cs)))
    BY <1>6 DEF EndBatch
  <2>2. cs \in Paths
    BY <1>1, <2>1 DEF Paths
  <2> HIDE DEF cs
  <2>3. Len(cs) \in Nat /\ \A k \in 1 .. Len(cs) : cs[k] \in Cpns /\ cs[k] \in ToSet(cs)
    <3>1. ToSet(cs) = {cs[k] : k \in 1 .. Len(cs)}
      BY <2>2, Members DEF Paths
    <3> QED
      BY <2>2, <3>1, InSequence DEF Paths
  <2>4. ASSUME path \in V, ~Unhandled(ToSet(cs)) PROVE Walk(Goes, path, cs) \in V
    <3>1. \A q \in V, k \in 1 .. Len(cs) : Goes(q, cs[k]) \in V
      BY <1>1, <2>3, <2>4, GoesFollows DEF FollowInv, Unhandled
    <3> HIDE DEF V
    <3> QED
      BY <2>3, <2>4, <3>1, WalkGoes
  <2>5. turn' = 1 /\ phase' # "rest" => path' \in V
    BY <2>1, <2>4 DEF FollowInv
  <2> QED
    BY <1>2, <2>1, <2>5 DEF FollowInv
<1>7. CASE Raise \/ EndTurn \/ Cancel \/ UNCHANGED canvasVars
  <2>1. /\ UNCHANGED <<graph, index, chosen, out, failed, turn>>
        /\ phase' # "rest" => UNCHANGED <<path, phase>>
    BY <1>7 DEF Raise, EndTurn, Cancel, canvasVars
  <2> QED
    BY <1>2, <2>1 DEF FollowInv
<1>8. ASSUME NEW t \in tasks, NEW r \in graph.reads[t.cpn], TaskReads(t, r) PROVE FollowInv'
  <2>1. UNCHANGED <<graph, path, phase, index, chosen, out, failed, turn>>
    BY <1>8 DEF TaskReads
  <2> QED
    BY <1>2, <2>1 DEF FollowInv
<1> QED
  BY <1>3, <1>4, <1>5, <1>6, <1>7, <1>8 DEF CanvasNext, RunOn

LEMMA FollowInit == CanvasInit => FollowInv
<1> SUFFICES ASSUME NEW g \in Graphs, CanvasStart(g) PROVE FollowInv
  BY DEF CanvasInit
<1>1. index = [c \in Cpns |-> 0] /\ chosen = [c \in Cpns |-> <<>>] /\ phase = "rest"
  BY DEF CanvasStart, Cpns
<1>2. ToSet(<<>>) = {}
  BY DEF ToSet
<1> QED
  BY <1>1, <1>2 DEF FollowInv, ResultOut, ChosenBelow

-----------------------------------------------------------------------------
(* Reads *)

LEMMA StartedReady ==
    ASSUME CanvasInv, FollowInv, CanvasInv', StartBatch, turn = 1, NEW t \in tasks',
           HeldBack(Kind(t.cpn)), NEW r \in graph.reads[t.cpn]
    PROVE  out'[r] # Nothing \/ r \in failed' \/ r \in MatesBefore(t)'
<1> DEFINE p == Walk(Admit, SubSeq(path, 1, idx), Pending)
<1>1. /\ UNCHANGED <<graph, idx, out, failed, turn>> /\ phase = "next" /\ phase' = "batch" /\ path' = p
      /\ tasks' = {[at |-> i, cpn |-> p[i], input |-> InputOf(p[i])] : i \in idx + 1 .. Len(p)}
  BY DEF StartBatch
<1>2. /\ p \in Paths /\ Len(p) \in Nat /\ idx <= Len(p)
      /\ \A i \in 1 .. idx : p[i] = path[i]
      /\ \A i \in idx + 1 .. Len(p) : CanStart(p[i], SubSeq(p, 1, i - 1))
  BY BatchStarted
<1> HIDE DEF p
<1>3. /\ graph \in Graphs /\ idx \in Nat /\ \A i \in 1 .. Len(p) : p[i] \in Cpns
  BY <1>2, InSequence DEF CanvasInv, CanvasTypes, Paths
<1>4. /\ p[1] = "begin" /\ (idx = 0 => Len(p) = 1)
      /\ \A i \in 1 .. idx : HasRun(path[i])
  BY <1>1 DEF CanvasInv, FirstTurn
<1>5. PICK i \in idx + 1 .. Len(p) : t = [at |-> i, cpn |-> p[i], input |-> InputOf(p[i])]
  BY <1>1
<1>6. t.at = i /\ t.cpn = p[i] /\ i \in 1 .. Len(p) /\ i \in Nat
  BY <1>2, <1>3, <1>5
<1>7. r \in graph.reads[p[i]] /\ p[i] \in Cpns /\ HeldBack(Kind(p[i]))
  BY <1>3, <1>6
<1>8. Kind(r) \in Silent => out[r] # Nothing
  <2>1. p \in Seq(MayFollow)
    BY <1>1, StartedFollows DEF CanvasInv, FollowInv, p
  <2>2. p[i] \in MayFollow
    BY <1>6, <2>1, InSequence
  <2> QED
    BY <1>7, <2>2 DEF MayFollow
<1>9. Kind(p[i]) \notin {"begin", "userfillup"}
  BY <1>7 DEF HeldBack
<1>10. i # 1
  BY <1>3, <1>4, <1>9, GraphFacts
<1> DEFINE q == SubSeq(p, 1, i - 1)
<1>11. Len(q) = i - 1 /\ (\A j \in 1 .. i - 1 : q[j] = p[j]) /\ ToSet(q) = {p[j] : j \in 1 .. i - 1}
  <2>1. i - 1 \in Nat /\ i - 1 <= Len(p) /\ p \in Seq(Cpns)
    BY <1>2, <1>6 DEF Paths
  <2>2. q \in Seq(Cpns) /\ Len(q) = i - 1 /\ \A j \in 1 .. i - 1 : q[j] = p[j]
    BY <2>1
  <2> HIDE DEF q
  <2>3. DOMAIN q = 1 .. i - 1
    BY <2>1, <2>2
  <2>4. ToSet(q) = {q[j] : j \in DOMAIN q}
    BY DEF ToSet
  <2> QED
    BY <2>2, <2>3, <2>4
<1>12. Kind(q[1]) # "userfillup"
  <2>1. 1 \in 1 .. i - 1
    BY <1>6, <1>10
  <2>2. q[1] = "begin"
    BY <1>4, <1>11, <2>1
  <2> HIDE DEF q
  <2> QED
    BY <1>3, <2>2, GraphFacts
<1>13. r \in ToSet(q)
  <2>1. CanStart(p[i], q)
    BY <1>2
  <2> HIDE DEF q
  <2> QED
    BY <1>7, <1>9, <1>12, <2>1 DEF CanStart
<1> HIDE DEF q
<1>14. PICK j \in 1 .. i - 1 : r = p[j]
  BY <1>11, <1>13
<1>15. CASE j <= idx
  <2>1. j \in 1 .. idx /\ r = path[j]
    BY <1>2, <1>14, <1>15
  <2> QED
    BY <1>1, <1>4, <1>7, <1>8, <2>1 DEF HasRun
<1>16. CASE j > idx
  <2>1. j \in idx + 1 .. t.at - 1
    BY <1>3, <1>6, <1>14, <1>16
  <2> QED
    BY <1>1, <1>14, <2>1 DEF MatesBefore
<1> QED
  BY <1>3, <1>6, <1>14, <1>15, <1>16

LEMMA ReadyStep ==
    ASSUME CanvasInv, FollowInv, CanvasInv', ReadsAreReady, [CanvasNext]_canvasVars
    PROVE  ReadsAreReady'
<1>1. CASE StartBatch
  <2>1. turn' = turn /\ graph' = graph
    BY <1>1 DEF StartBatch
  <2>2. \A c : Kind(c)' = Kind(c)
    BY <2>1 DEF Kind
  <2>3. ASSUME NEW t \in tasks', turn = 1, HeldBack(Kind(t.cpn)), NEW r \in graph.reads[t.cpn]
        PROVE  out'[r] # Nothing \/ r \in failed' \/ r \in MatesBefore(t)'
    BY <1>1, <2>3, StartedReady
  <2> QED
    BY <2>1, <2>2, <2>3 DEF ReadsAreReady
<1>2. ASSUME \A t \in tasks' : \E u \in tasks : t.at = u.at /\ t.cpn = u.cpn,
             failed \subseteq failed', \A c \in Cpns : out[c] # Nothing => out'[c] # Nothing,
             UNCHANGED <<graph, path, idx, turn>>
      PROVE  ReadsAreReady'
  <2> SUFFICES ASSUME NEW t \in tasks', turn' = 1, HeldBack(Kind(t.cpn)'), NEW r \in graph'.reads[t.cpn]
               PROVE  out'[r] # Nothing \/ r \in failed' \/ r \in MatesBefore(t)'
    BY DEF ReadsAreReady
  <2>1. PICK u \in tasks : t.at = u.at /\ t.cpn = u.cpn
    BY <1>2
  <2>2. turn = 1 /\ HeldBack(Kind(u.cpn)) /\ r \in graph.reads[u.cpn]
    BY <1>2, <2>1, SameGraph
  <2>3. out[r] # Nothing \/ r \in failed \/ r \in MatesBefore(u)
    BY <2>2 DEF ReadsAreReady
  <2>4. MatesBefore(t)' = MatesBefore(u)
    BY <1>2, <2>1 DEF MatesBefore
  <2>5. r \in Cpns
    <3>1. path \in Paths /\ u.at \in 1 .. Len(path) /\ u.cpn = path[u.at] /\ graph \in Graphs
      BY InSequence DEF CanvasInv, CanvasTypes, Paths
    <3>2. u.cpn \in Cpns
      BY <3>1, InSequence DEF Paths
    <3> QED
      BY <2>2, <3>1, <3>2, GraphFacts
  <2> QED
    BY <1>2, <2>3, <2>4, <2>5
<1>3. CASE \E t \in tasks : EndTask(t)
  <2>1. PICK t \in tasks : EndTask(t)
    BY <1>3
  <2>2. tasks' \subseteq tasks /\ UNCHANGED <<graph, path, idx, turn>>
    BY <2>1 DEF EndTask, EndPlain, EndSwitch, TaskRaises, EndItem, EndLoopItem, EndsTask
  <2>3. failed \subseteq failed' /\ \A c \in Cpns : out[c] # Nothing => out'[c] # Nothing
    BY <2>1, TaskEndsAdvances DEF CanvasInv, Advances
  <2>4. \A u \in tasks' : \E v \in tasks : u.at = v.at /\ u.cpn = v.cpn
    BY <2>2
  <2> QED
    BY <1>2, <2>2, <2>3, <2>4
<1>4. CASE BeginTurn \/ Raise \/ EndBatch \/ EndTurn
  <2>1. tasks = {} /\ tasks' = tasks
    BY <1>4 DEF BeginTurn, Raise, EndBatch, EndTurn, CanvasInv, CanvasTypes
  <2> QED
    BY <2>1 DEF ReadsAreReady
<1>5. CASE Cancel \/ UNCHANGED canvasVars
  <2>1. UNCHANGED <<graph, path, idx, tasks, out, failed, turn>>
    BY <1>5 DEF Cancel, canvasVars
  <2> QED
    BY <1>2, <2>1
<1>6. ASSUME NEW t \in tasks, NEW r \in graph.reads[t.cpn], TaskReads(t, r) PROVE ReadsAreReady'
  <2> DEFINE input == [t.input EXCEPT ![r] = out[r]]
  <2>1. /\ UNCHANGED <<graph, path, idx, out, failed, turn>>
        /\ tasks' = (tasks \ {t}) \cup {[at |-> t.at, cpn |-> t.cpn, input |-> input]}
    BY <1>6, Rereads DEF CanvasInv
  <2> HIDE DEF input
  <2>2. \A u \in tasks' : \E v \in tasks : u.at = v.at /\ u.cpn = v.cpn
    BY <2>1
  <2> QED
    BY <1>2, <2>1, <2>2
<1> QED
  BY <1>1, <1>3, <1>4, <1>5, <1>6 DEF CanvasNext, RunOn

LEMMA ReadsReady ==
    ASSUME \A g \in Graphs : ReadsFollow(g)
    PROVE  CanvasInit /\ [][CanvasNext]_canvasVars => []ReadsAreReady
<1>1. CanvasInit => CanvasInv /\ FollowInv /\ ReadsAreReady
  BY CanvasInvInit, FollowInit DEF CanvasInit, CanvasStart, ReadsAreReady
<1>2. CanvasInv /\ FollowInv /\ ReadsAreReady /\ [CanvasNext]_canvasVars => (CanvasInv /\ FollowInv /\ ReadsAreReady)'
  BY CanvasInvStep, FollowStep, ReadyStep
<1> QED
  BY <1>1, <1>2, PTL

\* ReadsAreReady on canvases where what reads the result of an iteration comes after it:
\* in the first turn of a session a component of the kinds that _run_batch holds back runs
\* when what it reads has been made, for any number of components, errors and cancellations.
THEOREM ReadyToRead ==
    ASSUME \A g \in Graphs : ReadsFollow(g)
    PROVE  CanvasSpec => []ReadsAreReady
  BY ReadsReady, PTL DEF CanvasSpec

-----------------------------------------------------------------------------
(* Items.  Where a canvas goes one way at a time, control is at one component:  *)
(* the iterations ahead of it are untouched, those behind it are over, and the  *)
(* one it is in has come to a place of its chain in a round.                    *)

Its == {c \in Cpns : Kind(c) = "iteration"}
OuterIn(g) == {c \in DOMAIN g.kind : g.parent[c] = c}
RankIn(g) == CHOOSE rank \in [OuterIn(g) -> 1 .. Cardinality(DOMAIN g.kind)] :
                 LeadsOnwards(g, OuterIn(g), rank)
ChainIn(g, it) == CHOOSE w : w \in Seq(DOMAIN g.kind) /\ Len(w) >= 2 /\ IsChain(g, it, w)
IsOuter(c) == graph.parent[c] = c
ChosenOne == \A c \in Cpns : Len(chosen[c]) <= 1 /\ ToSet(chosen[c]) \subseteq ToSet(graph.down[c])
Rank(c) == RankIn(graph)[c]
Chain(it) == ChainIn(graph, it)

\* What is known of the chain w of an iteration.
Track(it, w) ==
    /\ w \in Seq(Cpns) /\ Len(w) \in Nat /\ Len(w) >= 2
    /\ \A k \in 1 .. Len(w) : w[k] \in Cpns /\ graph.parent[w[k]] = it /\ w[k] # it
    /\ \A c \in Cpns : graph.parent[c] = it /\ c # it => \E k \in 1 .. Len(w) : c = w[k]
    /\ \A j, k \in 1 .. Len(w) : w[j] = w[k] => j = k
    /\ Kind(w[1]) = "iterationitem" /\ graph.reads[w[1]] = {}
    /\ \A k \in 1 .. Len(w) : graph.down[w[k]] = IF k = Len(w) THEN <<>> ELSE <<w[k + 1]>>
    /\ \A k \in 2 .. Len(w) : /\ Ordinary(Kind(w[k])) /\ graph.reads[w[k]] # {}
                              /\ graph.reads[w[k]] \subseteq {w[j] : j \in 1 .. k - 1}
    /\ \E k \in 2 .. Len(w) : graph.collects[it] = w[k]
    /\ ItemOf(it) = w[1]

LEMMA ChainFacts ==
    ASSUME graph \in Graphs, GoesOneWay(graph), NEW it \in Its
    PROVE  Track(it, Chain(it))
<1> DEFINE inside == {c \in Cpns : graph.parent[c] = it}
<1>1. \E m \in 2 .. Cardinality(Cpns) : \E w \in [1 .. m -> inside] : IsChain(graph, it, w)
  BY DEF GoesOneWay, Its, Cpns, Kind
<1>2. Cardinality(Cpns) \in Nat
  BY DEF GoesOneWay, Cpns
<1>3. PICK m \in 2 .. Cardinality(Cpns) : \E v \in [1 .. m -> inside] : IsChain(graph, it, v)
  BY <1>1
<1>15. PICK v \in [1 .. m -> inside] : IsChain(graph, it, v)
  BY <1>3
<1>4. m \in Nat /\ m >= 2
  BY <1>2, <1>3
<1>5. v \in Seq(Cpns) /\ Len(v) = m
  <2>1. v \in [1 .. m -> Cpns]
    BY <1>15
  <2> QED
    BY <1>4, <2>1
<1> DEFINE w == Chain(it)
<1>6. w \in Seq(Cpns) /\ Len(w) >= 2 /\ IsChain(graph, it, w)
  <2>1. v \in Seq(DOMAIN graph.kind) /\ Len(v) >= 2 /\ IsChain(graph, it, v)
    BY <1>4, <1>5, <1>15 DEF Cpns
  <2> QED
    BY <2>1, Zenon DEF Chain, ChainIn, Cpns
<1> HIDE DEF w
<1>7. Len(w) \in Nat /\ DOMAIN w = 1 .. Len(w) /\ \A k \in 1 .. Len(w) : w[k] \in Cpns
  BY <1>6, InSequence
<1>8. DOMAIN w \ {1} = 2 .. Len(w)
  BY <1>6, <1>7
<1>9. ToSet(w) = {w[k] : k \in 1 .. Len(w)}
  BY <1>7 DEF ToSet
<1>10. {w[k] : k \in 1 .. Len(w)} = {c \in Cpns : graph.parent[c] = it /\ c # it}
  BY <1>6, <1>9 DEF IsChain, Cpns
<1>11. \A j, k \in 1 .. Len(w) : w[j] = w[k] => j = k
  BY <1>6, <1>7 DEF IsChain, IsInjective
<1>12. /\ Kind(w[1]) = "iterationitem" /\ graph.reads[w[1]] = {}
       /\ \A k \in 1 .. Len(w) : graph.down[w[k]] = IF k = Len(w) THEN <<>> ELSE <<w[k + 1]>>
       /\ \A k \in 2 .. Len(w) : /\ Ordinary(Kind(w[k])) /\ graph.reads[w[k]] # {}
                                 /\ graph.reads[w[k]] \subseteq {w[j] : j \in 1 .. k - 1}
       /\ graph.collects[it] \in {w[k] : k \in 2 .. Len(w)}
  BY <1>6, <1>7, <1>8 DEF IsChain, Kind
<1>13. ItemOf(it) = w[1]
  <2>1. w[1] \in Cpns /\ graph.parent[w[1]] = it
    BY <1>6, <1>7, <1>10
  <2>2. ASSUME NEW d \in Cpns, graph.parent[d] = it, Kind(d) \in {"iterationitem", "loopitem"}
        PROVE  d = w[1]
    <3>1. d # it
      BY <2>2 DEF Its
    <3>2. PICK k \in 1 .. Len(w) : d = w[k]
      BY <1>10, <2>2, <3>1
    <3>3. k \notin 2 .. Len(w)
      BY <1>12, <2>2, <3>2 DEF Ordinary
    <3> QED
      BY <1>7, <3>2, <3>3
  <2> QED
    BY <1>12, <2>1, <2>2 DEF ItemOf
<1>14. Track(it, w)
  <2>1. \A k \in 1 .. Len(w) : w[k] \in Cpns /\ graph.parent[w[k]] = it /\ w[k] # it
    BY <1>7, <1>10
  <2>2. \A c \in Cpns : graph.parent[c] = it /\ c # it => \E k \in 1 .. Len(w) : c = w[k]
    BY <1>10
  <2>3. \E k \in 2 .. Len(w) : graph.collects[it] = w[k]
    BY <1>12
  <2> HIDE DEF inside
  <2> QED
    BY <1>6, <1>7, <1>11, <1>12, <1>13, <2>1, <2>2, <2>3, Zenon DEF Track
<1> QED
  BY <1>14 DEF w

LEMMA OuterFacts ==
    ASSUME graph \in Graphs, GoesOneWay(graph)
    PROVE  /\ \A it \in Its : it \in Cpns /\ IsOuter(it)
           /\ \A c \in Cpns : ~IsOuter(c) => graph.parent[c] \in Its /\ graph.parent[c] # c
           /\ \A c \in Cpns : IsOuter(c) =>
                  /\ Kind(c) \notin {"iterationitem", "loopitem", "loop"} /\ Rank(c) \in Nat
                  /\ ~Branches(Kind(c)) => Len(graph.down[c]) <= 1
                  /\ \A d \in ToSet(graph.down[c]) : d \in Cpns /\ IsOuter(d) /\ Rank(c) < Rank(d)
<1> DEFINE n == Cardinality(Cpns)
           outer == OuterIn(graph)
<1>1. /\ n \in Nat /\ Its \subseteq outer /\ \A c \in Cpns \ outer : graph.parent[c] \in Its
      /\ \A c \in outer : ~Branches(Kind(c)) => Len(graph.down[c]) <= 1
      /\ \E rank \in [outer -> 1 .. n] : LeadsOnwards(graph, outer, rank)
  BY DEF GoesOneWay, Its, Cpns, Kind, OuterIn
<1>2. RankIn(graph) \in [outer -> 1 .. n] /\ LeadsOnwards(graph, outer, RankIn(graph))
  BY <1>1, Zenon DEF RankIn, Cpns
<1>3. \A c \in Cpns : c \in outer <=> IsOuter(c)
  BY DEF OuterIn, IsOuter, Cpns
<1>4. outer \subseteq Cpns
  BY DEF OuterIn, Cpns
<1>5. ASSUME NEW c \in outer PROVE Rank(c) \in Nat /\ Rank(c) \in 1 .. n
  BY <1>1, <1>2, <1>5 DEF Rank
<1>6. ASSUME NEW c \in outer
      PROVE  \A d \in ToSet(graph.down[c]) : d \in outer /\ Rank(c) < Rank(d)
  BY <1>2, <1>6 DEF LeadsOnwards, Rank
<1>7. ASSUME NEW c \in outer PROVE Kind(c) \notin {"iterationitem", "loopitem", "loop"}
  <2>1. c \in Cpns /\ graph.parent[c] = c
    BY <1>3, <1>4 DEF IsOuter
  <2>2. ASSUME Kind(c) = "loop" PROVE FALSE
    <3>1. PICK d \in Cpns : graph.parent[d] = c /\ Kind(d) \in {"iterationitem", "loopitem"}
      BY <2>1, <2>2, CanvasAssumption DEF IsCanvas, Cpns, Kind
    <3>2. d # c
      BY <2>2, <3>1
    <3>3. c \in Its
      BY <1>1, <1>3, <3>1, <3>2 DEF IsOuter
    <3> QED
      BY <2>2, <3>3 DEF Its
  <2> QED
    BY <2>1, <2>2, GraphFacts
<1> QED
  BY <1>1, <1>3, <1>4, <1>5, <1>6, <1>7 DEF IsOuter

\* What follows a component outside of iterations is further on.
LEMMA AfterOuter ==
    ASSUME graph \in Graphs, GoesOneWay(graph), ChosenOne, NEW c \in Cpns, IsOuter(c), c \notin Its
    PROVE  /\ Len(After(c)) <= 1
           /\ \A d \in ToSet(After(c)) : d \in Cpns /\ IsOuter(d) /\ Rank(c) < Rank(d)
<1>1. /\ Kind(c) \notin {"iterationitem", "loopitem", "loop", "iteration"} /\ graph.parent[c] = c
      /\ ~Branches(Kind(c)) => Len(graph.down[c]) <= 1
      /\ \A d \in ToSet(graph.down[c]) : d \in Cpns /\ IsOuter(d) /\ Rank(c) < Rank(d)
  BY OuterFacts DEF IsOuter, Its
<1>2. After(c) = IF Branches(Kind(c)) THEN chosen[c] ELSE graph.down[c]
  BY <1>1 DEF After, IsDone, Inside
<1> QED
  BY <1>1, <1>2 DEF ChosenOne

\* What follows a component of a chain.
LEMMA AfterInner ==
    ASSUME NEW it \in Its, NEW w, Track(it, w), NEW k \in 1 .. Len(w)
    PROVE  /\ k = 1 /\ index[w[1]] = -1 => After(w[k]) = graph.down[it]
           /\ k < Len(w) /\ (k = 1 => index[w[1]] # -1) => After(w[k]) = <<w[k + 1]>>
           /\ k = Len(w) => After(w[k]) = <<w[1]>>
<1>1. /\ Len(w) \in Nat /\ Len(w) >= 2 /\ graph.parent[w[k]] = it /\ w[k] # it
      /\ graph.down[w[k]] = IF k = Len(w) THEN <<>> ELSE <<w[k + 1]>>
      /\ Kind(w[1]) = "iterationitem" /\ ItemOf(it) = w[1] /\ (k # 1 => Ordinary(Kind(w[k])))
  BY DEF Track
<1>2. <<w[k + 1]>> # <<>>
  OBVIOUS
<1>3. CASE k = 1
  <2>1. k # Len(w) /\ w[k] = w[1]
    BY <1>1, <1>3
  <2>2. graph.down[w[k]] = <<w[k + 1]>>
    BY <1>1, <2>1
  <2>3. /\ index[w[1]] = -1 => After(w[k]) = graph.down[it]
        /\ index[w[1]] # -1 => After(w[k]) = graph.down[w[k]]
    BY <1>1, <1>2, <2>1, <2>2 DEF After, IsDone, Branches
  <2> QED
    BY <1>3, <2>1, <2>2, <2>3
<1>4. CASE k # 1
  <2>1. /\ Kind(w[k]) \notin {"iterationitem", "loopitem", "iteration", "loop", "exitloop"}
        /\ ~Branches(Kind(w[k]))
    BY <1>1, <1>4 DEF Ordinary, Branches
  <2>2. After(w[k]) = IF graph.down[w[k]] = <<>> THEN <<w[1]>> ELSE graph.down[w[k]]
    BY <1>1, <2>1 DEF After, IsDone
  <2> QED
    BY <1>1, <1>2, <1>4, <2>2
<1> QED
  BY <1>3, <1>4

\* An iteration in its n-th round, the first k places of its chain w behind it.  Every place
\* has run once per round, on what was made in that round.
Rows(c, n) == [i \in 1 .. n |-> [r \in graph.reads[c] |-> i]]
RoundAt(it, w, k, n) ==
    /\ index[w[1]] = n /\ out[w[1]] = n /\ result[it] = [i \in 1 .. n - 1 |-> i]
    /\ \A j \in 2 .. Len(w) : handled[w[j]] = Rows(w[j], IF j <= k THEN n ELSE n - 1)
    /\ \A j \in 2 .. k : out[w[j]] = n
RoundsOver(it, w) ==
    /\ index[w[1]] = -1 /\ result[it] = ItemsInOrder
    /\ \A j \in 2 .. Len(w) : handled[w[j]] = Rows(w[j], Items)
InRound(it, w, k) == \E n \in 1 .. Items : RoundAt(it, w, k, n)
Fresh(it, w) == RoundAt(it, w, Len(w), 0)
Steady(it, w) == RoundsOver(it, w) \/ Fresh(it, w) \/ \E k \in 1 .. Len(w) : InRound(it, w, k)

\* Iterations that c may still lead to, itself included.
ToCome(c, it) == IF IsOuter(c) THEN Rank(c) <= Rank(it) ELSE Rank(graph.parent[c]) < Rank(it)
Ahead(c) == \A it \in Its : ToCome(c, it) => Fresh(it, Chain(it))
\* c is about to run, or has just run.
Due(c) == /\ Ahead(c)
          /\ \A it \in Its : \A k \in 1 .. Len(Chain(it)) : c = Chain(it)[k] =>
                 IF k = 1 THEN Fresh(it, Chain(it)) \/ InRound(it, Chain(it), Len(Chain(it)))
                          ELSE InRound(it, Chain(it), k - 1)
Done(c) == /\ Ahead(c)
           /\ \A it \in Its : \A k \in 1 .. Len(Chain(it)) : c = Chain(it)[k] =>
                 (k = 1 /\ RoundsOver(it, Chain(it))) \/ InRound(it, Chain(it), k)

LEMMA Apart ==
    ASSUME NEW it \in Its, NEW w, Track(it, w), NEW k \in 1 .. Len(w)
    PROVE  w[k] \in Cpns /\ ~IsOuter(w[k]) /\ graph.parent[w[k]] = it
  BY DEF Track, IsOuter

LEMMA NextDue ==
    ASSUME graph \in Graphs, GoesOneWay(graph), ChosenOne, NEW c \in Cpns, Done(c),
           NEW d \in ToSet(After(c))
    PROVE  d \in Cpns /\ Due(d)
<1>1. \A it \in Its : it \in Cpns /\ IsOuter(it) /\ Rank(it) \in Nat /\ Track(it, Chain(it))
  BY ChainFacts, OuterFacts
<1>2. \A it \in Its : \A k \in 1 .. Len(Chain(it)) :
          Chain(it)[k] \in Cpns /\ ~IsOuter(Chain(it)[k]) /\ graph.parent[Chain(it)[k]] = it
  BY <1>1, Apart
<1>3. ASSUME NEW x \in Cpns, IsOuter(x), d \in Cpns, IsOuter(d), Rank(x) < Rank(d),
             \A it \in Its : Rank(x) < Rank(it) => Fresh(it, Chain(it))
      PROVE  Due(d)
  <2>1. Rank(x) \in Nat /\ Rank(d) \in Nat
    BY <1>3, OuterFacts
  <2>2. Ahead(d)
    BY <1>1, <1>3, <2>1 DEF Ahead, ToCome
  <2> QED
    BY <1>2, <1>3, <2>2 DEF Due
<1>4. CASE IsOuter(c) /\ c \notin Its
  <2>1. d \in Cpns /\ IsOuter(d) /\ Rank(c) < Rank(d)
    BY <1>4, AfterOuter
  <2>2. \A it \in Its : Rank(c) < Rank(it) => Fresh(it, Chain(it))
    <3>1. Rank(c) \in Nat
      BY <1>4, OuterFacts
    <3> QED
      BY <1>1, <1>4, <3>1 DEF Done, Ahead, ToCome
  <2> QED
    BY <1>3, <1>4, <2>1, <2>2
<1>5. CASE c \in Its
  <2> DEFINE w == Chain(c)
  <2>1. Track(c, w) /\ IsOuter(c) /\ Rank(c) \in Nat
    BY <1>1, <1>5
  <2> HIDE DEF w
  <2>2. After(c) = <<w[1]>>
    BY <1>5, <2>1 DEF Its, After, IsDone, Branches, Track
  <2>3. d = w[1] /\ 1 \in 1 .. Len(w)
    BY <2>1, <2>2 DEF ToSet, Track
  <2>4. d \in Cpns /\ ~IsOuter(d) /\ graph.parent[d] = c
    BY <1>5, <2>1, <2>3, Apart
  <2>5. Ahead(d) /\ Fresh(c, w)
    <3>1. \A it \in Its : Rank(c) < Rank(it) => Rank(c) <= Rank(it)
      BY <1>1, <2>1
    <3>2. ToCome(c, c)
      BY <2>1 DEF ToCome
    <3> QED
      BY <1>5, <2>1, <2>4, <3>1, <3>2 DEF Done, Ahead, ToCome, w
  <2>6. ASSUME NEW it \in Its, NEW k \in 1 .. Len(Chain(it)), d = Chain(it)[k]
        PROVE  it = c /\ k = 1
    <3>1. it = c
      BY <1>2, <2>4, <2>6
    <3> QED
      BY <2>1, <2>3, <2>6, <3>1 DEF Track, w
  <2> QED
    BY <2>4, <2>5, <2>6 DEF Due, w
<1>6. CASE ~IsOuter(c)
  <2> DEFINE it == graph.parent[c]
             w == Chain(it)
  <2>1. it \in Its /\ it # c /\ Track(it, w) /\ IsOuter(it) /\ Rank(it) \in Nat
    BY <1>1, <1>6, OuterFacts
  <2> HIDE DEF w
  <2>2. PICK k \in 1 .. Len(w) : c = w[k]
    BY <2>1 DEF Track
  <2>3. Len(w) \in Nat /\ Len(w) >= 2
    BY <2>1 DEF Track
  <2>4. (k = 1 /\ RoundsOver(it, w)) \/ InRound(it, w, k)
    BY <2>1, <2>2 DEF Done, w
  <2>5. \A j \in Its : Rank(it) < Rank(j) => Fresh(j, Chain(j))
    BY <1>6 DEF Done, Ahead, ToCome
  <2>6. CASE k = 1 /\ index[w[1]] = -1
    <3>1. d \in ToSet(graph.down[it])
      BY <2>1, <2>2, <2>6, AfterInner
    <3>2. d \in Cpns /\ IsOuter(d) /\ Rank(it) < Rank(d)
      BY <2>1, <3>1, OuterFacts DEF Its
    <3> QED
      BY <1>3, <2>1, <2>5, <3>2 DEF Its
  <2>7. ASSUME NEW i \in 1 .. Len(w), After(c) = <<w[i]>>,
               IF i = 1 THEN InRound(it, w, Len(w)) ELSE InRound(it, w, i - 1)
        PROVE  d \in Cpns /\ Due(d)
    <3>1. d = w[i]
      BY <2>7 DEF ToSet
    <3>2. d \in Cpns /\ ~IsOuter(d) /\ graph.parent[d] = it
      BY <2>1, <3>1, Apart
    <3>3. Ahead(d)
      BY <2>5, <3>2 DEF Ahead, ToCome
    <3>4. ASSUME NEW j \in Its, NEW m \in 1 .. Len(Chain(j)), d = Chain(j)[m]
          PROVE  j = it /\ m = i
      <4>1. j = it
        BY <1>2, <3>2, <3>4
      <4> QED
        BY <2>1, <3>1, <3>4, <4>1 DEF Track, w
    <3>5. Due(d)
      BY <2>7, <3>3, <3>4 DEF Due, w
    <3> QED
      BY <3>2, <3>5
  <2>8. CASE k = 1 /\ index[w[1]] # -1
    <3>1. InRound(it, w, 1) /\ After(c) = <<w[2]>> /\ 2 \in 1 .. Len(w)
      BY <2>1, <2>2, <2>3, <2>4, <2>8, AfterInner DEF RoundsOver
    <3> QED
      BY <2>7, <3>1
  <2>9. CASE k # 1 /\ k < Len(w)
    <3>1. InRound(it, w, k) /\ After(c) = <<w[k + 1]>> /\ k + 1 \in 1 .. Len(w)
      BY <2>1, <2>2, <2>3, <2>4, <2>9, AfterInner
    <3>2. (k + 1) - 1 = k /\ k + 1 # 1
      BY <2>9
    <3> QED
      BY <2>7, <3>1, <3>2
  <2>10. CASE k # 1 /\ k = Len(w)
    <3>1. InRound(it, w, Len(w)) /\ After(c) = <<w[1]>> /\ 1 \in 1 .. Len(w)
      BY <2>1, <2>2, <2>3, <2>4, <2>10, AfterInner
    <3> QED
      BY <2>7, <3>1
  <2> QED
    BY <2>2, <2>3, <2>6, <2>8, <2>9, <2>10
<1> QED
  BY <1>1, <1>4, <1>5, <1>6

LEMMA GraphStays ==
    ASSUME UNCHANGED graph
    PROVE  /\ Cpns' = Cpns /\ Its' = Its /\ \A it : Chain(it)' = Chain(it)
           /\ \A c : Kind(c)' = Kind(c) /\ IsOuter(c)' = IsOuter(c) /\ Rank(c)' = Rank(c)
           /\ \A c, it : ToCome(c, it)' = ToCome(c, it)
  BY DEF Cpns, Its, Chain, Kind, IsOuter, Rank, ToCome

\* An iteration stays where it is when nothing of its chain runs.
LEMMA ChainStays ==
    ASSUME NEW it, NEW w, Track(it, w), UNCHANGED graph, result'[it] = result[it],
           \A j \in 1 .. Len(w) :
               out'[w[j]] = out[w[j]] /\ index'[w[j]] = index[w[j]] /\ handled'[w[j]] = handled[w[j]]
    PROVE  /\ \A k \in 1 .. Len(w) : InRound(it, w, k) => InRound(it, w, k)'
           /\ RoundsOver(it, w) => RoundsOver(it, w)'
           /\ Fresh(it, w) => Fresh(it, w)'
           /\ Steady(it, w) => Steady(it, w)'
<1>1. Len(w) \in Nat /\ Len(w) >= 2 /\ 1 \in 1 .. Len(w) /\ Len(w) \in 1 .. Len(w)
  BY DEF Track
<1>2. \A j \in 2 .. Len(w) : j \in 1 .. Len(w)
  BY <1>1
<1>3. ASSUME NEW k \in 1 .. Len(w), NEW n, RoundAt(it, w, k, n) PROVE RoundAt(it, w, k, n)'
  <2>1. \A j \in 2 .. k : j \in 1 .. Len(w)
    BY <1>1
  <2>2. \A j \in 2 .. Len(w) : handled'[w[j]] = handled[w[j]]
    BY <1>2
  <2>3. \A j \in 2 .. k : out'[w[j]] = out[w[j]]
    BY <2>1
  <2>4. index'[w[1]] = n /\ out'[w[1]] = n /\ result'[it] = [i \in 1 .. n - 1 |-> i]
    BY <1>1, <1>3 DEF RoundAt
  <2>5. \A j \in 2 .. Len(w) : handled'[w[j]] = Rows(w[j], IF j <= k THEN n ELSE n - 1)
    BY <1>3, <2>2 DEF RoundAt
  <2>6. \A j \in 2 .. k : out'[w[j]] = n
    BY <1>3, <2>3 DEF RoundAt
  <2>7. \A c, i : Rows(c, i)' = Rows(c, i)
    BY DEF Rows
  <2> QED
    BY <2>4, <2>5, <2>6, <2>7 DEF RoundAt
<1>4. RoundsOver(it, w) => RoundsOver(it, w)'
  <2>1. \A c, i : Rows(c, i)' = Rows(c, i)
    BY DEF Rows
  <2> QED
    BY <1>1, <1>2, <2>1 DEF RoundsOver
<1>5. \A k \in 1 .. Len(w) : InRound(it, w, k) => InRound(it, w, k)'
  BY <1>3 DEF InRound
<1>6. Fresh(it, w) => Fresh(it, w)'
  BY <1>1, <1>3 DEF Fresh
<1> QED
  BY <1>4, <1>5, <1>6 DEF Steady

LEMMA GrowsTo ==
    ASSUME NEW n \in Nat \ {0}, NEW V, NEW f \in [1 .. n - 1 -> V], NEW g \in [1 .. n -> V],
           \A i \in 1 .. n - 1 : f[i] = g[i], NEW v \in V, g[n] = v
    PROVE  Append(f, v) = g
<1>1. n - 1 \in Nat
  OBVIOUS
<1>2. f \in Seq(V) /\ Len(f) = n - 1
  BY <1>1
<1>3. g \in Seq(V) /\ Len(g) = n
  OBVIOUS
<1>4. Append(f, v) \in Seq(V) /\ Len(Append(f, v)) = n /\ \A i \in 1 .. n : Append(f, v)[i] = g[i]
  BY <1>2
<1> QED
  BY <1>3, <1>4

\* A component of a chain runs.
LEMMA PlaceRuns ==
    ASSUME CanvasTypes, NEW it \in Its, NEW w, Track(it, w), NEW k \in 2 .. Len(w),
           InRound(it, w, k - 1),
           UNCHANGED <<graph, index, result>>, handled = [c \in Cpns |-> handled[c]],
           out' = [out EXCEPT ![w[k]] = MadeFrom(InputOf(w[k]))],
           handled' = [handled EXCEPT ![w[k]] = Append(@, InputOf(w[k]))]
    PROVE  InRound(it, w, k)'
<1> DEFINE c == w[k]
<1>1. PICK n \in 1 .. Items : RoundAt(it, w, k - 1, n)
  BY DEF InRound
<1>2. /\ Len(w) \in Nat /\ Len(w) >= 2 /\ \A j \in 1 .. Len(w) : w[j] \in Cpns
      /\ \A i, j \in 1 .. Len(w) : w[i] = w[j] => i = j
      /\ graph.reads[c] # {} /\ graph.reads[c] \subseteq {w[j] : j \in 1 .. k - 1}
  BY DEF Track
<1>3. k \in 1 .. Len(w) /\ k \in Nat /\ k - 1 \in Nat /\ n \in Nat /\ n # 0 /\ c \in Cpns
  BY <1>2, CanvasAssumption
<1>4. \A j \in 1 .. k - 1 : out[w[j]] = n
  <2>1. \A j \in 1 .. k - 1 : j = 1 \/ j \in 2 .. k - 1
    BY <1>3
  <2> QED
    BY <1>1, <2>1 DEF RoundAt
<1>5. InputOf(c) = [r \in graph.reads[c] |-> n]
  <2>1. \A r \in graph.reads[c] : out[r] = n
    BY <1>2, <1>4
  <2> QED
    BY <2>1 DEF InputOf
<1>6. MadeFrom(InputOf(c)) = n
  <2> DEFINE input == [r \in graph.reads[c] |-> n]
             read == {input[r] : r \in DOMAIN input} \ {Nothing}
  <2>1. read = {n}
    BY <1>2, <1>3 DEF Nothing
  <2>2. MadeFrom(input) = IF read = {} THEN 1 ELSE CHOOSE v \in read : TRUE
    BY DEF MadeFrom
  <2> HIDE DEF read
  <2>3. MadeFrom(input) = n
    BY <2>1, <2>2
  <2> QED
    BY <1>5, <2>3
<1>7. \A j \in 1 .. Len(w) : j # k => w[j] # c
  BY <1>2, <1>3
<1>8. out'[c] = n /\ \A j \in 1 .. Len(w) : j # k => out'[w[j]] = out[w[j]]
  BY <1>2, <1>3, <1>6, <1>7 DEF CanvasTypes
<1>9. handled[c] = Rows(c, n - 1)
  <2>1. ~(k <= k - 1)
    BY <1>3
  <2> QED
    BY <1>1, <2>1 DEF RoundAt
<1>10. handled'[c] = Rows(c, n) /\ \A j \in 2 .. Len(w) : j # k => handled'[w[j]] = handled[w[j]]
  <2>1. handled'[c] = Append(handled[c], InputOf(c))
    BY <1>3
  <2>2. Append(Rows(c, n - 1), [r \in graph.reads[c] |-> n]) = Rows(c, n)
    <3> DEFINE row(i) == [r \in graph.reads[c] |-> i]
               V == {row(i) : i \in 1 .. n}
               before == Rows(c, n - 1)
               after == Rows(c, n)
    <3>1. before = [i \in 1 .. n - 1 |-> row(i)] /\ after = [i \in 1 .. n |-> row(i)]
      BY DEF Rows
    <3> HIDE DEF row, before, after
    <3>2. before \in [1 .. n - 1 -> V] /\ after \in [1 .. n -> V]
      <4>1. \A i \in 1 .. n : row(i) \in V
        OBVIOUS
      <4> HIDE DEF V
      <4>2. \A i \in 1 .. n - 1 : i \in 1 .. n
        BY <1>3
      <4> QED
        BY <3>1, <4>1, <4>2
    <3>3. \A i \in 1 .. n - 1 : before[i] = after[i]
      BY <1>3, <3>1
    <3>4. after[n] = row(n) /\ row(n) \in V
      BY <1>3, <3>1
    <3> HIDE DEF V
    <3>5. Append(before, row(n)) = after
      BY <1>3, <3>2, <3>3, <3>4, GrowsTo
    <3> QED
      BY <3>5 DEF row, before, after
  <2>3. \A j \in 2 .. Len(w) : j # k => handled'[w[j]] = handled[w[j]]
    <3>1. \A j \in 2 .. Len(w) : j \in 1 .. Len(w)
      BY <1>2
    <3> QED
      BY <1>2, <1>7, <3>1
  <2> QED
    BY <1>5, <1>9, <2>1, <2>2, <2>3
<1>11. RoundAt(it, w, k, n)'
  <2>1. index'[w[1]] = n /\ out'[w[1]] = n /\ result'[it] = [i \in 1 .. n - 1 |-> i]
    BY <1>1, <1>2, <1>3, <1>8 DEF RoundAt
  <2>2. \A x, i : Rows(x, i)' = Rows(x, i)
    BY DEF Rows
  <2>3. \A j \in 2 .. Len(w) : handled'[w[j]] = Rows(w[j], IF j <= k THEN n ELSE n - 1)
    <3>1. \A j \in 2 .. Len(w) : j # k => (j <= k <=> j <= k - 1)
      BY <1>3
    <3>2. \A j \in 2 .. Len(w) : handled[w[j]] = Rows(w[j], IF j <= k - 1 THEN n ELSE n - 1)
      BY <1>1 DEF RoundAt
    <3> QED
      BY <1>3, <1>10, <3>1, <3>2
  <2>4. \A j \in 2 .. k : out'[w[j]] = n
    <3>1. \A j \in 2 .. k : j \in 1 .. Len(w) /\ (j = k \/ j \in 2 .. k - 1)
      BY <1>2, <1>3
    <3>2. \A j \in 2 .. k - 1 : out[w[j]] = n /\ j # k
      BY <1>1, <1>3 DEF RoundAt
    <3> QED
      BY <1>8, <3>1, <3>2
  <2> QED
    BY <2>1, <2>2, <2>3, <2>4 DEF RoundAt
<1> QED
  BY <1>11 DEF InRound

Functional == handled = [c \in Cpns |-> handled[c]] /\ result = [c \in Cpns |-> result[c]]

LEMMA OneMoreItem ==
    ASSUME NEW n \in Nat
    PROVE  (IF n > 0 THEN Append([i \in 1 .. n - 1 |-> i], n) ELSE [i \in 1 .. n - 1 |-> i])
               = [i \in 1 .. n |-> i]
<1>1. CASE n > 0
  <2> DEFINE f == [i \in 1 .. n - 1 |-> i]
             g == [i \in 1 .. n |-> i]
  <2>1. f \in [1 .. n - 1 -> Nat] /\ g \in [1 .. n -> Nat] /\ g[n] = n
        /\ \A i \in 1 .. n - 1 : f[i] = g[i]
    BY <1>1
  <2> HIDE DEF f, g
  <2>2. Append(f, n) = g
    BY <1>1, <2>1, GrowsTo
  <2> QED
    BY <1>1, <2>2 DEF f, g
<1>2. CASE ~(n > 0)
  <2>1. 1 .. n - 1 = {} /\ 1 .. n = {}
    BY <1>2
  <2> QED
    BY <1>2, <2>1
<1> QED
  BY <1>1, <1>2

\* What a task of an iteration's item leaves as it is.
LEMMA ItemTouches ==
    ASSUME CanvasTypes, Functional, NEW it \in Its, NEW w, Track(it, w), NEW t, EndItem(t), t.cpn = w[1]
    PROVE  /\ UNCHANGED graph
           /\ \A c \in Cpns : c # it => result'[c] = result[c]
           /\ \A c \in Cpns : c # it /\ c # w[1] => out'[c] = out[c]
           /\ \A c \in Cpns : c # w[1] => index'[c] = index[c] /\ handled'[c] = handled[c]
<1>1. graph.parent[w[1]] = it /\ w[1] \in Cpns /\ it \in Cpns /\ w[1] # it
  BY DEF Track, Its
<1> DEFINE i == index[w[1]]
           collected == IF Collects(i) THEN [out EXCEPT ![it] = 1] ELSE out
<1>2. /\ UNCHANGED graph
      /\ handled' = [handled EXCEPT ![w[1]] = Append(@, t.input)]
      /\ result' = IF Collects(i)
                      THEN [result EXCEPT ![it] = Append(@, out[graph.collects[it]])] ELSE result
      /\ IF ItemsOver(i)
           THEN Put(index, w[1], -1) /\ out' = collected
           ELSE Put(index, w[1], i + 1) /\ out' = [collected EXCEPT ![w[1]] = IF i < 0 THEN Items ELSE i + 1]
  BY <1>1 DEF EndItem, EndsTask
<1>3. \A c \in Cpns : c # it => collected[c] = out[c]
  BY DEF CanvasTypes
<1>4. collected \in [Cpns -> Nat]
  BY DEF CanvasTypes
<1> HIDE DEF collected
<1>5. \A c \in Cpns : c # it /\ c # w[1] => out'[c] = out[c]
  BY <1>2, <1>3, <1>4
<1>6. \A c \in Cpns : c # w[1] => index'[c] = index[c]
  BY <1>2 DEF Put, CanvasTypes
<1>7. \A c \in Cpns : c # w[1] => handled'[c] = handled[c]
  BY <1>2 DEF Functional
<1>8. \A c \in Cpns : c # it => result'[c] = result[c]
  BY <1>2 DEF Functional
<1> QED
  BY <1>2, <1>5, <1>6, <1>7, <1>8

\* An iteration's item runs before the first and after every round.
LEMMA ItemRuns ==
    ASSUME CanvasTypes, Functional, NEW it \in Its, NEW w, Track(it, w), NEW t, EndItem(t), t.cpn = w[1],
           Fresh(it, w) \/ InRound(it, w, Len(w))
    PROVE  RoundsOver(it, w)' \/ InRound(it, w, 1)'
<1>1. PICK n \in 0 .. Items : RoundAt(it, w, Len(w), n)
  BY CanvasAssumption DEF Fresh, InRound
<1>2. /\ Len(w) \in Nat /\ Len(w) >= 2 /\ \A j \in 1 .. Len(w) : w[j] \in Cpns /\ w[j] # it
      /\ \A i, j \in 1 .. Len(w) : w[i] = w[j] => i = j
      /\ graph.parent[w[1]] = it
  BY DEF Track
<1>3. n \in Nat /\ Items \in Nat /\ it \in Cpns /\ 1 \in 1 .. Len(w) /\ w[1] \in Cpns
  BY <1>2, CanvasAssumption DEF Its
<1>4. \A j \in 2 .. Len(w) : j \in 1 .. Len(w) /\ w[j] \in Cpns /\ w[j] # it /\ w[j] # w[1] /\ j <= Len(w)
  BY <1>2, <1>3
<1>5. out[graph.collects[it]] = n
  <2>1. PICK k \in 2 .. Len(w) : graph.collects[it] = w[k]
    BY DEF Track
  <2> QED
    BY <1>1, <2>1 DEF RoundAt
<1>6. index[w[1]] = n /\ out[w[1]] = n /\ result[it] = [i \in 1 .. n - 1 |-> i]
  BY <1>1 DEF RoundAt
<1> DEFINE collected == IF n > 0 THEN [out EXCEPT ![it] = 1] ELSE out
<1>7. /\ result' = IF n > 0 THEN [result EXCEPT ![it] = Append(@, n)] ELSE result
      /\ IF n >= Items
           THEN index' = [index EXCEPT ![w[1]] = -1]
           ELSE index' = [index EXCEPT ![w[1]] = n + 1] /\ out' = [collected EXCEPT ![w[1]] = n + 1]
  BY <1>2, <1>3, <1>5, <1>6 DEF EndItem, Collects, ItemsOver, Put
<1>8. result'[it] = [i \in 1 .. n |-> i]
  <2>1. result'[it] = IF n > 0 THEN Append(result[it], n) ELSE result[it]
    BY <1>3, <1>7 DEF Functional
  <2> QED
    BY <1>3, <1>6, <2>1, OneMoreItem
<1>9. \A j \in 2 .. Len(w) : handled'[w[j]] = Rows(w[j], n)
  <2>1. \A j \in 2 .. Len(w) : handled'[w[j]] = handled[w[j]]
    BY <1>4, ItemTouches
  <2> QED
    BY <1>1, <1>4, <2>1 DEF RoundAt
<1>10. \A x, i : Rows(x, i)' = Rows(x, i)
  BY ItemTouches DEF Rows
<1>11. CASE n >= Items
  <2>1. n = Items
    BY <1>3, <1>11
  <2>2. index'[w[1]] = -1
    BY <1>3, <1>7, <1>11 DEF CanvasTypes
  <2> QED
    BY <1>8, <1>9, <1>10, <2>1, <2>2 DEF RoundsOver, ItemsInOrder
<1>12. CASE ~(n >= Items)
  <2>1. n + 1 \in 1 .. Items /\ (n + 1) - 1 = n
    BY <1>3, <1>12
  <2>2. collected \in [Cpns -> Nat]
    BY <1>3 DEF CanvasTypes
  <2> HIDE DEF collected
  <2>3. index'[w[1]] = n + 1 /\ out'[w[1]] = n + 1
    BY <1>3, <1>7, <1>12, <2>2 DEF CanvasTypes
  <2>4. \A j \in 2 .. Len(w) : ~(j <= 1)
    BY <1>3
  <2>5. \A j \in 2 .. Len(w) : handled'[w[j]] = Rows(w[j], IF j <= 1 THEN n + 1 ELSE (n + 1) - 1)
    BY <1>9, <2>1, <2>4
  <2>6. \A j \in 2 .. 1 : out'[w[j]] = n + 1
    OBVIOUS
  <2>7. RoundAt(it, w, 1, n + 1)'
    BY <1>8, <1>10, <2>1, <2>3, <2>5, <2>6 DEF RoundAt
  <2> QED
    BY <2>1, <2>7 DEF InRound
<1> QED
  BY <1>11, <1>12

-----------------------------------------------------------------------------
(* Control is at the end of the path.                                           *)

At == path[Len(path)]
OneAtATime == /\ \A t, u \in tasks : t = u
              /\ phase # "rest" => Len(path) <= idx + 1
Where ==
    idx < Len(path) =>
        /\ phase = "next" => Due(At)
        /\ phase = "batch" /\ tasks # {} => Due(At) /\ \A t \in tasks : t.input = InputOf(At)
        /\ phase = "batch" /\ tasks = {} => Done(At)
Settled == \A it \in Its : Steady(it, Chain(it))
ChainInv == Undisturbed => Functional /\ ChosenOne /\ Settled /\ OneAtATime /\ Where
OneWayInv == GoesOneWay(graph) => ChainInv

LEMMA SameRounds ==
    ASSUME UNCHANGED <<graph, out, index, result, handled>>
    PROVE  /\ \A c : Due(c)' = Due(c) /\ Done(c)' = Done(c)
           /\ Settled' = Settled /\ Functional' = Functional
<1>1. \A it, w, k, n : RoundAt(it, w, k, n)' = RoundAt(it, w, k, n)
  BY DEF RoundAt, Rows
<1>2. \A it, w : RoundsOver(it, w)' = RoundsOver(it, w)
  BY DEF RoundsOver, Rows
<1>3. /\ \A it, w, k : InRound(it, w, k)' = InRound(it, w, k)
      /\ \A it, w : Fresh(it, w)' = Fresh(it, w)
  BY <1>1 DEF InRound, Fresh
<1>4. \A it, w : Steady(it, w)' = Steady(it, w)
  BY <1>2, <1>3 DEF Steady
<1>5. \A c : Ahead(c)' = Ahead(c)
  BY <1>3, GraphStays DEF Ahead
<1>6. \A c : Due(c)' = Due(c)
  BY <1>3, <1>5, GraphStays DEF Due
<1>7. \A c : Done(c)' = Done(c)
  BY <1>2, <1>3, <1>5, GraphStays DEF Done
<1>8. Settled' = Settled /\ Functional' = Functional
  BY <1>4, GraphStays DEF Settled, Functional
<1> QED
  BY <1>6, <1>7, <1>8

\* One component follows.
LEMMA AfterOne ==
    ASSUME CanvasTypes, GoesOneWay(graph), ChosenOne, NEW c \in Cpns
    PROVE  /\ After(c) \in Paths /\ Len(After(c)) <= 1
           /\ \A d, e \in ToSet(After(c)) : d = e
<1>1. graph \in Graphs
  BY DEF CanvasTypes
<1>2. After(c) \in Paths
  BY AfterIsPath
<1>3. Len(After(c)) <= 1
  <2>1. CASE IsOuter(c) /\ c \notin Its
    BY <1>1, <2>1, AfterOuter
  <2>2. CASE c \in Its
    <3>1. After(c) = <<ItemOf(c)>>
      BY <2>2 DEF Its, After, IsDone, Branches
    <3> QED
      BY <3>1
  <2>3. CASE ~IsOuter(c)
    <3> DEFINE it == graph.parent[c]
               w == Chain(it)
    <3>1. it \in Its /\ it # c
      BY <1>1, <2>3, OuterFacts
    <3>2. Track(it, w) /\ Len(graph.down[it]) <= 1
      <4>1. it \in Cpns /\ IsOuter(it) /\ ~Branches(Kind(it))
        BY <1>1, <3>1, OuterFacts DEF Its, Branches
      <4> QED
        BY <1>1, <3>1, <4>1, ChainFacts, OuterFacts
    <3> HIDE DEF w
    <3>3. PICK k \in 1 .. Len(w) : c = w[k]
      BY <3>1, <3>2 DEF Track
    <3>4. After(c) = graph.down[it] \/ After(c) = <<w[k + 1]>> \/ After(c) = <<w[1]>>
      <4>1. Len(w) \in Nat /\ Len(w) >= 2
        BY <3>2 DEF Track
      <4> QED
        BY <3>1, <3>2, <3>3, <4>1, AfterInner
    <3>5. CASE After(c) = graph.down[it]
      BY <3>2, <3>5
    <3>6. ASSUME NEW d, After(c) = <<d>> PROVE Len(After(c)) <= 1
      BY <3>6
    <3> QED
      BY <3>4, <3>5, <3>6
  <2> QED
    BY <2>1, <2>2, <2>3 DEF Its, IsOuter
<1>4. Len(After(c)) \in Nat /\ ToSet(After(c)) = {After(c)[k] : k \in 1 .. Len(After(c))}
  BY <1>2, InSequence, Members DEF Paths
<1>5. \A j, k \in 1 .. Len(After(c)) : j = k
  BY <1>3, <1>4
<1> QED
  BY <1>2, <1>3, <1>4, <1>5

\* What a batch of one component is followed by.
LEMMA BatchFollowed ==
    ASSUME CanvasTypes, GoesOneWay(graph), ChosenOne, failed = {}, Len(path) <= idx + 1, phase = "batch"
    PROVE  LET p == Walk(Goes, path, SubSeq(path, idx + 1, Len(path)))
           IN  \/ p = path
               \/ idx < Len(path) /\ At \in Cpns /\ \E d \in ToSet(After(At)) : d \in Cpns /\ p = Append(path, d)
<1> DEFINE cs == SubSeq(path, idx + 1, Len(path))
<1>1. path \in Paths /\ Len(path) \in Nat /\ idx \in Nat /\ idx <= Len(path)
  BY InSequence DEF CanvasTypes, Paths
<1>2. CASE idx = Len(path)
  <2>1. Len(cs) = 0 /\ Len(cs) \in Nat
    BY <1>1, <1>2 DEF Paths
  <2> HIDE DEF cs
  <2>2. Walk(Goes, path, cs) \in {path}
    <3> DEFINE G == {path}
    <3>1. path \in G /\ \A q \in G, k \in 1 .. Len(cs) : Goes(q, cs[k]) \in G
      BY <2>1
    <3> HIDE DEF G
    <3>2. Walk(Goes, path, cs) \in G
      BY <2>1, <3>1, WalkGoes
    <3> QED
      BY <3>2 DEF G
  <2> QED
    BY <2>2 DEF cs
<1>3. CASE idx < Len(path)
  <2> DEFINE c == path[Len(path)]
             G == {path} \cup {Append(path, d) : d \in ToSet(After(c))}
  <2>1. Len(path) = idx + 1 /\ Len(path) \in 1 .. Len(path) /\ c \in Cpns
    <3>1. Len(path) = idx + 1 /\ Len(path) \in 1 .. Len(path)
      BY <1>1, <1>3
    <3> QED
      BY <1>1, <3>1, InSequence DEF Paths
  <2>2. Len(cs) = 1 /\ cs[1] = c
    BY <1>1, <2>1 DEF Paths
  <2>3. After(c) \in Paths /\ Len(After(c)) \in Nat /\ (\A d, e \in ToSet(After(c)) : d = e)
        /\ ToSet(After(c)) \subseteq Cpns /\ \A k \in 1 .. Len(After(c)) : After(c)[k] \in ToSet(After(c))
    <3>1. After(c) \in Paths /\ (\A d, e \in ToSet(After(c)) : d = e)
      BY <2>1, AfterOne
    <3> HIDE DEF c
    <3> QED
      BY <3>1, InSequence, Members DEF Paths
  <2> HIDE DEF cs, c
  <2>4. ASSUME NEW q \in G, NEW d \in ToSet(After(c)) PROVE AppendNew(q, d) \in G
    <3>1. CASE q = path
      BY <2>4, <3>1 DEF AppendNew
    <3>2. ASSUME NEW e \in ToSet(After(c)), q = Append(path, e) PROVE AppendNew(q, d) \in G
      <4>1. e = d /\ e \in Cpns
        BY <2>3, <2>4, <3>2
      <4>2. Last(q) = d
        BY <1>1, <3>2, <4>1 DEF Last, Paths
      <4> QED
        BY <2>4, <4>2 DEF AppendNew
    <3> QED
      BY <2>4, <3>1, <3>2
  <2>5. path \in G
    OBVIOUS
  <2> HIDE DEF G
  <2>6. ASSUME NEW q \in G PROVE Goes(q, c) \in G
    <3>1. \A r \in G, k \in 1 .. Len(After(c)) : AppendNew(r, After(c)[k]) \in G
      BY <2>3, <2>4
    <3>2. Walk(AppendNew, q, After(c)) \in G
      BY <2>3, <2>6, <3>1, WalkAppendNew
    <3> QED
      BY <3>2 DEF Goes, Extend
  <2>7. Walk(Goes, path, cs) \in G
    <3>1. Len(cs) \in Nat /\ \A q \in G, k \in 1 .. Len(cs) : Goes(q, cs[k]) \in G
      BY <2>2, <2>6
    <3> QED
      BY <2>5, <3>1, WalkGoes
  <2> QED
    BY <1>3, <2>1, <2>3, <2>7 DEF At, G, c, cs
<1> QED
  BY <1>1, <1>2, <1>3

\* A component that stands for itself is in no chain.
LEMMA Unchained ==
    ASSUME graph \in Graphs, GoesOneWay(graph), NEW c, IsOuter(c)
    PROVE  \A it \in Its : \A k \in 1 .. Len(Chain(it)) : Chain(it)[k] # c
<1> SUFFICES ASSUME NEW it \in Its, NEW k \in 1 .. Len(Chain(it)) PROVE Chain(it)[k] # c
  OBVIOUS
<1>1. Track(it, Chain(it))
  BY ChainFacts
<1> QED
  BY <1>1, Apart

Blank == /\ graph \in Graphs /\ GoesOneWay(graph)
         /\ out = [c \in Cpns |-> Nothing] /\ index = [c \in Cpns |-> 0]
         /\ result = [c \in Cpns |-> <<>>] /\ handled = [c \in Cpns |-> <<>>]
         /\ chosen = [c \in Cpns |-> <<>>]
Begun == Functional /\ ChosenOne /\ Settled /\ \A c \in Cpns : IsOuter(c) => Due(c)

LEMMA NothingYet == Blank => Begun
<1> SUFFICES ASSUME Blank PROVE Begun
  OBVIOUS
<1>1. graph \in Graphs /\ GoesOneWay(graph)
  BY DEF Blank
<1>2. ASSUME NEW it \in Its PROVE Fresh(it, Chain(it))
  <2> DEFINE w == Chain(it)
  <2>1. Track(it, w)
    BY <1>1, ChainFacts
  <2> HIDE DEF w
  <2>2. /\ Len(w) \in Nat /\ Len(w) >= 2 /\ it \in Cpns /\ w[1] \in Cpns
        /\ \A j \in 2 .. Len(w) : w[j] \in Cpns /\ j <= Len(w)
    BY <2>1 DEF Track, Its
  <2>3. result[it] = [i \in 1 .. 0 - 1 |-> i]
    <3>1. 1 .. 0 - 1 = {}
      OBVIOUS
    <3>2. result[it] = <<>>
      BY <2>2 DEF Blank
    <3>3. [i \in 1 .. 0 - 1 |-> i] = <<>>
      BY <3>1
    <3> QED
      BY <3>2, <3>3
  <2>4. \A c : Rows(c, 0) = <<>>
    BY DEF Rows
  <2>5. \A j \in 2 .. Len(w) : handled[w[j]] = Rows(w[j], IF j <= Len(w) THEN 0 ELSE 0 - 1)
    BY <2>2, <2>4 DEF Blank
  <2>6. \A j \in 2 .. Len(w) : out[w[j]] = 0
    BY <2>2 DEF Blank, Nothing
  <2> QED
    BY <2>2, <2>3, <2>5, <2>6 DEF Blank, Fresh, RoundAt, Nothing, w
<1>3. Settled
  BY <1>2 DEF Settled, Steady
<1>4. ASSUME NEW c \in Cpns, IsOuter(c) PROVE Due(c)
  BY <1>1, <1>2, <1>4, Unchained DEF Due, Ahead
<1>5. Functional
  BY DEF Functional, Blank
<1>6. ChosenOne
  BY DEF ChosenOne, ToSet, Blank
<1> QED
  BY <1>3, <1>4, <1>5, <1>6 DEF Begun

LEMMA OneWayInit ==
    CanvasInit => OneWayInv
<1> SUFFICES ASSUME NEW g \in Graphs, CanvasStart(g), GoesOneWay(graph) PROVE ChainInv
  BY DEF CanvasInit, OneWayInv
<1>1. /\ graph = g /\ path = <<>> /\ idx = 0 /\ tasks = {} /\ phase = "rest"
      /\ out = [c \in Cpns |-> Nothing] /\ index = [c \in Cpns |-> 0]
      /\ result = [c \in Cpns |-> <<>>] /\ handled = [c \in Cpns |-> <<>>]
      /\ chosen = [c \in Cpns |-> <<>>]
  BY DEF CanvasStart, Cpns
<1>2. Functional /\ ChosenOne /\ Settled
  BY <1>1, NothingYet DEF Blank, Begun
<1>3. OneAtATime /\ Where
  BY <1>1 DEF OneAtATime, Where
<1> QED
  BY <1>2, <1>3 DEF ChainInv

LEMMA TurnBegins ==
    ASSUME CanvasInv, CanvasInv', GoesOneWay(graph), BeginTurn
    PROVE  ChainInv'
<1> DEFINE p == IF saved # <<>> /\ Kind(Last(saved)) = "userfillup"
                  THEN saved ELSE Append(saved, "begin")
<1>1. /\ UNCHANGED <<graph, tasks, canceled>> /\ phase = "rest"
      /\ IF canceled THEN phase' = "rest" /\ UNCHANGED <<path, idx>>
                     ELSE phase' = "next" /\ path' = p /\ idx' = Len(p) - 1
      /\ out' = [c \in Cpns |-> Nothing] /\ index' = [c \in Cpns |-> 0]
      /\ result' = [c \in Cpns |-> <<>>] /\ handled' = [c \in Cpns |-> <<>>]
      /\ chosen' = [c \in Cpns |-> <<>>]
  BY DEF BeginTurn
<1>2. graph \in Graphs /\ saved \in Paths /\ tasks = {} /\ canceled \in BOOLEAN
  BY <1>1 DEF CanvasInv, CanvasTypes
<1>3. Begun'
  <2>1. Blank'
    BY <1>1, <1>2, GraphStays DEF Blank
  <2> QED
    BY <2>1, NothingYet, PTL
<1>4. /\ Len(p) \in Nat /\ Len(p) # 0 /\ p[Len(p)] \in Cpns
      /\ Kind(p[Len(p)]) \in {"begin", "userfillup"}
  <2>1. "begin" \in Cpns /\ Kind("begin") = "begin"
    BY <1>2, GraphFacts
  <2>2. CASE saved # <<>> /\ Kind(Last(saved)) = "userfillup"
    <3>1. p = saved /\ Len(saved) \in Nat \ {0}
      BY <1>2, <2>2 DEF Paths
    <3>2. saved[Len(saved)] \in Cpns
      BY <1>2, <3>1, InSequence DEF Paths
    <3> QED
      BY <2>2, <3>1, <3>2 DEF Last
  <2>3. CASE ~(saved # <<>> /\ Kind(Last(saved)) = "userfillup")
    <3>1. p = Append(saved, "begin")
      BY <2>3
    <3>2. Len(p) = Len(saved) + 1 /\ Len(saved) \in Nat /\ p[Len(p)] = "begin"
      BY <1>2, <2>1, <3>1 DEF Paths
    <3> QED
      BY <2>1, <3>2
  <2> QED
    BY <2>2, <2>3
<1> HIDE DEF p
<1>5. IsOuter(p[Len(p)])
  <2> DEFINE c == p[Len(p)]
             w == Chain(graph.parent[c])
  <2> SUFFICES ASSUME ~IsOuter(c) PROVE FALSE
    OBVIOUS
  <2>1. graph.parent[c] \in Its /\ graph.parent[c] # c
    BY <1>2, <1>4, OuterFacts
  <2>2. Track(graph.parent[c], w)
    BY <1>2, <2>1, ChainFacts
  <2> HIDE DEF w
  <2>3. PICK k \in 1 .. Len(w) : c = w[k]
    BY <1>4, <2>1, <2>2 DEF Track
  <2>4. Len(w) \in Nat /\ (k = 1 \/ k \in 2 .. Len(w))
    BY <2>2 DEF Track
  <2> QED
    BY <1>4, <2>2, <2>3, <2>4 DEF Track, Ordinary
<1>6. OneAtATime'
  BY <1>1, <1>2, <1>4 DEF OneAtATime
<1>7. ASSUME ~canceled PROVE Where'
  <2>1. phase' = "next" /\ path' = p
    BY <1>1, <1>7
  <2>2. At' = p[Len(p)] /\ IsOuter(At)'
    BY <1>1, <1>5, <2>1 DEF At, IsOuter
  <2>3. Due(At)'
    BY <1>1, <1>3, <1>4, <2>1, <2>2, GraphStays DEF Begun, At
  <2> QED
    BY <2>1, <2>3 DEF Where
<1> QED
  BY <1>1, <1>3, <1>6, <1>7 DEF Begun, ChainInv, Undisturbed

LEMMA BatchBegins ==
    ASSUME CanvasInv, ChainInv, StartBatch
    PROVE  ChainInv'
<1> SUFFICES ASSUME Undisturbed' PROVE (Functional /\ ChosenOne /\ Settled /\ OneAtATime /\ Where)'
  BY DEF ChainInv
<1> DEFINE q == SubSeq(path, 1, idx)
           p == Walk(Admit, q, Pending)
<1>1. /\ UNCHANGED <<graph, idx, out, index, result, chosen, failed, canceled, handled>>
      /\ phase = "next" /\ phase' = "batch" /\ idx < Len(path) /\ path' = p
      /\ tasks' = {[at |-> i, cpn |-> p[i], input |-> InputOf(p[i])] : i \in idx + 1 .. Len(p)}
  BY DEF StartBatch
<1>2. Functional /\ ChosenOne /\ Settled /\ Len(path) <= idx + 1 /\ Due(At)
  BY <1>1 DEF ChainInv, Undisturbed, OneAtATime, Where
<1>3. path \in Paths /\ Len(path) \in Nat /\ idx \in Nat
  BY InSequence DEF CanvasInv, CanvasTypes, Paths
<1>4. Len(path) = idx + 1 /\ At = path[idx + 1]
  BY <1>1, <1>2, <1>3 DEF At
<1>5. Pending = <<At>> /\ Len(q) = idx /\ Append(q, At) = path
  <2>1. Len(Pending) = 1 /\ Pending[1] = At /\ Pending \in Seq(Cpns)
    BY <1>3, <1>4 DEF Pending, Paths
  <2>2. q \in Seq(Cpns) /\ Len(q) = idx /\ At \in Cpns
    BY <1>3, <1>4 DEF Paths
  <2>3. /\ Append(q, At) \in Seq(Cpns) /\ Len(Append(q, At)) = Len(path)
        /\ \A i \in 1 .. Len(path) : Append(q, At)[i] = path[i]
    BY <1>3, <1>4, <2>2 DEF Paths
  <2> HIDE DEF q
  <2>4. Append(q, At) = path
    BY <1>3, <2>3 DEF Paths
  <2> QED
    BY <2>1, <2>2, <2>4
<1> HIDE DEF q
<1>6. p = path \/ p = q
  <2>1. p = Admit(q, At)
    BY <1>5, WalkOne
  <2> QED
    BY <1>5, <2>1 DEF Admit
<1> HIDE DEF p
<1>7. Functional' /\ Settled' /\ \A c : Due(c)' = Due(c)
  BY <1>1, <1>2, SameRounds
<1>8. ChosenOne'
  BY <1>1, <1>2, GraphStays DEF ChosenOne
<1>9. CASE p = path
  <2>1. \A i \in idx + 1 .. Len(p) : i = idx + 1
    BY <1>3, <1>4, <1>9
  <2>2. \A t \in tasks' : t = [at |-> idx + 1, cpn |-> At, input |-> InputOf(At)]
    BY <1>1, <1>4, <1>9, <2>1
  <2>3. OneAtATime'
    BY <1>1, <1>2, <1>9, <2>2 DEF OneAtATime
  <2>4. At' = At /\ InputOf(At)' = InputOf(At)
    BY <1>1, <1>9 DEF At, InputOf
  <2>5. tasks' # {}
    <3>1. [at |-> idx + 1, cpn |-> p[idx + 1], input |-> InputOf(p[idx + 1])] \in tasks'
      BY <1>1, <1>3, <1>4, <1>9
    <3> QED
      BY <3>1
  <2>6. Due(At)'
    BY <1>1, <1>2, <1>7, <2>4, SameRounds
  <2>7. \A t \in tasks' : t.input = InputOf(At)'
    BY <2>2, <2>4
  <2>8. Where'
    BY <1>1, <2>5, <2>6, <2>7, Zenon DEF Where
  <2> QED
    BY <1>7, <1>8, <2>3, <2>8
<1>10. CASE p = q
  <2>1. ~(idx' < Len(path')) /\ Len(path') <= idx' + 1
    BY <1>1, <1>3, <1>5, <1>10
  <2>2. tasks' = {}
    <3>1. idx + 1 .. Len(p) = {}
      BY <1>3, <1>5, <1>10
    <3> QED
      BY <1>1, <3>1
  <2> QED
    BY <1>7, <1>8, <2>1, <2>2, Zenon DEF OneAtATime, Where
<1> QED
  BY <1>6, <1>9, <1>10

LEMMA BatchEnds ==
    ASSUME CanvasInv, GoesOneWay(graph), ChainInv, EndBatch
    PROVE  ChainInv'
<1> SUFFICES ASSUME Undisturbed' PROVE (Functional /\ ChosenOne /\ Settled /\ OneAtATime /\ Where)'
  BY DEF ChainInv
<1> DEFINE p == Walk(Goes, path, SubSeq(path, idx + 1, Len(path)))
<1>1. /\ UNCHANGED <<graph, tasks, out, index, result, chosen, failed, canceled, handled>>
      /\ phase = "batch" /\ tasks = {}
      /\ phase' = "rest" \/ (phase' = "next" /\ path' = p /\ idx' = Len(path))
  BY DEF EndBatch
<1>2. /\ Functional /\ ChosenOne /\ Settled /\ Len(path) <= idx + 1 /\ failed = {}
      /\ idx < Len(path) => Done(At)
  BY <1>1 DEF ChainInv, Undisturbed, OneAtATime, Where
<1>3. \/ p = path
      \/ idx < Len(path) /\ At \in Cpns /\ \E d \in ToSet(After(At)) : d \in Cpns /\ p = Append(path, d)
  BY <1>1, <1>2, BatchFollowed DEF CanvasInv
<1> HIDE DEF p
<1>4. path \in Paths /\ Len(path) \in Nat /\ graph \in Graphs
  BY InSequence DEF CanvasInv, CanvasTypes, Paths
<1>5. Functional' /\ Settled' /\ \A c : Due(c)' = Due(c)
  BY <1>1, <1>2, SameRounds
<1>6. ChosenOne'
  BY <1>1, <1>2, GraphStays DEF ChosenOne
<1>7. CASE phase' = "rest"
  BY <1>1, <1>5, <1>6, <1>7 DEF OneAtATime, Where
<1>8. CASE phase' = "next" /\ p = path
  <2>1. ~(idx' < Len(path')) /\ Len(path') <= idx' + 1
    BY <1>1, <1>4, <1>8
  <2> QED
    BY <1>1, <1>5, <1>6, <2>1, Zenon DEF OneAtATime, Where
<1>9. ASSUME phase' = "next", idx < Len(path), At \in Cpns,
             NEW d \in ToSet(After(At)), d \in Cpns, p = Append(path, d)
      PROVE  (OneAtATime /\ Where)'
  <2>1. Len(path') = idx' + 1 /\ path'[Len(path')] = d
    BY <1>1, <1>4, <1>9 DEF Paths
  <2>2. Due(d)
    BY <1>2, <1>4, <1>9, NextDue
  <2>3. Due(d)'
    BY <1>1, <2>2, SameRounds
  <2>4. Due(At)'
    BY <2>1, <2>3 DEF At
  <2>5. OneAtATime'
    <3>1. Len(path') <= idx' + 1
      BY <1>1, <1>4, <1>9, <2>1
    <3> QED
      BY <1>1, <3>1 DEF OneAtATime
  <2> QED
    BY <1>9, <2>4, <2>5 DEF Where
<1> QED
  BY <1>1, <1>3, <1>5, <1>6, <1>7, <1>8, <1>9

LEMMA ControlStays ==
    ASSUME ChainInv, Raise \/ EndTurn \/ Cancel \/ UNCHANGED canvasVars
    PROVE  ChainInv'
<1> SUFFICES ASSUME Undisturbed' PROVE (Functional /\ ChosenOne /\ Settled /\ OneAtATime /\ Where)'
  BY DEF ChainInv
<1>1. /\ UNCHANGED <<graph, idx, tasks, out, index, result, chosen, failed, handled>>
      /\ canceled' = canceled /\ (phase' = "rest" \/ UNCHANGED <<phase, path>>)
  BY DEF Raise, EndTurn, Cancel, canvasVars, Undisturbed
<1>2. Functional /\ ChosenOne /\ Settled /\ OneAtATime /\ Where
  BY <1>1 DEF ChainInv, Undisturbed
<1>3. Functional' /\ Settled'
  BY <1>1, <1>2, SameRounds
<1>4. ChosenOne'
  BY <1>1, <1>2, GraphStays DEF ChosenOne
<1>5. CASE phase' = "rest"
  BY <1>1, <1>2, <1>3, <1>4, <1>5 DEF OneAtATime, Where
<1>6. CASE UNCHANGED <<phase, path>>
  <2>1. At' = At /\ InputOf(At)' = InputOf(At)
    BY <1>1, <1>6 DEF At, InputOf
  <2>2. Due(At)' = Due(At) /\ Done(At)' = Done(At)
    BY <1>1, <2>1, SameRounds
  <2>3. Where'
    BY <1>1, <1>2, <1>6, <2>1, <2>2 DEF Where
  <2> QED
    BY <1>1, <1>2, <1>3, <1>4, <1>6, <2>3 DEF OneAtATime
<1> QED
  BY <1>1, <1>5, <1>6

\* Where a component stands that is not its own parent.
LEMMA InItsChain ==
    ASSUME graph \in Graphs, GoesOneWay(graph), NEW c \in Cpns, ~IsOuter(c)
    PROVE  LET it == graph.parent[c]
               w == Chain(it)
           IN  /\ it \in Its /\ it # c /\ Track(it, w)
               /\ \E k \in 1 .. Len(w) : c = w[k]
               /\ Kind(c) = "iterationitem" => c = w[1]
               /\ Kind(c) # "iterationitem" => Ordinary(Kind(c))
<1> DEFINE it == graph.parent[c]
           w == Chain(it)
<1>1. it \in Its /\ it # c
  BY OuterFacts
<1>2. Track(it, w)
  BY <1>1, ChainFacts
<1> HIDE DEF it, w
<1>3. PICK k \in 1 .. Len(w) : c = w[k]
  BY <1>1, <1>2 DEF Track, it
<1>4. Len(w) \in Nat /\ (k = 1 \/ k \in 2 .. Len(w))
  BY <1>2 DEF Track
<1>5. /\ Kind(c) = "iterationitem" => c = w[1]
      /\ Kind(c) # "iterationitem" => Ordinary(Kind(c))
  BY <1>2, <1>3, <1>4 DEF Track, Ordinary
<1>6. \E k1 \in 1 .. Len(w) : c = w[k1]
  BY <1>3
<1> QED
  BY <1>1, <1>2, <1>5, <1>6 DEF it, w

\* A task leaves the iterations alone that it is not in.
LEMMA Elsewhere ==
    ASSUME CanvasTypes, GoesOneWay(graph), Functional, NEW t, t.cpn \in Cpns,
           EndPlain(t) \/ EndSwitch(t) \/ EndItem(t),
           NEW it \in Its, NEW w, Track(it, w), \A j \in 1 .. Len(w) : w[j] # t.cpn
    PROVE  /\ Fresh(it, w) => Fresh(it, w)'
           /\ Steady(it, w) => Steady(it, w)'
<1>1. \A j \in 1 .. Len(w) : w[j] \in Cpns /\ ~IsOuter(w[j]) /\ w[j] # t.cpn
  BY Apart
<1>2. CASE EndPlain(t) \/ EndSwitch(t)
  <2>1. /\ UNCHANGED <<graph, index, result>>
        /\ out' = out \/ \E v : out' = [out EXCEPT ![t.cpn] = v]
        /\ handled' = [handled EXCEPT ![t.cpn] = Append(@, t.input)]
    BY <1>2 DEF EndPlain, EndSwitch, EndsTask, Put
  <2>2. \A c \in Cpns : c # t.cpn => out'[c] = out[c] /\ handled'[c] = handled[c]
    BY <2>1 DEF CanvasTypes, Functional
  <2> QED
    BY <1>1, <2>1, <2>2, ChainStays
<1>3. CASE EndItem(t)
  <2> DEFINE jt == graph.parent[t.cpn]
             v == Chain(jt)
  <2>1. graph \in Graphs /\ Kind(t.cpn) = "iterationitem"
    BY <1>3 DEF CanvasTypes, EndItem
  <2>2. ~IsOuter(t.cpn)
    BY <2>1, OuterFacts
  <2>3. jt \in Its /\ jt # t.cpn /\ Track(jt, v) /\ t.cpn = v[1]
    BY <2>1, <2>2, InItsChain
  <2>4. jt # it
    <3>1. \A c \in Cpns : graph.parent[c] = it /\ c # it => \E k \in 1 .. Len(w) : c = w[k]
      BY DEF Track
    <3> QED
      BY <2>3, <3>1
  <2>5. it \in Cpns /\ IsOuter(jt)
    BY <2>1, <2>3, OuterFacts DEF Its
  <2> HIDE DEF jt, v
  <2>6. /\ UNCHANGED graph
        /\ \A c \in Cpns : c # jt => result'[c] = result[c]
        /\ \A c \in Cpns : c # jt /\ c # v[1] => out'[c] = out[c]
        /\ \A c \in Cpns : c # v[1] => index'[c] = index[c] /\ handled'[c] = handled[c]
    BY <1>3, <2>3, ItemTouches
  <2>7. \A j \in 1 .. Len(w) : w[j] \in Cpns /\ w[j] # jt /\ w[j] # v[1]
    BY <1>1, <2>3, <2>5
  <2>8. \A j \in 1 .. Len(w) :
            out'[w[j]] = out[w[j]] /\ index'[w[j]] = index[w[j]] /\ handled'[w[j]] = handled[w[j]]
    BY <2>6, <2>7
  <2>9. result'[it] = result[it]
    BY <2>4, <2>5, <2>6
  <2> QED
    BY <2>6, <2>8, <2>9, ChainStays
<1> QED
  BY <1>2, <1>3

\* The component of a chain that runs comes to the next place.
LEMMA Advance ==
    ASSUME CanvasTypes, GoesOneWay(graph), Functional, NEW t, t.cpn \in Cpns, ~IsOuter(t.cpn),
           EndPlain(t) \/ EndSwitch(t) \/ EndItem(t), t.input = InputOf(t.cpn), Due(t.cpn),
           NEW it, it = graph.parent[t.cpn], NEW w, w = Chain(it), NEW k \in 1 .. Len(w), t.cpn = w[k]
    PROVE  (k = 1 /\ RoundsOver(it, w)') \/ InRound(it, w, k)'
<1>1. graph \in Graphs
  BY DEF CanvasTypes
<1>2. /\ it \in Its /\ Track(it, w)
      /\ Kind(t.cpn) = "iterationitem" => t.cpn = w[1]
      /\ Kind(t.cpn) # "iterationitem" => Ordinary(Kind(t.cpn))
  BY <1>1, InItsChain
<1>3. IF k = 1 THEN Fresh(it, w) \/ InRound(it, w, Len(w)) ELSE InRound(it, w, k - 1)
  BY <1>2 DEF Due
<1>4. /\ Len(w) \in Nat /\ Len(w) >= 2 /\ Kind(w[1]) = "iterationitem"
      /\ \A j \in 2 .. Len(w) : ~Branches(Kind(w[j])) /\ Kind(w[j]) \notin {"iterationitem"} \cup Silent
  BY <1>2 DEF Track, Ordinary, Silent, Branches
<1>5. CASE k = 1
  <2>1. EndItem(t)
    BY <1>4, <1>5 DEF EndPlain, EndSwitch, Branches
  <2>2. RoundsOver(it, w)' \/ InRound(it, w, 1)'
    BY <1>2, <1>3, <1>5, <2>1, ItemRuns
  <2> QED
    BY <1>5, <2>2
<1>6. CASE k \in 2 .. Len(w)
  <2>1. k # 1 /\ ~Branches(Kind(t.cpn)) /\ Kind(t.cpn) \notin {"iterationitem"} \cup Silent
    BY <1>4, <1>6
  <2>2. EndPlain(t) /\ Kind(t.cpn) \notin Silent
    BY <2>1 DEF EndSwitch, EndItem
  <2>3. /\ UNCHANGED <<graph, index, result>> /\ out' = [out EXCEPT ![w[k]] = MadeFrom(InputOf(w[k]))]
        /\ handled' = [handled EXCEPT ![w[k]] = Append(@, InputOf(w[k]))]
    BY <2>2 DEF EndPlain, EndsTask, Put
  <2>4. InRound(it, w, k)'
    BY <1>2, <1>3, <1>6, <2>1, <2>3, PlaceRuns DEF Functional
  <2> QED
    BY <2>4
<1>7. k = 1 \/ k \in 2 .. Len(w)
  <2>1. Len(w) \in Nat
    BY <1>4
  <2> QED
    BY <2>1
<1> QED
  BY <1>5, <1>6, <1>7

\* What a task leaves: its component is done, the iterations hold.
LEMMA TaskDone ==
    ASSUME CanvasTypes, GoesOneWay(graph), Functional, Settled, NEW t, NEW c \in Cpns, t.cpn = c,
           EndPlain(t) \/ EndSwitch(t) \/ EndItem(t), t.input = InputOf(c), Due(c)
    PROVE  Done(c)' /\ Settled'
<1>1. graph \in Graphs /\ UNCHANGED graph
  BY DEF CanvasTypes, EndPlain, EndSwitch, EndItem
<1>2. \A it \in Its : it \in Cpns /\ IsOuter(it) /\ Rank(it) \in Nat /\ Track(it, Chain(it))
  BY <1>1, ChainFacts, OuterFacts
<1>3. ASSUME NEW it \in Its, NEW w, w = Chain(it), \A j \in 1 .. Len(w) : w[j] # c
      PROVE  (Fresh(it, w) => Fresh(it, w)') /\ (Steady(it, w) => Steady(it, w)')
  <2>1. Track(it, w) /\ t.cpn \in Cpns /\ \A j \in 1 .. Len(w) : w[j] # t.cpn
    BY <1>2, <1>3
  <2> QED
    BY <2>1, Elsewhere
<1>4. ASSUME NEW it \in Its, NEW w, w = Chain(it), NEW k \in 1 .. Len(w), c = w[k]
      PROVE  /\ (k = 1 /\ RoundsOver(it, w)') \/ InRound(it, w, k)'
             /\ ~IsOuter(c) /\ it = graph.parent[c]
  <2>1. ~IsOuter(c) /\ it = graph.parent[c]
    BY <1>2, <1>4, Apart
  <2> QED
    BY <1>4, <2>1, Advance
<1>5. Settled'
  <2> SUFFICES ASSUME NEW it \in Its, NEW w, w = Chain(it) PROVE Steady(it, w)'
    BY <1>1, GraphStays DEF Settled
  <2>1. CASE \A j \in 1 .. Len(w) : w[j] # c
    BY <1>3, <2>1 DEF Settled
  <2>2. ASSUME NEW k \in 1 .. Len(w), c = w[k] PROVE Steady(it, w)'
    BY <1>4, <2>2 DEF Steady
  <2> QED
    BY <2>1, <2>2
<1>6. Ahead(c)'
  <2> SUFFICES ASSUME NEW it \in Its, NEW w, w = Chain(it), ToCome(c, it) PROVE Fresh(it, w)'
    BY <1>1, GraphStays DEF Ahead
  <2>1. Fresh(it, w)
    BY DEF Due, Ahead
  <2>2. ASSUME NEW k \in 1 .. Len(w), c = w[k] PROVE FALSE
    <3>1. ~IsOuter(c) /\ it = graph.parent[c]
      BY <1>4, <2>2
    <3>2. Rank(it) < Rank(it)
      BY <3>1 DEF ToCome
    <3> QED
      BY <1>2, <3>2
  <2> QED
    BY <1>3, <2>1, <2>2
<1>7. Done(c)'
  <2> SUFFICES ASSUME NEW it \in Its, NEW w, w = Chain(it), NEW k \in 1 .. Len(w), c = w[k]
               PROVE  (k = 1 /\ RoundsOver(it, w)') \/ InRound(it, w, k)'
    BY <1>1, <1>6, GraphStays DEF Done
  <2> QED
    BY <1>4
<1> QED
  BY <1>5, <1>7

LEMMA TaskSettles ==
    ASSUME CanvasInv, GoesOneWay(graph), ChainInv, NEW t \in tasks, EndTask(t)
    PROVE  ChainInv'
<1> SUFFICES ASSUME Undisturbed' PROVE (Functional /\ ChosenOne /\ Settled /\ OneAtATime /\ Where)'
  BY DEF ChainInv
<1>1. /\ UNCHANGED <<graph, path, idx, phase, canceled>> /\ phase = "batch"
      /\ tasks' = tasks \ {t} /\ handled' = [handled EXCEPT ![t.cpn] = Append(@, t.input)]
      /\ failed \subseteq failed'
  BY DEF EndTask, EndPlain, EndSwitch, TaskRaises, EndItem, EndLoopItem, EndsTask
<1>2. Undisturbed
  BY <1>1 DEF Undisturbed
<1>3. /\ Functional /\ ChosenOne /\ Settled /\ Len(path) <= idx + 1
      /\ \A u, v \in tasks : u = v
      /\ idx < Len(path) => Due(At) /\ t.input = InputOf(At)
  BY <1>1, <1>2 DEF ChainInv, OneAtATime, Where
<1>4. /\ graph \in Graphs /\ CanvasTypes /\ Len(path) \in Nat /\ idx \in Nat
      /\ \A i \in 1 .. Len(path) : path[i] \in Cpns
      /\ t.at \in idx + 1 .. Len(path) /\ t.cpn = path[t.at]
  BY InSequence DEF CanvasInv, CanvasTypes, Paths
<1>5. idx < Len(path) /\ t.at = Len(path)
  BY <1>3, <1>4
<1>6. t.cpn = At /\ At \in Cpns /\ Due(At) /\ t.input = InputOf(At)
  BY <1>3, <1>4, <1>5 DEF At
<1>7. EndPlain(t) \/ EndSwitch(t) \/ EndItem(t)
  <2>1. ~TaskRaises(t)
    BY <1>1 DEF TaskRaises, Undisturbed
  <2>2. Kind(At) # "loopitem"
    <3>1. CASE IsOuter(At)
      BY <1>4, <1>6, <3>1, OuterFacts
    <3>2. CASE ~IsOuter(At)
      <4>1. Kind(At) = "iterationitem" \/ Ordinary(Kind(At))
        BY <1>4, <1>6, <3>2, InItsChain
      <4> QED
        BY <4>1 DEF Ordinary
    <3> QED
      BY <3>1, <3>2
  <2> QED
    BY <1>6, <2>1, <2>2 DEF EndTask, EndLoopItem
<1>8. PICK c : c = At
  OBVIOUS
<1>9. Done(c)' /\ Settled'
  BY <1>3, <1>4, <1>6, <1>7, <1>8, TaskDone
<1>10. Done(At)'
  <2>1. At' = c
    BY <1>1, <1>8 DEF At
  <2> QED
    BY <1>9, <2>1
<1>11. tasks' = {}
  BY <1>1, <1>3
<1>12. OneAtATime'
  BY <1>1, <1>3, <1>11 DEF OneAtATime
<1>13. Where'
  BY <1>1, <1>10, <1>11 DEF Where
<1>14. ChosenOne'
  <2>1. CASE EndSwitch(t)
    <3>1. PICK d \in ToSet(graph.down[At]) : chosen' = [chosen EXCEPT ![At] = <<d>>]
      BY <1>6, <2>1 DEF EndSwitch, Put
    <3>2. Len(<<d>>) <= 1 /\ ToSet(<<d>>) \subseteq ToSet(graph.down[At])
      BY <3>1 DEF ToSet
    <3>3. \A x \in Cpns : chosen'[x] = chosen[x] \/ (x = At /\ chosen'[x] = <<d>>)
      BY <1>4, <3>1 DEF CanvasTypes
    <3> QED
      BY <1>1, <1>3, <3>2, <3>3, GraphStays DEF ChosenOne
  <2>2. CASE UNCHANGED chosen
    BY <1>1, <1>3, <2>2, GraphStays DEF ChosenOne
  <2> QED
    BY <1>7, <2>1, <2>2 DEF EndPlain, EndItem
<1>15. Functional'
  <2>1. result' = result \/ \E c1, v : result' = [result EXCEPT ![c1] = v]
    BY <1>7 DEF EndPlain, EndSwitch, EndItem
  <2> QED
    BY <1>1, <1>3, <2>1, GraphStays DEF Functional
<1> QED
  BY <1>9, <1>12, <1>13, <1>14, <1>15

\* The one component that runs has read already what it reads again.
LEMMA TaskRereads ==
    ASSUME CanvasInv, ChainInv, NEW t \in tasks, NEW r \in graph.reads[t.cpn], TaskReads(t, r)
    PROVE  ChainInv'
<1> SUFFICES ASSUME Undisturbed' PROVE (Functional /\ ChosenOne /\ Settled /\ OneAtATime /\ Where)'
  BY DEF ChainInv
<1>1. /\ UNCHANGED <<graph, path, idx, phase, out, index, result, chosen, failed, canceled, handled>>
      /\ phase = "batch"
      /\ tasks' = (tasks \ {t})
                 \cup {[at |-> t.at, cpn |-> t.cpn, input |-> [t.input EXCEPT ![r] = out[r]]]}
  BY Rereads DEF CanvasInv
<1>2. Functional /\ ChosenOne /\ Settled /\ OneAtATime /\ Where
  BY <1>1 DEF ChainInv, Undisturbed
<1>3. /\ t.at \in idx + 1 .. Len(path) /\ t.cpn = path[t.at] /\ idx \in Nat /\ Len(path) \in Nat
      /\ t = [at |-> t.at, cpn |-> t.cpn, input |-> t.input]
  BY InSequence DEF CanvasInv, CanvasTypes, Paths
<1>4. idx < Len(path) /\ t.at = Len(path)
  BY <1>1, <1>2, <1>3 DEF OneAtATime
<1>5. t.input = InputOf(t.cpn)
  BY <1>1, <1>2, <1>3, <1>4 DEF Where, At
<1>6. [t.input EXCEPT ![r] = out[r]] = t.input
  <2>1. t.input[r] = out[r]
    BY <1>5 DEF InputOf
  <2>2. t.input = [s \in graph.reads[t.cpn] |-> t.input[s]]
    BY <1>5 DEF InputOf
  <2> QED
    BY <2>1, <2>2
<1>7. tasks' = tasks
  BY <1>1, <1>3, <1>6
<1>8. Functional' /\ Settled'
  BY <1>1, <1>2, SameRounds
<1>9. ChosenOne'
  BY <1>1, <1>2, GraphStays DEF ChosenOne
<1>10. OneAtATime'
  BY <1>1, <1>2, <1>7 DEF OneAtATime
<1>11. Where'
  <2>1. At' = At /\ InputOf(At)' = InputOf(At)
    BY <1>1 DEF At, InputOf
  <2>2. Due(At)' = Due(At) /\ Done(At)' = Done(At)
    BY <1>1, <2>1, SameRounds
  <2> QED
    BY <1>1, <1>2, <1>7, <2>1, <2>2 DEF Where
<1> QED
  BY <1>8, <1>9, <1>10, <1>11

LEMMA OneWayStep ==
    ASSUME CanvasInv, CanvasInv', OneWayInv, [CanvasNext]_canvasVars
    PROVE  OneWayInv'
<1> SUFFICES ASSUME GoesOneWay(graph)' PROVE ChainInv'
  BY DEF OneWayInv
<1>1. UNCHANGED graph
  BY DEF CanvasNext, RunOn, BeginTurn, StartBatch, Raise, EndBatch, EndTurn, Cancel, EndTask,
         EndPlain, EndSwitch, TaskRaises, EndItem, EndLoopItem, TaskReads, canvasVars
<1>2. GoesOneWay(graph) /\ ChainInv
  BY <1>1 DEF OneWayInv
<1>3. CASE BeginTurn
  BY <1>2, <1>3, TurnBegins
<1>4. CASE StartBatch
  BY <1>2, <1>4, BatchBegins
<1>5. CASE EndBatch
  BY <1>2, <1>5, BatchEnds
<1>6. ASSUME NEW t \in tasks, EndTask(t) PROVE ChainInv'
  BY <1>2, <1>6, TaskSettles
<1>7. CASE Raise \/ EndTurn \/ Cancel \/ UNCHANGED canvasVars
  BY <1>2, <1>7, ControlStays
<1>8. ASSUME NEW t \in tasks, NEW r \in graph.reads[t.cpn], TaskReads(t, r) PROVE ChainInv'
  BY <1>2, <1>8, TaskRereads
<1> QED
  BY <1>3, <1>4, <1>5, <1>6, <1>7, <1>8 DEF CanvasNext, RunOn

LEMMA PrefixOfItems ==
    ASSUME NEW m \in 0 .. Items
    PROVE  IsPrefix([i \in 1 .. m |-> i], ItemsInOrder)
<1> DEFINE f == [i \in 1 .. m |-> i]
           g == [i \in 1 .. Items |-> i]
<1>1. m \in Nat /\ Items \in Nat /\ m <= Items
  BY CanvasAssumption
<1>2. f \in Seq(Nat) /\ Len(f) = m /\ \A i \in 1 .. m : f[i] = i
  BY <1>1
<1>3. g \in Seq(Nat) /\ Len(g) = Items /\ \A i \in 1 .. Items : g[i] = i
  BY <1>1
<1> HIDE DEF f, g
<1>4. SubSeq(f, 1, m) = f
  BY <1>1, <1>2
<1>5. /\ SubSeq(g, 1, m) \in Seq(Nat) /\ Len(SubSeq(g, 1, m)) = m
      /\ \A i \in 1 .. m : SubSeq(g, 1, m)[i] = i
  BY <1>1, <1>3
<1>6. SubSeq(g, 1, m) = f
  BY <1>1, <1>2, <1>5
<1> QED
  BY <1>1, <1>2, <1>3, <1>4, <1>6 DEF IsPrefix, ItemsInOrder, f, g

LEMMA StandsForItems ==
    ASSUME CanvasInv, OneWayInv, ItemsGoOneWay(graph)
    PROVE  EachItemOnce
<1> SUFFICES ASSUME Undisturbed
    PROVE  /\ \A c \in Cpns : Inside(c, "iteration") /\ graph.reads[c] = {ItemOf(graph.parent[c])}
               => IsPrefix([i \in DOMAIN handled[c] |-> handled[c][i][ItemOf(graph.parent[c])]],
                           ItemsInOrder)
           /\ phase = "next" => \A it \in EndedIterations : result[it] = ItemsInOrder
  BY DEF EachItemOnce
<1>1. graph \in Graphs
  BY DEF CanvasInv, CanvasTypes
<1>2. CASE \A c \in Cpns : Kind(c) # "iteration"
  <2>1. \A c \in Cpns : graph.parent[c] \in Cpns
    BY <1>1, GraphFacts
  <2> QED
    BY <1>2, <2>1 DEF Inside, EndedIterations
<1>3. CASE GoesOneWay(graph)
  <2>1. Settled
    BY <1>3 DEF OneWayInv, ChainInv
  <2>2. \A it \in Its : Track(it, Chain(it)) /\ Steady(it, Chain(it))
    BY <1>1, <1>3, <2>1, ChainFacts DEF Settled
  <2>3. ASSUME NEW c \in Cpns, Inside(c, "iteration"), graph.reads[c] = {ItemOf(graph.parent[c])}
        PROVE  IsPrefix([i \in DOMAIN handled[c] |-> handled[c][i][ItemOf(graph.parent[c])]], ItemsInOrder)
    <3> DEFINE it == graph.parent[c]
               w == Chain(it)
               x == ItemOf(it)
    <3>1. ~IsOuter(c)
      BY <2>3 DEF Inside, IsOuter
    <3>2. it \in Its /\ Track(it, w) /\ Steady(it, w) /\ \E k \in 1 .. Len(w) : c = w[k]
      BY <1>1, <1>3, <2>2, <3>1, InItsChain
    <3> HIDE DEF it, w
    <3>3. PICK k \in 1 .. Len(w) : c = w[k]
      BY <3>2
    <3>4. Len(w) \in Nat /\ graph.reads[w[1]] = {}
      BY <3>2 DEF Track
    <3>5. k \in 2 .. Len(w)
      <4>1. k # 1
        BY <2>3, <3>3, <3>4
      <4> QED
        BY <3>4, <4>1
    <3>6. \E m \in 0 .. Items : handled[c] = Rows(c, m)
      <4>1. Items \in Nat
        BY CanvasAssumption
      <4>2. CASE RoundsOver(it, w)
        BY <3>3, <3>5, <4>1, <4>2 DEF RoundsOver
      <4>3. ASSUME NEW j, NEW n \in 0 .. Items, RoundAt(it, w, j, n), n # 0 \/ j = Len(w)
            PROVE  \E m \in 0 .. Items : handled[c] = Rows(c, m)
        <5>1. handled[c] = Rows(c, IF k <= j THEN n ELSE n - 1)
          BY <3>3, <3>5, <4>3 DEF RoundAt
        <5>2. (IF k <= j THEN n ELSE n - 1) \in 0 .. Items
          <6>1. CASE n # 0
            BY <4>1, <6>1
          <6>2. CASE j = Len(w)
            BY <3>4, <4>3, <6>2
          <6> QED
            BY <4>3, <6>1, <6>2
        <5> QED
          BY <5>1, <5>2
      <4>4. \A n \in 1 .. Items : n \in 0 .. Items /\ n # 0
        BY <4>1
      <4>5. 0 \in 0 .. Items
        BY <4>1
      <4> QED
        BY <3>2, <4>2, <4>3, <4>4, <4>5, Zenon DEF Steady, Fresh, InRound
    <3>7. PICK m \in 0 .. Items : handled[c] = Rows(c, m)
      BY <3>6
    <3> DEFINE s == [i \in DOMAIN handled[c] |-> handled[c][i][x]]
    <3>8. s = [i \in 1 .. m |-> i]
      <4>1. DOMAIN handled[c] = 1 .. m
        BY <3>7 DEF Rows
      <4>2. \A i \in 1 .. m : handled[c][i] = [r \in {x} |-> i]
        BY <2>3, <3>7 DEF Rows, it
      <4>3. \A i \in 1 .. m : handled[c][i][x] = i
        BY <4>2
      <4> QED
        BY <4>1, <4>3
    <3>9. IsPrefix(s, ItemsInOrder)
      <4> HIDE DEF s
      <4> QED
        BY <3>8, PrefixOfItems
    <3> QED
      BY <3>9 DEF it
  <2>4. ASSUME NEW it \in EndedIterations PROVE result[it] = ItemsInOrder
    <3> DEFINE w == Chain(it)
    <3>1. it \in Its /\ index[ItemOf(it)] = -1
      BY <2>4 DEF EndedIterations, Its
    <3>2. Track(it, w) /\ Steady(it, w)
      BY <2>2, <3>1
    <3> HIDE DEF w
    <3>3. index[w[1]] = -1
      BY <3>1, <3>2 DEF Track
    <3>4. ASSUME NEW k, NEW n \in Nat, RoundAt(it, w, k, n) PROVE FALSE
      BY <3>3, <3>4 DEF RoundAt
    <3>5. 0 \in Nat /\ \A n \in 1 .. Items : n \in Nat
      BY CanvasAssumption
    <3>6. RoundsOver(it, w)
      BY <3>2, <3>4, <3>5, Zenon DEF Steady, Fresh, InRound
    <3> QED
      BY <3>6 DEF RoundsOver
  <2> QED
    BY <2>3, <2>4
<1> QED
  BY <1>2, <1>3 DEF ItemsGoOneWay, Cpns, Kind

LEMMA ItemsOnce ==
    ASSUME \A g \in Graphs : ItemsGoOneWay(g)
    PROVE  CanvasInit /\ [][CanvasNext]_canvasVars => []EachItemOnce
<1>1. CanvasInit => CanvasInv /\ OneWayInv
  BY CanvasInvInit, OneWayInit
<1>2. CanvasInv /\ OneWayInv /\ [CanvasNext]_canvasVars => (CanvasInv /\ OneWayInv)'
  BY CanvasInvStep, OneWayStep
<1>3. CanvasInv /\ OneWayInv => EachItemOnce
  BY StandsForItems DEF CanvasInv, CanvasTypes
<1> QED
  BY <1>1, <1>2, <1>3, PTL

\* EachItemOnce on canvases whose iterations are chains of ordinary components, outside of
\* which links lead onwards: no component of an iteration skips or repeats an item, and an
\* iteration hands on one result per item in their order, in every turn and for any number
\* of items, as long as nothing raises and nobody cancels.
THEOREM ItemsInTurn ==
    ASSUME \A g \in Graphs : ItemsGoOneWay(g)
    PROVE  CanvasSpec => []EachItemOnce
  BY ItemsOnce, PTL DEF CanvasSpec
=================================================================================
