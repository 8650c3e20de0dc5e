----------------------------- MODULE ScanProofs -----------------------------
(***************************************************************************)
(* Proofs about Scan: that the FountainDecoder is an ErasureCode, that a   *)
(* sender is understood, what is shown as change of a transaction, and     *)
(* that the hint of the seed selection is right.                           *)
(***************************************************************************)
EXTENDS Scan, SequenceTheorems, FiniteSetTheorems, WellFoundedInduction, TLAPS

-----------------------------------------------------------------------------
(* Numbers, and steps one after the other. *)

\* Any set of natural numbers that is not empty has a least one.
LEMMA LeastNumber ==
  ASSUME NEW U \in SUBSET Nat, U # {}
  PROVE  \E m \in U : \A k \in U : m <= k
<1> DEFINE T == {0 .. n : n \in U}
<1>1. T \subseteq FiniteSubsetsOf(Nat) /\ T # {}
  <2>1. \A n \in U : 0 .. n \in SUBSET Nat /\ IsFiniteSet(0 .. n)
    BY FS_Interval
  <2> QED BY <2>1 DEF FiniteSubsetsOf
<1>2. IsWellFoundedOn(StrictSubsetOrdering(Nat), FiniteSubsetsOf(Nat))
  BY FS_StrictSubsetOrderingWellFounded
<1>3. PICK x \in T : \A y \in T : ~ (<<y, x>> \in StrictSubsetOrdering(Nat))
  <2> HIDE DEF T
  <2> QED BY <1>1, <1>2, WFMin
<1>4. PICK m \in U : x = 0 .. m
  OBVIOUS
<1>5. \A k \in U : m <= k
  <2> SUFFICES ASSUME NEW k \in U, k < m PROVE FALSE
    OBVIOUS
  <2>1. 0 .. k \in T /\ 0 .. k \subseteq 0 .. m /\ m \in 0 .. m /\ m \notin 0 .. k
    OBVIOUS
  <2>2. <<0 .. k, x>> \in StrictSubsetOrdering(Nat)
    BY <1>1, <1>4, <2>1 DEF StrictSubsetOrdering, FiniteSubsetsOf
  <2> QED BY <1>3, <2>1, <2>2
<1> QED BY <1>5

\* A set that has 0, and with every number up to n the next one, has all of them.
LEMMA UpTo ==
  ASSUME NEW n \in Nat, NEW U, 0 \in U, \A k \in 1 .. n : k - 1 \in U => k \in U
  PROVE  0 .. n \subseteq U
<1> SUFFICES ASSUME NEW x \in (0 .. n) \ U PROVE FALSE
  OBVIOUS
<1> DEFINE Missing == (0 .. n) \ U
<1>1. Missing \in SUBSET Nat /\ Missing # {}
  OBVIOUS
<1> HIDE DEF Missing
<1>2. PICK m \in Missing : \A k \in Missing : m <= k
  BY <1>1, LeastNumber
<1> USE DEF Missing
<1>3. m \in 1 .. n /\ m - 1 \in 0 .. n /\ m - 1 < m
  OBVIOUS
<1> QED BY <1>3, <1>2

Follows(f, n, base, step) == f[0] = base /\ \A k \in 1 .. n : f[k] = step[k][f[k - 1]]

\* Steps that stay in a set can be taken one after the other.
LEMMA Iterates ==
  ASSUME NEW n \in Nat, NEW S, NEW base \in S, NEW step \in [1 .. n -> [S -> S]]
  PROVE  \E f \in [0 .. n -> S] : Follows(f, n, base, step)
<1> DEFINE Goes(f, m) == f \in [0 .. m -> S] /\ f = [k \in 0 .. m |-> IF k = 0 THEN base ELSE step[k][f[k - 1]]]
           U == {m \in 0 .. n : \E f : Goes(f, m)}
<1>1. 0 \in U
  <2> DEFINE f == [k \in 0 .. 0 |-> base]
  <2>1. Goes(f, 0)
    OBVIOUS
  <2>2. 0 \in 0 .. n
    OBVIOUS
  <2> HIDE DEF Goes
  <2> QED BY <2>1, <2>2
<1>2. ASSUME NEW m \in 1 .. n, m - 1 \in U PROVE m \in U
  <2>1. PICK f : Goes(f, m - 1)
    BY <1>2
  <2> DEFINE g == [k \in 0 .. m |-> IF k = m THEN step[m][f[m - 1]] ELSE f[k]]
  <2>2. /\ g \in [0 .. m -> S] /\ g[m] = step[m][f[m - 1]]
        /\ \A k \in 0 .. (m - 1) : g[k] = f[k]
    BY <2>1
  <2>3. ASSUME NEW k \in 0 .. m PROVE g[k] = IF k = 0 THEN base ELSE step[k][g[k - 1]]
    <3>1. CASE k = m
      BY <2>2, <3>1
    <3>2. CASE k = 0
      BY <2>1, <2>2, <3>2
    <3>3. CASE k \in 1 .. (m - 1)
      <4>1. f[k] = step[k][f[k - 1]] /\ k - 1 \in 0 .. (m - 1)
        BY <2>1, <3>3
      <4> QED BY <2>2, <3>3, <4>1
    <3> QED BY <3>1, <3>2, <3>3
  <2> HIDE DEF g
  <2>4. Goes(g, m)
    BY <2>2, <2>3
  <2>5. m \in 0 .. n
    OBVIOUS
  <2> HIDE DEF Goes
  <2> QED BY <2>4, <2>5
<1> HIDE DEF U
<1>3. 0 .. n \subseteq U
  BY <1>1, <1>2, UpTo
<1>4. n \in U
  BY <1>3
<1>5. PICK f : Goes(f, n)
  BY <1>4 DEF U
<1>6. f \in [0 .. n -> S] /\ \A k \in 0 .. n : f[k] = IF k = 0 THEN base ELSE step[k][f[k - 1]]
  BY <1>5
<1>7. f[0] = base /\ \A k \in 1 .. n : f[k] = step[k][f[k - 1]]
  BY <1>6
<1> QED BY <1>6, <1>7 DEF Follows

-----------------------------------------------------------------------------
(* What some parts tell. *)

IsSubspace(V) == {} \in V /\ \A x, y \in V : SymDiff(x, y) \in V

LEMMA Differences ==
  /\ \A x : SymDiff(x, x) = {} /\ SymDiff(x, {}) = x /\ SymDiff({}, x) = x
  /\ \A x, y : SymDiff(x, y) = SymDiff(y, x) /\ SymDiff(x, SymDiff(x, y)) = y
  /\ \A x, y, z : SymDiff(x, SymDiff(y, z)) = SymDiff(SymDiff(x, y), z)
  /\ \A x, y : y \subseteq x => SymDiff(x, y) = x \ y
BY DEF SymDiff

\* V is what can be worked out from the sets in G.
Spans(V, G) ==
  /\ IsSubspace(V) /\ G \subseteq V
  /\ \A U : IsSubspace(U) /\ G \subseteq U => V \subseteq U

LEMMA SpanIsUnique ==
  ASSUME NEW V, NEW G, NEW W, NEW H, Spans(V, G), Spans(W, H), G \subseteq W, H \subseteq V
  PROVE  V = W
BY DEF Spans

\* One more set.
LEMMA OneMore ==
  ASSUME NEW V, NEW G, Spans(V, G), NEW a
  PROVE  Spans(V \union {SymDiff(a, x) : x \in V}, G \union {a})
<1> DEFINE W == V \union {SymDiff(a, x) : x \in V}
<1>1. IsSubspace(V) /\ G \subseteq V
  BY DEF Spans
<1>2. {} \in W /\ G \subseteq W /\ a \in W
  <2>1. SymDiff(a, {}) = a
    BY Differences
  <2> QED BY <1>1, <2>1 DEF IsSubspace
<1>3. ASSUME NEW x \in V, NEW y \in V
      PROVE  /\ SymDiff(x, y) \in V
             /\ SymDiff(x, SymDiff(a, y)) = SymDiff(a, SymDiff(x, y))
             /\ SymDiff(SymDiff(a, x), y) = SymDiff(a, SymDiff(x, y))
             /\ SymDiff(SymDiff(a, x), SymDiff(a, y)) = SymDiff(x, y)
  <2>1. SymDiff(x, y) \in V
    BY <1>1 DEF IsSubspace
  <2>2. /\ SymDiff(x, SymDiff(a, y)) = SymDiff(a, SymDiff(x, y))
        /\ SymDiff(SymDiff(a, x), y) = SymDiff(a, SymDiff(x, y))
        /\ SymDiff(SymDiff(a, x), SymDiff(a, y)) = SymDiff(x, y)
    BY DEF SymDiff
  <2> QED BY <2>1, <2>2
<1>4. ASSUME NEW x \in W, NEW y \in W PROVE SymDiff(x, y) \in W
  <2>1. CASE x \in V /\ y \in V
    BY <1>3, <2>1
  <2>2. CASE x \in V /\ \E v \in V : y = SymDiff(a, v)
    BY <1>3, <2>2
  <2>3. CASE y \in V /\ \E u \in V : x = SymDiff(a, u)
    BY <1>3, <2>3
  <2>4. CASE (\E u \in V : x = SymDiff(a, u)) /\ \E v \in V : y = SymDiff(a, v)
    <3>1. PICK u \in V, v \in V : x = SymDiff(a, u) /\ y = SymDiff(a, v)
      BY <2>4
    <3> QED BY <1>3, <3>1
  <2> QED BY <2>1, <2>2, <2>3, <2>4
<1>5. ASSUME NEW U, IsSubspace(U), G \union {a} \subseteq U PROVE W \subseteq U
  <2>1. V \subseteq U
    BY <1>5 DEF Spans
  <2> QED BY <1>5, <2>1 DEF IsSubspace
<1> QED BY <1>2, <1>4, <1>5 DEF Spans, IsSubspace

KnownAfter(parts) ==
  CHOOSE f : f = [k \in 0 .. Len(parts) |->
                    IF k = 0 THEN {{}}
                    ELSE UNION {{ix, SymDiff(parts[k].indexes, ix)} : ix \in f[k - 1]}]

IndexesIn(parts) == {parts[k].indexes : k \in DOMAIN parts}

LEMMA SpanSteps ==
  ASSUME NEW parts, Len(parts) \in Nat
  PROVE  /\ Span(parts) = KnownAfter(parts)[Len(parts)]
         /\ KnownAfter(parts)[0] = {{}}
         /\ \A k \in 1 .. Len(parts) :
              KnownAfter(parts)[k] =
                UNION {{ix, SymDiff(parts[k].indexes, ix)} : ix \in KnownAfter(parts)[k - 1]}
<1> DEFINE n == Len(parts)
           I == UNION {parts[k].indexes : k \in 1 .. n}
           S == SUBSET SUBSET I
           More(k, K) == UNION {{ix, SymDiff(parts[k].indexes, ix)} : ix \in K}
           step == [k \in 1 .. n |-> [K \in S |-> More(k, K)]]
           Goes(f) == f = [k \in 0 .. n |-> IF k = 0 THEN {{}} ELSE More(k, f[k - 1])]
<1>0. n \in Nat
  OBVIOUS
<1>1. {{}} \in S
  OBVIOUS
<1>2. \A k \in 1 .. n : \A K \in S : More(k, K) \in S
  <2> SUFFICES ASSUME NEW k \in 1 .. n, NEW K \in S PROVE More(k, K) \in S
    OBVIOUS
  <2>1. parts[k].indexes \subseteq I
    OBVIOUS
  <2>2. \A ix \in K : SymDiff(parts[k].indexes, ix) \in SUBSET I
    BY <2>1 DEF SymDiff
  <2> HIDE DEF I
  <2> QED BY <2>2
<1>3. step \in [1 .. n -> [S -> S]]
  BY <1>2
<1>4. PICK f \in [0 .. n -> S] : Follows(f, n, {{}}, step)
  <2> HIDE DEF S, step, n
  <2> QED BY <1>0, <1>1, <1>3, Iterates
<1>5. \A k \in 0 .. n : f[k] = IF k = 0 THEN {{}} ELSE More(k, f[k - 1])
  <2> HIDE DEF More, S, n
  <2>1. ASSUME NEW k \in 1 .. n PROVE step[k][f[k - 1]] = More(k, f[k - 1])
    <3>1. f[k - 1] \in S
      <4>1. f \in [0 .. n -> S]
        BY <1>4
      <4>2. k - 1 \in 0 .. n
        BY <1>0
      <4> QED BY <4>1, <4>2
    <3> QED BY <3>1
  <2> HIDE DEF step
  <2> QED BY <1>0, <1>4, <2>1 DEF Follows
<1>6. Goes(f)
  <2> HIDE DEF step, More, S, n
  <2> QED BY <1>4, <1>5
<1> HIDE DEF I, S, step
<1>7. Goes(KnownAfter(parts))
  BY <1>6 DEF KnownAfter
<1>8. Span(parts) = KnownAfter(parts)[n]
  BY DEF Span, KnownAfter
<1> HIDE DEF More
<1>9. KnownAfter(parts)[0] = {{}} /\ \A k \in 1 .. n : KnownAfter(parts)[k] = More(k, KnownAfter(parts)[k - 1])
  <2> DEFINE g == KnownAfter(parts)
  <2>1. g = [k \in 0 .. n |-> IF k = 0 THEN {{}} ELSE More(k, g[k - 1])]
    BY <1>7
  <2> HIDE DEF g, n
  <2>2. \A k \in 0 .. n : g[k] = IF k = 0 THEN {{}} ELSE More(k, g[k - 1])
    BY <2>1
  <2>3. g[0] = {{}} /\ \A k \in 1 .. n : g[k] = More(k, g[k - 1])
    BY <1>0, <2>2
  <2> QED BY <2>3 DEF g
<1> QED BY <1>8, <1>9 DEF More

LEMMA SpanIsLeast ==
  ASSUME NEW parts, Len(parts) \in Nat, DOMAIN parts = 1 .. Len(parts)
  PROVE  Spans(Span(parts), IndexesIn(parts))
<1> DEFINE n == Len(parts)
           f == KnownAfter(parts)
           Upto(k) == {parts[j].indexes : j \in 1 .. k}
           U == {k \in 0 .. n : Spans(f[k], Upto(k))}
<1>1. 0 \in U
  <2>1. f[0] = {{}} /\ Upto(0) = {}
    BY SpanSteps
  <2>2. Spans({{}}, {})
    BY Differences DEF Spans, IsSubspace
  <2>3. 0 \in 0 .. n
    OBVIOUS
  <2> HIDE DEF f, Upto, n
  <2> QED BY <2>1, <2>2, <2>3
<1>2. ASSUME NEW k \in 1 .. n, k - 1 \in U PROVE k \in U
  <2> DEFINE a == parts[k].indexes
             V == f[k - 1]
  <2>1. Spans(V, Upto(k - 1))
    BY <1>2
  <2>2. f[k] = UNION {{ix, SymDiff(a, ix)} : ix \in V}
    BY SpanSteps
  <2>3. Upto(k) = Upto(k - 1) \union {a}
    <3>1. 1 .. k = (1 .. (k - 1)) \union {k}
      OBVIOUS
    <3> QED BY <3>1
  <2>4. UNION {{ix, SymDiff(a, ix)} : ix \in V} = V \union {SymDiff(a, x) : x \in V}
    OBVIOUS
  <2> HIDE DEF V, a, f, Upto
  <2>5. Spans(f[k], Upto(k))
    BY <2>1, <2>2, <2>3, <2>4, OneMore
  <2> QED BY <2>5
<1>3. n \in U
  <2> HIDE DEF U
  <2>1. 0 .. n \subseteq U
    BY <1>1, <1>2, UpTo
  <2> QED BY <2>1
<1>4. Spans(f[n], Upto(n))
  BY <1>3
<1>5. Upto(n) = IndexesIn(parts)
  BY DEF IndexesIn
<1> QED BY <1>4, <1>5, SpanSteps

-----------------------------------------------------------------------------
(* Parts of one message. *)

\* What reducing the parts of m makes of them: parts of m, a part of nothing among them.
PartsOf(m) == {EncoderPart(m, ix) : ix \in SUBSET IndexesOf(m)}

LEMMA PartOf ==
  ASSUME NEW m, NEW p \in PartsOf(m)
  PROVE  p.indexes \in SUBSET IndexesOf(m) /\ p = EncoderPart(m, p.indexes) /\ p.data = Mix(m, p.indexes)
BY DEF PartsOf, EncoderPart, Part

LEMMA SamePart ==
  ASSUME NEW m, NEW p \in PartsOf(m), NEW q \in PartsOf(m), p.indexes = q.indexes
  PROVE  p = q
BY PartOf

\* Reducing a part by another loses and invents nothing.
LEMMA Reducing ==
  ASSUME NEW m, NEW a \in PartsOf(m), NEW b \in PartsOf(m)
  PROVE  /\ ReducePartByPart(a, b) \in PartsOf(m)
         /\ \A V : IsSubspace(V) /\ b.indexes \in V =>
              (a.indexes \in V <=> ReducePartByPart(a, b).indexes \in V)
<1> DEFINE A == a.indexes
           B == b.indexes
<1>1. /\ A \in SUBSET IndexesOf(m) /\ B \in SUBSET IndexesOf(m)
      /\ a.data = Mix(m, A) /\ b.data = Mix(m, B)
  BY PartOf
<1>2. CASE ~(B \subseteq A)
  BY <1>2 DEF ReducePartByPart
<1>3. CASE B \subseteq A
  <2>1. ReducePartByPart(a, b) = Part(A \ B, SymDiff(Mix(m, A), Mix(m, B)))
    BY <1>1, <1>3 DEF ReducePartByPart
  <2>2. SymDiff(Mix(m, A), Mix(m, B)) = Mix(m, A \ B)
    <3>1. \A i, j : Fragment(m, i) = Fragment(m, j) => i = j
      BY DEF Fragment
    <3> QED BY <1>3, <3>1 DEF Mix, SymDiff
  <2>3. ReducePartByPart(a, b) = EncoderPart(m, A \ B)
    BY <2>1, <2>2 DEF EncoderPart
  <2>4. ReducePartByPart(a, b).indexes = A \ B
    BY <2>1 DEF Part
  <2>5. ReducePartByPart(a, b) \in PartsOf(m)
    <3>1. A \ B \in SUBSET IndexesOf(m)
      BY <1>1
    <3> QED BY <2>3, <3>1 DEF PartsOf
  <2>6. SymDiff(B, A) = A \ B /\ SymDiff(B, A \ B) = A
    BY <1>3 DEF SymDiff
  <2>7. ASSUME NEW V, IsSubspace(V), B \in V PROVE A \in V <=> A \ B \in V
    <3>1. A \in V => SymDiff(B, A) \in V
      BY <2>7 DEF IsSubspace
    <3>2. A \ B \in V => SymDiff(B, A \ B) \in V
      BY <2>7 DEF IsSubspace
    <3> QED BY <2>6, <3>1, <3>2
  <2> QED BY <2>4, <2>5, <2>7
<1> QED BY <1>2, <1>3

\* A dict of parts keyed by their indexes is a set of parts.
LEMMA Putting ==
  ASSUME NEW m, NEW parts \in Seq(PartsOf(m)), NEW p \in PartsOf(m)
  PROVE  /\ Put(parts, p) \in Seq(PartsOf(m))
         /\ Range(Put(parts, p)) = Range(parts) \union {p}
<1> DEFINE I == {i \in 1 .. Len(parts) : parts[i].indexes = p.indexes}
           k == SelectInSeq(parts, LAMBDA q : q.indexes = p.indexes)
<1>1. k = IF I # {} THEN Min(I) ELSE 0
  BY DEF SelectInSeq
<1>2. Put(parts, p) = IF k = 0 THEN Append(parts, p) ELSE [parts EXCEPT ![k] = p]
  BY DEF Put
<1>3. DOMAIN parts = 1 .. Len(parts) /\ Len(parts) \in Nat
  OBVIOUS
<1>4. CASE I = {}
  <2>1. Put(parts, p) = Append(parts, p)
    BY <1>1, <1>2, <1>4
  <2>2. Range(Append(parts, p)) = Range(parts) \union {p}
    <3>1. DOMAIN Append(parts, p) = (DOMAIN parts) \union {Len(parts) + 1}
      BY <1>3
    <3>2. \A i \in DOMAIN parts : Append(parts, p)[i] = parts[i]
      OBVIOUS
    <3>3. Append(parts, p)[Len(parts) + 1] = p
      OBVIOUS
    <3> QED BY <3>1, <3>2, <3>3 DEF Range
  <2> QED BY <2>1, <2>2
<1>5. CASE I # {}
  <2>1. Min(I) \in I
    <3>1. I \in SUBSET Nat
      BY <1>3
    <3> HIDE DEF I
    <3>2. \E i \in I : \A j \in I : i <= j
      BY <1>5, <3>1, LeastNumber
    <3> QED BY <3>2 DEF Min
  <2>2. k \in 1 .. Len(parts) /\ parts[k].indexes = p.indexes
    <3>1. k = Min(I)
      BY <1>1, <1>5
    <3> HIDE DEF k
    <3> QED BY <2>1, <3>1
  <2> HIDE DEF k, I
  <2>3. parts[k] = p
    BY <2>2, SamePart
  <2>4. Put(parts, p) = parts
    <3>1. Put(parts, p) = [parts EXCEPT ![k] = p]
      <4>1. k # 0
        BY <1>3, <2>2
      <4> QED BY <1>2, <4>1
    <3>2. parts \in [1 .. Len(parts) -> PartsOf(m)]
      OBVIOUS
    <3>3. [parts EXCEPT ![k] = p] = parts
      BY <2>2, <2>3, <3>2
    <3> QED BY <3>1, <3>3
  <2>5. p \in Range(parts)
    BY <1>3, <2>2, <2>3 DEF Range
  <2> QED BY <2>4, <2>5
<1> QED BY <1>4, <1>5

\* What is said of the mixed parts reduced one by one is said of all of them.
LEMMA MixedReducing ==
  ASSUME NEW m, mixed \in Seq(PartsOf(m)), NEW p \in PartsOf(m)
  PROVE  /\ NowSimple(p) \in Seq(PartsOf(m)) /\ StillMixed(p) \in Seq(PartsOf(m))
         /\ Range(NowSimple(p)) \union Range(StillMixed(p)) =
              {ReducePartByPart(mixed[k], p) : k \in DOMAIN mixed}
<1> DEFINE n == Len(mixed)
           P == PartsOf(m)
           S == [mixed : Seq(P), simple : Seq(P)]
           none == [mixed |-> << >>, simple |-> << >>]
           r(k) == ReducePartByPart(mixed[k], p)
           Next1(k, x) == IF IsSimple(r(k)) THEN [x EXCEPT !.simple = Append(@, r(k))]
                          ELSE [x EXCEPT !.mixed = Put(@, r(k))]
           step == [k \in 1 .. n |-> [x \in S |-> Next1(k, x)]]
           Goes(f) == f = [k \in 0 .. n |-> IF k = 0 THEN none ELSE Next1(k, f[k - 1])]
           g == CHOOSE f : Goes(f)
<1>0. n \in Nat /\ DOMAIN mixed = 1 .. n
  OBVIOUS
<1>1. none \in S
  OBVIOUS
<1>2. \A k \in 1 .. n : r(k) \in P
  BY Reducing
<1>3. ASSUME NEW k \in 1 .. n, NEW x \in S
      PROVE  /\ Next1(k, x) \in S
             /\ Range(Next1(k, x).simple) \union Range(Next1(k, x).mixed) =
                  Range(x.simple) \union Range(x.mixed) \union {r(k)}
  <2>1. x.mixed \in Seq(P) /\ x.simple \in Seq(P) /\ r(k) \in P
    BY <1>2
  <2>2. x = [mixed |-> x.mixed, simple |-> x.simple]
    OBVIOUS
  <2> HIDE DEF r, P
  <2>3. CASE IsSimple(r(k))
    <3>1. Next1(k, x) = [mixed |-> x.mixed, simple |-> Append(x.simple, r(k))]
      BY <2>2, <2>3
    <3>2. Append(x.simple, r(k)) \in Seq(P) /\ Range(Append(x.simple, r(k))) = Range(x.simple) \union {r(k)}
      <4>1. DOMAIN Append(x.simple, r(k)) = (DOMAIN x.simple) \union {Len(x.simple) + 1}
        BY <2>1
      <4>2. \A i \in DOMAIN x.simple : Append(x.simple, r(k))[i] = x.simple[i]
        BY <2>1
      <4>3. Append(x.simple, r(k))[Len(x.simple) + 1] = r(k)
        BY <2>1
      <4> QED BY <2>1, <4>1, <4>2, <4>3 DEF Range
    <3> HIDE DEF Next1
    <3> QED BY <2>1, <3>1, <3>2
  <2>4. CASE ~IsSimple(r(k))
    <3>1. Next1(k, x) = [mixed |-> Put(x.mixed, r(k)), simple |-> x.simple]
      BY <2>2, <2>4
    <3>2. Put(x.mixed, r(k)) \in Seq(P) /\ Range(Put(x.mixed, r(k))) = Range(x.mixed) \union {r(k)}
      BY <2>1, Putting DEF P
    <3> HIDE DEF Next1
    <3> QED BY <2>1, <3>1, <3>2
  <2> QED BY <2>3, <2>4
<1>4. step \in [1 .. n -> [S -> S]]
  <2> HIDE DEF S, Next1
  <2> QED BY <1>3
<1>5. PICK f \in [0 .. n -> S] : Follows(f, n, none, step)
  <2> HIDE DEF S, step, n, none
  <2> QED BY <1>0, <1>1, <1>4, Iterates
<1>6. \A k \in 0 .. n : f[k] = IF k = 0 THEN none ELSE Next1(k, f[k - 1])
  <2> HIDE DEF Next1, S, n, none
  <2>1. ASSUME NEW k \in 1 .. n PROVE step[k][f[k - 1]] = Next1(k, f[k - 1])
    <3>1. f[k - 1] \in S
      <4>1. f \in [0 .. n -> S]
        BY <1>5
      <4>2. k - 1 \in 0 .. n
        BY <1>0
      <4> QED BY <4>1, <4>2
    <3> QED BY <3>1
  <2> HIDE DEF step
  <2> QED BY <1>0, <1>5, <2>1 DEF Follows
<1>7. Goes(f)
  <2> HIDE DEF step, Next1, S, n, none
  <2> QED BY <1>5, <1>6
<1>8. MixedReducedBy(p) = g[n]
  BY DEF MixedReducedBy
<1>9. Goes(g)
  BY <1>7
<1> HIDE DEF g
<1>10. \A k \in 0 .. n : g[k] = IF k = 0 THEN none ELSE Next1(k, g[k - 1])
  <2> HIDE DEF Next1, n, none
  <2> QED BY <1>9
<1> DEFINE U == {k \in 0 .. n : g[k] \in S /\ Range(g[k].simple) \union Range(g[k].mixed) = {r(j) : j \in 1 .. k}}
<1>11. 0 \in U
  <2>1. g[0] = none
    <3> HIDE DEF none, Next1, n
    <3> QED BY <1>0, <1>10
  <2>2. Range(none.simple) = {} /\ Range(none.mixed) = {} /\ {r(j) : j \in 1 .. 0} = {}
    BY DEF Range
  <2>3. 0 \in 0 .. n
    BY <1>0
  <2> HIDE DEF r, n, S
  <2> QED BY <1>1, <2>1, <2>2, <2>3
<1>12. ASSUME NEW k \in 1 .. n, k - 1 \in U PROVE k \in U
  <2>1. g[k - 1] \in S /\ Range(g[k - 1].simple) \union Range(g[k - 1].mixed) = {r(j) : j \in 1 .. (k - 1)}
    BY <1>12
  <2>2. g[k] = Next1(k, g[k - 1]) /\ k \in 0 .. n
    <3> HIDE DEF Next1, n, none
    <3> QED BY <1>0, <1>10
  <2>3. {r(j) : j \in 1 .. k} = {r(j) : j \in 1 .. (k - 1)} \union {r(k)}
    <3>1. 1 .. k = (1 .. (k - 1)) \union {k}
      OBVIOUS
    <3> HIDE DEF r
    <3> QED BY <3>1
  <2> HIDE DEF r, S, Next1, n
  <2>4. g[k] \in S /\ Range(g[k].simple) \union Range(g[k].mixed) = {r(j) : j \in 1 .. k}
    BY <1>3, <2>1, <2>2, <2>3
  <2> QED BY <2>2, <2>4
<1>13. n \in U
  <2> HIDE DEF U
  <2>1. 0 .. n \subseteq U
    BY <1>0, <1>11, <1>12, UpTo
  <2> QED BY <1>0, <2>1
<1>14. g[n] \in S /\ Range(g[n].simple) \union Range(g[n].mixed) = {r(j) : j \in 1 .. n}
  BY <1>13
<1> QED BY <1>0, <1>8, <1>14 DEF NowSimple, StillMixed

-----------------------------------------------------------------------------
(* The decoder. *)

\* It holds parts of the message it expects.
DecoderInv ==
  /\ expected \in Messages \union {NoMessage}
  /\ expected = NoMessage => simple = << >> /\ mixed = << >> /\ queued = << >> /\ result = NoMessage
  /\ expected # NoMessage =>
       /\ DOMAIN simple \subseteq IndexesOf(expected)
       /\ \A i \in DOMAIN simple : simple[i] = {Fragment(expected, i)}
       /\ mixed \in Seq(PartsOf(expected)) /\ queued \in Seq(PartsOf(expected))
       /\ result \in {NoMessage, expected}

\* What each part it holds tells.
Told == {{i} : i \in DOMAIN simple} \union IndexesIn(mixed) \union IndexesIn(queued)

LEMMA RangesOfSequences ==
  ASSUME NEW P, NEW s \in Seq(P), NEW t \in Seq(P)
  PROVE  /\ IndexesIn(s) = {p.indexes : p \in Range(s)}
         /\ Range(s \o t) = Range(s) \union Range(t)
         /\ IndexesIn(s \o t) = IndexesIn(s) \union IndexesIn(t)
         /\ \A p : Range(Append(s, p)) = Range(s) \union {p}
         /\ s # << >> => Range(s) = {Head(s)} \union Range(Tail(s))
<1>1. \A u : IndexesIn(u) = {p.indexes : p \in Range(u)}
  BY DEF IndexesIn, Range
<1>2. Range(s \o t) = Range(s) \union Range(t)
  <2>1. /\ DOMAIN (s \o t) = 1 .. (Len(s) + Len(t)) /\ DOMAIN s = 1 .. Len(s) /\ DOMAIN t = 1 .. Len(t)
        /\ Len(s) \in Nat /\ Len(t) \in Nat
    BY ConcatProperties
  <2>2. \A i \in 1 .. Len(s) : (s \o t)[i] = s[i]
    BY <2>1, ConcatProperties
  <2>3. \A i \in 1 .. Len(t) : (s \o t)[Len(s) + i] = t[i] /\ Len(s) + i \in 1 .. (Len(s) + Len(t))
    BY <2>1, ConcatProperties
  <2>4. \A i \in DOMAIN (s \o t) : i \in 1 .. Len(s) \/ \E j \in 1 .. Len(t) : i = Len(s) + j
    <3> SUFFICES ASSUME NEW i \in DOMAIN (s \o t), i \notin 1 .. Len(s)
                 PROVE  \E j \in 1 .. Len(t) : i = Len(s) + j
      OBVIOUS
    <3>1. i - Len(s) \in 1 .. Len(t) /\ i = Len(s) + (i - Len(s))
      BY <2>1
    <3> QED BY <3>1
  <2>5. ASSUME NEW i \in DOMAIN (s \o t) PROVE (s \o t)[i] \in Range(s) \union Range(t)
    BY <2>1, <2>2, <2>3, <2>4 DEF Range
  <2>6. ASSUME NEW i \in DOMAIN s PROVE s[i] \in Range(s \o t)
    <3>1. i \in DOMAIN (s \o t) /\ (s \o t)[i] = s[i]
      BY <2>1, <2>2
    <3> QED BY <3>1 DEF Range
  <2>7. ASSUME NEW i \in DOMAIN t PROVE t[i] \in Range(s \o t)
    <3>1. Len(s) + i \in DOMAIN (s \o t) /\ (s \o t)[Len(s) + i] = t[i]
      BY <2>1, <2>3
    <3> QED BY <3>1 DEF Range
  <2> QED BY <2>5, <2>6, <2>7 DEF Range
<1>3. IndexesIn(s \o t) = IndexesIn(s) \union IndexesIn(t)
  BY <1>1, <1>2
<1>4. ASSUME NEW p PROVE Range(Append(s, p)) = Range(s) \union {p}
  <2>1. DOMAIN Append(s, p) = (DOMAIN s) \union {Len(s) + 1}
    OBVIOUS
  <2>2. \A i \in DOMAIN s : Append(s, p)[i] = s[i]
    OBVIOUS
  <2>3. Append(s, p)[Len(s) + 1] = p
    OBVIOUS
  <2> QED BY <2>1, <2>2, <2>3 DEF Range
<1>5. ASSUME s # << >> PROVE Range(s) = {Head(s)} \union Range(Tail(s))
  <2>1. Len(s) \in Nat \ {0} /\ Len(Tail(s)) = Len(s) - 1 /\ DOMAIN s = 1 .. Len(s)
    BY <1>5, HeadTailProperties, EmptySeq
  <2>2. DOMAIN Tail(s) = 1 .. (Len(s) - 1) /\ \A i \in 1 .. (Len(s) - 1) : Tail(s)[i] = s[i + 1]
    BY <1>5, <2>1, HeadTailProperties
  <2>3. Head(s) = s[1]
    BY <1>5
  <2>4. \A i \in DOMAIN s : i = 1 \/ (i - 1 \in 1 .. (Len(s) - 1) /\ s[i] = Tail(s)[i - 1])
    BY <2>1, <2>2
  <2>5. \A i \in DOMAIN s : s[i] \in {Head(s)} \union Range(Tail(s))
    BY <2>2, <2>3, <2>4 DEF Range
  <2>6. 1 \in DOMAIN s /\ \A i \in DOMAIN Tail(s) : i + 1 \in DOMAIN s /\ Tail(s)[i] = s[i + 1]
    BY <2>1, <2>2
  <2> QED BY <2>3, <2>5, <2>6 DEF Range
<1> QED BY <1>1, <1>2, <1>3, <1>4, <1>5

LEMMA IndexesOfSequences ==
  /\ \A P : \A s, t \in Seq(P) : IndexesIn(s \o t) = IndexesIn(s) \union IndexesIn(t)
  /\ \A P : \A s \in Seq(P) : \A p : Range(Append(s, p)) = Range(s) \union {p}
  /\ \A P : \A s \in Seq(P) : s # << >> => Range(s) = {Head(s)} \union Range(Tail(s))
  /\ \A s : IndexesIn(s) = {p.indexes : p \in Range(s)}
<1>1. \A s : IndexesIn(s) = {p.indexes : p \in Range(s)}
  BY DEF IndexesIn, Range
<1>2. \A P : \A s, t \in Seq(P) : IndexesIn(s \o t) = IndexesIn(s) \union IndexesIn(t)
  BY RangesOfSequences
<1>3. \A P : \A s \in Seq(P) : \A p : Range(Append(s, p)) = Range(s) \union {p}
  <2> SUFFICES ASSUME NEW P, NEW s \in Seq(P), NEW p PROVE Range(Append(s, p)) = Range(s) \union {p}
    OBVIOUS
  <2> QED BY RangesOfSequences
<1>4. \A P : \A s \in Seq(P) : s # << >> => Range(s) = {Head(s)} \union Range(Tail(s))
  <2> SUFFICES ASSUME NEW P, NEW s \in Seq(P), s # << >> PROVE Range(s) = {Head(s)} \union Range(Tail(s))
    OBVIOUS
  <2> QED BY RangesOfSequences
<1> QED BY <1>1, <1>2, <1>3, <1>4

\* The simple parts, and parts of nothing for the others.
LEMMA HeldParts ==
  ASSUME DecoderInv, expected # NoMessage
  PROVE  /\ Held \in Seq(PartsOf(expected))
         /\ IndexesIn(Held) \union {{}} = {{i} : i \in DOMAIN simple} \union IndexesIn(mixed) \union {{}}
<1> DEFINE P == PartsOf(expected)
           n == Fragments[expected]
<1>1. n \in Nat \ {0} /\ IndexesOf(expected) = 0 .. (n - 1) /\ DOMAIN simple \subseteq 0 .. (n - 1)
  BY FountainAssumption DEF DecoderInv, IndexesOf
<1>2. mixed \in Seq(P)
  BY DEF DecoderInv
<1>3. DOMAIN SimpleParts = 1 .. n
  BY DEF SimpleParts
<1>4. ASSUME NEW k \in 1 .. n
      PROVE  /\ SimpleParts[k] \in P
             /\ SimpleParts[k].indexes = IF k - 1 \in DOMAIN simple THEN {k - 1} ELSE {}
  <2>1. CASE k - 1 \in DOMAIN simple
    <3>1. SimpleParts[k] = Part({k - 1}, {Fragment(expected, k - 1)})
      BY <2>1 DEF SimpleParts, DecoderInv
    <3>2. {Fragment(expected, k - 1)} = Mix(expected, {k - 1})
      BY DEF Mix
    <3>3. {k - 1} \in SUBSET IndexesOf(expected)
      BY <1>1, <2>1
    <3>4. SimpleParts[k] = EncoderPart(expected, {k - 1})
      BY <3>1, <3>2 DEF EncoderPart
    <3>5. SimpleParts[k] \in P
      BY <3>3, <3>4 DEF PartsOf
    <3>6. SimpleParts[k].indexes = {k - 1}
      BY <3>1 DEF Part
    <3> QED BY <2>1, <3>5, <3>6
  <2>2. CASE k - 1 \notin DOMAIN simple
    <3>1. SimpleParts[k] = Part({}, {})
      BY <2>2 DEF SimpleParts
    <3>2. {} = Mix(expected, {})
      BY DEF Mix
    <3>3. SimpleParts[k] = EncoderPart(expected, {})
      BY <3>1, <3>2 DEF EncoderPart
    <3>4. SimpleParts[k] \in P
      BY <3>3 DEF PartsOf
    <3>5. SimpleParts[k].indexes = {}
      BY <3>1 DEF Part
    <3> QED BY <2>2, <3>4, <3>5
  <2> QED BY <2>1, <2>2
<1>5. SimpleParts \in Seq(P)
  <2>1. SimpleParts = [k \in 1 .. n |-> SimpleParts[k]]
    BY DEF SimpleParts
  <2>2. \A k \in 1 .. n : SimpleParts[k] \in P
    BY <1>4
  <2>3. SimpleParts \in [1 .. n -> P]
    BY <2>1, <2>2
  <2> HIDE DEF P, n
  <2> QED BY <1>1, <2>3
<1>6. IndexesIn(SimpleParts) \union {{}} = {{i} : i \in DOMAIN simple} \union {{}}
  <2>1. \A k \in 1 .. n : SimpleParts[k].indexes \in {{i} : i \in DOMAIN simple} \union {{}}
    BY <1>4
  <2>2. ASSUME NEW i \in DOMAIN simple PROVE {i} \in IndexesIn(SimpleParts)
    <3>1. i + 1 \in 1 .. n /\ (i + 1) - 1 = i
      <4>1. i \in 0 .. (n - 1) /\ n \in Nat
        BY <1>1
      <4> HIDE DEF n
      <4> QED BY <4>1
    <3>2. SimpleParts[i + 1].indexes = {i}
      BY <1>4, <3>1
    <3> QED BY <1>3, <3>1, <3>2 DEF IndexesIn
  <2> QED BY <1>3, <2>1, <2>2 DEF IndexesIn
<1> HIDE DEF P
<1>7. Held \in Seq(P) /\ IndexesIn(Held) = IndexesIn(SimpleParts) \union IndexesIn(mixed)
  BY <1>2, <1>5, IndexesOfSequences, ConcatProperties DEF Held
<1> QED BY <1>6, <1>7 DEF P

LEMMA KnownIsWhatWasTold ==
  DecoderInv => Spans(Known, Told)
<1> SUFFICES ASSUME DecoderInv PROVE Spans(Known, Told)
  OBVIOUS
<1>1. CASE expected = NoMessage
  <2>1. Told = {}
    BY <1>1 DEF DecoderInv, Told, IndexesIn
  <2>2. Known = {{}}
    BY <1>1 DEF Known
  <2> QED BY <2>1, <2>2, Differences DEF Spans, IsSubspace
<1>2. CASE expected # NoMessage
  <2> DEFINE P == PartsOf(expected)
             all == Held \o queued
  <2>1. Held \in Seq(P) /\ queued \in Seq(P)
    BY <1>2, HeldParts DEF DecoderInv
  <2>2. all \in Seq(P) /\ IndexesIn(all) = IndexesIn(Held) \union IndexesIn(queued)
    BY <2>1, IndexesOfSequences, ConcatProperties
  <2>3. Spans(Span(all), IndexesIn(all))
    <3>1. Len(all) \in Nat /\ DOMAIN all = 1 .. Len(all)
      BY <2>2, LenProperties
    <3> HIDE DEF all
    <3> QED BY <3>1, SpanIsLeast
  <2>4. IndexesIn(all) \union {{}} = Told \union {{}}
    BY <1>2, <2>2, HeldParts DEF Told
  <2>5. Known = Span(all)
    BY <1>2 DEF Known
  <2> HIDE DEF all
  <2>6. \A U : IsSubspace(U) => (IndexesIn(all) \subseteq U <=> Told \subseteq U)
    BY <2>4 DEF IsSubspace
  <2> QED BY <2>3, <2>5, <2>6 DEF Spans
<1> QED BY <1>1, <1>2

LEMMA KnownIsWhatWasToldNext ==
  DecoderInv' => Spans(Known, Told)'
BY KnownIsWhatWasTold, PTL

LEMMA ReducingByAll ==
  ASSUME DecoderInv, expected # NoMessage, NEW p \in PartsOf(expected)
  PROVE  /\ Reduced(p) \in PartsOf(expected)
         /\ \A V : IsSubspace(V) /\ {{i} : i \in DOMAIN simple} \subseteq V /\ IndexesIn(mixed) \subseteq V =>
              (p.indexes \in V <=> Reduced(p).indexes \in V)
<1> DEFINE P == PartsOf(expected)
           n == Len(Held)
           step == [k \in 1 .. n |-> [q \in P |-> ReducePartByPart(q, Held[k])]]
           Goes(f) == f = [k \in 0 .. n |-> IF k = 0 THEN p ELSE ReducePartByPart(f[k - 1], Held[k])]
           g == CHOOSE f : Goes(f)
<1>1. Held \in Seq(P) /\ n \in Nat /\ DOMAIN Held = 1 .. n
  BY HeldParts, LenProperties
<1>2. \A k \in 1 .. n : Held[k] \in P
  BY <1>1
<1>3. step \in [1 .. n -> [P -> P]]
  BY <1>2, Reducing
<1>4. PICK f \in [0 .. n -> P] : Follows(f, n, p, step)
  <2> HIDE DEF step, n
  <2> QED BY <1>1, <1>3, Iterates
<1>5. \A k \in 0 .. n : f[k] = IF k = 0 THEN p ELSE ReducePartByPart(f[k - 1], Held[k])
  <2> HIDE DEF P, n
  <2>1. ASSUME NEW k \in 1 .. n PROVE step[k][f[k - 1]] = ReducePartByPart(f[k - 1], Held[k])
    <3>1. f[k - 1] \in P
      <4>1. f \in [0 .. n -> P]
        BY <1>4
      <4>2. k - 1 \in 0 .. n
        BY <1>1
      <4> QED BY <4>1, <4>2
    <3> QED BY <3>1
  <2> HIDE DEF step
  <2> QED BY <1>1, <1>4, <2>1 DEF Follows
<1>6. Goes(f)
  <2> HIDE DEF step, P, n
  <2> QED BY <1>4, <1>5
<1>7. Reduced(p) = g[n]
  BY DEF Reduced
<1>8. Goes(g)
  BY <1>6
<1> HIDE DEF g
<1>9. \A k \in 0 .. n : g[k] = IF k = 0 THEN p ELSE ReducePartByPart(g[k - 1], Held[k])
  <2> HIDE DEF n
  <2> QED BY <1>8
<1> DEFINE Kept(q) == \A V : IsSubspace(V) /\ IndexesIn(Held) \subseteq V => (p.indexes \in V <=> q.indexes \in V)
           U == {k \in 0 .. n : g[k] \in P /\ Kept(g[k])}
<1>10. 0 \in U
  <2>1. g[0] = p /\ 0 \in 0 .. n
    <3> HIDE DEF n
    <3> QED BY <1>1, <1>9
  <2> QED BY <2>1
<1>11. ASSUME NEW k \in 1 .. n, k - 1 \in U PROVE k \in U
  <2> DEFINE a == g[k - 1]
             b == Held[k]
  <2>1. a \in P /\ Kept(a)
    BY <1>11
  <2>2. g[k] = ReducePartByPart(a, b) /\ k \in 0 .. n
    <3> HIDE DEF n
    <3> QED BY <1>1, <1>9
  <2>3. b \in P /\ b.indexes \in IndexesIn(Held)
    BY <1>1, <1>2 DEF IndexesIn
  <2> HIDE DEF a, b, n
  <2>4. /\ ReducePartByPart(a, b) \in P
        /\ \A V : IsSubspace(V) /\ b.indexes \in V => (a.indexes \in V <=> ReducePartByPart(a, b).indexes \in V)
    BY <2>1, <2>3, Reducing
  <2> HIDE DEF P
  <2>5. Kept(g[k])
    BY <2>1, <2>2, <2>3, <2>4
  <2> QED BY <2>2, <2>4, <2>5
<1>12. n \in U
  <2> HIDE DEF U, n
  <2>1. 0 .. n \subseteq U
    BY <1>1, <1>10, <1>11, UpTo
  <2> QED BY <1>1, <2>1
<1>13. g[n] \in P /\ Kept(g[n])
  BY <1>12
<1>14. ASSUME NEW V, IsSubspace(V), {{i} : i \in DOMAIN simple} \subseteq V, IndexesIn(mixed) \subseteq V
       PROVE  IndexesIn(Held) \subseteq V
  BY <1>14, HeldParts DEF IsSubspace
<1> QED BY <1>7, <1>13, <1>14

-----------------------------------------------------------------------------
(* Its steps are steps of an ErasureCode. *)

\* What is known is as before when each of the parts follows from the others.
LEMMA NothingIsLost ==
  ASSUME DecoderInv, DecoderInv', \A V : IsSubspace(V) => (Told \subseteq V <=> Told' \subseteq V)
  PROVE  Known' = Known
<1>1. Spans(Known, Told)
  BY KnownIsWhatWasTold
<1>2. Spans(Known', Told')
  BY KnownIsWhatWasToldNext DEF Spans, IsSubspace
<1>3. IsSubspace(Known) /\ IsSubspace(Known')
  BY <1>1, <1>2 DEF Spans
<1>4. Told' \subseteq Known /\ Told \subseteq Known'
  BY <1>1, <1>2, <1>3 DEF Spans
<1> QED BY <1>1, <1>2, <1>4, SpanIsUnique

\* With every fragment all combinations of them are known, and there are no others.
LEMMA AllIsKnown ==
  ASSUME NEW n \in Nat, NEW G, G \subseteq SUBSET (0 .. (n - 1)), \A i \in 0 .. (n - 1) : {i} \in G,
         NEW V, Spans(V, G)
  PROVE  V = SUBSET (0 .. (n - 1))
<1>1. IsSubspace(V) /\ G \subseteq V
  BY DEF Spans
<1>2. V \subseteq SUBSET (0 .. (n - 1))
  <2>1. IsSubspace(SUBSET (0 .. (n - 1)))
    BY DEF IsSubspace, SymDiff
  <2> QED BY <2>1 DEF Spans
<1>3. ASSUME NEW x \in SUBSET (0 .. (n - 1)) PROVE x \in V
  <2> DEFINE U == {k \in 0 .. n : x \intersect (0 .. (k - 1)) \in V}
  <2>1. 0 \in U
    <3>1. x \intersect (0 .. (0 - 1)) = {}
      OBVIOUS
    <3> QED BY <1>1, <3>1 DEF IsSubspace
  <2>2. ASSUME NEW k \in 1 .. n, k - 1 \in U PROVE k \in U
    <3> DEFINE y == x \intersect (0 .. ((k - 1) - 1))
    <3>1. y \in V
      BY <2>2
    <3>2. k \in 0 .. n
      OBVIOUS
    <3>3. ASSUME k - 1 \in x PROVE x \intersect (0 .. (k - 1)) \in V
      <4>1. x \intersect (0 .. (k - 1)) = SymDiff(y, {k - 1})
        <5>1. 0 .. (k - 1) = (0 .. ((k - 1) - 1)) \union {k - 1} /\ k - 1 \notin 0 .. ((k - 1) - 1)
          OBVIOUS
        <5> QED BY <3>3, <5>1 DEF SymDiff
      <4>2. {k - 1} \in V
        BY <1>1
      <4>3. SymDiff(y, {k - 1}) \in V
        <5> HIDE DEF y
        <5> QED BY <1>1, <3>1, <4>2 DEF IsSubspace
      <4> HIDE DEF y
      <4> QED BY <4>1, <4>3
    <3>4. ASSUME k - 1 \notin x PROVE x \intersect (0 .. (k - 1)) \in V
      <4>1. x \intersect (0 .. (k - 1)) = y
        <5>1. 0 .. (k - 1) = (0 .. ((k - 1) - 1)) \union {k - 1}
          OBVIOUS
        <5> QED BY <3>4, <5>1
      <4> QED BY <3>1, <4>1
    <3> QED BY <3>3, <3>4, <3>2
  <2>3. n \in U
    <3> HIDE DEF U
    <3>1. 0 .. n \subseteq U
      BY <2>1, <2>2, UpTo
    <3> QED BY <3>1
  <2>4. x \intersect (0 .. (n - 1)) = x
    OBVIOUS
  <2> QED BY <2>3, <2>4
<1> QED BY <1>2, <1>3

\* A new part is learnt.
LEMMA ReceivingIsLearning ==
  ASSUME DecoderInv, NEW m \in Messages, NEW p \in EncoderParts(m), ReceivePart(m, p)
  PROVE  /\ DecoderInv'
         /\ \/ UNCHANGED fountainVars
            \/ Abstract!Learn(m)
<1>1. CASE UNCHANGED fountainVars
  BY <1>1 DEF fountainVars, DecoderInv
<1>2. CASE ~(UNCHANGED fountainVars)
  <2>1. /\ result = NoMessage /\ expected \in {NoMessage, m}
        /\ expected' = m /\ queued = << >> /\ queued' = <<p>>
        /\ simple' = simple /\ mixed' = mixed /\ result' = result
    BY <1>2 DEF ReceivePart, Resting, PartIsValid
  <2>2. p \in PartsOf(m) /\ p.indexes \in SUBSET IndexesOf(m)
    BY PartOf DEF EncoderParts, PartsOf
  <2>3. m # NoMessage
    BY FountainAssumption
  <2>4. DecoderInv'
    <3>1. CASE expected = NoMessage
      <4>1. simple' = << >> /\ mixed' = << >>
        BY <2>1, <3>1 DEF DecoderInv
      <4>2. << >> \in Seq(PartsOf(m)) /\ <<p>> \in Seq(PartsOf(m))
        BY <2>2
      <4> QED BY <2>1, <2>3, <4>1, <4>2 DEF DecoderInv
    <3>2. CASE expected = m
      <4>1. <<p>> \in Seq(PartsOf(m))
        BY <2>2
      <4> QED BY <2>1, <2>3, <3>2, <4>1 DEF DecoderInv
    <3> QED BY <2>1, <3>1, <3>2
  <2>5. Told' = Told \union {p.indexes}
    BY <2>1 DEF Told, IndexesIn
  <2>6. Spans(Known', Told')
    BY <2>4, KnownIsWhatWasToldNext DEF Spans, IsSubspace
  <2>7. Spans(Known \union {SymDiff(p.indexes, x) : x \in Known}, Told')
    BY <2>5, KnownIsWhatWasTold, OneMore
  <2>8. Known' = Known \union {SymDiff(p.indexes, x) : x \in Known}
    BY <2>6, <2>7 DEF Spans
  <2>9. Abstract!Learn(m)
    <3>1. p.indexes \in SUBSET (0 .. Fragments[m] - 1)
      BY <2>2 DEF IndexesOf
    <3>2. \E ix \in SUBSET (0 .. Fragments[m] - 1) : Known' = Known \union {SymDiff(ix, x) : x \in Known}
      BY <2>8, <3>1
    <3> QED BY <2>1, <3>2 DEF Abstract!Learn, Abstract!SymDiff, SymDiff
  <2> QED BY <2>4, <2>9
<1> QED BY <1>1, <1>2

\* A fragment is kept, or thrown away because it is there.  With the last one the
\* message is delivered.
LEMMA SimplePartsAreKept ==
  ASSUME DecoderInv, ProcessSimplePart
  PROVE  DecoderInv' /\ ((Known' = Known /\ UNCHANGED <<expected, result>>) \/ Abstract!Deliver)
<1> DEFINE p == Head(queued)
           i == Index(p)
           P == PartsOf(expected)
           known == [j \in DOMAIN simple \union {i} |-> IF j = i THEN p.data ELSE simple[j]]
<1>1. /\ queued # << >> /\ result = NoMessage /\ IsSimple(p)
      /\ expected' = expected
  BY DEF ProcessSimplePart, Resting
<1>2. expected # NoMessage /\ expected \in Messages /\ mixed \in Seq(P) /\ queued \in Seq(P)
  BY <1>1 DEF DecoderInv
<1>3. p \in P /\ Tail(queued) \in Seq(P)
  BY <1>1, <1>2, HeadTailProperties
<1>4. p.indexes = {i} /\ i \in IndexesOf(expected) /\ p.data = {Fragment(expected, i)}
  <2>1. p.indexes \in SUBSET IndexesOf(expected) /\ p.data = Mix(expected, p.indexes)
    BY <1>3, PartOf
  <2>2. IsFiniteSet(p.indexes)
    <3>1. Fragments[expected] - 1 \in Int
      BY <1>2, FountainAssumption
    <3>2. IsFiniteSet(IndexesOf(expected))
      BY <3>1, FS_Interval DEF IndexesOf
    <3> QED BY <2>1, <3>2, FS_Subset
  <2>3. \E x : p.indexes = {x}
    BY <1>1, <2>2, FS_Singleton DEF IsSimple
  <2>4. p.indexes = {i}
    BY <2>3 DEF Index
  <2> HIDE DEF p, i
  <2> QED BY <2>1, <2>4 DEF Mix
<1>5. Told = {{j} : j \in DOMAIN simple} \union IndexesIn(mixed) \union {{i}} \union IndexesIn(Tail(queued))
  <2>1. Range(queued) = {p} \union Range(Tail(queued))
    BY <1>1, <1>2, IndexesOfSequences
  <2>2. IndexesIn(queued) = {q.indexes : q \in Range(queued)}
        /\ IndexesIn(Tail(queued)) = {q.indexes : q \in Range(Tail(queued))}
    BY DEF IndexesIn, Range
  <2>3. IndexesIn(queued) = {p.indexes} \union IndexesIn(Tail(queued))
    BY <2>1, <2>2
  <2> HIDE DEF p, i
  <2> QED BY <1>4, <2>3 DEF Told
<1>6. CASE i \in DOMAIN simple
  <2>1. queued' = Tail(queued) /\ UNCHANGED <<simple, mixed, result>>
    BY <1>6 DEF ProcessSimplePart
  <2>2. DecoderInv'
    BY <1>1, <1>3, <2>1 DEF DecoderInv
  <2>3. Told' = Told
    <3>1. Told' = {{j} : j \in DOMAIN simple} \union IndexesIn(mixed) \union IndexesIn(Tail(queued))
      BY <2>1 DEF Told
    <3> HIDE DEF i, p
    <3> QED BY <1>5, <1>6, <3>1
  <2>4. Known' = Known
    BY <2>2, <2>3, NothingIsLost
  <2> QED BY <1>1, <2>1, <2>2, <2>4
<1>7. CASE i \notin DOMAIN simple
  <2>1. /\ simple' = known
        /\ IF DOMAIN known = IndexesOf(expected)
           THEN result' = Joined(known) /\ queued' = Tail(queued) /\ mixed' = mixed
           ELSE mixed' = StillMixed(p) /\ queued' = Tail(queued) \o NowSimple(p) /\ result' = result
    BY <1>7 DEF ProcessSimplePart
  <2>2. DOMAIN known = DOMAIN simple \union {i} /\ DOMAIN known \subseteq IndexesOf(expected)
    BY <1>2, <1>4 DEF DecoderInv
  <2>3. \A j \in DOMAIN known : known[j] = {Fragment(expected, j)}
    <3>1. \A j \in DOMAIN simple : simple[j] = {Fragment(expected, j)}
      BY <1>2 DEF DecoderInv
    <3> QED BY <1>4, <3>1
  <2> HIDE DEF known
  <2>4. {{j} : j \in DOMAIN simple'} = {{j} : j \in DOMAIN simple} \union {{i}}
    BY <2>1, <2>2
  <2>5. CASE DOMAIN known = IndexesOf(expected)
    <3>1. queued' = Tail(queued) /\ mixed' = mixed /\ result' = expected
      BY <2>1, <2>3, <2>5 DEF Joined
    <3>2. DecoderInv'
      BY <1>1, <1>2, <1>3, <2>1, <2>2, <2>3, <3>1 DEF DecoderInv
    <3>3. Told' = Told
      <4>1. Told' = {{j} : j \in DOMAIN simple'} \union IndexesIn(mixed) \union IndexesIn(Tail(queued))
        BY <3>1 DEF Told
      <4> HIDE DEF i, p
      <4> QED BY <1>5, <2>4, <4>1
    <3>4. Known' = Known
      BY <3>2, <3>3, NothingIsLost
    <3>5. Known = SUBSET (0 .. Fragments[expected] - 1)
      <4> DEFINE n == Fragments[expected]
      <4>1. n \in Nat /\ IndexesOf(expected) = 0 .. (n - 1)
        BY <1>2, FountainAssumption DEF IndexesOf
      <4>2. \A j \in 0 .. (n - 1) : {j} \in Told
        BY <2>1, <2>4, <2>5, <3>3, <4>1 DEF Told
      <4>3. Told \subseteq SUBSET (0 .. (n - 1))
        <5>1. \A q \in P : q.indexes \in SUBSET IndexesOf(expected)
          BY PartOf
        <5>2. \A u : u \in Seq(P) => IndexesIn(u) \subseteq SUBSET IndexesOf(expected)
          <6> SUFFICES ASSUME NEW u \in Seq(P), NEW k \in DOMAIN u
                       PROVE  u[k].indexes \in SUBSET IndexesOf(expected)
            BY DEF IndexesIn
          <6>1. u[k] \in P
            OBVIOUS
          <6> QED BY <5>1, <6>1
        <5>3. \A j \in DOMAIN simple : {j} \in SUBSET IndexesOf(expected)
          BY <1>2 DEF DecoderInv
        <5> QED BY <1>2, <4>1, <5>2, <5>3 DEF Told
      <4>4. Spans(Known, Told)
        BY KnownIsWhatWasTold
      <4> HIDE DEF n
      <4>5. Known = SUBSET (0 .. (n - 1))
        BY <4>1, <4>2, <4>3, <4>4, AllIsKnown
      <4> QED BY <4>5 DEF n
    <3>6. Abstract!Deliver
      BY <1>1, <1>2, <3>1, <3>4, <3>5 DEF Abstract!Deliver
    <3> QED BY <3>2, <3>6
  <2>6. CASE DOMAIN known # IndexesOf(expected)
    <3>1. mixed' = StillMixed(p) /\ queued' = Tail(queued) \o NowSimple(p) /\ result' = result
      BY <2>1, <2>6
    <3>2. /\ NowSimple(p) \in Seq(P) /\ StillMixed(p) \in Seq(P)
          /\ Range(NowSimple(p)) \union Range(StillMixed(p)) = {ReducePartByPart(mixed[k], p) : k \in DOMAIN mixed}
      BY <1>2, <1>3, MixedReducing
    <3>3. mixed' \in Seq(P) /\ queued' \in Seq(P)
          /\ IndexesIn(mixed') \union IndexesIn(queued') =
               IndexesIn(Tail(queued)) \union {ReducePartByPart(mixed[k], p).indexes : k \in DOMAIN mixed}
      <4> HIDE DEF p
      <4>1. Tail(queued) \o NowSimple(p) \in Seq(P)
        BY <1>3, <3>2, ConcatProperties
      <4>2. /\ IndexesIn(Tail(queued) \o NowSimple(p)) = IndexesIn(Tail(queued)) \union IndexesIn(NowSimple(p))
            /\ IndexesIn(NowSimple(p)) = {q.indexes : q \in Range(NowSimple(p))}
            /\ IndexesIn(StillMixed(p)) = {q.indexes : q \in Range(StillMixed(p))}
        <5>1. IndexesIn(Tail(queued) \o NowSimple(p)) = IndexesIn(Tail(queued)) \union IndexesIn(NowSimple(p))
          <6> HIDE DEF P
          <6>1. \A s, t \in Seq(P) : IndexesIn(s \o t) = IndexesIn(s) \union IndexesIn(t)
            BY IndexesOfSequences
          <6> QED BY <1>3, <3>2, <6>1
        <5> QED BY <5>1 DEF IndexesIn, Range
      <4>3. IndexesIn(NowSimple(p)) \union IndexesIn(StillMixed(p)) =
              {ReducePartByPart(mixed[k], p).indexes : k \in DOMAIN mixed}
        <5>1. IndexesIn(NowSimple(p)) \union IndexesIn(StillMixed(p)) =
                {q.indexes : q \in Range(NowSimple(p)) \union Range(StillMixed(p))}
          BY <4>2
        <5> QED BY <3>2, <5>1
      <4> QED BY <3>1, <3>2, <4>1, <4>2, <4>3
    <3>4. DecoderInv'
      BY <1>1, <1>2, <2>1, <2>2, <2>3, <3>1, <3>3 DEF DecoderInv
    <3>5. \A V : IsSubspace(V) => (Told \subseteq V <=> Told' \subseteq V)
      <4>1. Told' = {{j} : j \in DOMAIN simple} \union {{i}} \union IndexesIn(Tail(queued))
                      \union {ReducePartByPart(mixed[k], p).indexes : k \in DOMAIN mixed}
        BY <2>4, <3>3 DEF Told
      <4>2. ASSUME NEW V, IsSubspace(V), {i} \in V, NEW k \in DOMAIN mixed
            PROVE  mixed[k].indexes \in V <=> ReducePartByPart(mixed[k], p).indexes \in V
        <5>1. mixed[k] \in P
          BY <1>2
        <5>2. p.indexes \in V
          BY <1>4, <4>2
        <5> HIDE DEF p, i
        <5> QED BY <1>3, <4>2, <5>1, <5>2, Reducing
      <4> HIDE DEF i, p
      <4>3. ASSUME NEW V, IsSubspace(V), {i} \in V
            PROVE  IndexesIn(mixed) \subseteq V <=>
                   {ReducePartByPart(mixed[k], p).indexes : k \in DOMAIN mixed} \subseteq V
        BY <4>2, <4>3 DEF IndexesIn
      <4> QED BY <1>5, <4>1, <4>3
    <3>6. Known' = Known
      BY <3>4, <3>5, NothingIsLost
    <3> QED BY <1>1, <3>1, <3>4, <3>6
  <2> QED BY <2>5, <2>6
<1> QED BY <1>6, <1>7

\* A mixed part is reduced, and what it is reduced to reduces the others.
LEMMA MixedPartsAreKept ==
  ASSUME DecoderInv, ProcessMixedPart
  PROVE  DecoderInv' /\ Known' = Known /\ UNCHANGED <<expected, result>>
<1> DEFINE h == Head(queued)
           p == Reduced(h)
           P == PartsOf(expected)
           S == {{j} : j \in DOMAIN simple}
<1>1. /\ queued # << >> /\ result = NoMessage
      /\ expected' = expected /\ simple' = simple /\ result' = result
  BY DEF ProcessMixedPart, Resting
<1>2. expected # NoMessage /\ expected \in Messages /\ mixed \in Seq(P) /\ queued \in Seq(P)
  BY <1>1 DEF DecoderInv
<1>3. h \in P /\ Tail(queued) \in Seq(P)
  BY <1>1, <1>2, HeadTailProperties
<1>4. /\ p \in P
      /\ \A V : IsSubspace(V) /\ S \subseteq V /\ IndexesIn(mixed) \subseteq V =>
           (h.indexes \in V <=> p.indexes \in V)
  BY <1>2, <1>3, ReducingByAll
<1>5. \A u : IndexesIn(u) = {q.indexes : q \in Range(u)}
  BY DEF IndexesIn, Range
<1>6. Told = S \union IndexesIn(mixed) \union {h.indexes} \union IndexesIn(Tail(queued))
  <2>1. Range(queued) = {h} \union Range(Tail(queued))
    BY <1>1, <1>2, IndexesOfSequences
  <2>2. IndexesIn(queued) = {h.indexes} \union IndexesIn(Tail(queued))
    BY <1>5, <2>1
  <2> HIDE DEF h
  <2> QED BY <2>2 DEF Told
<1> HIDE DEF p, h
<1>7. CASE IsSimple(p)
  <2>1. queued' = Append(Tail(queued), p) /\ mixed' = mixed
    BY <1>7 DEF ProcessMixedPart, p, h
  <2>2. Append(Tail(queued), p) \in Seq(P)
    BY <1>3, <1>4
  <2>3. DecoderInv'
    BY <1>1, <1>2, <2>1, <2>2 DEF DecoderInv
  <2>4. Told' = S \union IndexesIn(mixed) \union IndexesIn(Tail(queued)) \union {p.indexes}
    <3>1. Range(Append(Tail(queued), p)) = Range(Tail(queued)) \union {p}
      <4>1. \A s \in Seq(P) : Range(Append(s, p)) = Range(s) \union {p}
        BY IndexesOfSequences
      <4> QED BY <1>3, <4>1
    <3>2. IndexesIn(Append(Tail(queued), p)) = IndexesIn(Tail(queued)) \union {p.indexes}
      BY <1>5, <3>1
    <3>3. Told' = S \union IndexesIn(mixed) \union IndexesIn(Append(Tail(queued), p))
      BY <1>1, <2>1 DEF Told
    <3> QED BY <3>2, <3>3
  <2>5. \A V : IsSubspace(V) => (Told \subseteq V <=> Told' \subseteq V)
    <3> HIDE DEF S
    <3> QED BY <1>4, <1>6, <2>4
  <2> QED BY <1>1, <2>3, <2>5, NothingIsLost
<1>8. CASE ~IsSimple(p)
  <2> DEFINE R == {ReducePartByPart(mixed[k], p).indexes : k \in DOMAIN mixed}
  <2>1. queued' = Tail(queued) \o NowSimple(p) /\ mixed' = Put(StillMixed(p), p)
    BY <1>8 DEF ProcessMixedPart, p, h
  <2>2. /\ NowSimple(p) \in Seq(P) /\ StillMixed(p) \in Seq(P)
        /\ Range(NowSimple(p)) \union Range(StillMixed(p)) = {ReducePartByPart(mixed[k], p) : k \in DOMAIN mixed}
    BY <1>2, <1>4, MixedReducing
  <2>3. Put(StillMixed(p), p) \in Seq(P) /\ Range(Put(StillMixed(p), p)) = Range(StillMixed(p)) \union {p}
    BY <1>4, <2>2, Putting
  <2>4. Tail(queued) \o NowSimple(p) \in Seq(P)
    BY <1>3, <2>2, ConcatProperties
  <2>5. DecoderInv'
    BY <1>1, <1>2, <2>1, <2>3, <2>4 DEF DecoderInv
  <2>6. Told' = S \union IndexesIn(Tail(queued)) \union R \union {p.indexes}
    <3>1. IndexesIn(Tail(queued) \o NowSimple(p)) = IndexesIn(Tail(queued)) \union IndexesIn(NowSimple(p))
      <4> HIDE DEF P
      <4>1. \A s, t \in Seq(P) : IndexesIn(s \o t) = IndexesIn(s) \union IndexesIn(t)
        BY IndexesOfSequences
      <4> QED BY <1>3, <2>2, <4>1
    <3>2. IndexesIn(Put(StillMixed(p), p)) = IndexesIn(StillMixed(p)) \union {p.indexes}
      BY <1>5, <2>3
    <3>3. IndexesIn(NowSimple(p)) \union IndexesIn(StillMixed(p)) = R
      <4>1. IndexesIn(NowSimple(p)) \union IndexesIn(StillMixed(p)) =
              {q.indexes : q \in Range(NowSimple(p)) \union Range(StillMixed(p))}
        BY <1>5
      <4> QED BY <2>2, <4>1
    <3>4. Told' = S \union IndexesIn(Put(StillMixed(p), p)) \union IndexesIn(Tail(queued) \o NowSimple(p))
      BY <1>1, <2>1 DEF Told
    <3> HIDE DEF S, R
    <3> QED BY <3>1, <3>2, <3>3, <3>4
  <2>7. ASSUME NEW V, IsSubspace(V), p.indexes \in V PROVE IndexesIn(mixed) \subseteq V <=> R \subseteq V
    <3>1. \A k \in DOMAIN mixed : mixed[k].indexes \in V <=> ReducePartByPart(mixed[k], p).indexes \in V
      <4> TAKE k \in DOMAIN mixed
      <4>1. mixed[k] \in P
        BY <1>2
      <4> QED BY <1>4, <2>7, <4>1, Reducing
    <3> QED BY <3>1 DEF IndexesIn
  <2>8. ASSUME NEW V, IsSubspace(V) PROVE Told \subseteq V <=> Told' \subseteq V
    <3> HIDE DEF S, R
    <3>1. ASSUME Told \subseteq V PROVE Told' \subseteq V
      <4>1. p.indexes \in V
        BY <1>4, <1>6, <2>8, <3>1
      <4> QED BY <1>6, <2>6, <2>7, <2>8, <3>1, <4>1
    <3>2. ASSUME Told' \subseteq V PROVE Told \subseteq V
      <4>1. IndexesIn(mixed) \subseteq V
        BY <2>6, <2>7, <2>8, <3>2
      <4>2. h.indexes \in V
        BY <1>4, <2>6, <2>8, <3>2, <4>1
      <4> QED BY <1>6, <2>6, <3>2, <4>1, <4>2
    <3> QED BY <3>1, <3>2
  <2> QED BY <1>1, <2>5, <2>8, NothingIsLost
<1> QED BY <1>7, <1>8

-----------------------------------------------------------------------------
(* The scan, around the decoder. *)

\* What a scan of one sender's codes has come to.
Understood ==
  LET m == Now.alone IN
  /\ scan = "raised" => MayRaise(Now.shows)
  /\ status = "INVALID" => MayBeRefused(Now.shows, m)
  /\ expected \in {NoMessage, m}
  /\ complete => Result = m
  /\ segments # << >> =>
       \E n \in Nat : /\ segments \in [1 .. n -> {NoPiece} \union {[of |-> m, num |-> i] : i \in 1 .. n}]
                      /\ \A i \in 1 .. n : segments[i] \in {NoPiece, [of |-> m, num |-> i]}
                      /\ \A f \in Now.shows : f.kind = "segment" => f.total = n

\* The pieces there are were shown as pieces of a code of type t in as many pieces.
PieceIsShown(piece, i, n, t, shows) ==
  \E f \in shows :
    /\ f.kind = "segment" /\ detect_segment_type(f) = t /\ f.total = n
    /\ SlotOf(f) = i /\ piece = [of |-> f.of, num |-> f.num]

AllShown(pieces, t, shows) ==
  \E n \in Nat : /\ DOMAIN pieces = 1 .. n /\ Len(pieces) = n
                 /\ \A i \in 1 .. n : pieces[i] = NoPiece \/ PieceIsShown(pieces[i], i, n, t, shows)

\* What any scan has taken, and from what it was shown.
Taken ==
  /\ qrType = "None" => segments = << >> /\ expected = NoMessage
  /\ qrType = "None" \/ \E f \in Now.shows : detect_segment_type(f) = qrType
  /\ scan = "working" => qrType \in UrTypes
  /\ complete => scan = "done"
  /\ AllShown(segments, qrType, Now.shows)
  /\ expected # NoMessage => ShowsMessage(expected)
  /\ complete => IF qrType \in AnimatedTypes THEN \A i \in DOMAIN segments : segments[i] # NoPiece
                                             ELSE ShowsMessage(whole)

ScanInv ==
  /\ DecoderInv
  /\ scan # "routed" => scenario \in DOMAIN Scenarios /\ Taken
  /\ scan # "routed" /\ Now.alone # NoMessage => Understood


LEMMA InitScan == Init => ScanInv
<1> SUFFICES ASSUME Init PROVE ScanInv
  OBVIOUS
<1>1. /\ expected = NoMessage /\ simple = << >> /\ mixed = << >> /\ queued = << >> /\ result = NoMessage
      /\ qrType = "None" /\ segments = << >> /\ complete = FALSE /\ status = "FALSE"
      /\ scan = "reading" /\ scenario \in DOMAIN Scenarios
  BY DEF Init, ScanInit, DecoderIsNew, FountainInit
<1>2. DecoderInv
  BY <1>1 DEF DecoderInv
<1>3. Understood
  BY <1>1 DEF Understood
<1>4. Taken
  <2>1. DOMAIN segments = 1 .. 0 /\ Len(segments) = 0
    BY <1>1
  <2>2. AllShown(segments, qrType, Now.shows)
    BY <2>1 DEF AllShown
  <2> QED BY <1>1, <2>2 DEF Taken
<1> QED BY <1>1, <1>2, <1>3, <1>4 DEF ScanInv

LEMMA NothingHappens ==
  ASSUME DecoderInv, UNCHANGED fountainVars
  PROVE  DecoderInv' /\ UNCHANGED <<expected, Known, result>>
<1>1. DecoderInv'
  BY DEF DecoderInv, fountainVars
<1>2. Told' = Told
  BY DEF Told, fountainVars
<1> QED BY <1>1, <1>2, NothingIsLost DEF fountainVars

\* Whatever is scanned, the decoder takes it as an ErasureCode does.
LEMMA DecoderStep ==
  ASSUME DecoderInv, [Next]_vars
  PROVE  /\ DecoderInv'
         /\ UNCHANGED <<expected, Known, result>> \/ Routes \/ Abstract!Next
<1>1. ASSUME NEW f \in Frames, ReadsPart(f)
      PROVE  DecoderInv' /\ (UNCHANGED <<expected, Known, result>> \/ Abstract!Next)
  <2>1. f.of \in Messages /\ f.part \in EncoderParts(f.of) /\ ReceivePart(f.of, f.part)
    BY <1>1, PartsAssumption DEF ReadsPart
  <2>2. CASE UNCHANGED fountainVars
    BY <2>2, NothingHappens
  <2>3. CASE Abstract!Learn(f.of)
    BY <2>1, <2>3, ReceivingIsLearning DEF Abstract!Next
  <2> QED BY <2>1, <2>2, <2>3, ReceivingIsLearning
<1>2. ASSUME NEW f \in Frames, ReadsFrame(f), ~ReadsPart(f) PROVE UNCHANGED fountainVars
  BY <1>2 DEF ReadsFrame, TypeChanges, ReadsUnknown, ReadsWhole, ReadsDamaged, ReadsSegment, ReadsSingle
<1>3. CASE WorksOff
  <2>1. ProcessSimplePart \/ ProcessMixedPart
    BY <1>3 DEF WorksOff, ProcessQueueItem
  <2>2. CASE ProcessSimplePart
    BY <2>2, SimplePartsAreKept DEF Abstract!Next
  <2>3. CASE ProcessMixedPart
    BY <2>3, MixedPartsAreKept
  <2> QED BY <2>1, <2>2, <2>3
<1>4. CASE PartIsDone \/ UserLeaves
  BY <1>4, NothingHappens DEF PartIsDone, UserLeaves
<1>5. CASE Routes
  BY <1>5 DEF Routes, DecoderInv
<1>6. CASE UNCHANGED scanVars
  BY <1>6, NothingHappens DEF scanVars
<1>7. CASE \E f \in Frames : ReadsFrame(f)
  BY <1>1, <1>2, <1>7, NothingHappens
<1> QED BY <1>3, <1>4, <1>5, <1>6, <1>7 DEF Next, vars, Sees, HandsOver, GoesElsewhere

\* receive_part and process_queue_item work like an ErasureCode: at each item of the
\* queue the parts held determine just what the parts received have determined, and
\* the result is the message of the first part, when all its fragments are determined.
THEOREM ErasureCodeTheorem == Spec => ImplementsErasureCode
<1>1. Init => DecoderInv /\ Abstract!Init
  <2> SUFFICES ASSUME Init PROVE DecoderInv /\ Abstract!Init
    OBVIOUS
  <2>1. DecoderInv
    BY InitScan DEF ScanInv
  <2>2. expected = NoMessage /\ result = NoMessage
    BY DEF Init, ScanInit, DecoderIsNew, FountainInit
  <2>3. Known = {{}}
    BY <2>2 DEF Known
  <2> QED BY <2>1, <2>2, <2>3 DEF Abstract!Init
<1>2. DecoderInv /\ [Next]_vars => DecoderInv' /\ [Routes \/ Abstract!Next]_<<expected, Known, result>>
  BY DecoderStep
<1> QED BY <1>1, <1>2, PTL DEF Spec, ImplementsErasureCode

-----------------------------------------------------------------------------
(* Any codes. *)

\* Code by code: its kind, and what it is taken for.
LEMMA Kinds ==
  ASSUME NEW f \in Frames
  PROVE  /\ detect_segment_type(f) \in UrTypes => f.kind \in {"part", "whole", "damaged"}
         /\ detect_segment_type(f) \in AnimatedTypes => f.kind = "segment" /\ f.num \in Nat /\ f.total \in Nat
         /\ detect_segment_type(f) = "invalid" => f.kind = "single"
         /\ f.kind = "single" => detect_segment_type(f) \notin UrTypes \union AnimatedTypes
<1> HIDE DEF Frames
<1> QED BY KindsAssumption DEF UrTypes, AnimatedTypes

LEMMA FrameIsShown ==
  ASSUME NEW f \in Frames, ReadsFrame(f)
  PROVE  f \in Now.shows /\ scan = "reading" /\ scenario' = scenario /\ Now' = Now
<1>1. f \in Now.shows /\ scan = "reading" /\ scenario' = scenario
  BY DEF ReadsFrame, TypeChanges, ReadsUnknown, ReadsPart, ReadsWhole, ReadsDamaged, ReadsSegment,
         ReadsSingle, Reads
<1> QED BY <1>1 DEF Now

\* A segment goes to its own place, among those of codes in as many pieces.
LEMMA SegmentIsTaken ==
  ASSUME ScanInv, scan # "routed", NEW f \in Frames, f \in Now.shows, ReadsSegment(f)
  PROVE  Taken'
<1> DEFINE n      == f.total
           t      == detect_segment_type(f)
           piece  == [of |-> f.of, num |-> f.num]
           before == IF segments = << >> THEN [i \in 1 .. n |-> NoPiece] ELSE segments
           after  == [before EXCEPT ![SlotOf(f)] = piece]
<1>1. /\ scan = "reading" /\ qrType \in {"None", t} /\ qrType' = t /\ t # "None"
      /\ expected' = expected /\ AddsSegment(f) /\ t \in AnimatedTypes
      /\ f.kind = "segment" /\ n \in Nat /\ Now' = Now
  BY Kinds DEF ReadsSegment, Reads, Accepts, fountainVars, Now, AnimatedTypes
<1>2. Taken /\ ~complete
  BY <1>1 DEF ScanInv, Taken
<1> HIDE DEF t
<1>3. AllShown(before, t, Now.shows)
  <2>1. CASE segments = << >>
    <3>1. DOMAIN before = 1 .. n /\ Len(before) = n /\ \A i \in 1 .. n : before[i] = NoPiece
      BY <1>1, <2>1
    <3> HIDE DEF before, n
    <3> QED BY <1>1, <3>1 DEF AllShown
  <2>2. CASE segments # << >>
    <3>1. qrType = t
      BY <1>1, <1>2, <2>2 DEF Taken
    <3> QED BY <1>2, <2>2, <3>1 DEF Taken
  <2> QED BY <2>1, <2>2
<1>4. ASSUME Len(before) = n, SlotOf(f) \in DOMAIN before PROVE AllShown(after, t, Now.shows)
  <2>1. PieceIsShown(piece, SlotOf(f), n, t, Now.shows)
    BY <1>1 DEF PieceIsShown, t
  <2>2. PICK k \in Nat : /\ DOMAIN before = 1 .. k /\ Len(before) = k
                         /\ \A i \in 1 .. k : before[i] = NoPiece \/ PieceIsShown(before[i], i, k, t, Now.shows)
    BY <1>3 DEF AllShown
  <2> HIDE DEF before, piece, n
  <2>3. /\ DOMAIN after = 1 .. k /\ k = n
        /\ \A i \in 1 .. k : after[i] = NoPiece \/ PieceIsShown(after[i], i, k, t, Now.shows)
    BY <1>4, <2>1, <2>2
  <2>4. after = [i \in 1 .. k |-> after[i]]
    BY <2>2
  <2> HIDE DEF after
  <2>5. Len(after) = k
    BY <2>3, <2>4
  <2> QED BY <2>2, <2>3, <2>5 DEF AllShown
<1>5. \/ scan' = "raised" /\ segments' = before /\ ~complete'
      \/ \E pieces : /\ segments' = pieces /\ AllShown(pieces, t, Now.shows)
                     /\ \E st : EndsWith(st) /\ (st = "COMPLETE" => Collected(pieces) = DOMAIN pieces)
  <2>1. CASE Len(before) # n \/ SlotOf(f) \notin DOMAIN before
    BY <1>1, <1>2, <2>1 DEF AddsSegment
  <2>2. CASE Len(before) = n /\ SlotOf(f) \in DOMAIN before /\ before[SlotOf(f)] # NoPiece
    <3>1. EndsWith("PART_EXISTING") /\ segments' = segments
      BY <1>1, <2>2 DEF AddsSegment
    <3>2. before = segments
      BY <2>2
    <3> HIDE DEF before
    <3> QED BY <1>3, <3>1, <3>2
  <2>3. CASE Len(before) = n /\ SlotOf(f) \in DOMAIN before /\ before[SlotOf(f)] = NoPiece
    <3>1. /\ segments' = after
          /\ \E st \in IF Collected(after) = DOMAIN after THEN Verdicts(after) ELSE {"PART_COMPLETE"} : EndsWith(st)
      BY <1>1, <2>3 DEF AddsSegment
    <3>2. AllShown(after, t, Now.shows)
      BY <1>4, <2>3
    <3> HIDE DEF after, before
    <3> QED BY <3>1, <3>2
  <2> QED BY <2>1, <2>2, <2>3
<1> HIDE DEF before, after
<1>6. AllShown(segments, t, Now.shows)'
  <2>1. AllShown(segments', t, Now.shows)
    BY <1>3, <1>5
  <2> QED BY <1>1, <2>1 DEF t
<1>7. /\ complete' => scan' = "done" /\ \A i \in DOMAIN segments' : segments'[i] # NoPiece
      /\ scan' \in {"done", "reading", "raised"}
  BY <1>5 DEF EndsWith, Collected
<1>8. expected' # NoMessage => ShowsMessage(expected)'
  <2> SUFFICES ASSUME expected' # NoMessage PROVE ShowsMessage(expected)'
    OBVIOUS
  <2>1. qrType' = qrType
    BY <1>1, <1>2 DEF Taken
  <2> QED BY <1>1, <1>2, <2>1 DEF Taken, ShowsMessage
<1>9. \E g \in Now'.shows : detect_segment_type(g) = qrType'
  BY <1>1 DEF t
<1> QED BY <1>1, <1>6, <1>7, <1>8, <1>9 DEF Taken, t

LEMMA FrameIsTaken ==
  ASSUME ScanInv, scan # "routed", NEW f \in Frames, ReadsFrame(f)
  PROVE  Taken'
<1>1. Taken
  BY DEF ScanInv
<1>2. f \in Now.shows /\ scan = "reading" /\ Now' = Now
  BY FrameIsShown
<1>3. ~complete
  BY <1>1, <1>2 DEF Taken
<1>4. UrTypes \intersect AnimatedTypes = {} /\ "None" \notin UrTypes
  BY DEF UrTypes, AnimatedTypes
<1>5. ASSUME Reads(f)
      PROVE  /\ qrType' = detect_segment_type(f) /\ (qrType # "None" => qrType' = qrType)
             /\ \E g \in Now'.shows : detect_segment_type(g) = qrType'
             /\ segments' = segments => AllShown(segments, qrType, Now.shows)'
             /\ expected' = expected /\ expected # NoMessage => ShowsMessage(expected)'
  <2>1. qrType' = detect_segment_type(f) /\ (qrType # "None" => qrType' = qrType)
    BY <1>5 DEF Reads, Accepts
  <2>2. ASSUME segments' = segments PROVE AllShown(segments, qrType, Now.shows)'
    <3>1. CASE qrType = "None"
      <4>1. DOMAIN segments' = 1 .. 0 /\ Len(segments') = 0
        BY <1>1, <2>2, <3>1 DEF Taken
      <4> QED BY <4>1 DEF AllShown
    <3>2. CASE qrType # "None"
      BY <1>1, <1>2, <2>1, <2>2, <3>2 DEF Taken
    <3> QED BY <3>1, <3>2
  <2>3. ASSUME expected' = expected, expected # NoMessage PROVE ShowsMessage(expected)'
    <3>1. qrType # "None"
      BY <1>1, <2>3 DEF Taken
    <3> QED BY <1>1, <1>2, <2>1, <2>3, <3>1 DEF Taken, ShowsMessage
  <2> QED BY <1>2, <2>1, <2>2, <2>3
<1>6. ASSUME Reads(f), segments' = segments, expected' = expected, complete' => scan' = "done",
             scan' = "working" => qrType' \in UrTypes,
             complete' => qrType' \notin AnimatedTypes /\ ShowsMessage(whole)'
      PROVE  Taken'
  BY <1>1, <1>2, <1>4, <1>5, <1>6 DEF Taken
<1>7. CASE TypeChanges(f)
  <2>1. /\ scan' = "raised" /\ complete' = complete /\ whole' = whole
        /\ qrType' = qrType /\ segments' = segments /\ expected' = expected
    BY <1>7 DEF TypeChanges, fountainVars
  <2> QED BY <1>1, <1>2, <1>3, <2>1 DEF Taken, ShowsMessage
<1>8. CASE ReadsUnknown(f)
  BY <1>3, <1>6, <1>8 DEF ReadsUnknown, fountainVars
<1>9. CASE ReadsPart(f)
  <2>1. /\ Reads(f) /\ detect_segment_type(f) \in UrTypes /\ f.kind = "part" /\ ReceivePart(f.of, f.part)
        /\ segments' = segments
    BY <1>9 DEF ReadsPart
  <2>2. ~complete' /\ scan' \in {"working", "reading"}
    BY <1>3, <1>9 DEF ReadsPart, EndsWith
  <2>3. expected' \in {expected, f.of}
    BY <2>1 DEF ReceivePart, fountainVars
  <2>4. ShowsMessage(f.of)'
    BY <1>2, <1>5, <2>1 DEF ShowsMessage
  <2>5. expected' # NoMessage => ShowsMessage(expected)'
    BY <1>5, <2>1, <2>3, <2>4
  <2> QED BY <1>1, <1>2, <1>4, <1>5, <2>1, <2>2, <2>5 DEF Taken
<1>10. CASE ReadsWhole(f)
  <2>1. /\ Reads(f) /\ detect_segment_type(f) \in UrTypes /\ f.kind = "whole"
        /\ whole' = f.of /\ EndsWith("COMPLETE") /\ segments' = segments /\ expected' = expected
    BY <1>10 DEF ReadsWhole, fountainVars
  <2>2. ShowsMessage(whole)'
    BY <1>2, <1>5, <2>1 DEF ShowsMessage
  <2> QED BY <1>4, <1>5, <1>6, <2>1, <2>2 DEF EndsWith
<1>11. CASE ReadsDamaged(f)
  BY <1>6, <1>11 DEF ReadsDamaged, fountainVars, EndsWith
<1>12. CASE ReadsSingle(f)
  <2>1. /\ Reads(f) /\ f.kind = "single" /\ segments' = segments /\ expected' = expected
        /\ detect_segment_type(f) \notin AnimatedTypes
    BY <1>12, Kinds DEF ReadsSingle, fountainVars
  <2>2. CASE f.adds = "raises"
    <3>1. scan' = "raised" /\ complete' = complete
      BY <1>12, <2>2 DEF ReadsSingle
    <3> QED BY <1>3, <1>6, <2>1, <3>1
  <2>3. CASE f.adds # "raises"
    <3>1. EndsWith(f.adds) /\ (f.adds = "COMPLETE" => whole' = f.of)
      BY <1>12, <2>3 DEF ReadsSingle
    <3>2. f.adds = "COMPLETE" => ShowsMessage(whole)'
      BY <1>2, <1>5, <2>1, <3>1 DEF ShowsMessage
    <3> QED BY <1>5, <1>6, <2>1, <3>1, <3>2 DEF EndsWith
  <2> QED BY <2>2, <2>3
<1>13. CASE ReadsSegment(f)
  BY <1>2, <1>13, SegmentIsTaken
<1> QED BY <1>7, <1>8, <1>9, <1>10, <1>11, <1>12, <1>13 DEF ReadsFrame

-----------------------------------------------------------------------------
(* One sender. *)

LEMMA SendersCodes ==
  ASSUME ScanInv, scan # "routed", Now.alone # NoMessage
  PROVE  /\ Now.alone \in Messages
         /\ \A f \in Now.shows : f.kind # "damaged" => f.of = Now.alone
         /\ \A f \in Now.shows : f.kind = "segment" =>
              /\ f.num \in 1 .. f.total
              /\ \A g \in Now.shows : g.kind = "segment" => g.total = f.total
<1>1. Now \in Range(Scenarios)
  BY DEF ScanInv, Now, Range
<1>2. IsOneSender(Now)
  BY <1>1, SendersAssumption
<1> HIDE DEF Now
<1> QED BY <1>2 DEF IsOneSender

\* A segment of the sender's is the one that belongs in its place.
LEMMA SegmentStep ==
  ASSUME ScanInv, scan # "routed", Now.alone # NoMessage, NEW f \in Frames, f \in Now.shows, ReadsSegment(f)
  PROVE  Understood'
<1> DEFINE m == Now.alone
           n == f.total
           Piece(i) == [of |-> m, num |-> i]
           Pieces == {NoPiece} \union {Piece(i) : i \in 1 .. n}
           before == IF segments = << >> THEN [i \in 1 .. n |-> NoPiece] ELSE segments
           after  == [before EXCEPT ![f.num] = [of |-> f.of, num |-> f.num]]
<1>1. /\ scan = "reading" /\ qrType' = detect_segment_type(f) /\ scenario' = scenario
      /\ expected' = expected /\ AddsSegment(f) /\ whole' = whole
      /\ detect_segment_type(f) \in AnimatedTypes
  BY DEF ReadsSegment, Reads, fountainVars
<1>2. Understood
  BY DEF ScanInv
<1>3. f.kind = "segment" /\ n \in Nat
  BY <1>1, Kinds
<1>4. /\ f.num \in 1 .. n /\ f.of = m /\ m \in Messages
      /\ \A g \in Now.shows : g.kind = "segment" => g.total = n
  BY <1>3, SendersCodes
<1>5. /\ before \in [1 .. n -> Pieces]
      /\ \A i \in 1 .. n : before[i] \in {NoPiece, Piece(i)}
  <2>1. CASE segments = << >>
    BY <2>1
  <2>2. CASE segments # << >>
    <3>1. PICK k \in Nat : /\ segments \in [1 .. k -> {NoPiece} \union {[of |-> Now.alone, num |-> i] : i \in 1 .. k}]
                           /\ \A i \in 1 .. k : segments[i] \in {NoPiece, [of |-> Now.alone, num |-> i]}
                           /\ \A g \in Now.shows : g.kind = "segment" => g.total = k
      BY <1>2, <2>2 DEF Understood
    <3>2. k = n
      BY <1>3, <3>1
    <3> QED BY <2>2, <3>1, <3>2
  <2> QED BY <2>1, <2>2
<1>6. Len(before) = n /\ DOMAIN before = 1 .. n
  <2> HIDE DEF before, Pieces, n
  <2>1. DOMAIN before = 1 .. n /\ before \in Seq(Pieces)
    BY <1>3, <1>5
  <2> QED BY <1>3, <2>1
<1>7. SlotOf(f) = f.num
  BY <1>3, <1>4 DEF SlotOf
<1>8. /\ after \in [1 .. n -> Pieces] /\ DOMAIN after = 1 .. n
      /\ \A i \in 1 .. n : after[i] \in {NoPiece, Piece(i)}
  <2>1. [of |-> f.of, num |-> f.num] = Piece(f.num) /\ Piece(f.num) \in Pieces
    BY <1>4
  <2> HIDE DEF before, Pieces, Piece, n
  <2> QED BY <1>4, <1>5, <2>1
<1>9. Collected(after) = DOMAIN after => Together(after) = m
  <2> SUFFICES ASSUME Collected(after) = DOMAIN after PROVE Together(after) = m
    OBVIOUS
  <2>1. \A i \in 1 .. n : after[i] = Piece(i)
    <3> HIDE DEF after
    <3> QED BY <1>8 DEF Collected
  <2>2. InOrder(after)
    <3> HIDE DEF after
    <3> QED BY <1>4, <1>8, <2>1 DEF InOrder
  <2>3. after[1].of = m
    <3> HIDE DEF after
    <3>1. 1 \in 1 .. n
      BY <1>3, <1>4
    <3>2. after[1] = Piece(1)
      <4> HIDE DEF Piece
      <4> QED BY <2>1, <3>1
    <3> QED BY <3>2
  <2> QED BY <2>2, <2>3 DEF Together
<1>10. \/ EndsWith("PART_EXISTING") /\ segments' = segments
       \/ segments' = after
          /\ \E st \in IF Collected(after) = DOMAIN after THEN Verdicts(after) ELSE {"PART_COMPLETE"} : EndsWith(st)
  <2>1. after = [before EXCEPT ![SlotOf(f)] = [of |-> f.of, num |-> f.num]]
    BY <1>7
  <2>2. SlotOf(f) \in DOMAIN before /\ Len(before) = f.total
    BY <1>4, <1>6, <1>7
  <2> QED BY <1>1, <2>1, <2>2 DEF AddsSegment
<1>11. ASSUME Collected(after) = DOMAIN after, "INVALID" \in Verdicts(after)
       PROVE  MayBeRefused(Now.shows, m)
  <2>1. InOrder(after)
    <3>1. \A i \in 1 .. n : after[i] = Piece(i)
      <4> HIDE DEF after
      <4> QED BY <1>8, <1>11 DEF Collected
    <3> HIDE DEF after
    <3> QED BY <1>4, <1>8, <3>1 DEF InOrder
  <2>2. detect_segment_type(f) = "wallet__specter" /\ ~IsJsonWithDescriptor(m)
    <3> HIDE DEF after, m
    <3> QED BY <1>1, <1>9, <1>11, <2>1 DEF Verdicts
  <2> QED BY <2>2 DEF MayBeRefused
<1>12. \/ EndsWith("PART_EXISTING") /\ segments' = segments
       \/ \E st : /\ segments' = after /\ EndsWith(st)
                  /\ st = "INVALID" => MayBeRefused(Now.shows, m)
                  /\ st = "COMPLETE" => Together(after) = m
  <2> HIDE DEF after, m
  <2> QED BY <1>9, <1>10, <1>11
<1>13. after # << >>
  <2>1. f.num \in DOMAIN after
    BY <1>4, <1>8
  <2> HIDE DEF after
  <2> QED BY <2>1
<1>14. Now' = Now
  BY <1>1 DEF Now
<1> HIDE DEF after, before
<1>15. CASE EndsWith("PART_EXISTING") /\ segments' = segments
  <2>1. /\ status' = "PART_EXISTING" /\ complete' = FALSE /\ scan' = "reading"
    BY <1>15 DEF EndsWith
  <2> QED BY <1>1, <1>2, <1>14, <1>15, <2>1 DEF Understood, Result
<1>16. ASSUME NEW st, segments' = after, EndsWith(st), st = "INVALID" => MayBeRefused(Now.shows, m),
              st = "COMPLETE" => Together(after) = m
       PROVE  Understood'
  <2>1. status' = st /\ scan' \in {"reading", "done"} /\ (complete' => st = "COMPLETE")
    BY <1>16 DEF EndsWith
  <2>2. complete' => Result' = m
    BY <1>1, <1>16, <2>1 DEF Result
  <2>3. \A g \in Now.shows : g.kind = "segment" => g.total = n
    BY <1>4
  <2>4. \E k \in Nat : /\ segments' \in [1 .. k -> {NoPiece} \union {[of |-> m, num |-> i] : i \in 1 .. k}]
                       /\ \A i \in 1 .. k : segments'[i] \in {NoPiece, [of |-> m, num |-> i]}
                       /\ \A g \in Now.shows : g.kind = "segment" => g.total = k
    BY <1>3, <1>8, <1>16, <2>3
  <2> HIDE DEF m
  <2> QED BY <1>1, <1>2, <1>14, <1>16, <2>1, <2>2, <2>4 DEF Understood, m
<1> QED BY <1>12, <1>15, <1>16

LEMMA ReadingStep ==
  ASSUME ScanInv, scan # "routed", Now.alone # NoMessage, NEW f \in Frames, ReadsFrame(f)
  PROVE  Understood'
<1>1. Understood /\ Taken
  BY DEF ScanInv
<1>2. f \in Now.shows /\ scan = "reading" /\ Now' = Now
  BY FrameIsShown
<1>3. Now.alone \in Messages /\ (f.kind # "damaged" => f.of = Now.alone)
  BY <1>2, SendersCodes
<1>4. UrTypes \intersect AnimatedTypes = {}
  BY DEF UrTypes, AnimatedTypes
<1>5. ~complete
  BY <1>1, <1>2 DEF Taken
<1>6. ASSUME segments' = segments, expected' \in {expected, Now.alone},
             scan' = "raised" => MayRaise(Now.shows),
             status' = "INVALID" => MayBeRefused(Now.shows, Now.alone),
             complete' => Result' = Now.alone
      PROVE  Understood'
  BY <1>1, <1>2, <1>6 DEF Understood
<1>7. EndsWith("PART_EXISTING") => scan' = "reading" /\ status' = "PART_EXISTING" /\ ~complete'
  BY DEF EndsWith
<1>8. status = "INVALID" => MayBeRefused(Now.shows, Now.alone)
  BY <1>1 DEF Understood
<1>9. CASE TypeChanges(f)
  <2>1. /\ UNCHANGED <<segments, expected, status, complete>>
        /\ qrType # "None" /\ qrType # detect_segment_type(f)
    BY <1>9 DEF TypeChanges, fountainVars, Accepts
  <2>2. MayRaise(Now.shows)
    BY <1>1, <1>2, <2>1 DEF Taken, MayRaise
  <2> QED BY <1>5, <1>6, <1>8, <2>1, <2>2
<1>10. CASE ReadsUnknown(f)
  <2>1. /\ UNCHANGED <<segments, expected, complete>> /\ scan' = "done"
        /\ detect_segment_type(f) = "invalid"
    BY <1>10 DEF ReadsUnknown, fountainVars
  <2>2. MayBeRefused(Now.shows, Now.alone)
    BY <1>2, <2>1 DEF MayBeRefused
  <2> QED BY <1>5, <1>6, <2>1, <2>2
<1>11. CASE ReadsPart(f)
  <2>1. f.kind = "part" /\ ReceivePart(f.of, f.part) /\ segments' = segments
    BY <1>11 DEF ReadsPart
  <2>2. expected' \in {expected, Now.alone}
    BY <1>3, <2>1 DEF ReceivePart, fountainVars
  <2>3. \/ scan' = "working" /\ status' = status /\ complete' = complete
        \/ EndsWith("PART_EXISTING")
    BY <1>11 DEF ReadsPart
  <2> QED BY <1>5, <1>6, <1>7, <1>8, <2>1, <2>2, <2>3
<1>12. CASE ReadsWhole(f)
  <2>1. /\ qrType' \in UrTypes /\ f.kind = "whole"
        /\ whole' = f.of /\ EndsWith("COMPLETE") /\ segments' = segments /\ expected' = expected
    BY <1>12 DEF ReadsWhole, Reads, fountainVars
  <2>2. Result' = Now.alone
    BY <1>3, <1>4, <2>1 DEF Result
  <2> QED BY <1>6, <2>1, <2>2 DEF EndsWith
<1>13. CASE ReadsDamaged(f)
  <2>1. EndsWith("PART_EXISTING") /\ segments' = segments /\ expected' = expected
    BY <1>13 DEF ReadsDamaged, fountainVars
  <2> QED BY <1>6, <1>7, <2>1
<1>14. CASE ReadsSingle(f)
  <2>1. /\ f.kind = "single" /\ segments' = segments /\ expected' = expected
        /\ qrType' \notin AnimatedTypes
    BY <1>14, Kinds DEF ReadsSingle, Reads, fountainVars
  <2>2. CASE f.adds = "raises"
    <3>1. scan' = "raised" /\ UNCHANGED <<status, complete>>
      BY <1>14, <2>2 DEF ReadsSingle
    <3>2. MayRaise(Now.shows)
      BY <1>2, <2>1, <2>2 DEF MayRaise
    <3> QED BY <1>5, <1>6, <1>8, <2>1, <3>1, <3>2
  <2>3. CASE f.adds # "raises"
    <3>1. EndsWith(f.adds) /\ (f.adds = "COMPLETE" => whole' = Now.alone)
      BY <1>3, <1>14, <2>1, <2>3 DEF ReadsSingle
    <3>2. f.adds = "INVALID" => MayBeRefused(Now.shows, Now.alone)
      BY <1>2, <2>1 DEF MayBeRefused
    <3> QED BY <1>6, <2>1, <3>1, <3>2 DEF EndsWith, Result
  <2> QED BY <2>2, <2>3
<1>15. CASE ReadsSegment(f)
  BY <1>2, <1>15, SegmentStep
<1> QED BY <1>9, <1>10, <1>11, <1>12, <1>13, <1>14, <1>15 DEF ReadsFrame

LEMMA NextScan == ScanInv /\ [Next]_vars => ScanInv'
<1> SUFFICES ASSUME ScanInv, [Next]_vars PROVE ScanInv'
  OBVIOUS
<1>1. DecoderInv'
  BY DecoderStep DEF ScanInv
<1>2. CASE UNCHANGED scanVars
  BY <1>1, <1>2 DEF ScanInv, scanVars, fountainVars, Understood, Taken, Now, Result, ShowsMessage
<1>3. CASE Routes
  BY <1>1, <1>3 DEF ScanInv, Routes
<1>4. ASSUME NEW f \in Frames, ReadsFrame(f) PROVE ScanInv'
  <2>1. scan = "reading" /\ scenario' = scenario /\ Now' = Now
    BY <1>4, FrameIsShown
  <2> QED BY <1>1, <1>4, <2>1, ReadingStep, FrameIsTaken DEF ScanInv
<1>5. CASE WorksOff
  <2>1. /\ scan = "working" /\ UNCHANGED <<scenario, scan, qrType, whole, segments, complete, status>>
        /\ expected' = expected
    BY <1>5 DEF WorksOff, ProcessQueueItem, ProcessSimplePart, ProcessMixedPart
  <2> QED BY <1>1, <2>1 DEF ScanInv, Understood, Taken, Now, Result, ShowsMessage
<1>6. CASE PartIsDone
  <2>1. /\ scan = "working" /\ UNCHANGED <<scenario, qrType, segments, expected, result>>
        /\ \/ EndsWith("PART_EXISTING") /\ whole' = whole
           \/ EndsWith("PART_COMPLETE") /\ whole' = whole
           \/ result # NoMessage /\ whole' = result /\ EndsWith("COMPLETE")
    BY <1>6 DEF PartIsDone, fountainVars
  <2>2. /\ Now' = Now /\ scan' \in {"reading", "done"} /\ status' # "INVALID"
        /\ complete' => scan' = "done" /\ result # NoMessage /\ whole' = result
    BY <2>1 DEF Now, EndsWith
  <2>3. Taken /\ DecoderInv /\ qrType \notin AnimatedTypes
    BY <2>1 DEF ScanInv, Taken, UrTypes, AnimatedTypes
  <2>4. complete' => whole' = expected /\ expected # NoMessage
    BY <2>2, <2>3 DEF DecoderInv
  <2>5. Taken'
    <3>1. complete' => ShowsMessage(whole)'
      BY <2>1, <2>2, <2>3, <2>4 DEF Taken, ShowsMessage
    <3> QED BY <2>1, <2>2, <2>3, <3>1 DEF Taken, ShowsMessage
  <2>6. ASSUME Now.alone # NoMessage PROVE Understood'
    <3>1. Understood
      BY <2>1, <2>6 DEF ScanInv
    <3>2. complete' => Result' = Now.alone
      BY <2>1, <2>3, <2>4, <3>1 DEF Result, Understood
    <3> QED BY <2>1, <2>2, <3>1, <3>2 DEF Understood
  <2> QED BY <1>1, <2>1, <2>2, <2>5, <2>6 DEF ScanInv
<1>7. CASE UserLeaves
  <2>1. /\ scan = "reading" /\ scan' = "done" /\ expected' = expected
        /\ UNCHANGED <<scenario, qrType, whole, segments, complete, status>>
    BY <1>7 DEF UserLeaves, fountainVars
  <2> QED BY <1>1, <2>1 DEF ScanInv, Understood, Taken, Now, Result, ShowsMessage
<1> QED BY <1>2, <1>3, <1>4, <1>5, <1>6, <1>7 DEF Next, vars, Sees, HandsOver, GoesElsewhere

\* The codes of one sender, missed, repeated and in any order: add_data raises only
\* if two of them are taken for different formats or a single-frame decoder raises,
\* refuses only what is of no format or not what its format is for, and what the
\* scan completes with is that sender's message.
THEOREM OneSenderTheorem == Spec => []OneSenderIsUnderstood
<1>1. Init => ScanInv
  BY InitScan
<1>2. ScanInv /\ [Next]_vars => ScanInv'
  BY NextScan
<1>3. ScanInv => OneSenderIsUnderstood
  BY DEF ScanInv, Understood, OneSenderIsUnderstood
<1> QED BY <1>1, <1>2, <1>3, PTL DEF Spec

\* Whoever shows what in between: the pieces a scan completes with were shown as that
\* many pieces of the format that is decoded, each in its place, and a UR or a single
\* code is a message that was shown in that format.
THEOREM ShownTheorem == Spec => []CompletesWithWhatWasShown
<1>1. Init => ScanInv
  BY InitScan
<1>2. ScanInv /\ [Next]_vars => ScanInv'
  BY NextScan
<1>3. ScanInv => CompletesWithWhatWasShown
  <2> SUFFICES ASSUME ScanInv, scan # "routed", complete
               PROVE  IF qrType \in AnimatedTypes
                      THEN \A i \in DOMAIN segments : ShowsPiece(segments[i], i, Len(segments))
                      ELSE ShowsMessage(Result)
    BY DEF CompletesWithWhatWasShown
  <2>1. Taken
    BY DEF ScanInv
  <2>2. CASE qrType \in AnimatedTypes
    <3>1. \A i \in DOMAIN segments : PieceIsShown(segments[i], i, Len(segments), qrType, Now.shows)
      BY <2>1, <2>2 DEF Taken, AllShown
    <3> QED BY <2>2, <3>1 DEF PieceIsShown, ShowsPiece
  <2>3. CASE qrType \notin AnimatedTypes
    BY <2>1, <2>3 DEF Taken, Result
  <2> QED BY <2>2, <2>3
<1> QED BY <1>1, <1>2, <1>3, PTL DEF Spec

\* Both together: a scan of one sender's codes ends in that sender's message or for one
\* of the reasons named, and no scan at all completes with anything that was not shown.
THEOREM ScanTheorem == Spec => []EachScanIsUnderstood
BY OneSenderTheorem, ShownTheorem, PTL DEF EachScanIsUnderstood

-----------------------------------------------------------------------------
(* Filling in fingerprints. *)

\* A scope that is filled in pays to the same script, by the same scripts.
LEMMA FilledScope ==
  ASSUME NEW x, IsScope(x), NEW s
  PROVE  /\ IsScope(Filled(x, s))
         /\ DOMAIN Filled(x, s).claims = DOMAIN x.claims
         /\ \A i \in DOMAIN x.claims :
              Filled(x, s).claims[i] = IF x.claims[i].fp = Zero /\ SeedOwnsPubkey(s, x.claims[i])
                                       THEN [x.claims[i] EXCEPT !.fp = s] ELSE x.claims[i]
<1> DEFINE named(c) == IF c.fp = Zero /\ SeedOwnsPubkey(s, c) THEN [c EXCEPT !.fp = s] ELSE c
           claims   == [i \in DOMAIN x.claims |-> named(x.claims[i])]
<1>1. Filled(x, s) = [x EXCEPT !.claims = claims]
  BY DEF Filled
<1>2. x = [spk |-> x.spk, claims |-> x.claims, witness_script |-> x.witness_script,
           redeem_script |-> x.redeem_script, value |-> x.value, utxo |-> x.utxo]
  BY DEF IsScope, Scope
<1> HIDE DEF claims
<1>3. Filled(x, s) = [spk |-> x.spk, claims |-> claims, witness_script |-> x.witness_script,
                      redeem_script |-> x.redeem_script, value |-> x.value, utxo |-> x.utxo]
  BY <1>1, <1>2
<1>4. ASSUME NEW c, c = [Claim(c.fp, c.key, c.path) EXCEPT !.taproot = c.taproot]
      PROVE  named(c) = [Claim(named(c).fp, named(c).key, named(c).path) EXCEPT !.taproot = named(c).taproot]
  BY <1>4 DEF Claim
<1>5. DOMAIN claims = DOMAIN x.claims /\ \A i \in DOMAIN x.claims : claims[i] = named(x.claims[i])
  BY DEF claims
<1> DEFINE isClaim(c) == c = [Claim(c.fp, c.key, c.path) EXCEPT !.taproot = c.taproot]
<1>6. \A i \in DOMAIN x.claims : isClaim(x.claims[i])
  BY DEF IsScope
<1> HIDE DEF isClaim
<1>7. \A i \in DOMAIN claims : isClaim(claims[i])
  <2>1. \A c : isClaim(c) => isClaim(named(c))
    BY <1>4 DEF isClaim
  <2> HIDE DEF named
  <2> QED BY <1>5, <1>6, <2>1
<1>8. IsScope(Filled(x, s)) /\ Filled(x, s).claims = claims
  BY <1>3, <1>7 DEF IsScope, Scope, isClaim
<1> QED BY <1>5, <1>8 DEF named

LEMMA FilledTransaction ==
  ASSUME NEW p, IsTransaction(p), NEW s
  PROVE  /\ IsTransaction(FilledPsbt(p, s))
         /\ DOMAIN FilledPsbt(p, s).inputs = DOMAIN p.inputs
         /\ \A i \in DOMAIN p.inputs : FilledPsbt(p, s).inputs[i] = Filled(p.inputs[i], s)
<1> DEFINE inputs  == [i \in DOMAIN p.inputs |-> Filled(p.inputs[i], s)]
           outputs == [i \in DOMAIN p.outputs |-> Filled(p.outputs[i], s)]
<1>1. FilledPsbt(p, s) = [p EXCEPT !.inputs = inputs, !.outputs = outputs]
  BY DEF FilledPsbt
<1>2. p = [inputs |-> p.inputs, outputs |-> p.outputs, xpubs |-> p.xpubs]
  BY DEF IsTransaction
<1>3. \A i \in DOMAIN p.inputs : IsScope(inputs[i])
  BY FilledScope DEF IsTransaction
<1>4. \A i \in DOMAIN p.outputs : IsScope(outputs[i])
  BY FilledScope DEF IsTransaction
<1>5. DOMAIN inputs = DOMAIN p.inputs /\ DOMAIN outputs = DOMAIN p.outputs
  OBVIOUS
<1>6. \A i \in DOMAIN p.inputs : inputs[i] = Filled(p.inputs[i], s)
  OBVIOUS
<1> HIDE DEF inputs, outputs
<1>7. FilledPsbt(p, s) = [inputs |-> inputs, outputs |-> outputs, xpubs |-> p.xpubs]
  BY <1>1, <1>2
<1> QED BY <1>3, <1>4, <1>5, <1>6, <1>7 DEF IsTransaction

-----------------------------------------------------------------------------
(* Policies. *)

\* With every cosigner known, the keys of a script come from the cosigners' wallets,
\* and each of these has one: that a key derives from an xpub is what was checked.
LEMMA CosignersHaveTheKeys ==
  ASSUME NEW script, NEW scope, NEW xpubs, Cosigners(script, scope, xpubs) # << >>
  PROVE  {k.root : k \in Range(script.keys)} = {x.root : x \in DOMAIN Cosigners(script, scope, xpubs)}
<1> DEFINE by == [i \in DOMAIN script.keys |->
                    CHOOSE x \in ResolvedBy(script.keys[i], scope, xpubs) : TRUE]
<1>1. \A i \in DOMAIN script.keys : ResolvedBy(script.keys[i], scope, xpubs) # {}
  BY DEF Cosigners
<1>2. DOMAIN Cosigners(script, scope, xpubs) = Range(by)
  BY <1>1 DEF Cosigners
<1>3. ASSUME NEW i \in DOMAIN script.keys
      PROVE  by[i].root = script.keys[i].root
  <2>1. by[i] \in ResolvedBy(script.keys[i], scope, xpubs)
    BY <1>1
  <2>2. \E path : Key(by[i].root, path) = script.keys[i]
    BY <2>1 DEF ResolvedBy, Resolves
  <2>3. PICK path : Key(by[i].root, path) = script.keys[i]
    BY <2>2
  <2> HIDE DEF by
  <2> QED BY <2>3 DEF Key
<1>4. Range(by) = {by[i] : i \in DOMAIN script.keys}
  BY DEF Range
<1>5. Range(script.keys) = {script.keys[i] : i \in DOMAIN script.keys}
  BY DEF Range
<1> HIDE DEF by
<1> QED BY <1>2, <1>3, <1>4, <1>5

\* A script is a multisig with at least one key, or there is none.
LEMMA PolicyCounts ==
  ASSUME NEW x, IsScope(x), ~PolicyRaises(x), NEW xpubs
  PROVE  /\ Policy(x, xpubs).type = ScriptType(x)
         /\ PolicyScript(x) = NoScript => Policy(x, xpubs).n = 0
         /\ PolicyScript(x) # NoScript =>
              /\ Policy(x, xpubs).n > 0
              /\ PolicyScript(x).kind = "multisig"
              /\ Policy(x, xpubs).cosigners = Cosigners(PolicyScript(x), x, xpubs)
<1>1. IsScript(PolicyScript(x))
  BY DEF IsScope, PolicyScript, IsScript
<1>2. ASSUME PolicyScript(x) # NoScript
      PROVE  PolicyScript(x).kind = "multisig" /\ Len(PolicyScript(x).keys) > 0
  BY <1>1, <1>2 DEF PolicyRaises, IsMultisig, IsScript
<1> QED BY <1>2 DEF Policy

\* An output of a multisig that pays to its own script pays to the script's keys.
LEMMA ScriptHasTheKeys ==
  ASSUME NEW x, NEW s, PolicyScript(x) # NoScript, PolicyScript(x).kind = "multisig",
         x.spk \in ChangeScripts(ScriptType(x), x, s)
  PROVE  RootsOf(x.spk) = {k.root : k \in Range(PolicyScript(x).keys)}
<1>1. ScriptType(x) \in {"p2wsh", "p2sh-p2wsh", "p2sh"}
  BY DEF PolicyScript
<1>2. CASE ScriptType(x) = "p2wsh"
  <2>1. x.spk = P2wsh(PolicyScript(x))
    BY <1>2 DEF ChangeScripts, PolicyScript
  <2> QED BY <2>1 DEF RootsOf, KeysOf, P2wsh
<1>3. CASE ScriptType(x) = "p2sh-p2wsh"
  <2>1. x.spk = P2sh(P2wsh(PolicyScript(x)))
    BY <1>3 DEF ChangeScripts, PolicyScript
  <2> QED BY <2>1 DEF RootsOf, KeysOf, P2wsh, P2sh
<1>4. CASE ScriptType(x) = "p2sh"
  <2>1. x.spk = P2sh(PolicyScript(x))
    BY <1>4 DEF ChangeScripts, PolicyScript
  <2> QED BY <2>1 DEF RootsOf, KeysOf, P2sh
<1> QED BY <1>1, <1>2, <1>3, <1>4

\* An output without a script of its own that passes for change pays a key the
\* seed has derived.
LEMMA KeyIsTheSeeds ==
  ASSUME NEW type, type \notin {"p2wsh", "p2sh-p2wsh", "p2sh"}, NEW x, NEW s,
         NEW spk \in ChangeScripts(type, x, s)
  PROVE  RootsOf(spk) = {s}
<1>1. \A taproot \in BOOLEAN : \A k \in OwnKeys(x, s, taproot) : k.root = s /\ XOnly(k).root = s
  BY DEF OwnKeys, Key, XOnly
<1>2. PICK taproot \in BOOLEAN : \E k \in OwnKeys(x, s, taproot) :
        spk \in {P2pkh(k), P2wpkh(k), P2sh(P2wpkh(k)), P2tr(k)}
  BY DEF ChangeScripts
<1>3. PICK k \in OwnKeys(x, s, taproot) : spk \in {P2pkh(k), P2wpkh(k), P2sh(P2wpkh(k)), P2tr(k)}
  BY <1>2
<1>4. KeysOf(spk) \in {{k}, {XOnly(k)}}
  BY <1>3 DEF KeysOf, P2pkh, P2wpkh, P2sh, P2tr
<1> QED BY <1>1, <1>4 DEF RootsOf

-----------------------------------------------------------------------------
(* The report in memory. *)

TransactionOK == psbt = NoPsbt \/ IsTransaction(psbt)

\* What the parser found out about the transaction, as it is now, and the seed.
Reported(s) == report = ReportOf(psbt, s) /\ Parsable(psbt) /\ HasMatchingInputFingerprint(psbt, s)

\* Fingerprints that a parser filled in for another seed are in the transaction
\* still, and a report is kept while a seed is chosen: it is that of its seed and of
\* the transaction all the same.
ReportOK ==
  /\ verdict = "parsed" => IsTransaction(psbt) /\ Reported(seed)
  /\ verdict = "select" /\ report # NoReport => Reported(report.seed)
  /\ verdict = "cannot sign" => report = NoReport

\* Seeds are chosen for a transaction only.
NoSeedYet ==
  /\ scan # "routed" => verdict = "idle"
  /\ verdict \in {"idle", "select"} => seed = NoSeed

ParserInv == TransactionOK /\ ReportOK /\ NoSeedYet
-----------------------------------------------------------------------------
(* What the hint and the parser have in common. *)

\* The hint finds a seed exactly when an input names it after the parser has filled in.
LEMMA HintFinds ==
  ASSUME NEW p, IsTransaction(p), NEW s
  PROVE  HasMatchingInputFingerprint(p, s)
           <=> \E i \in DOMAIN FilledPsbt(p, s).inputs : HasClaim(FilledPsbt(p, s).inputs[i], s)
<1>1. ASSUME NEW i \in DOMAIN p.inputs, NEW k \in DOMAIN p.inputs[i].claims
      PROVE  Filled(p.inputs[i], s).claims[k].fp = s
               <=> \/ p.inputs[i].claims[k].fp = s
                   \/ p.inputs[i].claims[k].fp = Zero /\ SeedOwnsPubkey(s, p.inputs[i].claims[k])
  <2> DEFINE c == p.inputs[i].claims[k]
  <2>1. IsScope(p.inputs[i])
    BY DEF IsTransaction
  <2>2. [c EXCEPT !.fp = s].fp = s
    BY <2>1 DEF IsScope, Claim
  <2>3. Filled(p.inputs[i], s).claims[k]
          = IF c.fp = Zero /\ SeedOwnsPubkey(s, c) THEN [c EXCEPT !.fp = s] ELSE c
    BY <2>1, FilledScope
  <2> QED BY <2>2, <2>3
<1>2. \A i \in DOMAIN p.inputs : DOMAIN Filled(p.inputs[i], s).claims = DOMAIN p.inputs[i].claims
  BY FilledScope DEF IsTransaction
<1> QED BY <1>1, <1>2, FilledTransaction DEF HasMatchingInputFingerprint, HasClaim

\* What the parser filled in for one seed the hint for it finds again.
LEMMA HintStays ==
  ASSUME NEW p, IsTransaction(p), NEW s, HasMatchingInputFingerprint(p, s)
  PROVE  HasMatchingInputFingerprint(FilledPsbt(p, s), s)
BY HintFinds DEF HasMatchingInputFingerprint, HasClaim

-----------------------------------------------------------------------------
(* ChangeIsOurs. *)

\* Two inputs or outputs of one multisig policy with known cosigners that pay to their
\* scripts pay to keys of the same wallets.
LEMMA OnePolicyOneRoots ==
  ASSUME NEW x, IsScope(x), ~PolicyRaises(x), NEW y, IsScope(y), ~PolicyRaises(y),
         NEW xpubs, NEW s, Policy(x, xpubs) = Policy(y, xpubs),
         Policy(x, xpubs).n > 0, Policy(x, xpubs).cosigners # << >>,
         x.spk \in ChangeScripts(ScriptType(x), x, s),
         y.spk \in ChangeScripts(ScriptType(y), y, s)
  PROVE  RootsOf(x.spk) = RootsOf(y.spk)
<1>1. PolicyScript(x) # NoScript /\ PolicyScript(y) # NoScript
  BY PolicyCounts
<1>2. /\ Cosigners(PolicyScript(x), x, xpubs) = Cosigners(PolicyScript(y), y, xpubs)
      /\ Cosigners(PolicyScript(x), x, xpubs) # << >>
      /\ PolicyScript(x).kind = "multisig" /\ PolicyScript(y).kind = "multisig"
  BY <1>1, PolicyCounts
<1>3. /\ RootsOf(x.spk) = {k.root : k \in Range(PolicyScript(x).keys)}
      /\ RootsOf(y.spk) = {k.root : k \in Range(PolicyScript(y).keys)}
  BY <1>1, <1>2, ScriptHasTheKeys
<1>4. {k.root : k \in Range(PolicyScript(x).keys)}
        = {z.root : z \in DOMAIN Cosigners(PolicyScript(x), x, xpubs)}
  BY <1>2, CosignersHaveTheKeys
<1>5. {k.root : k \in Range(PolicyScript(y).keys)}
        = {z.root : z \in DOMAIN Cosigners(PolicyScript(y), y, xpubs)}
  BY <1>2, CosignersHaveTheKeys
<1> QED BY <1>2, <1>3, <1>4, <1>5

LEMMA ReportedChangeIsOurs == ParserInv => ChangeIsOurs
<1> SUFFICES ASSUME ParserInv, verdict = "parsed", NEW i \in report.change_data
             PROVE  LET policy == Policy(psbt.inputs[1], psbt.xpubs) IN
                    \/ policy.n = 0 /\ RootsOf(psbt.outputs[i].spk) = {seed}
                    \/ policy.n > 0 /\ policy.cosigners = << >>
                    \/ /\ policy.n > 0 /\ policy.cosigners # << >>
                       /\ \A j \in DOMAIN psbt.inputs :
                            HasItsScript(psbt.inputs[j])
                              => RootsOf(psbt.outputs[i].spk) = RootsOf(psbt.inputs[j].spk)
  BY DEF ChangeIsOurs
<1> DEFINE out    == psbt.outputs[i]
           policy == Policy(psbt.inputs[1], psbt.xpubs)
<1>1. IsTransaction(psbt) /\ Parsable(psbt) /\ report = ReportOf(psbt, seed)
  BY DEF ParserInv, ReportOK, Reported
<1>2. i \in DOMAIN psbt.outputs /\ IsChange(psbt, i, seed)
  BY <1>1 DEF ReportOf
<1>3. IsScope(out) /\ ~PolicyRaises(out)
  BY <1>1, <1>2 DEF IsTransaction, Parsable, OutputsRaise
<1>4. Policy(out, psbt.xpubs) = policy /\ out.spk \in ChangeScripts(ScriptType(out), out, seed)
  BY <1>2, <1>3, PolicyCounts DEF IsChange, SamePolicy
<1>5. CASE PolicyScript(out) = NoScript
  <2>1. policy.n = 0
    BY <1>3, <1>4, <1>5, PolicyCounts
  <2>2. ScriptType(out) \notin {"p2wsh", "p2sh-p2wsh", "p2sh"}
    BY <1>1, <1>2, <1>5 DEF Parsable, OutputsRaise, IsChange
  <2>3. RootsOf(out.spk) = {seed}
    BY <1>4, <2>2, KeyIsTheSeeds
  <2> QED BY <2>1, <2>3
<1>6. CASE PolicyScript(out) # NoScript
  <2>1. policy.n > 0
    BY <1>3, <1>4, <1>6, PolicyCounts
  <2>2. ASSUME policy.cosigners # << >>, NEW j \in DOMAIN psbt.inputs, HasItsScript(psbt.inputs[j])
        PROVE  RootsOf(out.spk) = RootsOf(psbt.inputs[j].spk)
    <3>1. IsScope(psbt.inputs[j]) /\ ~PolicyRaises(psbt.inputs[j])
      BY <1>1 DEF IsTransaction, Parsable, InputsRaise
    <3>2. Policy(psbt.inputs[j], psbt.xpubs) = policy
      BY <1>1 DEF Parsable, InputsRaise
    <3>3. psbt.inputs[j].spk \in ChangeScripts(ScriptType(psbt.inputs[j]), psbt.inputs[j], seed)
      BY <2>2 DEF HasItsScript
    <3> HIDE DEF out, policy
    <3> QED BY <1>3, <1>4, <2>1, <2>2, <3>1, <3>2, <3>3, OnePolicyOneRoots
  <2> QED BY <2>1, <2>2
<1> QED BY <1>5, <1>6
-----------------------------------------------------------------------------
(* The steps. *)

LEMMA InitParser == Init => ParserInv
BY ParserAssumption DEF Init, ScanInit, ParserInit, ParserInv, TransactionOK, ReportOK, NoSeedYet

\* Nothing is chosen before the scan is over, and it does not begin again.
LEMMA ScanStep ==
  ASSUME ParserInv, (\E f \in Frames : ReadsFrame(f)) \/ WorksOff \/ PartIsDone \/ UserLeaves \/ Routes,
         UNCHANGED parserVars
  PROVE  ParserInv'
<1>1. scan # "routed"
  BY DEF ReadsFrame, TypeChanges, ReadsUnknown, ReadsPart, ReadsWhole, ReadsDamaged, ReadsSegment,
         ReadsSingle, Reads, WorksOff, PartIsDone, UserLeaves, Routes
<1>2. psbt' = psbt /\ seed' = seed /\ verdict' = verdict /\ report' = report
  BY DEF parserVars
<1>3. TransactionOK' /\ ReportOK'
  BY <1>2 DEF ParserInv, TransactionOK, ReportOK, Reported
<1>4. NoSeedYet'
  BY <1>1, <1>2 DEF ParserInv, NoSeedYet
<1> QED BY <1>3, <1>4 DEF ParserInv

LEMMA HandsOverStep ==
  ASSUME ParserInv, HandsOver
  PROVE  ParserInv'
<1>1. /\ scan # "routed" /\ scan' = "routed" /\ psbt' \in {NoPsbt} \union Psbts
      /\ report' = NoReport /\ verdict' = "select" /\ seed' = seed
  BY DEF HandsOver, Routes
<1>2. TransactionOK'
  BY <1>1, PsbtsAssumption DEF TransactionOK
<1>3. ReportOK'
  BY <1>1 DEF ReportOK
<1>4. NoSeedYet'
  BY <1>1 DEF ParserInv, NoSeedYet
<1> QED BY <1>2, <1>3, <1>4 DEF ParserInv

\* What a parser leaves behind, whatever its verdict.
LEMMA ParseFills ==
  ASSUME ParserInv, NEW s \in Seeds, Parse(s)
  PROVE  /\ verdict = "select" /\ seed' = s /\ IsTransaction(psbt) /\ IsTransaction(psbt')
         /\ psbt' = FilledPsbt(psbt, s)
         /\ HasMatchingInputFingerprint(psbt, s) <=> CanSign(s)
<1>1. /\ verdict = "select" /\ seed' = s /\ psbt' = FilledPsbt(psbt, s) /\ IsTransaction(psbt)
  BY DEF Parse, Selects, ParserInv, TransactionOK
<1> QED BY <1>1, FilledTransaction, HintFinds DEF CanSign

LEMMA ParserStep ==
  ASSUME ParserInv, ParserNext, UNCHANGED scanVars
  PROVE  ParserInv'
<1>1. scan' = scan
  BY DEF scanVars
<1>2. ASSUME NEW s \in Seeds, ReportIsKept(s) PROVE ParserInv'
  <2>1. /\ verdict = "select" /\ seed' = s /\ verdict' = "parsed" /\ psbt' = psbt /\ report' = report
        /\ psbt # NoPsbt /\ report # NoReport /\ report.seed = s
    BY <1>2 DEF ReportIsKept, Selects, IsParsedFor
  <2>2. IsTransaction(psbt) /\ Reported(s)
    BY <2>1 DEF ParserInv, TransactionOK, ReportOK
  <2>3. TransactionOK' /\ ReportOK'
    BY <2>1, <2>2 DEF TransactionOK, ReportOK, Reported
  <2> QED BY <1>1, <2>1, <2>3 DEF ParserInv, NoSeedYet
<1>3. ASSUME NEW s \in Seeds, Parse(s), verdict' \notin {"idle", "select", "parsed"},
             verdict' = "cannot sign" => report' = NoReport
      PROVE  ParserInv'
  <2>1. TransactionOK' /\ ReportOK'
    BY <1>3, ParseFills DEF TransactionOK, ReportOK
  <2> QED BY <1>1, <1>3, <2>1, ParseFills DEF ParserInv, NoSeedYet
<1>4. ASSUME NEW s \in Seeds, Parses(s) PROVE ParserInv'
  <2>1. /\ Parse(s) /\ CanSign(s) /\ Parsable(psbt') /\ report' = ReportOf(psbt', s) /\ verdict' = "parsed"
    BY <1>4 DEF Parses
  <2>2. HasMatchingInputFingerprint(psbt', s)
    BY <2>1, ParseFills, HintStays
  <2>3. TransactionOK' /\ ReportOK'
    BY <2>1, <2>2, ParseFills DEF TransactionOK, ReportOK, Reported
  <2> QED BY <1>1, <2>1, <2>3, ParseFills DEF ParserInv, NoSeedYet
<1>5. CASE SelectsAgain
  <2>1. /\ verdict \in {"parsed", "cannot sign"} /\ verdict' = "select" /\ seed' = NoSeed
        /\ psbt' = psbt /\ report' = report
    BY <1>5 DEF SelectsAgain
  <2>2. TransactionOK' /\ NoSeedYet'
    BY <1>1, <2>1 DEF ParserInv, TransactionOK, NoSeedYet
  <2>3. ASSUME report # NoReport PROVE report = ReportOf(psbt, seed) /\ Reported(seed)
    BY <2>1, <2>3 DEF ParserInv, ReportOK, Reported
  <2>4. report # NoReport => Reported(report.seed)
    BY <2>3 DEF ReportOf
  <2>5. ReportOK'
    BY <2>1, <2>4 DEF ReportOK, Reported
  <2> QED BY <2>2, <2>5 DEF ParserInv
<1>6. CASE NothingToSign
  BY <1>1, <1>6 DEF NothingToSign, ParserInv, TransactionOK, ReportOK, NoSeedYet
<1> QED BY <1>2, <1>3, <1>4, <1>5, <1>6
        DEF ParserNext, RejectsOutputClaim, RejectsInputClaim, RejectsSeed, ParsingRaises

LEMMA NextParser == ParserInv /\ [Next]_vars => ParserInv'
<1> SUFFICES ASSUME ParserInv, [Next]_vars PROVE ParserInv'
  OBVIOUS
<1>1. CASE UNCHANGED vars
  BY <1>1 DEF vars, scanVars, parserVars, ParserInv, TransactionOK, ReportOK, Reported, NoSeedYet
<1>2. CASE Next
  BY <1>2, ScanStep, HandsOverStep, ParserStep DEF Next, Sees, GoesElsewhere
<1> QED BY <1>1, <1>2

\* Whatever a transaction claims, what is shown as change pays the seed's own key or,
\* of a multisig whose cosigners are known, just the wallets the inputs come from.
THEOREM ChangeTheorem == Spec => []ChangeIsOurs
<1>1. Init => ParserInv
  BY InitParser
<1>2. ParserInv /\ [Next]_vars => ParserInv'
  BY NextParser
<1>3. ParserInv => ChangeIsOurs
  BY ReportedChangeIsOurs
<1> QED BY <1>1, <1>2, <1>3, PTL DEF Spec

-----------------------------------------------------------------------------
(* HintIsRight. *)

LEMMA HintStep ==
  ASSUME ParserInv, ParserNext, NEW s \in Seeds,
         verdict = "select", verdict' # "select", seed' = s, verdict' # "output claim"
  PROVE  HasMatchingInputFingerprint(psbt, s) <=> verdict' # "cannot sign"
<1>1. ASSUME NEW t \in Seeds, ReportIsKept(t)
      PROVE  HasMatchingInputFingerprint(psbt, t) /\ seed' = t /\ verdict' = "parsed"
  BY <1>1 DEF ReportIsKept, Selects, IsParsedFor, ParserInv, ReportOK, Reported
<1>2. ASSUME NEW t \in Seeds, RejectsInputClaim(t)
      PROVE  Parse(t) /\ CanSign(t) /\ verdict' = "input claim"
  BY <1>2 DEF RejectsInputClaim, NoInputClaimsFalsely, ClaimsFalsely, CanSign, HasClaim
<1>3. ASSUME NEW t \in Seeds, RejectsSeed(t)
      PROVE  Parse(t) /\ ~CanSign(t) /\ verdict' = "cannot sign"
  BY <1>3 DEF RejectsSeed
<1>4. ASSUME NEW t \in Seeds, ParsingRaises(t) \/ Parses(t)
      PROVE  Parse(t) /\ CanSign(t) /\ verdict' \in {"raised", "parsed"}
  BY <1>4 DEF ParsingRaises, Parses
<1>5. ~SelectsAgain
  BY DEF SelectsAgain
<1>6. ~NothingToSign
  BY ParserAssumption DEF NothingToSign, ParserInv, NoSeedYet
<1>7. ASSUME NEW t \in Seeds PROVE ~RejectsOutputClaim(t)
  BY DEF RejectsOutputClaim
<1> QED BY <1>1, <1>2, <1>3, <1>4, <1>5, <1>6, <1>7, ParseFills DEF ParserNext

\* A seed is marked in the selection exactly when the parser will say that it cannot
\* sign, whatever the transaction claims and whichever seeds were tried before.
THEOREM HintTheorem == Spec => HintIsRight
<1>1. Init => ParserInv
  BY InitParser
<1>2. ParserInv /\ [Next]_vars => ParserInv'
  BY NextParser
<1>3. ParserInv /\ [Next]_vars =>
        [\A s \in Seeds :
           verdict = "select" /\ verdict' # "select" /\ seed' = s /\ verdict' # "output claim" =>
             (HasMatchingInputFingerprint(psbt, s) <=> verdict' # "cannot sign")]_parserVars
  <2> SUFFICES ASSUME ParserInv, [Next]_vars, parserVars' # parserVars
               PROVE  \A s \in Seeds :
                        verdict = "select" /\ verdict' # "select" /\ seed' = s /\ verdict' # "output claim" =>
                          (HasMatchingInputFingerprint(psbt, s) <=> verdict' # "cannot sign")
    OBVIOUS
  <2>1. HandsOver \/ ParserNext
    BY DEF Next, vars, Sees, GoesElsewhere
  <2>2. CASE HandsOver
    BY <2>2 DEF HandsOver
  <2>3. CASE ParserNext
    BY <2>3, HintStep
  <2> QED BY <2>1, <2>2, <2>3
<1> QED BY <1>1, <1>2, <1>3, PTL DEF Spec, HintIsRight

=============================================================================
