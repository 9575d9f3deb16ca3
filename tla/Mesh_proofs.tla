---------------------------- MODULE Mesh_proofs -----------------------------
(***************************************************************************)
(* Proofs about Mesh and Chunks: a passed gate has had a verdict on every  *)
(* stretch of the untrusted texts.                                         *)
(*                                                                         *)
(* The first half is about the pure functions: a turn of chunkSpans' loop  *)
(* (TurnLoop), the loop (SpansLoop), the pieces (ChunkTextCovers), and     *)
(* what dropping and deduplicating keep (SegmentsKeep, UnitsKeep).  The    *)
(* second is the inductive invariant IInv of the transport and the gate.   *)
(***************************************************************************)
EXTENDS Mesh, Iteration, FiniteSetTheorems, SequenceTheorems, TLAPS
-----------------------------------------------------------------------------
(***************************************************************************)
(* Pieces.                                                                 *)
(***************************************************************************)

\* The numbers among the constants.
LEMMA Numbers ==
    /\ MaxChars \in Nat /\ Overlap \in Nat /\ (MaxChars * 4) \div 5 \in Nat
    /\ Overlap + 1 < MaxChars /\ Overlap <= (MaxChars * 4) \div 5
  BY ChunkAssumption

\* The lesser of two numbers.
LEMMA MinOfTwo ==
    ASSUME NEW a \in Int, NEW b \in Int
    PROVE  Min({a, b}) = IF a <= b THEN a ELSE b
  <1> DEFINE m == IF a <= b THEN a ELSE b
  <1>1. m \in {a, b} /\ (\A y \in {a, b} : m <= y)
    OBVIOUS
  <1>2. \A x \in {a, b} : (\A y \in {a, b} : x <= y) => x = m
    OBVIOUS
  <1> HIDE DEF m
  <1>3. \E x \in {a, b} : \A y \in {a, b} : x <= y
    BY <1>1
  <1>4. Min({a, b}) \in {a, b} /\ \A y \in {a, b} : Min({a, b}) <= y
    BY <1>3, Zenon DEF Min
  <1>5. Min({a, b}) = m
    BY <1>2, <1>4, Zenon
  <1> QED
    BY <1>5 DEF m

\* Where a piece may end: within its size, after its start, and far enough from it
\* for the overlap unless it is the last one.
LEMMA CutAtBounds ==
    ASSUME NEW C, NEW t \in Seq(C), NEW s \in Nat, s < Len(t)
    PROVE  /\ CutAt(t, s) \in Nat /\ s < CutAt(t, s) /\ CutAt(t, s) <= Len(t)
           /\ CutAt(t, s) <= s + MaxChars
           /\ CutAt(t, s) < Len(t) => s + Overlap < CutAt(t, s)
  <1> DEFINE n == Len(t)
             q == (MaxChars * 4) \div 5
             from == s + q
             full == Min({s + MaxChars, n})
             ws == lastWhitespace(t, from, full)
             end == IF ws > s THEN ws ELSE full
  <1>0. n \in Nat /\ q \in Nat /\ Overlap <= q /\ from \in Nat
    BY Numbers
  <1>1. full = IF s + MaxChars <= n THEN s + MaxChars ELSE n
    BY <1>0, Numbers, MinOfTwo
  <1>2. full \in Nat
    BY <1>0, <1>1, Numbers
  <1>3. CutAt(t, s) = IF full = n THEN full ELSE IF t[end] = "H" THEN end - 1 ELSE end
    BY DEF CutAt
  <1> HIDE DEF full, q
  <1>4. ws = -1 \/ (ws \in (from + 1)..full /\ t[ws] = " ")
    <2> DEFINE W == {i \in (from + 1)..full : t[i] = " "}
    <2>1. ws = IF W = {} THEN -1 ELSE Max(W)
      BY DEF lastWhitespace
    <2>2. W # {} => Max(W) \in W
      <3>1. W \subseteq (from + 1)..full
        OBVIOUS
      <3>3. from + 1 \in Int /\ full \in Int
        BY <1>0, <1>2
      <3> HIDE DEF W
      <3> QED
        BY <3>1, <3>3, MaxWithin
    <2> QED
      BY <2>1, <2>2
  <1> HIDE DEF n, from, ws
  <1>5. CASE full = n
    BY <1>0, <1>1, <1>3, <1>5, Numbers DEF n
  <1>6. CASE full # n
    <2>1. full = s + MaxChars /\ full < n
      BY <1>0, <1>1, <1>6, Numbers
    <2>2. CASE ws = -1
      <3>1. end = full
        BY <2>2
      <3> QED
        BY <1>0, <1>3, <1>6, <2>1, <3>1, Numbers DEF n
    <2>3. CASE ws \in (from + 1)..full /\ t[ws] = " "
      <3>3. ws \in Int /\ from + 1 <= ws /\ ws <= full
        <4>1. ws \in (from + 1)..full
          BY <2>3, Zenon
        <4>2. from \in Int /\ full \in Int
          BY <1>0, <1>2
        <4> QED
          BY <4>1, <4>2
      <3>4. from = s + q
        BY DEF from
      <3>0. ws > s
        BY <1>0, <3>3, <3>4
      <3>1. end = ws /\ t[ws] # "H"
        BY <2>3, <3>0
      <3>2. CutAt(t, s) = ws
        BY <1>3, <1>6, <3>1
      <3> QED
        BY <1>0, <2>1, <3>2, <3>3, <3>4, Numbers DEF n
    <2> QED
      BY <1>4, <2>2, <2>3
  <1> QED
    BY <1>5, <1>6

\* The next piece starts after this one's start, and reaches back far enough.
LEMMA ResumeAtBounds ==
    ASSUME NEW C, NEW t \in Seq(C), NEW s \in Nat, NEW e \in Nat, s + Overlap < e, e < Len(t)
    PROVE  /\ ResumeAt(t, s, e) \in Nat /\ s < ResumeAt(t, s, e) /\ ResumeAt(t, s, e) <= Len(t)
           /\ ResumeAt(t, s, e) <= e - Overlap + 1
  <1>1. ~(e - Overlap <= s)
    BY Numbers
  <1>2. ResumeAt(t, s, e) = IF t[e - Overlap + 1] = "L" THEN e - Overlap + 1 ELSE e - Overlap
    BY <1>1 DEF ResumeAt
  <1> QED
    BY <1>2, Numbers

Spans == Seq(Nat \X Nat)

\* A span of a text of n units: not empty, within the size of a piece, and longer
\* than the overlap unless it ends the text.
WellCut(n, x) ==
    /\ x[1] < x[2] /\ x[2] <= n /\ x[2] <= x[1] + MaxChars
    /\ x[2] < n => x[1] + Overlap < x[2]

\* Every window of at most Overlap units before offset e is in one of the spans.
Covers(a, e) ==
    \A w \in Nat, l \in 1..Overlap :
        w + l <= e => \E j \in 1..Len(a) : a[j][1] <= w /\ w + l <= a[j][2]

\* The spans after k turns: all are well cut, they cover what is before the end of
\* the last one, and that is the end of the text or the loop has come far enough.
Loop(n, k, a) ==
    /\ \A j \in 1..Len(a) : WellCut(n, a[j])
    /\ Overlap # 0 /\ k > 0 =>
         /\ Len(a) > 0 /\ Covers(a, a[Len(a)][2])
         /\ a[Len(a)][2] = n \/ k <= a[Len(a)][1] + 1

\* Spans stay spans.
LEMMA TurnType ==
    ASSUME NEW C, NEW t \in Seq(C), NEW a \in Spans
    PROVE  Turn(t, a) \in Spans
  <1> DEFINE x == Last(a)
             start == IF a = <<>> THEN 0 ELSE ResumeAt(t, x[1], x[2])
  <1>1. start \in Nat
    <2>1. CASE a = <<>>
      BY <2>1
    <2>2. CASE a # <<>>
      <3>1. x \in Nat \X Nat
        BY <2>2, LenProperties, ElementOfSeq DEF Spans, Last
      <3>2. PICK s \in Nat, e \in Nat : s = x[1] /\ e = x[2]
        BY <3>1
      <3>3. (IF e - Overlap <= s THEN e ELSE e - Overlap) \in Nat
        BY <3>2, Numbers
      <3>4. ResumeAt(t, s, e) \in Nat
        BY <3>3 DEF ResumeAt
      <3> QED
        BY <2>2, <3>2, <3>4
    <2> QED
      BY <2>1, <2>2
  <1>2. \/ Turn(t, a) = a
        \/ start < Len(t) /\ Turn(t, a) = Append(a, <<start, CutAt(t, start)>>)
    <2>1. Len(t) \in Nat
      BY LenProperties
    <2> QED
      BY <1>1, <2>1 DEF Turn
  <1> HIDE DEF start
  <1>3. start < Len(t) => <<start, CutAt(t, start)>> \in Nat \X Nat
    BY <1>1, CutAtBounds
  <1>4. start < Len(t) => Append(a, <<start, CutAt(t, start)>>) \in Spans
    BY <1>3, AppendProperties DEF Spans
  <1> QED
    BY <1>2, <1>4

\* The loop of chunkSpans as the function of its turns.
LEMMA SpansHistory ==
    ASSUME NEW C, NEW t \in Seq(C)
    PROVE  \E g \in [0..Len(t) -> Spans] :
               /\ g[0] = <<>> /\ \A k \in 1..Len(t) : g[k] = Turn(t, g[k - 1])
               /\ Len(t) > MaxChars => chunkSpans(t) = g[Len(t)]
  <1> DEFINE N == Len(t)
             after[n \in 0..N] == IF n = 0 THEN <<>> ELSE Turn(t, after[n - 1])
             F == [p \in Spans \X (1..N) |-> Turn(t, p[1])]
  <1>0. N \in Nat /\ <<>> \in Spans
    BY LenProperties, EmptySeq DEF Spans
  <1>1. F \in [Spans \X (1..N) -> Spans]
    BY TurnType
  <1>2. \E g \in [0..N -> Spans] : History(g, <<>>, N, F)
    <2> HIDE DEF F, N
    <2> QED BY <1>0, <1>1, Iterates, Zenon
  <1>3. PICK g \in [0..N -> Spans] : g[0] = <<>> /\ \A n \in 1..N : g[n] = F[<<g[n - 1], n>>]
    BY <1>2, Zenon DEF History
  <1>4. \A n \in 1..N : g[n] = Turn(t, g[n - 1])
    <2> SUFFICES ASSUME NEW n \in 1..N PROVE g[n] = Turn(t, g[n - 1])
      OBVIOUS
    <2>1. n - 1 \in 0..N
      BY <1>0
    <2>2. <<g[n - 1], n>> \in Spans \X (1..N)
      BY <2>1
    <2> QED
      BY <1>3, <2>2
  <1> HIDE DEF F
  <1>5. g = [n \in 0..N |-> IF n = 0 THEN <<>> ELSE Turn(t, g[n - 1])]
    <2>1. \A n \in 0..N : g[n] = IF n = 0 THEN <<>> ELSE Turn(t, g[n - 1])
      <3> SUFFICES ASSUME NEW n \in 0..N PROVE g[n] = IF n = 0 THEN <<>> ELSE Turn(t, g[n - 1])
        OBVIOUS
      <3>1. n # 0 => n \in 1..N
        BY <1>0
      <3> QED
        BY <1>3, <1>4, <3>1
    <2> HIDE DEF N
    <2> QED
      BY <2>1, Zenon
  <1>6. after = CHOOSE h : h = [n \in 0..N |-> IF n = 0 THEN <<>> ELSE Turn(t, h[n - 1])]
    BY DEF after
  <1>7. after = [n \in 0..N |-> IF n = 0 THEN <<>> ELSE Turn(t, after[n - 1])]
    BY <1>5, <1>6, Zenon
  <1> HIDE DEF after
  <1>8. \A n \in 0..N : after[n] = IF n = 0 THEN <<>> ELSE Turn(t, after[n - 1])
    BY <1>7, Zenon
  <1> DEFINE S == {n \in 0..N : after[n] = g[n]}
  <1>9. 0 \in S
    BY <1>0, <1>3, <1>8
  <1>10. ASSUME NEW n \in 1..N, n - 1 \in S PROVE n \in S
    <2>1. n \in 0..N /\ n # 0
      BY <1>0
    <2>2. after[n - 1] = g[n - 1]
      BY <1>10
    <2> QED
      BY <1>4, <1>8, <2>1, <2>2
  <1>11. 0..N \subseteq S
    <2> HIDE DEF S
    <2> QED BY <1>0, <1>9, <1>10, BoundedInduction
  <1>12. after[N] = g[N]
    BY <1>0, <1>11
  <1>13. N > MaxChars => chunkSpans(t) = after[N]
    <2>1. N > MaxChars => ~(N <= MaxChars)
      BY <1>0, Numbers
    <2> QED
      BY <2>1, Zenon DEF chunkSpans, after
  <1> QED
    BY <1>3, <1>4, <1>12, <1>13

\* A turn of the loop keeps what is known of the spans.
LEMMA TurnLoop ==
    ASSUME NEW C, NEW t \in Seq(C), NEW a \in Spans, NEW k \in Nat, Loop(Len(t), k, a),
           Len(t) > 0, k = 0 => a = <<>>
    PROVE  Loop(Len(t), k + 1, Turn(t, a))
  <1> DEFINE n == Len(t)
             x == a[Len(a)]
             start == IF a = <<>> THEN 0 ELSE ResumeAt(t, x[1], x[2])
             e == CutAt(t, start)
             b == Append(a, <<start, e>>)
             m == Len(a)
  <1>0. n \in Nat /\ m \in Nat /\ (a # <<>> => m > 0) /\ (a = <<>> <=> m = 0)
    BY LenProperties, EmptySeq DEF Spans
  <1>1. \A j \in 1..m : a[j] \in Nat \X Nat /\ WellCut(n, a[j])
    BY <1>0, ElementOfSeq DEF Loop, Spans
  <1>2. a # <<>> => x[1] \in Nat /\ x[2] \in Nat /\ WellCut(n, x)
    BY <1>0, <1>1
  <1>3. CASE a # <<>> /\ x[2] >= n
    <2>1. Turn(t, a) = a
      BY <1>3 DEF Turn, Last
    <2>2. x[2] = n
      BY <1>0, <1>2, <1>3 DEF WellCut
    <2>3. k # 0
      BY <1>3
    <2> QED
      BY <2>1, <2>2, <2>3 DEF Loop
  <1>4. CASE ~(a # <<>> /\ x[2] >= n)
    <2>1. Turn(t, a) = IF start >= n THEN a ELSE b
      BY <1>4 DEF Turn, Last
    <2>2. /\ start \in Nat /\ start <= n
          /\ a # <<>> => x[2] < n /\ x[1] + Overlap < x[2] /\ x[1] < start /\ start <= x[2] - Overlap + 1
      <3>1. CASE a = <<>>
        BY <1>0, <3>1
      <3>2. CASE a # <<>>
        <4>1. x[1] \in Nat /\ x[2] \in Nat /\ x[2] < n /\ x[1] + Overlap < x[2]
          BY <1>0, <1>2, <1>4, <3>2 DEF WellCut
        <4>2. start = ResumeAt(t, x[1], x[2])
          BY <3>2
        <4> HIDE DEF x, start
        <4> QED
          BY <4>1, <4>2, ResumeAtBounds
      <3> QED
        BY <3>1, <3>2
    <2> HIDE DEF start, x
    <2>3. CASE start >= n
      <3>1. a # <<>>
        BY <1>0, <2>3 DEF start
      <3>2. Overlap = 0
        BY <1>0, <1>2, <2>2, <2>3, <3>1, Numbers
      <3> QED
        BY <2>1, <2>3, <3>2 DEF Loop
    <2>4. CASE start < n
      <3>1. /\ e \in Nat /\ start < e /\ e <= n /\ e <= start + MaxChars
            /\ e < n => start + Overlap < e
        BY <2>2, <2>4, CutAtBounds
      <3> HIDE DEF e
      <3>2. Turn(t, a) = b
        BY <1>0, <2>1, <2>2, <2>4
      <3>3. /\ b \in Spans /\ Len(b) = m + 1 /\ b[m + 1] = <<start, e>>
            /\ \A j \in 1..m : b[j] = a[j]
        <4>1. <<start, e>> \in Nat \X Nat
          BY <2>2, <3>1
        <4> QED
          BY <4>1, AppendProperties DEF Spans
      <3> HIDE DEF b, m
      <3>4. b[m + 1][1] = start /\ b[m + 1][2] = e
        BY <3>3
      <3>5. \A j \in 1..Len(b) : WellCut(n, b[j])
        <4> SUFFICES ASSUME NEW j \in 1..(m + 1) PROVE WellCut(n, b[j])
          BY <3>3
        <4>1. CASE j \in 1..m
          BY <1>1, <3>3, <4>1
        <4>2. CASE j = m + 1
          BY <3>1, <3>4, <4>2 DEF WellCut
        <4> QED
          BY <1>0, <4>1, <4>2
      <3>6. Overlap # 0 => Covers(b, e)
        <4> SUFFICES ASSUME Overlap # 0, NEW w \in Nat, NEW l \in 1..Overlap, w + l <= e
                     PROVE  \E j \in 1..Len(b) : b[j][1] <= w /\ w + l <= b[j][2]
          BY DEF Covers
        <4>0. m + 1 \in 1..Len(b) /\ \A j \in 1..m : j \in 1..Len(b)
          BY <1>0, <3>3
        <4>1. CASE a = <<>>
          <5>1. start = 0
            BY <4>1 DEF start
          <5> QED
            BY <3>4, <4>0, <5>1
        <4>2. CASE a # <<>> /\ w + l <= x[2]
          <5>1. Covers(a, x[2])
            <6>1. k > 0 \/ k = 0
              OBVIOUS
            <6> QED
              BY <4>2, <6>1 DEF Loop, x
          <5>2. PICK j \in 1..m : a[j][1] <= w /\ w + l <= a[j][2]
            BY <4>2, <5>1 DEF Covers, m
          <5> QED
            BY <3>3, <4>0, <5>2
        <4>3. CASE a # <<>> /\ ~(w + l <= x[2])
          <5>1. start <= w
            BY <1>2, <2>2, <4>3, Numbers
          <5> QED
            BY <3>4, <4>0, <5>1
        <4> QED
          BY <4>1, <4>2, <4>3
      <3>7. Overlap # 0 => e = n \/ k + 1 <= start + 1
        <4> SUFFICES ASSUME Overlap # 0 PROVE k <= start
          BY <2>2
        <4>1. CASE k = 0
          BY <2>2, <4>1
        <4>2. CASE k > 0
          <5>1. m > 0 /\ (x[2] = n \/ k <= x[1] + 1)
            BY <4>2 DEF Loop, x, m
          <5>2. a # <<>>
            BY <1>0, <5>1
          <5> QED
            BY <1>0, <1>2, <2>2, <5>1, <5>2
        <4> QED
          BY <4>1, <4>2
      <3>8. Len(b) > 0 /\ b[Len(b)][1] = start /\ b[Len(b)][2] = e
        BY <1>0, <3>3, <3>4
      <3> QED
        BY <3>2, <3>5, <3>6, <3>7, <3>8 DEF Loop
    <2> QED
      BY <1>0, <2>2, <2>3, <2>4
  <1> QED
    BY <1>3, <1>4

\* What chunkSpans returns: spans that fit, and that cover the whole text.
LEMMA SpansLoop ==
    ASSUME NEW C, NEW t \in Seq(C)
    PROVE  /\ chunkSpans(t) \in Spans
           /\ Len(t) > 0 => \A j \in 1..Len(chunkSpans(t)) : WellCut(Len(t), chunkSpans(t)[j])
           /\ Overlap # 0 => Covers(chunkSpans(t), Len(t))
  <1> DEFINE n == Len(t)
             a == chunkSpans(t)
  <1>0. n \in Nat
    BY LenProperties
  <1>1. CASE n <= MaxChars
    <2>1. a = << <<0, n>> >>
      BY <1>1 DEF chunkSpans
    <2>2. a \in Spans /\ Len(a) = 1 /\ a[1][1] = 0 /\ a[1][2] = n
      BY <1>0, <2>1 DEF Spans
    <2> HIDE DEF a, n
    <2>3. n > 0 => \A j \in 1..Len(a) : WellCut(n, a[j])
      <3>1. n > 0 => WellCut(n, a[1])
        BY <1>0, <1>1, <2>2, Numbers DEF WellCut
      <3>2. \A j \in 1..Len(a) : j = 1
        BY <2>2
      <3> QED
        BY <3>1, <3>2
    <2>4. Covers(a, n)
      <3> SUFFICES ASSUME NEW w \in Nat, NEW l \in 1..Overlap, w + l <= n
                   PROVE  \E j \in 1..Len(a) : a[j][1] <= w /\ w + l <= a[j][2]
        BY DEF Covers
      <3>1. 1 \in 1..Len(a) /\ a[1][1] <= w /\ w + l <= a[1][2]
        BY <2>2
      <3> QED
        BY <3>1
    <2> QED
      BY <2>2, <2>3, <2>4 DEF a, n
  <1>2. CASE n > MaxChars
    <2>1. PICK g \in [0..n -> Spans] : /\ g[0] = <<>> /\ \A k \in 1..n : g[k] = Turn(t, g[k - 1])
                                       /\ a = g[n]
      BY <1>2, SpansHistory
    <2> DEFINE S == {k \in 0..n : Loop(n, k, g[k]) /\ (k = 0 => g[k] = <<>>)}
    <2>0. n > 0
      BY <1>0, <1>2, Numbers
    <2>2. 0 \in S
      <3>1. Len(g[0]) = 0
        BY <2>1, EmptySeq
      <3> QED
        BY <1>0, <2>1, <3>1 DEF Loop
    <2>3. ASSUME NEW k \in 1..n, k - 1 \in S PROVE k \in S
      <3>1. k - 1 \in Nat /\ (k - 1) + 1 = k /\ k \in 0..n /\ k # 0 /\ k - 1 \in 0..n
        BY <1>0
      <3>2. Loop(n, k - 1, g[k - 1]) /\ (k - 1 = 0 => g[k - 1] = <<>>)
        BY <2>3
      <3>3. g[k - 1] \in Spans
        BY <3>1
      <3>4. Loop(n, (k - 1) + 1, Turn(t, g[k - 1]))
        BY <2>0, <3>1, <3>2, <3>3, TurnLoop
      <3> QED
        BY <2>1, <3>1, <3>4
    <2>4. 0..n \subseteq S
      <3> HIDE DEF S, n
      <3> QED BY <1>0, <2>2, <2>3, BoundedInduction
    <2>5. a \in Spans /\ Loop(n, n, a)
      BY <1>0, <2>1, <2>4
    <2> HIDE DEF a, n
    <2>6. Overlap # 0 => Covers(a, n)
      <3> SUFFICES ASSUME Overlap # 0 PROVE Covers(a, n)
        OBVIOUS
      <3>1. /\ Len(a) > 0 /\ Covers(a, a[Len(a)][2])
            /\ a[Len(a)][2] = n \/ n <= a[Len(a)][1] + 1
        BY <2>0, <2>5 DEF Loop
      <3>2. Len(a) \in Nat /\ a[Len(a)] \in Nat \X Nat
        BY <2>5, <3>1, LenProperties, ElementOfSeq DEF Spans
      <3>3. WellCut(n, a[Len(a)])
        BY <2>5, <3>1, <3>2 DEF Loop
      <3>4. a[Len(a)][2] = n
        <4>1. a[Len(a)][1] \in Nat /\ a[Len(a)][2] \in Nat
          BY <3>2
        <4> QED
          BY <1>0, <3>1, <3>3, <4>1 DEF WellCut
      <3> QED
        BY <3>1, <3>4
    <2> QED
      BY <2>5, <2>6 DEF Loop, a, n
  <1> QED
    BY <1>0, <1>1, <1>2, Numbers

\* A stretch of a stretch.
LEMMA SubSubSeq ==
    ASSUME NEW C, NEW t \in Seq(C), NEW s \in Nat, NEW e \in Nat, NEW i \in Nat, NEW j \in Nat,
           s < i, i <= j, j <= e, e <= Len(t)
    PROVE  /\ SubSeq(t, i, j) \in Seq(C) /\ Len(SubSeq(t, i, j)) = j - i + 1
           /\ SubSeq(t, s + 1, e) \in Seq(C) /\ Len(SubSeq(t, s + 1, e)) = e - s
           /\ SubSeq(SubSeq(t, s + 1, e), (i - 1 - s) + 1, (i - 1 - s) + Len(SubSeq(t, i, j))) = SubSeq(t, i, j)
  <1> DEFINE p == SubSeq(t, s + 1, e)
             w == SubSeq(t, i, j)
             k == i - 1 - s
             l == j - i + 1
             v == SubSeq(p, k + 1, k + l)
  <1>0. Len(t) \in Nat
    BY LenProperties
  <1>1. /\ p \in Seq(C) /\ Len(p) = e - s
        /\ \A x \in 1..(e - s) : p[x] = t[s + x]
    BY <1>0
  <1>2. /\ w \in Seq(C) /\ Len(w) = l /\ \A x \in 1..l : w[x] = t[i - 1 + x]
    BY <1>0
  <1>3. k \in Nat /\ l \in Nat /\ k + l <= e - s
    OBVIOUS
  <1> HIDE DEF p, w
  <1>4. v \in Seq(C) /\ Len(v) = l /\ \A x \in 1..l : v[x] = p[k + x]
    BY <1>1, <1>3
  <1>5. \A x \in 1..l : v[x] = w[x]
    <2> SUFFICES ASSUME NEW x \in 1..l PROVE v[x] = w[x]
      OBVIOUS
    <2>1. k + x \in 1..(e - s) /\ s + (k + x) = i - 1 + x
      BY <1>3
    <2> QED
      BY <1>1, <1>2, <1>4, <2>1
  <1> HIDE DEF v
  <1>6. v = w
    BY <1>2, <1>3, <1>4, <1>5, SeqEqual
  <1> QED
    BY <1>1, <1>2, <1>6 DEF v, p, w

\* A stretch of a piece is seen whole in it.
LEMMA StretchSeen ==
    ASSUME NEW C, NEW t \in Seq(C), NEW s \in Nat, NEW e \in Nat, NEW i \in Nat, NEW j \in Nat,
           s < i, i <= j, j <= e, e <= Len(t), NEW P, SubSeq(t, s + 1, e) \in P
    PROVE  SeenWhole(SubSeq(t, i, j), P)
  <1> DEFINE p == SubSeq(t, s + 1, e)
             w == SubSeq(t, i, j)
             k == i - 1 - s
  <1>1. Len(w) = j - i + 1 /\ Len(p) = e - s /\ SubSeq(p, k + 1, k + Len(w)) = w
    BY SubSubSeq
  <1>2. p \in P
    OBVIOUS
  <1> HIDE DEF p, w
  <1>3. k \in 0..(Len(p) - Len(w))
    BY <1>1
  <1> QED
    BY <1>1, <1>2, <1>3 DEF SeenWhole, w

\* Every piece fits the scanner, and every stretch of a text up to the overlap is
\* whole in one of its pieces.
THEOREM ChunkTextCovers ==
    ASSUME NEW C, NEW t \in Seq(C)
    PROVE  /\ chunkText(t) \in Seq(Seq(C))
           /\ \A x \in DOMAIN chunkText(t) : Len(chunkText(t)[x]) <= MaxChars
           /\ \A i, j \in DOMAIN t : i <= j /\ j < i + Overlap
                  => SeenWhole(SubSeq(t, i, j), Range(chunkText(t)))
  <1> DEFINE a == chunkSpans(t)
             P == chunkText(t)
             n == Len(t)
  <1>0. n \in Nat /\ a \in Spans /\ Len(a) \in Nat
    BY SpansLoop, LenProperties DEF Spans
  <1>1. P = [x \in 1..Len(a) |-> SubSeq(t, a[x][1] + 1, a[x][2])]
    BY <1>0 DEF chunkText, Spans
  <1>2. /\ \A x \in 1..Len(a) : a[x][1] \in Nat /\ a[x][2] \in Nat
        /\ n > 0 => \A x \in 1..Len(a) : WellCut(n, a[x])
        /\ Overlap # 0 => Covers(a, n)
    <2>1. \A x \in 1..Len(a) : a[x] \in Nat \X Nat
      BY <1>0, ElementOfSeq DEF Spans
    <2> QED
      BY <2>1, SpansLoop
  <1> HIDE DEF a, P
  <1>3. ASSUME NEW x \in 1..Len(a)
        PROVE  SubSeq(t, a[x][1] + 1, a[x][2]) \in Seq(C) /\ Len(SubSeq(t, a[x][1] + 1, a[x][2])) <= MaxChars
    <2>1. CASE n > 0
      <3>1. a[x][1] < a[x][2] /\ a[x][2] <= n /\ a[x][2] <= a[x][1] + MaxChars
        BY <1>2, <2>1 DEF WellCut
      <3> QED
        BY <1>0, <1>2, <3>1, Numbers, SMTT(30)
    <2>2. CASE n = 0
      <3>1. a = << <<0, 0>> >>
        <4>1. n <= MaxChars
          BY <2>2, Numbers
        <4> QED
          BY <2>2, <4>1 DEF a, chunkSpans
      <3>2. a[x][1] = 0 /\ a[x][2] = 0
        BY <3>1
      <3> QED
        BY <1>0, <2>2, <3>2, Numbers
    <2> QED
      BY <1>0, <2>1, <2>2
  <1>4. P \in Seq(Seq(C)) /\ DOMAIN P = 1..Len(a) /\ \A x \in DOMAIN P : Len(P[x]) <= MaxChars
    BY <1>0, <1>1, <1>3
  <1>5. ASSUME NEW i \in DOMAIN t, NEW j \in DOMAIN t, i <= j, j < i + Overlap
        PROVE  SeenWhole(SubSeq(t, i, j), Range(P))
    <2>0. i \in 1..n /\ j \in 1..n /\ Overlap # 0 /\ n > 0
      BY <1>0, <1>5, Numbers
    <2>1. i - 1 \in Nat /\ j - i + 1 \in 1..Overlap /\ (i - 1) + (j - i + 1) = j
      BY <1>0, <1>5, <2>0, Numbers
    <2>2. PICK x \in 1..Len(a) : a[x][1] <= i - 1 /\ j <= a[x][2]
      <3>1. PICK v \in Nat, l \in 1..Overlap : v = i - 1 /\ l = j - i + 1
        BY <2>1
      <3>2. v + l <= n
        BY <1>0, <2>0, <2>1, <3>1
      <3>3. \E x \in 1..Len(a) : a[x][1] <= v /\ v + l <= a[x][2]
        BY <1>2, <2>0, <3>2 DEF Covers
      <3> QED
        BY <2>1, <3>1, <3>3
    <2>3. /\ a[x][1] \in Nat /\ a[x][2] \in Nat /\ a[x][2] <= Len(t) /\ a[x][1] < i
          /\ i \in Nat /\ j \in Nat /\ j <= a[x][2] /\ i <= j
      BY <1>0, <1>2, <1>5, <2>0, <2>2 DEF WellCut
    <2>4. SubSeq(t, a[x][1] + 1, a[x][2]) \in Range(P)
      <3>1. x \in DOMAIN P
        BY <1>4
      <3>2. P[x] = SubSeq(t, a[x][1] + 1, a[x][2])
        BY <1>1
      <3> QED
        BY <3>1, <3>2 DEF Range
    <2>5. PICK s \in Nat, e \in Nat : s = a[x][1] /\ e = a[x][2]
      BY <2>3
    <2> QED
      BY <2>3, <2>4, <2>5, StretchSeen
  <1> QED
    BY <1>4, <1>5 DEF P
-----------------------------------------------------------------------------
(***************************************************************************)
(* Units.                                                                  *)
(***************************************************************************)

\* The elements of two sequences one after the other.
LEMMA ConcatRange ==
    ASSUME NEW E, NEW v \in Seq(E), NEW z \in Seq(E)
    PROVE  v \o z \in Seq(E) /\ Range(v \o z) = Range(v) \cup Range(z)
  <1> DEFINE y == v \o z
  <1>1. /\ y \in Seq(E) /\ Len(y) = Len(v) + Len(z) /\ Len(v) \in Nat /\ Len(z) \in Nat
        /\ \A i \in 1..(Len(v) + Len(z)) : y[i] = IF i <= Len(v) THEN v[i] ELSE z[i - Len(v)]
    BY ConcatProperties, LenProperties
  <1>2. DOMAIN y = 1..Len(y) /\ DOMAIN v = 1..Len(v) /\ DOMAIN z = 1..Len(z)
    BY <1>1, LenProperties
  <1> HIDE DEF y
  <1>3. ASSUME NEW i \in 1..Len(v) PROVE i \in 1..Len(y) /\ y[i] = v[i]
    BY <1>1
  <1>4. ASSUME NEW i \in 1..Len(z) PROVE Len(v) + i \in 1..Len(y) /\ y[Len(v) + i] = z[i]
    <2>1. PICK k \in Nat : k = Len(v) + i
      BY <1>1
    <2>2. k \in 1..(Len(v) + Len(z)) /\ ~(k <= Len(v)) /\ k - Len(v) = i
      BY <1>1, <2>1
    <2>3. y[k] = z[k - Len(v)]
      BY <1>1, <2>2
    <2> QED
      BY <1>1, <2>1, <2>2, <2>3
  <1>5. ASSUME NEW i \in 1..Len(y)
        PROVE  (\E k \in 1..Len(v) : y[i] = v[k]) \/ \E k \in 1..Len(z) : y[i] = z[k]
    <2>1. CASE i <= Len(v)
      BY <1>1, <2>1
    <2>2. CASE ~(i <= Len(v))
      <3>0. i \in Int /\ i - Len(v) \in Nat
        BY <1>1, <2>2
      <3>1. PICK k \in Nat : k = i - Len(v)
        BY <3>0
      <3>2. k \in 1..Len(z) /\ y[i] = z[k]
        BY <1>1, <2>2, <3>1
      <3> QED
        BY <3>2
    <2> QED
      BY <2>1, <2>2
  <1>6. Range(y) = Range(v) \cup Range(z)
    <2>1. ASSUME NEW e \in Range(y) PROVE e \in Range(v) \cup Range(z)
      BY <1>2, <1>5, Zenon DEF Range
    <2>2. ASSUME NEW e \in Range(v) PROVE e \in Range(y)
      BY <1>2, <1>3, Zenon DEF Range
    <2>3. ASSUME NEW e \in Range(z) PROVE e \in Range(y)
      BY <1>2, <1>4, Zenon DEF Range
    <2> QED
      BY <2>1, <2>2, <2>3
  <1> QED
    BY <1>1, <1>6 DEF y

\* FlattenSeq keeps every element and adds none.
LEMMA FlattenKeeps ==
    ASSUME NEW E, NEW seqs \in Seq(Seq(E))
    PROVE  /\ FlattenSeq(seqs) \in Seq(E)
           /\ \A i \in DOMAIN seqs : Range(seqs[i]) \subseteq Range(FlattenSeq(seqs))
  <1> DEFINE L == Len(seqs)
             flatten[i \in 1..L] == IF i = 1 THEN seqs[i] ELSE flatten[i - 1] \o seqs[i]
  <1>0. L \in Nat /\ DOMAIN seqs = 1..L /\ \A i \in 1..L : seqs[i] \in Seq(E)
    BY LenProperties, ElementOfSeq
  <1>1. CASE L = 0
    <2>1. FlattenSeq(seqs) = seqs /\ seqs = <<>>
      BY <1>1, EmptySeq DEF FlattenSeq
    <2> QED
      BY <1>0, <1>1, <2>1, EmptySeq
  <1>2. CASE L # 0
    <2> DEFINE N == L - 1
               F == [p \in Seq(E) \X (1..N) |-> p[1] \o seqs[p[2] + 1]]
    <2>0. N \in Nat /\ seqs[1] \in Seq(E)
      BY <1>0, <1>2
    <2>1. F \in [Seq(E) \X (1..N) -> Seq(E)]
      <3> SUFFICES ASSUME NEW v \in Seq(E), NEW k \in 1..N PROVE v \o seqs[k + 1] \in Seq(E)
        OBVIOUS
      <3>1. seqs[k + 1] \in Seq(E)
        BY <1>0
      <3> QED
        BY <3>1, ConcatProperties
    <2>2. \E g \in [0..N -> Seq(E)] : History(g, seqs[1], N, F)
      <3> HIDE DEF F, N, L
      <3> QED BY <2>0, <2>1, Iterates, Zenon
    <2>3. PICK g \in [0..N -> Seq(E)] : g[0] = seqs[1] /\ \A n \in 1..N : g[n] = F[<<g[n - 1], n>>]
      BY <2>2, Zenon DEF History
    <2>4. \A n \in 1..N : g[n] = g[n - 1] \o seqs[n + 1]
      <3> SUFFICES ASSUME NEW n \in 1..N PROVE g[n] = g[n - 1] \o seqs[n + 1]
        OBVIOUS
      <3>1. n - 1 \in 0..N
        BY <2>0
      <3>2. <<g[n - 1], n>> \in Seq(E) \X (1..N)
        BY <3>1
      <3> QED
        BY <2>3, <3>2
    <2> HIDE DEF F
    <2> DEFINE h == [i \in 1..L |-> g[i - 1]]
    <2>5. h = [i \in 1..L |-> IF i = 1 THEN seqs[i] ELSE h[i - 1] \o seqs[i]]
      <3>1. ASSUME NEW i \in 1..L PROVE h[i] = IF i = 1 THEN seqs[i] ELSE h[i - 1] \o seqs[i]
        <4>1. CASE i = 1
          BY <2>3, <4>1
        <4>2. CASE i # 1
          <5>1. i - 1 \in 1..N /\ i - 1 \in 1..L /\ (i - 1) + 1 = i
            BY <1>0, <4>2
          <5>2. g[i - 1] = g[(i - 1) - 1] \o seqs[i]
            BY <2>4, <5>1
          <5> QED
            BY <4>2, <5>1, <5>2
        <4> QED
          BY <4>1, <4>2
      <3>2. h = [i \in 1..L |-> h[i]]
        OBVIOUS
      <3> HIDE DEF h, L
      <3> QED
        BY <3>1, <3>2, Zenon
    <2>6. flatten = CHOOSE f : f = [i \in 1..L |-> IF i = 1 THEN seqs[i] ELSE f[i - 1] \o seqs[i]]
      BY DEF flatten
    <2>7. flatten = [i \in 1..L |-> IF i = 1 THEN seqs[i] ELSE flatten[i - 1] \o seqs[i]]
      <3> HIDE DEF h
      <3> QED BY <2>5, <2>6, Zenon
    <2> HIDE DEF flatten, h
    <2>8. \A i \in 1..L : flatten[i] = IF i = 1 THEN seqs[i] ELSE flatten[i - 1] \o seqs[i]
      BY <2>7, Zenon
    <2> DEFINE Good(k) == /\ flatten[k + 1] \in Seq(E)
                          /\ \A i \in 1..(k + 1) : Range(seqs[i]) \subseteq Range(flatten[k + 1])
               S == {k \in 0..N : Good(k)}
    <2>9. 0 \in S
      <3>1. flatten[1] = seqs[1] /\ 0 + 1 = 1
        BY <1>0, <1>2, <2>8
      <3>2. \A i \in 1..(0 + 1) : i = 1
        OBVIOUS
      <3> QED
        BY <2>0, <3>1, <3>2
    <2>10. ASSUME NEW k \in 1..N, k - 1 \in S PROVE k \in S
      <3>1. k \in 0..N /\ k + 1 \in 1..L /\ k + 1 # 1 /\ (k + 1) - 1 = k /\ (k - 1) + 1 = k
        BY <1>0
      <3> DEFINE v == flatten[k]
                 z == seqs[k + 1]
      <3>2. v \in Seq(E) /\ \A i \in 1..k : Range(seqs[i]) \subseteq Range(v)
        BY <2>10, <3>1
      <3>3. flatten[k + 1] = v \o z /\ z \in Seq(E)
        BY <1>0, <2>8, <3>1
      <3> HIDE DEF v, z
      <3>4. v \o z \in Seq(E) /\ Range(v \o z) = Range(v) \cup Range(z)
        BY <3>2, <3>3, ConcatRange
      <3>5. ASSUME NEW i \in 1..(k + 1) PROVE Range(seqs[i]) \subseteq Range(flatten[k + 1])
        <4>1. CASE i \in 1..k
          BY <3>2, <3>3, <3>4, <4>1
        <4>2. CASE i = k + 1
          BY <3>3, <3>4, <4>2 DEF z
        <4> QED
          BY <4>1, <4>2
      <3> QED
        BY <3>1, <3>3, <3>4, <3>5
    <2>11. 0..N \subseteq S
      <3> HIDE DEF S, N
      <3> QED BY <2>0, <2>9, <2>10, BoundedInduction
    <2>12. FlattenSeq(seqs) = flatten[L]
      BY <1>2, Zenon DEF FlattenSeq, flatten
    <2>13. N \in 0..N /\ N + 1 = L
      BY <1>0, <2>0
    <2> QED
      BY <1>0, <2>11, <2>12, <2>13
  <1> QED
    BY <1>1, <1>2

\* Every text of the evidence that is not ours and not blank becomes a segment.
LEMMA SegmentsKeep ==
    ASSUME NEW C, NEW ev \in Seq([text : Seq(C), own : BOOLEAN])
    PROVE  /\ Segments(ev) \in Seq(Seq(C))
           /\ \A i \in DOMAIN ev : ~ev[i].own /\ ~Blank(ev[i].text) => ev[i].text \in Range(Segments(ev))
  <1> DEFINE one(i) == IF ev[i].own \/ Blank(ev[i].text) THEN <<>> ELSE <<ev[i].text>>
             s == [i \in DOMAIN ev |-> one(i)]
  <1>0. Len(ev) \in Nat /\ DOMAIN ev = 1..Len(ev)
    BY LenProperties
  <1>1. ASSUME NEW i \in DOMAIN ev PROVE ev[i].text \in Seq(C)
    <2> DEFINE ER == [text : Seq(C), own : BOOLEAN]
    <2>1. ev[i] \in ER
      <3> HIDE DEF ER
      <3>1. ev \in Seq(ER)
        BY DEF ER
      <3> QED
        BY <1>0, <3>1, ElementOfSeq
    <2>2. \A r \in ER : r.text \in Seq(C)
      OBVIOUS
    <2> QED
      BY <2>1, <2>2, Zenon
  <1>2. ASSUME NEW i \in DOMAIN ev PROVE one(i) \in Seq(Seq(C))
    <2>1. PICK x \in Seq(C) : x = ev[i].text
      BY <1>1
    <2>2. <<x>> \in Seq(Seq(C)) /\ <<>> \in Seq(Seq(C))
      OBVIOUS
    <2> QED
      BY <2>1, <2>2, Zenon
  <1>3. s \in Seq(Seq(Seq(C))) /\ DOMAIN s = DOMAIN ev
    <2> HIDE DEF one
    <2>1. s \in [1..Len(ev) -> Seq(Seq(C))]
      BY <1>0, <1>2
    <2> QED
      BY <1>0, <2>1
  <1>4. Segments(ev) = FlattenSeq(s)
    BY Zenon DEF Segments
  <1> HIDE DEF s
  <1>5. /\ FlattenSeq(s) \in Seq(Seq(C))
        /\ \A i \in DOMAIN s : Range(s[i]) \subseteq Range(FlattenSeq(s))
    BY <1>3, FlattenKeeps
  <1>6. ASSUME NEW i \in DOMAIN ev, ~ev[i].own, ~Blank(ev[i].text)
        PROVE  ev[i].text \in Range(s[i])
    <2>1. s[i] = <<ev[i].text>>
      BY <1>6, Zenon DEF s
    <2>2. 1 \in DOMAIN s[i] /\ s[i][1] = ev[i].text
      BY <2>1
    <2> QED
      BY <2>2, Zenon DEF Range
  <1> QED
    BY <1>3, <1>4, <1>5, <1>6

\* Every piece that is not blank becomes a scan unit, once or not.
LEMMA UnitsKeep ==
    ASSUME NEW C, NEW texts \in Seq(Seq(C))
    PROVE  /\ scanUnits(texts) \in Seq(Seq(C))
           /\ \A i \in DOMAIN texts : \A p \in Range(chunkText(texts[i])) :
                 ~Blank(p) => p \in Range(scanUnits(texts))
  <1> DEFINE cut == [i \in DOMAIN texts |-> chunkText(texts[i])]
             pieces == FlattenSeq(cut)
             seen(i) == \E j \in 1..(i - 1) : pieces[j] = pieces[i]
             one(i) == IF Blank(pieces[i]) \/ seen(i) THEN <<>> ELSE <<pieces[i]>>
             s == [i \in DOMAIN pieces |-> one(i)]
  <1>0. scanUnits(texts) = FlattenSeq(s)
    BY Zenon DEF scanUnits
  <1>1. Len(texts) \in Nat /\ DOMAIN texts = 1..Len(texts)
    BY LenProperties
  <1>2. ASSUME NEW i \in DOMAIN texts PROVE texts[i] \in Seq(C) /\ chunkText(texts[i]) \in Seq(Seq(C))
    <2>1. texts[i] \in Seq(C)
      BY <1>1, ElementOfSeq
    <2> QED
      BY <2>1, ChunkTextCovers
  <1>3. cut \in Seq(Seq(Seq(C))) /\ DOMAIN cut = DOMAIN texts
    <2>1. cut \in [1..Len(texts) -> Seq(Seq(C))]
      BY <1>1, <1>2
    <2> QED
      BY <1>1, <2>1
  <1>4. \A i \in DOMAIN texts : cut[i] = chunkText(texts[i])
    OBVIOUS
  <1> HIDE DEF cut
  <1>5. pieces \in Seq(Seq(C)) /\ \A i \in DOMAIN cut : Range(cut[i]) \subseteq Range(pieces)
    BY <1>3, FlattenKeeps
  <1> HIDE DEF pieces
  <1>6. Len(pieces) \in Nat /\ DOMAIN pieces = 1..Len(pieces) /\ \A i \in DOMAIN pieces : pieces[i] \in Seq(C)
    BY <1>5, LenProperties, ElementOfSeq
  <1>7. ASSUME NEW i \in DOMAIN pieces PROVE one(i) \in Seq(Seq(C))
    <2>1. PICK x \in Seq(C) : x = pieces[i]
      BY <1>6
    <2>2. <<x>> \in Seq(Seq(C)) /\ <<>> \in Seq(Seq(C))
      OBVIOUS
    <2> QED
      BY <2>1, <2>2, Zenon
  <1>8. s \in Seq(Seq(Seq(C))) /\ DOMAIN s = DOMAIN pieces
    <2> HIDE DEF one
    <2>1. s \in [1..Len(pieces) -> Seq(Seq(C))]
      BY <1>6, <1>7
    <2> QED
      BY <1>6, <2>1
  <1>9. \A i \in DOMAIN pieces : s[i] = one(i)
    BY Zenon
  <1> HIDE DEF s
  <1>10. /\ FlattenSeq(s) \in Seq(Seq(C))
         /\ \A i \in DOMAIN s : Range(s[i]) \subseteq Range(FlattenSeq(s))
    BY <1>8, FlattenKeeps
  <1>11. ASSUME NEW p \in Range(pieces), ~Blank(p) PROVE p \in Range(FlattenSeq(s))
    <2> DEFINE T == {k \in DOMAIN pieces : pieces[k] = p}
    <2>1. T # {} /\ T \subseteq Nat
      <3>1. T # {}
        BY <1>11, Zenon DEF Range
      <3>2. DOMAIN pieces \subseteq Nat
        BY <1>6
      <3> QED
        BY <3>1, <3>2
    <2>2. PICK x \in T : \A y \in T : x <= y
      <3> HIDE DEF T
      <3> QED BY <2>1, LeastOf
    <2>3. x \in DOMAIN pieces /\ pieces[x] = p
      OBVIOUS
    <2>4. ~seen(x)
      <3> SUFFICES ASSUME NEW j \in 1..(x - 1), pieces[j] = pieces[x] PROVE FALSE
        OBVIOUS
      <3>1. j \in DOMAIN pieces /\ ~(x <= j)
        BY <1>6, <2>3
      <3> QED
        BY <2>2, <2>3, <3>1
    <2>5. s[x] = <<p>>
      <3> HIDE DEF seen
      <3> QED BY <1>9, <1>11, <2>3, <2>4
    <2>6. p \in Range(s[x])
      <3>1. 1 \in DOMAIN s[x] /\ s[x][1] = p
        BY <2>5
      <3> QED
        BY <3>1, Zenon DEF Range
    <2> QED
      BY <1>8, <1>10, <2>3, <2>6
  <1> QED
    BY <1>0, <1>3, <1>4, <1>5, <1>10, <1>11, Zenon
-----------------------------------------------------------------------------
(***************************************************************************)
(* The inductive invariant.                                                *)
(***************************************************************************)
Units == (UNION {Range(t) : t \in Texts}) \cup {"z"}
Pcs == {"none", "send", "dial", "asked", "sleep", "passed", "abort", "unavailable"}
Working == {"send", "dial", "asked", "sleep"}
Stages == Handshake \cup {"none", "open", "refused", "hung", "dead"}
Sts == {"idle", "dial", "sent", "body", "stuck", "pipe", "over"}
Phases == {"wait", "listen", "gate", "serve", "closing", "closed", "failed"}

\* The transport: what the gate's steps leave alone, the gate's socket aside.
Transport ==
    /\ scheme \in Schemes
    /\ boot \in Phases
    /\ polls \in 0..MaxPolls
    /\ dial \in [Socks -> Stages]
    /\ conn \in [Conns -> [k : {"abs", "tun"}, cl : BOOLEAN, st : Sts]]

\* The gate's own state.
GateTyped ==
    /\ gate \in [pc : Pcs, units : Seq(Seq(Units)), i : Nat, ep : {"gpu", "cpu"}, att : Nat]
    /\ gate.att <= Retries(gate.ep)
    /\ warnings \subseteq answered
    /\ faults \in 0..(CpuRetries + 1)

\* The units are those of the evidence; once it is gone no more is claimed.
UnitsOfEvidence ==
    /\ evidence \in Seq([text : Seq(Units), own : BOOLEAN])
    /\ evidence = <<>> \/ gate.units = scanUnits(Segments(evidence))

\* Units before the one at hand have a verdict.
Progress ==
    /\ gate.pc = "none" => gate.i = 1 /\ gate.ep = "gpu"
    /\ gate.pc \in Working => gate.i \in 1..Len(gate.units)
    /\ gate.pc \in Working => \A k \in 1..(gate.i - 1) : gate.units[k] \in answered
    /\ gate.pc = "passed" => \A k \in 1..Len(gate.units) : gate.units[k] \in answered

\* faults counts the CPU scanner's attempts at the unit at hand.
Counted ==
    /\ gate.pc = "none" => faults = 0 /\ gate.att = 0
    /\ gate.pc \in Working => faults = IF gate.ep = "gpu" THEN 0 ELSE gate.att
    /\ gate.pc = "unavailable" => faults = CpuRetries + 1

GateInv == GateTyped /\ UnitsOfEvidence /\ Progress /\ Counted
IInv == Transport /\ GateInv
-----------------------------------------------------------------------------
\* The constants are numbers.
LEMMA Bounds == GpuRetries \in Nat /\ CpuRetries \in Nat /\ MaxPolls \in Nat /\ MaxOdd \in Nat
  BY MeshAssumption

\* The untrusted texts are sequences of units.
LEMMA TextsTyped == \A t \in Texts : t \in Seq(Units)
  <1> SUFFICES ASSUME NEW t \in Texts PROVE t \in Seq(Units)
    OBVIOUS
  <1> DEFINE Of(n) == {Text(n, S, P) : S \in Few(n), P \in {Q \in Few(n - 1) : \A i \in Q : i + 1 \notin Q}}
  <1>0. Texts = UNION {Of(n) : n \in Lens}
    BY DEF Texts
  <1>1. PICK n \in Lens : \E S, P : t = Text(n, S, P)
    <2>1. PICK n \in Lens : t \in Of(n)
      <3> HIDE DEF Of
      <3> QED BY <1>0
    <2>2. \E S, P : t = Text(n, S, P)
      BY <2>1
    <2> QED
      BY <2>2
  <1>2. n \in Nat
    BY MeshAssumption
  <1>3. t = [i \in 1..n |-> t[i]]
    BY <1>1 DEF Text
  <1>4. DOMAIN t = 1..n
    BY <1>3
  <1>5. \A i \in 1..n : t[i] \in Units
    <2> SUFFICES ASSUME NEW i \in 1..n PROVE t[i] \in Units
      OBVIOUS
    <2>1. t[i] \in Range(t)
      BY <1>4, Zenon DEF Range
    <2> QED
      BY <2>1, Zenon DEF Units
  <1>6. t \in [1..n -> Units]
    BY <1>3, <1>5
  <1> QED
    BY <1>2, <1>6

\* The program starts in the invariant.
LEMMA InitInv == Init => IInv
  <1> SUFFICES ASSUME Init PROVE IInv
    OBVIOUS
  <1>1. Transport
    <2>1. boot \in Phases /\ polls \in 0..MaxPolls /\ scheme \in Schemes
      BY Bounds DEF Init, Phases
    <2>2. dial \in [Socks -> Stages]
      BY DEF Init, Stages
    <2>3. conn \in [Conns -> [k : {"abs", "tun"}, cl : BOOLEAN, st : Sts]]
      BY DEF Init, Sts
    <2> QED
      BY <2>1, <2>2, <2>3, Zenon DEF Transport
  <1>2. PICK t \in Texts, own \in BOOLEAN :
            evidence = <<[text |-> t, own |-> FALSE], [text |-> IF own THEN <<"z">> ELSE t, own |-> own]>>
    BY Zenon DEF Init
  <1>3. evidence \in Seq([text : Seq(Units), own : BOOLEAN])
    <2>1. PICK s \in Seq(Units) : s = IF own THEN <<"z">> ELSE t
      <3>1. "z" \in Units
        BY Zenon DEF Units
      <3>2. <<"z">> \in Seq(Units)
        BY <3>1
      <3>3. t \in Seq(Units)
        BY TextsTyped
      <3> QED
        BY <3>2, <3>3
    <2>2. t \in Seq(Units)
      BY TextsTyped
    <2> DEFINE ER == [text : Seq(Units), own : BOOLEAN]
    <2>3. [text |-> t, own |-> FALSE] \in ER /\ [text |-> s, own |-> own] \in ER
      BY <2>2
    <2>4. PICK a \in ER, b \in ER : evidence = <<a, b>>
      <3> HIDE DEF ER
      <3> QED BY <1>2, <2>1, <2>3
    <2> HIDE DEF ER
    <2>5. evidence \in Seq(ER)
      BY <2>4
    <2> QED
      BY <2>5 DEF ER
  <1>4. scanUnits(Segments(evidence)) \in Seq(Seq(Units))
    BY <1>3, SegmentsKeep, UnitsKeep
  <1>5. PICK u \in Seq(Seq(Units)) : u = scanUnits(Segments(evidence))
    BY <1>4
  <1>6. gate = [pc |-> "none", units |-> u, i |-> 1, ep |-> "gpu", att |-> 0]
    BY <1>5 DEF Init, IdleGate
  <1>7. answered = {} /\ warnings = {} /\ faults = 0
    BY DEF Init
  <1>8. GateInv
    <2>1. GateTyped
      BY <1>6, <1>7, Bounds DEF GateTyped, Pcs, Retries
    <2>2. UnitsOfEvidence
      BY <1>3, <1>5, <1>6 DEF UnitsOfEvidence
    <2>3. Progress /\ Counted
      BY <1>6, <1>7 DEF Progress, Counted, Working
    <2> QED
      BY <2>1, <2>2, <2>3 DEF GateInv
  <1> QED
    BY <1>1, <1>8 DEF IInv
-----------------------------------------------------------------------------
(***************************************************************************)
(* The transport keeps its types.                                          *)
(***************************************************************************)
ConnRec == [k : {"abs", "tun"}, cl : BOOLEAN, st : Sts]

\* A dial moves to a stage.
LEMMA SetDialTyped ==
    ASSUME dial \in [Socks -> Stages], NEW s, NEW stage \in Stages, SetDial(s, stage)
    PROVE  dial' \in [Socks -> Stages]
  BY DEF SetDial

\* A bridge connection moves to a state.
LEMMA SetConnTyped ==
    ASSUME conn \in [Conns -> ConnRec], NEW c \in Conns, NEW st \in Sts, SetConn(c, st)
    PROVE  conn' \in [Conns -> ConnRec]
  <1>1. [conn[c] EXCEPT !.st = st] \in ConnRec
    BY DEF ConnRec
  <1>2. conn' = [conn EXCEPT ![c] = [conn[c] EXCEPT !.st = st]]
    BY DEF SetConn
  <1> HIDE DEF ConnRec
  <1> QED
    BY <1>1, <1>2

\* Named stages and states.
LEMMA Named ==
    /\ \A x \in {"tcp", "greeting", "auth", "connect", "chain", "open", "refused", "hung", "dead", "none"} : x \in Stages
    /\ \A x \in {"dial", "sent", "body", "stuck", "pipe", "over"} : x \in Sts
    /\ \A x \in {"gate", "listen", "failed", "serve", "closing", "closed"} : x \in Phases
  BY DEF Stages, Handshake, Sts, Phases

\* main's steps.
LEMMA MainTransport == ASSUME Transport, Main PROVE Transport'
  <1> USE DEF Transport
  <1>1. CASE waitForSocks5Proxy
    <2>1. polls' \in 0..MaxPolls /\ boot' \in Phases
      BY <1>1, Bounds, Named DEF waitForSocks5Proxy
    <2> QED
      BY <1>1, <2>1 DEF waitForSocks5Proxy
  <1>2. CASE startMeshProxyBridge
    <2>1. boot' \in Phases
      BY <1>2, Named DEF startMeshProxyBridge
    <2> QED
      BY <1>2, <2>1 DEF startMeshProxyBridge
  <1>3. CASE Prompt
    <2>1. boot' \in Phases
      BY <1>3, Named DEF Prompt
    <2> QED
      BY <1>3, <2>1 DEF Prompt
  <1>4. CASE Close
    <2>1. boot' \in Phases
      BY <1>4, Named DEF Close
    <2> QED
      BY <1>4, <2>1 DEF Close
  <1>5. CASE CloseDone
    <2>1. boot' \in Phases
      BY <1>5, Named DEF CloseDone
    <2> QED
      BY <1>5, <2>1 DEF CloseDone
  <1> QED
    BY <1>1, <1>2, <1>3, <1>4, <1>5 DEF Main

\* A step of a dial.
LEMMA DialTransport == ASSUME Transport, Dial PROVE Transport'
  <1>1. PICK s \in Socks : socks5Connect(s) \/ DialFails(s) \/ ChainHangs(s) \/ RefusedTimesOut(s)
    BY DEF Dial
  <1>2. dial \in [Socks -> Stages]
    BY DEF Transport
  <1>3. dial' \in [Socks -> Stages]
    <2>1. CASE socks5Connect(s)
      <3>1. AfterConnect(s) \in Stages
        BY Named DEF AfterConnect
      <3>2. dial[s] \in Handshake
        BY <2>1, Zenon DEF socks5Connect
      <3>3. dial[s] # "tcp" => \A stage \in AfterReply(dial[s]) : stage \in Stages
        BY <3>2, Named DEF AfterReply, Handshake
      <3>4. PICK stage \in Stages : SetDial(s, stage)
        <4>1. CASE dial[s] = "tcp"
          BY <2>1, <3>1, <4>1, Zenon DEF socks5Connect
        <4>2. CASE dial[s] # "tcp"
          BY <2>1, <3>3, <4>2, Zenon DEF socks5Connect
        <4> QED
          BY <4>1, <4>2
      <3> QED
        BY <1>2, <3>4, SetDialTyped
    <2>2. CASE DialFails(s) \/ RefusedTimesOut(s)
      BY <1>2, <2>2, Named, SetDialTyped DEF DialFails, RefusedTimesOut
    <2>3. CASE ChainHangs(s)
      BY <1>2, <2>3, Named, SetDialTyped DEF ChainHangs
    <2> QED
      BY <1>1, <2>1, <2>2, <2>3
  <1>4. UNCHANGED <<scheme, boot, polls, conn>>
    BY <1>1 DEF socks5Connect, DialFails, ChainHangs, RefusedTimesOut
  <1> QED
    BY <1>3, <1>4 DEF Transport

\* A step of the gate moves its socket.
LEMMA GateTransport == ASSUME Transport, GateStep PROVE Transport'
  <1>1. UNCHANGED <<scheme, boot, polls, conn>>
    BY DEF GateStep, scanGate, Send, Request, AttemptFails, Backoff, Refused, Verdict
  <1>2. dial' = dial \/ \E stage \in Stages : SetDial("vigil", stage)
    <2>1. CASE scanGate \/ Request \/ Backoff
      BY <2>1 DEF scanGate, Request, Backoff
    <2>2. CASE Send
      BY <2>2, Named DEF Send
    <2>3. CASE AttemptFails \/ Refused
      BY <2>3, Named DEF AttemptFails, Refused
    <2>4. CASE Verdict
      BY <2>4, Named DEF Verdict
    <2> QED
      BY <2>1, <2>2, <2>3, <2>4 DEF GateStep
  <1>3. dial' \in [Socks -> Stages]
    <2>1. dial \in [Socks -> Stages]
      BY DEF Transport
    <2> QED
      BY <1>2, <2>1, SetDialTyped
  <1> QED
    BY <1>1, <1>3 DEF Transport

\* A step of the bridge.
LEMMA BridgeTransport == ASSUME Transport, Bridge PROVE Transport'
  <1>1. PICK c \in Conns : \/ Accept(c) \/ Dialled(c) \/ Headers(c) \/ UpstreamEnds(c)
                           \/ BodyCut(c) \/ IdleTimeout(c) \/ ClientLeaves(c)
    BY DEF Bridge
  <1>2. dial \in [Socks -> Stages] /\ conn \in [Conns -> ConnRec]
    BY DEF Transport, ConnRec
  <1>3. UNCHANGED <<scheme, boot, polls>>
    BY <1>1 DEF Accept, Dialled, Headers, UpstreamEnds, BodyCut, IdleTimeout, ClientLeaves
  <1>4. dial' \in [Socks -> Stages]
    <2>1. dial' = dial \/ \E stage \in Stages : SetDial(c, stage)
      <3>1. CASE Accept(c)
        BY <3>1, Named DEF Accept
      <3>2. CASE Dialled(c) \/ Headers(c)
        BY <3>2 DEF Dialled, Headers
      <3>3. CASE UpstreamEnds(c) \/ BodyCut(c) \/ IdleTimeout(c)
        BY <3>3, Named DEF UpstreamEnds, BodyCut, IdleTimeout
      <3>4. CASE ClientLeaves(c)
        BY <3>4, Named DEF ClientLeaves, SetDial
      <3> QED
        BY <1>1, <3>1, <3>2, <3>3, <3>4
    <2> QED
      BY <1>2, <2>1, SetDialTyped
  <1>5. conn' \in [Conns -> ConnRec]
    <2>1. CASE Accept(c)
      <3>1. \A k \in {"abs", "tun"}, st \in Sts : [k |-> k, st |-> st, cl |-> TRUE] \in ConnRec
        BY DEF ConnRec
      <3>2. PICK r \in ConnRec : conn' = [conn EXCEPT ![c] = r]
        BY <2>1, <3>1, Named DEF Accept
      <3> QED
        BY <1>2, <3>2
    <2>2. CASE Dialled(c) \/ Headers(c) \/ UpstreamEnds(c) \/ BodyCut(c) \/ IdleTimeout(c)
      <3>1. PICK st \in Sts : SetConn(c, st)
        BY <2>2, Named DEF Dialled, Headers, UpstreamEnds, BodyCut, IdleTimeout
      <3> QED
        BY <1>2, <3>1, SetConnTyped
    <2>3. CASE ClientLeaves(c)
      <3>1. PICK st \in Sts : st = IF conn[c].st \in {"pipe", "stuck"} THEN "over" ELSE conn[c].st
        <4>1. conn[c].st \in Sts
          BY <1>2 DEF ConnRec
        <4> QED
          BY <4>1, Named
      <3>2. conn' = [conn EXCEPT ![c].cl = FALSE, ![c].st = IF @ \in {"pipe", "stuck"} THEN "over" ELSE @]
        BY <2>3, Zenon DEF ClientLeaves
      <3>3. \A d \in Conns : conn'[d] \in ConnRec
        <4> SUFFICES ASSUME NEW d \in Conns PROVE conn'[d] \in ConnRec
          OBVIOUS
        <4>1. CASE d # c
          BY <1>2, <3>2, <4>1 DEF ConnRec
        <4>2. CASE d = c
          <5>1. conn'[c] = [conn[c] EXCEPT !.cl = FALSE, !.st = st]
            BY <1>2, <3>1, <3>2
          <5>2. [conn[c] EXCEPT !.cl = FALSE, !.st = st] \in ConnRec
            BY <1>2 DEF ConnRec
          <5> QED
            BY <4>2, <5>1, <5>2
        <4> QED
          BY <4>1, <4>2
      <3>4. conn' = [d \in Conns |-> conn'[d]]
        BY <1>2, <3>2
      <3> QED
        BY <3>3, <3>4
    <2> QED
      BY <1>1, <2>1, <2>2, <2>3
  <1> QED
    BY <1>3, <1>4, <1>5 DEF Transport, ConnRec
-----------------------------------------------------------------------------
(***************************************************************************)
(* The gate keeps its invariant.                                           *)
(***************************************************************************)
Eps == {"gpu", "cpu"}
GateRec == [pc : Pcs, units : Seq(Seq(Units)), i : Nat, ep : Eps, att : Nat]

\* h is g with another pc, unit, endpoint and attempt.
Moved(h, g, pc, i, ep, att) ==
    h \in GateRec /\ h.pc = pc /\ h.units = g.units /\ h.i = i /\ h.ep = ep /\ h.att = att

\* The ways the gate's record is changed.
LEMMA Moves ==
    ASSUME NEW g \in GateRec, NEW pc \in Pcs, NEW i \in Nat, NEW ep \in Eps, NEW att \in Nat
    PROVE  /\ Moved([g EXCEPT !.pc = pc], g, pc, g.i, g.ep, g.att)
           /\ Moved([g EXCEPT !.pc = pc, !.att = att], g, pc, g.i, g.ep, att)
           /\ Moved([g EXCEPT !.ep = ep, !.att = att, !.pc = pc], g, pc, g.i, ep, att)
           /\ Moved([g EXCEPT !.pc = pc, !.i = i, !.ep = ep, !.att = att], g, pc, i, ep, att)
  BY DEF Moved, GateRec

\* The gate's record has its type.
LEMMA GateRecOf == ASSUME GateTyped PROVE gate \in GateRec
  BY DEF GateTyped, GateRec, Eps

\* Names used below.
LEMMA GateNames ==
    /\ Working \subseteq Pcs /\ "none" \in Pcs /\ "passed" \in Pcs /\ "abort" \in Pcs /\ "unavailable" \in Pcs
    /\ "none" \notin Working /\ "passed" \notin Working /\ "abort" \notin Working /\ "unavailable" \notin Working
    /\ "send" \in Working /\ "dial" \in Working /\ "asked" \in Working /\ "sleep" \in Working
    /\ "gpu" \in Eps /\ "cpu" \in Eps /\ Retries("gpu") = GpuRetries /\ Retries("cpu") = CpuRetries
  BY DEF Working, Pcs, Eps, Retries

\* A step that leaves the gate alone.
LEMMA GateSame == ASSUME GateInv, UNCHANGED gates PROVE GateInv'
  BY DEF GateInv, gates, GateTyped, UnitsOfEvidence, Progress, Counted, Retries

\* A step from one working pc to another.
LEMMA GateMoves ==
    ASSUME GateInv, gate.pc \in Working, NEW pc \in Working, Gate(pc),
           UNCHANGED <<evidence, answered, warnings, faults>>
    PROVE  GateInv'
  <1>1. gate \in GateRec /\ GateTyped /\ UnitsOfEvidence /\ Progress /\ Counted
    BY GateRecOf DEF GateInv
  <1>2. Moved(gate', gate, pc, gate.i, gate.ep, gate.att)
    BY <1>1, Moves, GateNames DEF Gate, GateRec
  <1>3. gate' \in GateRec /\ gate'.pc = pc /\ gate'.units = gate.units /\ gate'.i = gate.i
        /\ gate'.ep = gate.ep /\ gate'.att = gate.att
    BY <1>2 DEF Moved
  <1>4. GateTyped'
    BY <1>1, <1>3 DEF GateTyped, GateRec, Eps, Retries
  <1>5. UnitsOfEvidence'
    BY <1>1, <1>3 DEF UnitsOfEvidence
  <1>6. Progress'
    BY <1>1, <1>3, GateNames DEF Progress
  <1>7. Counted'
    BY <1>1, <1>3, GateNames DEF Counted
  <1> QED
    BY <1>4, <1>5, <1>6, <1>7 DEF GateInv

\* The gate begins, or has nothing to do.
LEMMA BeginKeeps == ASSUME GateInv, scanGate PROVE GateInv'
  <1>1. gate \in GateRec /\ GateTyped /\ UnitsOfEvidence /\ Progress /\ Counted
    BY GateRecOf DEF GateInv
  <1>2. PICK pc \in Pcs : pc = IF gate.units = <<>> THEN "passed" ELSE "send"
    BY GateNames
  <1>3. Moved(gate', gate, pc, gate.i, gate.ep, gate.att)
    <2>1. gate' = [gate EXCEPT !.pc = pc]
      BY <1>2, Zenon DEF scanGate, Gate
    <2> QED
      BY <1>1, <2>1, Moves DEF GateRec
  <1>4. gate' \in GateRec /\ gate'.pc = pc /\ gate'.units = gate.units /\ gate'.i = gate.i
        /\ gate'.ep = gate.ep /\ gate'.att = gate.att
    BY <1>3 DEF Moved
  <1>5. gate.pc = "none" /\ UNCHANGED <<evidence, answered, warnings, faults>>
    BY DEF scanGate
  <1>6. gate.units \in Seq(Seq(Units)) /\ Len(gate.units) \in Nat
    <2>1. gate.units \in Seq(Seq(Units))
      BY <1>1 DEF GateRec
    <2> QED
      BY <2>1, LenProperties
  <1>7. gate.units = <<>> => Len(gate.units) = 0
    OBVIOUS
  <1>8. gate.units # <<>> => Len(gate.units) # 0
    BY <1>6, EmptySeq
  <1>9. GateTyped'
    BY <1>1, <1>4, <1>5 DEF GateTyped, GateRec, Eps, Retries
  <1>10. UnitsOfEvidence'
    BY <1>1, <1>4, <1>5 DEF UnitsOfEvidence
  <1>11. Progress'
    <2>1. CASE gate.units = <<>>
      BY <1>1, <1>2, <1>4, <1>5, <1>7, <2>1, GateNames DEF Progress
    <2>2. CASE gate.units # <<>>
      <3>1. gate'.i = 1 /\ gate'.pc = "send" /\ gate'.i \in 1..Len(gate'.units)
        BY <1>1, <1>2, <1>4, <1>5, <1>6, <1>8, <2>2 DEF Progress
      <3> QED
        BY <3>1 DEF Progress
    <2> QED
      BY <2>1, <2>2
  <1>12. Counted'
    BY <1>1, <1>2, <1>4, <1>5, GateNames DEF Counted, Progress
  <1> QED
    BY <1>9, <1>10, <1>11, <1>12 DEF GateInv

\* The endpoint is given up: the other one is next, or the gate fails.
LEMMA UnavailableKeeps ==
    ASSUME GateInv, gate.pc \in Working, gate' = EndpointUnavailable,
           faults' = IF gate.ep = "cpu" THEN CpuRetries + 1 ELSE faults,
           UNCHANGED <<evidence, answered, warnings>>
    PROVE  GateInv'
  <1>1. gate \in GateRec /\ GateTyped /\ UnitsOfEvidence /\ Progress /\ Counted
    BY GateRecOf DEF GateInv
  <1>2. gate.ep \in Eps
    BY <1>1 DEF GateRec
  <1>3. CASE gate.ep = "gpu"
    <2>1. Moved(gate', gate, "send", gate.i, "cpu", 0)
      <3>1. gate' = [gate EXCEPT !.ep = "cpu", !.att = 0, !.pc = "send"]
        BY <1>3, Zenon DEF EndpointUnavailable
      <3>2. "send" \in Pcs /\ "cpu" \in Eps /\ 0 \in Nat /\ gate.i \in Nat
        BY <1>1, GateNames DEF GateRec
      <3>3. Moved([gate EXCEPT !.ep = "cpu", !.att = 0, !.pc = "send"], gate, "send", gate.i, "cpu", 0)
        BY <1>1, <3>2, Moves
      <3> QED
        BY <3>1, <3>3
    <2>2. gate' \in GateRec /\ gate'.pc = "send" /\ gate'.units = gate.units /\ gate'.i = gate.i
          /\ gate'.ep = "cpu" /\ gate'.att = 0 /\ faults' = faults
      BY <1>3, <2>1 DEF Moved
    <2>3. GateTyped'
      <3>1. faults' \in 0..(CpuRetries + 1) /\ warnings' \subseteq answered' /\ gate'.att <= Retries(gate'.ep)
        BY <1>1, <2>2, Bounds, GateNames DEF GateTyped
      <3> QED
        BY <2>2, <3>1 DEF GateTyped, GateRec, Eps, Retries
    <2>4. UnitsOfEvidence'
      BY <1>1, <2>2 DEF UnitsOfEvidence
    <2>5. Progress'
      BY <1>1, <2>2, GateNames DEF Progress
    <2>6. Counted'
      BY <1>1, <1>3, <2>2, GateNames DEF Counted
    <2> QED
      BY <2>3, <2>4, <2>5, <2>6 DEF GateInv
  <1>4. CASE gate.ep = "cpu"
    <2>1. Moved(gate', gate, "unavailable", gate.i, gate.ep, gate.att)
      <3>1. gate' = [gate EXCEPT !.pc = "unavailable"]
        BY <1>4, Zenon DEF EndpointUnavailable
      <3>2. "unavailable" \in Pcs /\ "cpu" \in Eps /\ 0 \in Nat
        BY GateNames
      <3> QED
        BY <1>1, <3>1, <3>2, Moves, Zenon
    <2>2. gate' \in GateRec /\ gate'.pc = "unavailable" /\ gate'.units = gate.units /\ gate'.i = gate.i
          /\ gate'.ep = gate.ep /\ gate'.att = gate.att /\ faults' = CpuRetries + 1
      BY <1>4, <2>1 DEF Moved
    <2>3. GateTyped'
      <3>1. faults' \in 0..(CpuRetries + 1) /\ warnings' \subseteq answered' /\ gate'.att <= Retries(gate'.ep)
        BY <1>1, <2>2, Bounds, GateNames DEF GateTyped
      <3> QED
        BY <2>2, <3>1 DEF GateTyped, GateRec, Eps, Retries
    <2>4. UnitsOfEvidence'
      BY <1>1, <2>2 DEF UnitsOfEvidence
    <2>5. Progress'
      BY <1>1, <2>2, GateNames DEF Progress
    <2>6. Counted'
      BY <2>2, GateNames DEF Counted
    <2> QED
      BY <2>3, <2>4, <2>5, <2>6 DEF GateInv
  <1> QED
    BY <1>2, <1>3, <1>4 DEF Eps

\* A failed attempt is repeated, or the endpoint is given up.
LEMMA AttemptKeeps == ASSUME GateInv, AttemptFails PROVE GateInv'
  <1>1. gate \in GateRec /\ GateTyped /\ UnitsOfEvidence /\ Progress /\ Counted
    BY GateRecOf DEF GateInv
  <1>2. gate.pc \in Working /\ UNCHANGED <<evidence, answered, warnings>>
    BY GateNames DEF AttemptFails
  <1>3. gate.ep \in Eps /\ gate.att \in Nat /\ gate.i \in Nat /\ gate.att <= Retries(gate.ep)
    BY <1>1 DEF GateRec, GateTyped
  <1>4. CASE gate.att < Retries(gate.ep)
    <2>1. PICK m \in Nat : m = gate.att + 1
      BY <1>3
    <2>2. gate' = [gate EXCEPT !.pc = "sleep", !.att = m]
      BY <1>4, <2>1, Zenon DEF AttemptFails
    <2>3. Moved(gate', gate, "sleep", gate.i, gate.ep, m)
      <3>1. "sleep" \in Pcs /\ "cpu" \in Eps
        BY GateNames
      <3> QED
        BY <1>1, <1>3, <2>2, <3>1, Moves, Zenon
    <2>4. gate' \in GateRec /\ gate'.pc = "sleep" /\ gate'.units = gate.units /\ gate'.i = gate.i
          /\ gate'.ep = gate.ep /\ gate'.att = m
      BY <2>3 DEF Moved
    <2>5. faults' = IF gate.ep = "cpu" THEN faults + 1 ELSE faults
      BY DEF AttemptFails
    <2>6. faults' = IF gate.ep = "gpu" THEN 0 ELSE m
      BY <1>1, <1>2, <1>3, <2>1, <2>5 DEF Counted, Eps
    <2>7. faults' \in 0..(CpuRetries + 1) /\ m <= Retries(gate.ep)
      BY <1>3, <1>4, <2>1, <2>6, Bounds DEF Retries, Eps
    <2>8. GateTyped'
      BY <1>1, <1>2, <2>4, <2>7 DEF GateTyped, GateRec, Eps, Retries
    <2>9. UnitsOfEvidence'
      BY <1>1, <1>2, <2>4 DEF UnitsOfEvidence
    <2>10. Progress'
      BY <1>1, <1>2, <2>4, GateNames DEF Progress
    <2>11. Counted'
      BY <2>4, <2>6, GateNames DEF Counted
    <2> QED
      BY <2>8, <2>9, <2>10, <2>11 DEF GateInv
  <1>5. CASE ~(gate.att < Retries(gate.ep))
    <2>1. gate' = EndpointUnavailable
      BY <1>5, Zenon DEF AttemptFails
    <2>2. gate.ep = "cpu" => faults + 1 = CpuRetries + 1
      BY <1>1, <1>2, <1>3, <1>5, Bounds DEF Counted, Retries
    <2>3. faults' = IF gate.ep = "cpu" THEN CpuRetries + 1 ELSE faults
      BY <2>2, Zenon DEF AttemptFails
    <2> QED
      BY <1>2, <2>1, <2>3, UnavailableKeeps
  <1> QED
    BY <1>4, <1>5

\* A verdict ends the gate or leads to the next unit.
LEMMA VerdictKeeps == ASSUME GateInv, Verdict PROVE GateInv'
  <1>1. gate \in GateRec /\ GateTyped /\ UnitsOfEvidence /\ Progress /\ Counted
    BY GateRecOf DEF GateInv
  <1>2. gate.pc = "asked" /\ gate.pc \in Working /\ answered' = answered \cup {gate.units[gate.i]}
        /\ faults' = 0 /\ evidence' = evidence
    BY GateNames DEF Verdict
  <1>3. PICK level \in {Level(hits) : hits \in SUBSET {"transformer", "yara", "vectordb", "other"}} :
            /\ Answered(level)
            /\ warnings' = IF level = "warn" THEN warnings \cup {gate.units[gate.i]} ELSE warnings
    BY Zenon DEF Verdict
  <1>4. gate.ep \in Eps /\ gate.att \in Nat /\ gate.i \in Nat /\ gate.att <= Retries(gate.ep)
        /\ gate.i \in 1..Len(gate.units) /\ Len(gate.units) \in Nat
    <2>1. gate.units \in Seq(Seq(Units))
      BY <1>1 DEF GateRec
    <2> QED
      BY <1>1, <1>2, <2>1, LenProperties DEF GateRec, GateTyped, Progress
  <1>5. warnings' \subseteq answered'
    BY <1>1, <1>2, <1>3 DEF GateTyped
  <1>6. \A k \in 1..gate.i : gate.units[k] \in answered'
    <2> SUFFICES ASSUME NEW k \in 1..gate.i PROVE gate.units[k] \in answered'
      OBVIOUS
    <2>1. k = gate.i \/ k \in 1..(gate.i - 1)
      BY <1>4
    <2> QED
      BY <1>1, <1>2, <2>1 DEF Progress
  <1>7. CASE level = "abort" \/ gate.i = Len(gate.units)
    <2>1. PICK pc \in Pcs : pc = (IF level = "abort" THEN "abort" ELSE "passed")
      BY GateNames
    <2>2. gate' = [gate EXCEPT !.pc = pc]
      BY <1>3, <1>7, <2>1, Zenon DEF Answered
    <2>3. Moved(gate', gate, pc, gate.i, gate.ep, gate.att)
      BY <1>1, <1>4, <2>2, Moves, Zenon
    <2>4. gate' \in GateRec /\ gate'.pc = pc /\ gate'.units = gate.units /\ gate'.i = gate.i
          /\ gate'.ep = gate.ep /\ gate'.att = gate.att
      BY <2>3 DEF Moved
    <2>5. GateTyped'
      BY <1>1, <1>2, <1>5, <2>4, Bounds DEF GateTyped, GateRec, Eps, Retries
    <2>6. UnitsOfEvidence'
      BY <1>1, <1>2, <2>4 DEF UnitsOfEvidence
    <2>7. pc = "passed" => gate.i = Len(gate.units)
      BY <1>7, <2>1
    <2>8. pc \notin Working /\ pc # "none" /\ pc # "unavailable"
      BY <2>1, GateNames
    <2>9. Progress'
      BY <1>6, <2>4, <2>7, <2>8 DEF Progress
    <2>10. Counted'
      BY <2>4, <2>8 DEF Counted
    <2> QED
      BY <2>5, <2>6, <2>9, <2>10 DEF GateInv
  <1>8. CASE ~(level = "abort" \/ gate.i = Len(gate.units))
    <2>1. PICK m \in Nat : m = gate.i + 1
      BY <1>4
    <2>2. gate' = [gate EXCEPT !.pc = "send", !.i = m, !.ep = "gpu", !.att = 0]
      BY <1>3, <1>8, <2>1, Zenon DEF Answered
    <2>3. Moved(gate', gate, "send", m, "gpu", 0)
      <3>1. "send" \in Pcs /\ "gpu" \in Eps /\ 0 \in Nat
        BY GateNames
      <3> QED
        BY <1>1, <2>2, <3>1, Moves, Zenon
    <2>4. gate' \in GateRec /\ gate'.pc = "send" /\ gate'.units = gate.units /\ gate'.i = m
          /\ gate'.ep = "gpu" /\ gate'.att = 0
      BY <2>3 DEF Moved
    <2>5. GateTyped'
      BY <1>1, <1>2, <1>5, <2>4, Bounds DEF GateTyped, GateRec, Eps, Retries
    <2>6. UnitsOfEvidence'
      BY <1>1, <1>2, <2>4 DEF UnitsOfEvidence
    <2>7. m \in 1..Len(gate.units) /\ m - 1 = gate.i
      BY <1>4, <1>8, <2>1
    <2>8. Progress'
      BY <1>6, <2>4, <2>7, GateNames DEF Progress
    <2>9. Counted'
      BY <1>2, <2>4, GateNames DEF Counted
    <2> QED
      BY <2>5, <2>6, <2>8, <2>9 DEF GateInv
  <1> QED
    BY <1>7, <1>8

\* Prompting forgets the gate.
LEMMA PromptKeeps == ASSUME Prompt PROVE GateInv'
  <1>1. gate' = IdleGate /\ evidence' = <<>> /\ answered' = {} /\ warnings' = {} /\ faults' = 0
    BY DEF Prompt
  <1>2. <<>> \in Seq(Seq(Units)) /\ <<>> \in Seq([text : Seq(Units), own : BOOLEAN])
    OBVIOUS
  <1>3. GateTyped'
    BY <1>1, <1>2, Bounds, GateNames DEF GateTyped, IdleGate, Retries, Pcs
  <1>4. UnitsOfEvidence' /\ Progress' /\ Counted'
    BY <1>1, <1>2, GateNames DEF UnitsOfEvidence, Progress, Counted, IdleGate
  <1> QED
    BY <1>3, <1>4 DEF GateInv

\* Every step keeps the gate's invariant.
LEMMA GateNext == ASSUME GateInv, Next PROVE GateInv'
  <1>1. CASE Main
    <2>1. CASE Prompt
      BY <2>1, PromptKeeps
    <2>2. CASE waitForSocks5Proxy \/ startMeshProxyBridge \/ Close \/ CloseDone
      <3>1. UNCHANGED gates
        BY <2>2 DEF waitForSocks5Proxy, startMeshProxyBridge, Close, CloseDone
      <3> QED
        BY <3>1, GateSame
    <2> QED
      BY <1>1, <2>1, <2>2 DEF Main
  <1>2. CASE Dial
    <2>1. UNCHANGED gates
      BY <1>2 DEF Dial, socks5Connect, DialFails, ChainHangs, RefusedTimesOut
    <2> QED
      BY <2>1, GateSame
  <1>3. CASE GateStep
    <2>1. CASE scanGate
      BY <2>1, BeginKeeps
    <2>2. CASE Send
      BY <2>2, GateMoves, GateNames DEF Send
    <2>3. CASE Request
      BY <2>3, GateMoves, GateNames DEF Request
    <2>4. CASE Backoff
      BY <2>4, GateMoves, GateNames DEF Backoff
    <2>5. CASE AttemptFails
      BY <2>5, AttemptKeeps
    <2>6. CASE Refused
      BY <2>6, UnavailableKeeps, GateNames DEF Refused
    <2>7. CASE Verdict
      BY <2>7, VerdictKeeps
    <2> QED
      BY <1>3, <2>1, <2>2, <2>3, <2>4, <2>5, <2>6, <2>7 DEF GateStep
  <1>4. CASE Bridge
    <2>1. UNCHANGED gates
      BY <1>4 DEF Bridge, Accept, Dialled, Headers, UpstreamEnds, BodyCut, IdleTimeout, ClientLeaves
    <2> QED
      BY <2>1, GateSame
  <1> QED
    BY <1>1, <1>2, <1>3, <1>4 DEF Next

\* The invariant is inductive.
LEMMA Inductive == IInv /\ [Next]_vars => IInv'
  <1> SUFFICES ASSUME IInv, [Next]_vars PROVE IInv'
    OBVIOUS
  <1>0. Transport /\ GateInv
    BY DEF IInv
  <1>1. CASE Next
    <2>1. GateInv'
      BY <1>0, <1>1, GateNext
    <2>2. Transport'
      BY <1>0, <1>1, MainTransport, DialTransport, GateTransport, BridgeTransport DEF Next
    <2> QED
      BY <2>1, <2>2 DEF IInv
  <1>2. CASE UNCHANGED vars
    <2>1. GateInv'
      BY <1>0, <1>2, GateSame DEF vars, gates
    <2>2. Transport'
      BY <1>0, <1>2 DEF Transport, vars
    <2> QED
      BY <2>1, <2>2 DEF IInv
  <1> QED
    BY <1>1, <1>2

\* The invariant holds always.
LEMMA Always == Spec => []IInv
  BY InitInv, Inductive, PTL DEF Spec

\* A part of a blank piece is blank.
LEMMA BlankPart ==
    ASSUME NEW C, NEW p \in Seq(C), NEW w, NEW i \in 0..(Len(p) - Len(w)), Len(w) \in Nat,
           SubSeq(p, i + 1, i + Len(w)) = w, Blank(p)
    PROVE  Blank(w)
  <1>0. Len(p) \in Nat /\ DOMAIN p = 1..Len(p)
    BY LenProperties
  <1>1. DOMAIN w = 1..Len(w) /\ \A k \in 1..Len(w) : w[k] = p[i + k]
    <2> DEFINE m == i + 1
               n == i + Len(w)
    <2>1. m \in 1..(Len(p) + 1) /\ n \in (m - 1)..Len(p) /\ (n - m) + 1 = Len(w)
      BY <1>0
    <2>2. /\ SubSeq(p, m, n) \in Seq(C) /\ Len(SubSeq(p, m, n)) = (n - m) + 1
          /\ \A k \in 1..((n - m) + 1) : SubSeq(p, m, n)[k] = p[m + k - 1]
      <3> HIDE DEF m, n
      <3> QED BY <1>0, <2>1, SubSeqProperties
    <2>3. w \in Seq(C)
      BY <2>2
    <2>4. DOMAIN w = 1..Len(w)
      BY <2>3, LenProperties
    <2>5. ASSUME NEW k \in 1..Len(w) PROVE w[k] = p[i + k]
      <3>1. m + k - 1 = i + k
        BY <1>0
      <3> QED
        BY <2>1, <2>2, <3>1
    <2> QED
      BY <2>4, <2>5
  <1>2. ASSUME NEW k \in 1..Len(w) PROVE w[k] = " "
    <2>1. i + k \in 1..Len(p)
      BY <1>0
    <2> QED
      BY <1>0, <1>1, <2>1 DEF Blank
  <1> QED
    BY <1>1, <1>2 DEF Blank

\* What a passed gate has seen: every stretch of a text of the evidence is in one of its units.
LEMMA StretchInUnits ==
    ASSUME NEW C, NEW ev \in Seq([text : Seq(C), own : BOOLEAN]), NEW x \in DOMAIN ev, ~ev[x].own,
           NEW i \in DOMAIN ev[x].text, NEW j \in DOMAIN ev[x].text, i <= j, j < i + Overlap,
           ~Blank(SubSeq(ev[x].text, i, j))
    PROVE  SeenWhole(SubSeq(ev[x].text, i, j), Range(scanUnits(Segments(ev))))
  <1> DEFINE t == ev[x].text
             w == SubSeq(t, i, j)
             segs == Segments(ev)
  <1>0. t \in Seq(C) /\ Len(t) \in Nat /\ DOMAIN t = 1..Len(t)
    <2> DEFINE ER == [text : Seq(C), own : BOOLEAN]
    <2>1. ev[x] \in ER
      <3> HIDE DEF ER
      <3>1. ev \in Seq(ER)
        BY DEF ER
      <3> QED
        BY <3>1, LenProperties, ElementOfSeq
    <2>2. \A r \in ER : r.text \in Seq(C)
      OBVIOUS
    <2>3. t \in Seq(C)
      BY <2>1, <2>2, Zenon
    <2> QED
      BY <2>3, LenProperties
  <1>1. w \in Seq(C) /\ Len(w) = (j - i) + 1 /\ \A k \in 1..Len(w) : w[k] = t[i + k - 1]
    <2> HIDE DEF t
    <2>1. i \in Int /\ j \in Int /\ i..j \subseteq 1..Len(t)
      BY <1>0 DEF t
    <2>2. \A k \in i..j : t[k] \in C
      BY <1>0, <2>1, ElementOfSeq
    <2>3. SubSeq(t, i, j) \in Seq(C) /\ Len(SubSeq(t, i, j)) = (j - i) + 1
          /\ \A k \in 1..((j - i) + 1) : SubSeq(t, i, j)[k] = t[i + k - 1]
      BY <2>1, <2>2, SubSeqProperties
    <2> HIDE DEF w
    <2> QED
      BY <2>3 DEF w
  <1>2. ~Blank(t)
    <2> SUFFICES ASSUME Blank(t) PROVE Blank(w)
      OBVIOUS
    <2>1. \A k \in 1..Len(t) : t[k] = " "
      BY <1>0 DEF Blank
    <2>2. ASSUME NEW k \in 1..Len(w) PROVE w[k] = " "
      <3>1. i + k - 1 \in 1..Len(t)
        BY <1>0, <1>1
      <3> QED
        BY <1>1, <2>1, <3>1
    <2>3. DOMAIN w = 1..Len(w)
      BY <1>1, LenProperties
    <2> HIDE DEF w
    <2> QED
      BY <2>2, <2>3 DEF Blank
  <1> HIDE DEF w, segs
  <1>3. segs \in Seq(Seq(C)) /\ t \in Range(segs)
    BY <1>2, SegmentsKeep DEF segs
  <1>4. PICK y \in DOMAIN segs : segs[y] = t
    BY <1>3, Zenon DEF Range
  <1>5. chunkText(t) \in Seq(Seq(C)) /\ SeenWhole(w, Range(chunkText(t)))
    <2> HIDE DEF t
    <2> QED BY <1>0, ChunkTextCovers DEF w, t
  <1>6. PICK p \in Range(chunkText(t)) : \E k \in 0..(Len(p) - Len(w)) : SubSeq(p, k + 1, k + Len(w)) = w
    BY <1>5, Zenon DEF SeenWhole
  <1>7. p \in Seq(C)
    <2>1. PICK z \in DOMAIN chunkText(t) : chunkText(t)[z] = p
      BY Zenon DEF Range
    <2> QED
      BY <1>5, <2>1, LenProperties, ElementOfSeq
  <1>8. ~Blank(p)
    <2>1. Len(w) \in Nat
      BY <1>1, LenProperties
    <2>2. ~Blank(w)
      BY DEF w
    <2> QED
      BY <1>6, <1>7, <2>1, <2>2, BlankPart
  <1>9. p \in Range(scanUnits(segs))
    BY <1>3, <1>4, <1>6, <1>8, UnitsKeep
  <1>10. SeenWhole(w, Range(scanUnits(segs)))
    BY <1>6, <1>9, Zenon DEF SeenWhole
  <1> QED
    BY <1>10 DEF w, segs
-----------------------------------------------------------------------------
\* The state of the transport and the gate has its type: in particular the unit at
\* hand exists, no endpoint is tried more often than its retries allow, and a warning
\* is only given about a piece that has a verdict (analyze, analyzeAt, scanGate).
THEOREM TypeCorrect == Spec => []TypeOK
  <1>1. IInv => TypeOK
    <2> SUFFICES ASSUME IInv PROVE TypeOK
      OBVIOUS
    <2>1. Transport /\ GateTyped /\ Progress /\ gate \in GateRec
      BY GateRecOf DEF IInv, GateInv
    <2>2. gate.units \in Seq(Seq(Units)) /\ gate.pc \in Pcs /\ gate.ep \in Eps /\ gate.att \in Nat
      BY <2>1 DEF GateRec
    <2>3. DOMAIN gate.units = 1..Len(gate.units)
      BY <2>2, LenProperties
    <2>4. gate.att \in 0..Retries(gate.ep)
      BY <2>1, <2>2, Bounds DEF GateTyped, Retries
    <2>5. gate.pc \in {"send", "dial", "asked", "sleep"} => gate.i \in DOMAIN gate.units
      BY <2>1, <2>3 DEF Progress, Working
    <2>6. warnings \subseteq answered /\ faults \in 0..(CpuRetries + 1)
      BY <2>1 DEF GateTyped
    <2> QED
      BY <2>1, <2>2, <2>4, <2>5, <2>6, Zenon DEF TypeOK, Transport, Pcs, Eps, Retries, Phases, Stages, Sts
  <1> QED
    BY <1>1, Always, PTL

\* A gate is given up only after the CPU scanner refused a text or failed
\* CpuRetries + 1 times in a row, for every number of retries (analyze, analyzeAt).
THEOREM GivenUpLast == Spec => []FaultsTolerated
  <1>1. IInv => FaultsTolerated
    BY DEF IInv, GateInv, Counted, FaultsTolerated
  <1> QED
    BY <1>1, Always, PTL

\* A gate that passes has had a verdict on every stretch of untrusted text up to the
\* overlap, for texts of every length, every piece length and overlap, and however
\* the scanners failed (chunkSpans, scanUnits, scanGate, analyze).
THEOREM NothingUnscanned == Spec => []ScannedWhole
  <1>1. IInv => ScannedWhole
    <2> SUFFICES ASSUME IInv, gate.pc = "passed", NEW x \in DOMAIN evidence, ~evidence[x].own,
                        NEW i \in DOMAIN evidence[x].text, NEW j \in DOMAIN evidence[x].text,
                        i <= j, j < i + Overlap, ~Blank(SubSeq(evidence[x].text, i, j))
                 PROVE  SeenWhole(SubSeq(evidence[x].text, i, j), answered)
      BY Zenon DEF ScannedWhole
    <2>1. gate \in GateRec /\ UnitsOfEvidence /\ Progress
      BY GateRecOf DEF IInv, GateInv
    <2>2. evidence \in Seq([text : Seq(Units), own : BOOLEAN])
      BY <2>1 DEF UnitsOfEvidence
    <2>3. gate.units = scanUnits(Segments(evidence))
      <3>1. evidence # <<>>
        OBVIOUS
      <3> QED
        BY <2>1, <3>1 DEF UnitsOfEvidence
    <2>4. SeenWhole(SubSeq(evidence[x].text, i, j), Range(gate.units))
      BY <2>2, <2>3, StretchInUnits
    <2>5. Range(gate.units) \subseteq answered
      <3>1. gate.units \in Seq(Seq(Units))
        BY <2>1 DEF GateRec
      <3>2. DOMAIN gate.units = 1..Len(gate.units)
        BY <3>1, LenProperties
      <3> QED
        BY <2>1, <3>2, Zenon DEF Progress, Range
    <2> QED
      BY <2>4, <2>5, Zenon DEF SeenWhole
  <1> QED
    BY <1>1, Always, PTL
=============================================================================
