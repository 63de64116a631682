------------------------- MODULE ToolArgumentsProofs -------------------------
(***************************************************************************)
(* Proofs about ToolArguments, SchemaToZod and Redaction, for all schemas, *)
(* values and texts.                                                       *)
(***************************************************************************)
EXTENDS ToolArguments, SequenceTheorems, FiniteSetTheorems, WellFoundedInduction, TLAPS

-----------------------------------------------------------------------------
(* Recursive definitions *)

\* Every non-empty set of naturals has a least member.
LEMMA LeastNatural ==
  ASSUME NEW T, T \subseteq Nat, T # {}
  PROVE  \E n \in T : \A m \in T : n <= m
<1>1. \E n \in T : \A m \in T : ~ (<<m, n>> \in OpToRel(<, Nat))
  BY WFMin, NatLessThanWellFounded
<1>2. PICK n \in T : \A m \in T : ~ (<<m, n>> \in OpToRel(<, Nat))
  BY <1>1
<1>3. \A m \in T : ~ (m < n)
  BY <1>2 DEF OpToRel
<1> QED
  BY <1>3

\* If every bad member has a bad one below it, none is bad.
LEMMA NoneBad ==
  ASSUME NEW S, NEW depth, NEW Bad, Bad \subseteq S,
         \A s \in S : depth[s] \in Nat,
         \A s \in Bad : \E c \in Bad : depth[c] < depth[s]
  PROVE  Bad = {}
<1> SUFFICES ASSUME Bad # {} PROVE FALSE
  OBVIOUS
<1> DEFINE T == {depth[s] : s \in Bad}
<1>1. T \subseteq Nat /\ T # {}
  OBVIOUS
<1>2. PICK n \in T : \A m \in T : n <= m
  BY <1>1, LeastNatural
<1>3. PICK s \in Bad : depth[s] = n
  BY <1>2
<1>4. PICK c \in Bad : depth[c] < depth[s]
  BY <1>3
<1>5. depth[c] \in T /\ depth[c] \in Nat /\ depth[s] \in Nat
  OBVIOUS
<1>6. n <= depth[c]
  BY <1>2, <1>5
<1> QED
  BY <1>3, <1>4, <1>5, <1>6

\* f is what step makes of it wherever the depth is below n.
Solves(S, R, depth, step, f, n) ==
  f \in [S -> R] /\ \A s \in S : depth[s] < n => f[s] = step[<<s, f>>]

\* step makes a member of R of each s, and what it makes depends on what is below s only.
Descends(S, R, depth, step) ==
  /\ depth \in [S -> Nat] /\ step \in [S \X [S -> R] -> R]
  /\ \A s \in S, f, g \in [S -> R] :
       (\A c \in S : depth[c] < depth[s] => f[c] = g[c]) => step[<<s, f>>] = step[<<s, g>>]

LEMMA SolutionsAgree ==
  ASSUME NEW S, NEW R, NEW depth, NEW step, Descends(S, R, depth, step),
         NEW m \in Nat, NEW n \in Nat, NEW f, NEW g,
         Solves(S, R, depth, step, f, m), Solves(S, R, depth, step, g, n)
  PROVE  \A s \in S : depth[s] < m /\ depth[s] < n => f[s] = g[s]
<1> USE DEF Descends
<1> DEFINE Bad == {s \in S : depth[s] < m /\ depth[s] < n /\ f[s] # g[s]}
<1>1. ASSUME NEW s \in Bad PROVE \E c \in Bad : depth[c] < depth[s]
  <2> SUFFICES ASSUME \A c \in S : depth[c] < depth[s] => f[c] = g[c] PROVE FALSE
    <3>1. \A c \in S : depth[c] \in Nat
      OBVIOUS
    <3> QED
      BY <3>1
  <2>1. f \in [S -> R] /\ g \in [S -> R]
    BY DEF Solves
  <2>2. step[<<s, f>>] = step[<<s, g>>]
    BY <2>1 DEF Descends
  <2> QED
    BY <2>2 DEF Solves
<1>2. Bad \subseteq S /\ \A s \in S : depth[s] \in Nat
  OBVIOUS
<1>3. Bad = {}
  <2> HIDE DEF Bad
  <2> QED
    BY <1>1, <1>2, NoneBad
<1> QED
  BY <1>3

\* A recursion that descends has a solution.
LEMMA Recursion ==
  ASSUME NEW S, NEW R, NEW depth, NEW step, Descends(S, R, depth, step), R # {}
  PROVE  \E f \in [S -> R] : \A s \in S : f[s] = step[<<s, f>>]
<1> USE DEF Descends
<1> DEFINE OK(f, n) == Solves(S, R, depth, step, f, n)
           Bad == {n \in Nat : ~ \E f : OK(f, n)}
<1>1. \A n \in Nat : \E f : OK(f, n)
  <2>1. ASSUME NEW n \in Bad PROVE \E k \in Bad : k < n
    <3>1. n # 0
      <4> SUFFICES \E f : OK(f, 0)
        OBVIOUS
      <4>1. PICK r \in R : TRUE
        OBVIOUS
      <4>2. OK([s \in S |-> r], 0)
        BY <4>1 DEF Solves
      <4> QED
        BY <4>2
    <3> SUFFICES ASSUME n - 1 \notin Bad PROVE FALSE
      BY <3>1
    <3>2. PICK g : OK(g, n - 1)
      BY <3>1
    <3> DEFINE h == [s \in S |-> step[<<s, g>>]]
    <3>3. g \in [S -> R] /\ h \in [S -> R]
      BY <3>2 DEF Solves
    <3>4. ASSUME NEW s \in S, depth[s] < n PROVE h[s] = step[<<s, h>>]
      <4>1. \A c \in S : depth[c] < depth[s] => g[c] = h[c]
        <5> SUFFICES ASSUME NEW c \in S, depth[c] < depth[s] PROVE g[c] = h[c]
          OBVIOUS
        <5>1. depth[c] \in Nat /\ depth[s] \in Nat
          OBVIOUS
        <5>2. depth[c] < n - 1
          BY <3>4, <5>1
        <5> QED
          BY <3>2, <5>2 DEF Solves
      <4>2. step[<<s, g>>] = step[<<s, h>>]
        BY <3>3, <4>1 DEF Descends
      <4> QED
        BY <4>2
    <3>5. OK(h, n)
      BY <3>3, <3>4 DEF Solves
    <3> QED
      BY <3>5
  <2> DEFINE id == [n \in Nat |-> n]
  <2>2. Bad = {}
    <3>1. \A n \in Nat : id[n] \in Nat
      OBVIOUS
    <3>2. \A n \in Bad : \E k \in Bad : id[k] < id[n]
      <4> SUFFICES ASSUME NEW n \in Bad PROVE \E k \in Bad : id[k] < id[n]
        OBVIOUS
      <4>1. PICK k \in Bad : k < n
        BY <2>1
      <4>2. id[k] = k /\ id[n] = n
        OBVIOUS
      <4> QED
        BY <4>1, <4>2
    <3>3. Bad \subseteq Nat
      OBVIOUS
    <3> HIDE DEF Bad, id
    <3> QED
      BY <3>1, <3>2, <3>3, NoneBad
  <2> QED
    BY <2>2
<1> DEFINE At(n) == CHOOSE f : OK(f, n)
           F == [s \in S |-> At(depth[s] + 1)[s]]
<1>2. \A n \in Nat : OK(At(n), n)
  BY <1>1
<1> HIDE DEF At
<1>3. ASSUME NEW s \in S PROVE F[s] \in R
  <2>1. depth[s] + 1 \in Nat
    OBVIOUS
  <2>2. At(depth[s] + 1) \in [S -> R]
    BY <1>2, <2>1 DEF Solves
  <2> QED
    BY <2>2
<1>4. F \in [S -> R]
  BY <1>3
<1>5. ASSUME NEW s \in S PROVE F[s] = step[<<s, F>>]
  <2>1. PICK m \in Nat : m = depth[s] + 1
    OBVIOUS
  <2>2. PICK g : Solves(S, R, depth, step, g, m) /\ g = At(m)
    BY <1>2
  <2>3. g \in [S -> R] /\ g[s] = step[<<s, g>>]
    <3>1. depth[s] < m
      BY <2>1
    <3> HIDE DEF F
    <3> QED
      BY <2>2, <3>1 DEF Solves
  <2>4. ASSUME NEW c \in S, depth[c] < depth[s] PROVE g[c] = F[c]
    <3>1. PICK n \in Nat : n = depth[c] + 1
      OBVIOUS
    <3>2. PICK h : Solves(S, R, depth, step, h, n) /\ h = At(n)
      BY <1>2
    <3>3. depth[c] < n /\ depth[c] < m
      BY <2>1, <2>4, <3>1
    <3>4. g[c] = h[c]
      <4> HIDE DEF Descends
      <4> QED
        BY <2>2, <3>2, <3>3, SolutionsAgree
    <3> QED
      BY <3>1, <3>2, <3>4
  <2>5. step[<<s, g>>] = step[<<s, F>>]
    BY <1>4, <2>3, <2>4 DEF Descends
  <2> QED
    BY <2>1, <2>2, <2>3, <2>5
<1> QED
  BY <1>4, <1>5

-----------------------------------------------------------------------------
(* FlattenSeq *)

IsFlatten(f, s) == f = [i \in 1..Len(s) |-> IF i = 1 THEN s[i] ELSE f[i - 1] \o s[i]]

LEMMA FlattenExists ==
  ASSUME NEW T, NEW s \in Seq(Seq(T)), s # <<>>
  PROVE  \E f : IsFlatten(f, s)
<1> DEFINE S == 1..Len(s)
           R == Seq(T)
           depth == [i \in S |-> i]
           step == [p \in S \X [S -> R] |->
                      IF p[1] = 1 THEN s[p[1]] ELSE p[2][p[1] - 1] \o s[p[1]]]
<1>1. \A i \in S : i \in Nat /\ s[i] \in R
  OBVIOUS
<1>2. ASSUME NEW i \in S, NEW f \in [S -> R]
      PROVE  /\ <<i, f>> \in S \X [S -> R]
             /\ step[<<i, f>>] = IF i = 1 THEN s[i] ELSE f[i - 1] \o s[i]
             /\ step[<<i, f>>] \in R
  <2>1. i # 1 => i - 1 \in S
    BY <1>1
  <2>2. i # 1 => f[i - 1] \o s[i] \in R
    <3> SUFFICES ASSUME i # 1 PROVE f[i - 1] \o s[i] \in Seq(T)
      OBVIOUS
    <3>1. f[i - 1] \in Seq(T) /\ s[i] \in Seq(T)
      BY <1>1, <2>1
    <3> QED
      BY <3>1, ConcatProperties
  <2> QED
    BY <1>1, <2>2
<1>3. Descends(S, R, depth, step)
  <2>1. depth \in [S -> Nat]
    BY <1>1
  <2>2. ASSUME NEW p \in S \X [S -> R] PROVE step[p] \in R
    <3>1. PICK i \in S, f \in [S -> R] : p = <<i, f>>
      OBVIOUS
    <3> QED
      BY <1>2, <3>1
  <2>3. step \in [S \X [S -> R] -> R]
    BY <2>2
  <2>4. ASSUME NEW i \in S, NEW f \in [S -> R], NEW g \in [S -> R],
               \A c \in S : depth[c] < depth[i] => f[c] = g[c]
        PROVE  step[<<i, f>>] = step[<<i, g>>]
    <3>1. CASE i = 1
      BY <1>2, <3>1
    <3>2. CASE i # 1
      <4>1. i - 1 \in S /\ depth[i - 1] < depth[i]
        BY <3>2
      <4>2. f[i - 1] = g[i - 1]
        BY <2>4, <4>1
      <4>3. step[<<i, f>>] = f[i - 1] \o s[i] /\ step[<<i, g>>] = g[i - 1] \o s[i]
        <5> HIDE DEF step, R
        <5> QED
          BY <1>2, <3>2
      <4> HIDE DEF step
      <4> QED
        BY <4>2, <4>3
    <3> QED
      BY <3>1, <3>2
  <2> HIDE DEF S, R, depth, step
  <2> QED
    BY <2>1, <2>3, <2>4 DEF Descends
<1>4. R # {}
  <2>1. <<>> \in R
    OBVIOUS
  <2> QED
    BY <2>1
<1>5. PICK f \in [S -> R] : \A i \in S : f[i] = step[<<i, f>>]
  <2> HIDE DEF S, R, depth, step
  <2> QED
    BY <1>3, <1>4, Recursion
<1>6. IsFlatten(f, s)
  <2>1. \A i \in S : f[i] = IF i = 1 THEN s[i] ELSE f[i - 1] \o s[i]
    <3> HIDE DEF step
    <3> QED
      BY <1>2, <1>5
  <2> HIDE DEF step, R
  <2> QED
    BY <2>1, <1>5 DEF IsFlatten
<1> QED
  BY <1>6

LEMMA FlattenUnfolds ==
  ASSUME NEW T, NEW s \in Seq(Seq(T)), s # <<>>
  PROVE  \E f : /\ IsFlatten(f, s) /\ FlattenSeq(s) = f[Len(s)]
                /\ \A i \in 1..Len(s) : f[i] \in Seq(T)
<1> DEFINE f == CHOOSE g : IsFlatten(g, s)
<1>1. IsFlatten(f, s)
  BY FlattenExists
<1>2. FlattenSeq(s) = f[Len(s)]
  <2>1. Len(s) # 0
    OBVIOUS
  <2> QED
    BY <2>1 DEF FlattenSeq, IsFlatten
<1> HIDE DEF f
<1>3. \A i \in 1..Len(s) : f[i] \in Seq(T)
  <2> DEFINE Bad == {i \in 1..Len(s) : f[i] \notin Seq(T)}
             depth == [i \in 1..Len(s) |-> i]
  <2>1. ASSUME NEW i \in Bad PROVE \E c \in Bad : depth[c] < depth[i]
    <3>1. i \in 1..Len(s) /\ f[i] = IF i = 1 THEN s[i] ELSE f[i - 1] \o s[i]
      BY <1>1 DEF IsFlatten
    <3>2. s[i] \in Seq(T)
      BY <3>1
    <3>3. i # 1
      BY <3>1, <3>2
    <3>4. i - 1 \in 1..Len(s) /\ depth[i - 1] < depth[i]
      BY <3>1, <3>3
    <3>5. f[i - 1] \notin Seq(T)
      <4> SUFFICES ASSUME f[i - 1] \in Seq(T) PROVE f[i - 1] \o s[i] \in Seq(T)
        BY <3>1, <3>3
      <4> QED
        BY <3>2, ConcatProperties
    <3> QED
      BY <3>4, <3>5
  <2>2. Bad \subseteq 1..Len(s) /\ \A i \in 1..Len(s) : depth[i] \in Nat
    OBVIOUS
  <2>3. Bad = {}
    <3> HIDE DEF Bad, depth
    <3> QED
      BY <2>1, <2>2, NoneBad
  <2> QED
    BY <2>3
<1> QED
  BY <1>1, <1>2, <1>3

\* Flattening one more sequence appends it.
LEMMA FlattenAppend ==
  ASSUME NEW T, NEW s \in Seq(Seq(T)), NEW e \in Seq(T)
  PROVE  /\ FlattenSeq(<<>>) = <<>>
         /\ FlattenSeq(s) \in Seq(T)
         /\ FlattenSeq(Append(s, e)) = FlattenSeq(s) \o e
<1>1. FlattenSeq(<<>>) = <<>>
  BY DEF FlattenSeq
<1>2. FlattenSeq(s) \in Seq(T)
  <2>1. CASE s = <<>>
    <3>1. <<>> \in Seq(T)
      OBVIOUS
    <3> QED
      BY <1>1, <2>1, <3>1
  <2>2. CASE s # <<>>
    <3>1. Len(s) \in 1..Len(s)
      BY <2>2
    <3> QED
      BY <2>2, <3>1, FlattenUnfolds
  <2> QED
    BY <2>1, <2>2
<1> DEFINE u == Append(s, e)
           n == Len(s)
<1>3. /\ u \in Seq(Seq(T)) /\ u # <<>> /\ Len(u) = n + 1 /\ n \in Nat /\ u[n + 1] = e
      /\ \A i \in 1..n : u[i] = s[i]
  BY AppendProperties
<1> HIDE DEF u
<1>4. PICK g : /\ IsFlatten(g, u) /\ FlattenSeq(u) = g[n + 1]
               /\ \A i \in 1..n + 1 : g[i] \in Seq(T)
  BY <1>3, FlattenUnfolds
<1>5. \A i \in 1..n + 1 : g[i] = IF i = 1 THEN u[i] ELSE g[i - 1] \o u[i]
  BY <1>3, <1>4 DEF IsFlatten
<1>6. CASE s = <<>>
  <2>1. n = 0 /\ g[1] = e
    BY <1>3, <1>5, <1>6
  <2>2. FlattenSeq(s) = <<>>
    BY <1>1, <1>6
  <2> QED
    BY <1>4, <2>1, <2>2 DEF u
<1>7. CASE s # <<>>
  <2>1. PICK f : IsFlatten(f, s) /\ FlattenSeq(s) = f[n]
    BY <1>7, FlattenUnfolds
  <2>2. \A i \in 1..n : f[i] = IF i = 1 THEN s[i] ELSE f[i - 1] \o s[i]
    BY <2>1 DEF IsFlatten
  <2> DEFINE Bad == {i \in 1..n : f[i] # g[i]}
             depth == [i \in 1..n |-> i]
  <2>3. ASSUME NEW i \in Bad PROVE \E c \in Bad : depth[c] < depth[i]
    <3>1. i \in 1..n /\ i \in 1..n + 1
      BY <1>3
    <3>2. i # 1
      BY <1>3, <1>5, <2>2, <3>1
    <3>3. i - 1 \in 1..n /\ depth[i - 1] < depth[i]
      BY <3>1, <3>2
    <3>4. f[i - 1] # g[i - 1]
      BY <1>3, <1>5, <2>2, <3>1, <3>2
    <3> QED
      BY <3>3, <3>4
  <2>4. Bad \subseteq 1..n /\ \A i \in 1..n : depth[i] \in Nat
    OBVIOUS
  <2>5. Bad = {}
    <3> HIDE DEF Bad, depth, n
    <3> QED
      BY <2>3, <2>4, NoneBad
  <2>6. n \in 1..n /\ n + 1 \in 1..n + 1 /\ n + 1 # 1 /\ (n + 1) - 1 = n
    BY <1>3, <1>7
  <2>7. g[n + 1] = g[n] \o e
    BY <1>3, <1>5, <2>6
  <2>8. g[n] = f[n]
    BY <2>5, <2>6
  <2> QED
    <3>1. FlattenSeq(u) = FlattenSeq(s) \o e
      <4>1. FlattenSeq(u) = g[n + 1] /\ FlattenSeq(s) = f[n]
        BY <1>4, <2>1
      <4> QED
        BY <2>7, <2>8, <4>1
    <3> QED
      BY <1>1, <1>2, <3>1 DEF u
<1> QED
  BY <1>1, <1>2, <1>6, <1>7

\* Flattening distributes over concatenation.
LEMMA FlattenConcat ==
  ASSUME NEW T, NEW s \in Seq(Seq(T)), NEW t \in Seq(Seq(T))
  PROVE  FlattenSeq(s \o t) = FlattenSeq(s) \o FlattenSeq(t)
<1> DEFINE N == 0..Len(t)
           first(n) == SubSeq(t, 1, n)
           Bad == {n \in N : FlattenSeq(s \o first(n)) # FlattenSeq(s) \o FlattenSeq(first(n))}
           depth == [n \in N |-> n]
<1>1. ASSUME NEW n \in Bad PROVE \E c \in Bad : depth[c] < depth[n]
  <2>1. n \in N /\ n \in Nat
    OBVIOUS
  <2>2. n # 0
    <3>1. first(0) = <<>> /\ s \o <<>> = s
      OBVIOUS
    <3>2. FlattenSeq(s) \in Seq(T) /\ FlattenSeq(<<>>) = <<>>
      BY FlattenAppend, <<>> \in Seq(T)
    <3>3. FlattenSeq(s) \o <<>> = FlattenSeq(s)
      BY <3>2
    <3> QED
      BY <3>1, <3>2, <3>3
  <2>3. n - 1 \in N /\ depth[n - 1] < depth[n]
    BY <2>1, <2>2
  <2> SUFFICES ASSUME n - 1 \notin Bad PROVE FALSE
    BY <2>3
  <2> DEFINE p == first(n - 1)
  <2>4. p \in Seq(Seq(T)) /\ t[n] \in Seq(T)
    BY <2>1, <2>2, <2>3
  <2>5. first(n) = Append(p, t[n])
    BY <2>1, <2>2, <2>3
  <2>6. FlattenSeq(s \o p) = FlattenSeq(s) \o FlattenSeq(p)
    BY <2>3
  <2> HIDE DEF p, first
  <2>7. s \o p \in Seq(Seq(T)) /\ s \o Append(p, t[n]) = Append(s \o p, t[n])
    <3>1. s \o p \in Seq(Seq(T))
      <4>1. p \in Seq(Seq(T))
        BY <2>4
      <4> QED
        BY <4>1, ConcatProperties
    <3>2. Append(p, t[n]) = p \o <<t[n]>> /\ Append(s \o p, t[n]) = (s \o p) \o <<t[n]>>
      BY <2>4, <3>1, AppendIsConcat
    <3>3. <<t[n]>> \in Seq(Seq(T))
      BY <2>4
    <3>4. (s \o p) \o <<t[n]>> = s \o (p \o <<t[n]>>)
      <4>1. p \in Seq(Seq(T))
        BY <2>4
      <4> HIDE DEF Bad, N, depth
      <4> QED
        BY <3>3, <4>1
    <3> QED
      BY <3>1, <3>2, <3>4
  <2>8. /\ FlattenSeq(Append(p, t[n])) = FlattenSeq(p) \o t[n]
        /\ FlattenSeq(Append(s \o p, t[n])) = FlattenSeq(s \o p) \o t[n]
        /\ FlattenSeq(s) \in Seq(T) /\ FlattenSeq(p) \in Seq(T)
    BY <2>4, <2>7, FlattenAppend
  <2>9. (FlattenSeq(s) \o FlattenSeq(p)) \o t[n] = FlattenSeq(s) \o (FlattenSeq(p) \o t[n])
    <3> HIDE DEF Bad, N, depth
    <3>1. PICK a \in Seq(T), b \in Seq(T), c \in Seq(T) :
            a = FlattenSeq(s) /\ b = FlattenSeq(p) /\ c = t[n]
      BY <2>4, <2>8
    <3>2. (a \o b) \o c = a \o (b \o c)
      OBVIOUS
    <3> QED
      BY <3>1, <3>2, Zenon
  <2>10. FlattenSeq(s \o first(n)) = FlattenSeq(s) \o FlattenSeq(first(n))
    BY <2>5, <2>6, <2>7, <2>8, <2>9
  <2> QED
    BY <2>10
<1>2. Bad \subseteq N /\ \A n \in N : depth[n] \in Nat
  OBVIOUS
<1>3. Bad = {}
  <2> HIDE DEF Bad, depth, N
  <2> QED
    BY <1>1, <1>2, NoneBad
<1>4. Len(t) \in N /\ first(Len(t)) = t
  OBVIOUS
<1> QED
  BY <1>3, <1>4

-----------------------------------------------------------------------------
(* ReplaceText: rest[n] is what becomes of the last n symbols of s *)

IsRest(rest, s, text, symbol) ==
  rest = [n \in 0..Len(s) |-> ReplaceGiven(rest, s, text, symbol, n)]

\* A text in s, and a symbol to put in its place.
Replaceable(T, s, text, symbol) ==
  s \in Seq(T) /\ text \in Seq(T) /\ text # <<>> /\ symbol \in T

LEMMA RestExists ==
  ASSUME NEW T, NEW s, NEW text, NEW symbol, Replaceable(T, s, text, symbol)
  PROVE  \E rest : IsRest(rest, s, text, symbol)
<1> DEFINE S == 0..Len(s)
           R == Seq(T)
           depth == [n \in S |-> n]
           step == [p \in S \X [S -> R] |-> ReplaceGiven(p[2], s, text, symbol, p[1])]
<1>1. /\ s \in Seq(T) /\ text \in Seq(T) /\ Len(text) \in Nat \ {0} /\ symbol \in T
      /\ Len(s) \in Nat
  BY DEF Replaceable
<1>2. ASSUME NEW n \in S, n # 0, OccursAt(text, s, Len(s) - n)
      PROVE  n - Len(text) \in S /\ n - Len(text) < n
  BY <1>1, <1>2 DEF OccursAt
<1>3. ASSUME NEW n \in S, n # 0
      PROVE  n - 1 \in S /\ n - 1 < n /\ s[Len(s) - n + 1] \in T
  BY <1>1, <1>3
<1>4. ASSUME NEW n \in S, NEW f \in [S -> R]
      PROVE  ReplaceGiven(f, s, text, symbol, n) \in R
  <2>1. \A x \in T, r \in Seq(T) : <<x>> \o r \in Seq(T)
    OBVIOUS
  <2>2. CASE n = 0
    <3>1. <<>> \in Seq(T)
      OBVIOUS
    <3> QED
      BY <2>2, <3>1 DEF ReplaceGiven
  <2>3. CASE n # 0 /\ OccursAt(text, s, Len(s) - n)
    <3>1. f[n - Len(text)] \in Seq(T)
      BY <1>2, <2>3
    <3>2. <<symbol>> \o f[n - Len(text)] \in Seq(T)
      BY <1>1, <2>1, <3>1
    <3> QED
      BY <2>3, <3>2 DEF ReplaceGiven
  <2>4. CASE n # 0 /\ ~OccursAt(text, s, Len(s) - n)
    <3>1. f[n - 1] \in Seq(T) /\ s[Len(s) - n + 1] \in T
      BY <1>3, <2>4
    <3>2. <<s[Len(s) - n + 1]>> \o f[n - 1] \in Seq(T)
      BY <2>1, <3>1
    <3> QED
      BY <2>4, <3>2 DEF ReplaceGiven
  <2> QED
    BY <2>2, <2>3, <2>4
<1>5. ASSUME NEW n \in S, NEW f \in [S -> R], NEW g \in [S -> R],
             \A c \in S : c < n => f[c] = g[c]
      PROVE  ReplaceGiven(f, s, text, symbol, n) = ReplaceGiven(g, s, text, symbol, n)
  <2>1. CASE n = 0
    BY <2>1 DEF ReplaceGiven
  <2>2. CASE n # 0 /\ OccursAt(text, s, Len(s) - n)
    <3>1. f[n - Len(text)] = g[n - Len(text)]
      BY <1>2, <1>5, <2>2
    <3> QED
      BY <2>2, <3>1 DEF ReplaceGiven
  <2>3. CASE n # 0 /\ ~OccursAt(text, s, Len(s) - n)
    <3>1. f[n - 1] = g[n - 1]
      BY <1>3, <1>5, <2>3
    <3> QED
      BY <2>3, <3>1 DEF ReplaceGiven
  <2> QED
    BY <2>1, <2>2, <2>3
<1>6. Descends(S, R, depth, step)
  <2>1. depth \in [S -> Nat] /\ \A n \in S : depth[n] = n
    BY <1>1
  <2>2. \A n \in S, f \in [S -> R] : step[<<n, f>>] = ReplaceGiven(f, s, text, symbol, n)
    OBVIOUS
  <2>3. step \in [S \X [S -> R] -> R]
    <3>1. ASSUME NEW p \in S \X [S -> R]
          PROVE  ReplaceGiven(p[2], s, text, symbol, p[1]) \in R
      BY <1>4
    <3> HIDE DEF S, R
    <3> QED
      BY <3>1
  <2> HIDE DEF S, R, depth, step
  <2> QED
    BY <1>5, <2>1, <2>2, <2>3 DEF Descends
<1>7. R # {}
  <2>1. <<>> \in R
    OBVIOUS
  <2> QED
    BY <2>1
<1>8. PICK f \in [S -> R] : \A n \in S : f[n] = step[<<n, f>>]
  <2> HIDE DEF S, R, depth, step
  <2> QED
    BY <1>6, <1>7, Recursion
<1>9. \A n \in S : f[n] = ReplaceGiven(f, s, text, symbol, n)
  BY <1>8
<1>10. IsRest(f, s, text, symbol)
  <2> HIDE DEF R, step
  <2> QED
    BY <1>8, <1>9 DEF IsRest
<1> QED
  BY <1>10

\* What rest is: nothing, the symbol and what follows the text, or one symbol and what
\* follows it.
RestCase(T, rest, s, text, symbol, n) ==
  /\ rest[n] \in Seq(T)
  /\ n = 0 => rest[n] = <<>>
  /\ n # 0 /\ OccursAt(text, s, Len(s) - n) =>
       /\ n - Len(text) \in 0..Len(s) /\ n - Len(text) < n
       /\ rest[n - Len(text)] \in Seq(T)
       /\ rest[n] = <<symbol>> \o rest[n - Len(text)]
  /\ n # 0 /\ ~OccursAt(text, s, Len(s) - n) =>
       /\ n - 1 \in 0..Len(s)
       /\ rest[n - 1] \in Seq(T)
       /\ s[Len(s) - n + 1] \in T
       /\ rest[n] = <<s[Len(s) - n + 1]>> \o rest[n - 1]

LEMMA RestUnfolds ==
  ASSUME NEW T, NEW s, NEW text, NEW symbol, Replaceable(T, s, text, symbol)
  PROVE  \E rest : /\ ReplaceText(s, text, symbol) = rest[Len(s)]
                   /\ \A n \in 0..Len(s) : RestCase(T, rest, s, text, symbol, n)
<1> DEFINE rest == CHOOSE f : IsRest(f, s, text, symbol)
           N == 0..Len(s)
<1>1. IsRest(rest, s, text, symbol)
  BY RestExists
<1>2. ReplaceText(s, text, symbol) = rest[Len(s)]
  BY DEF ReplaceText, IsRest
<1> HIDE DEF rest
<1>3. \A n \in N : rest[n] = ReplaceGiven(rest, s, text, symbol, n)
  BY <1>1 DEF IsRest
<1>4. /\ s \in Seq(T) /\ text \in Seq(T) /\ Len(text) \in Nat \ {0} /\ symbol \in T
      /\ Len(s) \in Nat
  BY DEF Replaceable
<1>5. ASSUME NEW n \in N, n # 0, OccursAt(text, s, Len(s) - n)
      PROVE  /\ n - Len(text) \in N /\ n - Len(text) < n
             /\ rest[n] = <<symbol>> \o rest[n - Len(text)]
  <2>1. rest[n] = <<symbol>> \o rest[n - Len(text)]
    BY <1>3, <1>5 DEF ReplaceGiven
  <2> QED
    BY <1>4, <1>5, <2>1 DEF OccursAt
<1>6. ASSUME NEW n \in N, n # 0, ~OccursAt(text, s, Len(s) - n)
      PROVE  /\ n - 1 \in N /\ s[Len(s) - n + 1] \in T
             /\ rest[n] = <<s[Len(s) - n + 1]>> \o rest[n - 1]
  <2>1. rest[n] = <<s[Len(s) - n + 1]>> \o rest[n - 1]
    BY <1>3, <1>6 DEF ReplaceGiven
  <2> QED
    BY <1>4, <1>6, <2>1
<1>7. \A n \in N : n = 0 => rest[n] = <<>>
  BY <1>3 DEF ReplaceGiven
<1>8. \A n \in N : rest[n] \in Seq(T)
  <2> DEFINE Bad == {n \in N : rest[n] \notin Seq(T)}
             depth == [n \in N |-> n]
  <2>1. \A x \in T, r \in Seq(T) : <<x>> \o r \in Seq(T)
    OBVIOUS
  <2>2. ASSUME NEW n \in Bad PROVE \E c \in Bad : depth[c] < depth[n]
    <3>1. n \in N /\ rest[n] \notin Seq(T)
      OBVIOUS
    <3>2. n # 0
      <4>1. <<>> \in Seq(T)
        OBVIOUS
      <4> QED
        BY <1>7, <3>1, <4>1
    <3>3. CASE OccursAt(text, s, Len(s) - n)
      <4>1. rest[n - Len(text)] \notin Seq(T)
        BY <1>4, <1>5, <2>1, <3>1, <3>2, <3>3
      <4>2. n - Len(text) \in N /\ n - Len(text) < n
        BY <1>5, <3>2, <3>3
      <4> QED
        BY <4>1, <4>2
    <3>4. CASE ~OccursAt(text, s, Len(s) - n)
      <4>1. rest[n - 1] \notin Seq(T)
        BY <1>6, <2>1, <3>1, <3>2, <3>4
      <4>2. n - 1 \in N /\ n - 1 < n
        BY <1>6, <3>2, <3>4
      <4> QED
        BY <4>1, <4>2
    <3> QED
      BY <3>3, <3>4
  <2>3. Bad \subseteq N /\ \A n \in N : depth[n] \in Nat
    BY <1>4
  <2>4. Bad = {}
    <3> HIDE DEF Bad, depth, N
    <3> QED
      BY <2>2, <2>3, NoneBad
  <2> QED
    BY <2>4
<1>9. \A n \in N : RestCase(T, rest, s, text, symbol, n)
  <2> HIDE DEF N
  <2>1. ASSUME NEW n \in N PROVE RestCase(T, rest, s, text, symbol, n)
    BY <1>5, <1>6, <1>7, <1>8 DEF RestCase, N
  <2> QED
    BY <2>1
<1> QED
  BY <1>2, <1>9

LEMMA FirstAndRest ==
  ASSUME NEW T, NEW x \in T, NEW r \in Seq(T)
  PROVE  /\ Len(<<x>> \o r) = Len(r) + 1 /\ Len(r) \in Nat
         /\ (<<x>> \o r)[1] = x
         /\ \A i \in Nat : i \in 1..Len(r) => (<<x>> \o r)[i + 1] = r[i]
         /\ \A i \in Nat : i \in 2..Len(r) + 1 => (<<x>> \o r)[i] = r[i - 1]
OBVIOUS

\* m symbols of the rest after the first k, none of them the symbol, are symbols of s: the
\* first ones if they are the first ones there.
WindowOf(rest, s, n, k, m) ==
  \E j \in Nat : /\ j + m <= n
                 /\ k = 0 => j = 0
                 /\ \A i \in 1..m : rest[n][k + i] = s[Len(s) - n + j + i]

LEMMA Windows ==
  ASSUME NEW T, NEW s, NEW text, NEW symbol, Replaceable(T, s, text, symbol), NEW rest,
         \A n \in 0..Len(s) : RestCase(T, rest, s, text, symbol, n)
  PROVE  \A n \in 0..Len(s), k \in Nat, m \in Nat :
           k + m <= Len(rest[n]) /\ (\A i \in 1..m : rest[n][k + i] # symbol)
             => WindowOf(rest, s, n, k, m)
<1> DEFINE N == 0..Len(s)
           Ok(n, k, m) ==
             k + m <= Len(rest[n]) /\ (\A i \in 1..m : rest[n][k + i] # symbol)
               => WindowOf(rest, s, n, k, m)
           Bad == {n \in N : ~ \A k \in Nat, m \in Nat : Ok(n, k, m)}
           depth == [n \in N |-> n]
<1>1. /\ s \in Seq(T) /\ text \in Seq(T) /\ Len(text) \in Nat \ {0} /\ symbol \in T
      /\ Len(s) \in Nat
  BY DEF Replaceable
<1>2. ASSUME NEW n \in N, n \in Bad PROVE \E c \in Bad : depth[c] < depth[n]
  <2> SUFFICES ASSUME \A c \in N : c < n => c \notin Bad PROVE FALSE
    OBVIOUS
  <2>1. \A c \in N, k \in Nat, m \in Nat : c < n => Ok(c, k, m)
    OBVIOUS
  <2>2. PICK k \in Nat, m \in Nat : ~Ok(n, k, m)
    BY <1>2
  <2> HIDE DEF Bad, depth
  <2>3. k + m <= Len(rest[n]) /\ (\A i \in 1..m : rest[n][k + i] # symbol)
    BY <2>2
  <2> SUFFICES WindowOf(rest, s, n, k, m)
    BY <2>2
  <2>4. CASE n = 0
    <3>1. rest[n] = <<>> /\ n = 0
      BY <2>4 DEF RestCase
    <3>2. k = 0 /\ m = 0
      BY <2>3, <3>1
    <3> QED
      BY <3>1, <3>2 DEF WindowOf
  <2>5. CASE m = 0
    <3>1. 0 + m <= n
      BY <1>1, <2>5
    <3> QED
      BY <2>5, <3>1 DEF WindowOf
  <2>6. CASE n # 0 /\ m # 0 /\ OccursAt(text, s, Len(s) - n)
    <3> DEFINE c == n - Len(text)
    <3>1. c \in N /\ c < n /\ rest[c] \in Seq(T) /\ rest[n] = <<symbol>> \o rest[c]
      BY <2>6 DEF RestCase
    <3>2. /\ Len(rest[n]) = Len(rest[c]) + 1 /\ rest[n][1] = symbol /\ Len(rest[c]) \in Nat
          /\ \A i \in Nat : i \in 2..Len(rest[c]) + 1 => rest[n][i] = rest[c][i - 1]
      BY <1>1, <3>1, FirstAndRest
    <3>3. k # 0
      BY <2>3, <2>6, <3>2
    <3>4. \A i \in 1..m : rest[n][k + i] = rest[c][(k - 1) + i]
      <4> HIDE DEF c
      <4>1. \A i \in 1..m : /\ k + i \in Nat /\ k + i \in 2..Len(rest[c]) + 1
                            /\ (k + i) - 1 = (k - 1) + i
        <5>1. k \in Nat /\ m \in Nat /\ k + m <= Len(rest[n])
          BY <2>3
        <5>2. Len(rest[n]) = Len(rest[c]) + 1 /\ Len(rest[c]) \in Nat
          BY <3>2
        <5> PICK l \in Nat : l = Len(rest[c])
          BY <5>2
        <5>3. k + m <= l + 1
          BY <5>1, <5>2
        <5> HIDE DEF N
        <5> QED
          BY <3>3, <5>1, <5>3
      <4> SUFFICES ASSUME NEW i \in 1..m PROVE rest[n][k + i] = rest[c][(k - 1) + i]
        OBVIOUS
      <4>2. PICK h \in Nat : h = k + i /\ h \in 2..Len(rest[c]) + 1 /\ h - 1 = (k - 1) + i
        BY <4>1
      <4>3. rest[n][h] = rest[c][h - 1]
        BY <3>2, <4>2
      <4> QED
        BY <4>2, <4>3
    <3>5. /\ k - 1 \in Nat /\ (k - 1) + m <= Len(rest[c])
          /\ \A i \in 1..m : rest[c][(k - 1) + i] # symbol
      <4> HIDE DEF c
      <4>1. k - 1 \in Nat /\ (k - 1) + m <= Len(rest[c])
        BY <2>3, <3>2, <3>3
      <4> QED
        BY <2>3, <3>4, <4>1
    <3>6. WindowOf(rest, s, c, k - 1, m)
      BY <2>1, <3>1, <3>5
    <3>7. PICK j \in Nat : /\ j + m <= c
                           /\ \A i \in 1..m : rest[c][(k - 1) + i] = s[Len(s) - c + j + i]
      BY <3>6 DEF WindowOf
    <3>8. /\ j + Len(text) \in Nat /\ (j + Len(text)) + m <= n
          /\ \A i \in 1..m : Len(s) - c + j + i = Len(s) - n + (j + Len(text)) + i
      BY <1>1, <3>1, <3>7
    <3>9. \A i \in 1..m : rest[n][k + i] = s[Len(s) - n + (j + Len(text)) + i]
      BY <3>4, <3>7, <3>8
    <3> QED
      BY <3>3, <3>8, <3>9 DEF WindowOf
  <2>7. CASE n # 0 /\ m # 0 /\ ~OccursAt(text, s, Len(s) - n)
    <3> DEFINE c == n - 1
               x == s[Len(s) - n + 1]
    <3>1. c \in N /\ c < n /\ rest[c] \in Seq(T) /\ x \in T /\ rest[n] = <<x>> \o rest[c]
      BY <1>1, <2>7 DEF RestCase
    <3>2. /\ Len(rest[n]) = Len(rest[c]) + 1 /\ rest[n][1] = x /\ Len(rest[c]) \in Nat
          /\ \A i \in Nat : i \in 2..Len(rest[c]) + 1 => rest[n][i] = rest[c][i - 1]
      BY <3>1, FirstAndRest
    <3>3. CASE k = 0
      <4>1. m - 1 \in Nat /\ 0 + (m - 1) <= Len(rest[c])
        BY <2>3, <2>7, <3>2, <3>3
      <4>2. \A i \in 1..m - 1 : i + 1 \in 1..m /\ rest[n][k + (i + 1)] = rest[c][0 + i]
        BY <2>3, <3>2, <3>3
      <4>3. \A i \in 1..m - 1 : rest[c][0 + i] # symbol
        BY <2>3, <4>2
      <4>4. WindowOf(rest, s, c, 0, m - 1)
        BY <2>1, <3>1, <4>1, <4>3
      <4>5. /\ m - 1 <= c
            /\ \A i \in 1..m - 1 : rest[c][0 + i] = s[Len(s) - c + 0 + i]
        BY <4>4 DEF WindowOf
      <4>6. ASSUME NEW i \in 1..m PROVE rest[n][k + i] = s[Len(s) - n + 0 + i]
        <5>1. CASE i = 1
          BY <1>1, <3>2, <3>3, <5>1
        <5>2. CASE i # 1
          <6>1. i - 1 \in 1..m - 1 /\ (i - 1) + 1 = i
            BY <5>2
          <6>2. rest[n][k + i] = rest[c][0 + (i - 1)]
            BY <4>2, <6>1
          <6>3. Len(s) - c + 0 + (i - 1) = Len(s) - n + 0 + i
            BY <1>1
          <6> QED
            BY <4>5, <6>1, <6>2, <6>3
        <5> QED
          BY <5>1, <5>2
      <4>7. 0 + m <= n
        BY <3>1, <4>1, <4>5
      <4> QED
        BY <4>6, <4>7 DEF WindowOf
    <3>4. CASE k # 0
      <4>1. \A i \in 1..m : rest[n][k + i] = rest[c][(k - 1) + i]
        <5> HIDE DEF c
        <5>1. \A i \in 1..m : /\ k + i \in Nat /\ k + i \in 2..Len(rest[c]) + 1
                              /\ (k + i) - 1 = (k - 1) + i
          BY <2>3, <3>2, <3>4
        <5> QED
          BY <3>2, <5>1
      <4>2. /\ k - 1 \in Nat /\ (k - 1) + m <= Len(rest[c])
            /\ \A i \in 1..m : rest[c][(k - 1) + i] # symbol
        <5> HIDE DEF c
        <5>1. k - 1 \in Nat /\ (k - 1) + m <= Len(rest[c])
          BY <2>3, <3>2, <3>4
        <5> QED
          BY <2>3, <4>1, <5>1
      <4>3. WindowOf(rest, s, c, k - 1, m)
        BY <2>1, <3>1, <4>2
      <4>4. PICK j \in Nat : /\ j + m <= c
                             /\ \A i \in 1..m : rest[c][(k - 1) + i] = s[Len(s) - c + j + i]
        BY <4>3 DEF WindowOf
      <4>5. /\ j + 1 \in Nat /\ (j + 1) + m <= n
            /\ \A i \in 1..m : Len(s) - c + j + i = Len(s) - n + (j + 1) + i
        BY <1>1, <3>1, <4>4
      <4>6. \A i \in 1..m : rest[n][k + i] = s[Len(s) - n + (j + 1) + i]
        BY <4>1, <4>4, <4>5
      <4> QED
        BY <3>4, <4>5, <4>6 DEF WindowOf
    <3> QED
      BY <3>3, <3>4
  <2> QED
    BY <2>4, <2>5, <2>6, <2>7
<1>3. Bad \subseteq N /\ \A n \in N : depth[n] \in Nat
  BY <1>1
<1>4. Bad = {}
  <2> HIDE DEF Bad, depth, N
  <2> QED
    BY <1>2, <1>3, NoneBad
<1> QED
  BY <1>4

\* Nowhere in the rest is the text.
LEMMA NoTextInRest ==
  ASSUME NEW T, NEW s, NEW text, NEW symbol, Replaceable(T, s, text, symbol), NEW rest,
         \A n \in 0..Len(s) : RestCase(T, rest, s, text, symbol, n),
         symbol \notin ToSet(text)
  PROVE  \A n \in 0..Len(s), k \in Nat : ~OccursAt(text, rest[n], k)
<1> DEFINE N == 0..Len(s)
           Bad == {n \in N : \E k \in Nat : OccursAt(text, rest[n], k)}
           depth == [n \in N |-> n]
           m == Len(text)
<1>1. /\ s \in Seq(T) /\ text \in Seq(T) /\ m \in Nat \ {0} /\ symbol \in T
      /\ Len(s) \in Nat
  BY DEF Replaceable
<1>2. \A i \in 1..m : text[i] # symbol
  BY <1>1 DEF ToSet
<1> HIDE DEF m
<1>3. ASSUME NEW n \in N, n \in Bad PROVE \E c \in Bad : depth[c] < depth[n]
  <2>1. PICK k \in Nat : OccursAt(text, rest[n], k)
    BY <1>3
  <2>2. k + m <= Len(rest[n]) /\ \A i \in 1..m : rest[n][k + i] = text[i]
    BY <2>1 DEF OccursAt, m
  <2>3. n # 0
    <3> SUFFICES ASSUME n = 0 PROVE FALSE
      OBVIOUS
    <3>1. rest[n] = <<>>
      BY DEF RestCase
    <3> QED
      BY <1>1, <2>2, <3>1
  <2>4. CASE OccursAt(text, s, Len(s) - n)
    <3> DEFINE c == n - Len(text)
    <3>1. c \in N /\ c < n /\ rest[c] \in Seq(T) /\ rest[n] = <<symbol>> \o rest[c]
      BY <2>3, <2>4 DEF RestCase
    <3>2. /\ Len(rest[n]) = Len(rest[c]) + 1 /\ rest[n][1] = symbol /\ Len(rest[c]) \in Nat
          /\ \A i \in Nat : i \in 2..Len(rest[c]) + 1 => rest[n][i] = rest[c][i - 1]
      BY <1>1, <3>1, FirstAndRest
    <3> HIDE DEF c
    <3>3. k # 0
      BY <1>1, <1>2, <2>2, <3>2
    <3>4. \A i \in 1..m : /\ k + i \in Nat /\ k + i \in 2..Len(rest[c]) + 1
                          /\ (k + i) - 1 = (k - 1) + i
      BY <1>1, <2>2, <3>2, <3>3
    <3>5. \A i \in 1..m : rest[c][(k - 1) + i] = text[i]
      BY <2>2, <3>2, <3>4
    <3>6. k - 1 \in Nat /\ (k - 1) + m <= Len(rest[c])
      BY <1>1, <2>2, <3>2, <3>3
    <3>7. OccursAt(text, rest[c], k - 1)
      BY <3>5, <3>6 DEF OccursAt, m
    <3> QED
      BY <3>1, <3>6, <3>7
  <2>5. CASE ~OccursAt(text, s, Len(s) - n)
    <3> DEFINE c == n - 1
               x == s[Len(s) - n + 1]
    <3>1. c \in N /\ c < n /\ rest[c] \in Seq(T) /\ x \in T /\ rest[n] = <<x>> \o rest[c]
      BY <1>1, <2>3, <2>5 DEF RestCase
    <3>2. /\ Len(rest[n]) = Len(rest[c]) + 1 /\ Len(rest[c]) \in Nat
          /\ \A i \in Nat : i \in 2..Len(rest[c]) + 1 => rest[n][i] = rest[c][i - 1]
      BY <3>1, FirstAndRest
    <3>3. k # 0
      <4> SUFFICES ASSUME k = 0 PROVE FALSE
        OBVIOUS
      <4>1. 0 + m <= Len(rest[n]) /\ \A i \in 1..m : rest[n][0 + i] # symbol
        BY <1>2, <2>2
      <4>2. WindowOf(rest, s, n, 0, m)
        BY <1>1, <4>1, Windows
      <4>3. m <= n /\ \A i \in 1..m : rest[n][0 + i] = s[Len(s) - n + 0 + i]
        BY <1>1, <4>2 DEF WindowOf
      <4>4. \A i \in 1..m : Len(s) - n + 0 + i = (Len(s) - n) + i /\ 0 + i = i
        BY <1>1
      <4>5. \A i \in 1..m : s[(Len(s) - n) + i] = text[i]
        BY <2>2, <4>3, <4>4
      <4>6. (Len(s) - n) + m <= Len(s)
        BY <1>1, <4>3
      <4> QED
        BY <2>5, <4>5, <4>6 DEF OccursAt, m
    <3> HIDE DEF c
    <3>4. \A i \in 1..m : /\ k + i \in Nat /\ k + i \in 2..Len(rest[c]) + 1
                          /\ (k + i) - 1 = (k - 1) + i
      BY <1>1, <2>2, <3>2, <3>3
    <3>5. \A i \in 1..m : rest[c][(k - 1) + i] = text[i]
      BY <2>2, <3>2, <3>4
    <3>6. k - 1 \in Nat /\ (k - 1) + m <= Len(rest[c])
      BY <1>1, <2>2, <3>2, <3>3
    <3>7. OccursAt(text, rest[c], k - 1)
      BY <3>5, <3>6 DEF OccursAt, m
    <3> QED
      BY <3>1, <3>6, <3>7
  <2> QED
    BY <2>4, <2>5
<1>4. Bad \subseteq N /\ \A n \in N : depth[n] \in Nat
  BY <1>1
<1>5. Bad = {}
  <2> HIDE DEF Bad, depth, N
  <2> QED
    BY <1>3, <1>4, NoneBad
<1> QED
  BY <1>5

LEMMA FirstInSet ==
  ASSUME NEW T, NEW x \in T, NEW r \in Seq(T)
  PROVE  ToSet(<<x>> \o r) = {x} \cup ToSet(r)
<1> DEFINE u == <<x>> \o r
<1>1. /\ Len(u) = Len(r) + 1 /\ u[1] = x /\ Len(r) \in Nat
      /\ \A i \in Nat : i \in 1..Len(r) => u[i + 1] = r[i]
      /\ \A i \in Nat : i \in 2..Len(r) + 1 => u[i] = r[i - 1]
  BY FirstAndRest
<1>2. DOMAIN u = 1..Len(r) + 1 /\ DOMAIN r = 1..Len(r)
  BY <1>1
<1> HIDE DEF u
<1>3. ASSUME NEW y \in ToSet(u) PROVE y \in {x} \cup ToSet(r)
  <2>1. PICK i \in 1..Len(r) + 1 : y = u[i]
    BY <1>2 DEF ToSet
  <2>2. i # 1 => i - 1 \in DOMAIN r /\ y = r[i - 1]
    BY <1>1, <1>2, <2>1
  <2> QED
    BY <1>1, <2>1, <2>2 DEF ToSet
<1>4. ASSUME NEW y \in {x} \cup ToSet(r) PROVE y \in ToSet(u)
  <2>1. CASE y = x
    <3>1. 1 \in DOMAIN u
      BY <1>1, <1>2
    <3> QED
      BY <1>1, <2>1, <3>1 DEF ToSet
  <2>2. CASE y # x
    <3>1. PICK i \in DOMAIN r : y = r[i]
      BY <2>2 DEF ToSet
    <3>2. i + 1 \in DOMAIN u /\ u[i + 1] = y
      BY <1>1, <1>2, <3>1
    <3> QED
      BY <3>2 DEF ToSet
  <2> QED
    BY <2>1, <2>2
<1> QED
  BY <1>3, <1>4 DEF u

\* The rest holds the symbols of s outside the text, and no others but the symbol.
LEMMA SymbolsOfRest ==
  ASSUME NEW T, NEW s, NEW text, NEW symbol, Replaceable(T, s, text, symbol), NEW rest,
         \A n \in 0..Len(s) : RestCase(T, rest, s, text, symbol, n)
  PROVE  \A n \in 0..Len(s) :
           /\ ToSet(rest[n]) \subseteq ToSet(s) \cup {symbol}
           /\ \A j \in Len(s) - n + 1 .. Len(s) : s[j] \in ToSet(text) \cup ToSet(rest[n])
<1> DEFINE N == 0..Len(s)
           Ok(n) == /\ ToSet(rest[n]) \subseteq ToSet(s) \cup {symbol}
                    /\ \A j \in Len(s) - n + 1 .. Len(s) :
                         s[j] \in ToSet(text) \cup ToSet(rest[n])
           Bad == {n \in N : ~Ok(n)}
           depth == [n \in N |-> n]
<1>1. /\ s \in Seq(T) /\ text \in Seq(T) /\ Len(text) \in Nat \ {0} /\ symbol \in T
      /\ Len(s) \in Nat
  BY DEF Replaceable
<1>2. \A x \in T, r \in Seq(T) : ToSet(<<x>> \o r) = {x} \cup ToSet(r)
  BY FirstInSet
<1>3. ASSUME NEW n \in N, \A c \in N : c < n => Ok(c) PROVE Ok(n)
  <2>1. CASE n = 0
    <3>1. rest[n] = <<>>
      BY <2>1 DEF RestCase
    <3> QED
      BY <1>1, <2>1, <3>1 DEF ToSet
  <2>2. CASE n # 0 /\ OccursAt(text, s, Len(s) - n)
    <3> DEFINE c == n - Len(text)
    <3>1. c \in N /\ c < n /\ rest[c] \in Seq(T) /\ rest[n] = <<symbol>> \o rest[c]
      BY <2>2 DEF RestCase
    <3>2. ToSet(rest[n]) = {symbol} \cup ToSet(rest[c])
      BY <1>1, <1>2, <3>1
    <3>3. Ok(c)
      BY <1>3, <3>1
    <3>4. ASSUME NEW j \in Len(s) - n + 1 .. Len(s)
          PROVE  s[j] \in ToSet(text) \cup ToSet(rest[n])
      <4>1. CASE j <= Len(s) - c
        <5> DEFINE i == j - (Len(s) - n)
        <5>1. i \in 1..Len(text) /\ j = (Len(s) - n) + i
          BY <1>1, <4>1
        <5>2. s[j] = text[i]
          BY <2>2, <5>1 DEF OccursAt
        <5> QED
          BY <1>1, <5>1, <5>2 DEF ToSet
      <4>2. CASE ~(j <= Len(s) - c)
        <5>1. j \in Len(s) - c + 1 .. Len(s)
          BY <1>1, <3>1, <4>2
        <5> QED
          BY <3>2, <3>3, <5>1
      <4> QED
        BY <4>1, <4>2
    <3> QED
      BY <3>2, <3>3, <3>4
  <2>3. CASE n # 0 /\ ~OccursAt(text, s, Len(s) - n)
    <3> DEFINE c == n - 1
               x == s[Len(s) - n + 1]
    <3>0. n \in Nat /\ c < n
      BY <1>1
    <3>1. c \in N /\ c < n /\ rest[c] \in Seq(T) /\ x \in T /\ rest[n] = <<x>> \o rest[c]
      BY <2>3, <3>0 DEF RestCase
    <3>2. ToSet(rest[n]) = {x} \cup ToSet(rest[c])
      BY <1>2, <3>1
    <3>3. Ok(c)
      BY <1>3, <3>1
    <3>4. x \in ToSet(s)
      BY <1>1, <2>3 DEF ToSet
    <3>5. ASSUME NEW j \in Len(s) - n + 1 .. Len(s)
          PROVE  s[j] \in ToSet(text) \cup ToSet(rest[n])
      <4>1. CASE j = Len(s) - n + 1
        BY <3>2, <4>1
      <4>2. CASE j # Len(s) - n + 1
        <5>1. j \in Len(s) - c + 1 .. Len(s)
          BY <1>1, <3>0, <4>2
        <5> QED
          BY <3>2, <3>3, <5>1
      <4> QED
        BY <4>1, <4>2
    <3> QED
      BY <3>2, <3>3, <3>4, <3>5
  <2> QED
    BY <2>1, <2>2, <2>3
<1>4. \A n \in Bad : \E c \in Bad : depth[c] < depth[n]
  <2> SUFFICES ASSUME NEW n \in N, ~Ok(n) PROVE \E c \in N : c < n /\ ~Ok(c)
    OBVIOUS
  <2> QED
    BY <1>3
<1>5. Bad \subseteq N /\ \A n \in N : depth[n] \in Nat
  BY <1>1
<1>6. Bad = {}
  <2> HIDE DEF Bad, depth, N
  <2> QED
    BY <1>4, <1>5, NoneBad
<1> QED
  BY <1>6

\* Where the symbol is not in the rest, nothing was replaced: the text was not there.
LEMMA RestUnchanged ==
  ASSUME NEW T, NEW s, NEW text, NEW symbol, Replaceable(T, s, text, symbol), NEW rest,
         \A n \in 0..Len(s) : RestCase(T, rest, s, text, symbol, n)
  PROVE  \A n \in 0..Len(s) : symbol \notin ToSet(rest[n]) =>
           /\ rest[n] = SubSeq(s, Len(s) - n + 1, Len(s))
           /\ \A k \in Len(s) - n .. Len(s) : ~OccursAt(text, s, k)
<1> DEFINE N == 0..Len(s)
           Ok(n) == symbol \notin ToSet(rest[n]) =>
                      /\ rest[n] = SubSeq(s, Len(s) - n + 1, Len(s))
                      /\ \A k \in Len(s) - n .. Len(s) : ~OccursAt(text, s, k)
           Bad == {n \in N : ~Ok(n)}
           depth == [n \in N |-> n]
<1>1. /\ s \in Seq(T) /\ text \in Seq(T) /\ Len(text) \in Nat \ {0} /\ symbol \in T
      /\ Len(s) \in Nat
  BY DEF Replaceable
<1>2. \A x \in T, r \in Seq(T) : ToSet(<<x>> \o r) = {x} \cup ToSet(r)
  BY FirstInSet
<1>3. ASSUME NEW n \in N, \A c \in N : c < n => Ok(c), symbol \notin ToSet(rest[n])
      PROVE  /\ rest[n] = SubSeq(s, Len(s) - n + 1, Len(s))
             /\ \A k \in Len(s) - n .. Len(s) : ~OccursAt(text, s, k)
  <2>1. CASE n = 0
    <3>1. rest[n] = <<>>
      BY <2>1 DEF RestCase
    <3>2. SubSeq(s, Len(s) - n + 1, Len(s)) = <<>>
      BY <1>1, <2>1
    <3> QED
      BY <1>1, <2>1, <3>1, <3>2 DEF OccursAt
  <2>2. CASE n # 0 /\ OccursAt(text, s, Len(s) - n)
    <3>1. rest[n - Len(text)] \in Seq(T) /\ rest[n] = <<symbol>> \o rest[n - Len(text)]
      BY <2>2 DEF RestCase
    <3>2. symbol \in ToSet(rest[n])
      BY <1>1, <1>2, <3>1
    <3> QED
      BY <1>3, <3>2
  <2>3. CASE n # 0 /\ ~OccursAt(text, s, Len(s) - n)
    <3> DEFINE c == n - 1
               x == s[Len(s) - n + 1]
    <3>0. n \in Nat /\ c < n
      BY <1>1
    <3>1. c \in N /\ c < n /\ rest[c] \in Seq(T) /\ x \in T /\ rest[n] = <<x>> \o rest[c]
      BY <2>3, <3>0 DEF RestCase
    <3>2. symbol \notin ToSet(rest[c])
      BY <1>2, <1>3, <3>1
    <3>3. Ok(c)
      BY <1>3, <3>1
    <3>4. rest[c] = SubSeq(s, Len(s) - n + 2, Len(s))
      BY <1>1, <3>2, <3>3
    <3>5. SubSeq(s, Len(s) - n + 1, Len(s)) = <<x>> \o SubSeq(s, Len(s) - n + 2, Len(s))
      BY <1>1, <2>3
    <3>6. ASSUME NEW k \in Len(s) - n .. Len(s) PROVE ~OccursAt(text, s, k)
      <4>1. CASE k = Len(s) - n
        BY <2>3, <4>1
      <4>2. CASE k # Len(s) - n
        <5>1. k \in Len(s) - c .. Len(s)
          BY <1>1, <3>1, <4>2
        <5> QED
          BY <3>2, <3>3, <5>1
      <4> QED
        BY <4>1, <4>2
    <3> QED
      BY <3>1, <3>4, <3>5, <3>6
  <2> QED
    BY <2>1, <2>2, <2>3
<1>4. \A n \in Bad : \E c \in Bad : depth[c] < depth[n]
  <2> SUFFICES ASSUME NEW n \in N, ~Ok(n) PROVE \E c \in N : c < n /\ ~Ok(c)
    OBVIOUS
  <2> QED
    BY <1>3
<1>5. Bad \subseteq N /\ \A n \in N : depth[n] \in Nat
  BY <1>1
<1>6. Bad = {}
  <2> HIDE DEF Bad, depth, N
  <2> QED
    BY <1>4, <1>5, NoneBad
<1> QED
  BY <1>6

\* Where the text does not occur, the rest is what it came from.
LEMMA AbsentUnchanged ==
  ASSUME NEW T, NEW s, NEW text, NEW symbol, Replaceable(T, s, text, symbol), NEW rest,
         \A n \in 0..Len(s) : RestCase(T, rest, s, text, symbol, n),
         ~Occurs(text, s)
  PROVE  \A n \in 0..Len(s) : rest[n] = SubSeq(s, Len(s) - n + 1, Len(s))
<1> DEFINE N == 0..Len(s)
           Ok(n) == rest[n] = SubSeq(s, Len(s) - n + 1, Len(s))
           Bad == {n \in N : ~Ok(n)}
           depth == [n \in N |-> n]
<1>1. s \in Seq(T) /\ Len(s) \in Nat
  BY DEF Replaceable
<1>2. ASSUME NEW n \in N, \A c \in N : c < n => Ok(c) PROVE Ok(n)
  <2>1. CASE n = 0
    <3>1. rest[n] = <<>>
      BY <2>1 DEF RestCase
    <3>2. SubSeq(s, Len(s) - n + 1, Len(s)) = <<>>
      BY <1>1, <2>1
    <3> QED
      BY <3>1, <3>2
  <2>2. CASE n # 0
    <3> DEFINE c == n - 1
               x == s[Len(s) - n + 1]
    <3>1. Len(s) - n \in 0..Len(s) /\ c < n
      BY <1>1
    <3>2. ~OccursAt(text, s, Len(s) - n)
      BY <3>1 DEF Occurs
    <3>3. c \in N /\ rest[n] = <<x>> \o rest[c]
      BY <2>2, <3>2 DEF RestCase
    <3>4. Ok(c)
      BY <1>2, <3>1, <3>3
    <3>5. rest[c] = SubSeq(s, Len(s) - n + 2, Len(s))
      BY <1>1, <3>4
    <3>6. SubSeq(s, Len(s) - n + 1, Len(s)) = <<x>> \o SubSeq(s, Len(s) - n + 2, Len(s))
      BY <1>1, <2>2
    <3> QED
      BY <3>3, <3>5, <3>6
  <2> QED
    BY <2>1, <2>2
<1>3. \A n \in Bad : \E c \in Bad : depth[c] < depth[n]
  <2> SUFFICES ASSUME NEW n \in N, ~Ok(n) PROVE \E c \in N : c < n /\ ~Ok(c)
    OBVIOUS
  <2> QED
    BY <1>2
<1>4. Bad \subseteq N /\ \A n \in N : depth[n] \in Nat
  BY <1>1
<1>5. Bad = {}
  <2> HIDE DEF Bad, depth, N
  <2> QED
    BY <1>3, <1>4, NoneBad
<1> QED
  BY <1>5

-----------------------------------------------------------------------------
(* RestoreCommand: symbol by symbol *)

LEMMA ElementsOfSeq ==
  ASSUME NEW T, NEW s, s \in Seq(T)
  PROVE  ToSet(s) \subseteq T
<1>1. \A i \in DOMAIN s : s[i] \in T
  OBVIOUS
<1> QED
  BY <1>1 DEF ToSet

LEMMA SeqIsConcat ==
  ASSUME NEW T, NEW a \in Seq(T), NEW b \in Seq(T), NEW c \in Seq(T),
         Len(c) = Len(a) + Len(b),
         \A i \in 1..Len(a) : c[i] = a[i],
         \A i \in 1..Len(b) : c[Len(a) + i] = b[i]
  PROVE  c = a \o b
<1>1. Len(a) \in Nat /\ Len(b) \in Nat
  OBVIOUS
<1>2. /\ a \o b \in Seq(T) /\ Len(a \o b) = Len(a) + Len(b)
      /\ \A i \in 1..Len(a) + Len(b) :
           (a \o b)[i] = IF i <= Len(a) THEN a[i] ELSE b[i - Len(a)]
  OBVIOUS
<1>3. ASSUME NEW i \in 1..Len(a) + Len(b) PROVE c[i] = (a \o b)[i]
  <2>1. CASE i <= Len(a)
    BY <1>1, <1>2, <2>1
  <2>2. CASE ~(i <= Len(a))
    <3>1. i - Len(a) \in 1..Len(b) /\ Len(a) + (i - Len(a)) = i
      BY <1>1, <2>2
    <3>2. c[i] = b[i - Len(a)]
      BY <3>1
    <3> QED
      BY <1>2, <2>2, <3>2
  <2> QED
    BY <2>1, <2>2
<1> QED
  BY <1>1, <1>2, <1>3

\* What becomes of one symbol.
Piece(x, values) ==
  LET named == {f \in DOMAIN values : x = Placeholder(f)}
  IN  IF named = {} THEN <<x>> ELSE values[CHOOSE f \in named : TRUE]

Restorable(T, values) == \A x \in T : Piece(x, values) \in Seq(T)

LEMMA PiecesOf ==
  ASSUME NEW T, NEW values, NEW s, Restorable(T, values), s \in Seq(T)
  PROVE  \E f \in Seq(Seq(T)) : /\ RestoreCommand(s, values) = FlattenSeq(f)
                                /\ Len(f) = Len(s)
                                /\ \A i \in 1..Len(s) : f[i] = Piece(s[i], values)
<1> DEFINE f == [i \in DOMAIN s |-> Piece(s[i], values)]
<1>1. RestoreCommand(s, values) = FlattenSeq(f)
  BY DEF RestoreCommand, Piece
<1>2. Len(s) \in Nat /\ DOMAIN s = 1..Len(s) /\ \A i \in 1..Len(s) : s[i] \in T
  OBVIOUS
<1>3. \A i \in 1..Len(s) : Piece(s[i], values) \in Seq(T)
  BY <1>2 DEF Restorable
<1>4. f \in [1..Len(s) -> Seq(T)]
  BY <1>2, <1>3
<1>5. \A i \in 1..Len(s) : f[i] = Piece(s[i], values)
  BY <1>2
<1>6. f \in Seq(Seq(T)) /\ Len(f) = Len(s)
  <2> HIDE DEF f
  <2> QED
    BY <1>2, <1>4
<1> QED
  BY <1>1, <1>5, <1>6

Joins(T, p, q, u) == p \in Seq(T) /\ q \in Seq(T) /\ u = p \o q

LEMMA RestoreConcat ==
  ASSUME NEW T, NEW values, NEW p, NEW q, NEW u, Restorable(T, values), Joins(T, p, q, u)
  PROVE  /\ RestoreCommand(p, values) \in Seq(T)
         /\ RestoreCommand(u, values) = RestoreCommand(p, values) \o RestoreCommand(q, values)
<1>1. /\ p \in Seq(T) /\ q \in Seq(T) /\ u \in Seq(T) /\ Len(u) = Len(p) + Len(q)
      /\ Len(p) \in Nat /\ Len(q) \in Nat
      /\ \A i \in 1..Len(p) : u[i] = p[i]
      /\ \A i \in 1..Len(q) : u[Len(p) + i] = q[i]
  BY DEF Joins
<1>2. PICK a \in Seq(Seq(T)) : /\ RestoreCommand(p, values) = FlattenSeq(a)
                              /\ Len(a) = Len(p)
                              /\ \A i \in 1..Len(p) : a[i] = Piece(p[i], values)
  <2>1. p \in Seq(T)
    BY <1>1
  <2> QED
    BY <2>1, PiecesOf
<1>3. PICK b \in Seq(Seq(T)) : /\ RestoreCommand(q, values) = FlattenSeq(b)
                              /\ Len(b) = Len(q)
                              /\ \A i \in 1..Len(q) : b[i] = Piece(q[i], values)
  <2>1. q \in Seq(T)
    BY <1>1
  <2> QED
    BY <2>1, PiecesOf
<1>4. PICK c \in Seq(Seq(T)) : /\ RestoreCommand(u, values) = FlattenSeq(c)
                              /\ Len(c) = Len(u)
                              /\ \A i \in 1..Len(u) : c[i] = Piece(u[i], values)
  <2>1. u \in Seq(T)
    BY <1>1
  <2> QED
    BY <2>1, PiecesOf
<1>5. Len(c) = Len(a) + Len(b)
  <2>1. Len(a) = Len(p) /\ Len(b) = Len(q) /\ Len(c) = Len(u)
    BY <1>2, <1>3, <1>4
  <2>2. Len(u) = Len(p) + Len(q)
    BY <1>1
  <2> QED
    BY <2>1, <2>2
<1>6. \A i \in 1..Len(a) : c[i] = a[i]
  <2>1. \A i \in 1..Len(p) : i \in 1..Len(u)
    BY <1>1
  <2> QED
    BY <1>1, <1>2, <1>4, <2>1
<1>7. \A i \in 1..Len(b) : c[Len(a) + i] = b[i]
  <2>1. \A i \in 1..Len(q) : Len(p) + i \in 1..Len(u)
    BY <1>1
  <2> QED
    BY <1>1, <1>2, <1>3, <1>4, <2>1
<1>8. c = a \o b
  BY <1>5, <1>6, <1>7, SeqIsConcat
<1>9. FlattenSeq(a \o b) = FlattenSeq(a) \o FlattenSeq(b)
  BY FlattenConcat
<1>10. FlattenSeq(a) \in Seq(T)
  <2>1. <<>> \in Seq(T)
    OBVIOUS
  <2> QED
    BY <2>1, FlattenAppend
<1> QED
  BY <1>2, <1>3, <1>4, <1>8, <1>9, <1>10

LEMMA RestoreOne ==
  ASSUME NEW T, NEW values, Restorable(T, values), NEW x \in T
  PROVE  RestoreCommand(<<x>>, values) = Piece(x, values) /\ RestoreCommand(<<>>, values) = <<>>
<1> DEFINE pieces(s) == [i \in DOMAIN s |-> Piece(s[i], values)]
<1>1. \A s : RestoreCommand(s, values) = FlattenSeq(pieces(s))
  BY DEF RestoreCommand, Piece
<1>2. Piece(x, values) \in Seq(T)
  BY DEF Restorable
<1>3. pieces(<<x>>) = Append(<<>>, Piece(x, values))
  OBVIOUS
<1>4. pieces(<<>>) = <<>>
  OBVIOUS
<1>5. <<>> \in Seq(Seq(T)) /\ <<>> \in Seq(T)
  OBVIOUS
<1>6. FlattenSeq(Append(<<>>, Piece(x, values))) = FlattenSeq(<<>>) \o Piece(x, values)
  BY <1>2, <1>5, FlattenAppend
<1>7. FlattenSeq(<<>>) = <<>>
  BY <1>2, <1>5, FlattenAppend
<1>8. <<>> \o Piece(x, values) = Piece(x, values)
  BY <1>2
<1> QED
  BY <1>1, <1>3, <1>4, <1>6, <1>7, <1>8

\* A text without placeholders stays.
LEMMA RestoreText ==
  ASSUME NEW T, NEW values, Restorable(T, values), NEW s \in Seq(T),
         \A i \in 1..Len(s) : Piece(s[i], values) = <<s[i]>>
  PROVE  RestoreCommand(s, values) = s
<1> DEFINE N == 0..Len(s)
           first(n) == SubSeq(s, 1, n)
           Bad == {n \in N : RestoreCommand(first(n), values) # first(n)}
           depth == [n \in N |-> n]
<1>1. ASSUME NEW n \in N, n \in Bad PROVE \E c \in Bad : depth[c] < depth[n]
  <2> SUFFICES ASSUME \A c \in N : c < n => RestoreCommand(first(c), values) = first(c)
               PROVE  FALSE
    OBVIOUS
  <2>1. CASE n = 0
    <3>1. first(0) = <<>>
      OBVIOUS
    <3>2. RestoreCommand(<<>>, values) = <<>>
      BY DEF RestoreCommand, FlattenSeq
    <3> QED
      BY <1>1, <2>1, <3>1, <3>2
  <2>2. CASE n # 0
    <3> DEFINE c == n - 1
    <3>1. c \in N /\ c < n /\ n \in 1..Len(s)
      BY <2>2
    <3>2. first(c) \in Seq(T) /\ s[n] \in T /\ <<s[n]>> \in Seq(T)
      BY <3>1
    <3>3. first(n) = first(c) \o <<s[n]>>
      BY <3>1
    <3>4. RestoreCommand(first(c), values) = first(c)
      BY <3>1
    <3>5. RestoreCommand(<<s[n]>>, values) = <<s[n]>>
      BY <3>1, <3>2, RestoreOne
    <3>6. Joins(T, first(c), <<s[n]>>, first(n))
      BY <3>2, <3>3 DEF Joins
    <3> HIDE DEF first, c
    <3>7. RestoreCommand(first(n), values)
            = RestoreCommand(first(c), values) \o RestoreCommand(<<s[n]>>, values)
      BY <3>6, RestoreConcat
    <3>8. RestoreCommand(first(n), values) = first(n)
      BY <3>3, <3>4, <3>5, <3>7
    <3> QED
      BY <1>1, <3>8
  <2> QED
    BY <2>1, <2>2
<1>2. Bad \subseteq N /\ \A n \in N : depth[n] \in Nat
  OBVIOUS
<1>3. Bad = {}
  <2> HIDE DEF Bad, depth, N
  <2> QED
    BY <1>1, <1>2, NoneBad
<1>4. Len(s) \in N /\ first(Len(s)) = s
  OBVIOUS
<1> QED
  BY <1>3, <1>4

\* To restore the rest is to restore what it came from, if the symbol stands for the text.
LEMMA RestRestores ==
  ASSUME NEW T, NEW s, NEW text, NEW symbol, Replaceable(T, s, text, symbol), NEW rest,
         \A n \in 0..Len(s) : RestCase(T, rest, s, text, symbol, n),
         NEW values, Restorable(T, values),
         Piece(symbol, values) = text, RestoreCommand(text, values) = text
  PROVE  \A n \in 0..Len(s) :
           RestoreCommand(rest[n], values)
             = RestoreCommand(SubSeq(s, Len(s) - n + 1, Len(s)), values)
<1> DEFINE N == 0..Len(s)
           last(n) == SubSeq(s, Len(s) - n + 1, Len(s))
           R(p) == RestoreCommand(p, values)
           Bad == {n \in N : R(rest[n]) # R(last(n))}
           depth == [n \in N |-> n]
<1>1. /\ s \in Seq(T) /\ text \in Seq(T) /\ Len(text) \in Nat \ {0} /\ symbol \in T
      /\ Len(s) \in Nat
  BY DEF Replaceable
<1>2. \A n \in N : last(n) \in Seq(T)
  BY <1>1
<1>3. ASSUME NEW p, NEW q, NEW u, Joins(T, p, q, u) PROVE R(u) = R(p) \o R(q)
  BY <1>3, RestoreConcat
<1>7. ASSUME NEW n \in N, \A c \in N : c < n => R(rest[c]) = R(last(c))
      PROVE  R(rest[n]) = R(last(n))
  <2>1. CASE n = 0
    <3>1. last(n) = <<>>
      BY <1>1, <2>1
    <3>2. rest[n] = <<>>
      BY <2>1 DEF RestCase
    <3> QED
      BY <3>1, <3>2
  <2>2. CASE n # 0 /\ OccursAt(text, s, Len(s) - n)
    <3> DEFINE c == n - Len(text)
    <3>1. c \in N /\ c < n /\ rest[c] \in Seq(T) /\ rest[n] = <<symbol>> \o rest[c]
      BY <2>2 DEF RestCase
    <3>2. last(n) = text \o last(c)
      <4>1. \A i \in 1..Len(text) : s[Len(s) - n + i] = text[i]
        BY <2>2 DEF OccursAt
      <4>2. DOMAIN last(n) = 1..n /\ \A i \in 1..n : last(n)[i] = s[Len(s) - n + i]
        BY <1>1
      <4>3. Len(last(c)) = c /\ \A i \in 1..c : last(c)[i] = s[Len(s) - c + i]
        BY <1>1, <3>1
      <4>4. last(n) \in Seq(T) /\ Len(last(n)) = n /\ last(c) \in Seq(T)
        BY <1>1, <1>2, <3>1
      <4> HIDE DEF last
      <4>5. Len(last(n)) = Len(text) + Len(last(c))
        BY <1>1, <4>3, <4>4
      <4>6. \A i \in 1..Len(text) : last(n)[i] = text[i]
        <5>1. \A i \in 1..Len(text) : i \in 1..n
          BY <1>1, <4>3, <4>4, <4>5
        <5> QED
          BY <4>1, <4>2, <5>1
      <4>7. \A i \in 1..Len(last(c)) : last(n)[Len(text) + i] = last(c)[i]
        <5>1. \A i \in 1..c : /\ Len(text) + i \in 1..n
                              /\ Len(s) - n + (Len(text) + i) = Len(s) - c + i
          BY <1>1
        <5> HIDE DEF c
        <5> QED
          BY <4>2, <4>3, <5>1
      <4> HIDE DEF c
      <4> QED
        BY <1>1, <4>4, <4>5, <4>6, <4>7, SeqIsConcat
    <3>3. R(<<symbol>>) = text /\ R(text) = text /\ <<symbol>> \in Seq(T)
      BY <1>1, RestoreOne
    <3>4. R(rest[c]) = R(last(c))
      BY <1>7, <3>1
    <3>5. last(c) \in Seq(T)
      BY <1>2, <3>1
    <3> HIDE DEF R, last, c
    <3>7. Joins(T, <<symbol>>, rest[c], rest[n]) /\ Joins(T, text, last(c), last(n))
      BY <1>1, <3>1, <3>2, <3>3, <3>5 DEF Joins
    <3>6. R(rest[n]) = R(<<symbol>>) \o R(rest[c]) /\ R(last(n)) = R(text) \o R(last(c))
      BY <1>3, <3>7
    <3> QED
      BY <3>3, <3>4, <3>6
  <2>3. CASE n # 0 /\ ~OccursAt(text, s, Len(s) - n)
    <3> DEFINE c == n - 1
               x == s[Len(s) - n + 1]
    <3>0. n \in Nat /\ c < n
      BY <1>1
    <3>1. c \in N /\ rest[c] \in Seq(T) /\ x \in T /\ rest[n] = <<x>> \o rest[c]
      BY <2>3 DEF RestCase
    <3>2. last(n) = <<x>> \o last(c)
      <4>1. last(c) = SubSeq(s, Len(s) - n + 2, Len(s))
        BY <1>1
      <4> QED
        BY <1>1, <2>3, <4>1
    <3>3. R(rest[c]) = R(last(c))
      BY <1>7, <3>0, <3>1
    <3>4. last(c) \in Seq(T) /\ <<x>> \in Seq(T)
      BY <1>2, <3>1
    <3> HIDE DEF R, last, c, x
    <3>6. Joins(T, <<x>>, rest[c], rest[n]) /\ Joins(T, <<x>>, last(c), last(n))
      BY <3>1, <3>2, <3>4 DEF Joins
    <3>5. R(rest[n]) = R(<<x>>) \o R(rest[c]) /\ R(last(n)) = R(<<x>>) \o R(last(c))
      BY <1>3, <3>6
    <3> QED
      BY <3>3, <3>5
  <2> QED
    BY <2>1, <2>2, <2>3
<1>4. \A n \in Bad : \E c \in Bad : depth[c] < depth[n]
  <2> SUFFICES ASSUME NEW n \in N, R(rest[n]) # R(last(n))
               PROVE  \E c \in N : c < n /\ R(rest[c]) # R(last(c))
    OBVIOUS
  <2> QED
    BY <1>7
<1>5. Bad \subseteq N /\ \A n \in N : depth[n] \in Nat
  BY <1>1
<1>6. Bad = {}
  <2> HIDE DEF Bad, depth, N
  <2> QED
    BY <1>4, <1>5, NoneBad
<1> QED
  BY <1>6

-----------------------------------------------------------------------------
(* One text replaced *)

\* What replacing a text does: it is gone, nothing but the symbol is new, and where the symbol
\* does not show, or the text does not occur, nothing happened.
LEMMA ReplaceFacts ==
  ASSUME NEW T, NEW s, NEW text, NEW symbol, NEW r,
         Replaceable(T, s, text, symbol), symbol \notin ToSet(text),
         r = ReplaceText(s, text, symbol)
  PROVE  /\ r \in Seq(T)
         /\ ~Occurs(text, r)
         /\ \A u \in Seq(T) : symbol \notin ToSet(u) /\ Occurs(u, r) => Occurs(u, s)
         /\ ToSet(r) \subseteq ToSet(s) \cup {symbol}
         /\ ToSet(s) \subseteq ToSet(text) \cup ToSet(r)
         /\ symbol \notin ToSet(r) => r = s /\ ~Occurs(text, s)
         /\ ~Occurs(text, s) => r = s
<1>1. /\ s \in Seq(T) /\ text \in Seq(T) /\ Len(text) \in Nat \ {0} /\ symbol \in T
      /\ Len(s) \in Nat
  BY DEF Replaceable
<1>2. PICK rest : /\ ReplaceText(s, text, symbol) = rest[Len(s)]
                  /\ \A n \in 0..Len(s) : RestCase(T, rest, s, text, symbol, n)
  BY RestUnfolds
<1>3. Len(s) \in 0..Len(s) /\ r = rest[Len(s)]
  BY <1>1, <1>2
<1>4. r \in Seq(T) /\ Len(r) \in Nat
  <2>1. r \in Seq(T)
    BY <1>2, <1>3 DEF RestCase
  <2> QED
    BY <2>1
<1>5. ~Occurs(text, r)
  <2>1. \A k \in Nat : ~OccursAt(text, r, k)
    BY <1>2, <1>3, NoTextInRest
  <2> QED
    BY <1>4, <2>1 DEF Occurs
<1>6. ASSUME NEW u \in Seq(T), symbol \notin ToSet(u), Occurs(u, r) PROVE Occurs(u, s)
  <2> DEFINE m == Len(u)
  <2>1. PICK k \in 0..Len(r) : k + m <= Len(r) /\ \A i \in 1..m : r[k + i] = u[i]
    BY <1>6 DEF Occurs, OccursAt
  <2>2. m \in Nat /\ k \in Nat /\ \A i \in 1..m : u[i] # symbol
    BY <1>4, <1>6 DEF ToSet
  <2>3. \A i \in 1..m : r[k + i] # symbol
    BY <2>1, <2>2
  <2>4. WindowOf(rest, s, Len(s), k, m)
    <3>1. \A n \in 0..Len(s), h \in Nat, l \in Nat :
            h + l <= Len(rest[n]) /\ (\A i \in 1..l : rest[n][h + i] # symbol)
              => WindowOf(rest, s, n, h, l)
      BY <1>2, Windows
    <3> HIDE DEF m
    <3>2. k + m <= Len(rest[Len(s)]) /\ \A i \in 1..m : rest[Len(s)][k + i] # symbol
      BY <1>3, <2>1, <2>3
    <3> QED
      BY <1>3, <2>2, <3>1, <3>2
  <2>5. PICK j \in Nat : j + m <= Len(s) /\ \A i \in 1..m : r[k + i] = s[j + i]
    <3>1. PICK j \in Nat : /\ j + m <= Len(s)
                           /\ \A i \in 1..m : r[k + i] = s[Len(s) - Len(s) + j + i]
      BY <1>3, <2>4 DEF WindowOf
    <3>2. Len(s) - Len(s) + j = j
      BY <1>1
    <3> QED
      BY <3>1, <3>2
  <2>6. j \in 0..Len(s) /\ \A i \in 1..m : s[j + i] = u[i]
    BY <1>1, <2>1, <2>2, <2>5
  <2> QED
    BY <2>5, <2>6 DEF Occurs, OccursAt
<1>7. ToSet(r) \subseteq ToSet(s) \cup {symbol}
  BY <1>2, <1>3, SymbolsOfRest
<1>8. ToSet(s) \subseteq ToSet(text) \cup ToSet(r)
  <2>1. \A j \in Len(s) - Len(s) + 1 .. Len(s) : s[j] \in ToSet(text) \cup ToSet(r)
    BY <1>2, <1>3, SymbolsOfRest
  <2>2. \A j \in 1..Len(s) : s[j] \in ToSet(text) \cup ToSet(r)
    BY <1>1, <2>1
  <2>3. DOMAIN s = 1..Len(s)
    BY <1>1
  <2> QED
    BY <2>2, <2>3 DEF ToSet
<1>9. ASSUME symbol \notin ToSet(r) PROVE r = s /\ ~Occurs(text, s)
  <2>1. /\ r = SubSeq(s, Len(s) - Len(s) + 1, Len(s))
        /\ \A k \in Len(s) - Len(s) .. Len(s) : ~OccursAt(text, s, k)
    BY <1>2, <1>3, <1>9, RestUnchanged
  <2>2. Len(s) - Len(s) = 0
    BY <1>1
  <2>3. SubSeq(s, 1, Len(s)) = s
    BY <1>1
  <2>4. \A k \in 0..Len(s) : ~OccursAt(text, s, k)
    BY <2>1, <2>2
  <2>5. r = s
    BY <2>1, <2>2, <2>3
  <2> QED
    BY <2>4, <2>5 DEF Occurs
<1>10. ASSUME ~Occurs(text, s) PROVE r = s
  <2>1. r = SubSeq(s, Len(s) - Len(s) + 1, Len(s))
    BY <1>2, <1>3, <1>10, AbsentUnchanged
  <2>2. Len(s) - Len(s) + 1 = 1 /\ SubSeq(s, 1, Len(s)) = s
    BY <1>1
  <2> QED
    BY <2>1, <2>2
<1> QED
  BY <1>4, <1>5, <1>6, <1>7, <1>8, <1>9, <1>10

\* The symbol restored as the text gives what there was.
LEMMA ReplaceRestores ==
  ASSUME NEW T, NEW s, NEW text, NEW symbol, NEW r, NEW values,
         Replaceable(T, s, text, symbol), r = ReplaceText(s, text, symbol),
         Restorable(T, values), Piece(symbol, values) = text, RestoreCommand(text, values) = text
  PROVE  RestoreCommand(r, values) = RestoreCommand(s, values)
<1>1. s \in Seq(T) /\ Len(s) \in Nat
  BY DEF Replaceable
<1>2. PICK rest : /\ ReplaceText(s, text, symbol) = rest[Len(s)]
                  /\ \A n \in 0..Len(s) : RestCase(T, rest, s, text, symbol, n)
  BY RestUnfolds
<1>3. Len(s) \in 0..Len(s) /\ r = rest[Len(s)]
  BY <1>1, <1>2
<1>4. RestoreCommand(rest[Len(s)], values)
        = RestoreCommand(SubSeq(s, Len(s) - Len(s) + 1, Len(s)), values)
  BY <1>2, <1>3, RestRestores
<1>5. SubSeq(s, Len(s) - Len(s) + 1, Len(s)) = s
  <2>1. Len(s) - Len(s) + 1 = 1
    BY <1>1
  <2>2. SubSeq(s, 1, Len(s)) = s
    BY <1>1
  <2> QED
    BY <2>1, <2>2
<1> QED
  BY <1>3, <1>4, <1>5

-----------------------------------------------------------------------------
(* The rounds of RedactAll *)

\* The symbols of a preview.
Shown == Symbols \cup {Placeholder(f) : f \in Names}

\* The secrets have names and texts.
Redactable(given, secretArgs) ==
  secretArgs \in Seq(Names) /\ \A f \in Names : TextOf(given[f]) \in Seq(Symbols)

\* What is typed by who knows the arguments, for the fields of F.
Truly(given, F) == [f \in F |-> TextOf(given[f])]

LEMMA SecretFacts ==
  ASSUME NEW given, NEW secretArgs, Redactable(given, secretArgs)
  PROVE  /\ PresentSecrets(given, secretArgs) \subseteq 1..Len(secretArgs)
         /\ IsFiniteSet(PresentSecrets(given, secretArgs))
         /\ \A i \in PresentSecrets(given, secretArgs) :
              /\ i \in Nat /\ secretArgs[i] \in Names
              /\ SecretText(given, secretArgs, i) = TextOf(given[secretArgs[i]])
              /\ SecretText(given, secretArgs, i) \in Seq(Symbols)
              /\ SecretText(given, secretArgs, i) # <<>>
         /\ \A i, j \in PresentSecrets(given, secretArgs) :
              secretArgs[i] = secretArgs[j] => i = j
<1> DEFINE P == PresentSecrets(given, secretArgs)
<1>1. secretArgs \in Seq(Names) /\ Len(secretArgs) \in Nat /\ DOMAIN secretArgs = 1..Len(secretArgs)
  BY DEF Redactable
<1>2. P \subseteq 1..Len(secretArgs)
  BY <1>1 DEF PresentSecrets
<1>3. IsFiniteSet(P)
  <2>1. 1 \in Int /\ Len(secretArgs) \in Int
    BY <1>1
  <2>2. IsFiniteSet(1..Len(secretArgs))
    BY <2>1, FS_Interval
  <2> HIDE DEF P
  <2> QED
    BY <1>2, <2>2, FS_Subset
<1>4. ASSUME NEW i \in P
      PROVE  /\ i \in Nat /\ secretArgs[i] \in Names
             /\ SecretText(given, secretArgs, i) = TextOf(given[secretArgs[i]])
             /\ SecretText(given, secretArgs, i) \in Seq(Symbols)
             /\ SecretText(given, secretArgs, i) # <<>>
  <2>1. i \in Nat /\ secretArgs[i] \in Names
    BY <1>1, <1>2
  <2> QED
    BY <2>1 DEF Redactable, SecretText, PresentSecrets
<1>5. ASSUME NEW i \in P, NEW j \in P, secretArgs[i] = secretArgs[j] PROVE i = j
  <2>1. i \in Nat /\ j \in Nat /\ i >= 1 /\ j >= 1
    BY <1>2
  <2>2. \A k \in 1..(i - 1) : secretArgs[k] # secretArgs[i]
    BY DEF PresentSecrets
  <2>3. \A k \in 1..(j - 1) : secretArgs[k] # secretArgs[j]
    BY DEF PresentSecrets
  <2>4. ~(i < j) /\ ~(j < i)
    BY <1>5, <2>1, <2>2, <2>3
  <2> QED
    BY <2>1, <2>4
<1> QED
  BY <1>2, <1>3, <1>4, <1>5

\* The secret that goes first is one of those left, and no other is longer.
LEMMA NextSecretFacts ==
  ASSUME NEW given, NEW secretArgs, NEW left, Redactable(given, secretArgs),
         left \subseteq PresentSecrets(given, secretArgs), left # {}
  PROVE  /\ NextSecret(left, given, secretArgs) \in left
         /\ \A j \in left : Len(SecretText(given, secretArgs, NextSecret(left, given, secretArgs)))
                              >= Len(SecretText(given, secretArgs, j))
<1> DEFINE len(i) == Len(SecretText(given, secretArgs, i))
           Longest == {i \in left : \A j \in left : len(i) >= len(j)}
           Best(i) == \A j \in left : len(i) > len(j) \/ (len(i) = len(j) /\ i <= j)
<1>1. \A i \in left : i \in Nat /\ len(i) \in Nat
  BY SecretFacts
<1>2. IsFiniteSet(left)
  BY SecretFacts, FS_Subset
<1>3. Longest # {}
  <2> DEFINE lens == {len(i) : i \in left}
             Above == {n \in Nat : \A m \in lens : m <= n}
  <2>1. lens \subseteq Nat /\ lens # {}
    BY <1>1
  <2>2. \E n \in Nat : \A m \in lens : m <= n
    <3> DEFINE Bound(S) == \E n \in Nat : \A i \in S : len(i) <= n
               Bad == {S \in SUBSET left : ~Bound(S)}
               size == [S \in SUBSET left |-> Cardinality(S)]
    <3> HIDE DEF len
    <3>1. \A S \in SUBSET left : IsFiniteSet(S) /\ Cardinality(S) \in Nat
      BY <1>2, FS_Subset, FS_CardinalityType
    <3>2. ASSUME NEW S \in Bad PROVE \E Q \in Bad : size[Q] < size[S]
      <4>1. S # {} /\ S \subseteq left
        <5>1. Bound({})
          OBVIOUS
        <5> QED
          BY <5>1
      <4>2. PICK x \in S : TRUE
        BY <4>1
      <4>3. Cardinality(S \ {x}) = Cardinality(S) - 1
        BY <3>1, <4>1, FS_RemoveElement
      <4>4. S \ {x} \in SUBSET left /\ size[S \ {x}] < size[S]
        BY <3>1, <4>1, <4>3
      <4>5. ASSUME Bound(S \ {x}) PROVE Bound(S)
        <5>1. PICK n \in Nat : \A i \in S \ {x} : len(i) <= n
          BY <4>5
        <5>2. len(x) \in Nat /\ \A i \in S : len(i) \in Nat
          BY <1>1, <4>1
        <5>3. \A i \in S : len(i) <= n + len(x)
          BY <5>1, <5>2
        <5>4. n + len(x) \in Nat
          BY <5>2
        <5> QED
          BY <5>3, <5>4
      <4> QED
        BY <4>4, <4>5
    <3>3. Bad \subseteq SUBSET left /\ \A S \in SUBSET left : size[S] \in Nat
      BY <3>1
    <3>4. Bad = {}
      <4> HIDE DEF Bad, size
      <4> QED
        BY <3>2, <3>3, NoneBad
    <3>5. Bound(left)
      BY <3>4
    <3> QED
      BY <3>5
  <2>3. Above \subseteq Nat /\ Above # {}
    BY <2>2
  <2>4. PICK n \in Above : \A k \in Above : n <= k
    BY <2>3, LeastNatural
  <2>5. n \in lens
    <3> SUFFICES ASSUME n \notin lens PROVE FALSE
      OBVIOUS
    <3> HIDE DEF lens
    <3>1. \A m \in lens : m < n
      BY <2>1, <2>4 DEF Above
    <3>2. PICK m \in lens : TRUE
      BY <2>1
    <3>3. n - 1 \in Above
      BY <2>1, <3>1, <3>2
    <3> QED
      BY <2>3, <2>4, <3>3
  <2>6. PICK i \in left : len(i) = n
    BY <2>5
  <2>7. i \in Longest
    BY <2>4, <2>6
  <2> QED
    BY <2>7
<1>4. Longest \subseteq Nat
  BY <1>1
<1>5. PICK i \in Longest : \A j \in Longest : i <= j
  BY <1>3, <1>4, LeastNatural
<1>6. i \in left /\ Best(i)
  <2> SUFFICES ASSUME NEW j \in left PROVE len(i) > len(j) \/ (len(i) = len(j) /\ i <= j)
    OBVIOUS
  <2>1. len(i) >= len(j)
    OBVIOUS
  <2>2. CASE len(i) = len(j)
    <3>1. j \in Longest
      BY <2>2
    <3> QED
      BY <1>5, <2>2, <3>1
  <2>3. CASE len(i) # len(j)
    BY <1>1, <2>1, <2>3
  <2> QED
    BY <2>2, <2>3
<1>7. NextSecret(left, given, secretArgs) = CHOOSE k \in left : Best(k)
  BY DEF NextSecret
<1>8. NextSecret(left, given, secretArgs) \in left /\ Best(NextSecret(left, given, secretArgs))
  <2> HIDE DEF Best
  <2> QED
    BY <1>6, <1>7
<1> HIDE DEF len
<1>9. \A j \in left : len(NextSecret(left, given, secretArgs)) >= len(j)
  BY <1>1, <1>8
<1> QED
  BY <1>8, <1>9 DEF len

\* The state of the rounds: what is left, what was replaced and listed, and that it can be
\* restored.
RoundOk(r, whole, given, secretArgs) ==
  LET present == PresentSecrets(given, secretArgs)
      text(i) == SecretText(given, secretArgs, i)
  IN  /\ r.left \subseteq present /\ r.preview \in Seq(Shown) /\ r.fields \in Seq(Names)
      /\ r.fields \in Seq({secretArgs[i] : i \in present \ r.left})
      /\ \A i \in present \ r.left : ~Occurs(text(i), r.preview)
      /\ \A i \in present :
           (\A j \in present \ {i} : Len(text(j)) < Len(text(i))) =>
             /\ i \in r.left => r.left = present /\ r.preview = whole
             /\ i \notin r.left /\ Occurs(text(i), whole) => secretArgs[i] \in ToSet(r.fields)
      /\ (\A i \in present : ~Occurs(text(i), whole)) => r.preview = whole
      /\ IsInjective(r.fields)
      /\ ToSet(r.fields) = {k \in Names : Placeholder(k) \in ToSet(r.preview)}
      /\ \A F \in SUBSET Names : ToSet(r.fields) \subseteq F =>
           RestoreCommand(r.preview, Truly(given, F)) = whole

\* A human who types what the caller gave puts texts in place of placeholders only.
LEMMA TrulyRestores ==
  ASSUME NEW given, NEW secretArgs, NEW F, Redactable(given, secretArgs), F \subseteq Names
  PROVE  /\ Restorable(Shown, Truly(given, F))
         /\ \A s \in Seq(Symbols) : RestoreCommand(s, Truly(given, F)) = s
         /\ \A f \in F : Piece(Placeholder(f), Truly(given, F)) = TextOf(given[f])
<1> DEFINE values == Truly(given, F)
<1>1. DOMAIN values = F /\ \A f \in F : values[f] = TextOf(given[f])
  BY DEF Truly
<1> HIDE DEF values
<1>2. Symbols \subseteq Shown /\ \A f \in Names : Placeholder(f) \in Shown
  BY DEF Shown
<1>3. \A s \in Seq(Symbols) : s \in Seq(Shown)
  BY <1>2, SeqMonotonic
<1>4. \A f \in F : values[f] \in Seq(Shown)
  BY <1>1, <1>3 DEF Redactable
<1>5. ASSUME NEW x \in Symbols PROVE Piece(x, values) = <<x>>
  <2>1. {f \in DOMAIN values : x = Placeholder(f)} = {}
    BY <1>1, RedactionAssumption
  <2> QED
    BY <2>1 DEF Piece
<1>6. ASSUME NEW f \in F PROVE Piece(Placeholder(f), values) = TextOf(given[f])
  <2>1. {g \in DOMAIN values : Placeholder(f) = Placeholder(g)} = {f}
    BY <1>1, RedactionAssumption
  <2>2. Piece(Placeholder(f), values) = values[CHOOSE g \in {f} : TRUE]
    BY <2>1 DEF Piece
  <2> QED
    BY <1>1, <2>2
<1>7. ASSUME NEW x \in Shown PROVE Piece(x, values) \in Seq(Shown)
  <2>1. <<x>> \in Seq(Shown)
    OBVIOUS
  <2>2. CASE {f \in DOMAIN values : x = Placeholder(f)} = {}
    BY <2>1, <2>2 DEF Piece
  <2>3. CASE {f \in DOMAIN values : x = Placeholder(f)} # {}
    <3>1. PICK f \in F : x = Placeholder(f)
      BY <1>1, <2>3
    <3> QED
      BY <1>1, <1>4, <1>6, <3>1
  <2> QED
    BY <2>2, <2>3
<1>8. Restorable(Shown, values)
  BY <1>7 DEF Restorable
<1>9. ASSUME NEW s \in Seq(Symbols) PROVE RestoreCommand(s, values) = s
  <2>1. s \in Seq(Shown)
    BY <1>3
  <2>2. \A i \in 1..Len(s) : Piece(s[i], values) = <<s[i]>>
    <3>1. \A i \in 1..Len(s) : s[i] \in Symbols
      OBVIOUS
    <3> QED
      BY <1>5, <3>1
  <2> QED
    BY <1>8, <2>1, <2>2, RestoreText
<1> QED
  BY <1>6, <1>8, <1>9 DEF values

LEMMA FirstRound ==
  ASSUME NEW given, NEW secretArgs, NEW text,
         Redactable(given, secretArgs), text \in Seq(Symbols)
  PROVE  RoundOk([left |-> PresentSecrets(given, secretArgs), preview |-> text, fields |-> <<>>],
                 text, given, secretArgs)
<1> DEFINE r == [left |-> PresentSecrets(given, secretArgs), preview |-> text, fields |-> <<>>]
<1>1. text \in Seq(Shown)
  BY SeqMonotonic DEF Shown
<1>2. /\ r.fields \in Seq(Names)
      /\ r.fields \in Seq({secretArgs[i] : i \in PresentSecrets(given, secretArgs) \ r.left})
  OBVIOUS
<1>3. ToSet(r.fields) = {} /\ IsInjective(r.fields)
  BY DEF ToSet, IsInjective
<1>4. {k \in Names : Placeholder(k) \in ToSet(r.preview)} = {}
  <2>1. \A x \in ToSet(text) : x \in Symbols
    BY DEF ToSet
  <2> QED
    BY <2>1, RedactionAssumption
<1>5. \A F \in SUBSET Names : RestoreCommand(r.preview, Truly(given, F)) = text
  BY TrulyRestores
<1> QED
  BY <1>1, <1>2, <1>3, <1>4, <1>5 DEF RoundOk

Going(r) == r.left # {}
OneLess(new, r) == \E i \in r.left : new.left = r.left \ {i}

LEMMA NextRound ==
  ASSUME NEW given, NEW secretArgs, NEW whole, NEW r,
         Redactable(given, secretArgs), RoundOk(r, whole, given, secretArgs), Going(r)
  PROVE  /\ RoundOk(RedactRound(r, given, secretArgs), whole, given, secretArgs)
         /\ OneLess(RedactRound(r, given, secretArgs), r)
<1> DEFINE P == PresentSecrets(given, secretArgs)
           text(j) == SecretText(given, secretArgs, j)
           Longest(j) == \A k \in P \ {j} : Len(text(k)) < Len(text(j))
<1>1. /\ r.left \subseteq P /\ r.preview \in Seq(Shown) /\ r.fields \in Seq(Names)
      /\ r.fields \in Seq({secretArgs[j] : j \in P \ r.left})
      /\ \A j \in P \ r.left : ~Occurs(text(j), r.preview)
      /\ \A j \in P : Longest(j) =>
           /\ j \in r.left => r.left = P /\ r.preview = whole
           /\ j \notin r.left /\ Occurs(text(j), whole) => secretArgs[j] \in ToSet(r.fields)
      /\ (\A j \in P : ~Occurs(text(j), whole)) => r.preview = whole
      /\ IsInjective(r.fields)
      /\ ToSet(r.fields) = {k \in Names : Placeholder(k) \in ToSet(r.preview)}
      /\ \A F \in SUBSET Names : ToSet(r.fields) \subseteq F =>
           RestoreCommand(r.preview, Truly(given, F)) = whole
  BY DEF RoundOk
<1>2. PICK i : i = NextSecret(r.left, given, secretArgs)
  OBVIOUS
<1>3. i \in r.left /\ i \in P /\ \A j \in r.left : Len(text(i)) >= Len(text(j))
  BY <1>1, <1>2, NextSecretFacts DEF Going
<1>4. PICK key : key = secretArgs[i]
  OBVIOUS
<1>5. PICK symbol : symbol = Placeholder(key)
  OBVIOUS
<1>6. PICK p : p = ReplaceText(r.preview, text(i), symbol)
  OBVIOUS
<1>7. /\ \A j \in P : j \in Nat /\ secretArgs[j] \in Names
      /\ \A j \in P : text(j) = TextOf(given[secretArgs[j]]) /\ text(j) \in Seq(Symbols)
      /\ \A j \in P : text(j) # <<>>
      /\ \A j, k \in P : secretArgs[j] = secretArgs[k] => j = k
  BY SecretFacts
<1> DEFINE fields == IF p = r.preview THEN r.fields ELSE Append(r.fields, key)
           n == [left |-> r.left \ {i}, preview |-> p, fields |-> fields]
<1>8. RedactRound(r, given, secretArgs) = n
  BY <1>2, <1>4, <1>5, <1>6 DEF RedactRound
<1> HIDE DEF P, text
<1>9. /\ key \in Names /\ symbol \in Shown /\ symbol \notin Symbols
      /\ \A j \in P : text(j) \in Seq(Shown) /\ symbol \notin ToSet(text(j))
  <2>1. key \in Names
    BY <1>3, <1>4, <1>7
  <2>2. symbol \in Shown /\ symbol \notin Symbols
    BY <1>5, <2>1, RedactionAssumption DEF Shown
  <2>3. \A s \in Seq(Symbols) : s \in Seq(Shown)
    BY SeqMonotonic DEF Shown
  <2>4. \A s \in Seq(Symbols) : ToSet(s) \subseteq Symbols
    BY DEF ToSet
  <2> QED
    BY <1>7, <2>1, <2>2, <2>3, <2>4
<1>10. Replaceable(Shown, r.preview, text(i), symbol)
  BY <1>1, <1>3, <1>7, <1>9 DEF Replaceable
<1>11. /\ p \in Seq(Shown)
       /\ ~Occurs(text(i), p)
       /\ \A u \in Seq(Shown) : symbol \notin ToSet(u) /\ Occurs(u, p) => Occurs(u, r.preview)
       /\ ToSet(p) \subseteq ToSet(r.preview) \cup {symbol}
       /\ ToSet(r.preview) \subseteq ToSet(text(i)) \cup ToSet(p)
       /\ symbol \notin ToSet(p) => p = r.preview /\ ~Occurs(text(i), r.preview)
       /\ ~Occurs(text(i), r.preview) => p = r.preview
  BY <1>3, <1>6, <1>9, <1>10, ReplaceFacts
<1>12. key \notin ToSet(r.fields)
  <2>1. \A k \in ToSet(r.fields) : \E j \in P \ r.left : k = secretArgs[j]
    BY <1>1 DEF ToSet
  <2> QED
    BY <1>3, <1>4, <1>7, <2>1
<1>13. /\ fields \in Seq(Names) /\ IsInjective(fields)
       /\ ToSet(fields) = ToSet(r.fields) \cup (IF p = r.preview THEN {} ELSE {key})
       /\ fields \in Seq({secretArgs[j] : j \in P \ n.left})
  <2>1. {secretArgs[j] : j \in P \ r.left} \subseteq {secretArgs[j] : j \in P \ n.left}
    OBVIOUS
  <2>2. key \in {secretArgs[j] : j \in P \ n.left}
    BY <1>3, <1>4
  <2>3. r.fields \in Seq({secretArgs[j] : j \in P \ n.left})
    BY <1>1, <2>1, SeqMonotonic
  <2>4. CASE p = r.preview
    BY <1>1, <2>3, <2>4
  <2>5. CASE p # r.preview
    <3>1. fields = Append(r.fields, key)
      BY <2>5
    <3>2. /\ Len(fields) = Len(r.fields) + 1 /\ DOMAIN fields = 1..Len(r.fields) + 1
          /\ fields[Len(r.fields) + 1] = key /\ DOMAIN r.fields = 1..Len(r.fields)
          /\ \A j \in 1..Len(r.fields) : fields[j] = r.fields[j]
          /\ Len(r.fields) \in Nat
      BY <1>1, <1>9, <3>1
    <3>3. fields \in Seq(Names)
      BY <1>1, <1>9, <3>1
    <3>4. fields \in Seq({secretArgs[j] : j \in P \ n.left})
      BY <2>2, <2>3, <3>1, AppendProperties
    <3> HIDE DEF fields
    <3>5. ToSet(fields) = ToSet(r.fields) \cup {key}
      BY <3>2 DEF ToSet
    <3>6. IsInjective(fields)
      <4> SUFFICES ASSUME NEW a \in DOMAIN fields, NEW b \in DOMAIN fields,
                          fields[a] = fields[b]
                   PROVE  a = b
        BY DEF IsInjective
      <4>1. \A j \in DOMAIN r.fields : r.fields[j] # key
        BY <1>12 DEF ToSet
      <4>2. CASE a = Len(r.fields) + 1
        BY <3>2, <4>1, <4>2
      <4>3. CASE b = Len(r.fields) + 1
        BY <3>2, <4>1, <4>3
      <4>4. CASE a # Len(r.fields) + 1 /\ b # Len(r.fields) + 1
        <5>1. a \in DOMAIN r.fields /\ b \in DOMAIN r.fields
          BY <3>2, <4>4
        <5> QED
          BY <1>1, <3>2, <5>1 DEF IsInjective
      <4> QED
        BY <4>2, <4>3, <4>4
    <3> QED
      BY <2>5, <3>3, <3>4, <3>5, <3>6
  <2> HIDE DEF fields
  <2> QED
    BY <2>4, <2>5
<1> HIDE DEF fields
<1>14. \A j \in P \ n.left : ~Occurs(text(j), p)
  <2>1. \A j \in P \ n.left : j = i \/ j \in P \ r.left
    OBVIOUS
  <2> QED
    BY <1>1, <1>9, <1>11, <2>1
<1>15. ASSUME NEW j \in P, Longest(j)
       PROVE  /\ j \in n.left => n.left = P /\ p = whole
              /\ j \notin n.left /\ Occurs(text(j), whole) => secretArgs[j] \in ToSet(fields)
  <2>1. CASE j \in r.left
    <3>1. r.preview = whole
      BY <1>1, <1>15, <2>1
    <3>2. j = i
      <4> SUFFICES ASSUME j # i PROVE FALSE
        OBVIOUS
      <4>1. Len(text(i)) < Len(text(j)) /\ Len(text(i)) >= Len(text(j))
        BY <1>3, <1>15, <2>1
      <4>2. Len(text(i)) \in Nat /\ Len(text(j)) \in Nat
        BY <1>3, <1>7
      <4> QED
        BY <4>1, <4>2
    <3>3. Occurs(text(j), whole) => p # r.preview
      BY <1>11, <3>1, <3>2
    <3> QED
      BY <1>4, <1>13, <3>2, <3>3
  <2>2. CASE j \notin r.left
    BY <1>1, <1>13, <1>15, <2>2
  <2> QED
    BY <2>1, <2>2
<1>16. ToSet(fields) = {k \in Names : Placeholder(k) \in ToSet(p)}
  <2>1. \A k \in Names : Placeholder(k) \notin ToSet(text(i))
    <3>1. ToSet(text(i)) \subseteq Symbols
      BY <1>3, <1>7 DEF ToSet
    <3> QED
      BY <3>1, RedactionAssumption
  <2>2. \A k \in Names : Placeholder(k) = symbol => k = key
    BY <1>5, <1>9, RedactionAssumption
  <2>3. CASE p = r.preview
    BY <1>1, <1>13, <2>3
  <2>4. CASE p # r.preview
    <3>1. symbol \in ToSet(p)
      BY <1>11, <2>4
    <3>2. ASSUME NEW k \in Names
          PROVE  Placeholder(k) \in ToSet(p) <=> Placeholder(k) \in ToSet(r.preview) \/ k = key
      BY <1>5, <1>11, <2>1, <2>2, <3>1
    <3> QED
      BY <1>1, <1>9, <1>13, <2>4, <3>2
  <2> QED
    BY <2>3, <2>4
<1>17. ASSUME NEW F \in SUBSET Names, ToSet(fields) \subseteq F
       PROVE  RestoreCommand(p, Truly(given, F)) = whole
  <2>1. RestoreCommand(r.preview, Truly(given, F)) = whole
    BY <1>1, <1>13, <1>17
  <2>2. CASE p = r.preview
    BY <2>1, <2>2
  <2>3. CASE p # r.preview
    <3>1. key \in F
      BY <1>13, <1>17, <2>3
    <3>2. /\ Restorable(Shown, Truly(given, F))
          /\ \A s \in Seq(Symbols) : RestoreCommand(s, Truly(given, F)) = s
          /\ \A f \in F : Piece(Placeholder(f), Truly(given, F)) = TextOf(given[f])
      BY TrulyRestores
    <3>3. Piece(symbol, Truly(given, F)) = text(i)
      BY <1>3, <1>4, <1>5, <1>7, <3>1, <3>2
    <3>4. RestoreCommand(text(i), Truly(given, F)) = text(i)
      BY <1>3, <1>7, <3>2
    <3>5. RestoreCommand(p, Truly(given, F)) = RestoreCommand(r.preview, Truly(given, F))
      BY <1>6, <1>10, <3>2, <3>3, <3>4, ReplaceRestores
    <3> QED
      BY <2>1, <3>5
  <2> QED
    BY <2>2, <2>3
<1>18. (\A j \in P : ~Occurs(text(j), whole)) => p = whole
  BY <1>1, <1>3, <1>11
<1>19. RoundOk(n, whole, given, secretArgs)
  BY <1>1, <1>11, <1>13, <1>14, <1>15, <1>16, <1>17, <1>18 DEF RoundOk, P, text
<1>20. OneLess(n, r)
  BY <1>3 DEF OneLess
<1> QED
  BY <1>8, <1>19, <1>20

IsRounds(round, whole, given, secretArgs) ==
  LET present == PresentSecrets(given, secretArgs)
  IN  round = [n \in 0..Cardinality(present) |->
                 IF n = 0 THEN [left |-> present, preview |-> whole, fields |-> <<>>]
                          ELSE RedactRound(round[n - 1], given, secretArgs)]

\* A round is Ok when its state is, and as many secrets are left as rounds.
RoundsOk(r, n, whole, given, secretArgs) ==
  /\ RoundOk(r, whole, given, secretArgs)
  /\ Cardinality(r.left) = Cardinality(PresentSecrets(given, secretArgs)) - n

LEMMA RoundsStep ==
  ASSUME NEW given, NEW secretArgs, NEW whole, NEW r, NEW n \in Nat,
         Redactable(given, secretArgs), n + 1 <= Cardinality(PresentSecrets(given, secretArgs)),
         RoundsOk(r, n, whole, given, secretArgs)
  PROVE  RoundsOk(RedactRound(r, given, secretArgs), n + 1, whole, given, secretArgs)
<1> DEFINE P == PresentSecrets(given, secretArgs)
           next == RedactRound(r, given, secretArgs)
<1>1. RoundOk(r, whole, given, secretArgs) /\ Cardinality(r.left) = Cardinality(P) - n
  BY DEF RoundsOk
<1>2. r.left \subseteq P
  BY <1>1 DEF RoundOk
<1>3. IsFiniteSet(P) /\ Cardinality(P) \in Nat
  <2>1. IsFiniteSet(P)
    BY SecretFacts
  <2> HIDE DEF P
  <2> QED
    BY <2>1, FS_CardinalityType
<1>4. IsFiniteSet(r.left)
  <2> HIDE DEF P
  <2> QED
    BY <1>2, <1>3, FS_Subset
<1>5. Going(r)
  <2>1. Cardinality({}) = 0
    BY FS_EmptySet
  <2> QED
    BY <1>1, <1>3, <2>1 DEF Going
<1>6. RoundOk(next, whole, given, secretArgs) /\ OneLess(next, r)
  BY <1>1, <1>5, NextRound
<1>7. PICK i \in r.left : next.left = r.left \ {i}
  BY <1>6 DEF OneLess
<1>8. Cardinality(r.left \ {i}) = Cardinality(r.left) - 1
  BY <1>4, FS_RemoveElement
<1> QED
  BY <1>1, <1>3, <1>6, <1>7, <1>8 DEF RoundsOk

LEMMA RoundsExist ==
  ASSUME NEW given, NEW secretArgs, NEW text,
         Redactable(given, secretArgs), text \in Seq(Symbols)
  PROVE  \E round : IsRounds(round, text, given, secretArgs)
<1> DEFINE P == PresentSecrets(given, secretArgs)
           N == 0..Cardinality(P)
           base == [left |-> P, preview |-> text, fields |-> <<>>]
           R == {r \in [left : SUBSET P, preview : Seq(Shown), fields : Seq(Names)] : TRUE}
           next(r) == IF RedactRound(r, given, secretArgs) \in R
                      THEN RedactRound(r, given, secretArgs) ELSE base
           depth == [n \in N |-> n]
           step == [p \in N \X [N -> R] |-> IF p[1] = 0 THEN base ELSE next(p[2][p[1] - 1])]
<1>1. Cardinality(P) \in Nat /\ IsFiniteSet(P)
  <2>1. IsFiniteSet(P)
    BY SecretFacts
  <2> HIDE DEF P
  <2> QED
    BY <2>1, FS_CardinalityType
<1>2. RoundOk(base, text, given, secretArgs)
  BY FirstRound
<1>3. ASSUME NEW r, RoundOk(r, text, given, secretArgs), Going(r)
      PROVE  RedactRound(r, given, secretArgs) \in R
  <2>1. RoundOk(RedactRound(r, given, secretArgs), text, given, secretArgs)
    BY <1>3, NextRound
  <2>2. \E left, preview, fields :
          RedactRound(r, given, secretArgs) = [left |-> left, preview |-> preview, fields |-> fields]
    BY DEF RedactRound
  <2> QED
    BY <2>1, <2>2 DEF RoundOk
<1>4. base \in R
  <2>1. base.preview \in Seq(Shown)
    BY SeqMonotonic DEF Shown
  <2> QED
    BY <2>1
<1>5. \A r : next(r) \in R
  BY <1>4
<1> HIDE DEF next, base, R
<1>6. ASSUME NEW n \in N, NEW f \in [N -> R]
      PROVE  /\ step[<<n, f>>] = IF n = 0 THEN base ELSE next(f[n - 1])
             /\ step[<<n, f>>] \in R
  BY <1>4, <1>5
<1>7. Descends(N, R, depth, step)
  <2>1. depth \in [N -> Nat]
    BY <1>1
  <2>2. step \in [N \X [N -> R] -> R]
    BY <1>4, <1>5
  <2>3. ASSUME NEW n \in N, NEW f \in [N -> R], NEW g \in [N -> R],
               \A c \in N : depth[c] < depth[n] => f[c] = g[c]
        PROVE  step[<<n, f>>] = step[<<n, g>>]
    <3>1. n # 0 => f[n - 1] = g[n - 1]
      <4> SUFFICES ASSUME n # 0 PROVE f[n - 1] = g[n - 1]
        OBVIOUS
      <4>1. n - 1 \in N /\ depth[n - 1] < depth[n]
        BY <1>1
      <4> QED
        BY <2>3, <4>1
    <3> HIDE DEF step, depth, N
    <3> QED
      BY <1>6, <3>1
  <2> HIDE DEF N, R, depth, step
  <2> QED
    BY <2>1, <2>2, <2>3 DEF Descends
<1>8. PICK f \in [N -> R] : \A n \in N : f[n] = step[<<n, f>>]
  <2> HIDE DEF N, R, depth, step
  <2> QED
    BY <1>4, <1>7, Recursion
<1>9. \A n \in N : f[n] = IF n = 0 THEN base ELSE next(f[n - 1])
  <2> HIDE DEF step, N
  <2> QED
    BY <1>6, <1>8
<1> DEFINE Ok(n) == RoundsOk(f[n], n, text, given, secretArgs)
           Bad == {n \in N : ~Ok(n)}
<1>10. ASSUME NEW n \in N, n # 0, Ok(n - 1)
       PROVE  Ok(n) /\ f[n] = RedactRound(f[n - 1], given, secretArgs)
  <2>1. n \in Nat /\ n - 1 \in Nat /\ n - 1 \in N /\ (n - 1) + 1 = n
    BY <1>1, <1>10
  <2>2. RoundsOk(RedactRound(f[n - 1], given, secretArgs), n, text, given, secretArgs)
    <3>1. (n - 1) + 1 <= Cardinality(PresentSecrets(given, secretArgs))
      BY <1>1
    <3>2. RoundsOk(f[n - 1], n - 1, text, given, secretArgs)
      BY <1>10
    <3>3. RoundsOk(RedactRound(f[n - 1], given, secretArgs), (n - 1) + 1, text, given, secretArgs)
      BY <2>1, <3>1, <3>2, RoundsStep
    <3> QED
      BY <2>1, <3>3
  <2>3. RedactRound(f[n - 1], given, secretArgs) \in R
    <3>3. PICK r : r = f[n - 1]
      OBVIOUS
    <3>1. RoundOk(f[n - 1], text, given, secretArgs)
      BY <1>10 DEF RoundsOk
    <3>2. Going(f[n - 1])
      <4>1. Cardinality({}) = 0
        BY FS_EmptySet
      <4>2. Cardinality(f[n - 1].left) = Cardinality(P) - (n - 1)
        BY <1>10 DEF RoundsOk
      <4>3. Cardinality(f[n - 1].left) # 0
        BY <1>1, <2>1, <4>2
      <4> QED
        BY <4>1, <4>3, Zenon DEF Going
    <3>4. RoundOk(r, text, given, secretArgs) /\ Going(r)
      BY <3>1, <3>2, <3>3
    <3>5. RedactRound(r, given, secretArgs) \in R
      BY <1>3, <3>4
    <3> QED
      BY <3>3, <3>5
  <2>4. f[n] = RedactRound(f[n - 1], given, secretArgs)
    <3> HIDE DEF N
    <3> QED
      BY <1>9, <1>10, <2>3 DEF next
  <2> QED
    BY <2>2, <2>4
<1>11. Ok(0)
  <2>1. f[0] = base
    BY <1>1, <1>9
  <2>2. base.left = P /\ Cardinality(P) - 0 = Cardinality(P)
    BY <1>1 DEF base
  <2> QED
    BY <1>2, <2>1, <2>2 DEF RoundsOk
<1>12. Bad = {}
  <2>1. ASSUME NEW n \in Bad PROVE \E c \in Bad : depth[c] < depth[n]
    <3>1. n \in N /\ n # 0 /\ ~Ok(n)
      BY <1>11
    <3>2. n - 1 \in N /\ depth[n - 1] < depth[n]
      BY <1>1, <3>1
    <3> QED
      BY <1>10, <3>1, <3>2
  <2>2. Bad \subseteq N /\ \A n \in N : depth[n] \in Nat
    BY <1>1
  <2> HIDE DEF Bad, depth, N
  <2> QED
    BY <2>1, <2>2, NoneBad
<1>13. ASSUME NEW n \in N, n # 0 PROVE f[n] = RedactRound(f[n - 1], given, secretArgs)
  <2>1. n - 1 \in N
    BY <1>1, <1>13
  <2> QED
    BY <1>10, <1>12, <1>13, <2>1
<1>14. f = [n \in N |-> IF n = 0 THEN base ELSE RedactRound(f[n - 1], given, secretArgs)]
  <2> HIDE DEF N
  <2> QED
    BY <1>8, <1>9, <1>13
<1> QED
  BY <1>14 DEF IsRounds, base

LEMMA RoundsUnfold ==
  ASSUME NEW given, NEW secretArgs, NEW text,
         Redactable(given, secretArgs), text \in Seq(Symbols)
  PROVE  \E round :
           /\ IsRounds(round, text, given, secretArgs)
           /\ RedactAll(text, given, secretArgs)
                = round[Cardinality(PresentSecrets(given, secretArgs))]
<1> DEFINE round == CHOOSE f : IsRounds(f, text, given, secretArgs)
<1>1. IsRounds(round, text, given, secretArgs)
  BY RoundsExist
<1>2. RedactAll(text, given, secretArgs) = round[Cardinality(PresentSecrets(given, secretArgs))]
  BY DEF RedactAll, IsRounds
<1> QED
  BY <1>1, <1>2

\* View v of a command shows no secret, lists the longest one, and hides nothing else.
Hides(whole, given, secretArgs, v) ==
  LET secrets == PresentSecrets(given, secretArgs)
      text(i) == SecretText(given, secretArgs, i)
  IN  /\ \A i \in secrets :
           /\ ~Occurs(text(i), v.preview)
           /\ (/\ Occurs(text(i), whole)
               /\ \A j \in secrets \ {i} : Len(text(j)) < Len(text(i)))
              => secretArgs[i] \in ToSet(v.fields)
      /\ (\A i \in secrets : ~Occurs(text(i), whole)) => v.preview = whole

\* For all commands and arguments whose values have texts (String of a value that is not a
\* string, whatever it is): redactCommand lists each field once, and those whose placeholder
\* the preview holds; no text of a secret argument is left in the preview; the longest one of
\* a command is listed; a command without any is shown as it is; and the true texts, typed
\* for at least those fields, restore the command (redaction.ts redactCommand,
\* restoreCommand).
THEOREM RedactionReversible ==
  ASSUME NEW given, NEW secretArgs, NEW text, NEW v,
         Redactable(given, secretArgs), text \in Seq(Symbols), v = RedactCommand(text, given, secretArgs)
  PROVE  /\ v.fields \in Seq(Names) /\ IsInjective(v.fields)
         /\ \A f \in ToSet(v.fields) : TextOf(given[f]) # <<>>
         /\ ToSet(v.fields) = {k \in Names : Placeholder(k) \in ToSet(v.preview)}
         /\ Hides(text, given, secretArgs, v)
         /\ \A F \in SUBSET Names : ToSet(v.fields) \subseteq F =>
              RestoreCommand(v.preview, Truly(given, F)) = text
<1> DEFINE P == PresentSecrets(given, secretArgs)
           N == 0..Cardinality(P)
           depth == [n \in N |-> n]
<1>1. Cardinality(P) \in Nat /\ IsFiniteSet(P)
  <2>1. IsFiniteSet(P)
    BY SecretFacts
  <2> HIDE DEF P
  <2> QED
    BY <2>1, FS_CardinalityType
<1>2. PICK round : /\ IsRounds(round, text, given, secretArgs)
                   /\ RedactAll(text, given, secretArgs) = round[Cardinality(P)]
  BY RoundsUnfold
<1>3. \A n \in N : round[n] = IF n = 0 THEN [left |-> P, preview |-> text, fields |-> <<>>]
                                      ELSE RedactRound(round[n - 1], given, secretArgs)
  BY <1>2 DEF IsRounds
<1> DEFINE Ok(n) == RoundsOk(round[n], n, text, given, secretArgs)
           Bad == {n \in N : ~Ok(n)}
<1>4. Ok(0)
  <2>1. round[0] = [left |-> P, preview |-> text, fields |-> <<>>]
    BY <1>1, <1>3
  <2>2. RoundOk(round[0], text, given, secretArgs)
    BY <2>1, FirstRound
  <2>3. round[0].left = P /\ Cardinality(P) - 0 = Cardinality(P)
    BY <1>1, <2>1
  <2> QED
    BY <2>2, <2>3 DEF RoundsOk
<1>5. ASSUME NEW n \in N, n # 0, Ok(n - 1) PROVE Ok(n)
  <2>1. n - 1 \in Nat /\ (n - 1) + 1 = n
    BY <1>1, <1>5
  <2>2. (n - 1) + 1 <= Cardinality(PresentSecrets(given, secretArgs))
    BY <1>1
  <2>3. RoundsOk(round[n - 1], n - 1, text, given, secretArgs)
    BY <1>5
  <2>4. RoundsOk(RedactRound(round[n - 1], given, secretArgs), (n - 1) + 1, text, given, secretArgs)
    BY <2>1, <2>2, <2>3, RoundsStep
  <2>5. round[n] = RedactRound(round[n - 1], given, secretArgs)
    <3> HIDE DEF N
    <3> QED
      BY <1>3, <1>5
  <2> QED
    BY <2>1, <2>4, <2>5
<1>6. Bad = {}
  <2>1. ASSUME NEW n \in Bad PROVE \E c \in Bad : depth[c] < depth[n]
    <3>1. n \in N /\ n # 0 /\ ~Ok(n)
      BY <1>4
    <3>2. n - 1 \in N /\ depth[n - 1] < depth[n]
      BY <1>1, <3>1
    <3> QED
      BY <1>5, <3>1, <3>2
  <2>2. Bad \subseteq N /\ \A n \in N : depth[n] \in Nat
    BY <1>1
  <2> HIDE DEF Bad, depth, N
  <2> QED
    BY <2>1, <2>2, NoneBad
<1> DEFINE last == round[Cardinality(P)]
<1>7. Ok(Cardinality(P))
  BY <1>1, <1>6
<1>8. RoundOk(last, text, given, secretArgs) /\ last.left = {}
  <2>1. RoundOk(last, text, given, secretArgs) /\ Cardinality(last.left) = 0
    BY <1>1, <1>7 DEF RoundsOk
  <2>2. last.left \subseteq P
    BY <2>1 DEF RoundOk
  <2>3. IsFiniteSet(last.left)
    <3> HIDE DEF P
    <3> QED
      BY <1>1, <2>2, FS_Subset
  <2> QED
    BY <2>1, <2>3, FS_EmptySet
<1>9. v.preview = last.preview /\ v.fields = last.fields
  BY <1>2 DEF RedactCommand
<1> HIDE DEF last
<1>10. ASSUME NEW f \in ToSet(v.fields) PROVE TextOf(given[f]) # <<>>
  <2>1. PICK T : T = {secretArgs[i] : i \in P \ last.left} /\ last.fields \in Seq(T)
    BY <1>8 DEF RoundOk
  <2>2. f \in T
    BY <1>9, <2>1, ElementsOfSeq
  <2>3. PICK i \in P : f = secretArgs[i]
    BY <2>1, <2>2
  <2> QED
    BY <2>3 DEF PresentSecrets, SecretText
<1>11. /\ v.fields \in Seq(Names) /\ IsInjective(v.fields)
       /\ ToSet(v.fields) = {k \in Names : Placeholder(k) \in ToSet(v.preview)}
       /\ \A F \in SUBSET Names : ToSet(v.fields) \subseteq F =>
            RestoreCommand(v.preview, Truly(given, F)) = text
  BY <1>8, <1>9 DEF RoundOk
<1>12. Hides(text, given, secretArgs, v)
  BY <1>8, <1>9 DEF RoundOk, Hides
<1> QED
  BY <1>10, <1>11, <1>12

-----------------------------------------------------------------------------
(* Values *)

IsValuesTo(f, n) ==
  f = [k \in 0..n |-> IF k = 0 THEN Scalars ELSE f[k - 1] \cup Composites(f[k - 1])]

LEMMA ValuesExist == \E f : IsValuesTo(f, MaxDepth)
<1> DEFINE Bad == {n \in Nat : ~ \E f : IsValuesTo(f, n)}
           id == [n \in Nat |-> n]
<1>1. MaxDepth \in Nat
  BY SchemaAssumption
<1>2. ASSUME NEW n \in Bad PROVE \E k \in Bad : id[k] < id[n]
  <2>1. n # 0
    <3>1. IsValuesTo([k \in 0..0 |-> Scalars], 0)
      BY DEF IsValuesTo
    <3> QED
      BY <3>1
  <2> SUFFICES ASSUME n - 1 \notin Bad PROVE FALSE
    BY <2>1
  <2>2. PICK m \in Nat : m = n - 1 /\ n = m + 1
    BY <2>1
  <2>3. PICK g : IsValuesTo(g, m)
    BY <2>2
  <2> DEFINE f == [k \in 0..n |-> IF k = n THEN g[m] \cup Composites(g[m]) ELSE g[k]]
  <2>4. ASSUME NEW k \in 0..n
        PROVE  f[k] = IF k = 0 THEN Scalars ELSE f[k - 1] \cup Composites(f[k - 1])
    <3>1. \A h \in 0..m : g[h] = IF h = 0 THEN Scalars ELSE g[h - 1] \cup Composites(g[h - 1])
      BY <2>3 DEF IsValuesTo
    <3>2. \A h \in 0..m : f[h] = g[h]
      BY <2>2
    <3>3. f[n] = g[m] \cup Composites(g[m]) /\ m \in 0..m
      BY <2>2
    <3>4. k = n \/ k \in 0..m
      BY <2>2
    <3>5. k # 0 => k - 1 \in 0..m
      BY <2>2
    <3> HIDE DEF f
    <3>6. CASE k = n
      <4>1. k # 0 /\ k - 1 = m
        BY <2>2, <3>6
      <4>2. f[k] = g[m] \cup Composites(g[m])
        BY <3>3, <3>6
      <4>3. f[m] = g[m]
        BY <3>2, <3>3
      <4> QED
        BY <4>1, <4>2, <4>3
    <3>7. CASE k \in 0..m
      <4>1. k # 0 => f[k - 1] = g[k - 1]
        BY <3>2, <3>5
      <4> QED
        BY <3>1, <3>2, <3>7, <4>1
    <3> QED
      BY <3>4, <3>6, <3>7
  <2>5. f = [k \in 0..n |-> IF k = 0 THEN Scalars ELSE f[k - 1] \cup Composites(f[k - 1])]
    <3>1. f = [k \in 0..n |-> f[k]]
      OBVIOUS
    <3> HIDE DEF f
    <3> QED
      BY <2>4, <3>1
  <2>6. IsValuesTo(f, n)
    <3> HIDE DEF f
    <3> QED
      BY <2>5 DEF IsValuesTo
  <2> QED
    BY <2>6
<1>3. Bad \subseteq Nat /\ \A n \in Nat : id[n] \in Nat
  OBVIOUS
<1>4. Bad = {}
  <2> HIDE DEF Bad, id
  <2> QED
    BY <1>2, <1>3, NoneBad
<1> QED
  BY <1>1, <1>4

LEMMA CompositesGrow ==
  ASSUME NEW P, NEW Q, P \subseteq Q
  PROVE  Composites(P) \subseteq Composites(Q)
<1>1. \A s \in Seq(P) : s \in Seq(Q)
  BY SeqMonotonic
<1>2. \A f \in [Names -> P] : f \in [Names -> Q]
  OBVIOUS
<1> QED
  BY <1>1, <1>2 DEF Composites

\* A value at some level, and what it is made of.
LEMMA ValuesUnfold ==
  /\ \A n \in 0..MaxDepth :
       ValuesTo[n] = IF n = 0 THEN Scalars ELSE ValuesTo[n - 1] \cup Composites(ValuesTo[n - 1])
  /\ \A n \in 0..MaxDepth : n # 0 => n - 1 \in 0..MaxDepth
  /\ MaxDepth \in 0..MaxDepth /\ MaxDepth - 1 \in 0..MaxDepth /\ MaxDepth # 0
<1>1. MaxDepth \in Nat \ {0}
  BY SchemaAssumption
<1>2. IsValuesTo(ValuesTo, MaxDepth)
  <2>1. ValuesTo = CHOOSE f : IsValuesTo(f, MaxDepth)
    BY DEF ValuesTo, IsValuesTo
  <2> QED
    BY <2>1, ValuesExist
<1>3. \A n \in 0..MaxDepth :
        ValuesTo[n] = IF n = 0 THEN Scalars ELSE ValuesTo[n - 1] \cup Composites(ValuesTo[n - 1])
  BY <1>2 DEF IsValuesTo
<1>4. /\ \A n \in 0..MaxDepth : n # 0 => n - 1 \in 0..MaxDepth
      /\ MaxDepth \in 0..MaxDepth /\ MaxDepth - 1 \in 0..MaxDepth /\ MaxDepth # 0
  BY <1>1
<1> QED
  BY <1>3, <1>4

\* The parts of a composite value are one level below it.
IsAt(v, n) ==
  \/ v \in Scalars
  \/ n # 0 /\ v \in Composites(ValuesTo[n - 1])

LEMMA ValueLevels ==
  \A n \in 0..MaxDepth :
    /\ Scalars \subseteq ValuesTo[n]
    /\ \A m \in 0..n : ValuesTo[m] \subseteq ValuesTo[n]
    /\ \A v \in ValuesTo[n] : IsAt(v, n)
    /\ \A v : IsAt(v, n) => v \in ValuesTo[n]
<1> DEFINE N == 0..MaxDepth
           Ok(n) == /\ Scalars \subseteq ValuesTo[n]
                    /\ \A m \in 0..n : ValuesTo[m] \subseteq ValuesTo[n]
                    /\ \A v \in ValuesTo[n] : IsAt(v, n)
           Bad == {n \in N : ~Ok(n)}
           depth == [n \in N |-> n]
<1>0. MaxDepth \in Nat
  BY SchemaAssumption
<1>1. ASSUME NEW n \in N, \A c \in N : c < n => Ok(c) PROVE Ok(n)
  <2>1. CASE n = 0
    <3>1. ValuesTo[n] = Scalars
      BY <2>1, ValuesUnfold
    <3>2. \A m \in 0..n : m = n
      BY <2>1
    <3> QED
      BY <3>1, <3>2 DEF IsAt
  <2>2. CASE n # 0
    <3>1. PICK k \in N : k = n - 1 /\ k < n
      BY <1>0, <2>2
    <3>2. ValuesTo[n] = ValuesTo[k] \cup Composites(ValuesTo[k])
      BY <2>2, <3>1, ValuesUnfold
    <3>3. Ok(k)
      BY <1>1, <3>1
    <3>4. \A m \in 0..n : m = n \/ m \in 0..k
      BY <1>0, <3>1
    <3>5. \A m \in 0..n : ValuesTo[m] \subseteq ValuesTo[n]
      BY <3>2, <3>3, <3>4
    <3>6. ASSUME NEW v \in ValuesTo[n] PROVE IsAt(v, n)
      <4>1. CASE v \in Composites(ValuesTo[k])
        BY <2>2, <3>1, <4>1 DEF IsAt
      <4>2. CASE v \in ValuesTo[k]
        <5>1. IsAt(v, k)
          BY <3>3, <4>2
        <5>2. CASE v \in Scalars
          BY <5>2 DEF IsAt
        <5>3. CASE k # 0 /\ v \in Composites(ValuesTo[k - 1])
          <6>1. k - 1 \in 0..k
            BY <1>0, <5>3
          <6>2. ValuesTo[k - 1] \subseteq ValuesTo[k]
            BY <3>3, <6>1
          <6>3. Composites(ValuesTo[k - 1]) \subseteq Composites(ValuesTo[k])
            BY <6>2, CompositesGrow
          <6> QED
            BY <2>2, <3>1, <5>3, <6>3 DEF IsAt
        <5> QED
          BY <5>1, <5>2, <5>3 DEF IsAt
      <4> QED
        BY <3>2, <4>1, <4>2
    <3> QED
      BY <3>2, <3>3, <3>5, <3>6
  <2> QED
    BY <2>1, <2>2
<1>2. \A n \in Bad : \E c \in Bad : depth[c] < depth[n]
  <2> SUFFICES ASSUME NEW n \in N, ~Ok(n) PROVE \E c \in N : c < n /\ ~Ok(c)
    OBVIOUS
  <2> HIDE DEF Ok
  <2> QED
    BY <1>1
<1>3. Bad \subseteq N /\ \A n \in N : depth[n] \in Nat
  BY <1>0
<1>4. Bad = {}
  <2> HIDE DEF Bad, depth, N
  <2> QED
    BY <1>2, <1>3, NoneBad
<1>5. ASSUME NEW n \in N, NEW v, IsAt(v, n) PROVE v \in ValuesTo[n]
  <2>1. Ok(n)
    BY <1>4
  <2>2. n # 0 => ValuesTo[n] = ValuesTo[n - 1] \cup Composites(ValuesTo[n - 1])
    BY ValuesUnfold
  <2> QED
    BY <1>5, <2>1, <2>2 DEF IsAt
<1> QED
  BY <1>4, <1>5

Level == 0..MaxDepth

LEMMA ScalarCases ==
  ASSUME NEW v \in Scalars
  PROVE  /\ v.t \in {"undefined", "string", "number", "boolean"}
         /\ v.t = "undefined" => v = Undefined
         /\ v.t = "string" => v.str \in Seq(Symbols) /\ v = Str(v.str)
         /\ v.t = "number" => v.num \in Int
BY DEF Scalars, Undefined, Str

LEMMA ValueCases ==
  ASSUME NEW n \in Level, NEW v \in ValuesTo[n]
  PROVE  /\ v \in Scalars \/ v.t = "array" \/ v.t = "object"
         /\ v.t = "undefined" => v = Undefined
         /\ v.t = "string" => v.str \in Seq(Symbols) /\ v = Str(v.str)
         /\ v.t = "number" => v.num \in Int
         /\ v.t = "array" => /\ n # 0 /\ n - 1 \in Level /\ v.items \in Seq(ValuesTo[n - 1])
                             /\ v = Arr(v.items)
         /\ v.t = "object" => /\ n # 0 /\ n - 1 \in Level
                              /\ v.fields \in [Names -> ValuesTo[n - 1]]
                              /\ v = [t |-> "object", fields |-> v.fields]
<1>1. IsAt(v, n)
  BY ValueLevels DEF Level
<1>2. CASE v \in Scalars
  BY <1>2, ScalarCases
<1>3. CASE n # 0 /\ v \in Composites(ValuesTo[n - 1])
  <2>1. n - 1 \in Level
    BY <1>3, ValuesUnfold DEF Level
  <2>2. CASE v \in [t : {"array"}, items : Seq(ValuesTo[n - 1])]
    BY <1>3, <2>1, <2>2 DEF Arr
  <2>3. CASE v \in [t : {"object"}, fields : [Names -> ValuesTo[n - 1]]]
    BY <1>3, <2>1, <2>3
  <2> QED
    BY <1>3, <2>2, <2>3 DEF Composites
<1> QED
  BY <1>1, <1>2, <1>3 DEF IsAt

LEMMA MakeValue ==
  ASSUME NEW n \in Level, n # 0
  PROVE  /\ n - 1 \in Level
         /\ ValuesTo[n - 1] \subseteq ValuesTo[n]
         /\ \A s \in Seq(ValuesTo[n - 1]) : Arr(s) \in ValuesTo[n]
         /\ \A f \in [Names -> ValuesTo[n - 1]] : [t |-> "object", fields |-> f] \in ValuesTo[n]
<1>1. n - 1 \in Level /\ n - 1 \in 0..n
  BY ValuesUnfold, SchemaAssumption DEF Level
<1>2. \A v \in Composites(ValuesTo[n - 1]) : v \in ValuesTo[n]
  BY ValueLevels DEF Level, IsAt
<1>3. \A s \in Seq(ValuesTo[n - 1]) : Arr(s) \in Composites(ValuesTo[n - 1])
  BY DEF Arr, Composites
<1>4. \A f \in [Names -> ValuesTo[n - 1]] :
        [t |-> "object", fields |-> f] \in Composites(ValuesTo[n - 1])
  BY DEF Composites
<1>5. ValuesTo[n - 1] \subseteq ValuesTo[n]
  BY <1>1, ValueLevels DEF Level
<1> QED
  BY <1>1, <1>2, <1>3, <1>4, <1>5

LEMMA UndefinedIsValue ==
  ASSUME NEW n \in Level
  PROVE  Undefined \in ValuesTo[n] /\ ValuesTo[n] \subseteq Values
<1>1. n \in 0..MaxDepth
  BY SchemaAssumption DEF Level
<1>2. ValuesTo[n] \subseteq ValuesTo[MaxDepth] /\ Scalars \subseteq ValuesTo[n]
  BY <1>1, ValueLevels, ValuesUnfold
<1>3. Undefined \in Scalars
  BY DEF Scalars
<1> QED
  BY <1>2, <1>3 DEF Values

\* An object of values one level below is a value.
LEMMA ObjFacts ==
  ASSUME NEW n \in Level, NEW f, n # 0, DOMAIN f \subseteq Names,
         \A k \in DOMAIN f : f[k] \in ValuesTo[n - 1]
  PROVE  /\ Obj(f) \in ValuesTo[n] /\ Obj(f).t = "object"
         /\ Obj(f).fields \in [Names -> ValuesTo[n - 1]]
         /\ \A k \in Names : Obj(f).fields[k] = IF k \in DOMAIN f THEN f[k] ELSE Undefined
<1> DEFINE g == [k \in Names |-> IF k \in DOMAIN f THEN f[k] ELSE Undefined]
<1>1. n - 1 \in Level
  BY MakeValue
<1>2. Undefined \in ValuesTo[n - 1]
  BY <1>1, UndefinedIsValue
<1>3. g \in [Names -> ValuesTo[n - 1]]
  BY <1>2
<1>4. Obj(f) = [t |-> "object", fields |-> g]
  BY DEF Obj
<1>5. Obj(f) \in ValuesTo[n]
  <2> HIDE DEF g
  <2> QED
    BY <1>3, <1>4, MakeValue
<1>6. Obj(f).t = "object" /\ Obj(f).fields = g
  <2> HIDE DEF g
  <2> QED
    BY <1>4
<1>7. \A k \in Names : g[k] = IF k \in DOMAIN f THEN f[k] ELSE Undefined
  OBVIOUS
<1> HIDE DEF g
<1> QED
  BY <1>3, <1>5, <1>6, <1>7

-----------------------------------------------------------------------------
(* Schemas *)

\* What the assumptions on schemas say of one.
LEMMA SchemaFacts ==
  ASSUME NEW s \in Nodes
  PROVE  /\ WellTyped(s) /\ Coherent(s) /\ Depth[s] \in Nat
         /\ \A sub \in SubSchemas(s) : sub \in Nodes /\ Depth[sub] < Depth[s]
<1>1. WellTyped(s) /\ Coherent(s) /\ Depth[s] \in Nat
      /\ \A sub \in SubSchemas(s) : Depth[sub] < Depth[s]
  BY SchemaAssumption
<1>2. ASSUME NEW sub \in SubSchemas(s) PROVE sub \in Nodes
  <2>1. CASE \E p \in ToSet(Properties(s)) : sub = p.schema
    <3>1. Properties(s) \in Seq([key : Names, schema : Nodes])
      BY <1>1 DEF WellTyped
    <3>2. ToSet(Properties(s)) \subseteq [key : Names, schema : Nodes]
      BY <3>1, ElementsOfSeq
    <3> QED
      BY <2>1, <3>2
  <2>2. CASE Has(s, "oneOf") /\ sub \in ToSet(s.oneOf)
    BY <1>1, <2>2 DEF WellTyped, ToSet
  <2>3. CASE Has(s, "items") /\ sub = s.items
    BY <1>1, <2>3 DEF WellTyped
  <2> QED
    BY <2>1, <2>2, <2>3 DEF SubSchemas
<1> QED
  BY <1>1, <1>2

\* The schema of a property is one of those inside.
LEMMA PropertyFacts ==
  ASSUME NEW s \in Nodes
  PROVE  /\ Keys(s) \subseteq Names
         /\ \A k \in Keys(s) : /\ Property(s, k) \in SubSchemas(s)
                               /\ \E p \in ToSet(Properties(s)) : p.schema = Property(s, k)
                               /\ Property(s, k) \in Nodes
         /\ \A p \in ToSet(Properties(s)) :
              p.key \in Keys(s) /\ Property(s, p.key) = p.schema /\ p.schema \in Nodes
<1>1. /\ Properties(s) \in Seq([key : Names, schema : Nodes])
      /\ \A i, j \in DOMAIN Properties(s) : Properties(s)[i].key = Properties(s)[j].key => i = j
  BY SchemaFacts DEF WellTyped
<1>2. ToSet(Properties(s)) \subseteq [key : Names, schema : Nodes]
  BY <1>1, ElementsOfSeq
<1>3. Keys(s) \subseteq Names
  BY <1>2 DEF Keys
<1>4. ASSUME NEW k \in Keys(s)
      PROVE  /\ \E p \in ToSet(Properties(s)) : p.schema = Property(s, k)
             /\ Property(s, k) \in SubSchemas(s) /\ Property(s, k) \in Nodes
  <2>1. \E p \in ToSet(Properties(s)) : p.key = k
    BY DEF Keys
  <2>2. PICK p \in ToSet(Properties(s)) :
          p = CHOOSE q \in ToSet(Properties(s)) : q.key = k
    BY <2>1
  <2>3. p.schema = Property(s, k)
    BY <2>2 DEF Property
  <2> QED
    BY <1>2, <2>3 DEF SubSchemas
<1>5. ASSUME NEW p \in ToSet(Properties(s))
      PROVE  p.key \in Keys(s) /\ Property(s, p.key) = p.schema /\ p.schema \in Nodes
  <2>1. p.key \in Keys(s)
    BY DEF Keys
  <2>2. PICK q \in ToSet(Properties(s)) :
          q = (CHOOSE r \in ToSet(Properties(s)) : r.key = p.key) /\ q.key = p.key
    BY Zenon
  <2>3. p = q
    <3>1. PICK i \in DOMAIN Properties(s) : Properties(s)[i] = p
      BY DEF ToSet
    <3>2. PICK j \in DOMAIN Properties(s) : Properties(s)[j] = q
      BY DEF ToSet
    <3> QED
      BY <1>1, <2>2, <3>1, <3>2
  <2>4. Property(s, p.key) = q.schema
    BY <2>2 DEF Property
  <2> QED
    BY <1>2, <2>1, <2>3, <2>4
<1> QED
  BY <1>3, <1>4, <1>5

-----------------------------------------------------------------------------
(* Validators *)

\* What a union makes of a value is what one of its options does.
LEMMA UnionFacts ==
  ASSUME NEW results, DOMAIN results \subseteq Nat
  PROVE  /\ \A r \in ZUnion(results) : \E i \in DOMAIN results : r \in results[i]
         /\ \A i \in DOMAIN results : results[i] # {} => ZUnion(results) # {}
<1> DEFINE accepting == {i \in DOMAIN results : results[i] # {}}
<1>1. CASE accepting = {}
  <2>1. ZUnion(results) = {}
    BY <1>1 DEF ZUnion
  <2> QED
    BY <1>1, <2>1
<1>2. CASE accepting # {}
  <2>1. accepting \subseteq Nat
    OBVIOUS
  <2>2. PICK m : m = Min(accepting)
    OBVIOUS
  <2>3. m \in accepting
    <3>1. \E n \in accepting : \A k \in accepting : n <= k
      <4> HIDE DEF accepting
      <4> QED
        BY <1>2, <2>1, LeastNatural
    <3>2. Min(accepting) = CHOOSE x \in accepting : \A y \in accepting : x <= y
      BY DEF Min
    <3> HIDE DEF accepting
    <3> QED
      BY <2>2, <3>1, <3>2
  <2>4. ZUnion(results) = results[m]
    BY <1>2, <2>2 DEF ZUnion
  <2> QED
    BY <2>3, <2>4
<1> QED
  BY <1>1, <1>2

\* The options of a field are numbered.
IsField(field) == DOMAIN field.types \subseteq Nat

LEMMA FieldFacts ==
  ASSUME NEW parse, NEW field, NEW w, IsField(field)
  PROVE  /\ \A r \in ParseField(parse, field, w) :
              \E i \in DOMAIN field.types : r \in parse[<<field.types[i], w>>]
         /\ \A i \in DOMAIN field.types :
              parse[<<field.types[i], w>>] # {} => ParseField(parse, field, w) # {}
<1> DEFINE results == [i \in DOMAIN field.types |-> parse[<<field.types[i], w>>]]
<1>1. DOMAIN results \subseteq Nat
  BY DEF IsField
<1>2. \A i \in DOMAIN field.types :
        i \in DOMAIN results /\ results[i] = parse[<<field.types[i], w>>]
  OBVIOUS
<1>3. ParseField(parse, field, w) = ZUnion(results) /\ DOMAIN results = DOMAIN field.types
  BY DEF ParseField
<1> HIDE DEF results
<1>4. /\ \A r \in ZUnion(results) : \E i \in DOMAIN results : r \in results[i]
      /\ \A i \in DOMAIN results : results[i] # {} => ZUnion(results) # {}
  BY <1>1, UnionFacts
<1> QED
  BY <1>2, <1>3, <1>4

\* A shape: fields by name.
IsShape(shape) == DOMAIN shape \subseteq Names /\ \A k \in DOMAIN shape : IsField(shape[k])

\* What a shape makes of the fields of an object.
ShapeMakes(parse, shape, strict, fields, made) ==
  /\ \A k \in Names :
       made[k] \in IF k \in Given(fields) \cap DOMAIN shape
                   THEN ParseField(parse, shape[k], fields[k]) ELSE {Undefined}
  /\ \A k \in DOMAIN shape : k \in Given(fields) \/ shape[k].optional
  /\ strict => Given(fields) \subseteq DOMAIN shape

\* The fields do not make a value deeper.
NoDeeper(parse, shape, n) ==
  \A k \in DOMAIN shape, w \in Values :
    w \in ValuesTo[n - 1] => ParseField(parse, shape[k], w) \subseteq ValuesTo[n - 1]

LEMMA ShapeFacts ==
  ASSUME NEW parse, NEW shape, NEW strict, NEW n \in Level, NEW v \in ValuesTo[n],
         NEW r, IsShape(shape), r \in ParseShape(parse, shape, strict, v),
         NoDeeper(parse, shape, n)
  PROVE  /\ v.t = "object" /\ n # 0 /\ n - 1 \in Level
         /\ v.fields \in [Names -> ValuesTo[n - 1]]
         /\ r \in ValuesTo[n] /\ r.t = "object" /\ r.fields \in [Names -> ValuesTo[n - 1]]
         /\ ShapeMakes(parse, shape, strict, v.fields, r.fields)
<1>1. v.t = "object"
  BY DEF ParseShape
<1>2. n # 0 /\ n - 1 \in Level /\ v.fields \in [Names -> ValuesTo[n - 1]]
  BY <1>1, ValueCases
<1> DEFINE given == Given(v.fields)
           results == [k \in given \cap DOMAIN shape |->
                         ParseField(parse, shape[k], v.fields[k])]
           made == [k \in DOMAIN results |-> CHOOSE x \in results[k] : TRUE]
<1>3. r \in ZObject(results, shape, strict, given)
  BY <1>1 DEF ParseShape
<1>4. given \subseteq Names /\ DOMAIN results = given \cap DOMAIN shape
  BY DEF Given
<1>5. \A k \in given \cap DOMAIN shape : results[k] = ParseField(parse, shape[k], v.fields[k])
  OBVIOUS
<1> HIDE DEF results, given
<1>6. /\ \A k \in DOMAIN results : results[k] # {}
      /\ \A k \in DOMAIN shape \ given : shape[k].optional
      /\ strict => given \subseteq DOMAIN shape
      /\ r = Obj(made)
  BY <1>3 DEF ZObject
<1>7. DOMAIN made = DOMAIN results /\ \A k \in DOMAIN results : made[k] \in results[k]
  BY <1>6
<1> HIDE DEF made
<1>8. \A k \in DOMAIN made : /\ k \in Names /\ k \in given \cap DOMAIN shape
                             /\ made[k] \in ParseField(parse, shape[k], v.fields[k])
  BY <1>4, <1>5, <1>7
<1>9. ASSUME NEW k \in DOMAIN made PROVE made[k] \in ValuesTo[n - 1]
  <2>1. v.fields[k] \in ValuesTo[n - 1]
    BY <1>2, <1>8
  <2>2. v.fields[k] \in Values
    BY <1>2, <2>1, UndefinedIsValue
  <2> QED
    BY <1>8, <2>1, <2>2 DEF NoDeeper
<1>10. /\ Obj(made) \in ValuesTo[n] /\ Obj(made).t = "object"
       /\ Obj(made).fields \in [Names -> ValuesTo[n - 1]]
       /\ \A k \in Names : Obj(made).fields[k] = IF k \in DOMAIN made THEN made[k] ELSE Undefined
  BY <1>2, <1>8, <1>9, ObjFacts
<1>11. ASSUME NEW k \in Names
       PROVE  r.fields[k] \in IF k \in given \cap DOMAIN shape
                              THEN ParseField(parse, shape[k], v.fields[k]) ELSE {Undefined}
  <2>1. CASE k \in DOMAIN made
    BY <1>6, <1>8, <1>10, <2>1
  <2>2. CASE k \notin DOMAIN made
    <3>1. k \notin given \cap DOMAIN shape
      BY <1>4, <1>7, <2>2
    <3> QED
      BY <1>6, <1>10, <2>2, <3>1
  <2> QED
    BY <2>1, <2>2
<1>12. ShapeMakes(parse, shape, strict, v.fields, r.fields)
  BY <1>6, <1>11 DEF ShapeMakes, given
<1> QED
  BY <1>1, <1>2, <1>6, <1>10, <1>12

\* The fields are declared, those that are required are there, and all stay as they are.
Fills(shape, fields) ==
  /\ Given(fields) \subseteq DOMAIN shape
  /\ \A k \in DOMAIN shape : k \in Given(fields) \/ shape[k].optional
FieldsKeep(parse, shape, fields) ==
  \A k \in Given(fields) : ParseField(parse, shape[k], fields[k]) = {fields[k]}

\* A shape that keeps every field keeps the object.
LEMMA ShapeKeeps ==
  ASSUME NEW parse, NEW shape, NEW strict, NEW n \in Level, NEW v \in ValuesTo[n],
         v.t = "object", IsShape(shape), Fills(shape, v.fields), FieldsKeep(parse, shape, v.fields)
  PROVE  ParseShape(parse, shape, strict, v) = {v}
<1>0. /\ Given(v.fields) \subseteq DOMAIN shape
      /\ \A k \in DOMAIN shape : k \in Given(v.fields) \/ shape[k].optional
      /\ \A k \in Given(v.fields) : ParseField(parse, shape[k], v.fields[k]) = {v.fields[k]}
  BY DEF Fills, FieldsKeep
<1>1. /\ n # 0 /\ n - 1 \in Level /\ v.fields \in [Names -> ValuesTo[n - 1]]
      /\ v = [t |-> "object", fields |-> v.fields]
  BY ValueCases
<1> DEFINE given == Given(v.fields)
           results == [k \in given \cap DOMAIN shape |->
                         ParseField(parse, shape[k], v.fields[k])]
           made == [k \in DOMAIN results |-> CHOOSE x \in results[k] : TRUE]
<1>2. ParseShape(parse, shape, strict, v) = ZObject(results, shape, strict, given)
  BY DEF ParseShape
<1>3. given \subseteq Names /\ DOMAIN results = given
  BY <1>0 DEF Given
<1>4. \A k \in given : results[k] = {v.fields[k]}
  BY <1>0, <1>3
<1>5. \A k \in Names \ given : v.fields[k] = Undefined
  BY DEF Given
<1> HIDE DEF results
<1>6. DOMAIN made = given /\ \A k \in given : made[k] = v.fields[k]
  BY <1>3, <1>4
<1>7. ZObject(results, shape, strict, given) = {Obj(made)}
  <2>1. \A k \in DOMAIN results : results[k] # {}
    BY <1>3, <1>4
  <2>2. \A k \in DOMAIN shape \ given : shape[k].optional
    BY <1>0
  <2>3. strict => given \subseteq DOMAIN shape
    BY <1>0
  <2> HIDE DEF given
  <2> QED
    BY <2>1, <2>2, <2>3 DEF ZObject
<1> HIDE DEF made, given
<1>8. Obj(made) = v
  <2> DEFINE g == [k \in Names |-> IF k \in DOMAIN made THEN made[k] ELSE Undefined]
  <2>1. Obj(made) = [t |-> "object", fields |-> g]
    BY DEF Obj
  <2>2. \A k \in Names : g[k] = v.fields[k]
    BY <1>5, <1>6
  <2>3. g = v.fields
    <3>1. DOMAIN g = Names /\ DOMAIN v.fields = Names
      BY <1>1
    <3>2. g = [k \in Names |-> g[k]] /\ v.fields = [k \in Names |-> v.fields[k]]
      BY <1>1
    <3> HIDE DEF g
    <3> QED
      BY <2>2, <3>2
  <2> HIDE DEF g
  <2> QED
    BY <1>1, <2>1, <2>3
<1> QED
  BY <1>2, <1>7, <1>8

\* What becomes of the items of an array.
ItemOf(parse, s, x) == IF Has(s, "items") THEN parse[<<s.items, x>>] ELSE {x}
ItemsMake(parse, s, items, made) ==
  /\ DOMAIN made = DOMAIN items
  /\ \A i \in DOMAIN items : made[i] \in ItemOf(parse, s, items[i])
  /\ Within(Len(items), s, "minItems", "maxItems")

\* The results are those of the items of array v.
ItemResults(parse, s, v, results) ==
  /\ ParseItems(parse, s, v) = ZArray(results, s)
  /\ DOMAIN results = DOMAIN v.items /\ Len(results) = Len(v.items)
  /\ \A i \in DOMAIN v.items : results[i] = ItemOf(parse, s, v.items[i])

LEMMA ItemsAre ==
  ASSUME NEW parse, NEW s, NEW n \in Level, NEW v \in ValuesTo[n], v.t = "array"
  PROVE  \E results : ItemResults(parse, s, v, results)
<1> DEFINE results == [i \in DOMAIN v.items |-> IF Has(s, "items")
                                                THEN parse[<<s.items, v.items[i]>>]
                                                ELSE {v.items[i]}]
<1>1. v.items \in Seq(ValuesTo[n - 1])
  BY ValueCases
<1>2. DOMAIN v.items = 1..Len(v.items) /\ Len(v.items) \in Nat
  BY <1>1
<1>3. ParseItems(parse, s, v) = ZArray(results, s)
  BY DEF ParseItems
<1>4. DOMAIN results = DOMAIN v.items
  OBVIOUS
<1>5. \A i \in DOMAIN v.items : results[i] = ItemOf(parse, s, v.items[i])
  BY DEF ItemOf
<1>6. Len(results) = Len(v.items)
  <2> DEFINE Q == {results[i] : i \in DOMAIN v.items}
  <2>1. results = [i \in 1..Len(v.items) |-> results[i]]
    BY <1>2
  <2>2. \A i \in 1..Len(v.items) : results[i] \in Q
    BY <1>2
  <2> HIDE DEF results, Q
  <2>3. results \in [1..Len(v.items) -> Q]
    BY <2>1, <2>2
  <2> QED
    BY <1>2, <2>3
<1> HIDE DEF results
<1>7. ItemResults(parse, s, v, results)
  BY <1>3, <1>4, <1>5, <1>6 DEF ItemResults
<1> QED
  BY <1>7

LEMMA ItemsFacts ==
  ASSUME NEW parse, NEW s, NEW n \in Level, NEW v \in ValuesTo[n], NEW r,
         r \in ParseItems(parse, s, v),
         \A w \in Values : w \in ValuesTo[n - 1] => ItemOf(parse, s, w) \subseteq ValuesTo[n - 1]
  PROVE  /\ v.t = "array" /\ n # 0 /\ n - 1 \in Level /\ v.items \in Seq(ValuesTo[n - 1])
         /\ r \in ValuesTo[n] /\ r.t = "array" /\ r.items \in Seq(ValuesTo[n - 1])
         /\ ItemsMake(parse, s, v.items, r.items) /\ Len(r.items) = Len(v.items)
<1>1. v.t = "array"
  BY DEF ParseItems
<1>2. n # 0 /\ n - 1 \in Level /\ v.items \in Seq(ValuesTo[n - 1])
  BY <1>1, ValueCases
<1>0. PICK results : ItemResults(parse, s, v, results)
  BY <1>1, ItemsAre
<1>3. /\ ParseItems(parse, s, v) = ZArray(results, s)
      /\ DOMAIN results = DOMAIN v.items /\ Len(results) = Len(v.items)
      /\ \A i \in DOMAIN v.items : results[i] = ItemOf(parse, s, v.items[i])
  BY <1>0 DEF ItemResults
<1>4. DOMAIN v.items = 1..Len(v.items) /\ Len(v.items) \in Nat
  BY <1>2
<1> DEFINE made == [i \in DOMAIN results |-> CHOOSE x \in results[i] : TRUE]
<1>5. /\ Within(Len(results), s, "minItems", "maxItems")
      /\ \A i \in DOMAIN results : results[i] # {}
      /\ r = Arr(made)
  BY <1>3 DEF ZArray
<1>6. DOMAIN made = DOMAIN v.items /\ \A i \in DOMAIN v.items : made[i] \in results[i]
  BY <1>3, <1>5
<1>7. made = [i \in 1..Len(v.items) |-> made[i]]
  BY <1>3, <1>4
<1> HIDE DEF made
<1>8. ASSUME NEW i \in DOMAIN v.items
      PROVE  made[i] \in ItemOf(parse, s, v.items[i]) /\ made[i] \in ValuesTo[n - 1]
  <2>1. made[i] \in ItemOf(parse, s, v.items[i])
    BY <1>3, <1>6
  <2>2. v.items[i] \in ValuesTo[n - 1]
    BY <1>2
  <2>3. v.items[i] \in Values
    BY <1>2, <2>2, UndefinedIsValue
  <2> QED
    BY <2>1, <2>2, <2>3
<1>9. made \in Seq(ValuesTo[n - 1]) /\ Len(made) = Len(v.items)
  <2>1. made \in [1..Len(v.items) -> ValuesTo[n - 1]]
    BY <1>4, <1>7, <1>8
  <2> QED
    BY <1>4, <2>1
<1>10. r.t = "array" /\ r.items = made
  BY <1>5 DEF Arr
<1>11. r \in ValuesTo[n]
  BY <1>2, <1>5, <1>9, MakeValue
<1>12. ItemsMake(parse, s, v.items, r.items)
  BY <1>3, <1>5, <1>6, <1>8, <1>10 DEF ItemsMake
<1> QED
  BY <1>1, <1>2, <1>9, <1>10, <1>11, <1>12

\* What becomes of each item is the item; then the array stays as it is.
ItemsAllKeep(parse, s, items) == \A i \in DOMAIN items : ItemOf(parse, s, items[i]) = {items[i]}

LEMMA ItemsKeep ==
  ASSUME NEW parse, NEW s, NEW n \in Level, NEW v \in ValuesTo[n], v.t = "array",
         Within(Len(v.items), s, "minItems", "maxItems"),
         ItemsAllKeep(parse, s, v.items)
  PROVE  ParseItems(parse, s, v) = {v}
<1>0. \A i \in DOMAIN v.items : ItemOf(parse, s, v.items[i]) = {v.items[i]}
  BY DEF ItemsAllKeep
<1>2. v.items \in Seq(ValuesTo[n - 1]) /\ v = Arr(v.items)
  BY ValueCases
<1>1. PICK results : ItemResults(parse, s, v, results)
  BY ItemsAre
<1>3. /\ ParseItems(parse, s, v) = ZArray(results, s)
      /\ DOMAIN results = DOMAIN v.items /\ Len(results) = Len(v.items)
      /\ \A i \in DOMAIN v.items : results[i] = {v.items[i]}
  BY <1>0, <1>1 DEF ItemResults
<1> DEFINE made == [i \in DOMAIN results |-> CHOOSE x \in results[i] : TRUE]
<1>4. \A i \in DOMAIN results : results[i] # {}
  BY <1>3
<1>5. ZArray(results, s) = {Arr(made)}
  BY <1>3, <1>4 DEF ZArray
<1>6. made = [i \in DOMAIN v.items |-> v.items[i]]
  BY <1>3
<1>7. made = v.items
  <2>1. v.items = [i \in DOMAIN v.items |-> v.items[i]]
    BY <1>2
  <2> HIDE DEF made
  <2> QED
    BY <1>6, <2>1
<1> QED
  BY <1>2, <1>3, <1>5, <1>7

-----------------------------------------------------------------------------
(* What a schema makes of a value *)

OptionsMake(parse, s, v) == [i \in DOMAIN s.oneOf |-> parse[<<s.oneOf[i], v>>]]

LEMMA Forms ==
  ASSUME NEW parse, NEW s, NEW v
  PROVE  /\ Form(s) = "const" => \A r : r \in ParseGiven(parse, s, v) <=> r = v /\ v = s.const
         /\ Form(s) = "enum" =>
              \A r : r \in ParseGiven(parse, s, v) <=> r = v /\ v \in ToSet(s.enum)
         /\ Form(s) = "oneOf" => ParseGiven(parse, s, v) = ZUnion(OptionsMake(parse, s, v))
         /\ Form(s) = "object" =>
              ParseGiven(parse, s, v) = ParseShape(parse, ConvertObjectShape(s), IsStrict(s), v)
         /\ Form(s) = "array" => ParseGiven(parse, s, v) = ParseItems(parse, s, v)
         /\ Form(s) \in {"string", "boolean"} =>
              \A r : r \in ParseGiven(parse, s, v) <=> r = v /\ v.t = Form(s)
         /\ Form(s) \in {"number", "integer"} =>
              \A r : r \in ParseGiven(parse, s, v) <=>
                /\ r = v /\ v.t = "number" /\ (Form(s) = "integer" => IsInteger(v.num))
                /\ Within(v.num, s, "minimum", "maximum")
         /\ Form(s) \notin ScalarTypes \cup {"const", "enum", "oneOf", "object", "array"} =>
              \A r : r \notin ParseGiven(parse, s, v)
<1> PICK form : form = Form(s)
  OBVIOUS
<1>1. CASE form = "const"
  BY <1>1 DEF ParseGiven, ScalarTypes, ZLiterals
<1>2. CASE form = "enum"
  BY <1>2 DEF ParseGiven, ScalarTypes, ZLiterals
<1>3. CASE form = "oneOf"
  BY <1>3 DEF ParseGiven, ScalarTypes, OptionsMake
<1>4. CASE form = "object"
  BY <1>4 DEF ParseGiven, ScalarTypes
<1>5. CASE form = "array"
  BY <1>5 DEF ParseGiven, ScalarTypes
<1>6. CASE form \in {"string", "boolean"}
  BY <1>6 DEF ParseGiven, ScalarTypes, ZType
<1>7. CASE form \in {"number", "integer"}
  BY <1>7 DEF ParseGiven, ScalarTypes, ZType, ZNumber
<1>8. CASE form \notin ScalarTypes \cup {"const", "enum", "oneOf", "object", "array"}
  BY <1>8 DEF ParseGiven, ScalarTypes
<1> QED
  BY <1>1, <1>2, <1>3, <1>4, <1>5, <1>6, <1>7, <1>8 DEF ScalarTypes

\* The keywords that go with each form.
LEMMA FormFacts ==
  ASSUME NEW s \in Nodes
  PROVE  /\ Form(s) = "const" =>
              Has(s, "const") /\ s.const \in Scalars \ {Undefined}
                /\ DOMAIN s \subseteq {"const", "type", "description"}
         /\ Form(s) = "enum" =>
              Has(s, "enum") /\ s.enum \in Seq(Scalars \ {Undefined})
                /\ DOMAIN s \subseteq {"enum", "type", "description"}
         /\ Form(s) = "oneOf" =>
              Has(s, "oneOf") /\ s.oneOf \in Seq(Nodes) /\ DOMAIN s \subseteq {"oneOf", "description"}
                /\ \A i \in DOMAIN s.oneOf : s.oneOf[i] \in SubSchemas(s)
         /\ Form(s) \notin {"const", "enum", "oneOf"} =>
              /\ ~Has(s, "const") /\ ~Has(s, "enum") /\ ~Has(s, "oneOf")
              /\ Form(s) = IF Has(s, "type") THEN s.type ELSE "missing"
         /\ Has(s, "oneOf") => Form(s) = "oneOf"
         /\ IsObject(s) => Form(s) = "object" \/ Form(s) = "oneOf"
<1>1. WellTyped(s) /\ Coherent(s)
  BY SchemaFacts
<1>2. Form(s) = IF Has(s, "const") THEN "const"
                ELSE IF Has(s, "enum") THEN "enum"
                ELSE IF Has(s, "oneOf") THEN "oneOf"
                ELSE IF Has(s, "type") THEN s.type ELSE "missing"
  BY DEF Form
<1>3. Has(s, "type") => s.type \notin {"const", "enum", "oneOf"}
  BY <1>1 DEF WellTyped
<1>4. CASE Has(s, "const")
  <2>1. Form(s) = "const" /\ DOMAIN s \subseteq {"const", "type", "description"}
    BY <1>1, <1>2, <1>4 DEF Coherent
  <2>2. s.const \in Scalars \ {Undefined}
    BY <1>1, <1>4 DEF WellTyped
  <2>3. ~Has(s, "oneOf")
    BY <2>1 DEF Has
  <2>4. ~IsObject(s)
    <3>1. s.const.t # "object"
      BY <2>2, ScalarCases
    <3> QED
      BY <1>1, <2>1, <3>1 DEF Coherent, IsObject, OfType
  <2> QED
    BY <1>4, <2>1, <2>2, <2>3, <2>4
<1>5. CASE ~Has(s, "const") /\ Has(s, "enum")
  <2>1. Form(s) = "enum" /\ DOMAIN s \subseteq {"enum", "type", "description"}
    BY <1>1, <1>2, <1>5 DEF Coherent
  <2>2. s.enum \in Seq(Scalars \ {Undefined})
    BY <1>1, <1>5 DEF WellTyped
  <2>3. ~Has(s, "oneOf")
    BY <2>1 DEF Has
  <2>4. ~IsObject(s)
    BY <1>1, <2>1 DEF Coherent, IsObject, ScalarTypes
  <2> QED
    BY <1>5, <2>1, <2>2, <2>3, <2>4
<1>6. CASE ~Has(s, "const") /\ ~Has(s, "enum") /\ Has(s, "oneOf")
  <2>1. Form(s) = "oneOf" /\ DOMAIN s \subseteq {"oneOf", "type", "description"} /\ ~Has(s, "type")
    BY <1>1, <1>2, <1>6 DEF Coherent
  <2>2. s.oneOf \in Seq(Nodes)
    BY <1>1, <1>6 DEF WellTyped
  <2>3. \A i \in DOMAIN s.oneOf : s.oneOf[i] \in SubSchemas(s)
    BY <1>6 DEF SubSchemas, ToSet
  <2>4. DOMAIN s \subseteq {"oneOf", "description"}
    BY <2>1 DEF Has
  <2> QED
    BY <1>6, <2>1, <2>2, <2>3, <2>4
<1>7. CASE ~Has(s, "const") /\ ~Has(s, "enum") /\ ~Has(s, "oneOf")
  <2>1. Form(s) = IF Has(s, "type") THEN s.type ELSE "missing"
    BY <1>2, <1>7
  <2>2. Form(s) \notin {"const", "enum", "oneOf"}
    BY <1>3, <2>1
  <2> QED
    BY <1>7, <2>1, <2>2 DEF IsObject
<1> QED
  BY <1>4, <1>5, <1>6, <1>7

-----------------------------------------------------------------------------
(* Fields and shapes of a schema *)

\* A field with one declaration is that declaration.
LEMMA OneField ==
  ASSUME NEW parse, NEW field, NEW type, NEW w, field.types = <<type>>
  PROVE  IsField(field) /\ ParseField(parse, field, w) = parse[<<type, w>>]
<1> DEFINE results == [i \in DOMAIN field.types |-> parse[<<field.types[i], w>>]]
<1>1. DOMAIN field.types = {1} /\ field.types[1] = type
  OBVIOUS
<1>2. IsField(field)
  BY <1>1 DEF IsField
<1>3. ParseField(parse, field, w) = ZUnion(results)
  BY DEF ParseField
<1>4. DOMAIN results = {1} /\ results[1] = parse[<<type, w>>]
  BY <1>1
<1> HIDE DEF results
<1>5. PICK accepting : /\ accepting = {i \in DOMAIN results : results[i] # {}}
                       /\ ZUnion(results) = IF accepting = {} THEN {}
                                            ELSE results[Min(accepting)]
  BY DEF ZUnion
<1>6. \A i : i \in accepting <=> i = 1 /\ results[1] # {}
  BY <1>4, <1>5
<1>7. CASE results[1] = {}
  <2>1. accepting = {}
    BY <1>6, <1>7
  <2> QED
    BY <1>2, <1>3, <1>4, <1>5, <1>7, <2>1
<1>8. CASE results[1] # {}
  <2>1. accepting = {1} /\ 1 \in accepting
    BY <1>6, <1>8
  <2>2. Min({1}) = 1
    BY DEF Min
  <2>3. ZUnion(results) = results[1]
    BY <1>5, <2>1, <2>2
  <2> QED
    BY <1>2, <1>3, <1>4, <2>3
<1> QED
  BY <1>7, <1>8

\* The shape of an object schema: one declaration for each key.
LEMMA ConvertedShape ==
  ASSUME NEW s \in Nodes
  PROVE  /\ IsShape(ConvertObjectShape(s)) /\ DOMAIN ConvertObjectShape(s) = Keys(s)
         /\ \A k \in Keys(s) :
              /\ ConvertObjectShape(s)[k].optional <=> k \notin Required(s)
              /\ \A parse, w :
                   ParseField(parse, ConvertObjectShape(s)[k], w) = parse[<<Property(s, k), w>>]
<1> DEFINE shape == ConvertObjectShape(s)
<1>1. DOMAIN shape = Keys(s)
  BY DEF ConvertObjectShape
<1>2. ASSUME NEW k \in Keys(s)
      PROVE  shape[k].types = <<Property(s, k)>> /\ shape[k].optional = (k \notin Required(s))
  BY DEF ConvertObjectShape, Field
<1> HIDE DEF shape
<1>3. ASSUME NEW k \in Keys(s)
      PROVE  /\ IsField(shape[k])
             /\ \A parse, w : ParseField(parse, shape[k], w) = parse[<<Property(s, k), w>>]
  <2>1. PICK field, type : field = shape[k] /\ type = Property(s, k)
    OBVIOUS
  <2>2. field.types = <<type>>
    BY <1>2, <2>1
  <2>3. \A parse, w : IsField(field) /\ ParseField(parse, field, w) = parse[<<type, w>>]
    BY <2>2, OneField
  <2> QED
    BY <2>1, <2>3
<1>4. IsShape(shape)
  BY <1>1, <1>3, PropertyFacts DEF IsShape
<1> USE DEF shape
<1> QED
  BY <1>1, <1>2, <1>3, <1>4

\* A shape looks at the fields that it declares.
LEMMA ShapeLocal ==
  ASSUME NEW f, NEW g, NEW shape, NEW strict, NEW v \in Values,
         \A k \in DOMAIN shape, w \in Values :
           ParseField(f, shape[k], w) = ParseField(g, shape[k], w)
  PROVE  ParseShape(f, shape, strict, v) = ParseShape(g, shape, strict, v)
<1>1. CASE v.t = "object"
  <2> DEFINE given == Given(v.fields)
             results(p) == [k \in given \cap DOMAIN shape |->
                              ParseField(p, shape[k], v.fields[k])]
  <2>1. MaxDepth \in Level
    BY ValuesUnfold DEF Level
  <2>2. MaxDepth - 1 \in Level /\ v.fields \in [Names -> ValuesTo[MaxDepth - 1]]
    BY <1>1, <2>1, ValueCases DEF Values
  <2>3. \A k \in Names : v.fields[k] \in Values
    BY <2>2, UndefinedIsValue
  <2>4. \A k \in given \cap DOMAIN shape :
          ParseField(f, shape[k], v.fields[k]) = ParseField(g, shape[k], v.fields[k])
    BY <2>3 DEF Given
  <2>5. results(f) = results(g)
    BY <2>4
  <2>6. ParseShape(f, shape, strict, v) = ZObject(results(f), shape, strict, given)
    BY <1>1 DEF ParseShape
  <2>7. ParseShape(g, shape, strict, v) = ZObject(results(g), shape, strict, given)
    BY <1>1 DEF ParseShape
  <2> HIDE DEF results, given
  <2> QED
    BY <2>5, <2>6, <2>7
<1>2. CASE v.t # "object"
  BY <1>2 DEF ParseShape
<1> QED
  BY <1>1, <1>2

LEMMA ItemsLocal ==
  ASSUME NEW f, NEW g, NEW s, NEW v \in Values,
         \A w \in Values : ItemOf(f, s, w) = ItemOf(g, s, w)
  PROVE  ParseItems(f, s, v) = ParseItems(g, s, v)
<1>1. CASE v.t = "array"
  <2> DEFINE results(p) == [i \in DOMAIN v.items |-> ItemOf(p, s, v.items[i])]
  <2>1. MaxDepth \in Level
    BY ValuesUnfold DEF Level
  <2>2. MaxDepth - 1 \in Level /\ v.items \in Seq(ValuesTo[MaxDepth - 1])
    BY <1>1, <2>1, ValueCases DEF Values
  <2>3. \A i \in DOMAIN v.items : v.items[i] \in Values
    BY <2>2, UndefinedIsValue
  <2>4. results(f) = results(g)
    BY <2>3
  <2>5. ParseItems(f, s, v) = ZArray(results(f), s)
    BY <1>1 DEF ParseItems, ItemOf
  <2>6. ParseItems(g, s, v) = ZArray(results(g), s)
    BY <1>1 DEF ParseItems, ItemOf
  <2> HIDE DEF results
  <2> QED
    BY <2>4, <2>5, <2>6
<1>2. CASE v.t # "array"
  BY <1>2 DEF ParseItems
<1> QED
  BY <1>1, <1>2

\* What a schema makes of a value depends on what the schemas inside make of values.
LEMMA ParseLocal ==
  ASSUME NEW f, NEW g, NEW s \in Nodes, NEW v \in Values,
         \A sub \in SubSchemas(s), w \in Values : f[<<sub, w>>] = g[<<sub, w>>]
  PROVE  ParseGiven(f, s, v) = ParseGiven(g, s, v)
<1>1. CASE Form(s) = "oneOf"
  <2>1. \A i \in DOMAIN s.oneOf : f[<<s.oneOf[i], v>>] = g[<<s.oneOf[i], v>>]
    BY <1>1, FormFacts
  <2>2. OptionsMake(f, s, v) = OptionsMake(g, s, v)
    BY <2>1 DEF OptionsMake
  <2>3. /\ ParseGiven(f, s, v) = ZUnion(OptionsMake(f, s, v))
        /\ ParseGiven(g, s, v) = ZUnion(OptionsMake(g, s, v))
    BY <1>1, Forms
  <2> QED
    BY <2>2, <2>3
<1>2. CASE Form(s) = "object"
  <2> DEFINE shape == ConvertObjectShape(s)
  <2>1. \A k \in DOMAIN shape, w \in Values :
          ParseField(f, shape[k], w) = ParseField(g, shape[k], w)
    <3> SUFFICES ASSUME NEW k \in Keys(s), NEW w \in Values
                 PROVE  ParseField(f, shape[k], w) = ParseField(g, shape[k], w)
      BY ConvertedShape
    <3>1. f[<<Property(s, k), w>>] = g[<<Property(s, k), w>>]
      BY PropertyFacts
    <3>2. /\ ParseField(f, shape[k], w) = f[<<Property(s, k), w>>]
          /\ ParseField(g, shape[k], w) = g[<<Property(s, k), w>>]
      BY ConvertedShape
    <3> QED
      BY <3>1, <3>2
  <2> HIDE DEF shape
  <2>2. ParseShape(f, shape, IsStrict(s), v) = ParseShape(g, shape, IsStrict(s), v)
    BY <2>1, ShapeLocal
  <2>3. /\ ParseGiven(f, s, v) = ParseShape(f, shape, IsStrict(s), v)
        /\ ParseGiven(g, s, v) = ParseShape(g, shape, IsStrict(s), v)
    BY <1>2, Forms DEF shape
  <2> QED
    BY <2>2, <2>3
<1>3. CASE Form(s) = "array"
  <2>1. \A w \in Values : ItemOf(f, s, w) = ItemOf(g, s, w)
    BY DEF ItemOf, SubSchemas
  <2>2. ParseItems(f, s, v) = ParseItems(g, s, v)
    BY <2>1, ItemsLocal
  <2> QED
    BY <1>3, <2>2, Forms
<1> SUFFICES ASSUME Form(s) \notin {"oneOf", "object", "array"}
             PROVE  \A r : r \in ParseGiven(f, s, v) <=> r \in ParseGiven(g, s, v)
  BY <1>1, <1>2, <1>3
<1>4. CASE Form(s) = "const"
  BY <1>4, Forms
<1>5. CASE Form(s) = "enum"
  BY <1>5, Forms
<1>6. CASE Form(s) \in {"string", "boolean"}
  BY <1>6, Forms
<1>7. CASE Form(s) \in {"number", "integer"}
  BY <1>7, Forms
<1>8. CASE Form(s) \notin ScalarTypes \cup {"const", "enum", "oneOf", "object", "array"}
  BY <1>8, Forms
<1> QED
  BY <1>4, <1>5, <1>6, <1>7, <1>8 DEF ScalarTypes

-----------------------------------------------------------------------------
(* The recursive functions of the model are what their definitions say *)

\* What a schema makes of a value: of its type, no deeper, and the value itself if it is a
\* scalar.  Undefined is rejected.
Faithful(R, v) ==
  /\ \A n \in Level : v \in ValuesTo[n] => R \subseteq ValuesTo[n]
  /\ \A r \in R : r.t = v.t
  /\ v \in Scalars => R \subseteq {v}
  /\ v = Undefined => R = {}

\* What the schemas inside make of values is.
FaithfulBelow(parse, s) == \A sub \in SubSchemas(s), w \in Values : Faithful(parse[<<sub, w>>], w)

LEMMA NotComposite == \A v \in Scalars \cup {Undefined} : v.t \notin {"array", "object"}
BY ScalarCases DEF Undefined

LEMMA FaithfulShape ==
  ASSUME NEW parse, NEW s \in Nodes, NEW strict, NEW v \in Values, FaithfulBelow(parse, s)
  PROVE  Faithful(ParseShape(parse, ConvertObjectShape(s), strict, v), v)
<1> DEFINE shape == ConvertObjectShape(s)
<1>1. ASSUME NEW n \in Level, NEW k \in DOMAIN shape, NEW w \in Values, w \in ValuesTo[n]
      PROVE  ParseField(parse, shape[k], w) \subseteq ValuesTo[n]
  <2>1. k \in Keys(s)
    BY ConvertedShape
  <2>2. Faithful(parse[<<Property(s, k), w>>], w)
    BY <2>1, PropertyFacts DEF FaithfulBelow
  <2>3. ParseField(parse, shape[k], w) = parse[<<Property(s, k), w>>]
    BY <2>1, ConvertedShape
  <2> QED
    BY <1>1, <2>2, <2>3 DEF Faithful
<1>2. IsShape(shape)
  BY ConvertedShape
<1> HIDE DEF shape
<1>3. ASSUME NEW n \in Level, v \in ValuesTo[n], NEW r \in ParseShape(parse, shape, strict, v)
      PROVE  r \in ValuesTo[n] /\ r.t = v.t
  <2>1. v.t = "object"
    BY <1>3 DEF ParseShape
  <2>2. n - 1 \in Level
    BY <1>3, <2>1, ValueCases
  <2>3. NoDeeper(parse, shape, n)
    BY <1>1, <2>2 DEF NoDeeper
  <2>4. r \in ValuesTo[n] /\ r.t = "object"
    BY <1>2, <1>3, <2>3, ShapeFacts
  <2> QED
    BY <2>1, <2>4
<1>4. MaxDepth \in Level /\ v \in ValuesTo[MaxDepth]
  BY ValuesUnfold DEF Level, Values
<1>5. v \in Scalars \/ v = Undefined => ParseShape(parse, shape, strict, v) = {}
  BY NotComposite DEF ParseShape
<1>6. Faithful(ParseShape(parse, shape, strict, v), v)
  BY <1>3, <1>4, <1>5 DEF Faithful
<1> QED
  BY <1>6 DEF shape

LEMMA FaithfulItems ==
  ASSUME NEW parse, NEW s \in Nodes, NEW v \in Values, FaithfulBelow(parse, s)
  PROVE  Faithful(ParseItems(parse, s, v), v)
<1>1. ASSUME NEW n \in Level, NEW w \in Values, w \in ValuesTo[n]
      PROVE  ItemOf(parse, s, w) \subseteq ValuesTo[n]
  <2>1. CASE Has(s, "items")
    <3>1. s.items \in SubSchemas(s)
      BY <2>1 DEF SubSchemas
    <3>2. Faithful(parse[<<s.items, w>>], w)
      BY <3>1 DEF FaithfulBelow
    <3> QED
      BY <1>1, <2>1, <3>2 DEF Faithful, ItemOf
  <2>2. CASE ~Has(s, "items")
    BY <1>1, <2>2 DEF ItemOf
  <2> QED
    BY <2>1, <2>2
<1>3. ASSUME NEW n \in Level, v \in ValuesTo[n], NEW r \in ParseItems(parse, s, v)
      PROVE  r \in ValuesTo[n] /\ r.t = v.t
  <2>1. v.t = "array"
    BY <1>3 DEF ParseItems
  <2>2. n - 1 \in Level
    BY <1>3, <2>1, ValueCases
  <2>3. \A w \in Values : w \in ValuesTo[n - 1] => ItemOf(parse, s, w) \subseteq ValuesTo[n - 1]
    BY <1>1, <2>2
  <2>4. r \in ValuesTo[n] /\ r.t = "array"
    BY <1>3, <2>3, ItemsFacts
  <2> QED
    BY <2>1, <2>4
<1>4. MaxDepth \in Level /\ v \in ValuesTo[MaxDepth]
  BY ValuesUnfold DEF Level, Values
<1>5. v \in Scalars \/ v = Undefined => ParseItems(parse, s, v) = {}
  BY NotComposite DEF ParseItems
<1> QED
  BY <1>3, <1>4, <1>5 DEF Faithful

\* A validator that passes a value on, if it is not undefined.
LEMMA FaithfulSame ==
  ASSUME NEW R, NEW v \in Values, R \subseteq {v}, v = Undefined => R = {}
  PROVE  Faithful(R, v)
BY DEF Faithful

LEMMA FaithfulUnion ==
  ASSUME NEW results, NEW v \in Values, DOMAIN results \subseteq Nat,
         \A i \in DOMAIN results : Faithful(results[i], v)
  PROVE  Faithful(ZUnion(results), v)
<1>1. ASSUME NEW r \in ZUnion(results)
      PROVE  \E i \in DOMAIN results : r \in results[i] /\ Faithful(results[i], v)
  BY UnionFacts
<1> QED
  BY <1>1 DEF Faithful

LEMMA ParseFaithful ==
  ASSUME NEW parse, NEW s \in Nodes, NEW v \in Values, FaithfulBelow(parse, s)
  PROVE  Faithful(ParseGiven(parse, s, v), v)
<1>1. CASE Form(s) = "oneOf"
  <2>1. s.oneOf \in Seq(Nodes) /\ \A i \in DOMAIN s.oneOf : s.oneOf[i] \in SubSchemas(s)
    BY <1>1, FormFacts
  <2> DEFINE results == OptionsMake(parse, s, v)
  <2>2. DOMAIN results \subseteq Nat /\ \A i \in DOMAIN results : Faithful(results[i], v)
    BY <2>1 DEF OptionsMake, FaithfulBelow
  <2> HIDE DEF results
  <2>3. Faithful(ZUnion(results), v)
    BY <2>2, FaithfulUnion
  <2> QED
    BY <1>1, <2>3, Forms DEF results
<1>2. CASE Form(s) = "object"
  <2>1. Faithful(ParseShape(parse, ConvertObjectShape(s), IsStrict(s), v), v)
    BY FaithfulShape
  <2> QED
    BY <1>2, <2>1, Forms
<1>3. CASE Form(s) = "array"
  <2>1. Faithful(ParseItems(parse, s, v), v)
    BY FaithfulItems
  <2> QED
    BY <1>3, <2>1, Forms
<1> SUFFICES ASSUME Form(s) \notin {"oneOf", "object", "array"}
             PROVE  /\ \A r \in ParseGiven(parse, s, v) : r = v
                    /\ v = Undefined => ParseGiven(parse, s, v) = {}
  <2>1. \/ Faithful(ParseGiven(parse, s, v), v)
        \/ /\ ParseGiven(parse, s, v) \subseteq {v}
           /\ v = Undefined => ParseGiven(parse, s, v) = {}
    BY <1>1, <1>2, <1>3
  <2> QED
    BY <2>1, FaithfulSame
<1>4. CASE Form(s) = "const"
  BY <1>4, Forms, FormFacts
<1>5. CASE Form(s) = "enum"
  <2>1. ToSet(s.enum) \subseteq Scalars \ {Undefined}
    BY <1>5, FormFacts, ElementsOfSeq
  <2> QED
    BY <1>5, <2>1, Forms
<1>6. CASE Form(s) \in {"string", "boolean"}
  BY <1>6, Forms DEF Undefined
<1>7. CASE Form(s) \in {"number", "integer"}
  BY <1>7, Forms DEF Undefined
<1>8. CASE Form(s) \notin ScalarTypes \cup {"const", "enum", "oneOf", "object", "array"}
  BY <1>8, Forms
<1> QED
  BY <1>4, <1>5, <1>6, <1>7, <1>8 DEF ScalarTypes

\* Functions on schemas and values that satisfy the equation of ParseOf are faithful.
LEMMA SolutionFaithful ==
  ASSUME NEW f, \A s \in Nodes, v \in Values : f[<<s, v>>] \subseteq ParseGiven(f, s, v)
  PROVE  \A s \in Nodes, v \in Values : Faithful(f[<<s, v>>], v)
<1> DEFINE Bad == {s \in Nodes : \E v \in Values : ~Faithful(f[<<s, v>>], v)}
<1>1. ASSUME NEW s \in Bad PROVE \E c \in Bad : Depth[c] < Depth[s]
  <2> SUFFICES ASSUME \A c \in Nodes : Depth[c] < Depth[s] => c \notin Bad PROVE FALSE
    OBVIOUS
  <2>1. PICK v \in Values : ~Faithful(f[<<s, v>>], v)
    OBVIOUS
  <2>2. FaithfulBelow(f, s)
    <3>1. \A sub \in SubSchemas(s) : sub \in Nodes /\ Depth[sub] < Depth[s]
      BY SchemaFacts
    <3> QED
      BY <3>1 DEF FaithfulBelow
  <2>3. Faithful(ParseGiven(f, s, v), v)
    BY <2>2, ParseFaithful
  <2>4. f[<<s, v>>] \subseteq ParseGiven(f, s, v)
    OBVIOUS
  <2> QED
    BY <2>1, <2>3, <2>4 DEF Faithful
<1>2. Bad \subseteq Nodes /\ \A s \in Nodes : Depth[s] \in Nat
  BY SchemaFacts
<1>3. Bad = {}
  <2> HIDE DEF Bad
  <2> QED
    BY <1>1, <1>2, NoneBad
<1> QED
  BY <1>3

ParseCut(f, s, v) == ParseGiven(f, s, v) \cap Values
IsParse(f) == f = [p \in Nodes \X Values |-> ParseGiven(f, p[1], p[2])]

LEMMA ParseExists == \E f : IsParse(f)
<1> DEFINE S == Nodes \X Values
           R == SUBSET Values
           depth == [p \in S |-> Depth[p[1]]]
           step == [x \in S \X [S -> R] |-> ParseCut(x[2], x[1][1], x[1][2])]
<1>1. \A s \in Nodes, v \in Values, f \in [S -> R] :
        step[<<<<s, v>>, f>>] = ParseCut(f, s, v)
  OBVIOUS
<1>2. depth \in [S -> Nat]
  BY SchemaFacts
<1>3. step \in [S \X [S -> R] -> R]
  BY DEF ParseCut
<1>4. \A p \in S : depth[p] = Depth[p[1]]
  OBVIOUS
<1> HIDE DEF step, depth
<1>5. ASSUME NEW p \in S, NEW f \in [S -> R], NEW g \in [S -> R],
             \A c \in S : depth[c] < depth[p] => f[c] = g[c]
      PROVE  step[<<p, f>>] = step[<<p, g>>]
  <2>1. PICK s \in Nodes, v \in Values : p = <<s, v>>
    OBVIOUS
  <2>2. ASSUME NEW sub \in SubSchemas(s), NEW w \in Values PROVE f[<<sub, w>>] = g[<<sub, w>>]
    <3>1. sub \in Nodes /\ Depth[sub] < Depth[s]
      BY SchemaFacts
    <3>2. <<sub, w>> \in S /\ depth[<<sub, w>>] < depth[p]
      BY <1>4, <2>1, <3>1
    <3> QED
      BY <1>5, <3>2
  <2>3. ParseGiven(f, s, v) = ParseGiven(g, s, v)
    BY <2>2, ParseLocal
  <2>4. ParseCut(f, s, v) = ParseCut(g, s, v)
    BY <2>3 DEF ParseCut
  <2> QED
    BY <1>1, <2>1, <2>4
<1>6. Descends(S, R, depth, step)
  BY <1>2, <1>3, <1>5 DEF Descends
<1>7. PICK f \in [S -> R] : \A p \in S : f[p] = step[<<p, f>>]
  <2>1. R # {}
    OBVIOUS
  <2> HIDE DEF S, R
  <2> QED
    BY <1>6, <2>1, Recursion
<1>8. \A s \in Nodes, v \in Values : f[<<s, v>>] = ParseCut(f, s, v)
  BY <1>1, <1>7
<1>9. \A s \in Nodes, v \in Values : Faithful(f[<<s, v>>], v)
  <2>1. \A s \in Nodes, v \in Values : f[<<s, v>>] \subseteq ParseGiven(f, s, v)
    BY <1>8 DEF ParseCut
  <2> QED
    BY <2>1, SolutionFaithful
<1>10. ASSUME NEW s \in Nodes, NEW v \in Values PROVE f[<<s, v>>] = ParseGiven(f, s, v)
  <2>1. FaithfulBelow(f, s)
    BY <1>9, SchemaFacts DEF FaithfulBelow
  <2>2. Faithful(ParseGiven(f, s, v), v)
    BY <2>1, ParseFaithful
  <2>3. ParseGiven(f, s, v) \subseteq Values
    BY <2>2, ValuesUnfold DEF Faithful, Level, Values
  <2> QED
    BY <1>8, <2>3 DEF ParseCut
<1>11. \A p \in S : f[p] = ParseGiven(f, p[1], p[2])
  BY <1>10
<1>12. f = [p \in S |-> f[p]]
  OBVIOUS
<1>13. IsParse(f)
  BY <1>11, <1>12 DEF IsParse
<1> QED
  BY <1>13

LEMMA ParseUnfolds ==
  ASSUME NEW s \in Nodes, NEW v \in Values
  PROVE  Parse(s, v) = ParseGiven(ParseOf, s, v) /\ Faithful(Parse(s, v), v)
<1>1. IsParse(ParseOf)
  <2>1. ParseOf = CHOOSE f : IsParse(f)
    BY DEF ParseOf, IsParse
  <2> QED
    BY <2>1, ParseExists
<1>2. \A r \in Nodes, w \in Values : ParseOf[<<r, w>>] = ParseGiven(ParseOf, r, w)
  BY <1>1 DEF IsParse
<1>3. \A r \in Nodes, w \in Values : Faithful(ParseOf[<<r, w>>], w)
  <2>1. PICK f : f = ParseOf
    OBVIOUS
  <2>2. \A r \in Nodes, w \in Values : f[<<r, w>>] \subseteq ParseGiven(f, r, w)
    BY <1>2, <2>1
  <2>3. \A r \in Nodes, w \in Values : Faithful(f[<<r, w>>], w)
    BY <2>2, SolutionFaithful
  <2> QED
    BY <2>1, <2>3
<1> QED
  BY <1>2, <1>3 DEF Parse

-----------------------------------------------------------------------------

LEMMA SatisfiesLocal ==
  ASSUME NEW f, NEW g, NEW s \in Nodes, NEW v \in Values,
         \A sub \in SubSchemas(s), w \in Values : f[<<sub, w>>] = g[<<sub, w>>],
         SatisfiesGiven(f, s, v)
  PROVE  SatisfiesGiven(g, s, v)
<1>0. MaxDepth \in Level /\ v \in ValuesTo[MaxDepth]
  BY ValuesUnfold DEF Level, Values
<1>1. /\ s = NullSchema => v = Undefined
      /\ Has(s, "const") => v = s.const
      /\ Has(s, "enum") => v \in ToSet(s.enum)
      /\ Has(s, "type") /\ s # NullSchema => OfType(s.type, v)
      /\ v.t = "number" => Within(v.num, s, "minimum", "maximum")
  BY DEF SatisfiesGiven
<1>2. Has(s, "oneOf") => \E b \in ToSet(s.oneOf) : g[<<b, v>>]
  <2>1. Has(s, "oneOf") => ToSet(s.oneOf) \subseteq SubSchemas(s)
    BY DEF SubSchemas
  <2>2. Has(s, "oneOf") => \E b \in ToSet(s.oneOf) : f[<<b, v>>]
    BY DEF SatisfiesGiven
  <2> QED
    BY <2>1, <2>2
<1>3. v.t = "array" => Within(Len(v.items), s, "minItems", "maxItems")
  BY DEF SatisfiesGiven
<1>4. ASSUME v.t = "array", Has(s, "items"), NEW i \in DOMAIN v.items
      PROVE  g[<<s.items, v.items[i]>>]
  <2>1. v.items[i] \in Values
    <3>1. MaxDepth - 1 \in Level /\ v.items \in Seq(ValuesTo[MaxDepth - 1])
      BY <1>0, <1>4, ValueCases
    <3> QED
      BY <3>1, UndefinedIsValue
  <2>2. s.items \in SubSchemas(s)
    BY <1>4 DEF SubSchemas
  <2>3. f[<<s.items, v.items[i]>>]
    BY <1>4 DEF SatisfiesGiven
  <2> QED
    BY <2>1, <2>2, <2>3
<1>5. v.t = "object" => /\ Required(s) \subseteq Given(v.fields)
                        /\ IsStrict(s) => Given(v.fields) \subseteq Keys(s)
  BY DEF SatisfiesGiven
<1>6. ASSUME v.t = "object", NEW k \in Keys(s) \cap Given(v.fields)
      PROVE  g[<<Property(s, k), v.fields[k]>>]
  <2>1. v.fields[k] \in Values
    <3>1. MaxDepth - 1 \in Level /\ v.fields \in [Names -> ValuesTo[MaxDepth - 1]]
      BY <1>0, <1>6, ValueCases
    <3>2. k \in Names
      BY DEF Given
    <3> QED
      BY <3>1, <3>2, UndefinedIsValue
  <2>2. Property(s, k) \in SubSchemas(s)
    BY PropertyFacts
  <2>3. f[<<Property(s, k), v.fields[k]>>]
    BY <1>6 DEF SatisfiesGiven
  <2> QED
    BY <2>1, <2>2, <2>3
<1> QED
  BY <1>1, <1>2, <1>3, <1>4, <1>5, <1>6 DEF SatisfiesGiven

IsSatisfies(f) == f = [p \in Nodes \X Values |-> SatisfiesGiven(f, p[1], p[2])]

LEMMA SatisfiesExists == \E f : IsSatisfies(f)
<1> DEFINE S == Nodes \X Values
           depth == [p \in S |-> Depth[p[1]]]
           step == [x \in S \X [S -> BOOLEAN] |-> SatisfiesGiven(x[2], x[1][1], x[1][2])]
<1>1. \A p \in S, f \in [S -> BOOLEAN] : step[<<p, f>>] = SatisfiesGiven(f, p[1], p[2])
  OBVIOUS
<1>2. depth \in [S -> Nat]
  BY SchemaFacts
<1>3. step \in [S \X [S -> BOOLEAN] -> BOOLEAN]
  <2>1. \A p \in S, f \in [S -> BOOLEAN] : SatisfiesGiven(f, p[1], p[2]) \in BOOLEAN
    BY DEF SatisfiesGiven
  <2> QED
    BY <2>1
<1>4. \A p \in S : depth[p] = Depth[p[1]]
  OBVIOUS
<1> HIDE DEF step, depth
<1>5. ASSUME NEW p \in S, NEW f \in [S -> BOOLEAN], NEW g \in [S -> BOOLEAN],
             \A c \in S : depth[c] < depth[p] => f[c] = g[c]
      PROVE  step[<<p, f>>] = step[<<p, g>>]
  <2>1. PICK s \in Nodes, v \in Values : p = <<s, v>>
    OBVIOUS
  <2>2. ASSUME NEW sub \in SubSchemas(s), NEW w \in Values
        PROVE  f[<<sub, w>>] = g[<<sub, w>>] /\ g[<<sub, w>>] = f[<<sub, w>>]
    <3>1. sub \in Nodes /\ Depth[sub] < Depth[s]
      BY SchemaFacts
    <3>2. <<sub, w>> \in S /\ depth[<<sub, w>>] < depth[p]
      BY <1>4, <2>1, <3>1
    <3> QED
      BY <1>5, <3>2
  <2>3. SatisfiesGiven(f, s, v) => SatisfiesGiven(g, s, v)
    BY <2>2, SatisfiesLocal
  <2>4. SatisfiesGiven(g, s, v) => SatisfiesGiven(f, s, v)
    BY <2>2, SatisfiesLocal
  <2>5. SatisfiesGiven(f, s, v) = SatisfiesGiven(g, s, v)
    BY <2>3, <2>4 DEF SatisfiesGiven
  <2> QED
    BY <1>1, <2>1, <2>5
<1>6. Descends(S, BOOLEAN, depth, step)
  BY <1>2, <1>3, <1>5 DEF Descends
<1>7. PICK f \in [S -> BOOLEAN] : \A p \in S : f[p] = step[<<p, f>>]
  <2>1. PICK B : B = BOOLEAN /\ B # {}
    OBVIOUS
  <2>2. Descends(S, B, depth, step)
    BY <1>6, <2>1
  <2> HIDE DEF S
  <2>3. \E f \in [S -> B] : \A p \in S : f[p] = step[<<p, f>>]
    BY <2>1, <2>2, Recursion
  <2> QED
    BY <2>1, <2>3
<1>8. \A p \in S : f[p] = SatisfiesGiven(f, p[1], p[2])
  BY <1>1, <1>7
<1>9. f = [p \in S |-> f[p]]
  OBVIOUS
<1>10. IsSatisfies(f)
  BY <1>8, <1>9 DEF IsSatisfies
<1> QED
  BY <1>10

LEMMA SatisfiesUnfolds ==
  ASSUME NEW s \in Nodes, NEW v \in Values
  PROVE  Satisfies(s, v) = SatisfiesGiven(SatisfiesOf, s, v)
<1>1. IsSatisfies(SatisfiesOf)
  <2>1. SatisfiesOf = CHOOSE f : IsSatisfies(f)
    BY DEF SatisfiesOf, IsSatisfies
  <2> QED
    BY <2>1, SatisfiesExists
<1>2. \A r \in Nodes, w \in Values : SatisfiesOf[<<r, w>>] = SatisfiesGiven(SatisfiesOf, r, w)
  BY <1>1 DEF IsSatisfies
<1> QED
  BY <1>2 DEF Satisfies

-----------------------------------------------------------------------------

\* step goes from a schema to those inside it.
GoesInside(R, step) ==
  /\ R # {} /\ step \in [Nodes \X [Nodes -> R] -> R]
  /\ \A s \in Nodes, f, g \in [Nodes -> R] :
       (\A sub \in SubSchemas(s) : f[sub] = g[sub]) => step[<<s, f>>] = step[<<s, g>>]

LEMMA OnSchemas ==
  ASSUME NEW R, NEW step, GoesInside(R, step)
  PROVE  \E f \in [Nodes -> R] : \A s \in Nodes : f[s] = step[<<s, f>>]
<1> USE DEF GoesInside
<1> DEFINE depth == [s \in Nodes |-> Depth[s]]
<1>1. depth \in [Nodes -> Nat]
  BY SchemaFacts
<1>2. \A s \in Nodes : depth[s] = Depth[s]
  OBVIOUS
<1> HIDE DEF depth
<1>3. ASSUME NEW s \in Nodes, NEW f \in [Nodes -> R], NEW g \in [Nodes -> R],
             \A c \in Nodes : depth[c] < depth[s] => f[c] = g[c]
      PROVE  step[<<s, f>>] = step[<<s, g>>]
  <2>1. \A sub \in SubSchemas(s) : f[sub] = g[sub]
    BY <1>2, <1>3, SchemaFacts
  <2> QED
    BY <2>1
<1>4. Descends(Nodes, R, depth, step)
  BY <1>1, <1>3 DEF Descends
<1> QED
  BY <1>4, Recursion

LEMMA ThrowsLocal ==
  ASSUME NEW f, NEW g, NEW s \in Nodes, \A sub \in SubSchemas(s) : f[sub] = g[sub],
         ThrowsGiven(f, s)
  PROVE  ThrowsGiven(g, s)
<1>1. CASE Form(s) = "oneOf" /\ (s.oneOf = <<>> \/ \E i \in DOMAIN s.oneOf : f[s.oneOf[i]])
  <2>1. \A i \in DOMAIN s.oneOf : s.oneOf[i] \in SubSchemas(s)
    BY <1>1, FormFacts
  <2> QED
    BY <1>1, <2>1 DEF ThrowsGiven
<1>2. CASE Form(s) = "object" /\ \E p \in ToSet(Properties(s)) : f[p.schema]
  <2>1. \A p \in ToSet(Properties(s)) : p.schema \in SubSchemas(s)
    BY DEF SubSchemas
  <2> QED
    BY <1>2, <2>1 DEF ThrowsGiven
<1>3. CASE Form(s) = "array" /\ Has(s, "items") /\ f[s.items]
  <2>1. s.items \in SubSchemas(s)
    BY <1>3 DEF SubSchemas
  <2> QED
    BY <1>3, <2>1 DEF ThrowsGiven
<1>4. CASE \/ ~(DOMAIN s \subseteq KnownKeys)
           \/ Form(s) = "enum" /\ s.enum = <<>>
           \/ Form(s) \notin ScalarTypes \cup {"const", "enum", "oneOf", "object", "array"}
  BY <1>4 DEF ThrowsGiven
<1> QED
  BY <1>1, <1>2, <1>3, <1>4 DEF ThrowsGiven

LEMMA ClosedLocal ==
  ASSUME NEW f, NEW g, NEW s \in Nodes, \A sub \in SubSchemas(s) : f[sub] = g[sub],
         ClosedGiven(f, s)
  PROVE  ClosedGiven(g, s)
BY DEF ClosedGiven

IsThrows(f) == f = [s \in Nodes |-> ThrowsGiven(f, s)]
IsClosed(f) == f = [s \in Nodes |-> ClosedGiven(f, s)]

LEMMA ThrowsUnfolds ==
  ASSUME NEW s \in Nodes
  PROVE  Throws(s) = ThrowsGiven(ThrowsOf, s)
<1> DEFINE step == [x \in Nodes \X [Nodes -> BOOLEAN] |-> ThrowsGiven(x[2], x[1])]
<1>1. \A r \in Nodes, f \in [Nodes -> BOOLEAN] : step[<<r, f>>] = ThrowsGiven(f, r)
  OBVIOUS
<1>2. step \in [Nodes \X [Nodes -> BOOLEAN] -> BOOLEAN]
  <2>1. \A r \in Nodes, f \in [Nodes -> BOOLEAN] : ThrowsGiven(f, r) \in BOOLEAN
    BY DEF ThrowsGiven
  <2> QED
    BY <2>1
<1> HIDE DEF step
<1>3. ASSUME NEW r \in Nodes, NEW f \in [Nodes -> BOOLEAN], NEW g \in [Nodes -> BOOLEAN],
             \A sub \in SubSchemas(r) : f[sub] = g[sub]
      PROVE  step[<<r, f>>] = step[<<r, g>>]
  <2>1. (ThrowsGiven(f, r) => ThrowsGiven(g, r)) /\ (ThrowsGiven(g, r) => ThrowsGiven(f, r))
    BY <1>3, ThrowsLocal
  <2>2. ThrowsGiven(f, r) = ThrowsGiven(g, r)
    BY <2>1 DEF ThrowsGiven
  <2> QED
    BY <1>1, <2>2
<1>4. PICK B : B = BOOLEAN /\ B # {}
  OBVIOUS
<1>5. GoesInside(B, step)
  BY <1>2, <1>3, <1>4 DEF GoesInside
<1>6. PICK f \in [Nodes -> B] : \A r \in Nodes : f[r] = step[<<r, f>>]
  BY <1>5, OnSchemas
<1>7. IsThrows(f)
  <2>1. \A r \in Nodes : f[r] = ThrowsGiven(f, r)
    BY <1>1, <1>4, <1>6
  <2>2. f = [r \in Nodes |-> f[r]]
    OBVIOUS
  <2> QED
    BY <2>1, <2>2 DEF IsThrows
<1>8. IsThrows(ThrowsOf)
  <2>1. ThrowsOf = CHOOSE g : IsThrows(g)
    BY DEF ThrowsOf, IsThrows
  <2> QED
    BY <1>7, <2>1
<1>9. \A r \in Nodes : ThrowsOf[r] = ThrowsGiven(ThrowsOf, r)
  BY <1>8 DEF IsThrows
<1> QED
  BY <1>9 DEF Throws

LEMMA ClosedUnfolds ==
  ASSUME NEW s \in Nodes
  PROVE  Closed(s) = ClosedGiven(ClosedOf, s)
<1> DEFINE step == [x \in Nodes \X [Nodes -> BOOLEAN] |-> ClosedGiven(x[2], x[1])]
<1>1. \A r \in Nodes, f \in [Nodes -> BOOLEAN] : step[<<r, f>>] = ClosedGiven(f, r)
  OBVIOUS
<1>2. step \in [Nodes \X [Nodes -> BOOLEAN] -> BOOLEAN]
  <2>1. \A r \in Nodes, f \in [Nodes -> BOOLEAN] : ClosedGiven(f, r) \in BOOLEAN
    BY DEF ClosedGiven
  <2> QED
    BY <2>1
<1> HIDE DEF step
<1>3. ASSUME NEW r \in Nodes, NEW f \in [Nodes -> BOOLEAN], NEW g \in [Nodes -> BOOLEAN],
             \A sub \in SubSchemas(r) : f[sub] = g[sub]
      PROVE  step[<<r, f>>] = step[<<r, g>>]
  <2>1. (ClosedGiven(f, r) => ClosedGiven(g, r)) /\ (ClosedGiven(g, r) => ClosedGiven(f, r))
    BY <1>3, ClosedLocal
  <2>2. ClosedGiven(f, r) = ClosedGiven(g, r)
    BY <2>1 DEF ClosedGiven
  <2> QED
    BY <1>1, <2>2
<1>4. PICK B : B = BOOLEAN /\ B # {}
  OBVIOUS
<1>5. GoesInside(B, step)
  BY <1>2, <1>3, <1>4 DEF GoesInside
<1>6. PICK f \in [Nodes -> B] : \A r \in Nodes : f[r] = step[<<r, f>>]
  BY <1>5, OnSchemas
<1>7. IsClosed(f)
  <2>1. \A r \in Nodes : f[r] = ClosedGiven(f, r)
    BY <1>1, <1>4, <1>6
  <2>2. f = [r \in Nodes |-> f[r]]
    OBVIOUS
  <2> QED
    BY <2>1, <2>2 DEF IsClosed
<1>8. IsClosed(ClosedOf)
  <2>1. ClosedOf = CHOOSE g : IsClosed(g)
    BY DEF ClosedOf, IsClosed
  <2> QED
    BY <1>7, <2>1
<1>9. \A r \in Nodes : ClosedOf[r] = ClosedGiven(ClosedOf, r)
  BY <1>8 DEF IsClosed
<1> QED
  BY <1>9 DEF Closed

\* The keys of the secrets that a schema and each schema inside it declare.
OwnSecret(p) ==
  IF p.key \in SecretNames /\ Has(p.schema, "type") /\ p.schema.type = "string"
  THEN <<p.key>> ELSE <<>>
PropertySecrets(f, s) ==
  [i \in DOMAIN Properties(s) |-> OwnSecret(Properties(s)[i]) \o f[Properties(s)[i].schema]]
BranchSecrets(f, s) ==
  IF Has(s, "oneOf") THEN [i \in DOMAIN s.oneOf |-> f[s.oneOf[i]]] ELSE <<>>
ItemSecrets(f, s) == IF Has(s, "items") THEN f[s.items] ELSE <<>>

LEMMA DeclaredParts ==
  ASSUME NEW f, NEW s
  PROVE  DeclaredGiven(f, s) = FlattenSeq(PropertySecrets(f, s)) \o FlattenSeq(BranchSecrets(f, s))
                                 \o ItemSecrets(f, s)
BY DEF DeclaredGiven, PropertySecrets, BranchSecrets, ItemSecrets, OwnSecret

LEMMA MadeSeq ==
  ASSUME NEW T, NEW U, NEW s \in Seq(U), NEW made, DOMAIN made = DOMAIN s,
         made = [i \in DOMAIN made |-> made[i]],
         \A i \in DOMAIN s : made[i] \in T
  PROVE  made \in Seq(T)
<1>1. DOMAIN s = 1..Len(s) /\ Len(s) \in Nat
  OBVIOUS
<1>2. made \in [1..Len(s) -> T]
  BY <1>1
<1> QED
  BY <1>1, <1>2

LEMMA DeclaredAreNames ==
  ASSUME NEW f \in [Nodes -> Seq(Names)], NEW s \in Nodes
  PROVE  DeclaredGiven(f, s) \in Seq(Names)
<1>0. WellTyped(s)
  BY SchemaFacts
<1>1. PropertySecrets(f, s) \in Seq(Seq(Names))
  <2>1. Properties(s) \in Seq([key : Names, schema : Nodes])
    BY <1>0 DEF WellTyped
  <2> DEFINE made == PropertySecrets(f, s)
  <2>2. DOMAIN made = DOMAIN Properties(s) /\ made = [i \in DOMAIN made |-> made[i]]
    BY DEF PropertySecrets
  <2>3. ASSUME NEW i \in DOMAIN Properties(s) PROVE made[i] \in Seq(Names)
    <3>1. PICK p : p = Properties(s)[i] /\ p \in ToSet(Properties(s))
      BY DEF ToSet
    <3>2. made[i] = OwnSecret(p) \o f[p.schema]
      BY <3>1 DEF PropertySecrets
    <3>3. p \in [key : Names, schema : Nodes]
      BY <2>1, <3>1, ElementsOfSeq
    <3>4. OwnSecret(p) \in Seq(Names) /\ f[p.schema] \in Seq(Names)
      BY <3>3 DEF OwnSecret
    <3> QED
      BY <3>2, <3>4
  <2> HIDE DEF made
  <2>4. made \in Seq(Seq(Names))
    BY <2>1, <2>2, <2>3, MadeSeq
  <2> QED
    BY <2>4 DEF made
<1>2. BranchSecrets(f, s) \in Seq(Seq(Names))
  <2>1. CASE Has(s, "oneOf")
    <3> DEFINE made == BranchSecrets(f, s)
    <3>1. s.oneOf \in Seq(Nodes)
      BY <1>0, <2>1 DEF WellTyped
    <3>2. /\ DOMAIN made = DOMAIN s.oneOf /\ made = [i \in DOMAIN made |-> made[i]]
          /\ \A i \in DOMAIN s.oneOf : made[i] = f[s.oneOf[i]]
      BY <2>1 DEF BranchSecrets
    <3>3. \A i \in DOMAIN s.oneOf : made[i] \in Seq(Names)
      BY <3>1, <3>2
    <3> HIDE DEF made
    <3>4. made \in Seq(Seq(Names))
      BY <3>1, <3>2, <3>3, MadeSeq
    <3> QED
      BY <3>4 DEF made
  <2>2. CASE ~Has(s, "oneOf")
    BY <2>2 DEF BranchSecrets
  <2> QED
    BY <2>1, <2>2
<1>3. ItemSecrets(f, s) \in Seq(Names)
  BY <1>0 DEF ItemSecrets, WellTyped
<1>4. /\ FlattenSeq(PropertySecrets(f, s)) \in Seq(Names)
      /\ FlattenSeq(BranchSecrets(f, s)) \in Seq(Names)
  <2>1. <<>> \in Seq(Names)
    OBVIOUS
  <2> QED
    BY <1>1, <1>2, <2>1, FlattenAppend
<1>5. PICK a \in Seq(Names), b \in Seq(Names), c \in Seq(Names) : DeclaredGiven(f, s) = a \o b \o c
  BY <1>3, <1>4, DeclaredParts
<1> QED
  BY <1>5

LEMMA DeclaredLocal ==
  ASSUME NEW f, NEW g, NEW s \in Nodes, \A sub \in SubSchemas(s) : f[sub] = g[sub]
  PROVE  DeclaredGiven(f, s) = DeclaredGiven(g, s)
<1>1. PropertySecrets(f, s) = PropertySecrets(g, s)
  <2>1. \A i \in DOMAIN Properties(s) : Properties(s)[i].schema \in SubSchemas(s)
    BY DEF SubSchemas, ToSet
  <2> QED
    BY <2>1 DEF PropertySecrets
<1>2. BranchSecrets(f, s) = BranchSecrets(g, s)
  <2>1. Has(s, "oneOf") => \A i \in DOMAIN s.oneOf : s.oneOf[i] \in SubSchemas(s)
    BY DEF SubSchemas, ToSet
  <2> QED
    BY <2>1 DEF BranchSecrets
<1>3. ItemSecrets(f, s) = ItemSecrets(g, s)
  BY DEF ItemSecrets, SubSchemas
<1> QED
  BY <1>1, <1>2, <1>3, DeclaredParts

IsDeclared(f) == f = [s \in Nodes |-> DeclaredGiven(f, s)]

LEMMA DeclaredNames ==
  ASSUME NEW s \in Nodes
  PROVE  DeclaredSecrets(s) \in Seq(Names)
<1> DEFINE R == Seq(Names)
           step == [x \in Nodes \X [Nodes -> R] |-> DeclaredGiven(x[2], x[1])]
<1>1. \A r \in Nodes, f \in [Nodes -> R] : step[<<r, f>>] = DeclaredGiven(f, r)
  OBVIOUS
<1>2. step \in [Nodes \X [Nodes -> R] -> R]
  <2>1. \A r \in Nodes, f \in [Nodes -> R] : DeclaredGiven(f, r) \in R
    BY DeclaredAreNames
  <2> QED
    BY <2>1
<1>3. R # {}
  <2>1. <<>> \in R
    OBVIOUS
  <2> QED
    BY <2>1
<1> HIDE DEF step
<1>4. ASSUME NEW r \in Nodes, NEW f \in [Nodes -> R], NEW g \in [Nodes -> R],
             \A sub \in SubSchemas(r) : f[sub] = g[sub]
      PROVE  step[<<r, f>>] = step[<<r, g>>]
  BY <1>1, <1>4, DeclaredLocal
<1>5. PICK f \in [Nodes -> R] : \A r \in Nodes : f[r] = step[<<r, f>>]
  <2>1. GoesInside(R, step)
    BY <1>2, <1>3, <1>4 DEF GoesInside
  <2> HIDE DEF R
  <2> QED
    BY <2>1, OnSchemas
<1>6. IsDeclared(f)
  <2>1. \A r \in Nodes : f[r] = DeclaredGiven(f, r)
    BY <1>1, <1>5
  <2>2. f = [r \in Nodes |-> f[r]]
    OBVIOUS
  <2> QED
    BY <2>1, <2>2 DEF IsDeclared
<1>7. IsDeclared(DeclaredOf)
  <2>1. DeclaredOf = CHOOSE g : IsDeclared(g)
    BY DEF DeclaredOf, IsDeclared
  <2> QED
    BY <1>6, <2>1
<1>8. \A r \in Nodes : DeclaredOf[r] = DeclaredGiven(DeclaredOf, r)
  BY <1>7 DEF IsDeclared
<1> DEFINE Bad == {r \in Nodes : DeclaredOf[r] \notin R}
<1>9. ASSUME NEW r \in Bad PROVE \E c \in Bad : Depth[c] < Depth[r]
  <2> SUFFICES ASSUME \A c \in Nodes : Depth[c] < Depth[r] => c \notin Bad PROVE FALSE
    OBVIOUS
  <2>1. <<>> \in R
    OBVIOUS
  <2> DEFINE g == [c \in Nodes |-> IF DeclaredOf[c] \in R THEN DeclaredOf[c] ELSE <<>>]
  <2>2. g \in [Nodes -> R]
    BY <2>1
  <2>3. \A sub \in SubSchemas(r) : DeclaredOf[sub] = g[sub]
    BY SchemaFacts
  <2> HIDE DEF g
  <2>4. DeclaredGiven(DeclaredOf, r) = DeclaredGiven(g, r)
    BY <2>3, DeclaredLocal
  <2>5. DeclaredGiven(g, r) \in R
    BY <2>2, DeclaredAreNames
  <2> QED
    BY <1>8, <2>4, <2>5
<1>10. Bad \subseteq Nodes /\ \A r \in Nodes : Depth[r] \in Nat
  BY SchemaFacts
<1>11. Bad = {}
  <2> HIDE DEF Bad
  <2> QED
    BY <1>9, <1>10, NoneBad
<1> QED
  BY <1>11 DEF DeclaredSecrets

-----------------------------------------------------------------------------
(* The validators accept what the schema says *)

SoundBelow(s) ==
  \A sub \in SubSchemas(s), w \in Values : \A r \in Parse(sub, w) : Satisfies(sub, r)

\* What satisfies a schema that has no keyword for composite values.
LEMMA SatisfiesPlain ==
  ASSUME NEW s \in Nodes, NEW r \in Values,
         DOMAIN s \cap {"minimum", "maximum", "minItems", "maxItems", "items", "properties",
                        "required", "additionalProperties"} = {},
         Has(s, "const") => r = s.const,
         Has(s, "enum") => r \in ToSet(s.enum),
         Has(s, "oneOf") => \E b \in ToSet(s.oneOf) : Satisfies(b, r),
         Has(s, "type") /\ s # NullSchema => OfType(s.type, r),
         s # NullSchema
  PROVE  Satisfies(s, r)
<1>1. ~Has(s, "items") /\ Properties(s) = <<>> /\ Required(s) = {} /\ ~IsStrict(s)
  BY DEF Has, Properties, Required, IsStrict
<1>2. Keys(s) = {}
  BY <1>1 DEF Keys, ToSet
<1>3. \A n : Within(n, s, "minimum", "maximum") /\ Within(n, s, "minItems", "maxItems")
  BY DEF Within, Has
<1>4. SatisfiesGiven(SatisfiesOf, s, r)
  BY <1>1, <1>2, <1>3 DEF SatisfiesGiven, Satisfies
<1> QED
  BY <1>4, SatisfiesUnfolds

\* A scalar satisfies a schema of its type.
LEMMA SatisfiesScalar ==
  ASSUME NEW s \in Nodes, NEW r \in Values,
         ~Has(s, "const"), ~Has(s, "enum"), ~Has(s, "oneOf"),
         Has(s, "type") /\ OfType(s.type, r), s # NullSchema,
         r.t \notin {"array", "object"},
         r.t = "number" => Within(r.num, s, "minimum", "maximum")
  PROVE  Satisfies(s, r)
<1>1. SatisfiesGiven(SatisfiesOf, s, r)
  BY DEF SatisfiesGiven
<1> QED
  BY <1>1, SatisfiesUnfolds

LEMMA NotNull ==
  ASSUME NEW s, s = NullSchema
  PROVE  Form(s) = "null" /\ DOMAIN s = {"type"} /\ s.type = "null"
<1>1. DOMAIN s = {"type"} /\ s.type = "null"
  BY DEF NullSchema
<1> QED
  BY <1>1 DEF Form, Has

\* The fields that a shape makes of an object satisfy the declarations.
LEMMA SoundShape ==
  ASSUME NEW s \in Nodes, NEW v \in Values, SoundBelow(s), Form(s) = "object",
         NEW r \in Parse(s, v)
  PROVE  Satisfies(s, r)
<1> DEFINE shape == ConvertObjectShape(s)
<1>1. r \in ParseShape(ParseOf, shape, IsStrict(s), v)
  BY ParseUnfolds, Forms
<1>2. IsShape(shape) /\ DOMAIN shape = Keys(s)
  BY ConvertedShape
<1>3. \A k \in Keys(s) : \A w : ParseField(ParseOf, shape[k], w) = Parse(Property(s, k), w)
  BY ConvertedShape DEF Parse
<1>4. \A k \in Keys(s) : shape[k].optional <=> k \notin Required(s)
  BY ConvertedShape
<1> HIDE DEF shape
<1>5. MaxDepth \in Level /\ v \in ValuesTo[MaxDepth]
  BY ValuesUnfold DEF Level, Values
<1>6. v.t = "object"
  BY <1>1 DEF ParseShape
<1>7. MaxDepth - 1 \in Level
  BY ValuesUnfold DEF Level
<1>8. ASSUME NEW k \in Keys(s), NEW w \in Values
      PROVE  Faithful(Parse(Property(s, k), w), w)
  BY PropertyFacts, ParseUnfolds
<1>9. NoDeeper(ParseOf, shape, MaxDepth)
  BY <1>2, <1>3, <1>7, <1>8 DEF NoDeeper, Faithful
<1>10. /\ v.fields \in [Names -> ValuesTo[MaxDepth - 1]]
       /\ r \in Values /\ r.t = "object" /\ r.fields \in [Names -> ValuesTo[MaxDepth - 1]]
       /\ ShapeMakes(ParseOf, shape, IsStrict(s), v.fields, r.fields)
  BY <1>1, <1>2, <1>5, <1>9, ShapeFacts DEF Values
<1>11. ASSUME NEW k \in Names
       PROVE  /\ v.fields[k] \in ValuesTo[MaxDepth - 1] /\ v.fields[k] \in Values
              /\ r.fields[k] \in IF k \in Given(v.fields) \cap Keys(s)
                                 THEN Parse(Property(s, k), v.fields[k]) ELSE {Undefined}
  BY <1>2, <1>3, <1>7, <1>10, UndefinedIsValue DEF ShapeMakes
<1>12. Given(r.fields) \subseteq Keys(s)
  BY <1>11 DEF Given
<1>13. ASSUME NEW k \in Keys(s) \cap Given(r.fields)
       PROVE  Satisfies(Property(s, k), r.fields[k])
  <2>1. k \in Names /\ r.fields[k] # Undefined
    BY DEF Given
  <2>2. r.fields[k] \in Parse(Property(s, k), v.fields[k]) /\ v.fields[k] \in Values
    BY <1>11, <2>1
  <2>3. Property(s, k) \in SubSchemas(s)
    BY PropertyFacts
  <2> QED
    BY <2>2, <2>3 DEF SoundBelow
<1>14. ASSUME NEW k \in Required(s) PROVE k \in Given(r.fields)
  <2>1. k \in Keys(s) /\ k \in Names
    BY SchemaFacts, PropertyFacts DEF Coherent
  <2>2. k \in Given(v.fields)
    BY <1>2, <1>4, <1>10, <2>1 DEF ShapeMakes
  <2>3. v.fields[k] # Undefined
    BY <2>2 DEF Given
  <2>4. v.fields[k].t # "undefined"
    BY <1>7, <1>11, <2>1, <2>3, ValueCases
  <2>5. r.fields[k] \in Parse(Property(s, k), v.fields[k])
    BY <1>11, <2>1, <2>2
  <2>6. r.fields[k].t # "undefined"
    BY <1>8, <1>11, <2>1, <2>4, <2>5 DEF Faithful
  <2> QED
    BY <2>1, <2>6 DEF Given, Undefined
<1>15. /\ ~Has(s, "const") /\ ~Has(s, "enum") /\ ~Has(s, "oneOf")
       /\ Has(s, "type") /\ s.type = "object" /\ s # NullSchema
  BY FormFacts, NotNull
<1>16. SatisfiesGiven(SatisfiesOf, s, r)
  BY <1>10, <1>12, <1>13, <1>14, <1>15 DEF SatisfiesGiven, Satisfies, OfType
<1> QED
  BY <1>10, <1>16, SatisfiesUnfolds

LEMMA SoundItems ==
  ASSUME NEW s \in Nodes, NEW v \in Values, SoundBelow(s), Form(s) = "array",
         NEW r \in Parse(s, v)
  PROVE  Satisfies(s, r)
<1>1. r \in ParseItems(ParseOf, s, v)
  BY ParseUnfolds, Forms
<1>2. MaxDepth \in Level /\ v \in ValuesTo[MaxDepth] /\ MaxDepth - 1 \in Level
  BY ValuesUnfold DEF Level, Values
<1>3. Has(s, "items") => s.items \in SubSchemas(s) /\ s.items \in Nodes
  BY SchemaFacts DEF SubSchemas
<1>4. ASSUME NEW w \in Values, w \in ValuesTo[MaxDepth - 1]
      PROVE  ItemOf(ParseOf, s, w) \subseteq ValuesTo[MaxDepth - 1]
  <2>1. CASE Has(s, "items")
    <3>1. Faithful(Parse(s.items, w), w)
      BY <1>3, <2>1, ParseUnfolds
    <3> QED
      BY <1>2, <1>4, <2>1, <3>1 DEF Faithful, ItemOf, Parse
  <2>2. CASE ~Has(s, "items")
    BY <1>4, <2>2 DEF ItemOf
  <2> QED
    BY <2>1, <2>2
<1>5. /\ v.items \in Seq(ValuesTo[MaxDepth - 1])
      /\ r \in Values /\ r.t = "array"
      /\ ItemsMake(ParseOf, s, v.items, r.items) /\ Len(r.items) = Len(v.items)
  BY <1>1, <1>2, <1>4, ItemsFacts DEF Values
<1>6. ASSUME Has(s, "items"), NEW i \in DOMAIN r.items PROVE Satisfies(s.items, r.items[i])
  <2>1. i \in DOMAIN v.items /\ v.items[i] \in Values
    BY <1>2, <1>5, UndefinedIsValue DEF ItemsMake
  <2>2. r.items[i] \in Parse(s.items, v.items[i])
    BY <1>5, <1>6, <2>1 DEF ItemsMake, ItemOf, Parse
  <2> QED
    BY <1>3, <1>6, <2>1, <2>2 DEF SoundBelow
<1>7. /\ ~Has(s, "const") /\ ~Has(s, "enum") /\ ~Has(s, "oneOf")
      /\ Has(s, "type") /\ s.type = "array" /\ s # NullSchema
  BY FormFacts, NotNull
<1>8. Within(Len(r.items), s, "minItems", "maxItems")
  BY <1>5 DEF ItemsMake
<1>9. SatisfiesGiven(SatisfiesOf, s, r)
  BY <1>5, <1>6, <1>7, <1>8 DEF SatisfiesGiven, Satisfies, OfType
<1> QED
  BY <1>5, <1>9, SatisfiesUnfolds

LEMMA SoundUnion ==
  ASSUME NEW s \in Nodes, NEW r \in Values, Form(s) = "oneOf",
         NEW i \in DOMAIN s.oneOf, Satisfies(s.oneOf[i], r)
  PROVE  Satisfies(s, r)
<1>1. Has(s, "oneOf") /\ DOMAIN s \subseteq {"oneOf", "description"} /\ s # NullSchema
  BY FormFacts, NotNull
<1>2. ~Has(s, "const") /\ ~Has(s, "enum") /\ ~Has(s, "type")
  BY <1>1 DEF Has
<1>3. \E b \in ToSet(s.oneOf) : Satisfies(b, r)
  BY DEF ToSet
<1> QED
  BY <1>1, <1>2, <1>3, SatisfiesPlain

LEMMA SoundStep ==
  ASSUME NEW s \in Nodes, NEW v \in Values, SoundBelow(s), NEW r \in Parse(s, v)
  PROVE  Satisfies(s, r)
<1>0. r \in ParseGiven(ParseOf, s, v)
  BY ParseUnfolds
<1>1. r \in Values /\ MaxDepth \in Level /\ r.t = v.t
  BY ParseUnfolds, ValuesUnfold DEF Faithful, Level, Values
<1>2. WellTyped(s) /\ Coherent(s)
  BY SchemaFacts
<1>3. CASE Form(s) = "const"
  <2>1. /\ Has(s, "const") /\ DOMAIN s \subseteq {"const", "type", "description"}
        /\ s # NullSchema /\ r = s.const
    BY <1>0, <1>3, FormFacts, Forms, NotNull
  <2>2. ~Has(s, "enum") /\ ~Has(s, "oneOf") /\ (Has(s, "type") => OfType(s.type, r))
    BY <1>2, <1>3, <2>1 DEF Has, Coherent
  <2> QED
    BY <1>1, <2>1, <2>2, SatisfiesPlain
<1>4. CASE Form(s) = "enum"
  <2>1. /\ Has(s, "enum") /\ DOMAIN s \subseteq {"enum", "type", "description"}
        /\ s # NullSchema /\ r \in ToSet(s.enum)
    BY <1>0, <1>4, FormFacts, Forms, NotNull
  <2>2. ~Has(s, "const") /\ ~Has(s, "oneOf") /\ (Has(s, "type") => OfType(s.type, r))
    BY <1>2, <1>4, <2>1 DEF Has, Coherent
  <2> QED
    BY <1>1, <2>1, <2>2, SatisfiesPlain
<1>5. CASE Form(s) = "oneOf"
  <2>1. s.oneOf \in Seq(Nodes) /\ \A i \in DOMAIN s.oneOf : s.oneOf[i] \in SubSchemas(s)
    BY <1>5, FormFacts
  <2>2. r \in ZUnion(OptionsMake(ParseOf, s, v))
    BY <1>0, <1>5, Forms
  <2>3. DOMAIN OptionsMake(ParseOf, s, v) \subseteq Nat
    BY <2>1 DEF OptionsMake
  <2>4. \E i \in DOMAIN OptionsMake(ParseOf, s, v) : r \in OptionsMake(ParseOf, s, v)[i]
    BY <2>2, <2>3, UnionFacts
  <2>5. PICK i \in DOMAIN s.oneOf : r \in Parse(s.oneOf[i], v)
    BY <2>4 DEF OptionsMake, Parse
  <2>6. Satisfies(s.oneOf[i], r)
    BY <2>1, <2>5 DEF SoundBelow
  <2> QED
    BY <1>1, <1>5, <2>6, SoundUnion
<1>6. CASE Form(s) = "object"
  BY <1>6, SoundShape
<1>7. CASE Form(s) = "array"
  BY <1>7, SoundItems
<1>8. CASE Form(s) \in {"string", "boolean", "number", "integer"}
  <2>1. /\ ~Has(s, "const") /\ ~Has(s, "enum") /\ ~Has(s, "oneOf")
        /\ Has(s, "type") /\ s.type = Form(s) /\ s # NullSchema
    BY <1>8, FormFacts, NotNull
  <2>2. CASE Form(s) \in {"string", "boolean"}
    <3>1. r = v /\ v.t = Form(s)
      BY <1>0, <2>2, Forms
    <3>2. OfType(s.type, r) /\ r.t \notin {"array", "object", "number"}
      BY <2>1, <2>2, <3>1 DEF OfType
    <3> QED
      BY <1>1, <2>1, <3>2, SatisfiesScalar
  <2>3. CASE Form(s) \in {"number", "integer"}
    <3>1. /\ r = v /\ v.t = "number" /\ (Form(s) = "integer" => IsInteger(v.num))
          /\ Within(v.num, s, "minimum", "maximum")
      BY <1>0, <2>3, Forms
    <3>2. OfType(s.type, r) /\ r.t \notin {"array", "object"}
      BY <2>1, <2>3, <3>1 DEF OfType
    <3> QED
      BY <1>1, <2>1, <3>1, <3>2, SatisfiesScalar
  <2> QED
    BY <1>8, <2>2, <2>3
<1>9. CASE Form(s) \notin ScalarTypes \cup {"const", "enum", "oneOf", "object", "array"}
  BY <1>0, <1>9, Forms
<1> QED
  BY <1>3, <1>4, <1>5, <1>6, <1>7, <1>8, <1>9 DEF ScalarTypes

\* What a schema's validator makes of a value satisfies the schema.
LEMMA Sound ==
  ASSUME NEW s \in Nodes, NEW v \in Values, NEW r \in Parse(s, v)
  PROVE  Satisfies(s, r)
<1> DEFINE Bad == {c \in Nodes : \E w \in Values : \E x \in Parse(c, w) : ~Satisfies(c, x)}
<1>1. ASSUME NEW c \in Bad PROVE \E d \in Bad : Depth[d] < Depth[c]
  <2> SUFFICES ASSUME \A d \in Nodes : Depth[d] < Depth[c] => d \notin Bad PROVE FALSE
    OBVIOUS
  <2>1. \A sub \in SubSchemas(c) : sub \in Nodes /\ sub \notin Bad
    BY SchemaFacts
  <2>2. SoundBelow(c)
    BY <2>1 DEF SoundBelow
  <2> QED
    BY <2>2, SoundStep
<1>2. Bad \subseteq Nodes /\ \A c \in Nodes : Depth[c] \in Nat
  BY SchemaFacts
<1>3. Bad = {}
  <2> HIDE DEF Bad
  <2> QED
    BY <1>1, <1>2, NoneBad
<1> QED
  BY <1>3

LEMMA FullForms ==
  ASSUME NEW s \in Nodes, NEW v \in Values, s # NullSchema
  PROVE  /\ Wraps(s) \/ ~Has(s, "oneOf") \/ TagKeys(s.oneOf) = {} => ParseFull(s, v) = Parse(s, v)
         /\ ~Wraps(s) /\ Has(s, "oneOf") /\ TagKeys(s.oneOf) # {} =>
              ParseFull(s, v) = ParseDiscriminated(s.oneOf, v)
         /\ ~Wraps(s) /\ ~Has(s, "oneOf") => Form(s) = "object"
<1>1. CASE Wraps(s)
  BY <1>1 DEF ParseFull
<1>2. CASE ~Wraps(s) /\ ~Has(s, "oneOf")
  <2>1. Form(s) = "object"
    BY <1>2, FormFacts DEF Wraps
  <2>2. Parse(s, v) = ParseShape(ParseOf, ConvertObjectShape(s), IsStrict(s), v)
    BY <2>1, ParseUnfolds, Forms
  <2> QED
    BY <1>2, <2>1, <2>2 DEF ParseFull
<1>3. CASE ~Wraps(s) /\ Has(s, "oneOf")
  <2>1. Form(s) = "oneOf"
    BY <1>3, FormFacts
  <2>2. Parse(s, v) = ZUnion(OptionsMake(ParseOf, s, v))
    BY <2>1, ParseUnfolds, Forms
  <2>3. ZUnion(OptionsMake(ParseOf, s, v)) = ZUnion([i \in DOMAIN s.oneOf |-> Parse(s.oneOf[i], v)])
    BY DEF OptionsMake, Parse
  <2>4. CASE TagKeys(s.oneOf) = {}
    BY <1>3, <2>2, <2>3, <2>4 DEF ParseFull
  <2>5. CASE TagKeys(s.oneOf) # {}
    BY <1>3, <2>5 DEF ParseFull
  <2> QED
    BY <1>3, <2>4, <2>5
<1> QED
  BY <1>1, <1>2, <1>3

LEMMA NullMakes ==
  ASSUME NEW v \in Values, NullSchema \in Nodes
  PROVE  /\ \A r : r \in ParseFull(NullSchema, v) <=> r = v /\ v = Undefined
         /\ Satisfies(NullSchema, Undefined)
         /\ \A w \in Values : Satisfies(NullSchema, w) => w = Undefined
<1>1. v.t = "undefined" <=> v = Undefined
  BY ValuesUnfold, ValueCases DEF Values, Level, Undefined
<1>2. \A r : r \in ParseFull(NullSchema, v) <=> r = v /\ v.t = "undefined"
  <2>1. PICK s : s = NullSchema
    OBVIOUS
  <2>2. ParseFull(s, v) = ZType("undefined", v)
    BY <2>1 DEF ParseFull, Wraps
  <2> QED
    BY <2>1, <2>2 DEF ZType
<1>3. Undefined \in Values /\ Undefined.t = "undefined"
  BY UndefinedIsValue, ValuesUnfold DEF Level, Undefined
<1>4. ~Has(NullSchema, "const") /\ ~Has(NullSchema, "enum") /\ ~Has(NullSchema, "oneOf")
  BY NotNull DEF Has
<1>5. SatisfiesGiven(SatisfiesOf, NullSchema, Undefined)
  BY <1>3, <1>4 DEF SatisfiesGiven
<1>6. ASSUME NEW w \in Values, Satisfies(NullSchema, w) PROVE w = Undefined
  BY <1>6, SatisfiesUnfolds DEF SatisfiesGiven
<1> QED
  BY <1>1, <1>2, <1>3, <1>5, <1>6, SatisfiesUnfolds

\* The validator of a schema returns only values that satisfy it, for all schemas and values
\* (schema-to-zod.ts jsonSchemaToZod).
THEOREM ValidatorsSound ==
  ASSUME NEW s \in Nodes, NEW v \in Values, NEW r \in ParseFull(s, v)
  PROVE  r \in Values /\ Satisfies(s, r)
<1>0. MaxDepth \in Level /\ Values = ValuesTo[MaxDepth]
  BY ValuesUnfold DEF Level, Values
<1>1. CASE s = NullSchema
  BY <1>1, NullMakes
<1>2. CASE s # NullSchema /\ r \in Parse(s, v)
  BY <1>0, <1>2, Sound, ParseUnfolds DEF Faithful
<1>3. CASE s # NullSchema /\ ~Wraps(s) /\ Has(s, "oneOf") /\ TagKeys(s.oneOf) # {}
  <2>1. Form(s) = "oneOf" /\ s.oneOf \in Seq(Nodes)
    BY <1>3, FormFacts
  <2>2. r \in ParseDiscriminated(s.oneOf, v)
    BY <1>3, FullForms
  <2>3. PICK i \in DOMAIN s.oneOf : r \in Parse(s.oneOf[i], v)
    BY <2>2 DEF ParseDiscriminated
  <2>4. s.oneOf[i] \in Nodes
    BY <2>1
  <2>5. r \in Values /\ Satisfies(s.oneOf[i], r)
    BY <1>0, <2>3, <2>4, Sound, ParseUnfolds DEF Faithful
  <2> QED
    BY <2>1, <2>5, SoundUnion
<1> QED
  BY <1>1, <1>2, <1>3, FullForms

-----------------------------------------------------------------------------
(* The curated tools *)

\* The arguments that curated tools declare secret.
SecretKeys == {"password", "value", "appKey", "appId", "secret"}

ToolOk(c) ==
  /\ c.choice \notin c.always \cup c.optional
  /\ c.always \cap c.optional = {} /\ c.secrets \in Seq(SecretKeys)
  /\ \A a \in DOMAIN c.actions :
       /\ c.actions[a].needs \subseteq c.optional /\ c.actions[a].takes \subseteq c.optional
       /\ \A x, y \in ArgumentsOf(c, a) : InputKey(c, x) = InputKey(c, y) => x = y
       /\ \A x \in ArgumentsOf(c, a) : InputKey(c, x) # c.choice

\* What a tool declares: every argument of an action is declared, none is the choice.
Declares(c) ==
  /\ c.choice \notin c.always \cup c.optional
  /\ c.always \cap c.optional = {} /\ c.secrets \in Seq(SecretKeys)
  /\ \A a \in DOMAIN c.actions :
       c.actions[a].needs \subseteq c.optional /\ c.actions[a].takes \subseteq c.optional

\* A tool that renames no argument keeps its keys apart.
LEMMA SameKeysOk == \A c : Declares(c) /\ c.renamed = SameKeys => ToolOk(c)
<1> SUFFICES ASSUME NEW c, Declares(c), c.renamed = SameKeys
             PROVE ToolOk(c)
  OBVIOUS
<1>1. \A x : InputKey(c, x) = x
  BY DEF InputKey, SameKeys
<1>2. \A a \in DOMAIN c.actions : ArgumentsOf(c, a) \subseteq c.always \cup c.optional
  BY DEF Declares, ArgumentsOf
<1> QED
  BY <1>1, <1>2 DEF Declares, ToolOk

LEMMA ToolsAreOk == \A c \in Tools : ToolOk(c)
<1>0. /\ <<"password">> \in Seq(SecretKeys) /\ <<"value">> \in Seq(SecretKeys)
      /\ <<"appKey", "appId">> \in Seq(SecretKeys) /\ <<"secret">> \in Seq(SecretKeys)
  BY DEF SecretKeys
<1> USE DEF Declares, Action, Tool, Needs
<1>1. \A c : c = SwmGroup => Declares(c) /\ c.renamed = SameKeys
  BY <1>0 DEF SwmGroup
<1>2. \A c : c = SwmProfile => Declares(c) /\ c.renamed = SameKeys
  BY DEF SwmProfile
<1>3. \A c : c = SwmDetail => Declares(c) /\ c.renamed = SameKeys
  BY <1>0 DEF SwmDetail
<1>4. \A c : c = SwmMaintain => Declares(c) /\ c.renamed = SameKeys
  BY DEF SwmMaintain
<1>5. \A c : c = SwmSearch => Declares(c) /\ c.renamed = SameKeys
  BY DEF SwmSearch
<1>6. \A c : c = SwmDb => Declares(c) /\ c.renamed = SameKeys
  BY DEF SwmDb
<1>7. \A c : c = SwmAlert => Declares(c) /\ c.renamed = SameKeys
  BY DEF SwmAlert
<1>8. \A c : c = SwmLog => Declares(c) /\ c.renamed = SameKeys
  BY DEF SwmLog
<1>9. \A c : c = SwmSnmp => Declares(c) /\ c.renamed = SameKeys
  BY DEF SwmSnmp
<1>10. \A c : c = CsmAppeSet => Declares(c) /\ c.renamed = SameKeys
  BY DEF CsmAppeSet
<1>11. \A c : c = CsmUcf => Declares(c) /\ c.renamed = SameKeys
  BY DEF CsmUcf
<1>12. \A c : c = CsmWcf => ToolOk(c)
  BY DEF CsmWcf, ToolOk, InputKey, ArgumentsOf
<1>13. \A c : c = CsmDnsf => ToolOk(c)
  BY DEF CsmDnsf, ToolOk, InputKey, ArgumentsOf
<1>14. \A c : c = IpfSet => Declares(c) /\ c.renamed = SameKeys
  BY DEF IpfSet
<1>15. \A c : c = IpfRule => Declares(c) /\ c.renamed = SameKeys
  BY DEF IpfRule
<1>16. \A c : c = LdapSet => Declares(c) /\ c.renamed = SameKeys
  BY <1>0 DEF LdapSet
<1>17. \A c : c = LdapUser => Declares(c) /\ c.renamed = SameKeys
  BY DEF LdapUser
<1>18. \A c : c = HsportalSetup => Declares(c) /\ c.renamed = SameKeys
  BY <1>0 DEF HsportalSetup
<1>19. \A c : c = TacacsplusSet => Declares(c) /\ c.renamed = SameKeys
  BY <1>0 DEF TacacsplusSet
<1>20. \A c : c = QosClass => Declares(c) /\ c.renamed = SameKeys
  BY DEF QosClass
<1>21. \A c : c = WanFailover => Declares(c) /\ c.renamed = SameKeys
  BY DEF WanFailover
<1>22. \A c : c = WanBudget => ToolOk(c)
  BY DEF WanBudget, ToolOk, InputKey, ArgumentsOf
<1>23. \A c : c = WanVlan => ToolOk(c)
  BY DEF WanVlan, ToolOk, InputKey, ArgumentsOf
<1>24. \A c : c = MngtDefenseworm => Declares(c) /\ c.renamed = SameKeys
  BY DEF MngtDefenseworm
<1> HIDE DEF Declares, Action, Tool, Needs
<1> QED
  BY SameKeysOk, <1>1, <1>2, <1>3, <1>4, <1>5, <1>6, <1>7, <1>8, <1>9, <1>10, <1>11,
     <1>12, <1>13, <1>14, <1>15, <1>16, <1>17, <1>18, <1>19, <1>20, <1>21, <1>22,
     <1>23, <1>24 DEF Tools

-----------------------------------------------------------------------------
(* From the arguments of a call to the input *)

\* The fields of an object that is a value.
FieldSpace == [Names -> ValuesTo[MaxDepth - 1]]

LEMMA TopLevel ==
  /\ MaxDepth \in Level /\ MaxDepth - 1 \in Level /\ MaxDepth # 0 /\ Values = ValuesTo[MaxDepth]
  /\ Undefined \in ValuesTo[MaxDepth - 1]
  /\ Undefined \in Values
  /\ \A v \in ValuesTo[MaxDepth - 1] : v \in Values
<1>1. MaxDepth \in Level /\ MaxDepth - 1 \in Level /\ MaxDepth # 0 /\ Values = ValuesTo[MaxDepth]
  BY ValuesUnfold DEF Level, Values
<1> QED
  BY <1>1, UndefinedIsValue

LEMMA ToolCases ==
  ASSUME NEW t \in AllTools
  PROVE  /\ SchemaOf(t) \in Nodes /\ t.generated \in BOOLEAN
         /\ t.generated => SchemaOf(t) = t.schema /\ t.schema \in Nodes
         /\ ~t.generated => SchemaOf(t) = SdkSchema[t.curated] /\ t.curated \in Tools
<1>1. CASE t \in [generated : {TRUE}, schema : Schemas]
  BY <1>1, ToolAssumption DEF SchemaOf
<1>2. CASE t \in [generated : {FALSE}, curated : Tools]
  <2>1. t.generated = FALSE /\ t.curated \in Tools
    BY <1>2
  <2>2. SdkSchema[t.curated] \in Nodes
    BY <2>1, ToolAssumption
  <2> QED
    BY <2>1, <2>2 DEF SchemaOf
<1> QED
  BY <1>1, <1>2 DEF AllTools

\* What is assumed and what holds of the arguments of a curated tool.
LEMMA CuratedFacts ==
  ASSUME NEW c \in Tools
  PROVE  /\ c.choice \in Arguments(c) /\ Arguments(c) \subseteq Names
         /\ DOMAIN c.actions \subseteq Symbols /\ Arguments(c) \subseteq Symbols
         /\ \A a \in Arguments(c) : InputKey(c, a) \in Names
         /\ \A a \in DOMAIN c.actions :
              /\ ArgumentsOf(c, a) \subseteq Arguments(c)
              /\ c.actions[a].needs \subseteq c.optional
<1>1. /\ Arguments(c) \subseteq Names /\ \A a \in DOMAIN c.renamed : c.renamed[a] \in Names
      /\ DOMAIN c.actions \cup Arguments(c) \subseteq Symbols \ {Marker}
  BY ToolAssumption
<1>2. \A a \in DOMAIN c.actions :
        c.actions[a].needs \subseteq c.optional /\ c.actions[a].takes \subseteq c.optional
  BY ToolsAreOk DEF ToolOk
<1>3. \A a \in DOMAIN c.actions : ArgumentsOf(c, a) \subseteq Arguments(c)
  BY <1>2 DEF ArgumentsOf, Arguments
<1>4. \A a \in Arguments(c) : InputKey(c, a) \in Names
  BY <1>1 DEF InputKey
<1>5. c.choice \in Arguments(c)
  BY DEF Arguments
<1> QED
  BY <1>1, <1>2, <1>3, <1>4, <1>5

LEMMA SymbolText ==
  ASSUME NEW a \in Symbols
  PROVE  Str(<<a>>) \in ValuesTo[MaxDepth - 1] /\ Str(<<a>>).t = "string" /\ Str(<<a>>).str = <<a>>
<1>1. Str(<<a>>) \in Scalars
  BY DEF Scalars, Str
<1>2. Scalars \subseteq ValuesTo[MaxDepth - 1]
  BY TopLevel, ValueLevels DEF Level
<1> QED
  BY <1>1, <1>2 DEF Str

\* A call of a curated tool chooses an action, and every other argument is a text or missing.
CuratedCall(c, given) ==
  \E action \in DOMAIN c.actions :
    /\ given[c.choice] = Str(<<action>>)
    /\ \A k \in c.always : given[k] = Str(<<k>>)
    /\ \A k \in c.optional : given[k] \in {Str(<<k>>), Undefined}

\* A call of an action with some of the optional arguments.
CallOf(c, action, optional) ==
  [k \in Names |-> CASE k = c.choice -> Str(<<action>>)
                     [] k \in c.always \cup optional -> Str(<<k>>)
                     [] OTHER -> Undefined]

LEMMA CallFacts ==
  ASSUME NEW t \in AllTools, NEW given \in Calls(t)
  PROVE  given \in FieldSpace /\ (~t.generated => CuratedCall(t.curated, given))
<1>1. CASE t.generated
  <2>0. NoFields \in FieldSpace
    BY TopLevel DEF FieldSpace, NoFields
  <2>1. CASE given = NoFields
    BY <1>1, <2>0, <2>1
  <2>2. ASSUME NEW v \in Inputs, v.t = "object", given = v.fields PROVE given \in FieldSpace
    <3>1. v \in ValuesTo[MaxDepth - 1]
      BY ToolAssumption
    <3>2. PICK n \in Level : n = MaxDepth - 1
      BY TopLevel
    <3>3. v.fields \in [Names -> ValuesTo[n - 1]] /\ n # 0
      BY <2>2, <3>1, <3>2, ValueCases
    <3>4. ValuesTo[n - 1] \subseteq ValuesTo[n]
      BY <3>3, MakeValue
    <3> QED
      BY <2>2, <3>2, <3>3, <3>4 DEF FieldSpace
  <2>3. ASSUME NEW v \in Inputs, given = [NoFields EXCEPT !["input"] = v]
        PROVE  given \in FieldSpace
    <3>1. v \in ValuesTo[MaxDepth - 1]
      BY ToolAssumption
    <3> QED
      BY <2>0, <2>3, <3>1 DEF FieldSpace
  <2> QED
    BY <1>1, <2>1, <2>2, <2>3 DEF Calls
<1>2. CASE ~t.generated
  <2>1. PICK c \in Tools : c = t.curated
    BY <1>2, ToolCases
  <2>1a. given \in UNION {{CallOf(t.curated, action, optional) :
                            optional \in OptionalGiven(t.curated, action)} :
                          action \in DOMAIN t.curated.actions}
    BY <1>2 DEF Calls, CallOf
  <2>1b. PICK action \in DOMAIN c.actions : \E optional \in OptionalGiven(c, action) :
          given = CallOf(c, action, optional)
    BY <2>1, <2>1a
  <2>2. PICK optional \in OptionalGiven(c, action) : given = CallOf(c, action, optional)
    BY <2>1b
  <2>3. c.choice \notin c.always \cup c.optional /\ c.actions[action].needs \subseteq c.optional
    BY ToolsAreOk DEF ToolOk
  <2>4. optional \subseteq c.optional
    BY <2>3 DEF OptionalGiven
  <2>5. /\ c.choice \in Names /\ c.always \subseteq Names /\ c.optional \subseteq Names
        /\ action \in Symbols /\ c.always \subseteq Symbols /\ c.optional \subseteq Symbols
    BY CuratedFacts DEF Arguments
  <2>6. /\ given[c.choice] = Str(<<action>>)
        /\ \A k \in c.always \cup optional : given[k] = Str(<<k>>)
        /\ \A k \in Names : k \notin {c.choice} \cup c.always \cup optional => given[k] = Undefined
    BY <2>2, <2>3, <2>4, <2>5 DEF CallOf
  <2>7. CuratedCall(c, given)
    <3>1. \A k \in c.optional : given[k] \in {Str(<<k>>), Undefined}
      <4>1. ASSUME NEW k \in c.optional, k \notin optional PROVE given[k] \in {Str(<<k>>), Undefined}
        <5>1. k # c.choice
          BY <2>3
        <5>2. CASE k \in c.always
          BY <2>6, <5>2
        <5>3. CASE k \notin c.always
          BY <2>5, <2>6, <4>1, <5>1, <5>3
        <5> QED
          BY <5>2, <5>3
      <4>2. ASSUME NEW k \in c.optional, k \in optional PROVE given[k] \in {Str(<<k>>), Undefined}
        BY <2>6, <4>2
      <4> QED
        BY <4>1, <4>2
    <3> QED
      BY <2>6, <3>1 DEF CuratedCall
  <2>8. ASSUME NEW k \in Names PROVE given[k] \in ValuesTo[MaxDepth - 1]
    <3>1. CASE k = c.choice
      BY <2>5, <2>6, <3>1, SymbolText
    <3>2. CASE k \in c.always \cup optional
      <4>1. k \in Symbols
        BY <2>4, <2>5, <3>2
      <4> QED
        BY <2>6, <3>2, <4>1, SymbolText
    <3>3. CASE k \notin {c.choice} \cup c.always \cup optional
      BY <2>6, <3>3, TopLevel
    <3> QED
      BY <3>1, <3>2, <3>3
  <2>9. given \in FieldSpace
    <3>1. given = [k \in Names |-> given[k]]
      BY <2>2 DEF CallOf
    <3> QED
      BY <2>8, <3>1 DEF FieldSpace
  <2> QED
    BY <1>2, <2>1, <2>7, <2>9
<1> QED
  BY <1>1, <1>2, ToolCases

\* The declarations of a raw shape are schemas.
LEMMA RawShapeFacts ==
  ASSUME NEW s \in Nodes
  PROVE  /\ IsShape(RawShape(s))
         /\ \A k \in DOMAIN RawShape(s) : \A i \in DOMAIN RawShape(s)[k].types :
              RawShape(s)[k].types[i] \in Nodes
<1> DEFINE shape == RawShape(s)
<1>1. CASE s = NullSchema
  <2>1. DOMAIN shape = {}
    BY <1>1 DEF RawShape, Wraps
  <2> HIDE DEF shape
  <2>2. IsShape(shape) /\ \A k \in DOMAIN shape : \A i \in DOMAIN shape[k].types :
                            shape[k].types[i] \in Nodes
    BY <2>1 DEF IsShape
  <2> QED
    BY <2>2 DEF shape
<1>2. CASE Wraps(s)
  <2>1. shape = [k \in {"input"} |-> Field(<<s>>, FALSE)]
    BY <1>2 DEF RawShape, Wraps
  <2>2. DOMAIN shape = {"input"} /\ shape["input"].types = <<s>>
    BY <2>1 DEF Field
  <2> HIDE DEF shape
  <2>3. DOMAIN shape["input"].types = {1} /\ shape["input"].types[1] = s
    BY <2>2
  <2>4. IsShape(shape)
    BY <2>2, <2>3, SchemaAssumption DEF IsShape, IsField
  <2> QED
    BY <2>2, <2>3, <2>4 DEF shape
<1>3. CASE s # NullSchema /\ ~Wraps(s) /\ ~Has(s, "oneOf")
  <2>1. shape = ConvertObjectShape(s)
    BY <1>3 DEF RawShape
  <2>2. IsShape(shape) /\ DOMAIN shape = Keys(s)
    BY <2>1, ConvertedShape
  <2>3. ASSUME NEW k \in DOMAIN shape, NEW i \in DOMAIN shape[k].types
        PROVE  shape[k].types[i] \in Nodes
    <3>1. shape[k].types = <<Property(s, k)>>
      BY <2>1, <2>2 DEF ConvertObjectShape, Field
    <3>2. Property(s, k) \in Nodes
      BY <2>2, PropertyFacts
    <3>3. i = 1
      BY <2>3, <3>1
    <3> QED
      BY <3>1, <3>2, <3>3
  <2> HIDE DEF shape
  <2> QED
    BY <2>2, <2>3 DEF shape
<1>4. CASE s # NullSchema /\ ~Wraps(s) /\ Has(s, "oneOf")
  <2>1. shape = FlattenObjectOneOf(s.oneOf)
    BY <1>4 DEF RawShape
  <2>2. s.oneOf \in Seq(Nodes)
    BY <1>4, FormFacts
  <2>3. DOMAIN s.oneOf \subseteq Nat /\ \A i \in DOMAIN s.oneOf : s.oneOf[i] \in Nodes
    BY <2>2
  <2>4. DOMAIN shape = UNION {Keys(b) : b \in ToSet(s.oneOf)}
    BY <2>1 DEF FlattenObjectOneOf
  <2>5. ToSet(s.oneOf) \subseteq Nodes
    BY <2>2, ElementsOfSeq
  <2>6. DOMAIN shape \subseteq Names
    BY <2>4, <2>5, PropertyFacts
  <2>7. ASSUME NEW k \in DOMAIN shape
        PROVE  /\ DOMAIN shape[k].types \subseteq Nat
               /\ \A i \in DOMAIN shape[k].types : shape[k].types[i] \in Nodes
    <3>1. shape[k].types = [i \in {j \in DOMAIN s.oneOf : k \in Keys(s.oneOf[j])} |->
                              Property(s.oneOf[i], k)]
      BY <2>1, <2>7 DEF FlattenObjectOneOf, Field
    <3> HIDE DEF shape
    <3> QED
      BY <2>3, <3>1, PropertyFacts
  <2> HIDE DEF shape
  <2>8. IsShape(shape)
    BY <2>6, <2>7 DEF IsShape, IsField
  <2> QED
    BY <2>7, <2>8 DEF shape
<1> QED
  BY <1>1, <1>2, <1>3, <1>4

\* What a field of a raw shape makes of a value is of its type, and of its depth.
LEMMA RawFieldFaithful ==
  ASSUME NEW s \in Nodes, NEW k \in DOMAIN RawShape(s), NEW w \in Values
  PROVE  Faithful(ParseField(ParseOf, RawShape(s)[k], w), w)
<1> DEFINE field == RawShape(s)[k]
<1>1. IsField(field) /\ \A i \in DOMAIN field.types : field.types[i] \in Nodes
  BY RawShapeFacts DEF IsShape
<1> HIDE DEF field
<1>2. \A r \in ParseField(ParseOf, field, w) :
        \E i \in DOMAIN field.types : r \in ParseOf[<<field.types[i], w>>]
  BY <1>1, FieldFacts
<1>3. \A i \in DOMAIN field.types : Faithful(ParseOf[<<field.types[i], w>>], w)
  BY <1>1, ParseUnfolds DEF Parse
<1>4. Faithful(ParseField(ParseOf, field, w), w)
  BY <1>2, <1>3 DEF Faithful
<1> QED
  BY <1>4 DEF field

\* What the handler receives are fields of values, and their texts are those of the call.
LEMMA ReceivedFacts ==
  ASSUME NEW t \in AllTools, NEW given \in FieldSpace, NEW r \in Received(t, given)
  PROVE  /\ r.fields \in FieldSpace
         /\ \A k \in Names : r.fields[k].t = "string" => r.fields[k] = given[k]
<1>0. DOMAIN given = Names /\ \A k \in Names : given[k] \in ValuesTo[MaxDepth - 1]
  BY DEF FieldSpace
<1>1. CASE t.generated
  <2>1. PICK shape : shape = RawShape(t.schema)
    OBVIOUS
  <2>2. t.schema \in Nodes
    BY <1>1, ToolCases
  <2>3. IsShape(shape)
    BY <2>1, <2>2, RawShapeFacts
  <2>4. \A k \in DOMAIN shape, w \in Values : Faithful(ParseField(ParseOf, shape[k], w), w)
    BY <2>1, <2>2, RawFieldFaithful
  <2>5. NoDeeper(ParseOf, shape, MaxDepth)
    BY <2>4, TopLevel DEF NoDeeper, Faithful
  <2>6. PICK v : v = Obj(given)
    OBVIOUS
  <2>7. v \in ValuesTo[MaxDepth] /\ \A k \in Names : v.fields[k] = given[k]
    BY <1>0, <2>6, TopLevel, ObjFacts
  <2>8. r \in ParseShape(ParseOf, shape, FALSE, v)
    BY <1>1, <2>1, <2>6 DEF Received
  <2>9. /\ r.fields \in FieldSpace
        /\ ShapeMakes(ParseOf, shape, FALSE, v.fields, r.fields)
    BY <2>3, <2>5, <2>7, <2>8, TopLevel, ShapeFacts DEF FieldSpace
  <2>10. ASSUME NEW k \in Names, r.fields[k].t = "string" PROVE r.fields[k] = given[k]
    <3>1. r.fields[k] # Undefined
      BY <2>10 DEF Undefined
    <3>2. k \in DOMAIN shape /\ r.fields[k] \in ParseField(ParseOf, shape[k], v.fields[k])
      BY <2>9, <3>1 DEF ShapeMakes
    <3>3. v.fields[k] \in ValuesTo[MaxDepth - 1] /\ v.fields[k] \in Values
      BY <1>0, <2>7, TopLevel
    <3>4. Faithful(ParseField(ParseOf, shape[k], v.fields[k]), v.fields[k])
      BY <2>4, <3>2, <3>3
    <3>5. v.fields[k].t = "string"
      BY <2>10, <3>2, <3>4 DEF Faithful
    <3>6. v.fields[k] \in Scalars
      BY <3>3, <3>5, TopLevel, ValueCases
    <3> QED
      BY <2>7, <3>2, <3>4, <3>6 DEF Faithful
  <2> QED
    BY <2>9, <2>10
<1>2. CASE ~t.generated
  <2>1. PICK f : f = [k \in Arguments(t.curated) |-> given[k]]
    OBVIOUS
  <2>2. r = Obj(f)
    BY <1>2, <2>1 DEF Received
  <2>3. Arguments(t.curated) \subseteq Names
    BY <1>2, ToolCases, CuratedFacts
  <2>4. DOMAIN f \subseteq Names /\ \A k \in DOMAIN f : f[k] = given[k]
    BY <2>1, <2>3
  <2>5. /\ r.fields \in FieldSpace
        /\ \A k \in Names : r.fields[k] = IF k \in DOMAIN f THEN f[k] ELSE Undefined
    BY <1>0, <2>2, <2>4, TopLevel, ObjFacts DEF FieldSpace
  <2> QED
    BY <2>4, <2>5 DEF Undefined
<1> QED
  BY <1>1, <1>2, ToolCases

\* What toInput of a curated tool makes of the fields it receives.
ActionOf(c, fields) == Head(fields[c.choice].str)
PickedOf(c, fields) == Picked(c, ActionOf(c, fields), Given(fields))
InputKeys(c, picked) == {c.choice} \cup {InputKey(c, a) : a \in picked}
CuratedInput(c, fields) ==
  Obj([k \in InputKeys(c, PickedOf(c, fields)) |->
         IF k = c.choice THEN fields[k]
         ELSE fields[CHOOSE a \in PickedOf(c, fields) : InputKey(c, a) = k]])

LEMMA CuratedToInput ==
  ASSUME NEW t, ~t.generated, NEW fields
  PROVE  /\ ToInputThrows(t.curated, ActionOf(t.curated, fields), Given(fields))
              => \A x : x \notin ToInput(t, fields)
         /\ ~ToInputThrows(t.curated, ActionOf(t.curated, fields), Given(fields))
              => \A x : x \in ToInput(t, fields) <=> x = CuratedInput(t.curated, fields)
BY DEF ToInput, ActionOf, PickedOf, InputKeys, CuratedInput

\* What a curated tool receives: an action, and the arguments given.
CuratedReceived(c, given, fields) ==
  /\ given[c.choice] \in {Str(<<a>>) : a \in DOMAIN c.actions}
  /\ \A k \in Names : fields[k] = IF k \in Arguments(c) THEN given[k] ELSE Undefined
  /\ ActionOf(c, fields) \in DOMAIN c.actions
  /\ fields[c.choice] = Str(<<ActionOf(c, fields)>>)

LEMMA CuratedReceives ==
  ASSUME NEW t \in AllTools, ~t.generated, NEW given \in FieldSpace, NEW r \in Received(t, given)
  PROVE  CuratedReceived(t.curated, given, r.fields)
<1>1. PICK c \in Tools : c = t.curated
  BY ToolCases
<1>2. PICK f : f = [k \in Arguments(c) |-> given[k]]
  OBVIOUS
<1>3. r = Obj(f) /\ AcceptsArguments(c, given)
  BY <1>1, <1>2 DEF Received
<1>4. Arguments(c) \subseteq Names /\ c.choice \in Arguments(c)
  BY CuratedFacts
<1>5. DOMAIN f = Arguments(c) /\ \A k \in DOMAIN f : f[k] \in ValuesTo[MaxDepth - 1]
  BY <1>2, <1>4 DEF FieldSpace
<1>6. \A k \in Names : r.fields[k] = IF k \in DOMAIN f THEN f[k] ELSE Undefined
  BY <1>3, <1>4, <1>5, TopLevel, ObjFacts
<1>7. \A k \in Names : r.fields[k] = IF k \in Arguments(c) THEN given[k] ELSE Undefined
  BY <1>2, <1>5, <1>6
<1>8. PICK a \in DOMAIN c.actions : given[c.choice] = Str(<<a>>)
  BY <1>3 DEF AcceptsArguments
<1>9. r.fields[c.choice] = Str(<<a>>)
  BY <1>4, <1>7, <1>8
<1>10. ActionOf(c, r.fields) = a
  BY <1>9 DEF ActionOf, Str
<1> QED
  BY <1>1, <1>7, <1>8, <1>9, <1>10 DEF CuratedReceived

\* What a curated tool makes of its arguments: an object whose fields are some of them.
LEMMA CuratedInputFacts ==
  ASSUME NEW c \in Tools, NEW given, NEW fields \in FieldSpace, CuratedReceived(c, given, fields)
  PROVE  /\ PickedOf(c, fields) \subseteq ArgumentsOf(c, ActionOf(c, fields))
         /\ CuratedInput(c, fields) \in Values /\ CuratedInput(c, fields).t = "object"
         /\ CuratedInput(c, fields).fields \in FieldSpace
         /\ CuratedInput(c, fields).fields[c.choice] = fields[c.choice]
         /\ \A a \in PickedOf(c, fields) :
              CuratedInput(c, fields).fields[InputKey(c, a)] = fields[a]
         /\ \A k \in Names :
              k \notin InputKeys(c, PickedOf(c, fields)) => CuratedInput(c, fields).fields[k] = Undefined
<1>1. PICK action \in DOMAIN c.actions : action = ActionOf(c, fields)
  BY DEF CuratedReceived
<1>2. PICK picked : picked = PickedOf(c, fields)
  OBVIOUS
<1>3. picked \subseteq ArgumentsOf(c, action)
  BY <1>1, <1>2 DEF PickedOf, Picked, ArgumentsOf
<1>4. /\ c.choice \in Names /\ ArgumentsOf(c, action) \subseteq Names
      /\ \A a \in picked : InputKey(c, a) \in Names /\ a \in Names
  BY <1>3, CuratedFacts
<1>5. PICK keys : keys = InputKeys(c, picked)
  OBVIOUS
<1>6. keys \subseteq Names /\ c.choice \in keys /\ \A a \in picked : InputKey(c, a) \in keys
  BY <1>4, <1>5 DEF InputKeys
<1>7. PICK f : f = [k \in keys |-> IF k = c.choice THEN fields[k]
                                   ELSE fields[CHOOSE a \in picked : InputKey(c, a) = k]]
  OBVIOUS
<1>8. CuratedInput(c, fields) = Obj(f)
  BY <1>2, <1>5, <1>7 DEF CuratedInput
<1>9. DOMAIN f = keys /\ f[c.choice] = fields[c.choice]
  BY <1>6, <1>7
<1>10. ASSUME NEW a \in picked PROVE f[InputKey(c, a)] = fields[a]
  <2>1. InputKey(c, a) # c.choice
    BY <1>3, ToolsAreOk DEF ToolOk
  <2>2. \A x, y \in picked : InputKey(c, x) = InputKey(c, y) => x = y
    BY <1>3, ToolsAreOk DEF ToolOk
  <2>3. PICK b : b = CHOOSE x \in picked : InputKey(c, x) = InputKey(c, a)
    OBVIOUS
  <2>4. b \in picked /\ InputKey(c, b) = InputKey(c, a)
    BY <2>3
  <2>5. b = a
    BY <2>2, <2>4
  <2>6. f[InputKey(c, a)] = fields[b]
    BY <1>6, <1>7, <2>1, <2>3
  <2> QED
    BY <2>5, <2>6
<1>11. \A k \in Names : fields[k] \in ValuesTo[MaxDepth - 1]
  BY DEF FieldSpace
<1>12. ASSUME NEW k \in keys PROVE f[k] \in ValuesTo[MaxDepth - 1]
  <2>1. CASE k = c.choice
    BY <1>4, <1>9, <1>11, <2>1
  <2>2. CASE \E a \in picked : k = InputKey(c, a)
    BY <1>4, <1>10, <1>11, <2>2
  <2> QED
    BY <1>5, <2>1, <2>2 DEF InputKeys
<1>13. /\ Obj(f) \in Values /\ Obj(f).t = "object" /\ Obj(f).fields \in FieldSpace
       /\ \A k \in Names : Obj(f).fields[k] = IF k \in keys THEN f[k] ELSE Undefined
  BY <1>6, <1>9, <1>12, TopLevel, ObjFacts DEF FieldSpace
<1> QED
  BY <1>1, <1>2, <1>3, <1>4, <1>5, <1>6, <1>8, <1>9, <1>10, <1>13

\* What toInput makes of what is received is a value.
LEMMA ToInputFacts ==
  ASSUME NEW t \in AllTools, NEW given \in FieldSpace, NEW r \in Received(t, given),
         NEW v \in ToInput(t, r.fields)
  PROVE  v \in Values
<1>1. r.fields \in FieldSpace
  BY ReceivedFacts
<1>2. CASE t.generated
  <2>1. v = r.fields["input"] \/ v = Undefined \/ v = Obj(r.fields)
    BY <1>2 DEF ToInput, DefaultToInput
  <2>2. r.fields["input"] \in Values
    BY <1>1, TopLevel, SchemaAssumption DEF FieldSpace
  <2>3. DOMAIN r.fields = Names /\ \A k \in Names : r.fields[k] \in ValuesTo[MaxDepth - 1]
    BY <1>1 DEF FieldSpace
  <2>4. Obj(r.fields) \in Values
    BY <2>3, TopLevel, ObjFacts
  <2> QED
    BY <2>1, <2>2, <2>4, TopLevel
<1>3. CASE ~t.generated
  <2>1. CuratedReceived(t.curated, given, r.fields) /\ t.curated \in Tools
    BY <1>3, CuratedReceives, ToolCases
  <2>2. v = CuratedInput(t.curated, r.fields)
    BY <1>3, CuratedToInput
  <2> QED
    BY <1>1, <2>1, <2>2, CuratedInputFacts
<1> QED
  BY <1>2, <1>3, ToolCases

\* What reaches the SDK satisfies its schema.
LEMMA SdkInputFacts ==
  ASSUME NEW t \in AllTools, NEW given \in FieldSpace, NEW r \in Received(t, given),
         NEW x \in SdkInputs(t, r.fields)
  PROVE  x \in Values /\ Satisfies(SchemaOf(t), x)
<1>1. PICK v \in ToInput(t, r.fields) : x \in ParseFull(SchemaOf(t), v)
  BY DEF SdkInputs, Validate
<1>2. v \in Values
  BY ToInputFacts
<1> QED
  BY <1>1, <1>2, ValidatorsSound, ToolCases

\* The SDK renders an input as a text, and JavaScript's String a value.
RenderedAsTexts ==
  \A v \in Values : Frames(v) \in Seq(Symbols) /\ StringOf(v) \in Seq(Symbols)

\* The secret arguments have names, and those received have texts.
LEMMA SecretsFacts ==
  ASSUME RenderedAsTexts, NEW t \in AllTools, NEW fields \in FieldSpace
  PROVE  Redactable(fields, SecretArgs(t))
<1>1. DeclaredSecrets(SchemaOf(t)) \in Seq(Names)
  BY ToolCases, DeclaredNames
<1>2. <<"input">> \in Seq(Names) /\ <<>> \in Seq(Names)
  BY SchemaAssumption
<1>3. ~t.generated => t.curated.secrets \in Seq(Names)
  <2> SUFFICES ASSUME ~t.generated PROVE t.curated.secrets \in Seq(Names)
    OBVIOUS
  <2>1. t.curated \in Tools
    BY ToolCases
  <2>2. PICK s \in Seq(SecretKeys) : s = t.curated.secrets
    BY <2>1, ToolsAreOk DEF ToolOk
  <2>3. ToSet(s) \subseteq Names
    BY <2>1, <2>2, ToolAssumption
  <2>4. \A i \in 1..Len(s) : s[i] \in Names
    BY <2>3 DEF ToSet
  <2>5. s \in Seq(Names)
    BY <2>4
  <2> QED
    BY <2>2, <2>5
<1>4. PICK a \in Seq(Names), b \in Seq(Names) : SecretArgs(t) = a \o b
  BY <1>1, <1>2, <1>3, ToolCases DEF SecretArgs
<1>5. SecretArgs(t) \in Seq(Names)
  BY <1>4
<1>6. ASSUME NEW f \in Names PROVE TextOf(fields[f]) \in Seq(Symbols)
  <2>1. fields[f] \in ValuesTo[MaxDepth - 1]
    BY DEF FieldSpace
  <2>2. fields[f].t = "string" => fields[f].str \in Seq(Symbols)
    BY <2>1, TopLevel, ValueCases
  <2>3. fields[f] \in Values
    BY <2>1, TopLevel
  <2>4. StringOf(fields[f]) \in Seq(Symbols)
    BY <2>3 DEF RenderedAsTexts
  <2>5. <<>> \in Seq(Symbols)
    OBVIOUS
  <2> QED
    BY <2>2, <2>4, <2>5 DEF TextOf
<1> QED
  BY <1>5, <1>6 DEF Redactable

-----------------------------------------------------------------------------
(* The validators of closed schemas accept all that the schema allows, as it is *)

LEMMA ClosedParts ==
  ASSUME NEW s \in Nodes, Closed(s)
  PROVE  (IsObject(s) => IsStrict(s)) /\ \A sub \in SubSchemas(s) : Closed(sub)
<1>1. ClosedGiven(ClosedOf, s)
  BY ClosedUnfolds
<1> QED
  BY <1>1 DEF ClosedGiven, Closed

\* A schema that is converted: those inside are.
LEMMA ConvertedParts ==
  ASSUME NEW s \in Nodes, ~Throws(s)
  PROVE  /\ Form(s) \in ScalarTypes \cup {"const", "enum", "oneOf", "object", "array"}
         /\ Form(s) = "oneOf" => \A i \in DOMAIN s.oneOf : ~Throws(s.oneOf[i])
         /\ Form(s) = "object" => \A k \in Keys(s) : ~Throws(Property(s, k))
         /\ Form(s) = "array" /\ Has(s, "items") => ~Throws(s.items)
<1>1. ~ThrowsGiven(ThrowsOf, s)
  BY ThrowsUnfolds
<1>2. Form(s) = "object" => \A k \in Keys(s) : ~Throws(Property(s, k))
  <2> SUFFICES ASSUME Form(s) = "object", NEW k \in Keys(s) PROVE ~Throws(Property(s, k))
    OBVIOUS
  <2>1. PICK p \in ToSet(Properties(s)) : p.schema = Property(s, k)
    BY PropertyFacts
  <2>2. ~ThrowsOf[p.schema]
    BY <1>1 DEF ThrowsGiven
  <2> QED
    BY <2>1, <2>2 DEF Throws
<1> QED
  BY <1>1, <1>2 DEF ThrowsGiven, Throws

\* A union of validators that leave v alone, one of which accepts it.
LEMMA UnionKeeps ==
  ASSUME NEW results, NEW v, DOMAIN results \subseteq Nat,
         \A i \in DOMAIN results : \A r \in results[i] : r = v,
         NEW j \in DOMAIN results, results[j] = {v}
  PROVE  ZUnion(results) = {v}
<1>1. \A r \in ZUnion(results) : r = v
  BY UnionFacts
<1>2. ZUnion(results) # {}
  BY UnionFacts
<1> QED
  BY <1>1, <1>2

KeepsBelow(s) == \A sub \in SubSchemas(s), w \in Values : \A r \in Parse(sub, w) : r = w

\* What the validator of an object makes of a value.
LEMMA ObjectMakes ==
  ASSUME NEW s \in Nodes, NEW v \in Values, Form(s) = "object", NEW r \in Parse(s, v)
  PROVE  /\ v.t = "object" /\ v.fields \in [Names -> ValuesTo[MaxDepth - 1]]
         /\ r \in Values /\ r.t = "object" /\ r.fields \in [Names -> ValuesTo[MaxDepth - 1]]
         /\ ShapeMakes(ParseOf, ConvertObjectShape(s), IsStrict(s), v.fields, r.fields)
<1> DEFINE shape == ConvertObjectShape(s)
<1>1. r \in ParseShape(ParseOf, shape, IsStrict(s), v)
  BY ParseUnfolds, Forms
<1>2. IsShape(shape) /\ DOMAIN shape = Keys(s)
  BY ConvertedShape
<1>3. \A k \in Keys(s) : \A w : ParseField(ParseOf, shape[k], w) = Parse(Property(s, k), w)
  BY ConvertedShape DEF Parse
<1> HIDE DEF shape
<1>4. MaxDepth \in Level /\ v \in ValuesTo[MaxDepth] /\ MaxDepth - 1 \in Level
  BY ValuesUnfold DEF Level, Values
<1>5. \A k \in Keys(s), w \in Values : Faithful(Parse(Property(s, k), w), w)
  BY PropertyFacts, ParseUnfolds
<1>6. NoDeeper(ParseOf, shape, MaxDepth)
  BY <1>2, <1>3, <1>4, <1>5 DEF NoDeeper, Faithful
<1>7. /\ v.t = "object" /\ v.fields \in [Names -> ValuesTo[MaxDepth - 1]]
      /\ r \in Values /\ r.t = "object" /\ r.fields \in [Names -> ValuesTo[MaxDepth - 1]]
      /\ ShapeMakes(ParseOf, shape, IsStrict(s), v.fields, r.fields)
  BY <1>1, <1>2, <1>4, <1>6, ShapeFacts DEF Values
<1> QED
  BY <1>7 DEF shape

\* An object that forbids undeclared keys strips none.
LEMMA StrictKeeps ==
  ASSUME NEW s \in Nodes, NEW v \in Values, KeepsBelow(s), Form(s) = "object", IsStrict(s),
         NEW r \in Parse(s, v)
  PROVE  r = v
<1> DEFINE shape == ConvertObjectShape(s)
<1>1. /\ v.t = "object" /\ v.fields \in [Names -> ValuesTo[MaxDepth - 1]]
      /\ r \in Values /\ r.t = "object" /\ r.fields \in [Names -> ValuesTo[MaxDepth - 1]]
      /\ ShapeMakes(ParseOf, shape, IsStrict(s), v.fields, r.fields)
  BY ObjectMakes
<1>2. DOMAIN shape = Keys(s)
  BY ConvertedShape
<1>3. \A k \in Keys(s) : \A w : ParseField(ParseOf, shape[k], w) = Parse(Property(s, k), w)
  BY ConvertedShape DEF Parse
<1> HIDE DEF shape
<1>4. MaxDepth \in Level /\ v \in ValuesTo[MaxDepth] /\ MaxDepth - 1 \in Level
  BY ValuesUnfold DEF Level, Values
<1>7. Given(v.fields) \subseteq Keys(s)
  BY <1>1, <1>2 DEF ShapeMakes
<1>8. ASSUME NEW k \in Names PROVE r.fields[k] = v.fields[k]
  <2>1. v.fields[k] \in Values
    BY <1>1, <1>4, UndefinedIsValue
  <2>2. CASE k \in Given(v.fields)
    <3>1. k \in Keys(s)
      BY <1>7, <2>2
    <3>2. r.fields[k] \in Parse(Property(s, k), v.fields[k])
      BY <1>1, <1>2, <1>3, <2>2, <3>1 DEF ShapeMakes
    <3> QED
      BY <2>1, <3>1, <3>2, PropertyFacts DEF KeepsBelow
  <2>3. CASE k \notin Given(v.fields)
    <3>1. r.fields[k] = Undefined
      BY <1>1, <1>2, <2>3 DEF ShapeMakes
    <3> QED
      BY <2>3, <3>1 DEF Given
  <2> QED
    BY <2>2, <2>3
<1>9. r.fields = v.fields
  BY <1>1, <1>8
<1>10. v = [t |-> "object", fields |-> v.fields] /\ r = [t |-> "object", fields |-> r.fields]
  BY <1>1, <1>4, ValueCases DEF Values
<1> QED
  BY <1>9, <1>10

LEMMA ArrayKeeps ==
  ASSUME NEW s \in Nodes, NEW v \in Values, KeepsBelow(s), Form(s) = "array",
         NEW r \in Parse(s, v)
  PROVE  r = v
<1>1. r \in ParseItems(ParseOf, s, v)
  BY ParseUnfolds, Forms
<1>2. MaxDepth \in Level /\ v \in ValuesTo[MaxDepth] /\ MaxDepth - 1 \in Level
  BY ValuesUnfold DEF Level, Values
<1>3. Has(s, "items") => s.items \in SubSchemas(s) /\ s.items \in Nodes
  BY SchemaFacts DEF SubSchemas
<1>4. ASSUME NEW w \in Values PROVE \A x \in ItemOf(ParseOf, s, w) : x = w
  <2>1. CASE Has(s, "items")
    BY <1>3, <2>1 DEF KeepsBelow, ItemOf, Parse
  <2>2. CASE ~Has(s, "items")
    BY <2>2 DEF ItemOf
  <2> QED
    BY <2>1, <2>2
<1>5. \A w \in Values : w \in ValuesTo[MaxDepth - 1] =>
        ItemOf(ParseOf, s, w) \subseteq ValuesTo[MaxDepth - 1]
  BY <1>4
<1>6. /\ v.t = "array" /\ v.items \in Seq(ValuesTo[MaxDepth - 1])
      /\ r \in Values /\ r.t = "array" /\ r.items \in Seq(ValuesTo[MaxDepth - 1])
      /\ ItemsMake(ParseOf, s, v.items, r.items) /\ Len(r.items) = Len(v.items)
  BY <1>1, <1>2, <1>5, ItemsFacts DEF Values
<1>7. ASSUME NEW i \in 1..Len(v.items) PROVE r.items[i] = v.items[i]
  <2>1. v.items[i] \in Values
    BY <1>2, <1>6, UndefinedIsValue
  <2>2. r.items[i] \in ItemOf(ParseOf, s, v.items[i])
    BY <1>6 DEF ItemsMake
  <2> QED
    BY <1>4, <2>1, <2>2
<1>8. r.items = v.items
  BY <1>6, <1>7
<1>9. v = Arr(v.items) /\ r = Arr(r.items)
  BY <1>2, <1>6, ValueCases DEF Values
<1> QED
  BY <1>8, <1>9

LEMMA KeepsStep ==
  ASSUME NEW s \in Nodes, NEW v \in Values, KeepsBelow(s), IsObject(s) => IsStrict(s),
         NEW r \in Parse(s, v)
  PROVE  r = v
<1>0. r \in ParseGiven(ParseOf, s, v)
  BY ParseUnfolds
<1>1. CASE Form(s) = "oneOf"
  <2>1. s.oneOf \in Seq(Nodes) /\ \A i \in DOMAIN s.oneOf : s.oneOf[i] \in SubSchemas(s)
    BY <1>1, FormFacts
  <2>2. r \in ZUnion(OptionsMake(ParseOf, s, v))
    BY <1>0, <1>1, Forms
  <2>3. DOMAIN OptionsMake(ParseOf, s, v) \subseteq Nat
    BY <2>1 DEF OptionsMake
  <2>4. \E i \in DOMAIN OptionsMake(ParseOf, s, v) : r \in OptionsMake(ParseOf, s, v)[i]
    BY <2>2, <2>3, UnionFacts
  <2>5. PICK i \in DOMAIN s.oneOf : r \in Parse(s.oneOf[i], v)
    BY <2>4 DEF OptionsMake, Parse
  <2> QED
    BY <2>1, <2>5 DEF KeepsBelow
<1>2. CASE Form(s) = "object"
  <2>1. IsStrict(s)
    BY <1>2, FormFacts DEF IsObject
  <2> QED
    BY <1>2, <2>1, StrictKeeps
<1>3. CASE Form(s) = "array"
  BY <1>3, ArrayKeeps
<1>4. CASE Form(s) \notin {"oneOf", "object", "array"}
  <2>1. CASE Form(s) \in {"const", "enum"}
    BY <1>0, <2>1, Forms
  <2>2. CASE Form(s) \in {"string", "boolean"}
    BY <1>0, <2>2, Forms
  <2>3. CASE Form(s) \in {"number", "integer"}
    BY <1>0, <2>3, Forms
  <2>4. CASE Form(s) \notin ScalarTypes \cup {"const", "enum", "oneOf", "object", "array"}
    BY <1>0, <2>4, Forms
  <2> QED
    BY <1>4, <2>1, <2>2, <2>3, <2>4 DEF ScalarTypes
<1> QED
  BY <1>1, <1>2, <1>3, <1>4

\* The validator of a closed schema changes nothing.
LEMMA ClosedKeeps ==
  ASSUME NEW s \in Nodes, Closed(s), NEW v \in Values, NEW r \in Parse(s, v)
  PROVE  r = v
<1> DEFINE Bad == {c \in Nodes : Closed(c) /\ \E w \in Values : \E x \in Parse(c, w) : x # w}
<1>1. ASSUME NEW c \in Bad PROVE \E d \in Bad : Depth[d] < Depth[c]
  <2> SUFFICES ASSUME \A d \in Nodes : Depth[d] < Depth[c] => d \notin Bad PROVE FALSE
    OBVIOUS
  <2>1. \A sub \in SubSchemas(c) : sub \in Nodes /\ sub \notin Bad
    BY SchemaFacts
  <2>2. (IsObject(c) => IsStrict(c)) /\ \A sub \in SubSchemas(c) : Closed(sub)
    BY ClosedParts
  <2>3. KeepsBelow(c)
    BY <2>1, <2>2 DEF KeepsBelow
  <2> QED
    BY <2>2, <2>3, KeepsStep
<1>2. Bad \subseteq Nodes /\ \A c \in Nodes : Depth[c] \in Nat
  BY SchemaFacts
<1>3. Bad = {}
  <2> HIDE DEF Bad
  <2> QED
    BY <1>1, <1>2, NoneBad
<1> QED
  BY <1>3

\* v satisfies s, which is converted and closed.
Fits(s, v) == Closed(s) /\ ~Throws(s) /\ Satisfies(s, v)
FitsBelow(s) ==
  \A sub \in SubSchemas(s), w \in Values : Fits(sub, w) => Parse(sub, w) = {w} /\ w # Undefined

\* The fields of an object that satisfies a closed schema.
LEMMA FitsFields ==
  ASSUME NEW s \in Nodes, NEW v \in Values, Fits(s, v), FitsBelow(s), Form(s) = "object"
  PROVE  /\ v.t = "object" /\ v.fields \in [Names -> ValuesTo[MaxDepth - 1]]
         /\ Required(s) \subseteq Given(v.fields)
         /\ Fills(ConvertObjectShape(s), v.fields)
         /\ FieldsKeep(ParseOf, ConvertObjectShape(s), v.fields)
<1> DEFINE shape == ConvertObjectShape(s)
<1>1. SatisfiesGiven(SatisfiesOf, s, v)
  BY SatisfiesUnfolds DEF Fits
<1>2. /\ Has(s, "type") /\ s.type = "object" /\ s # NullSchema
      /\ \A sub \in SubSchemas(s) : sub \in Nodes /\ Closed(sub)
      /\ \A k \in Keys(s) : ~Throws(Property(s, k))
  BY FormFacts, NotNull, ClosedParts, ConvertedParts, SchemaFacts DEF Fits
<1>3. IsStrict(s)
  BY <1>2, ClosedParts DEF IsObject, Fits
<1>4. v.t = "object"
  BY <1>1, <1>2 DEF SatisfiesGiven, OfType
<1>5. /\ Required(s) \subseteq Given(v.fields) /\ Given(v.fields) \subseteq Keys(s)
      /\ \A k \in Keys(s) \cap Given(v.fields) : Satisfies(Property(s, k), v.fields[k])
  BY <1>1, <1>3, <1>4 DEF SatisfiesGiven, Satisfies
<1>6. MaxDepth \in Level /\ v \in ValuesTo[MaxDepth] /\ MaxDepth - 1 \in Level
  BY ValuesUnfold DEF Level, Values
<1>7. v.fields \in [Names -> ValuesTo[MaxDepth - 1]]
  BY <1>4, <1>6, ValueCases
<1>8. IsShape(shape) /\ DOMAIN shape = Keys(s)
  BY ConvertedShape
<1>9. \A k \in Keys(s) : \A w : ParseField(ParseOf, shape[k], w) = Parse(Property(s, k), w)
  BY ConvertedShape DEF Parse
<1>10. \A k \in Keys(s) : shape[k].optional <=> k \notin Required(s)
  BY ConvertedShape
<1> HIDE DEF shape
<1>12. ASSUME NEW k \in Given(v.fields)
       PROVE  ParseField(ParseOf, shape[k], v.fields[k]) = {v.fields[k]}
  <2>1. k \in Keys(s) /\ k \in Names /\ v.fields[k] \in Values
    BY <1>5, <1>6, <1>7, UndefinedIsValue DEF Given
  <2>2. Property(s, k) \in SubSchemas(s)
    BY <2>1, PropertyFacts
  <2>3. Fits(Property(s, k), v.fields[k])
    BY <1>2, <1>5, <2>1, <2>2 DEF Fits
  <2>4. Parse(Property(s, k), v.fields[k]) = {v.fields[k]}
    BY <2>1, <2>2, <2>3 DEF FitsBelow
  <2> QED
    BY <1>9, <2>1, <2>4
<1>13. \A k \in DOMAIN shape : k \in Given(v.fields) \/ shape[k].optional
  BY <1>5, <1>8, <1>10
<1>14. Fills(shape, v.fields) /\ FieldsKeep(ParseOf, shape, v.fields)
  BY <1>5, <1>8, <1>12, <1>13 DEF Fills, FieldsKeep
<1> QED
  BY <1>4, <1>5, <1>7, <1>14 DEF shape

LEMMA FitsObject ==
  ASSUME NEW s \in Nodes, NEW v \in Values, Fits(s, v), FitsBelow(s), Form(s) = "object"
  PROVE  Parse(s, v) = {v} /\ v # Undefined
<1> DEFINE shape == ConvertObjectShape(s)
<1>1. v.t = "object" /\ Fills(shape, v.fields) /\ FieldsKeep(ParseOf, shape, v.fields)
  BY FitsFields
<1>2. IsShape(shape)
  BY ConvertedShape
<1>3. MaxDepth \in Level /\ v \in ValuesTo[MaxDepth]
  BY ValuesUnfold DEF Level, Values
<1> HIDE DEF shape
<1>4. ParseShape(ParseOf, shape, IsStrict(s), v) = {v}
  BY <1>1, <1>2, <1>3, ShapeKeeps
<1>5. Parse(s, v) = ParseShape(ParseOf, shape, IsStrict(s), v)
  <2>1. ParseGiven(ParseOf, s, v) = ParseShape(ParseOf, ConvertObjectShape(s), IsStrict(s), v)
    BY Forms
  <2> QED
    BY <2>1, ParseUnfolds DEF shape
<1> QED
  BY <1>1, <1>4, <1>5 DEF Undefined

LEMMA FitsArray ==
  ASSUME NEW s \in Nodes, NEW v \in Values, Fits(s, v), FitsBelow(s), Form(s) = "array"
  PROVE  Parse(s, v) = {v} /\ v # Undefined
<1>1. SatisfiesGiven(SatisfiesOf, s, v)
  BY SatisfiesUnfolds DEF Fits
<1>2. /\ Has(s, "type") /\ s.type = "array" /\ s # NullSchema
      /\ \A sub \in SubSchemas(s) : sub \in Nodes /\ Closed(sub)
      /\ Has(s, "items") => ~Throws(s.items)
  BY FormFacts, NotNull, ClosedParts, ConvertedParts, SchemaFacts DEF Fits
<1>3. v.t = "array"
  BY <1>1, <1>2 DEF SatisfiesGiven, OfType
<1>4. /\ Within(Len(v.items), s, "minItems", "maxItems")
      /\ Has(s, "items") => \A i \in DOMAIN v.items : Satisfies(s.items, v.items[i])
  BY <1>1, <1>3 DEF SatisfiesGiven, Satisfies
<1>5. MaxDepth \in Level /\ v \in ValuesTo[MaxDepth] /\ MaxDepth - 1 \in Level
  BY ValuesUnfold DEF Level, Values
<1>6. v.items \in Seq(ValuesTo[MaxDepth - 1])
  BY <1>3, <1>5, ValueCases
<1>7. ASSUME NEW i \in DOMAIN v.items PROVE ItemOf(ParseOf, s, v.items[i]) = {v.items[i]}
  <2>1. v.items[i] \in Values
    BY <1>5, <1>6, UndefinedIsValue
  <2>2. CASE Has(s, "items")
    <3>1. s.items \in SubSchemas(s)
      BY <2>2 DEF SubSchemas
    <3>2. Fits(s.items, v.items[i])
      BY <1>2, <1>4, <2>2, <3>1 DEF Fits
    <3>3. Parse(s.items, v.items[i]) = {v.items[i]}
      BY <2>1, <3>1, <3>2 DEF FitsBelow
    <3> QED
      BY <2>2, <3>3 DEF ItemOf, Parse
  <2>3. CASE ~Has(s, "items")
    BY <2>3 DEF ItemOf
  <2> QED
    BY <2>2, <2>3
<1>8. ParseItems(ParseOf, s, v) = {v}
  <2>1. ItemsAllKeep(ParseOf, s, v.items)
    BY <1>7 DEF ItemsAllKeep
  <2> QED
    BY <1>3, <1>4, <1>5, <2>1, ItemsKeep
<1>9. Parse(s, v) = ParseItems(ParseOf, s, v)
  <2>1. ParseGiven(ParseOf, s, v) = ParseItems(ParseOf, s, v)
    BY Forms
  <2> QED
    BY <2>1, ParseUnfolds
<1> QED
  BY <1>3, <1>8, <1>9 DEF Undefined

LEMMA FitsUnion ==
  ASSUME NEW s \in Nodes, NEW v \in Values, Fits(s, v), FitsBelow(s), Form(s) = "oneOf"
  PROVE  Parse(s, v) = {v} /\ v # Undefined
<1>1. SatisfiesGiven(SatisfiesOf, s, v)
  BY SatisfiesUnfolds DEF Fits
<1>2. /\ Has(s, "oneOf") /\ s.oneOf \in Seq(Nodes)
      /\ \A i \in DOMAIN s.oneOf :
           /\ s.oneOf[i] \in SubSchemas(s) /\ s.oneOf[i] \in Nodes
           /\ Closed(s.oneOf[i]) /\ ~Throws(s.oneOf[i])
  BY FormFacts, ClosedParts, ConvertedParts DEF Fits
<1>3. PICK j \in DOMAIN s.oneOf : Satisfies(s.oneOf[j], v)
  <2>1. \E b \in ToSet(s.oneOf) : Satisfies(b, v)
    BY <1>1, <1>2 DEF SatisfiesGiven, Satisfies
  <2> QED
    BY <2>1 DEF ToSet
<1>4. Fits(s.oneOf[j], v)
  BY <1>2, <1>3 DEF Fits
<1>5. Parse(s.oneOf[j], v) = {v} /\ v # Undefined
  BY <1>2, <1>4 DEF FitsBelow
<1> DEFINE results == OptionsMake(ParseOf, s, v)
<1>6. DOMAIN results = DOMAIN s.oneOf /\ DOMAIN results \subseteq Nat
  BY <1>2 DEF OptionsMake
<1>7. \A i \in DOMAIN s.oneOf : results[i] = Parse(s.oneOf[i], v)
  BY DEF OptionsMake, Parse
<1>8. Parse(s, v) = ZUnion(results)
  <2> HIDE DEF results
  <2>1. ParseGiven(ParseOf, s, v) = ZUnion(OptionsMake(ParseOf, s, v))
    BY Forms
  <2> QED
    BY <2>1, ParseUnfolds DEF results
<1> HIDE DEF results
<1>9. \A i \in DOMAIN results : \A r \in results[i] : r = v
  BY <1>2, <1>6, <1>7, ClosedKeeps
<1> QED
  BY <1>5, <1>6, <1>7, <1>8, <1>9, UnionKeeps

LEMMA FitsScalar ==
  ASSUME NEW s \in Nodes, NEW v \in Values, Fits(s, v), Form(s) \in ScalarTypes
  PROVE  Parse(s, v) = {v} /\ v # Undefined
<1>1. SatisfiesGiven(SatisfiesOf, s, v)
  BY SatisfiesUnfolds DEF Fits
<1>2. Has(s, "type") /\ s.type = Form(s) /\ s # NullSchema
  BY FormFacts, NotNull DEF ScalarTypes
<1>3. OfType(Form(s), v) /\ (v.t = "number" => Within(v.num, s, "minimum", "maximum"))
  BY <1>1, <1>2 DEF SatisfiesGiven
<1>4. CASE Form(s) \in {"string", "boolean"}
  <2>1. v.t = Form(s)
    BY <1>3, <1>4 DEF OfType
  <2>2. \A r : r \in Parse(s, v) <=> r = v
    BY <1>4, <2>1, Forms, ParseUnfolds
  <2> QED
    BY <1>4, <2>1, <2>2 DEF Undefined
<1>5. CASE Form(s) \in {"number", "integer"}
  <2>1. v.t = "number" /\ (Form(s) = "integer" => IsInteger(v.num))
    BY <1>3, <1>5 DEF OfType
  <2>2. \A r : r \in Parse(s, v) <=> r = v
    BY <1>3, <1>5, <2>1, Forms, ParseUnfolds
  <2> QED
    BY <1>5, <2>1, <2>2 DEF Undefined
<1> QED
  BY <1>4, <1>5 DEF ScalarTypes

LEMMA FitsLiteral ==
  ASSUME NEW s \in Nodes, NEW v \in Values, Fits(s, v), Form(s) \in {"const", "enum"}
  PROVE  Parse(s, v) = {v} /\ v # Undefined
<1>1. SatisfiesGiven(SatisfiesOf, s, v)
  BY SatisfiesUnfolds DEF Fits
<1>2. CASE Form(s) = "const"
  <2>1. v = s.const /\ v # Undefined
    BY <1>1, <1>2, FormFacts DEF SatisfiesGiven
  <2>2. \A r : r \in Parse(s, v) <=> r = v
    BY <1>2, <2>1, Forms, ParseUnfolds
  <2> QED
    BY <2>1, <2>2
<1>3. CASE Form(s) = "enum"
  <2>1. v \in ToSet(s.enum) /\ v # Undefined
    BY <1>1, <1>3, FormFacts DEF SatisfiesGiven, ToSet
  <2>2. \A r : r \in Parse(s, v) <=> r = v
    BY <1>3, <2>1, Forms, ParseUnfolds
  <2> QED
    BY <2>1, <2>2
<1> QED
  BY <1>2, <1>3

\* The validator of a closed schema accepts what satisfies the schema, and changes nothing.
LEMMA Complete ==
  ASSUME NEW s \in Nodes, NEW v \in Values, Fits(s, v)
  PROVE  Parse(s, v) = {v} /\ v # Undefined
<1> DEFINE Bad == {c \in Nodes : \E w \in Values : Fits(c, w) /\ ~(Parse(c, w) = {w} /\ w # Undefined)}
<1>1. ASSUME NEW c \in Bad PROVE \E d \in Bad : Depth[d] < Depth[c]
  <2> SUFFICES ASSUME \A d \in Nodes : Depth[d] < Depth[c] => d \notin Bad PROVE FALSE
    OBVIOUS
  <2>1. \A sub \in SubSchemas(c) : sub \in Nodes /\ sub \notin Bad
    BY SchemaFacts
  <2>2. FitsBelow(c)
    BY <2>1 DEF FitsBelow
  <2>3. PICK w \in Values : Fits(c, w) /\ ~(Parse(c, w) = {w} /\ w # Undefined)
    OBVIOUS
  <2>4. Form(c) \in ScalarTypes \cup {"const", "enum", "oneOf", "object", "array"}
    BY <2>3, ConvertedParts DEF Fits
  <2> QED
    BY <2>2, <2>3, <2>4, FitsObject, FitsArray, FitsUnion, FitsScalar, FitsLiteral
<1>2. Bad \subseteq Nodes /\ \A c \in Nodes : Depth[c] \in Nat
  BY SchemaFacts
<1>3. Bad = {}
  <2> HIDE DEF Bad
  <2> QED
    BY <1>1, <1>2, NoneBad
<1> QED
  BY <1>3

LEMMA NotThrown ==
  ASSUME NEW s \in Nodes, s # NullSchema, ~ConversionThrows(s)
  PROVE  ~Throws(s)
<1>1. ~ThrowsGiven(ThrowsOf, s) => ~Throws(s)
  BY ThrowsUnfolds
<1>2. DOMAIN s \subseteq KnownKeys /\ (Wraps(s) => ~Throws(s))
  BY DEF ConversionThrows
<1>3. CASE ~Wraps(s) /\ ~Has(s, "oneOf")
  <2>1. IsObject(s) /\ Form(s) = "object"
    BY <1>3, FormFacts DEF Wraps
  <2>2. \A p \in ToSet(Properties(s)) : ~Throws(p.schema)
    BY <1>3, <2>1 DEF ConversionThrows
  <2> QED
    BY <1>1, <1>2, <2>1, <2>2 DEF ThrowsGiven, Throws
<1>4. CASE ~Wraps(s) /\ Has(s, "oneOf")
  <2>1. Form(s) = "oneOf" /\ s.oneOf \in Seq(Nodes) /\ AllObjectBranches(s)
    BY <1>4, FormFacts DEF Wraps
  <2>2. /\ ~(Len(s.oneOf) < 2)
        /\ \A b \in ToSet(s.oneOf) : ~Throws(b)
    BY <1>4, <2>1 DEF ConversionThrows
  <2>3. s.oneOf # <<>>
    BY <2>1, <2>2
  <2>4. \A i \in DOMAIN s.oneOf : ~Throws(s.oneOf[i])
    BY <2>2 DEF ToSet
  <2> QED
    BY <1>1, <1>2, <2>1, <2>3, <2>4 DEF ThrowsGiven, Throws
<1> QED
  BY <1>2, <1>3, <1>4

\* A discriminator: every branch declares it, as a const.
LEMMA TagFacts ==
  ASSUME NEW branches, branches \in Seq(Nodes), branches # <<>>
  PROVE  \A k \in TagKeys(branches) : k \in Names /\ \A i \in DOMAIN branches :
           k \in Keys(branches[i]) /\ Has(Property(branches[i], k), "const")
<1> SUFFICES ASSUME NEW k \in TagKeys(branches)
             PROVE  k \in Names /\ \A i \in DOMAIN branches :
                      k \in Keys(branches[i]) /\ Has(Property(branches[i], k), "const")
  OBVIOUS
<1>1. branches[1] \in Nodes /\ 1 \in DOMAIN branches
  BY EmptySeq
<1> DEFINE common == CommonConsts(branches)
<1>2. Properties(branches[1]) \in Seq([key : Names, schema : Nodes])
  BY <1>1, SchemaFacts DEF WellTyped
<1>3. common # {} /\ common \subseteq Nat
  BY <1>2 DEF TagKeys, CommonConsts
<1>4. PICK m : m = Min(common) /\ m \in common
  <2>1. \E n \in common : \A x \in common : n <= x
    <3> HIDE DEF common
    <3> QED
      BY <1>3, LeastNatural
  <2>2. Min(common) = CHOOSE x \in common : \A y \in common : x <= y
    BY DEF Min
  <2> HIDE DEF common
  <2> QED
    BY <2>1, <2>2
<1>5. k = Properties(branches[1])[m].key
  BY <1>3, <1>4 DEF TagKeys
<1>6. \A b \in ToSet(branches) : k \in Keys(b) /\ Has(Property(b, k), "const")
  BY <1>4, <1>5 DEF CommonConsts
<1>7. \A i \in DOMAIN branches : branches[i] \in ToSet(branches)
  BY DEF ToSet
<1>8. k \in Names
  BY <1>1, <1>6, <1>7, PropertyFacts
<1> QED
  BY <1>6, <1>7, <1>8

\* A branch that v satisfies is one by which v is found.
LEMMA TagMatches ==
  ASSUME NEW branches, branches \in Seq(Nodes), branches # <<>>, NEW v \in Values, v.t = "object",
         NEW j \in DOMAIN branches, Satisfies(branches[j], v)
  PROVE  \A k \in TagKeys(branches) : v.fields[k] \in Tags(branches[j], k)
<1> SUFFICES ASSUME NEW k \in TagKeys(branches) PROVE v.fields[k] \in Tags(branches[j], k)
  OBVIOUS
<1>1. branches[j] \in Nodes
  OBVIOUS
<1>2. k \in Names /\ k \in Keys(branches[j]) /\ Has(Property(branches[j], k), "const")
  BY TagFacts
<1>3. SatisfiesGiven(SatisfiesOf, branches[j], v)
  BY <1>1, SatisfiesUnfolds
<1>4. /\ Required(branches[j]) \subseteq Given(v.fields)
      /\ k \in Given(v.fields) => Satisfies(Property(branches[j], k), v.fields[k])
  BY <1>2, <1>3 DEF SatisfiesGiven, Satisfies
<1>5. v.fields[k] \in Values
  <2>1. MaxDepth \in Level /\ v \in ValuesTo[MaxDepth] /\ MaxDepth - 1 \in Level
    BY ValuesUnfold DEF Level, Values
  <2>2. v.fields \in [Names -> ValuesTo[MaxDepth - 1]]
    BY <2>1, ValueCases
  <2> QED
    BY <1>2, <2>1, <2>2, UndefinedIsValue
<1>6. CASE k \in Given(v.fields)
  <2>1. Property(branches[j], k) \in Nodes
    BY <1>1, <1>2, PropertyFacts
  <2>2. SatisfiesGiven(SatisfiesOf, Property(branches[j], k), v.fields[k])
    BY <1>4, <1>5, <1>6, <2>1, SatisfiesUnfolds
  <2>3. v.fields[k] = Property(branches[j], k).const
    BY <1>2, <2>2 DEF SatisfiesGiven
  <2> QED
    BY <2>3 DEF Tags
<1>7. CASE k \notin Given(v.fields)
  <2>1. v.fields[k] = Undefined /\ k \notin Required(branches[j])
    BY <1>2, <1>4, <1>7 DEF Given
  <2> QED
    BY <2>1 DEF Tags
<1> QED
  BY <1>6, <1>7

\* A branch of a flat oneOf that v satisfies.
LEMMA FlatBranch ==
  ASSUME NEW s \in Nodes, ~Wraps(s), Has(s, "oneOf"), ~ConversionThrows(s), Closed(s),
         NEW v \in Values, Satisfies(s, v)
  PROVE  /\ s # NullSchema /\ s.oneOf \in Seq(Nodes) /\ s.oneOf # <<>>
         /\ \A i \in DOMAIN s.oneOf : /\ s.oneOf[i] \in SubSchemas(s) /\ s.oneOf[i] \in Nodes
                                      /\ Closed(s.oneOf[i]) /\ ~Throws(s.oneOf[i])
                                      /\ Form(s.oneOf[i]) = "object" /\ IsObject(s.oneOf[i])
         /\ \E j \in DOMAIN s.oneOf : Fits(s.oneOf[j], v) /\ v.t = "object"
<1>1. s # NullSchema /\ Form(s) = "oneOf"
  BY FormFacts, NotNull
<1>2. ~Throws(s)
  BY <1>1, NotThrown
<1>3. /\ s.oneOf \in Seq(Nodes)
      /\ \A i \in DOMAIN s.oneOf :
           /\ s.oneOf[i] \in SubSchemas(s) /\ s.oneOf[i] \in Nodes
           /\ Closed(s.oneOf[i]) /\ ~Throws(s.oneOf[i])
  BY <1>1, <1>2, FormFacts, ClosedParts, ConvertedParts
<1>4. ASSUME NEW i \in DOMAIN s.oneOf
      PROVE  Form(s.oneOf[i]) = "object" /\ IsObject(s.oneOf[i])
  <2>1. IsObject(s.oneOf[i]) /\ Has(s.oneOf[i], "properties")
    BY <1>1 DEF Wraps, AllObjectBranches, ToSet
  <2>2. Form(s.oneOf[i]) = "object"
    <3>1. Form(s.oneOf[i]) = "oneOf" => DOMAIN (s.oneOf[i]) \subseteq {"oneOf", "description"}
      BY <1>3, FormFacts
    <3> QED
      BY <1>3, <2>1, <3>1, FormFacts DEF Has
  <2> QED
    BY <2>1, <2>2
<1>5. PICK j \in DOMAIN s.oneOf : Satisfies(s.oneOf[j], v)
  <2>1. SatisfiesGiven(SatisfiesOf, s, v)
    BY SatisfiesUnfolds
  <2>2. \E b \in ToSet(s.oneOf) : Satisfies(b, v)
    BY <2>1 DEF SatisfiesGiven, Satisfies
  <2> QED
    BY <2>2 DEF ToSet
<1>6. v.t = "object"
  <2>1. SatisfiesGiven(SatisfiesOf, s.oneOf[j], v)
    BY <1>3, <1>5, SatisfiesUnfolds
  <2>2. s.oneOf[j] # NullSchema /\ IsObject(s.oneOf[j])
    BY <1>4, NotNull
  <2> QED
    BY <2>1, <2>2 DEF SatisfiesGiven, OfType, IsObject
<1>7. Fits(s.oneOf[j], v)
  BY <1>3, <1>5 DEF Fits
<1>8. s.oneOf # <<>>
  BY <1>3, <1>5
<1> QED
  BY <1>1, <1>3, <1>4, <1>6, <1>7, <1>8

\* The validator of a closed schema leaves what satisfies the schema as it is
\* (jsonSchemaToZod(schema).full).
LEMMA FullComplete ==
  ASSUME NEW s \in Nodes, ~ConversionThrows(s), Closed(s), NEW v \in Values, Satisfies(s, v)
  PROVE  ParseFull(s, v) = {v}
<1>1. CASE s = NullSchema
  <2>1. v = Undefined
    BY <1>1, NullMakes
  <2>2. \A r : r \in ParseFull(s, v) <=> r = v
    BY <1>1, <2>1, NullMakes
  <2> QED
    BY <2>2
<1>2. CASE s # NullSchema /\ ParseFull(s, v) = Parse(s, v)
  <2>1. Fits(s, v)
    BY <1>2, NotThrown DEF Fits
  <2> QED
    BY <1>2, <2>1, Complete
<1>3. CASE s # NullSchema /\ ~Wraps(s) /\ Has(s, "oneOf") /\ TagKeys(s.oneOf) # {}
  <2>1. PICK j \in DOMAIN s.oneOf : Fits(s.oneOf[j], v) /\ v.t = "object"
    BY <1>3, FlatBranch
  <2>2. /\ s.oneOf \in Seq(Nodes) /\ s.oneOf # <<>>
        /\ \A i \in DOMAIN s.oneOf : s.oneOf[i] \in Nodes /\ Closed(s.oneOf[i])
    BY <1>3, FlatBranch
  <2>3. Parse(s.oneOf[j], v) = {v}
    BY <2>1, <2>2, Complete
  <2>4. \A k \in TagKeys(s.oneOf) : v.fields[k] \in Tags(s.oneOf[j], k)
    BY <2>1, <2>2, TagMatches DEF Fits
  <2>5. v \in ParseDiscriminated(s.oneOf, v)
    BY <2>1, <2>3, <2>4 DEF ParseDiscriminated
  <2>6. ASSUME NEW r \in ParseDiscriminated(s.oneOf, v) PROVE r = v
    <3>1. PICK i \in DOMAIN s.oneOf : r \in Parse(s.oneOf[i], v)
      BY DEF ParseDiscriminated
    <3> QED
      BY <2>2, <3>1, ClosedKeeps
  <2>7. ParseFull(s, v) = ParseDiscriminated(s.oneOf, v)
    BY <1>3, FullForms
  <2> QED
    BY <2>5, <2>6, <2>7
<1> QED
  BY <1>1, <1>2, <1>3, FullForms

-----------------------------------------------------------------------------
(* What arrives from a generated tool *)

\* What the arguments given to a tool with schema s express.
ExpressedBy(s, given) ==
  CASE Wraps(s) -> given["input"]
    [] s = NullSchema /\ Given(given) = {} -> Undefined
    [] OTHER -> Obj(given)

LEMMA ObjOfFields ==
  ASSUME NEW f \in FieldSpace
  PROVE  /\ Obj(f) = [t |-> "object", fields |-> f] /\ Obj(f) \in Values
         /\ Obj(f).t = "object" /\ Obj(f).fields = f
         /\ Given(f) = {} => Obj(f) = EmptyObject
<1>1. DOMAIN f = Names /\ \A k \in Names : f[k] \in ValuesTo[MaxDepth - 1]
  BY DEF FieldSpace
<1> DEFINE g == [k \in Names |-> IF k \in DOMAIN f THEN f[k] ELSE Undefined]
<1>2. Obj(f) = [t |-> "object", fields |-> g]
  BY DEF Obj
<1>3. g = f
  <2>1. \A k \in Names : g[k] = f[k]
    BY <1>1
  <2>2. f = [k \in Names |-> f[k]] /\ g = [k \in Names |-> g[k]]
    BY DEF FieldSpace
  <2> HIDE DEF g
  <2> QED
    BY <2>1, <2>2
<1> HIDE DEF g
<1>4. Obj(f) \in Values
  BY <1>1, TopLevel, ObjFacts
<1>5. ASSUME Given(f) = {} PROVE Obj(f) = EmptyObject
  <2>1. \A k \in Names : f[k] = Undefined
    BY <1>5 DEF Given
  <2>2. f = [k \in Names |-> Undefined]
    BY <2>1 DEF FieldSpace
  <2>3. EmptyObject = [t |-> "object", fields |-> [k \in Names |-> Undefined]]
    BY DEF EmptyObject, Obj
  <2> QED
    BY <1>2, <1>3, <2>2, <2>3
<1> QED
  BY <1>2, <1>3, <1>4, <1>5

\* The arguments of a flat schema pass through the shape as they are.
FlatPasses(s, given) ==
  /\ IsShape(RawShape(s)) /\ Fills(RawShape(s), given)
  /\ FieldsKeep(ParseOf, RawShape(s), given)

LEMMA AllFitBelow == \A s \in Nodes : FitsBelow(s)
BY Complete, SchemaFacts DEF FitsBelow

LEMMA ObjectPasses ==
  ASSUME NEW s \in Nodes, s # NullSchema, ~Wraps(s), ~Has(s, "oneOf"), ~ConversionThrows(s),
         Closed(s), NEW given \in FieldSpace, Satisfies(s, Obj(given))
  PROVE  FlatPasses(s, given)
<1>1. Form(s) = "object" /\ RawShape(s) = ConvertObjectShape(s)
  BY FormFacts DEF Wraps, RawShape
<1>2. Fits(s, Obj(given)) /\ FitsBelow(s)
  BY NotThrown, AllFitBelow DEF Fits
<1>3. Obj(given) \in Values /\ Obj(given).fields = given
  BY ObjOfFields
<1>4. Fills(RawShape(s), given) /\ FieldsKeep(ParseOf, RawShape(s), given)
  BY <1>1, <1>2, <1>3, FitsFields
<1> QED
  BY <1>1, <1>4, ConvertedShape DEF FlatPasses

\* A field of the flat shape of several branches.
LEMMA FlatField ==
  ASSUME NEW branches, branches \in Seq(Nodes),
         NEW k \in DOMAIN FlattenObjectOneOf(branches)
  PROVE  /\ FlattenObjectOneOf(branches)[k].optional <=> k \notin TagKeys(branches)
         /\ DOMAIN FlattenObjectOneOf(branches)[k].types
              = {i \in DOMAIN branches : k \in Keys(branches[i])}
         /\ \A i \in DOMAIN branches : k \in Keys(branches[i]) =>
              FlattenObjectOneOf(branches)[k].types[i] = Property(branches[i], k)
BY DEF FlattenObjectOneOf, Field

LEMMA BranchPasses ==
  ASSUME NEW s \in Nodes, s # NullSchema, ~Wraps(s), Has(s, "oneOf"), ~ConversionThrows(s),
         Closed(s), TagsRequired(s), NEW given \in FieldSpace, Satisfies(s, Obj(given))
  PROVE  FlatPasses(s, given)
<1> DEFINE v == Obj(given)
           shape == FlattenObjectOneOf(s.oneOf)
<1>1. v \in Values /\ v.t = "object" /\ v.fields = given
  BY ObjOfFields
<1>2. /\ s.oneOf \in Seq(Nodes) /\ s.oneOf # <<>>
      /\ \A i \in DOMAIN s.oneOf : s.oneOf[i] \in Nodes /\ Closed(s.oneOf[i])
                                   /\ Form(s.oneOf[i]) = "object"
  BY <1>1, FlatBranch
<1>3. PICK j \in DOMAIN s.oneOf : Fits(s.oneOf[j], v)
  BY <1>1, FlatBranch
<1>4. /\ Required(s.oneOf[j]) \subseteq Given(given)
      /\ Fills(ConvertObjectShape(s.oneOf[j]), given)
      /\ FieldsKeep(ParseOf, ConvertObjectShape(s.oneOf[j]), given)
  BY <1>1, <1>2, <1>3, AllFitBelow, FitsFields
<1>5. /\ DOMAIN ConvertObjectShape(s.oneOf[j]) = Keys(s.oneOf[j])
      /\ \A k \in Keys(s.oneOf[j]) : \A w :
           ParseField(ParseOf, ConvertObjectShape(s.oneOf[j])[k], w) = Parse(Property(s.oneOf[j], k), w)
  BY <1>2, ConvertedShape DEF Parse
<1>6. Given(given) \subseteq Keys(s.oneOf[j])
  BY <1>4, <1>5 DEF Fills
<1>7. \A k \in Given(given) : Parse(Property(s.oneOf[j], k), given[k]) = {given[k]}
  BY <1>4, <1>5, <1>6 DEF FieldsKeep
<1>8. RawShape(s) = shape
  BY DEF RawShape
<1>9. Keys(s.oneOf[j]) \subseteq DOMAIN shape
  BY <1>3 DEF FlattenObjectOneOf, ToSet
<1>10. TagKeys(s.oneOf) \subseteq Given(given)
  <2>1. AllObjectBranches(s) /\ s.oneOf[j] \in ToSet(s.oneOf)
    BY DEF Wraps, ToSet
  <2> QED
    BY <1>2, <1>4, <2>1 DEF TagsRequired
<1>11. \A k \in DOMAIN shape : k \in Given(given) \/ shape[k].optional
  BY <1>2, <1>10, FlatField
<1>12. ASSUME NEW k \in Given(given) PROVE ParseField(ParseOf, shape[k], given[k]) = {given[k]}
  <2>1. k \in DOMAIN shape /\ k \in Keys(s.oneOf[j])
    BY <1>6, <1>9
  <2>2. given[k] \in Values
    BY TopLevel DEF Given, FieldSpace
  <2>3. DOMAIN shape[k].types = {i \in DOMAIN s.oneOf : k \in Keys(s.oneOf[i])}
    BY <1>2, <2>1, FlatField
  <2>4. \A i \in DOMAIN shape[k].types : shape[k].types[i] = Property(s.oneOf[i], k)
    BY <1>2, <2>1, <2>3, FlatField
  <2> HIDE DEF shape
  <2> DEFINE results == [i \in DOMAIN shape[k].types |-> ParseOf[<<shape[k].types[i], given[k]>>]]
  <2>5. DOMAIN results = DOMAIN shape[k].types /\ DOMAIN results \subseteq Nat
    BY <1>2, <2>3
  <2>6. \A i \in DOMAIN results : results[i] = Parse(Property(s.oneOf[i], k), given[k])
    BY <2>4 DEF Parse
  <2>7. ParseField(ParseOf, shape[k], given[k]) = ZUnion(results)
    BY DEF ParseField
  <2> HIDE DEF results
  <2>8. ASSUME NEW i \in DOMAIN results PROVE \A r \in results[i] : r = given[k]
    <3>1. i \in DOMAIN s.oneOf /\ k \in Keys(s.oneOf[i])
      BY <2>3, <2>5
    <3>2. Property(s.oneOf[i], k) \in SubSchemas(s.oneOf[i]) /\ Property(s.oneOf[i], k) \in Nodes
      BY <1>2, <3>1, PropertyFacts
    <3>3. Closed(Property(s.oneOf[i], k))
      BY <1>2, <3>1, <3>2, ClosedParts
    <3> QED
      BY <2>2, <2>6, <3>2, <3>3, ClosedKeeps
  <2>9. j \in DOMAIN results /\ results[j] = {given[k]}
    BY <1>7, <2>1, <2>3, <2>5, <2>6
  <2> QED
    BY <2>5, <2>7, <2>8, <2>9, UnionKeeps
<1>13. IsShape(shape)
  BY <1>8, RawShapeFacts
<1> QED
  BY <1>6, <1>8, <1>9, <1>11, <1>12, <1>13 DEF FlatPasses, Fills, FieldsKeep

LEMMA NullPasses ==
  ASSUME NEW given \in FieldSpace, Given(given) = {}
  PROVE  FlatPasses(NullSchema, given)
<1>1. PICK s : s = NullSchema
  OBVIOUS
<1>2. RawShape(s) = [k \in {} |-> Undefined]
  BY <1>1 DEF RawShape, Wraps
<1>3. DOMAIN RawShape(s) = {}
  BY <1>2
<1>4. FlatPasses(s, given)
  BY <1>3 DEF FlatPasses, IsShape, Fills, FieldsKeep
<1> QED
  BY <1>1, <1>4

LEMMA FlatReceived ==
  ASSUME NEW t, t.generated, NEW given \in FieldSpace, FlatPasses(t.schema, given)
  PROVE  Received(t, given) = {Obj(given)}
<1> DEFINE shape == RawShape(t.schema)
<1>1. IsShape(shape) /\ Fills(shape, given) /\ FieldsKeep(ParseOf, shape, given)
  BY DEF FlatPasses
<1>2. MaxDepth \in Level /\ Obj(given) \in ValuesTo[MaxDepth]
  BY ObjOfFields, TopLevel DEF Values
<1>3. Obj(given).t = "object" /\ Obj(given).fields = given
  BY ObjOfFields
<1>4. Received(t, given) = ParseShape(ParseOf, shape, FALSE, Obj(given))
  BY DEF Received
<1> HIDE DEF shape
<1>5. PICK v \in ValuesTo[MaxDepth] : v = Obj(given)
  BY <1>2
<1>6. ParseShape(ParseOf, shape, FALSE, v) = {v}
  <2>1. ASSUME NEW strict PROVE ParseShape(ParseOf, shape, strict, v) = {v}
    BY <1>1, <1>2, <1>3, <1>5, ShapeKeeps
  <2> QED
    BY <2>1
<1> QED
  BY <1>4, <1>5, <1>6

\* An input under the key "input" is received, whatever other keys are stripped.
LEMMA WrappedReceived ==
  ASSUME NEW t, t.generated, Wraps(t.schema), NEW given \in FieldSpace,
         Parse(t.schema, given["input"]) = {given["input"]}, given["input"] # Undefined
  PROVE  \E r \in Received(t, given) : r.fields["input"] = given["input"]
<1> DEFINE x == given["input"]
           shape == RawShape(t.schema)
           results == [k \in Given(given) \cap DOMAIN shape |->
                         ParseField(ParseOf, shape[k], given[k])]
           made == [k \in DOMAIN results |-> CHOOSE v \in results[k] : TRUE]
<1>1. shape = [k \in {"input"} |-> Field(<<t.schema>>, FALSE)]
  BY DEF RawShape, Wraps
<1>2. DOMAIN shape = {"input"} /\ shape["input"].types = <<t.schema>>
  BY <1>1 DEF Field
<1>3. "input" \in Names /\ "input" \in Given(given)
  BY SchemaAssumption DEF Given
<1>4. Obj(given).t = "object" /\ Obj(given).fields = given
  BY ObjOfFields
<1> HIDE DEF shape
<1>5. DOMAIN results = {"input"} /\ results["input"] = ParseField(ParseOf, shape["input"], x)
  BY <1>2, <1>3
<1>6. results["input"] = {x}
  <2>1. ParseField(ParseOf, shape["input"], x) = ParseOf[<<t.schema, x>>]
    BY <1>2, OneField
  <2> QED
    BY <1>5, <2>1 DEF Parse
<1>7. Received(t, given) = ZObject(results, shape, FALSE, Given(given))
  BY <1>4 DEF Received, ParseShape, shape
<1> HIDE DEF results
<1>8. ZObject(results, shape, FALSE, Given(given)) = {Obj(made)}
  <2>1. \A k \in DOMAIN results : results[k] # {}
    BY <1>5, <1>6
  <2>2. \A k \in DOMAIN shape \ Given(given) : shape[k].optional
    BY <1>2, <1>3
  <2> QED
    BY <2>1, <2>2 DEF ZObject
<1>9. DOMAIN made = {"input"} /\ made["input"] = x
  BY <1>5, <1>6
<1> HIDE DEF made
<1>10. Obj(made).fields["input"] = x
  BY <1>3, <1>9 DEF Obj
<1> QED
  BY <1>7, <1>8, <1>10

\* What the arguments of a generated tool express, if the schema allows it, is what its
\* arguments bring to the SDK.
LEMMA GeneratedArrives ==
  ASSUME NEW t \in AllTools, t.generated, NEW given \in FieldSpace, NEW x,
         x = ExpressedBy(t.schema, given), x \in Values, x # EmptyObject,
         ~ConversionThrows(t.schema), Closed(t.schema), TagsRequired(t.schema),
         Satisfies(t.schema, x)
  PROVE  \E r \in Received(t, given) : \A y : y \in SdkInputs(t, r.fields) <=> y = x
<1> DEFINE s == t.schema
<1>1. s \in Nodes /\ SchemaOf(t) = s
  BY ToolCases
<1>2. SUFFICES \E r \in Received(t, given) : ToInput(t, r.fields) = {x}
  <2>1. PICK r \in Received(t, given) : ToInput(t, r.fields) = {x}
    BY <1>2
  <2>2. ParseFull(SchemaOf(t), x) = {x}
    BY <1>1, FullComplete
  <2>3. \A y : y \in SdkInputs(t, r.fields) <=> y = x
    BY <2>1, <2>2 DEF SdkInputs, Validate
  <2> QED
    BY <2>3
<1>3. CASE Wraps(s)
  <2>1. x = given["input"] /\ s # NullSchema
    BY <1>3 DEF ExpressedBy, Wraps
  <2>2. Fits(s, x)
    BY <1>1, <2>1, NotThrown DEF Fits
  <2>3. Parse(s, x) = {x} /\ x # Undefined
    BY <1>1, <2>2, Complete
  <2>4. PICK r \in Received(t, given) : r.fields["input"] = x
    BY <1>3, <2>1, <2>3, WrappedReceived
  <2> QED
    BY <1>3, <2>4 DEF ToInput
<1>4. CASE ~Wraps(s) /\ x = Obj(given) /\ s # NullSchema
  <2>1. FlatPasses(s, given)
    BY <1>1, <1>4, ObjectPasses, BranchPasses
  <2>2. Obj(given) \in Received(t, given)
    BY <2>1, FlatReceived
  <2>3. Given(given) # {} /\ Obj(given).fields = given
    BY <1>4, ObjOfFields
  <2>4. ToInput(t, given) = {x}
    BY <1>4, <2>3 DEF ToInput, DefaultToInput
  <2> QED
    BY <2>2, <2>3, <2>4
<1>5. CASE s = NullSchema
  <2>1. ~Wraps(s)
    BY <1>5 DEF Wraps
  <2>2. x = Undefined
    BY <1>1, <1>5, NullMakes
  <2>3. Given(given) = {}
    <3>1. x # Obj(given)
      BY <2>2, ObjOfFields DEF Undefined
    <3> QED
      BY <1>5, <2>1, <3>1 DEF ExpressedBy
  <2>4. Obj(given) \in Received(t, given) /\ Obj(given).fields = given
    BY <1>5, <2>3, NullPasses, FlatReceived, ObjOfFields
  <2>5. ToInput(t, given) = {x}
    BY <2>1, <2>2, <2>3 DEF ToInput, DefaultToInput
  <2> QED
    BY <2>4, <2>5
<1>6. Wraps(s) \/ s = NullSchema \/ x = Obj(given)
  BY DEF ExpressedBy
<1> QED
  BY <1>3, <1>4, <1>5, <1>6

-----------------------------------------------------------------------------
(* What arrives from a curated tool *)

\* The SDK puts the marker in no command of a flat input whose texts are without it.
FramesAddNoMarker ==
  \A f \in [Names -> Scalars] : RedactThrows(Frames(Obj(f))) =>
    \E k \in Names : f[k].t = "string" /\ Marker \in ToSet(f[k].str)

\* The schemas of the properties of a branch.
LEMMA ConstSchema ==
  ASSUME NEW s \in Nodes, NEW v \in Scalars, s = [const |-> v]
  PROVE  SubSchemas(s) = {} /\ ~IsObject(s) /\ (v \in Values => Satisfies(s, v))
<1>1. DOMAIN s = {"const"} /\ s.const = v
  OBVIOUS
<1>2. SubSchemas(s) = {} /\ ~IsObject(s)
  BY <1>1 DEF SubSchemas, Properties, IsObject, Has, ToSet
<1>3. s # NullSchema
  BY <1>1, NotNull
<1> QED
  BY <1>1, <1>2, <1>3, SatisfiesPlain DEF Has

LEMMA TextSchema ==
  ASSUME NEW s \in Nodes, s = [type |-> "string"]
  PROVE  SubSchemas(s) = {} /\ ~IsObject(s) /\ \A v \in Values : v.t = "string" => Satisfies(s, v)
<1>1. DOMAIN s = {"type"} /\ s.type = "string"
  OBVIOUS
<1>2. SubSchemas(s) = {} /\ ~IsObject(s)
  BY <1>1 DEF SubSchemas, Properties, IsObject, Has, ToSet
<1>3. s # NullSchema
  BY <1>1, NotNull
<1>4. \A v \in Values : v.t = "string" => Satisfies(s, v)
  BY <1>1, <1>3, SatisfiesPlain DEF Has, OfType
<1> QED
  BY <1>2, <1>4

LEMMA BranchFacts ==
  ASSUME NEW c \in Tools, NEW action \in DOMAIN c.actions, NEW b, IsBranchOf(b, c, action)
  PROVE  /\ b \in Nodes /\ Closed(b)
         /\ DOMAIN b = {"type", "properties", "required", "additionalProperties"}
         /\ b.type = "object"
         /\ \A k \in Keys(b) : /\ Property(b, k) \in Nodes
                               /\ k = c.choice => Property(b, k) = [const |-> Str(<<action>>)]
                               /\ k # c.choice => Property(b, k) = [type |-> "string"]
<1>1. /\ b \in Nodes /\ IsStrict(b) /\ b.type = "object"
      /\ DOMAIN b = {"type", "properties", "required", "additionalProperties"}
      /\ \A k \in Keys(b) : Property(b, k) = IF k = c.choice THEN [const |-> Str(<<action>>)]
                                                             ELSE [type |-> "string"]
  BY DEF IsBranchOf, IsObject
<1>2. \A k \in Keys(b) : Property(b, k) \in Nodes
  BY <1>1, PropertyFacts
<1>3. Str(<<action>>) \in Scalars
  BY CuratedFacts DEF Scalars, Str
<1>4. ASSUME NEW k \in Keys(b) PROVE Closed(Property(b, k))
  <2>1. SubSchemas(Property(b, k)) = {} /\ ~IsObject(Property(b, k))
    BY <1>1, <1>2, <1>3, ConstSchema, TextSchema
  <2>2. ClosedGiven(ClosedOf, Property(b, k))
    BY <2>1 DEF ClosedGiven
  <2> QED
    BY <1>2, <2>2, ClosedUnfolds
<1>5. ASSUME NEW sub \in SubSchemas(b) PROVE Closed(sub)
  <2>1. ~Has(b, "oneOf") /\ ~Has(b, "items")
    BY <1>1 DEF Has
  <2>2. PICK p \in ToSet(Properties(b)) : sub = p.schema
    BY <2>1 DEF SubSchemas
  <2>3. p.key \in Keys(b) /\ Property(b, p.key) = p.schema
    BY <1>1, PropertyFacts
  <2> QED
    BY <1>4, <2>2, <2>3
<1>6. ClosedGiven(ClosedOf, b)
  BY <1>1, <1>5 DEF ClosedGiven, Closed
<1>7. Closed(b)
  BY <1>1, <1>6, ClosedUnfolds
<1> QED
  BY <1>1, <1>2, <1>7

LEMMA SdkSchemaClosed ==
  ASSUME NEW c \in Tools
  PROVE  Closed(SdkSchema[c])
<1>1. /\ SdkSchema[c] \in Nodes /\ DOMAIN SdkSchema[c] = {"oneOf"}
      /\ \A b \in ToSet(SdkSchema[c].oneOf) : \E a \in DOMAIN c.actions : IsBranchOf(b, c, a)
  BY ToolAssumption
<1>2. \A b \in ToSet(SdkSchema[c].oneOf) : Closed(b)
  BY <1>1, BranchFacts
<1>3. PICK s \in Nodes : s = SdkSchema[c]
  BY <1>1
<1>4. ~IsObject(s) /\ \A sub \in SubSchemas(s) : sub \in ToSet(s.oneOf)
  BY <1>1, <1>3 DEF IsObject, Has, SubSchemas, Properties, ToSet
<1>5. ClosedGiven(ClosedOf, s)
  BY <1>2, <1>3, <1>4 DEF ClosedGiven, Closed
<1> QED
  BY <1>3, <1>5, ClosedUnfolds

\* The input that a curated tool makes of a call with every argument.
FullCall(c, fields) ==
  /\ ActionOf(c, fields) \in DOMAIN c.actions
  /\ fields[c.choice] = Str(<<ActionOf(c, fields)>>)
  /\ \A k \in c.always \cup c.optional : fields[k] = Str(<<k>>)

LEMMA TextsAreGiven == \A text : Str(text) # Undefined
<1> SUFFICES ASSUME NEW text PROVE Str(text) # Undefined
  OBVIOUS
<1>1. Str(text).t = "string" /\ Undefined.t = "undefined"
  BY DEF Str, Undefined
<1> QED
  BY <1>1

LEMMA FullInput ==
  ASSUME NEW c \in Tools, NEW given, NEW fields \in FieldSpace, CuratedReceived(c, given, fields),
         FullCall(c, fields), NEW x, x = CuratedInput(c, fields)
  PROVE  /\ ~ToInputThrows(c, ActionOf(c, fields), Given(fields))
         /\ Satisfies(SdkSchema[c], x)
         /\ FramesAddNoMarker => ~RedactThrows(Frames(x))
<1>1. PICK action \in DOMAIN c.actions : action = ActionOf(c, fields)
  BY DEF FullCall
<1>2. PICK picked : picked = PickedOf(c, fields)
  OBVIOUS
<1>3. /\ c.always \subseteq Names /\ c.optional \subseteq Names /\ c.choice \in Names
      /\ c.actions[action].needs \subseteq c.optional /\ c.actions[action].takes \subseteq c.optional
  BY CuratedFacts, ToolsAreOk DEF Arguments, ToolOk
<1>4. c.always \cup c.optional \subseteq Given(fields)
  BY <1>3, TextsAreGiven DEF FullCall, Given
<1>5. ~ToInputThrows(c, action, Given(fields))
  BY <1>3, <1>4 DEF ToInputThrows
<1>6. /\ c.always \cup c.actions[action].needs \subseteq picked
      /\ picked \subseteq c.always \cup c.optional /\ picked \subseteq ArgumentsOf(c, action)
  BY <1>1, <1>2, <1>3 DEF PickedOf, Picked, ArgumentsOf
<1>7. /\ x \in Values /\ x.t = "object" /\ x.fields \in FieldSpace
      /\ x.fields[c.choice] = Str(<<action>>)
      /\ \A a \in picked : x.fields[InputKey(c, a)] = Str(<<a>>)
      /\ \A k \in Names : k \notin InputKeys(c, picked) => x.fields[k] = Undefined
  <2>1. /\ x \in Values /\ x.t = "object" /\ x.fields \in FieldSpace
        /\ x.fields[c.choice] = fields[c.choice]
        /\ \A a \in picked : x.fields[InputKey(c, a)] = fields[a]
        /\ \A k \in Names : k \notin InputKeys(c, picked) => x.fields[k] = Undefined
    BY <1>2, CuratedInputFacts
  <2> QED
    BY <1>1, <1>6, <2>1 DEF FullCall
<1>8. /\ action \in Symbols \ {Marker}
      /\ \A a \in picked : a \in Symbols \ {Marker} /\ InputKey(c, a) \in Names
                           /\ InputKey(c, a) # c.choice
  BY <1>6, ToolAssumption, CuratedFacts, ToolsAreOk DEF Arguments, ToolOk
<1>9. ASSUME NEW k \in Names
      PROVE  \/ k = c.choice /\ x.fields[k] = Str(<<action>>)
             \/ \E a \in picked : k = InputKey(c, a) /\ x.fields[k] = Str(<<a>>)
             \/ x.fields[k] = Undefined
  BY <1>7 DEF InputKeys
<1>10. PICK b \in ToSet(SdkSchema[c].oneOf) : IsBranchOf(b, c, action)
  BY ToolAssumption
<1>11. Satisfies(b, x)
  <2>1. /\ b \in Nodes /\ b.type = "object"
        /\ DOMAIN b = {"type", "properties", "required", "additionalProperties"}
        /\ \A k \in Keys(b) : /\ Property(b, k) \in Nodes
                              /\ k = c.choice => Property(b, k) = [const |-> Str(<<action>>)]
                              /\ k # c.choice => Property(b, k) = [type |-> "string"]
    BY <1>10, BranchFacts
  <2>2. /\ ~Has(b, "const") /\ ~Has(b, "enum") /\ ~Has(b, "oneOf") /\ ~Has(b, "items")
        /\ b # NullSchema
    BY <2>1, NotNull DEF Has
  <2>3. Required(b) \subseteq Given(x.fields)
    <3>1. Required(b) = {c.choice} \cup {InputKey(c, n) : n \in c.always \cup c.actions[action].needs}
      BY <1>10 DEF IsBranchOf
    <3>2. ASSUME NEW n \in c.always \cup c.actions[action].needs
          PROVE  InputKey(c, n) \in Given(x.fields)
      <4>1. n \in picked
        BY <1>6
      <4> QED
        BY <1>7, <1>8, <4>1, TextsAreGiven DEF Given
    <3>3. c.choice \in Given(x.fields)
      BY <1>3, <1>7, TextsAreGiven DEF Given
    <3> QED
      BY <3>1, <3>2, <3>3
  <2>4. Given(x.fields) \subseteq Keys(b)
    <3>1. Keys(b) = {c.choice} \cup {InputKey(c, n) : n \in ArgumentsOf(c, action)}
      BY <1>10 DEF IsBranchOf
    <3> QED
      BY <1>6, <1>9, <3>1 DEF Given
  <2>5. ASSUME NEW k \in Keys(b) \cap Given(x.fields) PROVE Satisfies(Property(b, k), x.fields[k])
    <3>1. k \in Names /\ x.fields[k] # Undefined /\ x.fields[k] \in Values
      BY <1>7, TopLevel DEF Given, FieldSpace
    <3>2. CASE k = c.choice /\ x.fields[k] = Str(<<action>>)
      <4>1. Str(<<action>>) \in Scalars
        BY <1>8 DEF Scalars, Str
      <4>2. Property(b, k) = [const |-> Str(<<action>>)] /\ Property(b, k) \in Nodes
        BY <2>1, <3>2
      <4> QED
        BY <3>1, <3>2, <4>1, <4>2, ConstSchema
    <3>3. CASE \E a \in picked : k = InputKey(c, a) /\ x.fields[k] = Str(<<a>>)
      <4>1. k # c.choice /\ x.fields[k].t = "string"
        BY <1>8, <3>3 DEF Str
      <4>2. Property(b, k) = [type |-> "string"] /\ Property(b, k) \in Nodes
        BY <2>1, <4>1
      <4> QED
        BY <3>1, <4>1, <4>2, TextSchema
    <3> QED
      BY <1>9, <3>1, <3>2, <3>3
  <2>6. SatisfiesGiven(SatisfiesOf, b, x)
    BY <1>7, <2>1, <2>2, <2>3, <2>4, <2>5 DEF SatisfiesGiven, Satisfies, OfType
  <2> QED
    BY <1>7, <2>1, <2>6, SatisfiesUnfolds
<1>12. Satisfies(SdkSchema[c], x)
  <2>1. PICK s \in Nodes : s = SdkSchema[c] /\ DOMAIN s = {"oneOf"}
    BY ToolAssumption
  <2>2. \E d \in ToSet(s.oneOf) : Satisfies(d, x)
    BY <1>10, <1>11, <2>1
  <2>3. s # NullSchema
    BY <2>1, NotNull
  <2>4. Satisfies(s, x)
    BY <1>7, <2>1, <2>2, <2>3, SatisfiesPlain DEF Has
  <2> QED
    BY <2>1, <2>4
<1>13. ASSUME FramesAddNoMarker PROVE ~RedactThrows(Frames(x))
  <2>1. x = Obj(x.fields)
    <3>1. x = [t |-> "object", fields |-> x.fields]
      BY <1>7, TopLevel, ValueCases
    <3> QED
      BY <1>7, <3>1, ObjOfFields
  <2>2. ASSUME NEW k \in Names
        PROVE  x.fields[k] \in Scalars /\ ~(x.fields[k].t = "string" /\ Marker \in ToSet(x.fields[k].str))
    <3>1. ASSUME NEW a \in Symbols \ {Marker}, x.fields[k] = Str(<<a>>)
          PROVE  x.fields[k] \in Scalars /\ ~(Marker \in ToSet(x.fields[k].str))
      <4>1. x.fields[k] \in Scalars /\ x.fields[k].str = <<a>>
        BY <3>1 DEF Scalars, Str
      <4>2. Marker \notin ToSet(<<a>>)
        BY DEF ToSet
      <4> QED
        BY <4>1, <4>2
    <3>2. Undefined \in Scalars /\ Undefined.t # "string"
      BY DEF Scalars, Undefined
    <3> QED
      BY <1>8, <1>9, <3>1, <3>2
  <2>3. x.fields \in [Names -> Scalars]
    <3>1. x.fields = [k \in Names |-> x.fields[k]]
      BY <1>7 DEF FieldSpace
    <3> QED
      BY <2>2, <3>1
  <2> QED
    BY <1>13, <2>1, <2>2, <2>3 DEF FramesAddNoMarker
<1> QED
  BY <1>1, <1>5, <1>12, <1>13

\* A call of a curated tool with every argument brings an input to the SDK.
LEMMA CuratedArrives ==
  ASSUME NEW t \in AllTools, ~t.generated, NEW given \in FieldSpace, CuratedCall(t.curated, given),
         t.curated.optional \subseteq Given(given), ~ConversionThrows(SchemaOf(t)), FramesAddNoMarker
  PROVE  \E r \in Received(t, given) : \E x \in SdkInputs(t, r.fields) : ~RedactThrows(Frames(x))
<1>1. PICK c \in Tools : c = t.curated /\ SchemaOf(t) = SdkSchema[c] /\ SdkSchema[c] \in Nodes
  BY ToolCases
<1>2. PICK action \in DOMAIN c.actions :
        /\ given[c.choice] = Str(<<action>>)
        /\ \A k \in c.always : given[k] = Str(<<k>>)
        /\ \A k \in c.optional : given[k] \in {Str(<<k>>), Undefined}
  BY <1>1 DEF CuratedCall
<1>3. \A k \in c.always \cup c.optional : given[k] = Str(<<k>>)
  BY <1>1, <1>2 DEF Given
<1>4. AcceptsArguments(c, given)
  <2>1. \A text : Str(text).t = "string"
    BY DEF Str
  <2> QED
    BY <1>2, <1>3, <2>1 DEF AcceptsArguments
<1>5. PICK r \in Received(t, given) : TRUE
  BY <1>1, <1>4 DEF Received
<1>6. CuratedReceived(c, given, r.fields) /\ r.fields \in FieldSpace
  BY <1>1, CuratedReceives, ReceivedFacts
<1>7. FullCall(c, r.fields)
  <2>1. \A k \in c.always \cup c.optional : k \in Names /\ k \in Arguments(c)
    BY CuratedFacts DEF Arguments
  <2>2. \A k \in c.always \cup c.optional : r.fields[k] = Str(<<k>>)
    BY <1>3, <1>6, <2>1 DEF CuratedReceived
  <2> QED
    BY <1>6, <2>2 DEF FullCall, CuratedReceived
<1>8. PICK x : x = CuratedInput(c, r.fields)
  OBVIOUS
<1>9. /\ ~ToInputThrows(c, ActionOf(c, r.fields), Given(r.fields))
      /\ Satisfies(SdkSchema[c], x) /\ ~RedactThrows(Frames(x)) /\ x \in Values
  BY <1>6, <1>7, <1>8, FullInput, CuratedInputFacts
<1>10. x \in ToInput(t, r.fields)
  BY <1>1, <1>8, <1>9, CuratedToInput
<1>11. ParseFull(SdkSchema[c], x) = {x}
  BY <1>1, <1>9, SdkSchemaClosed, FullComplete
<1>12. x \in SdkInputs(t, r.fields)
  BY <1>1, <1>10, <1>11 DEF SdkInputs, Validate
<1> QED
  BY <1>9, <1>12

-----------------------------------------------------------------------------
(* The call *)

\* The handler receives one thing, if any.
LEMMA ReceivedOne ==
  ASSUME NEW t, NEW given, NEW r \in Received(t, given), NEW q \in Received(t, given)
  PROVE  r = q
BY DEF Received, ParseShape, ZObject

Loaded == phase \notin {"loading", "unloadable"}
Entering == phase \in {"signed", "mismatch"}

\* The preview is that of an input that the arguments bring to the SDK.
Previewed(received) ==
  /\ input \in SdkInputs(tool, received.fields)
  /\ ~RedactThrows(command)
  /\ command = Frames(input)
  /\ view = RedactCommand(command, received.fields, SecretArgs(tool))

\* What holds in each phase.
ArgumentsInv ==
  /\ tool \in AllTools
  /\ phase \in {"loading", "unloadable", "ready", "rejected", "refused", "previewed",
                "signed", "mismatch"}
  /\ ~Accepted => input = Undefined /\ command = <<>> /\ view = NoView
  /\ ~Answered => args = NoFields
  /\ Answered => args \in Calls(tool)
  /\ Loaded => ~ConversionThrows(SchemaOf(tool))
  /\ phase = "rejected" => Received(tool, args) = {}
  /\ phase = "refused" =>
       \E received \in Received(tool, args) :
         \A value \in SdkInputs(tool, received.fields) : RedactThrows(Frames(value))
  /\ Accepted => \E received \in Received(tool, args) : Previewed(received)
  /\ DOMAIN entered = IF Entering THEN ToSet(view.fields) ELSE {}
  /\ entered = [f \in DOMAIN entered |-> entered[f]]
  /\ phase = "mismatch" => ~VerifyReentry(view, command, entered)

LEMMA InvInit == Init => ArgumentsInv
BY DEF Init, ArgumentsInv, Accepted, Answered, Loaded, Entering

LEMMA InvNext == ArgumentsInv /\ [Next]_vars => ArgumentsInv'
<1> SUFFICES ASSUME ArgumentsInv, [Next]_vars PROVE ArgumentsInv'
  OBVIOUS
<1>1. CASE Load
  BY <1>1 DEF Load, ArgumentsInv, Accepted, Answered, Loaded, Entering
<1>2. CASE Reject
  BY <1>2 DEF Reject, ArgumentsInv, Accepted, Answered, Loaded, Entering
<1>3. CASE Refuse
  BY <1>3 DEF Refuse, ArgumentsInv, Accepted, Answered, Loaded, Entering
<1>4. CASE Preview
  <2>1. PICK given \in Calls(tool) : \E received \in Received(tool, given) :
          \E value \in SdkInputs(tool, received.fields) :
            /\ ~RedactThrows(Frames(value)) /\ args' = given /\ input' = value
            /\ command' = Frames(value)
            /\ view' = RedactCommand(Frames(value), received.fields, SecretArgs(tool))
    BY <1>4 DEF Preview
  <2>2. PICK received \in Received(tool, given) : \E value \in SdkInputs(tool, received.fields) :
          /\ ~RedactThrows(Frames(value)) /\ args' = given /\ input' = value
          /\ command' = Frames(value)
          /\ view' = RedactCommand(Frames(value), received.fields, SecretArgs(tool))
    BY <2>1
  <2>3. phase' = "previewed" /\ tool' = tool /\ entered' = entered /\ phase = "ready"
    BY <1>4 DEF Preview
  <2>4. Previewed(received)'
    BY <2>2, <2>3 DEF Previewed
  <2>5. received \in Received(tool, args)'
    BY <2>2, <2>3
  <2> QED
    BY <2>2, <2>3, <2>4, <2>5 DEF ArgumentsInv, Accepted, Answered, Loaded, Entering
<1>5. CASE Reenter
  BY <1>5 DEF Reenter, ArgumentsInv, Accepted, Answered, Loaded, Entering, Previewed
<1>6. CASE UNCHANGED vars
  BY <1>6 DEF vars, ArgumentsInv, Accepted, Answered, Loaded, Entering, Previewed
<1> QED
  BY <1>1, <1>2, <1>3, <1>4, <1>5, <1>6 DEF Next

LEMMA InvHolds == Spec => []ArgumentsInv
<1> QED
  BY InvInit, InvNext, PTL DEF Spec

\* An accepted call: whatever is received, the preview is that of an input it stands for.
LEMMA AcceptedFacts ==
  ASSUME ArgumentsInv, Accepted, NEW received \in Received(tool, args)
  PROVE  /\ Previewed(received) /\ received.fields \in FieldSpace
         /\ input \in Values /\ Satisfies(SchemaOf(tool), input)
<1>1. tool \in AllTools /\ args \in Calls(tool)
  BY DEF ArgumentsInv, Accepted, Answered
<1>2. args \in FieldSpace
  BY <1>1, CallFacts
<1>3. Previewed(received)
  <2>1. PICK r \in Received(tool, args) : Previewed(r)
    BY DEF ArgumentsInv
  <2> QED
    BY <2>1, ReceivedOne
<1>4. received.fields \in FieldSpace
  BY <1>1, <1>2, ReceivedFacts
<1>5. input \in Values /\ Satisfies(SchemaOf(tool), input)
  BY <1>1, <1>2, <1>3, SdkInputFacts DEF Previewed
<1> QED
  BY <1>3, <1>4, <1>5

\* What RedactCommand makes of the command of an accepted call.
LEMMA ViewFacts ==
  ASSUME ArgumentsInv, Accepted, RenderedAsTexts, NEW received \in Received(tool, args)
  PROVE  /\ command \in Seq(Symbols) /\ view = RedactCommand(command, received.fields, SecretArgs(tool))
         /\ Redactable(received.fields, SecretArgs(tool))
<1>1. Previewed(received) /\ received.fields \in FieldSpace /\ input \in Values
  BY AcceptedFacts
<1>2. tool \in AllTools
  BY DEF ArgumentsInv
<1> QED
  BY <1>1, <1>2, SecretsFacts DEF RenderedAsTexts, Previewed

LEMMA TypesFollow == ArgumentsInv /\ RenderedAsTexts => ArgumentsTypeOK
<1> SUFFICES ASSUME ArgumentsInv, RenderedAsTexts PROVE ArgumentsTypeOK
  OBVIOUS
<1>1. IsInjective(view.fields) /\ ToSet(view.fields) = {k \in Names : Placeholder(k) \in ToSet(view.preview)}
  <2>1. CASE Accepted
    <3>1. PICK received \in Received(tool, args) : Previewed(received)
      BY <2>1 DEF ArgumentsInv
    <3>2. /\ command \in Seq(Symbols)
          /\ view = RedactCommand(command, received.fields, SecretArgs(tool))
          /\ Redactable(received.fields, SecretArgs(tool))
      BY <2>1, ViewFacts
    <3> QED
      BY <3>2, RedactionReversible
  <2>2. CASE ~Accepted
    <3>1. view.fields = <<>> /\ view.preview = <<>>
      BY <2>2 DEF ArgumentsInv, NoView
    <3>2. ToSet(<<>>) = {}
      BY DEF ToSet
    <3>3. IsInjective(<<>>)
      BY DEF IsInjective
    <3> QED
      BY <3>1, <3>2, <3>3
  <2> QED
    BY <2>1, <2>2
<1>2. DOMAIN entered \subseteq ToSet(view.fields)
  BY DEF ArgumentsInv
<1> QED
  BY <1>1, <1>2 DEF ArgumentsInv, ArgumentsTypeOK

\* The types of a call; there is a preview exactly of an accepted one, its fields are those
\* whose placeholder it holds, and they are not asked for twice (ArgumentsTypeOK), for all
\* schemas, tools, values and texts, if inputs and values are rendered as texts.
THEOREM ArgumentsHaveTypes == RenderedAsTexts => (Spec => []ArgumentsTypeOK)
<1>1. ASSUME RenderedAsTexts PROVE Spec => []ArgumentsTypeOK
  <2>1. ArgumentsInv => ArgumentsTypeOK
    BY <1>1, TypesFollow
  <2> QED
    BY <2>1, InvHolds, PTL
<1> QED
  BY <1>1

\* What reaches the SDK satisfies the operation's schema, for all schemas (InputSatisfiesSchema):
\* validate returns a value only if every keyword of the schema holds of it.
THEOREM InputsSatisfySchema == Spec => []InputSatisfiesSchema
<1>1. ArgumentsInv => InputSatisfiesSchema
  <2> SUFFICES ASSUME ArgumentsInv, Accepted PROVE Satisfies(SchemaOf(tool), input)
    BY DEF InputSatisfiesSchema
  <2>1. PICK received \in Received(tool, args) : Previewed(received)
    BY DEF ArgumentsInv
  <2> QED
    BY <2>1, AcceptedFacts
<1> QED
  BY <1>1, InvHolds, PTL

\* No preview shows the text of a secret argument, whatever its value, the longest one of a
\* command is asked for, and nothing else is hidden (PreviewHidesSecrets), for all schemas,
\* values and commands.  It says nothing of what an object among the arguments holds but
\* that it stays where no secret's own text occurs.
THEOREM PreviewsHideSecrets == RenderedAsTexts => (Spec => []PreviewHidesSecrets)
<1>1. ASSUME RenderedAsTexts PROVE Spec => []PreviewHidesSecrets
  <2>1. ArgumentsInv => PreviewHidesSecrets
    <3> SUFFICES ASSUME ArgumentsInv, Accepted, NEW received \in Received(tool, args)
                 PROVE  Hides(command, received.fields, SecretArgs(tool), view)
      BY DEF PreviewHidesSecrets, Hides
    <3>1. /\ command \in Seq(Symbols)
          /\ view = RedactCommand(command, received.fields, SecretArgs(tool))
          /\ Redactable(received.fields, SecretArgs(tool))
      BY <1>1, ViewFacts
    <3> QED
      BY <3>1, RedactionReversible
  <2> QED
    BY <2>1, InvHolds, PTL
<1> QED
  BY <1>1

\* A human who types the texts of the secrets received gets the command back
\* (ReentryAccepted), for all secrets and commands: the placeholders of a preview, filled in,
\* make the command.
THEOREM ReentriesAccepted == RenderedAsTexts => (Spec => []ReentryAccepted)
<1>1. ASSUME RenderedAsTexts PROVE Spec => []ReentryAccepted
  <2>1. ArgumentsInv => ReentryAccepted
    <3> SUFFICES ASSUME ArgumentsInv, phase = "mismatch", NEW received \in Received(tool, args),
                        \A f \in DOMAIN entered : entered[f] = TextOf(received.fields[f])
                 PROVE  FALSE
      BY DEF ReentryAccepted
    <3>0. Accepted /\ Entering
      BY DEF Accepted, Entering
    <3>2. /\ command \in Seq(Symbols)
          /\ view = RedactCommand(command, received.fields, SecretArgs(tool))
          /\ Redactable(received.fields, SecretArgs(tool))
      BY <1>1, <3>0, ViewFacts
    <3>3. /\ view.fields \in Seq(Names)
          /\ \A F \in SUBSET Names : ToSet(view.fields) \subseteq F =>
               RestoreCommand(view.preview, Truly(received.fields, F)) = command
      BY <3>2, RedactionReversible
    <3>4. ToSet(view.fields) \in SUBSET Names
      BY <3>3 DEF ToSet
    <3>5. DOMAIN entered = ToSet(view.fields)
      BY <3>0 DEF ArgumentsInv
    <3>6. entered = Truly(received.fields, ToSet(view.fields))
      <4>1. entered = [f \in DOMAIN entered |-> entered[f]]
        BY DEF ArgumentsInv
      <4> QED
        BY <4>1, <3>5 DEF Truly
    <3>7. RestoreCommand(view.preview, entered) = command
      BY <3>3, <3>4, <3>6
    <3> QED
      BY <3>5, <3>7 DEF VerifyReentry, ArgumentsInv
  <2> QED
    BY <2>1, InvHolds, PTL
<1> QED
  BY <1>1

\* An answered call that brings an input to the SDK, without the marker, is accepted.
LEMMA ArrivedIsAccepted ==
  ASSUME ArgumentsInv, Answered, NEW r \in Received(tool, args), NEW x \in SdkInputs(tool, r.fields),
         ~RedactThrows(Frames(x))
  PROVE  Accepted
<1>1. phase # "rejected"
  BY DEF ArgumentsInv
<1>2. phase # "refused"
  <2> SUFFICES ASSUME phase = "refused" PROVE FALSE
    OBVIOUS
  <2>1. PICK q \in Received(tool, args) :
          \A value \in SdkInputs(tool, q.fields) : RedactThrows(Frames(value))
    BY DEF ArgumentsInv
  <2>2. q = r
    BY ReceivedOne
  <2> QED
    BY <2>1, <2>2
<1> QED
  BY <1>1, <1>2 DEF Answered

LEMMA AnsweredFacts ==
  ASSUME ArgumentsInv, Answered
  PROVE  /\ tool \in AllTools /\ args \in FieldSpace /\ ~ConversionThrows(SchemaOf(tool))
         /\ ~tool.generated => CuratedCall(tool.curated, args)
<1>1. tool \in AllTools /\ args \in Calls(tool)
  BY DEF ArgumentsInv
<1>2. Loaded
  BY DEF Answered, Accepted, Loaded
<1> QED
  BY <1>1, <1>2, CallFacts DEF ArgumentsInv

LEMMA InputArrives ==
  ASSUME ArgumentsInv, Answered, tool.generated, Closed(tool.schema), TagsRequired(tool.schema),
         Satisfies(tool.schema, Expressed), Expressed # EmptyObject, ~RedactThrows(Frames(Expressed))
  PROVE  Accepted /\ input = Expressed
<1>1. /\ tool \in AllTools /\ args \in FieldSpace /\ ~ConversionThrows(tool.schema)
  BY AnsweredFacts, ToolCases
<1>2. PICK x : x = Expressed
  OBVIOUS
<1>3. x = ExpressedBy(tool.schema, args)
  BY <1>2 DEF Expressed, ExpressedBy
<1>4. x \in Values
  <2>1. args["input"] \in Values
    BY <1>1, TopLevel, SchemaAssumption DEF FieldSpace
  <2>2. x = args["input"] \/ x = Undefined \/ x = Obj(args)
    BY <1>3 DEF ExpressedBy
  <2> QED
    BY <1>1, <2>1, <2>2, TopLevel, ObjOfFields
<1>5. PICK r \in Received(tool, args) : \A y : y \in SdkInputs(tool, r.fields) <=> y = x
  BY <1>1, <1>2, <1>3, <1>4, GeneratedArrives
<1>6. Accepted
  BY <1>2, <1>5, ArrivedIsAccepted
<1>7. Previewed(r)
  BY <1>6, AcceptedFacts
<1> QED
  BY <1>2, <1>5, <1>6, <1>7 DEF Previewed

\* Whatever closed schema an operation has, each input that the schema allows reaches the SDK
\* unchanged when it is given to the generated tool, with the exceptions that ValidInputArrives
\* names; and every action of every curated tool is accepted with all its arguments
\* (schema-to-zod.ts, builders.ts toInput), if the SDK adds no marker to a command.
THEOREM ValidInputsArrive == FramesAddNoMarker => (Spec => []ValidInputArrives)
<1>1. ASSUME FramesAddNoMarker PROVE Spec => []ValidInputArrives
  <2>1. ArgumentsInv => ValidInputArrives
    <3>1. ASSUME ArgumentsInv, ~tool.generated, Answered, tool.curated.optional \subseteq Given(args)
          PROVE  Accepted
      <4>1. PICK r \in Received(tool, args) :
              \E x \in SdkInputs(tool, r.fields) : ~RedactThrows(Frames(x))
        BY <1>1, <3>1, AnsweredFacts, CuratedArrives
      <4> QED
        BY <3>1, <4>1, ArrivedIsAccepted
    <3>2. ASSUME ArgumentsInv, tool.generated, Answered, Closed(tool.schema),
                 TagsRequired(tool.schema), Satisfies(tool.schema, Expressed),
                 Expressed # EmptyObject, ~RedactThrows(Frames(Expressed))
          PROVE  Accepted /\ input = Expressed
      BY <3>2, InputArrives
    <3> QED
      BY <3>1, <3>2 DEF ValidInputArrives
  <2> QED
    BY <2>1, InvHolds, PTL
<1> QED
  BY <1>1
=============================================================================
