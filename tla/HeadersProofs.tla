---------------------------- MODULE HeadersProofs ----------------------------
(***************************************************************************)
(* Proofs about Headers, for any objects, names, values and received       *)
(* fields: the types, that a value which was not fetched yet can be, and   *)
(* that content is shown a plain list.                                     *)
(*                                                                         *)
(* What a constructor copies to another object is trimmed again: the list  *)
(* stays the same because all that an object shows is trimmed already, and *)
(* stays so when values are combined.                                      *)
(***************************************************************************)
EXTENDS Headers, QueueLemmas

LEMMA BlankIsNoComma == Blank \in Tokens /\ Comma \in Tokens /\ Blank # Comma
BY TokensAssumption DEF Blank, Comma

Clean(v) == v \in Seq(Tokens) /\ Trim(v) = v

-----------------------------------------------------------------------------
(* Values *)

LEMMA LeastAndGreatest ==
  ASSUME NEW n \in Nat, NEW S \in SUBSET (1..n), S # {}
  PROVE  /\ Min(S) \in S /\ \A x \in S : Min(S) <= x
         /\ Max(S) \in S /\ \A x \in S : x <= Max(S)
<1>1. PICK a \in S : \A x \in S : a <= x
  <2>1. S \in SUBSET Nat
    OBVIOUS
  <2> QED BY <2>1, LeastElement
<1>2. PICK z \in S : \A x \in S : x <= z
  <2> DEFINE T == {n - x : x \in S}
  <2>1. T \in SUBSET Nat /\ T # {}
    OBVIOUS
  <2>2. PICK t \in T : \A u \in T : t <= u
    BY <2>1, LeastElement
  <2>3. PICK y \in S : t = n - y
    BY <2>2
  <2>4. ASSUME NEW x \in S PROVE x <= y
    <3>1. n - y <= n - x
      BY <2>2, <2>3, <2>4
    <3> QED BY <3>1, <2>4, <2>3
  <2> QED BY <2>3, <2>4
<1>3. Min(S) \in S /\ \A x \in S : Min(S) <= x
  BY <1>1 DEF Min
<1>4. Max(S) \in S /\ \A x \in S : Max(S) >= x
  <2>1. \A x \in S : z >= x
    BY <1>2
  <2> QED BY <1>2, <2>1 DEF Max
<1>5. \A x \in S : x <= Max(S)
  BY <1>4
<1> QED BY <1>3, <1>4, <1>5

\* What Trim leaves begins and ends with ink; and it takes nothing more away.
LEMMA TrimEnds ==
  ASSUME NEW v \in Seq(Tokens)
  PROVE  /\ Trim(v) \in Seq(Tokens)
         /\ Trim(v) = <<>> \/ (Trim(v)[1] # Blank /\ Trim(v)[Len(Trim(v))] # Blank)
         /\ v # <<>> /\ v[1] # Blank /\ v[Len(v)] # Blank => Trim(v) = v
<1> DEFINE ink == {i \in DOMAIN v : v[i] # Blank}
           a == Min(ink)
           z == Max(ink)
<1>0. Len(v) \in Nat /\ DOMAIN v = 1..Len(v) /\ \A i \in 1..Len(v) : v[i] \in Tokens
  BY LenProperties, ElementOfSeq
<1>1. Trim(v) = IF ink = {} THEN <<>> ELSE SubSeq(v, a, z)
  BY DEF Trim
<1>2. CASE ink = {}
  BY <1>0, <1>1, <1>2
<1>3. CASE ink # {}
  <2>1. ink \in SUBSET (1..Len(v))
    BY <1>0
  <2> HIDE DEF ink
  <2>2. /\ a \in ink /\ \A x \in ink : a <= x
        /\ z \in ink /\ \A x \in ink : x <= z
    BY <1>0, <1>3, <2>1, LeastAndGreatest
  <2> HIDE DEF a, z
  <2>3. a \in 1..Len(v) /\ z \in 1..Len(v) /\ a <= z
    BY <2>1, <2>2
  <2>4. v[a] # Blank /\ v[z] # Blank
    BY <2>2 DEF ink
  <2>5. \A i \in a..z : v[i] \in Tokens
    BY <1>0, <2>3
  <2>6. /\ SubSeq(v, a, z) \in Seq(Tokens)
        /\ Len(SubSeq(v, a, z)) = z - a + 1
        /\ \A i \in 1..(z - a + 1) : SubSeq(v, a, z)[i] = v[a + i - 1]
    BY <2>3, <2>5, SubSeqProperties
  <2> DEFINE t == SubSeq(v, a, z)
  <2>7. Trim(v) = t
    BY <1>1, <1>3
  <2>8. t[1] = v[a] /\ t[Len(t)] = v[z]
    <3> HIDE DEF t
    <3>1. t[1] = v[a + 1 - 1] /\ t[z - a + 1] = v[a + (z - a + 1) - 1] /\ Len(t) = z - a + 1
      BY <2>3, <2>6 DEF t
    <3>2. a + 1 - 1 = a /\ a + (z - a + 1) - 1 = z
      BY <2>3
    <3> QED BY <3>1, <3>2
  <2>9. ASSUME v # <<>>, v[1] # Blank, v[Len(v)] # Blank PROVE t = v
    <3>1. 1 \in ink /\ Len(v) \in ink
      BY <1>0, <2>9 DEF ink
    <3>2. a = 1 /\ z = Len(v)
      <4> HIDE DEF t
      <4>1. a <= 1 /\ Len(v) <= z
        BY <2>2, <3>1
      <4>2. Len(v) \in Nat
        BY <1>0
      <4>3. ASSUME NEW n \in Nat, a \in 1..n, z \in 1..n, a <= 1, n <= z
            PROVE  a = 1 /\ z = n
        BY <4>3
      <4> QED BY <2>3, <4>1, <4>2, <4>3
    <3>3. Len(t) = Len(v) /\ \A i \in 1..Len(v) : t[i] = v[i]
      <4> HIDE DEF t
      <4>1. Len(t) = z - a + 1 /\ \A i \in 1..(z - a + 1) : t[i] = v[a + i - 1]
        BY <2>6 DEF t
      <4>2. z - a + 1 = Len(v) /\ \A i \in 1..Len(v) : a + i - 1 = i
        BY <1>0, <3>2
      <4> QED BY <4>1, <4>2
    <3> QED BY <2>6, <3>3, SeqEqual
  <2> QED BY <2>4, <2>6, <2>7, <2>8, <2>9
<1> QED BY <1>2, <1>3

LEMMA TrimmedIsClean ==
  ASSUME NEW v \in Seq(Tokens)
  PROVE  Clean(Trim(v))
<1> DEFINE t == Trim(v)
<1>1. t \in Seq(Tokens) /\ (t = <<>> \/ (t[1] # Blank /\ t[Len(t)] # Blank))
  BY TrimEnds
<1> SUFFICES Clean(t)
  OBVIOUS
<1> HIDE DEF t
<1>2. CASE t = <<>>
  BY <1>1, <1>2 DEF Clean, Trim
<1>3. CASE t # <<>>
  BY <1>1, <1>3, TrimEnds DEF Clean
<1> QED BY <1>2, <1>3 DEF t

LEMMA CleanEnds ==
  ASSUME NEW v, Clean(v)
  PROVE  v \in Seq(Tokens) /\ (v = <<>> \/ (v[1] # Blank /\ v[Len(v)] # Blank))
BY TrimEnds DEF Clean

LEMMA CombineType ==
  ASSUME NEW v \in Seq(Tokens), NEW w \in Seq(Tokens)
  PROVE  /\ Combine(v, w) \in Seq(Tokens)
         /\ Len(Combine(v, w)) = Len(v) + 1 + Len(w)
         /\ \A i \in 1..Len(v) : Combine(v, w)[i] = v[i]
         /\ Combine(v, w)[Len(v) + 1] = Comma
         /\ \A i \in 1..Len(w) : Combine(v, w)[Len(v) + 1 + i] = w[i]
BY BlankIsNoComma DEF Combine

LEMMA CombineClean ==
  ASSUME NEW v, NEW w, Clean(v), Clean(w)
  PROVE  Clean(Combine(v, w))
<1> DEFINE c == Combine(v, w)
<1>0. /\ v \in Seq(Tokens) /\ (v = <<>> \/ (v[1] # Blank /\ v[Len(v)] # Blank))
      /\ w \in Seq(Tokens) /\ (w = <<>> \/ (w[1] # Blank /\ w[Len(w)] # Blank))
  BY CleanEnds
<1>1. Len(v) \in Nat /\ Len(w) \in Nat
  BY <1>0
<1>2. /\ c \in Seq(Tokens) /\ Len(c) = Len(v) + 1 + Len(w)
      /\ \A i \in 1..Len(v) : c[i] = v[i]
      /\ c[Len(v) + 1] = Comma
      /\ \A i \in 1..Len(w) : c[Len(v) + 1 + i] = w[i]
  BY <1>0, CombineType
<1> HIDE DEF c
<1> USE BlankIsNoComma
<1>3. c[1] # Blank
  <2>1. CASE v = <<>>
    BY <1>2, <2>1
  <2>2. CASE v # <<>>
    BY <1>0, <1>2, <2>2
  <2> QED BY <2>1, <2>2
<1>4. c[Len(c)] # Blank
  <2>1. CASE w = <<>>
    BY <1>1, <1>2, <2>1
  <2>2. CASE w # <<>>
    <3>1. Len(w) \in 1..Len(w)
      BY <1>0, <2>2
    <3> QED BY <1>0, <1>2, <2>2, <3>1
  <2> QED BY <2>1, <2>2
<1>5. c # <<>>
  BY <1>1, <1>2
<1> QED BY <1>2, <1>3, <1>4, <1>5, TrimEnds DEF c, Clean

\* The function that Join defines.
Joins(f, vs, m) ==
  f = [i \in 1..m |-> IF i = 1 THEN vs[1] ELSE Combine(f[i - 1], vs[i])]

LEMMA JoinsExists ==
  ASSUME NEW vs, NEW m \in Nat
  PROVE  \E f : Joins(f, vs, m)
<1> DEFINE bad == {n \in Nat : ~ \E f : Joins(f, vs, n)}
<1> SUFFICES ASSUME bad # {} PROVE FALSE
  OBVIOUS
<1>1. PICK n \in bad : \A k \in bad : n <= k
  <2>1. bad \in SUBSET Nat
    OBVIOUS
  <2> HIDE DEF bad
  <2> QED BY <2>1, LeastElement
<1>2. n # 0
  <2>1. Joins([k \in 1..0 |-> <<>>], vs, 0)
    BY DEF Joins
  <2> QED BY <1>1, <2>1
<1>3. n \in Nat /\ n - 1 \in Nat /\ n - 1 \notin bad
  BY <1>1, <1>2
<1>4. PICK f : Joins(f, vs, n - 1)
  BY <1>3
<1> DEFINE last == IF n = 1 THEN vs[1] ELSE Combine(f[n - 1], vs[n])
           g == [k \in 1..n |-> IF k = n THEN last ELSE f[k]]
<1>5. ASSUME NEW k \in 1..n
      PROVE  g[k] = IF k = 1 THEN vs[1] ELSE Combine(g[k - 1], vs[k])
  <2>1. CASE k = n
    <3>1. n # 1 => g[n - 1] = f[n - 1] /\ n - 1 \in 1..n
      BY <1>3
    <3> QED BY <1>2, <2>1, <3>1
  <2>2. CASE k # n
    <3>1. k \in 1..(n - 1) /\ (k # 1 => k - 1 \in 1..(n - 1))
      BY <1>3, <2>2
    <3>2. f[k] = IF k = 1 THEN vs[1] ELSE Combine(f[k - 1], vs[k])
      BY <1>4, <3>1 DEF Joins
    <3>3. g[k] = f[k] /\ (k # 1 => g[k - 1] = f[k - 1])
      BY <1>3, <2>2, <3>1
    <3> QED BY <3>2, <3>3
  <2> QED BY <2>1, <2>2
<1>6. Joins(g, vs, n)
  BY <1>5 DEF Joins
<1> QED BY <1>1, <1>6

\* Values that are joined have no blanks at their ends if none of them has.
\* What Join defines, without the function that it chooses.
LEMMA JoinIs ==
  ASSUME NEW vs, Len(vs) \in Nat
  PROVE  \E f : /\ Join(vs) = f[Len(vs)]
                /\ \A i \in 1..Len(vs) : f[i] = IF i = 1 THEN vs[1] ELSE Combine(f[i - 1], vs[i])
<1> DEFINE f == CHOOSE h : Joins(h, vs, Len(vs))
<1>1. Joins(f, vs, Len(vs))
  BY JoinsExists
<1>2. Join(vs) = f[Len(vs)]
  BY DEF Join, Joins
<1> HIDE DEF f
<1>3. \A i \in 1..Len(vs) : f[i] = IF i = 1 THEN vs[1] ELSE Combine(f[i - 1], vs[i])
  BY <1>1 DEF Joins
<1> QED BY <1>2, <1>3

LEMMA JoinClean ==
  ASSUME NEW vs \in Seq(Seq(Tokens)), vs # <<>>,
         \A i \in DOMAIN vs : Trim(vs[i]) = vs[i]
  PROVE  Clean(Join(vs))
<1>1. /\ Len(vs) \in Nat /\ DOMAIN vs = 1..Len(vs) /\ Len(vs) \in 1..Len(vs)
      /\ \A i \in 1..Len(vs) : Clean(vs[i])
  <2>1. Len(vs) \in Nat /\ DOMAIN vs = 1..Len(vs) /\ \A i \in 1..Len(vs) : vs[i] \in Seq(Tokens)
    BY LenProperties, ElementOfSeq
  <2>2. Len(vs) # 0
    BY EmptySeq
  <2>3. \A i \in 1..Len(vs) : Clean(vs[i])
    BY <2>1 DEF Clean
  <2>4. ASSUME NEW l \in Nat, l # 0 PROVE l \in 1..l
    BY <2>4
  <2> QED BY <2>1, <2>2, <2>3, <2>4
<1>4. PICK f : /\ Join(vs) = f[Len(vs)]
               /\ \A i \in 1..Len(vs) : f[i] = IF i = 1 THEN vs[1] ELSE Combine(f[i - 1], vs[i])
  BY <1>1, JoinIs
<1> DEFINE bad == {i \in 1..Len(vs) : ~Clean(f[i])}
<1>5. bad = {}
  <2> SUFFICES ASSUME bad # {} PROVE FALSE
    OBVIOUS
  <2>1. PICK n \in bad : \A k \in bad : n <= k
    <3>1. bad \in SUBSET Nat
      BY <1>1
    <3> HIDE DEF bad
    <3> QED BY <3>1, LeastElement
  <2>2. n \in 1..Len(vs) /\ ~Clean(f[n])
    BY <2>1
  <2>3. n # 1
    BY <1>1, <1>4, <2>2
  <2>4. n - 1 \in 1..Len(vs) /\ ~(n <= n - 1)
    BY <1>1, <2>2, <2>3
  <2>5. Clean(f[n - 1])
    BY <2>1, <2>4
  <2>6. f[n] = Combine(f[n - 1], vs[n])
    BY <1>4, <2>2, <2>3
  <2> QED BY <1>1, <2>2, <2>5, <2>6, CombineClean
<1> QED BY <1>1, <1>4, <1>5

\* The function that SplitCookies defines.
SplitsAt(before, v, i) ==
  IF IsSeparator(v, i) THEN Append(before, <<>>)
  ELSE [before EXCEPT ![Len(before)] = Append(@, v[i])]
Splits(f, v, m) == f = [i \in 0..m |-> IF i = 0 THEN << <<>> >> ELSE SplitsAt(f[i - 1], v, i)]

LEMMA SplitsExists ==
  ASSUME NEW v, NEW m \in Nat
  PROVE  \E f : Splits(f, v, m)
<1> DEFINE bad == {n \in Nat : ~ \E f : Splits(f, v, n)}
<1> SUFFICES ASSUME bad # {} PROVE FALSE
  OBVIOUS
<1>1. PICK n \in bad : \A k \in bad : n <= k
  <2>1. bad \in SUBSET Nat
    OBVIOUS
  <2> HIDE DEF bad
  <2> QED BY <2>1, LeastElement
<1>2. n # 0
  <2>1. Splits([k \in 0..0 |-> << <<>> >>], v, 0)
    BY DEF Splits
  <2> QED BY <1>1, <2>1
<1>3. n \in Nat /\ n - 1 \in Nat /\ n - 1 \notin bad
  BY <1>1, <1>2
<1>4. PICK f : Splits(f, v, n - 1)
  BY <1>3
<1> DEFINE last == SplitsAt(f[n - 1], v, n)
           g == [k \in 0..n |-> IF k = n THEN last ELSE f[k]]
<1>5. ASSUME NEW k \in 0..n
      PROVE  g[k] = IF k = 0 THEN << <<>> >> ELSE SplitsAt(g[k - 1], v, k)
  <2>1. CASE k = n
    <3>1. g[n - 1] = f[n - 1] /\ n - 1 \in 0..n
      BY <1>3
    <3> QED BY <1>2, <2>1, <3>1
  <2>2. CASE k # n
    <3>1. k \in 0..(n - 1) /\ (k # 0 => k - 1 \in 0..(n - 1))
      BY <1>3, <2>2
    <3>2. f[k] = IF k = 0 THEN << <<>> >> ELSE SplitsAt(f[k - 1], v, k)
      BY <1>4, <3>1 DEF Splits
    <3>3. g[k] = f[k] /\ (k # 0 => g[k - 1] = f[k - 1])
      BY <1>3, <2>2, <3>1
    <3> QED BY <3>2, <3>3
  <2> QED BY <2>1, <2>2
<1>6. Splits(g, v, n)
  BY <1>5 DEF Splits
<1> QED BY <1>1, <1>6

LEMMA SplitIs ==
  ASSUME NEW v \in Seq(Tokens), v # <<>>
  PROVE  \E f : /\ SplitCookies(v) = f[Len(v)]
                /\ f[0] = << <<>> >>
                /\ \A i \in 1..Len(v) : f[i] = SplitsAt(f[i - 1], v, i)
<1>1. Len(v) \in Nat
  BY LenProperties
<1> DEFINE f == CHOOSE h : Splits(h, v, Len(v))
<1>2. Splits(f, v, Len(v))
  BY <1>1, SplitsExists
<1>3. SplitCookies(v) = f[Len(v)]
  BY DEF SplitCookies, Splits, SplitsAt
<1> HIDE DEF f
<1>4. f[0] = << <<>> >> /\ \A i \in 1..Len(v) : f[i] = SplitsAt(f[i - 1], v, i)
  <2> DEFINE l == Len(v)
  <2>1. 0 \in 0..l /\ \A i \in 1..l : i \in 0..l /\ i # 0
    <3> HIDE DEF l
    <3> QED BY <1>1 DEF l
  <2> QED BY <1>2, <2>1 DEF Splits
<1> QED BY <1>3, <1>4

\* The values of a field join one after the other.
LEMMA JoinSteps ==
  ASSUME NEW vs \in Seq(Seq(Tokens)), vs # <<>>
  PROVE  /\ Join(vs) \in Seq(Tokens)
         /\ Len(vs) = 1 => Join(vs) = vs[1]
         /\ \A ws \in Seq(Seq(Tokens)) :
              /\ ws # <<>> /\ Len(vs) = Len(ws) + 1
              /\ \A i \in 1..Len(ws) : vs[i] = ws[i]
              => Join(vs) = Combine(Join(ws), vs[Len(vs)])
<1> DEFINE l == Len(vs)
<1>1. l \in Nat /\ l # 0 /\ \A i \in 1..l : vs[i] \in Seq(Tokens)
  BY LenProperties, ElementOfSeq, EmptySeq
<1>2. PICK f : /\ Join(vs) = f[l]
               /\ \A i \in 1..l : f[i] = IF i = 1 THEN vs[1] ELSE Combine(f[i - 1], vs[i])
  BY <1>1, JoinIs
<1> HIDE DEF l
<1>3. Join(vs) \in Seq(Tokens)
  <2> DEFINE bad == {i \in 1..l : f[i] \notin Seq(Tokens)}
  <2>1. bad = {}
    <3> SUFFICES ASSUME bad # {} PROVE FALSE
      OBVIOUS
    <3>1. PICK n \in bad : \A k \in bad : n <= k
      <4>1. bad \in SUBSET Nat
        BY <1>1
      <4> HIDE DEF bad
      <4> QED BY <4>1, LeastElement
    <3>2. n \in 1..l /\ f[n] \notin Seq(Tokens) /\ n # 1
      BY <1>1, <1>2, <3>1
    <3>3. n - 1 \in 1..l /\ ~(n <= n - 1)
      BY <1>1, <3>2
    <3>4. f[n - 1] \in Seq(Tokens) /\ vs[n] \in Seq(Tokens)
      BY <1>1, <3>1, <3>2, <3>3
    <3>5. f[n] = Combine(f[n - 1], vs[n])
      BY <1>2, <3>2
    <3> QED BY <3>2, <3>4, <3>5, CombineType
  <2>2. l \in 1..l
    BY <1>1
  <2> QED BY <1>2, <2>1, <2>2
<1>4. l = 1 => Join(vs) = vs[1]
  BY <1>1, <1>2
<1>5. ASSUME NEW ws \in Seq(Seq(Tokens)), ws # <<>>, l = Len(ws) + 1,
             \A i \in 1..Len(ws) : vs[i] = ws[i]
      PROVE  Join(vs) = Combine(Join(ws), vs[l])
  <2> DEFINE m == Len(ws)
  <2>1. m \in Nat /\ m # 0
    BY <1>5, LenProperties, EmptySeq
  <2>2. PICK g : /\ Join(ws) = g[m]
                 /\ \A i \in 1..m : g[i] = IF i = 1 THEN ws[1] ELSE Combine(g[i - 1], ws[i])
    BY <2>1, JoinIs
  <2>3. l = m + 1 /\ \A i \in 1..m : vs[i] = ws[i]
    BY <1>5
  <2> HIDE DEF m
  <2> DEFINE bad == {i \in 1..m : f[i] # g[i]}
  <2>4. bad = {}
    <3> SUFFICES ASSUME bad # {} PROVE FALSE
      OBVIOUS
    <3>1. PICK n \in bad : \A k \in bad : n <= k
      <4>1. bad \in SUBSET Nat
        BY <2>1
      <4> HIDE DEF bad
      <4> QED BY <4>1, LeastElement
    <3>2. n \in 1..m /\ f[n] # g[n] /\ n \in 1..l /\ vs[n] = ws[n] /\ 1 \in 1..m
      BY <2>1, <2>3, <3>1
    <3>3. n # 1
      BY <1>2, <2>2, <2>3, <3>2
    <3>4. n - 1 \in 1..m /\ ~(n <= n - 1)
      BY <2>1, <3>2, <3>3
    <3>5. f[n - 1] = g[n - 1]
      BY <3>1, <3>4
    <3>6. f[n] = Combine(f[n - 1], vs[n]) /\ g[n] = Combine(g[n - 1], ws[n])
      BY <1>2, <2>2, <3>2, <3>3
    <3> QED BY <3>2, <3>5, <3>6
  <2>5. l \in 1..l /\ l # 1 /\ l - 1 = m /\ m \in 1..m
    BY <1>1, <2>1, <2>3
  <2>6. f[l] = Combine(f[m], vs[l]) /\ f[m] = g[m]
    BY <1>2, <2>4, <2>5
  <2> QED BY <1>2, <2>2, <2>6
<1> QED BY <1>3, <1>4, <1>5 DEF l

LEMMA CombineAppend ==
  ASSUME NEW a \in Seq(Tokens), NEW b \in Seq(Tokens), NEW x \in Tokens
  PROVE  Combine(a, Append(b, x)) = Append(Combine(a, b), x)
<1> DEFINE c == a \o <<Comma>>
           e == <<x>>
<1>1. c \in Seq(Tokens) /\ e \in Seq(Tokens)
  <2>1. <<Comma>> \in Seq(Tokens)
    BY BlankIsNoComma
  <2> QED BY <2>1, ConcatProperties
<1>2. \A w : Combine(a, w) = c \o w
  BY DEF Combine
<1> HIDE DEF c
<1>3. Append(b, x) = b \o e
  BY AppendIsConcat
<1>4. Append(c \o b, x) = (c \o b) \o e
  BY <1>1, ConcatProperties, AppendIsConcat
<1> HIDE DEF e
<1>5. (c \o b) \o e = c \o (b \o e)
  BY <1>1, ConcatAssociative
<1> QED BY <1>2, <1>3, <1>4, <1>5

\* Whether a token separates cookies or not, the pieces still join to all that
\* was read.
LEMMA SplitsAtJoins ==
  ASSUME NEW s \in Seq(Seq(Tokens)), s # <<>>, NEW v \in Seq(Tokens), NEW i \in 1..Len(v)
  PROVE  /\ SplitsAt(s, v, i) \in Seq(Seq(Tokens))
         /\ SplitsAt(s, v, i) # <<>>
         /\ Join(SplitsAt(s, v, i)) = Append(Join(s), v[i])
<1> DEFINE l == Len(s)
<1>1. /\ l \in Nat /\ l # 0 /\ DOMAIN s = 1..l /\ s \in [1..l -> Seq(Tokens)]
      /\ v[i] \in Tokens
  BY LenProperties, EmptySeq, ElementOfSeq
<1>2. l \in 1..l
  <2> HIDE DEF l
  <2> QED BY <1>1
<1>3. Join(s) \in Seq(Tokens)
  BY JoinSteps
<1>4. CASE IsSeparator(v, i)
  <2> DEFINE none == <<>>
             t == Append(s, none)
  <2>1. /\ t \in Seq(Seq(Tokens)) /\ Len(t) = l + 1 /\ t[Len(t)] = <<>>
        /\ \A k \in 1..l : t[k] = s[k]
    <3>1. none \in Seq(Tokens)
      OBVIOUS
    <3> HIDE DEF none
    <3>2. /\ t \in Seq(Seq(Tokens)) /\ Len(t) = l + 1 /\ t[l + 1] = none
          /\ \A k \in 1..l : t[k] = s[k]
      BY <3>1, AppendProperties
    <3> HIDE DEF t, l
    <3> QED BY <3>2 DEF none
  <2>2. t # <<>>
    BY <1>1, <2>1
  <2> HIDE DEF t
  <2>3. Join(t) = Combine(Join(s), <<>>)
    BY <2>1, <2>2, JoinSteps
  <2>4. Combine(Join(s), <<>>) = Append(Join(s), v[i])
    <3> DEFINE j == Join(s)
    <3>1. j \in Seq(Tokens) /\ v[i] = Comma
      BY <1>3, <1>4 DEF IsSeparator
    <3> HIDE DEF j
    <3>2. Append(j, v[i]) = j \o <<v[i]>> /\ j \o <<Comma>> \in Seq(Tokens)
      BY <1>1, <3>1, AppendIsConcat
    <3>3. (j \o <<Comma>>) \o <<>> = j \o <<Comma>>
      BY <3>2, ConcatEmptySeq
    <3>4. Combine(j, <<>>) = (j \o <<Comma>>) \o <<>>
      BY DEF Combine
    <3> QED BY <3>1, <3>2, <3>3, <3>4 DEF j
  <2>5. SplitsAt(s, v, i) = t
    BY <1>4 DEF SplitsAt, t
  <2> QED BY <2>1, <2>2, <2>3, <2>4, <2>5
<1>5. CASE ~IsSeparator(v, i)
  <2> DEFINE w == Append(s[l], v[i])
             t == [s EXCEPT ![l] = w]
  <2>1. s[l] \in Seq(Tokens)
    BY <1>1, <1>2
  <2>2. w \in Seq(Tokens)
    BY <1>1, <2>1
  <2>3. SplitsAt(s, v, i) = t
    BY <1>5 DEF SplitsAt
  <2> HIDE DEF w
  <2>4. /\ t \in [1..l -> Seq(Tokens)] /\ t[l] = w
        /\ \A k \in 1..l : k # l => t[k] = s[k]
    <3> HIDE DEF l
    <3> QED BY <1>1, <1>2, <2>2
  <2> HIDE DEF t
  <2>5. t \in Seq(Seq(Tokens)) /\ Len(t) = l /\ t # <<>>
    <3> HIDE DEF l
    <3>1. t \in Seq(Seq(Tokens))
      BY <1>1, <2>4, IsASeq
    <3>2. Len(t) = l
      <4>1. DOMAIN t = 1..l /\ DOMAIN t = 1..Len(t) /\ Len(t) \in Nat
        BY <2>4, <3>1, LenProperties
      <4> QED BY <1>1, <4>1
    <3> QED BY <1>1, <3>1, <3>2
  <2>6. CASE l = 1
    <3>1. Join(t) = t[1] /\ Join(s) = s[1]
      BY <2>5, <2>6, JoinSteps
    <3> QED BY <2>3, <2>4, <2>5, <2>6, <3>1 DEF w
  <2>7. CASE l # 1
    <3> DEFINE m == l - 1
               ws == [k \in 1..m |-> s[k]]
    <3>1. l - 1 \in Nat /\ l - 1 # 0 /\ l = (l - 1) + 1 /\ \A k \in 1..(l - 1) : k \in 1..l /\ k # l
      <4> HIDE DEF l
      <4> QED BY <1>1, <2>7
    <3>2. ws \in Seq(Seq(Tokens)) /\ Len(ws) = l - 1 /\ \A k \in 1..(l - 1) : ws[k] = s[k]
      <4>1. m \in Nat /\ \A k \in 1..m : s[k] \in Seq(Tokens)
        BY <1>1, <3>1
      <4> HIDE DEF m
      <4>2. ws \in [1..m -> Seq(Tokens)]
        BY <4>1
      <4>3. ws \in Seq(Seq(Tokens)) /\ DOMAIN ws = 1..m
        BY <4>1, <4>2, IsASeq
      <4>4. Len(ws) = m
        <5> HIDE DEF ws
        <5>1. DOMAIN ws = 1..Len(ws) /\ Len(ws) \in Nat
          BY <4>3, LenProperties
        <5> QED BY <4>1, <4>3, <5>1
      <4> QED BY <4>3, <4>4 DEF m
    <3> HIDE DEF ws, m
    <3>3. ws # <<>> /\ \A k \in 1..Len(ws) : ws[k] = s[k] /\ ws[k] = t[k]
      BY <2>4, <3>1, <3>2
    <3> DEFINE j == Join(ws)
    <3>4. j \in Seq(Tokens)
      BY <3>2, <3>3, JoinSteps
    <3>5. Join(s) = Combine(j, s[l])
      BY <3>1, <3>2, <3>3, JoinSteps
    <3>6. Join(t) = Combine(j, w)
      BY <2>4, <2>5, <3>1, <3>2, <3>3, JoinSteps
    <3> HIDE DEF j
    <3>7. Combine(j, w) = Append(Combine(j, s[l]), v[i])
      BY <1>1, <2>1, <3>4, CombineAppend DEF w
    <3> QED BY <2>3, <2>5, <3>5, <3>6, <3>7
  <2> QED BY <2>6, <2>7
<1> QED BY <1>4, <1>5

\* A value that is split into cookies, for the host, is not changed: joined
\* again, as get joins the fields of a response, the pieces give all of it.
THEOREM SplittingLosesNothing ==
  ASSUME NEW v \in Seq(Tokens), v # <<>>
  PROVE  SplitCookies(v) \in Seq(Seq(Tokens)) /\ Join(SplitCookies(v)) = v
<1> DEFINE l == Len(v)
<1>1. l \in Nat /\ \A i \in 1..l : v[i] \in Tokens
  BY LenProperties, ElementOfSeq
<1>2. PICK f : /\ SplitCookies(v) = f[l]
               /\ f[0] = << <<>> >>
               /\ \A i \in 1..l : f[i] = SplitsAt(f[i - 1], v, i)
  BY SplitIs
<1> DEFINE readTo(i) ==
             /\ f[i] \in Seq(Seq(Tokens)) /\ f[i] # <<>>
             /\ Join(f[i]) \in Seq(Tokens) /\ Len(Join(f[i])) = i
             /\ \A k \in 1..i : Join(f[i])[k] = v[k]
           bad == {i \in 0..l : ~readTo(i)}
<1>3. readTo(0)
  <2>1. f[0] \in Seq(Seq(Tokens)) /\ f[0] # <<>> /\ Len(f[0]) = 1 /\ f[0][1] = <<>>
    BY <1>2
  <2>2. Join(f[0]) = <<>>
    BY <2>1, JoinSteps
  <2> QED BY <2>1, <2>2
<1>4. ASSUME NEW i \in 1..l, readTo(i - 1) PROVE readTo(i)
  <2> DEFINE j == Join(f[i - 1])
  <2>1. /\ f[i] \in Seq(Seq(Tokens)) /\ f[i] # <<>>
        /\ Join(f[i]) = Append(j, v[i])
    BY <1>2, <1>4, SplitsAtJoins
  <2>2. j \in Seq(Tokens) /\ Len(j) = i - 1 /\ \A k \in 1..(i - 1) : j[k] = v[k]
    BY <1>4
  <2> HIDE DEF j
  <2>3. /\ Append(j, v[i]) \in Seq(Tokens) /\ Len(Append(j, v[i])) = (i - 1) + 1
        /\ Append(j, v[i])[(i - 1) + 1] = v[i]
        /\ \A k \in 1..(i - 1) : Append(j, v[i])[k] = j[k]
    BY <1>1, <2>2, AppendProperties
  <2>4. (i - 1) + 1 = i /\ \A k \in 1..i : k = i \/ k \in 1..(i - 1)
    <3> HIDE DEF l
    <3> QED BY <1>1
  <2> QED BY <2>1, <2>2, <2>3, <2>4
<1> HIDE DEF readTo
<1>5. bad = {}
  <2> SUFFICES ASSUME bad # {} PROVE FALSE
    OBVIOUS
  <2>1. PICK n \in bad : \A k \in bad : n <= k
    <3>1. bad \in SUBSET Nat
      BY <1>1
    <3> HIDE DEF bad
    <3> QED BY <3>1, LeastElement
  <2> HIDE DEF l
  <2>2. n \in 0..l /\ ~readTo(n) /\ n # 0
    BY <1>3, <2>1
  <2>3. n \in 1..l /\ n - 1 \in 0..l /\ ~(n <= n - 1)
    BY <1>1, <2>2
  <2>4. readTo(n - 1)
    BY <2>1, <2>3
  <2> QED BY <1>4, <2>2, <2>3, <2>4
<1>6. readTo(l)
  BY <1>1, <1>5
<1>7. /\ f[l] \in Seq(Seq(Tokens)) /\ Join(f[l]) \in Seq(Tokens)
      /\ Len(Join(f[l])) = Len(v) /\ \A k \in 1..Len(v) : Join(f[l])[k] = v[k]
  BY <1>6 DEF readTo
<1>8. Join(f[l]) = v
  <2> DEFINE j == Join(f[l])
  <2>1. j \in Seq(Tokens) /\ Len(j) = Len(v) /\ \A k \in 1..Len(j) : j[k] = v[k]
    BY <1>7
  <2> HIDE DEF j
  <2>2. j = v
    BY <2>1, SeqEqual
  <2> QED BY <2>2 DEF j
<1> QED BY <1>2, <1>7, <1>8

LEMMA SplitType ==
  ASSUME NEW v \in Seq(Tokens)
  PROVE  SplitCookies(v) \in Seq(Seq(Tokens))
<1>1. CASE v = <<>>
  BY <1>1 DEF SplitCookies
<1>2. CASE v # <<>>
  BY <1>2, SplittingLosesNothing
<1> QED BY <1>1, <1>2

-----------------------------------------------------------------------------
(* One object, field by field. *)

Object(pending, map, lazy, list, status) ==
  [pending |-> pending, map |-> map, lazy |-> lazy, list |-> list, status |-> status]

Lists == [Names -> Seq(Seq(Tokens))]
Statuses == {"none", "own", "frozen", "received", "dropped"}

\* The map has clean values for names that do not wait for theirs; a name that
\* waits has clean values in fields that nobody can change.
Good(o) ==
  /\ o = Object(o.pending, o.map, o.lazy, o.list, o.status)
  /\ o.pending \in SUBSET Names
  /\ o.map = [n \in DOMAIN o.map |-> o.map[n]]
  /\ DOMAIN o.map \in SUBSET (Names \ o.pending)
  /\ \A n \in DOMAIN o.map : Clean(o.map[n])
  /\ o.lazy \in BOOLEAN
  /\ o.list \in Lists
  /\ o.status \in Statuses
  /\ \A n \in o.pending :
       o.lazy /\ o.list[n] # <<>> /\ o.status = "received" /\ Clean(Join(o.list[n]))

\* What is shown of a good object: names, with clean values.
LEMMA ShownIs ==
  ASSUME NEW o, Good(o)
  PROVE  /\ DOMAIN Shown(o) = Listed(o) /\ Listed(o) \in SUBSET Names
         /\ Listed(o) = o.pending \cup DOMAIN o.map
         /\ Shown(o) = [n \in Listed(o) |-> Shown(o)[n]]
         /\ \A n \in o.pending : Shown(o)[n] = Join(o.list[n])
         /\ \A n \in DOMAIN o.map : Shown(o)[n] = o.map[n]
         /\ \A n \in Listed(o) : Clean(Shown(o)[n])
<1>1. DOMAIN Shown(o) = Listed(o) /\ Shown(o) = [n \in Listed(o) |-> Shown(o)[n]]
  BY DEF Shown
<1>2. Listed(o) \in SUBSET Names /\ Listed(o) = o.pending \cup DOMAIN o.map
  BY DEF Listed, Good
<1>3. \A n \in o.pending : Shown(o)[n] = Join(o.list[n])
  BY DEF Shown, Listed
<1>4. \A n \in DOMAIN o.map : Shown(o)[n] = o.map[n]
  BY DEF Shown, Listed, Good
<1>5. \A n \in Listed(o) : Clean(Shown(o)[n])
  BY <1>2, <1>3, <1>4 DEF Good
<1> QED BY <1>1, <1>2, <1>3, <1>4, <1>5

\* An object is good, and shows the list s, if its fields are good and show it.
LEMMA ShowsList ==
  ASSUME NEW o, Good(o), NEW s, s = [n \in DOMAIN s |-> s[n]],
         DOMAIN s = o.pending \cup DOMAIN o.map,
         \A n \in o.pending : s[n] = Join(o.list[n]),
         \A n \in DOMAIN o.map : s[n] = o.map[n]
  PROVE  Shown(o) = s
<1>1. DOMAIN Shown(o) = DOMAIN s /\ Shown(o) = [n \in DOMAIN s |-> Shown(o)[n]]
  BY ShownIs
<1>2. \A n \in DOMAIN s : Shown(o)[n] = s[n]
  BY ShownIs
<1>3. Shown(o) = [n \in DOMAIN s |-> s[n]]
  BY <1>1, <1>2
<1> QED BY <1>3

-----------------------------------------------------------------------------
(* The helpers that methods are made of: what they do to the list shown. *)

LEMMA MapSetShows ==
  ASSUME NEW o, Good(o), NEW n \in Names, NEW v, Clean(v)
  PROVE  /\ Good(MapSet(o, n, v))
         /\ Shown(MapSet(o, n, v)) = With(Shown(o), n, v)
         /\ MapSet(o, n, v).status = o.status
         /\ MapSet(o, n, v).list = o.list
         /\ MapSet(o, n, v).pending = o.pending \ {n}
         /\ n \in DOMAIN MapSet(o, n, v).map /\ MapSet(o, n, v).map[n] = v
<1>0. o = Object(o.pending, o.map, o.lazy, o.list, o.status)
  BY DEF Good
<1> DEFINE p == MapSet(o, n, v)
           w == With(o.map, n, v)
<1>3. /\ DOMAIN w = {n} \cup DOMAIN o.map
      /\ w = [m \in DOMAIN w |-> w[m]]
      /\ w[n] = v
      /\ \A m \in DOMAIN o.map : m # n => w[m] = o.map[m]
  BY DEF With
<1> HIDE DEF w
<1>1. p = Object(o.pending \ {n}, w, o.lazy, o.list, o.status)
  <2>1. p = [o EXCEPT !.pending = o.pending \ {n}, !.map = w]
    BY DEF MapSet, w
  <2> QED BY <1>0, <2>1 DEF Object
<1>2. /\ p.pending = o.pending \ {n} /\ p.map = w /\ p.lazy = o.lazy
      /\ p.list = o.list /\ p.status = o.status
  BY <1>1 DEF Object
<1> HIDE DEF p
<1>4. Good(p)
  <2>1. \A m \in DOMAIN w : Clean(w[m])
    BY <1>3 DEF Good
  <2>2. DOMAIN w \in SUBSET (Names \ p.pending) /\ p.pending \in SUBSET Names
    BY <1>2, <1>3 DEF Good
  <2>3. p = Object(p.pending, p.map, p.lazy, p.list, p.status)
    BY <1>1, <1>2
  <2>4. \A m \in p.pending :
          p.lazy /\ p.list[m] # <<>> /\ p.status = "received" /\ Clean(Join(p.list[m]))
    BY <1>2 DEF Good
  <2>5. p.lazy \in BOOLEAN /\ p.list \in Lists /\ p.status \in Statuses
    BY <1>2 DEF Good
  <2> QED BY <1>2, <1>3, <2>1, <2>2, <2>3, <2>4, <2>5 DEF Good
<1>5. Shown(p) = With(Shown(o), n, v)
  <2> DEFINE u == Shown(o)
             s == With(u, n, v)
  <2> HIDE DEF u
  <2>0. /\ DOMAIN s = {n} \cup DOMAIN u
        /\ s = [m \in DOMAIN s |-> s[m]]
        /\ s[n] = v
        /\ \A m \in DOMAIN u : m # n => s[m] = u[m]
    BY DEF With
  <2> HIDE DEF s
  <2>1. /\ DOMAIN s = {n} \cup Listed(o)
        /\ \A m \in Listed(o) : m # n => s[m] = Shown(o)[m]
    BY <2>0, ShownIs DEF u
  <2>2. DOMAIN s = p.pending \cup DOMAIN p.map
    BY <1>2, <1>3, <2>1, ShownIs
  <2>3. \A m \in p.pending : s[m] = Join(p.list[m])
    BY <1>2, <2>1, ShownIs
  <2>4. \A m \in DOMAIN p.map : s[m] = p.map[m]
    BY <1>2, <1>3, <2>0, <2>1, ShownIs
  <2>5. Shown(p) = s
    BY <1>4, <2>0, <2>2, <2>3, <2>4, ShowsList
  <2> QED BY <2>5 DEF s, u
<1>6. n \in DOMAIN p.map /\ p.map[n] = v
  BY <1>2, <1>3
<1> QED BY <1>2, <1>4, <1>5, <1>6 DEF p

\* Fields that may be changed have no values that are still to be fetched.
LEMMA HostSetShows ==
  ASSUME NEW o, Good(o), NEW n \in Names, NEW vs \in Seq(Seq(Tokens))
  PROVE  /\ Good(HostSet(o, n, vs))
         /\ Shown(HostSet(o, n, vs)) = Shown(o)
         /\ HostSet(o, n, vs).status = o.status
         /\ HostSet(o, n, vs).pending = o.pending
         /\ HostSet(o, n, vs).map = o.map
<1>1. CASE o.status = "own"
  <2> DEFINE l == [o.list EXCEPT ![n] = vs]
             p == Object(o.pending, o.map, o.lazy, l, o.status)
  <2>1. HostSet(o, n, vs) = p
    BY <1>1 DEF HostSet, Good, Object
  <2>2. l \in Lists
    BY DEF Good, Lists
  <2> HIDE DEF l
  <2>3. /\ p.pending = o.pending /\ p.map = o.map /\ p.lazy = o.lazy
        /\ p.list = l /\ p.status = o.status
    BY DEF Object
  <2>4. p = Object(p.pending, p.map, p.lazy, p.list, p.status)
    BY <2>3
  <2> HIDE DEF p
  <2>5. o.pending = {}
    BY <1>1 DEF Good
  <2>6. Good(p)
    BY <2>2, <2>3, <2>4, <2>5 DEF Good
  <2>7. Shown(p) = Shown(o)
    BY <2>3, <2>5 DEF Shown, Listed
  <2> QED BY <2>1, <2>3, <2>6, <2>7
<1>2. CASE o.status # "own"
  BY <1>2 DEF HostSet
<1> QED BY <1>1, <1>2

\* Fetching a value does not change what is shown.
LEMMA EnsureShows ==
  ASSUME NEW o, Good(o), NEW n \in Names
  PROVE  /\ Good(Ensure(o, n))
         /\ Shown(Ensure(o, n)) = Shown(o)
         /\ Ensure(o, n).status = o.status
         /\ Ensure(o, n).list = o.list
         /\ Ensure(o, n).pending = o.pending \ {n}
<1>1. CASE n \in o.pending
  <2> DEFINE v == Join(o.list[n])
  <2>1. Clean(v) /\ Ensure(o, n) = MapSet(o, n, v)
    BY <1>1 DEF Good, Ensure
  <2>2. Shown(o)[n] = v /\ n \in DOMAIN Shown(o)
    BY <1>1, ShownIs
  <2>3. Shown(o) = [m \in DOMAIN Shown(o) |-> Shown(o)[m]]
    BY ShownIs
  <2> HIDE DEF v
  <2> DEFINE s == Shown(o)
             w == With(s, n, v)
  <2> HIDE DEF s
  <2>4. /\ DOMAIN w = {n} \cup DOMAIN s
        /\ w = [m \in DOMAIN w |-> w[m]]
        /\ w[n] = v
        /\ \A m \in DOMAIN s : m # n => w[m] = s[m]
    BY DEF With
  <2> HIDE DEF w
  <2>5. DOMAIN w = DOMAIN s /\ \A m \in DOMAIN s : w[m] = s[m]
    BY <2>2, <2>4 DEF s
  <2>6. w = [m \in DOMAIN s |-> s[m]]
    BY <2>4, <2>5
  <2>7. w = s
    BY <2>3, <2>6 DEF s
  <2> QED BY <2>1, <2>7, MapSetShows DEF w, s
<1>2. CASE n \notin o.pending
  BY <1>2 DEF Ensure
<1> QED BY <1>1, <1>2

\* ensure_all_header_values_from_handle fetches every value, because each name
\* that waits for its value has one.
LEMMA DelazifiedShows ==
  ASSUME NEW o, Good(o)
  PROVE  /\ Good(Delazified(o))
         /\ Shown(Delazified(o)) = Shown(o)
         /\ Delazified(o).map = Shown(o)
         /\ Delazified(o).status = o.status
         /\ Delazified(o).pending = {}
<1>1. CASE ~o.lazy
  <2>1. o.pending = {} /\ Delazified(o) = o
    BY <1>1 DEF Good, Delazified
  <2>2. o.map = Shown(o)
    <3>1. Shown(o) = o.map
      BY <2>1, ShowsList DEF Good
    <3> QED BY <3>1
  <2> QED BY <2>1, <2>2
<1>2. CASE o.lazy
  <2> DEFINE found == {n \in o.pending : o.list[n] # <<>>}
             m == [n \in found \cup DOMAIN o.map |-> IF n \in found THEN Join(o.list[n]) ELSE o.map[n]]
             q == o.pending \ found
             p == Object(q, m, FALSE, o.list, o.status)
  <2>1. Delazified(o) = p
    BY <1>2 DEF Delazified, Good, Object
  <2>2. q = {} /\ found = o.pending
    BY DEF Good
  <2>3. /\ DOMAIN m = o.pending \cup DOMAIN o.map
        /\ m = [n \in DOMAIN m |-> m[n]]
        /\ \A n \in o.pending : m[n] = Join(o.list[n])
        /\ \A n \in DOMAIN o.map : n \notin o.pending => m[n] = o.map[n]
    BY <2>2
  <2> HIDE DEF m, q, found
  <2>4. /\ p.pending = q /\ p.map = m /\ p.lazy = FALSE
        /\ p.list = o.list /\ p.status = o.status
    BY DEF Object
  <2>5. p = Object(p.pending, p.map, p.lazy, p.list, p.status)
    BY <2>4
  <2> HIDE DEF p
  <2>6. m = Shown(o)
    <3>1. \A n \in DOMAIN o.map : m[n] = o.map[n]
      BY <2>3 DEF Good
    <3>2. Shown(o) = m
      BY <2>3, <3>1, ShowsList
    <3> QED BY <3>2
  <2>7. Good(p)
    <3>1. \A n \in DOMAIN m : Clean(m[n])
      BY <2>6, ShownIs
    <3>2. DOMAIN m \in SUBSET (Names \ p.pending) /\ p.pending \in SUBSET Names
      BY <2>2, <2>4, <2>6, ShownIs
    <3>3. p.lazy \in BOOLEAN /\ p.list \in Lists /\ p.status \in Statuses
      BY <2>4 DEF Good
    <3> QED BY <2>2, <2>3, <2>4, <2>5, <3>1, <3>2, <3>3 DEF Good
  <2>8. Shown(p) = m
    BY <2>2, <2>3, <2>4, <2>7, ShowsList
  <2> QED BY <2>1, <2>2, <2>4, <2>6, <2>7, <2>8
<1> QED BY <1>1, <1>2

-----------------------------------------------------------------------------
(* The methods that change the list. *)

LEMMA SetShows ==
  ASSUME NEW o, Good(o), NEW n \in Names, NEW v \in Seq(Tokens)
  PROVE  /\ Good(SetIn(o, n, v))
         /\ Shown(SetIn(o, n, v)) = With(Shown(o), n, Trim(v))
         /\ SetIn(o, n, v).status = o.status
<1> DEFINE p == HostSet(o, n, <<v>>)
           t == Trim(v)
<1>1. SetIn(o, n, v) = MapSet(p, n, t)
  BY DEF SetIn
<1>2. <<v>> \in Seq(Seq(Tokens))
  OBVIOUS
<1>3. Good(p) /\ Shown(p) = Shown(o) /\ p.status = o.status
  BY <1>2, HostSetShows
<1>4. Clean(t)
  BY TrimmedIsClean
<1> HIDE DEF p, t
<1>5. /\ Good(MapSet(p, n, t))
      /\ Shown(MapSet(p, n, t)) = With(Shown(p), n, t)
      /\ MapSet(p, n, t).status = p.status
  BY <1>3, <1>4, MapSetShows
<1> QED BY <1>1, <1>3, <1>5 DEF t

LEMMA PiecesType ==
  ASSUME NEW n, NEW v \in Seq(Tokens)
  PROVE  Pieces(n, v) \in Seq(Seq(Tokens))
<1>1. <<v>> \in Seq(Seq(Tokens))
  OBVIOUS
<1> QED BY <1>1, SplitType DEF Pieces

\* What AppendTo makes of the list.
Longer(s, n, t) == IF n \in DOMAIN s THEN Combine(s[n], t) ELSE t

LEMMA AppendShows ==
  ASSUME NEW o, Good(o), NEW n \in Names, NEW v \in Seq(Tokens)
  PROVE  /\ Good(AppendTo(o, n, v))
         /\ Shown(AppendTo(o, n, v)) = With(Shown(o), n, Longer(Shown(o), n, Trim(v)))
         /\ AppendTo(o, n, v).status = o.status
<1> DEFINE e == Ensure(o, n)
           t == Trim(v)
           new == IF n \in DOMAIN e.map THEN Combine(e.map[n], t) ELSE t
           vs == e.list[n] \o Pieces(n, v)
           p == HostSet(e, n, vs)
<1>1. AppendTo(o, n, v) = MapSet(p, n, new)
  BY DEF AppendTo
<1>2. Clean(t)
  BY TrimmedIsClean
<1>3. /\ Good(e) /\ Shown(e) = Shown(o) /\ e.status = o.status
      /\ n \notin e.pending
  BY EnsureShows
<1> HIDE DEF e, t
<1>4. vs \in Seq(Seq(Tokens))
  <2>1. e.list[n] \in Seq(Seq(Tokens))
    BY <1>3 DEF Good, Lists
  <2> QED BY <2>1, PiecesType, ConcatProperties
<1> HIDE DEF vs
<1>5. Clean(new)
  <2>1. ASSUME n \in DOMAIN e.map PROVE Clean(e.map[n])
    BY <1>3, <2>1 DEF Good
  <2> QED BY <1>2, <2>1, CombineClean
<1>6. new = Longer(Shown(o), n, t)
  <2>1. n \in DOMAIN Shown(e) <=> n \in DOMAIN e.map
    BY <1>3, ShownIs
  <2>2. n \in DOMAIN e.map => Shown(e)[n] = e.map[n]
    BY <1>3, ShownIs
  <2> QED BY <1>3, <2>1, <2>2 DEF Longer
<1>7. Good(p) /\ Shown(p) = Shown(e) /\ p.status = e.status
  BY <1>3, <1>4, HostSetShows
<1> HIDE DEF p, new
<1>8. /\ Good(MapSet(p, n, new))
      /\ Shown(MapSet(p, n, new)) = With(Shown(p), n, new)
      /\ MapSet(p, n, new).status = p.status
  BY <1>5, <1>7, MapSetShows
<1> QED BY <1>1, <1>3, <1>6, <1>7, <1>8 DEF t

LEMMA DeleteShows ==
  ASSUME NEW o, Good(o), NEW n \in Names
  PROVE  /\ Good(DeleteFrom(o, n))
         /\ Shown(DeleteFrom(o, n)) = [m \in DOMAIN Shown(o) \ {n} |-> Shown(o)[m]]
         /\ DeleteFrom(o, n).status = o.status
<1> DEFINE u == Shown(o)
           s == [m \in DOMAIN u \ {n} |-> u[m]]
<1>0. /\ DOMAIN u = Listed(o) /\ Listed(o) = o.pending \cup DOMAIN o.map
      /\ u = [m \in DOMAIN u |-> u[m]]
      /\ \A m \in o.pending : u[m] = Join(o.list[m])
      /\ \A m \in DOMAIN o.map : u[m] = o.map[m]
  BY ShownIs
<1> HIDE DEF u
<1>1. CASE n \notin Listed(o)
  <2>1. DeleteFrom(o, n) = o
    BY <1>1 DEF DeleteFrom
  <2>2. DOMAIN u \ {n} = DOMAIN u
    BY <1>0, <1>1
  <2>3. s = u
    BY <1>0, <2>2
  <2> QED BY <2>1, <2>3 DEF u
<1>2. CASE n \in Listed(o)
  <2> DEFINE q == HostSet(o, n, <<>>)
             w == [m \in DOMAIN q.map \ {n} |-> q.map[m]]
             g == q.pending \ {n}
             p == Object(g, w, q.lazy, q.list, q.status)
  <2>1. <<>> \in Seq(Seq(Tokens))
    OBVIOUS
  <2>2. /\ Good(q) /\ Shown(q) = u /\ q.status = o.status
        /\ q.pending = o.pending /\ q.map = o.map
    BY <2>1, HostSetShows DEF u
  <2>3. DeleteFrom(o, n) = [q EXCEPT !.pending = g, !.map = w]
    BY <1>2 DEF DeleteFrom
  <2> HIDE DEF q
  <2>4. /\ DOMAIN w = DOMAIN q.map \ {n}
        /\ w = [m \in DOMAIN w |-> w[m]]
        /\ \A m \in DOMAIN w : w[m] = q.map[m]
    OBVIOUS
  <2> HIDE DEF w
  <2>5. q = Object(q.pending, q.map, q.lazy, q.list, q.status)
    BY <2>2 DEF Good
  <2>6. DeleteFrom(o, n) = p
    BY <2>3, <2>5 DEF Object
  <2>7. /\ p.pending = g /\ p.map = w /\ p.lazy = q.lazy
        /\ p.list = q.list /\ p.status = q.status
    BY DEF Object
  <2>8. p = Object(p.pending, p.map, p.lazy, p.list, p.status)
    BY <2>7
  <2> HIDE DEF p
  <2>9. Good(p)
    <3>1. /\ DOMAIN w \in SUBSET (Names \ p.pending) /\ p.pending \in SUBSET Names
          /\ \A m \in DOMAIN w : Clean(w[m])
      BY <2>2, <2>4, <2>7 DEF Good
    <3>2. /\ p.lazy \in BOOLEAN /\ p.list \in Lists /\ p.status \in Statuses
          /\ \A m \in p.pending :
               p.lazy /\ p.list[m] # <<>> /\ p.status = "received" /\ Clean(Join(p.list[m]))
      BY <2>2, <2>7 DEF Good
    <3> QED BY <2>4, <2>7, <2>8, <3>1, <3>2 DEF Good
  <2>10. Shown(p) = s
    <3>1. \A m \in q.pending : u[m] = Join(q.list[m])
      BY <2>2, ShownIs
    <3>2. /\ DOMAIN s = DOMAIN u \ {n} /\ s = [m \in DOMAIN s |-> s[m]]
          /\ \A m \in DOMAIN s : s[m] = u[m]
      OBVIOUS
    <3> HIDE DEF s
    <3>3. DOMAIN s = p.pending \cup DOMAIN p.map
      BY <1>0, <2>2, <2>4, <2>7, <3>2
    <3>4. \A m \in p.pending : s[m] = Join(p.list[m])
      BY <2>7, <3>1, <3>2, <3>3
    <3>5. \A m \in DOMAIN p.map : s[m] = p.map[m]
      BY <1>0, <2>2, <2>4, <2>7, <3>2, <3>3
    <3> QED BY <2>9, <3>2, <3>3, <3>4, <3>5, ShowsList
  <2> QED BY <2>2, <2>6, <2>7, <2>9, <2>10 DEF u
<1> QED BY <1>1, <1>2

-----------------------------------------------------------------------------
(* The constructors. *)

\* A new object without names.
LEMMA EmptyShows ==
  /\ Good(Standalone) /\ Shown(Standalone) = <<>> /\ Standalone.status = "none"
  /\ Good(FreshOver(NoFields, "own")) /\ Shown(FreshOver(NoFields, "own")) = <<>>
  /\ FreshOver(NoFields, "own").status = "own"
<1>1. NoFields \in Lists /\ \A n \in Names : NoFields[n] = <<>>
  BY DEF NoFields, Lists
<1>2. ASSUME NEW o, NEW z \in BOOLEAN, NEW s \in Statuses,
             o = Object({}, <<>>, z, NoFields, s)
      PROVE  Good(o) /\ Shown(o) = <<>> /\ o.status = s
  <2>1. /\ o.pending = {} /\ o.map = <<>> /\ o.lazy = z /\ o.list = NoFields /\ o.status = s
        /\ o = Object(o.pending, o.map, o.lazy, o.list, o.status)
    BY <1>2 DEF Object
  <2>2. DOMAIN <<>> = {} /\ <<>> = [n \in DOMAIN <<>> |-> <<>>[n]]
    OBVIOUS
  <2>3. Good(o)
    BY <1>1, <1>2, <2>1, <2>2 DEF Good
  <2>4. Shown(o) = <<>>
    BY <2>1, <2>2, <2>3, ShowsList
  <2> QED BY <2>1, <2>3, <2>4
<1>3. Standalone = Object({}, <<>>, FALSE, NoFields, "none")
  BY DEF Standalone, Object
<1>4. FreshOver(NoFields, "own") = Object({}, <<>>, TRUE, NoFields, "own")
  BY <1>1 DEF FreshOver, Object
<1>5. "none" \in Statuses /\ "own" \in Statuses
  BY DEF Statuses
<1> QED BY <1>2, <1>3, <1>4, <1>5

\* The headers of an incoming message: fetching will give clean values, as the
\* fields of a message have no blanks at their ends.
LEMMA ReceivedShows ==
  ASSUME NEW l \in Received
  PROVE  Good(FreshOver(l, "received")) /\ FreshOver(l, "received").status = "received"
<1> DEFINE q == {n \in Names : l[n] # <<>>}
           o == FreshOver(l, "received")
<1>1. o = Object(q, <<>>, TRUE, l, "received")
  BY DEF FreshOver, Object
<1> HIDE DEF o
<1>2. /\ o.pending = q /\ o.map = <<>> /\ o.lazy = TRUE /\ o.list = l /\ o.status = "received"
      /\ o = Object(o.pending, o.map, o.lazy, o.list, o.status)
  BY <1>1 DEF Object
<1>3. l \in Lists
  BY ReceivedAssumption DEF Lists
<1>4. ASSUME NEW n \in q PROVE Clean(Join(l[n]))
  <2>1. l[n] \in Seq(Seq(Tokens)) /\ l[n] # <<>>
    BY <1>3 DEF Lists
  <2>2. \A i \in DOMAIN l[n] : Trim(l[n][i]) = l[n][i]
    BY ReceivedAssumption
  <2> DEFINE vs == l[n]
  <2> HIDE DEF vs
  <2> QED BY <2>1, <2>2, JoinClean DEF vs
<1>5. DOMAIN <<>> = {} /\ <<>> = [n \in DOMAIN <<>> |-> <<>>[n]]
  OBVIOUS
<1>6. "received" \in Statuses
  BY DEF Statuses
<1>7. q \in SUBSET Names /\ \A n \in q : l[n] # <<>>
  OBVIOUS
<1> HIDE DEF q
<1>8. Good(o)
  BY <1>2, <1>3, <1>4, <1>5, <1>6, <1>7 DEF Good
<1> QED BY <1>2, <1>8 DEF o

\* The copy is trimmed, which changes nothing.
LEMMA CopyShows ==
  ASSUME NEW o, Good(o), o.status \in {"none", "own"}, NEW src, Good(src), src.pending = {}
  PROVE  /\ Good(CopyInto(o, src))
         /\ Shown(CopyInto(o, src)) = Shown(src)
         /\ CopyInto(o, src).status = o.status
<1> DEFINE m == [n \in DOMAIN src.map |-> Trim(src.map[n])]
           l == [n \in Names |->
                   IF n \in DOMAIN src.map /\ o.status = "own" THEN Pieces(n, src.map[n]) ELSE <<>>]
           p == Object(o.pending, m, o.lazy, l, o.status)
<1>0. o.pending = {} /\ o = Object(o.pending, o.map, o.lazy, o.list, o.status)
  BY DEF Good
<1>1. CopyInto(o, src) = [o EXCEPT !.map = m, !.list = l]
  BY DEF CopyInto
<1>2. m = src.map
  <2>1. \A n \in DOMAIN src.map : Trim(src.map[n]) = src.map[n]
    BY DEF Good, Clean
  <2>2. src.map = [n \in DOMAIN src.map |-> src.map[n]]
    BY DEF Good
  <2> QED BY <2>1, <2>2
<1>3. l \in Lists
  <2>1. ASSUME NEW n \in Names, n \in DOMAIN src.map PROVE Pieces(n, src.map[n]) \in Seq(Seq(Tokens))
    <3>1. src.map[n] \in Seq(Tokens)
      BY <2>1 DEF Good, Clean
    <3> QED BY <3>1, PiecesType
  <2>2. <<>> \in Seq(Seq(Tokens))
    OBVIOUS
  <2> QED BY <2>1, <2>2 DEF Lists
<1> HIDE DEF m, l
<1>4. CopyInto(o, src) = p
  BY <1>0, <1>1 DEF Object
<1>5. /\ p.pending = o.pending /\ p.map = m /\ p.lazy = o.lazy /\ p.list = l /\ p.status = o.status
      /\ p = Object(p.pending, p.map, p.lazy, p.list, p.status)
  BY DEF Object
<1> HIDE DEF p
<1>6. Good(p)
  BY <1>0, <1>2, <1>3, <1>5 DEF Good
<1>7. Shown(p) = m
  <2>1. m = [n \in DOMAIN m |-> m[n]]
    BY <1>2 DEF Good
  <2> QED BY <1>0, <1>5, <1>6, <2>1, ShowsList
<1>8. Shown(src) = m
  <2>1. m = [n \in DOMAIN m |-> m[n]]
    BY <1>2 DEF Good
  <2> QED BY <1>2, <2>1, ShowsList
<1> QED BY <1>4, <1>5, <1>6, <1>7, <1>8

\* The host takes the fields, or drops them: what is shown stays.
LEMMA StatusShows ==
  ASSUME NEW o, Good(o), o.pending = {}, NEW s \in Statuses
  PROVE  /\ Good([o EXCEPT !.status = s])
         /\ Shown([o EXCEPT !.status = s]) = Shown(o)
         /\ [o EXCEPT !.status = s].status = s
<1> DEFINE p == Object(o.pending, o.map, o.lazy, o.list, s)
<1>0. o = Object(o.pending, o.map, o.lazy, o.list, o.status)
  BY DEF Good
<1>1. [o EXCEPT !.status = s] = p
  BY <1>0 DEF Object
<1>2. /\ p.pending = o.pending /\ p.map = o.map /\ p.lazy = o.lazy /\ p.list = o.list /\ p.status = s
      /\ p = Object(p.pending, p.map, p.lazy, p.list, p.status)
  BY DEF Object
<1> HIDE DEF p
<1>3. Good(p)
  BY <1>2 DEF Good
<1>4. Shown(p) = Shown(o)
  BY <1>2 DEF Shown, Listed
<1> QED BY <1>1, <1>2, <1>3, <1>4

\* A Response shows what it was filled with, and maybe its body's type.
LEMMA TakenShows ==
  ASSUME NEW o, Good(o), o.status = "own", NEW hasType \in BOOLEAN
  PROVE  /\ Good(Taken(o, hasType))
         /\ Taken(o, hasType).status = "frozen"
         /\ \/ Shown(Taken(o, hasType)) = Shown(o)
            \/ /\ ContentType \notin DOMAIN Shown(o)
               /\ Shown(Taken(o, hasType)) = With(Shown(o), ContentType, BodyType)
<1> DEFINE made == [o EXCEPT !.status = "frozen"]
<1>1. o.pending = {} /\ "frozen" \in Statuses
  BY DEF Good, Statuses
<1>2. Good(made) /\ Shown(made) = Shown(o) /\ made.status = "frozen"
  BY <1>1, StatusShows
<1>3. Taken(o, hasType) = IF hasType THEN MaybeAdd(made, ContentType, BodyType) ELSE made
  BY DEF Taken
<1> HIDE DEF made
<1>4. DOMAIN Shown(made) = Listed(made)
  BY <1>2, ShownIs
<1>5. CASE hasType /\ ContentType \notin Listed(made)
  <2>1. Taken(o, hasType) = AppendTo(made, ContentType, BodyType)
    BY <1>3, <1>5 DEF MaybeAdd
  <2>2. Longer(Shown(made), ContentType, Trim(BodyType)) = BodyType
    BY <1>4, <1>5, BodyTypeAssumption DEF Longer
  <2>3. ContentType \in Names /\ BodyType \in Seq(Tokens)
    BY NamesAssumption, BodyTypeAssumption
  <2>4. /\ Good(AppendTo(made, ContentType, BodyType))
        /\ AppendTo(made, ContentType, BodyType).status = made.status
        /\ Shown(AppendTo(made, ContentType, BodyType)) =
             With(Shown(made), ContentType, Longer(Shown(made), ContentType, Trim(BodyType)))
    BY <1>2, <2>3, AppendShows
  <2> QED BY <1>2, <1>4, <1>5, <2>1, <2>2, <2>4
<1>6. CASE ~(hasType /\ ContentType \notin Listed(made))
  <2>1. Taken(o, hasType) = made
    BY <1>3, <1>6 DEF MaybeAdd
  <2> QED BY <1>2, <2>1
<1> QED BY <1>5, <1>6

-----------------------------------------------------------------------------
(* All the objects: each is good, and between calls none has fields that   *)
(* can still be changed.                                                   *)

AllGood(os) ==
  /\ os = [h \in DOMAIN os |-> os[h]]
  /\ DOMAIN os \in SUBSET Objs
  /\ \A h \in DOMAIN os : Good(os[h]) /\ os[h].status # "own"

Inv ==
  /\ AllGood(obj)
  /\ sent \in BOOLEAN
  /\ DOMAIN ret \subseteq Names
  /\ trapped \in BOOLEAN

Picture(os) == [h \in DOMAIN os |-> Shown(os[h])]

LEMMA PictureIs ==
  /\ ShownLists = Picture(obj) /\ ShownLists' = Picture(obj')
  /\ DOMAIN ShownLists = DOMAIN obj
  /\ \A h \in DOMAIN obj : ShownLists[h] = Shown(obj[h])
BY DEF ShownLists, Picture

\* The objects with another one in the place of h.
Replaced(os, h, new) == [os EXCEPT ![h] = new]

\* One object changes.
LEMMA OneChanges ==
  ASSUME NEW os, AllGood(os), NEW h \in DOMAIN os, NEW new, Good(new), new.status # "own",
         NEW ns, ns = Replaced(os, h, new)
  PROVE  /\ AllGood(ns)
         /\ Picture(ns) = [Picture(os) EXCEPT ![h] = Shown(new)]
         /\ Shown(new) = Shown(os[h]) => Picture(ns) = Picture(os)
<1>1. /\ DOMAIN ns = DOMAIN os /\ ns = [i \in DOMAIN ns |-> ns[i]]
      /\ ns[h] = new /\ \A i \in DOMAIN os : i # h => ns[i] = os[i]
  BY DEF AllGood, Replaced
<1>2. AllGood(ns)
  BY <1>1 DEF AllGood
<1>3. Picture(ns) = [Picture(os) EXCEPT ![h] = Shown(new)]
  BY <1>1 DEF Picture
<1>4. ASSUME Shown(new) = Shown(os[h]) PROVE Picture(ns) = Picture(os)
  BY <1>1, <1>4 DEF Picture
<1> QED BY <1>2, <1>3, <1>4

\* The same of the objects there are.
LEMMA OneOfThemChanges ==
  ASSUME Inv, NEW h \in DOMAIN obj, NEW new, Good(new), new.status # "own",
         obj' = [obj EXCEPT ![h] = new]
  PROVE  /\ AllGood(obj')
         /\ Picture(obj') = [Picture(obj) EXCEPT ![h] = Shown(new)]
         /\ Shown(new) = Shown(obj[h]) => Picture(obj') = Picture(obj)
<1> DEFINE os == obj
           ns == obj'
<1>1. AllGood(os) /\ h \in DOMAIN os /\ ns = Replaced(os, h, new)
  BY DEF Inv, Replaced
<1> HIDE DEF os, ns
<1>2. /\ AllGood(ns)
      /\ Picture(ns) = [Picture(os) EXCEPT ![h] = Shown(new)]
      /\ Shown(new) = Shown(os[h]) => Picture(ns) = Picture(os)
  BY <1>1, OneChanges
<1> QED BY <1>2 DEF os, ns

\* One object is added.
LEMMA OneMore ==
  ASSUME NEW os, AllGood(os), NEW h \in Objs, h \notin DOMAIN os,
         NEW new, Good(new), new.status # "own"
  PROVE  /\ AllGood(With(os, h, new))
         /\ Picture(With(os, h, new)) = With(Picture(os), h, Shown(new))
<1> DEFINE ns == With(os, h, new)
<1>1. /\ DOMAIN ns = {h} \cup DOMAIN os /\ ns = [i \in DOMAIN ns |-> ns[i]]
      /\ ns[h] = new /\ \A i \in DOMAIN os : ns[i] = os[i]
  BY DEF With
<1>2. ns = With(os, h, new)
  OBVIOUS
<1> HIDE DEF ns
<1>3. AllGood(ns)
  BY <1>1 DEF AllGood
<1>4. Picture(ns) = With(Picture(os), h, Shown(new))
  <2>1. With(Picture(os), h, Shown(new)) = [i \in DOMAIN ns |-> Shown(ns[i])]
    BY <1>1 DEF With, Picture
  <2> QED BY <2>1 DEF Picture
<1> QED BY <1>2, <1>3, <1>4

\* The instance's helper is the same.
LEMMA SameWith ==
  ASSUME NEW f, NEW k, NEW x
  PROVE  HL!With(f, k, x) = With(f, k, x)
BY DEF HL!With, With

Stutters == ShownLists' = ShownLists /\ ret' = ret

\* A call that gives nothing back and leaves the lists alone reads nothing.
LEMMA ReadsNothing ==
  ASSUME NEW h \in Objs, Exists(h), ShownLists' = ShownLists, ret' = <<>>
  PROVE  HL!Next
<1>1. HL!Exists(h)
  BY PictureIs DEF Exists, HL!Exists
<1>2. ret' = [n \in DOMAIN ShownLists[h] \cap {} |-> ShownLists[h][n]]
  OBVIOUS
<1>3. HL!Read(h)
  BY <1>2 DEF HL!Read
<1> QED BY <1>1, <1>3 DEF HL!Next

-----------------------------------------------------------------------------
(* Each call keeps the invariant and is one call of the plain list. *)

LEMMA ReceiveStep ==
  ASSUME Inv, NEW h \in Objs, Receive(h)
  PROVE  Inv' /\ HL!Next
<1>1. PICK l \in Received : obj' = With(obj, h, FreshOver(l, "received"))
  BY DEF Receive
<1> DEFINE o == FreshOver(l, "received")
<1>2. Good(o) /\ o.status = "received"
  BY ReceivedShows
<1>3. obj' = With(obj, h, o) /\ h \notin DOMAIN obj
  BY <1>1 DEF Receive, Exists
<1>4. Shown(o) \in {Shown(FreshOver(list, "received")) : list \in Received}
  OBVIOUS
<1> HIDE DEF o
<1>5. AllGood(obj') /\ Picture(obj') = With(Picture(obj), h, Shown(o))
  BY <1>2, <1>3, OneMore DEF Inv
<1>6. ShownLists' = HL!With(ShownLists, h, Shown(o)) /\ ~HL!Exists(h)
  BY <1>3, <1>5, PictureIs, SameWith DEF HL!Exists
<1>7. HL!Receive(h)
  BY <1>4, <1>6 DEF HL!Receive, Receive
<1>8. Inv'
  BY <1>5 DEF Inv, Receive
<1> QED BY <1>7, <1>8 DEF HL!Next

LEMMA CreateStep ==
  ASSUME Inv, NEW h \in Objs, ~Exists(h),
         NEW given \in {<<>>} \cup {ShownLists[s] : s \in DOMAIN ShownLists},
         NEW os, AllGood(os), DOMAIN os = DOMAIN obj, Picture(os) = Picture(obj),
         NEW new, Good(new), new.status # "own",
         \/ Shown(new) = given
         \/ ContentType \notin DOMAIN given /\ Shown(new) = With(given, ContentType, BodyType),
         obj' = With(os, h, new), ret' = <<>>, UNCHANGED <<sent, trapped>>
  PROVE  Inv' /\ HL!Next
<1>1. h \notin DOMAIN os /\ ~HL!Exists(h)
  BY PictureIs DEF Exists, HL!Exists
<1>2. AllGood(obj') /\ Picture(obj') = With(Picture(os), h, Shown(new))
  BY <1>1, OneMore
<1>3. ShownLists' = With(ShownLists, h, Shown(new))
  BY <1>2, PictureIs
<1>4. CASE Shown(new) = given
  <2>1. ShownLists' = HL!With(ShownLists, h, given)
    BY <1>3, <1>4, SameWith
  <2> QED BY <1>1, <1>2, <2>1 DEF HL!Create, HL!Next, Inv
<1>5. CASE ContentType \notin DOMAIN given /\ Shown(new) = With(given, ContentType, BodyType)
  <2>1. ShownLists' = HL!With(ShownLists, h, HL!With(given, ContentType, BodyType))
    BY <1>3, <1>5, SameWith
  <2> QED BY <1>1, <1>2, <1>5, <2>1 DEF HL!Create, HL!Next, Inv
<1> QED BY <1>4, <1>5

\* To copy an object fetches its values.
LEMMA SourceShows ==
  ASSUME Inv, NEW s \in DOMAIN obj
  PROVE  /\ Good(Delazified(obj[s])) /\ Delazified(obj[s]).pending = {}
         /\ Shown(Delazified(obj[s])) = ShownLists[s]
         /\ s \in DOMAIN ShownLists
         /\ AllGood([obj EXCEPT ![s] = Delazified(obj[s])])
         /\ DOMAIN [obj EXCEPT ![s] = Delazified(obj[s])] = DOMAIN obj
         /\ Picture([obj EXCEPT ![s] = Delazified(obj[s])]) = Picture(obj)
<1> DEFINE src == Delazified(obj[s])
<1>1. Good(obj[s]) /\ obj[s].status # "own"
  BY DEF Inv, AllGood
<1>2. /\ Good(src) /\ src.pending = {} /\ Shown(src) = Shown(obj[s])
      /\ src.status = obj[s].status
  BY <1>1, DelazifiedShows
<1> HIDE DEF src
<1> DEFINE objs == [obj EXCEPT ![s] = src]
<1>3. AllGood(obj) /\ src.status # "own" /\ objs = Replaced(obj, s, src)
  BY <1>1, <1>2 DEF Inv, Replaced
<1>4. DOMAIN objs = DOMAIN obj
  OBVIOUS
<1> HIDE DEF objs
<1>5. AllGood(objs) /\ Picture(objs) = Picture(obj)
  BY <1>2, <1>3, OneChanges
<1>6. ShownLists[s] = Shown(obj[s]) /\ s \in DOMAIN ShownLists
  BY PictureIs
<1>7. objs = [obj EXCEPT ![s] = src]
  BY <1>3 DEF Replaced
<1> QED BY <1>2, <1>4, <1>5, <1>6, <1>7 DEF src

LEMMA ConstructStep ==
  ASSUME Inv, NEW h \in Objs, Construct(h)
  PROVE  Inv' /\ HL!Next
<1>0. ~Exists(h) /\ ret' = <<>> /\ UNCHANGED <<sent, trapped>>
  BY DEF Construct
<1>1. CASE obj' = With(obj, h, Standalone)
  <2> DEFINE new == Standalone
             given == <<>>
  <2>1. Good(new) /\ new.status # "own" /\ Shown(new) = given
    BY EmptyShows
  <2>2. given \in {<<>>} \cup {ShownLists[s] : s \in DOMAIN ShownLists} /\ obj' = With(obj, h, new)
    BY <1>1
  <2>3. AllGood(obj)
    BY DEF Inv
  <2> HIDE DEF new, given
  <2> QED BY <1>0, <2>1, <2>2, <2>3, CreateStep
<1>2. ASSUME NEW s \in DOMAIN obj,
             obj' = With([obj EXCEPT ![s] = Delazified(obj[s])], h, CopyInto(Standalone, Delazified(obj[s])))
      PROVE  Inv' /\ HL!Next
  <2> DEFINE src == Delazified(obj[s])
             os == [obj EXCEPT ![s] = src]
             new == CopyInto(Standalone, src)
             given == ShownLists[s]
  <2>1. /\ Good(src) /\ src.pending = {} /\ Shown(src) = given
        /\ AllGood(os) /\ DOMAIN os = DOMAIN obj /\ Picture(os) = Picture(obj)
        /\ given \in {<<>>} \cup {ShownLists[t] : t \in DOMAIN ShownLists}
    BY SourceShows
  <2>2. obj' = With(os, h, new)
    BY <1>2
  <2> HIDE DEF src
  <2>3. Good(new) /\ new.status # "own" /\ Shown(new) = Shown(src)
    BY <2>1, EmptyShows, CopyShows
  <2> HIDE DEF os, new, given
  <2> QED BY <1>0, <2>1, <2>2, <2>3, CreateStep
<1> QED BY <1>1, <1>2 DEF Construct

LEMMA ConstructResponseStep ==
  ASSUME Inv, NEW h \in Objs, ConstructResponse(h)
  PROVE  Inv' /\ HL!Next
<1> DEFINE fresh == FreshOver(NoFields, "own")
<1>0. /\ ~Exists(h) /\ ret' = <<>> /\ UNCHANGED <<sent, trapped>>
      /\ Good(fresh) /\ Shown(fresh) = <<>> /\ fresh.status = "own"
  BY EmptyShows DEF ConstructResponse
<1>1. PICK hasType \in BOOLEAN :
        \/ obj' = With(obj, h, Taken(fresh, hasType))
        \/ \E s \in DOMAIN obj :
             LET src == Delazified(obj[s])
             IN  obj' = With([obj EXCEPT ![s] = src], h, Taken(CopyInto(fresh, src), hasType))
  BY DEF ConstructResponse
<1> HIDE DEF fresh
<1>2. ASSUME NEW filled, Good(filled), filled.status = "own",
             NEW given \in {<<>>} \cup {ShownLists[s] : s \in DOMAIN ShownLists},
             Shown(filled) = given,
             NEW os, AllGood(os), DOMAIN os = DOMAIN obj, Picture(os) = Picture(obj),
             obj' = With(os, h, Taken(filled, hasType))
      PROVE  Inv' /\ HL!Next
  <2> DEFINE new == Taken(filled, hasType)
  <2>1. /\ Good(new) /\ new.status # "own"
        /\ \/ Shown(new) = given
           \/ ContentType \notin DOMAIN given /\ Shown(new) = With(given, ContentType, BodyType)
    BY <1>2, TakenShows
  <2>2. obj' = With(os, h, new)
    BY <1>2
  <2> HIDE DEF new
  <2> QED BY <1>0, <1>2, <2>1, <2>2, CreateStep
<1>3. CASE obj' = With(obj, h, Taken(fresh, hasType))
  <2> DEFINE given == <<>>
  <2>1. AllGood(obj)
    BY DEF Inv
  <2>2. given \in {<<>>} \cup {ShownLists[s] : s \in DOMAIN ShownLists} /\ Shown(fresh) = given
    BY <1>0
  <2> HIDE DEF given
  <2> QED BY <1>0, <1>2, <1>3, <2>1, <2>2
<1>4. ASSUME NEW s \in DOMAIN obj,
             obj' = With([obj EXCEPT ![s] = Delazified(obj[s])], h,
                         Taken(CopyInto(fresh, Delazified(obj[s])), hasType))
      PROVE  Inv' /\ HL!Next
  <2> DEFINE src == Delazified(obj[s])
             os == [obj EXCEPT ![s] = src]
             filled == CopyInto(fresh, src)
             given == ShownLists[s]
  <2>1. /\ Good(src) /\ src.pending = {} /\ Shown(src) = given
        /\ AllGood(os) /\ DOMAIN os = DOMAIN obj /\ Picture(os) = Picture(obj)
        /\ given \in {<<>>} \cup {ShownLists[t] : t \in DOMAIN ShownLists}
    BY SourceShows
  <2>2. obj' = With(os, h, Taken(filled, hasType))
    BY <1>4
  <2> HIDE DEF src
  <2>3. Good(filled) /\ filled.status = "own" /\ Shown(filled) = Shown(src)
    BY <1>0, <2>1, CopyShows
  <2> HIDE DEF os, filled, given
  <2> QED BY <1>2, <2>1, <2>2, <2>3
<1> QED BY <1>1, <1>3, <1>4

\* A change is a change of the list, or the end of the program.
LEMMA ChangeStep ==
  ASSUME Inv, NEW h \in Objs, Exists(h), NEW new, Good(new), new.status = obj[h].status,
         NEW callsHost, Change(h, new, callsHost)
  PROVE  /\ Inv'
         /\ ret' = <<>>
         /\ \/ HL!Next
            \/ ShownLists' = [ShownLists EXCEPT ![h] = Shown(new)]
<1>0. h \in DOMAIN obj /\ ret' = <<>> /\ sent' = sent /\ DOMAIN <<>> = {}
  BY DEF Exists, Change
<1>1. CASE trapped' = TRUE /\ UNCHANGED obj
  <2>1. ShownLists' = ShownLists
    BY <1>1 DEF ShownLists
  <2>2. HL!Next
    BY <1>0, <2>1, ReadsNothing
  <2>3. Inv'
    BY <1>0, <1>1 DEF Inv, AllGood
  <2> QED BY <1>0, <2>2, <2>3
<1>2. CASE obj' = [obj EXCEPT ![h] = new] /\ UNCHANGED trapped
  <2>1. new.status # "own"
    BY <1>0 DEF Inv, AllGood
  <2>2. AllGood(obj') /\ Picture(obj') = [Picture(obj) EXCEPT ![h] = Shown(new)]
    BY <1>0, <1>2, <2>1, OneOfThemChanges
  <2>3. Inv'
    BY <1>0, <1>2, <2>2 DEF Inv
  <2> QED BY <1>0, <2>2, <2>3, PictureIs
<1> QED BY <1>1, <1>2 DEF Change

LEMMA SetStep ==
  ASSUME Inv, NEW h \in Objs, NEW n \in Names, NEW v \in Values[n], Set(h, n, v)
  PROVE  Inv' /\ HL!Next
<1> DEFINE new == SetIn(obj[h], n, v)
           t == Trim(v)
<1>1. Exists(h) /\ Change(h, new, obj[h].status # "none") /\ v \in Seq(Tokens)
  BY ValuesAssumption DEF Set
<1>2. Good(obj[h]) /\ h \in DOMAIN obj
  BY <1>1 DEF Exists, Inv, AllGood
<1>3. Good(new) /\ Shown(new) = With(Shown(obj[h]), n, t) /\ new.status = obj[h].status
  BY <1>1, <1>2, SetShows
<1>4. t \in UNION {{Trim(w) : w \in Values[m]} : m \in Names}
  OBVIOUS
<1> HIDE DEF new, t
<1>5. Inv' /\ ret' = <<>> /\ (HL!Next \/ ShownLists' = [ShownLists EXCEPT ![h] = Shown(new)])
  BY <1>1, <1>3, ChangeStep
<1>6. ASSUME ShownLists' = [ShownLists EXCEPT ![h] = Shown(new)] PROVE HL!Next
  <2>1. Shown(new) = HL!With(ShownLists[h], n, t)
    BY <1>2, <1>3, PictureIs, SameWith
  <2>2. HL!Set(h, n, t)
    BY <1>5, <1>6, <2>1 DEF HL!Set
  <2>3. HL!Exists(h)
    BY <1>2, PictureIs DEF HL!Exists
  <2> QED BY <1>4, <2>2, <2>3 DEF HL!Next
<1> QED BY <1>5, <1>6

LEMMA AppendValueStep ==
  ASSUME Inv, NEW h \in Objs, NEW n \in Names, NEW v \in Values[n], AppendValue(h, n, v)
  PROVE  Inv' /\ HL!Next
<1> DEFINE new == AppendTo(obj[h], n, v)
           t == Trim(v)
<1>1. Exists(h) /\ Change(h, new, obj[h].status # "none") /\ v \in Seq(Tokens)
  BY ValuesAssumption DEF AppendValue
<1>2. Good(obj[h]) /\ h \in DOMAIN obj
  BY <1>1 DEF Exists, Inv, AllGood
<1>3. /\ Good(new) /\ new.status = obj[h].status
      /\ Shown(new) = With(Shown(obj[h]), n, Longer(Shown(obj[h]), n, t))
  BY <1>1, <1>2, AppendShows
<1>4. t \in UNION {{Trim(w) : w \in Values[m]} : m \in Names}
  OBVIOUS
<1> HIDE DEF new, t
<1>5. Inv' /\ ret' = <<>> /\ (HL!Next \/ ShownLists' = [ShownLists EXCEPT ![h] = Shown(new)])
  BY <1>1, <1>3, ChangeStep
<1>6. ASSUME ShownLists' = [ShownLists EXCEPT ![h] = Shown(new)] PROVE HL!Next
  <2> DEFINE x == IF n \in DOMAIN ShownLists[h] THEN ShownLists[h][n] \o <<Comma>> \o t ELSE t
  <2>1. x = Longer(Shown(obj[h]), n, t)
    BY <1>2, PictureIs DEF Longer, Combine
  <2>2. Shown(new) = HL!With(ShownLists[h], n, x)
    <3> HIDE DEF x
    <3> QED BY <1>2, <1>3, <2>1, PictureIs, SameWith
  <2>3. HL!AppendValue(h, n, t)
    BY <1>5, <1>6, <2>2 DEF HL!AppendValue
  <2>4. HL!Exists(h)
    BY <1>2, PictureIs DEF HL!Exists
  <2> QED BY <1>4, <2>3, <2>4 DEF HL!Next
<1> QED BY <1>5, <1>6

LEMMA DeleteStep ==
  ASSUME Inv, NEW h \in Objs, NEW n \in Names, Delete(h, n)
  PROVE  Inv' /\ HL!Next
<1> DEFINE new == DeleteFrom(obj[h], n)
           callsHost == n \in Listed(obj[h]) /\ obj[h].status # "none"
<1>1. Exists(h) /\ Change(h, new, callsHost)
  BY DEF Delete
<1>2. Good(obj[h]) /\ h \in DOMAIN obj
  BY <1>1 DEF Exists, Inv, AllGood
<1>3. /\ Good(new) /\ new.status = obj[h].status
      /\ Shown(new) = [m \in DOMAIN Shown(obj[h]) \ {n} |-> Shown(obj[h])[m]]
  BY <1>2, DeleteShows
<1> HIDE DEF new, callsHost
<1>4. Inv' /\ ret' = <<>> /\ (HL!Next \/ ShownLists' = [ShownLists EXCEPT ![h] = Shown(new)])
  BY <1>1, <1>3, ChangeStep
<1>5. ASSUME ShownLists' = [ShownLists EXCEPT ![h] = Shown(new)] PROVE HL!Next
  <2>1. ShownLists[h] = Shown(obj[h])
    BY <1>2, PictureIs
  <2>2. HL!Delete(h, n)
    BY <1>3, <1>4, <1>5, <2>1 DEF HL!Delete
  <2>3. HL!Exists(h)
    BY <1>2, PictureIs DEF HL!Exists
  <2> QED BY <2>2, <2>3 DEF HL!Next
<1> QED BY <1>4, <1>5

\* A read fetches values, and gives a part of the list; or nothing comes of it.
LEMMA ReadStep ==
  ASSUME Inv, NEW h \in Objs, Exists(h),
         NEW new, Good(new), new.status = obj[h].status, Shown(new) = Shown(obj[h]),
         NEW needed, NEW read \in SUBSET Names,
         NEW result, result = [m \in DOMAIN ShownLists[h] \cap read |-> ShownLists[h][m]],
         ReadWith(h, new, needed, result)
  PROVE  Inv' /\ (HL!Next \/ Stutters)
<1>0. h \in DOMAIN obj /\ sent' = sent
  BY DEF Exists, ReadWith
<1>1. CASE trapped' = TRUE /\ UNCHANGED <<obj, ret>>
  <2>1. Inv'
    BY <1>0, <1>1 DEF Inv, AllGood
  <2>2. Stutters
    BY <1>1 DEF Stutters, ShownLists
  <2> QED BY <2>1, <2>2
<1>2. CASE obj' = [obj EXCEPT ![h] = new] /\ ret' = result /\ UNCHANGED trapped
  <2>1. new.status # "own"
    BY <1>0 DEF Inv, AllGood
  <2>2. AllGood(obj') /\ Picture(obj') = Picture(obj)
    BY <1>0, <1>2, <2>1, OneOfThemChanges
  <2>3. DOMAIN ret' \subseteq Names
    BY <1>2
  <2>4. Inv'
    BY <1>0, <1>2, <2>2, <2>3 DEF Inv
  <2>5. HL!Read(h)
    BY <1>2, <2>2, PictureIs DEF HL!Read
  <2>6. HL!Exists(h)
    BY <1>0, PictureIs DEF HL!Exists
  <2> QED BY <2>4, <2>5, <2>6 DEF HL!Next
<1> QED BY <1>1, <1>2 DEF ReadWith

LEMMA GetStep ==
  ASSUME Inv, NEW h \in Objs, NEW n \in Names, Get(h, n)
  PROVE  Inv' /\ (HL!Next \/ Stutters)
<1> DEFINE e == Ensure(obj[h], n)
           result == [m \in {n} \cap DOMAIN e.map |-> e.map[m]]
           read == {n}
<1>1. Exists(h) /\ ReadWith(h, e, {n}, result)
  BY DEF Get
<1>2. Good(obj[h]) /\ h \in DOMAIN obj
  BY <1>1 DEF Exists, Inv, AllGood
<1>3. /\ Good(e) /\ Shown(e) = Shown(obj[h]) /\ e.status = obj[h].status
      /\ n \notin e.pending
  BY <1>2, EnsureShows
<1> HIDE DEF e
<1>4. result = [m \in DOMAIN ShownLists[h] \cap read |-> ShownLists[h][m]]
  <2>1. ShownLists[h] = Shown(e)
    BY <1>2, <1>3, PictureIs
  <2>2. /\ n \in DOMAIN Shown(e) <=> n \in DOMAIN e.map
        /\ n \in DOMAIN e.map => Shown(e)[n] = e.map[n]
    BY <1>3, ShownIs
  <2>3. {n} \cap DOMAIN e.map = DOMAIN Shown(e) \cap read
    BY <2>2
  <2>4. \A m \in {n} \cap DOMAIN e.map : e.map[m] = Shown(e)[m]
    BY <2>2
  <2> QED BY <2>1, <2>3, <2>4
<1>5. read \in SUBSET Names
  OBVIOUS
<1> HIDE DEF result, read
<1> QED BY <1>1, <1>3, <1>4, <1>5, ReadStep

LEMMA IterateStep ==
  ASSUME Inv, NEW h \in Objs, Iterate(h)
  PROVE  Inv' /\ (HL!Next \/ Stutters)
<1> DEFINE d == Delazified(obj[h])
           result == d.map
           read == Names
<1>1. Exists(h) /\ ReadWith(h, d, Names, result)
  BY DEF Iterate
<1>2. Good(obj[h]) /\ h \in DOMAIN obj
  BY <1>1 DEF Exists, Inv, AllGood
<1>3. Good(d) /\ Shown(d) = Shown(obj[h]) /\ d.status = obj[h].status /\ result = Shown(obj[h])
  BY <1>2, DelazifiedShows
<1> HIDE DEF d
<1>4. result = [m \in DOMAIN ShownLists[h] \cap read |-> ShownLists[h][m]]
  <2>1. ShownLists[h] = Shown(obj[h])
    BY <1>2, PictureIs
  <2>2. /\ DOMAIN Shown(obj[h]) \in SUBSET Names
        /\ Shown(obj[h]) = [m \in DOMAIN Shown(obj[h]) |-> Shown(obj[h])[m]]
    BY <1>2, ShownIs
  <2>3. DOMAIN Shown(obj[h]) \cap read = DOMAIN Shown(obj[h])
    BY <2>2
  <2> QED BY <1>3, <2>1, <2>2, <2>3
<1>5. read \in SUBSET Names
  OBVIOUS
<1> HIDE DEF result, read
<1> QED BY <1>1, <1>3, <1>4, <1>5, ReadStep

LEMMA HasStep ==
  ASSUME Inv, NEW h \in Objs, NEW n \in Names, Has(h, n)
  PROVE  Inv' /\ HL!Next
<1>1. h \in DOMAIN obj /\ ShownLists' = ShownLists
  BY DEF Has, Exists, ShownLists
<1>2. DOMAIN ShownLists[h] = Listed(obj[h])
  BY <1>1, PictureIs, ShownIs DEF Inv, AllGood
<1>3. {n} \cap Listed(obj[h]) = DOMAIN ShownLists[h] \cap {n}
  BY <1>2
<1>4. ret' = [m \in DOMAIN ShownLists[h] \cap {n} |-> <<>>]
  BY <1>3 DEF Has
<1>5. HL!Read(h)
  BY <1>1, <1>4 DEF HL!Read
<1>6. HL!Exists(h)
  BY <1>1, PictureIs DEF HL!Exists
<1>7. Inv'
  BY <1>4 DEF Inv, AllGood, Has
<1> QED BY <1>5, <1>6, <1>7 DEF HL!Next

\* Only fields without values to be fetched are dropped.
LEMMA SendStep ==
  ASSUME Inv, NEW h \in Objs, Send(h)
  PROVE  Inv' /\ HL!Next
<1>0. /\ h \in DOMAIN obj /\ Exists(h) /\ ret' = <<>> /\ DOMAIN <<>> = {}
      /\ sent' \in BOOLEAN /\ trapped' = trapped
      /\ Good(obj[h])
  BY DEF Send, Exists, Inv, AllGood
<1>1. AllGood(obj') /\ Picture(obj') = Picture(obj)
  <2>1. CASE obj[h].status = "frozen"
    <3> DEFINE new == [obj[h] EXCEPT !.status = "dropped"]
    <3>1. obj' = [obj EXCEPT ![h] = new]
      BY <1>0, <2>1 DEF Send
    <3>2. obj[h].pending = {} /\ "dropped" \in Statuses
      BY <1>0, <2>1 DEF Good, Statuses
    <3>3. Good(new) /\ Shown(new) = Shown(obj[h]) /\ new.status = "dropped"
      BY <1>0, <3>2, StatusShows
    <3> HIDE DEF new
    <3> QED BY <1>0, <3>1, <3>3, OneOfThemChanges
  <2>2. CASE obj[h].status # "frozen"
    BY <2>2 DEF Send, Inv
  <2> QED BY <2>1, <2>2
<1>2. ShownLists' = ShownLists
  BY <1>1, PictureIs
<1>3. HL!Next
  BY <1>0, <1>2, ReadsNothing
<1>4. Inv'
  BY <1>0, <1>1 DEF Inv
<1> QED BY <1>3, <1>4

-----------------------------------------------------------------------------
(* The theorems. *)

LEMMA Start ==
  ASSUME Init
  PROVE  Inv /\ HL!Init
<1>1. DOMAIN <<>> = {} /\ <<>> = [h \in DOMAIN <<>> |-> <<>>[h]]
  OBVIOUS
<1>2. Inv
  BY <1>1 DEF Init, Inv, AllGood
<1>3. ShownLists = <<>>
  BY <1>1 DEF Init, ShownLists
<1>4. HL!Init
  BY <1>3 DEF Init, HL!Init
<1> QED BY <1>2, <1>4

LEMMA Step ==
  ASSUME Inv, [Next]_vars
  PROVE  Inv' /\ (HL!Next \/ Stutters)
<1>1. CASE UNCHANGED vars
  BY <1>1 DEF vars, Inv, AllGood, Stutters, ShownLists
<1>2. ASSUME NEW h \in Objs, Receive(h) PROVE Inv' /\ HL!Next
  BY <1>2, ReceiveStep
<1>3. ASSUME NEW h \in Objs, Construct(h) PROVE Inv' /\ HL!Next
  BY <1>3, ConstructStep
<1>4. ASSUME NEW h \in Objs, ConstructResponse(h) PROVE Inv' /\ HL!Next
  BY <1>4, ConstructResponseStep
<1>5. ASSUME NEW h \in Objs, Iterate(h) PROVE Inv' /\ (HL!Next \/ Stutters)
  BY <1>5, IterateStep
<1>6. ASSUME NEW h \in Objs, Send(h) PROVE Inv' /\ HL!Next
  BY <1>6, SendStep
<1>7. ASSUME NEW h \in Objs, NEW n \in Names, Get(h, n) PROVE Inv' /\ (HL!Next \/ Stutters)
  BY <1>7, GetStep
<1>8. ASSUME NEW h \in Objs, NEW n \in Names, Has(h, n) PROVE Inv' /\ HL!Next
  BY <1>8, HasStep
<1>9. ASSUME NEW h \in Objs, NEW n \in Names, Delete(h, n) PROVE Inv' /\ HL!Next
  BY <1>9, DeleteStep
<1>10. ASSUME NEW h \in Objs, NEW n \in Names, NEW v \in Values[n], Set(h, n, v)
       PROVE  Inv' /\ HL!Next
  BY <1>10, SetStep
<1>11. ASSUME NEW h \in Objs, NEW n \in Names, NEW v \in Values[n], AppendValue(h, n, v)
       PROVE  Inv' /\ HL!Next
  BY <1>11, AppendValueStep
<1> QED BY <1>1, <1>2, <1>3, <1>4, <1>5, <1>6, <1>7, <1>8, <1>9, <1>10, <1>11 DEF Next

\* Between calls, each object has clean values and nothing out of reach.
THEOREM ListInvariance == Spec => []Inv
<1>1. Init => Inv
  BY Start
<1>2. Inv /\ [Next]_vars => Inv'
  BY Step
<1> QED BY <1>1, <1>2, PTL DEF Spec

\* The shape of the state, whatever the program does with its objects: no map
\* has a name whose value is still to be fetched, no fields are left mutable.
THEOREM ObjectsHaveTheirShape == Spec => []TypeOK
<1>1. Inv => TypeOK
  BY DEF Inv, AllGood, Good, Clean, Lists, Statuses, TypeOK, IsHeadersObject
<1> QED BY <1>1, ListInvariance, PTL

\* ensure_value_for_header and the iterators find each value that was not
\* fetched yet, in fields that the host still has: the object is lazy, and
\* only the headers of a received message wait for values.
THEOREM NothingIsOutOfReach == Spec => []PendingValuesCanBeFetched
<1>1. Inv => PendingValuesCanBeFetched
  BY DEF Inv, AllGood, Good, PendingValuesCanBeFetched
<1> QED BY <1>1, ListInvariance, PTL

\* That values are fetched when they are first needed is not noticed: what
\* content sees of each Headers object is a plain list.
THEOREM HeadersAreAPlainList == Spec => ShowsAHeaderList
<1>1. Init => HL!Init
  BY Start
<1>2. Inv /\ [Next]_vars => [HL!Next]_(HL!vars)
  <2> SUFFICES ASSUME Inv, [Next]_vars PROVE [HL!Next]_(HL!vars)
    OBVIOUS
  <2>1. HL!Next \/ Stutters
    BY Step
  <2> QED BY <2>1 DEF HL!vars, Stutters
<1> QED BY <1>1, <1>2, ListInvariance, PTL DEF Spec, ShowsAHeaderList, HL!Spec

=============================================================================
