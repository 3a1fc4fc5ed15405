----------------------------- MODULE QueueLemmas -----------------------------
(***************************************************************************)
(* What the edits of a queue do to it: appending an entry, erasing the     *)
(* entry at an index, dropping the last one.  Each is described by the set *)
(* of entries that remain and by the places at which they remain.          *)
(***************************************************************************)
EXTENDS Integers, Sequences, SequencesExt, SequenceTheorems, WellFoundedInduction, TLAPS

NoDuplicates(s) == \A i, j \in DOMAIN s : s[i] = s[j] => i = j

\* x is in s, at place n or before it.
IsUpTo(s, x, n) == \E p \in DOMAIN s : p <= n /\ s[p] = x

\* What holds for no number fails first somewhere: induction on the length of a
\* queue looks at the least counterexample.
LEMMA LeastElement ==
  ASSUME NEW S \in SUBSET Nat, S # {}
  PROVE  \E n \in S : \A m \in S : n <= m
<1>1. IsWellFoundedOn(OpToRel(<, Nat), Nat)
  BY NatLessThanWellFounded
<1>2. PICK n \in S : \A m \in S : ~(<<m, n>> \in OpToRel(<, Nat))
  BY <1>1, WFMin
<1>3. \A m \in S : ~(m < n)
  BY <1>2 DEF OpToRel
<1> QED BY <1>3

\* RemoveAt, entry by entry.
LEMMA RemoveAtElements ==
  ASSUME NEW S, NEW s \in Seq(S), NEW i \in 1..Len(s)
  PROVE  /\ RemoveAt(s, i) \in Seq(S)
         /\ Len(RemoveAt(s, i)) = Len(s) - 1
         /\ \A j \in 1..(Len(s) - 1) :
              RemoveAt(s, i)[j] = IF j < i THEN s[j] ELSE s[j + 1]
<1> DEFINE a == SubSeq(s, 1, i - 1)
           b == SubSeq(s, i + 1, Len(s))
<1>1. Len(s) \in Nat /\ \A j \in 1..Len(s) : s[j] \in S
  BY LenProperties, ElementOfSeq
<1>2. /\ a \in Seq(S)
      /\ Len(a) = i - 1
      /\ \A j \in 1..(i - 1) : a[j] = s[j]
  <2>1. \A j \in 1..(i - 1) : s[j] \in S
    BY <1>1
  <2>2. /\ a \in Seq(S)
        /\ Len(a) = IF 1 <= i - 1 THEN (i - 1) - 1 + 1 ELSE 0
        /\ \A j \in 1..((i - 1) - 1 + 1) : a[j] = s[1 + j - 1]
    BY <1>1, <2>1, SubSeqProperties
  <2> QED BY <1>1, <2>2
<1>3. /\ b \in Seq(S)
      /\ Len(b) = Len(s) - i
      /\ \A j \in 1..(Len(s) - i) : b[j] = s[i + j]
  <2>1. \A j \in (i + 1)..Len(s) : s[j] \in S
    BY <1>1
  <2>2. /\ b \in Seq(S)
        /\ Len(b) = IF i + 1 <= Len(s) THEN Len(s) - (i + 1) + 1 ELSE 0
        /\ \A j \in 1..(Len(s) - (i + 1) + 1) : b[j] = s[(i + 1) + j - 1]
    BY <1>1, <2>1, SubSeqProperties
  <2> QED BY <1>1, <2>2
<1>4. /\ a \o b \in Seq(S)
      /\ Len(a \o b) = Len(a) + Len(b)
      /\ \A j \in 1..(Len(a) + Len(b)) :
           (a \o b)[j] = IF j <= Len(a) THEN a[j] ELSE b[j - Len(a)]
  BY <1>2, <1>3, ConcatProperties
<1>5. RemoveAt(s, i) = a \o b
  BY DEF RemoveAt
<1> HIDE DEF a, b
<1>6. Len(a) + Len(b) = Len(s) - 1
  BY <1>1, <1>2, <1>3
<1>7. ASSUME NEW j \in 1..(Len(s) - 1)
      PROVE  (a \o b)[j] = IF j < i THEN s[j] ELSE s[j + 1]
  <2>1. CASE j < i
    BY <1>1, <1>2, <1>4, <1>6, <2>1
  <2>2. CASE ~(j < i)
    <3>1. (a \o b)[j] = b[j - (i - 1)]
      BY <1>1, <1>2, <1>4, <1>6, <2>2
    <3>2. j - (i - 1) \in 1..(Len(s) - i) /\ i + (j - (i - 1)) = j + 1
      BY <1>1, <2>2
    <3> QED BY <1>3, <2>2, <3>1, <3>2
  <2> QED BY <2>1, <2>2
<1> QED BY <1>4, <1>5, <1>6, <1>7

\* Erasing an entry of a duplicate-free queue removes that entry only, and no
\* other entry moves towards the end.
LEMMA RemoveAtQueue ==
  ASSUME NEW S, NEW s \in Seq(S), NoDuplicates(s), NEW i \in 1..Len(s)
  PROVE  /\ RemoveAt(s, i) \in Seq(S)
         /\ NoDuplicates(RemoveAt(s, i))
         /\ Range(RemoveAt(s, i)) = Range(s) \ {s[i]}
         /\ \A x : \A n \in Nat :
              x # s[i] /\ IsUpTo(s, x, n) => IsUpTo(RemoveAt(s, i), x, n)
<1> DEFINE r == RemoveAt(s, i)
<1>1. /\ r \in Seq(S)
      /\ Len(r) = Len(s) - 1
      /\ \A j \in 1..(Len(s) - 1) : r[j] = IF j < i THEN s[j] ELSE s[j + 1]
  BY RemoveAtElements
<1>2. Len(s) \in Nat /\ DOMAIN s = 1..Len(s) /\ DOMAIN r = 1..(Len(s) - 1)
  BY <1>1, LenProperties
<1> HIDE DEF r
<1>3. NoDuplicates(r)
  <2> SUFFICES ASSUME NEW j \in DOMAIN r, NEW k \in DOMAIN r, r[j] = r[k]
               PROVE  j = k
    BY DEF NoDuplicates
  <2> DEFINE at(n) == IF n < i THEN n ELSE n + 1
  <2>1. at(j) \in DOMAIN s /\ at(k) \in DOMAIN s /\ s[at(j)] = s[at(k)]
    BY <1>1, <1>2
  <2>2. at(j) = at(k)
    BY <2>1 DEF NoDuplicates
  <2> QED BY <1>2, <2>2
<1>4. ASSUME NEW p \in DOMAIN s, p # i
      PROVE  \E q \in DOMAIN r : q <= p /\ r[q] = s[p]
  <2>1. CASE p < i
    BY <1>1, <1>2, <2>1
  <2>2. CASE p > i
    <3>1. p - 1 \in DOMAIN r /\ r[p - 1] = s[p]
      BY <1>1, <1>2, <2>2
    <3> QED BY <3>1, <1>2
  <2> QED BY <1>2, <1>4, <2>1, <2>2
<1>5. Range(r) \subseteq Range(s) \ {s[i]}
  <2> SUFFICES ASSUME NEW j \in DOMAIN r PROVE r[j] \in Range(s) /\ r[j] # s[i]
    BY DEF Range
  <2>1. CASE j < i
    <3>1. j \in DOMAIN s /\ j # i /\ r[j] = s[j]
      BY <1>1, <1>2, <2>1
    <3> QED BY <1>2, <3>1 DEF Range, NoDuplicates
  <2>2. CASE ~(j < i)
    <3>1. j + 1 \in DOMAIN s /\ j + 1 # i /\ r[j] = s[j + 1]
      BY <1>1, <1>2, <2>2
    <3> QED BY <1>2, <3>1 DEF Range, NoDuplicates
  <2> QED BY <2>1, <2>2
<1>6. Range(s) \ {s[i]} \subseteq Range(r)
  BY <1>2, <1>4 DEF Range
<1>7. ASSUME NEW x, NEW n \in Nat, x # s[i], IsUpTo(s, x, n)
      PROVE  IsUpTo(r, x, n)
  <2>1. PICK p \in DOMAIN s : p <= n /\ s[p] = x
    BY <1>7 DEF IsUpTo
  <2>2. PICK q \in DOMAIN r : q <= p /\ r[q] = s[p]
    BY <1>4, <1>7, <2>1
  <2> QED BY <1>2, <2>1, <2>2 DEF IsUpTo
<1> QED BY <1>1, <1>3, <1>5, <1>6, <1>7 DEF r

\* Appending a new entry keeps the places of the others.
LEMMA AppendQueue ==
  ASSUME NEW S, NEW s \in Seq(S), NoDuplicates(s), NEW t \in S, t \notin Range(s)
  PROVE  /\ Append(s, t) \in Seq(S)
         /\ Len(Append(s, t)) = Len(s) + 1
         /\ NoDuplicates(Append(s, t))
         /\ Range(Append(s, t)) = Range(s) \cup {t}
         /\ \A x : \A n \in Nat : IsUpTo(s, x, n) => IsUpTo(Append(s, t), x, n)
<1> DEFINE r == Append(s, t)
<1>1. /\ r \in Seq(S)
      /\ Len(r) = Len(s) + 1
      /\ \A j \in 1..Len(s) : r[j] = s[j]
      /\ r[Len(s) + 1] = t
  OBVIOUS
<1>2. Len(s) \in Nat /\ DOMAIN s = 1..Len(s) /\ DOMAIN r = 1..(Len(s) + 1)
  BY <1>1, LenProperties
<1> HIDE DEF r
<1>3. NoDuplicates(r)
  BY <1>1, <1>2 DEF NoDuplicates, Range
<1>4. Range(r) = Range(s) \cup {t}
  BY <1>1, <1>2 DEF Range
<1>5. \A x : \A n \in Nat : IsUpTo(s, x, n) => IsUpTo(r, x, n)
  BY <1>1, <1>2 DEF IsUpTo
<1> QED BY <1>1, <1>3, <1>4, <1>5 DEF r

\* Dropping the last entry removes that entry only.
LEMMA FrontQueue ==
  ASSUME NEW S, NEW s \in Seq(S), NoDuplicates(s), s # <<>>
  PROVE  /\ Front(s) \in Seq(S)
         /\ NoDuplicates(Front(s))
         /\ Range(Front(s)) = Range(s) \ {s[Len(s)]}
<1> DEFINE r == Front(s)
<1>1. Len(s) \in Nat /\ Len(s) >= 1 /\ DOMAIN s = 1..Len(s)
  BY EmptySeq, LenProperties
<1>2. \A j \in 1..(Len(s) - 1) : s[j] \in S
  BY <1>1, ElementOfSeq
<1>3. /\ SubSeq(s, 1, Len(s) - 1) \in Seq(S)
      /\ Len(SubSeq(s, 1, Len(s) - 1)) =
           IF 1 <= Len(s) - 1 THEN (Len(s) - 1) - 1 + 1 ELSE 0
      /\ \A j \in 1..((Len(s) - 1) - 1 + 1) :
           SubSeq(s, 1, Len(s) - 1)[j] = s[1 + j - 1]
  BY <1>1, <1>2, SubSeqProperties
<1>4. /\ r \in Seq(S)
      /\ Len(r) = Len(s) - 1
      /\ \A j \in 1..(Len(s) - 1) : r[j] = s[j]
  BY <1>1, <1>3 DEF Front
<1> HIDE DEF r
<1>5. DOMAIN r = 1..(Len(s) - 1)
  BY <1>1, <1>4, LenProperties
<1>6. NoDuplicates(r)
  BY <1>1, <1>4, <1>5 DEF NoDuplicates
<1>7. Range(r) = Range(s) \ {s[Len(s)]}
  BY <1>1, <1>4, <1>5 DEF Range, NoDuplicates
<1> QED BY <1>4, <1>6, <1>7 DEF r

=============================================================================
