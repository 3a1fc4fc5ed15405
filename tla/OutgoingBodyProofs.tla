------------------------- MODULE OutgoingBodyProofs -------------------------
(***************************************************************************)
(* Proofs about OutgoingBody, for any number of bodies, bytes and permits, *)
(* and any width of size_t: the state keeps its shape, a write is short    *)
(* only when the permit is truncated, queued tasks wait for something, no  *)
(* byte is lost, repeated or moved, and each copy implements BytePipe.     *)
(***************************************************************************)
EXTENDS OutgoingBody, QueueLemmas

Running == {"peek", "capacity", "read", "write", "recheck"}

\* Who is in the queue: the running task, and tasks that wait.
QueueInv ==
  /\ NoDuplicates(tasks)
  /\ pc \in Running => cur \in Range(tasks)
  /\ pc \in {"loop", "write_all"} => cur = 0
  /\ \A s \in Range(tasks) : s # cur => state[s] \in Blocked

\* The permit only grows until the task that asked for it writes, and no task
\* reads what has not arrived.
RoomInv ==
  /\ pc = "read" => capacity <= room
  /\ pc = "write" => Len(chunk) <= room
  /\ \A s \in Sources : taken[s] <= arrived[s]

\* The inductive invariant.
Inv == TypeOK /\ QueueInv /\ RoomInv

-----------------------------------------------------------------------------
(* Helpers. *)

LEMMA ModUpTo ==
  ASSUME NEW c \in Nat, NEW m \in Nat \ {0}
  PROVE  c % m \in Nat /\ c % m <= c
<1>1. CASE c < m
  BY <1>1
<1>2. CASE c >= m
  BY <1>2
<1> QED BY <1>1, <1>2

LEMMA BytesOfIsASeq ==
  ASSUME NEW s \in {0} \cup Sources, NEW i \in Nat \ {0}, NEW j \in Nat,
         i <= j + 1, j <= MaxBytes
  PROVE  BytesOf(s, i, j) \in Seq(Byte) /\ Len(BytesOf(s, i, j)) = j - i + 1
<1> DEFINE n == j - i + 1
           b == [k \in 1..n |-> <<s, i + k - 1>>]
<1>1. n \in Nat
  OBVIOUS
<1>2. \A k \in 1..n : <<s, i + k - 1>> \in Byte
  BY MaxBytesAssumption DEF Byte
<1>3. b \in [1..n -> Byte]
  BY <1>2
<1>4. b \in Seq(Byte) /\ Len(b) = n
  <2> HIDE DEF b, n
  <2>1. b \in Seq(Byte)
    BY <1>1, <1>3, SeqDef
  <2>2. DOMAIN b = 1..n /\ DOMAIN b = 1..Len(b) /\ Len(b) \in Nat
    BY <1>3, <2>1, LenProperties
  <2> QED BY <1>1, <2>1, <2>2
<1> QED BY <1>4 DEF BytesOf

LEMMA LastSentIsANumber ==
  ASSUME out \in Seq(Byte)
  PROVE  /\ LastSent \in Nat
         /\ out = <<>> => LastSent = 0 /\ Len(out) = 0
         /\ out # <<>> => Len(out) \in Nat \ {0} /\ LastSent = out[Len(out)][2]
<1>1. Len(out) \in Nat /\ (out # <<>> => Len(out) # 0)
  BY LenProperties, EmptySeq
<1>2. out # <<>> => out[Len(out)] \in Byte
  BY <1>1, ElementOfSeq
<1> QED BY <1>1, <1>2, MaxBytesAssumption DEF LastSent, Last, Byte

\* What is written of a chunk and what is left of it.
LEMMA ChunkParts ==
  ASSUME NEW c \in Seq(Byte), NEW n \in 0..Len(c)
  PROVE  /\ SubSeq(c, 1, n) \in Seq(Byte) /\ Len(SubSeq(c, 1, n)) = n
         /\ \A k \in 1..n : SubSeq(c, 1, n)[k] = c[k]
         /\ SubSeq(c, n + 1, Len(c)) \in Seq(Byte)
         /\ Len(SubSeq(c, n + 1, Len(c))) = Len(c) - n
         /\ \A k \in 1..(Len(c) - n) : SubSeq(c, n + 1, Len(c))[k] = c[n + k]
         /\ SubSeq(c, 1, n) \o SubSeq(c, n + 1, Len(c)) = c
         /\ n = Len(c) => SubSeq(c, n + 1, Len(c)) = <<>>
<1>1. Len(c) \in Nat /\ \A k \in 1..Len(c) : c[k] \in Byte
  BY LenProperties, ElementOfSeq
<1>2. (\A k \in 1..n : c[k] \in Byte) /\ (\A k \in (n + 1)..Len(c) : c[k] \in Byte)
  BY <1>1
<1> DEFINE p == SubSeq(c, 1, n)
           r == SubSeq(c, n + 1, Len(c))
<1>3. p \in Seq(Byte) /\ Len(p) = n /\ \A k \in 1..n : p[k] = c[k]
  BY <1>1, <1>2, SubSeqProperties
<1>4. r \in Seq(Byte) /\ Len(r) = Len(c) - n /\ \A k \in 1..(Len(c) - n) : r[k] = c[n + k]
  <2> DEFINE m == n + 1
  <2>1. /\ m \in 1..(Len(c) + 1) /\ (m <= Len(c) + 1 => (Len(c) - m) + 1 = Len(c) - n)
        /\ \A k \in 1..(Len(c) - n) : (m + k) - 1 = n + k
    BY <1>1
  <2> HIDE DEF m
  <2>2. LET t == SubSeq(c, m, Len(c))
        IN  /\ t \in Seq(Byte) /\ Len(t) = (Len(c) - m) + 1
            /\ \A k \in 1..((Len(c) - m) + 1) : t[k] = c[(m + k) - 1]
    BY <1>1, <2>1, SubSeqProperties
  <2> QED BY <1>1, <2>1, <2>2 DEF m
<1>5. n = Len(c) => r = <<>>
  BY <1>1, SubSeqEmpty
<1> HIDE DEF p, r
<1>6. p \o r = c
  <2>1. /\ p \o r \in Seq(Byte) /\ Len(p \o r) = Len(p) + Len(r)
        /\ \A k \in 1..(Len(p) + Len(r)) :
             (p \o r)[k] = IF k <= Len(p) THEN p[k] ELSE r[k - Len(p)]
    BY <1>3, <1>4, ConcatProperties
  <2>2. Len(p) + Len(r) = Len(c)
    BY <1>1, <1>3, <1>4
  <2>3. ASSUME NEW k \in 1..Len(c) PROVE (p \o r)[k] = c[k]
    <3>1. CASE k <= n
      BY <1>3, <2>1, <2>2, <3>1
    <3>2. CASE k > n
      <4>1. k - n \in 1..(Len(c) - n) /\ n + (k - n) = k
        BY <1>1, <3>2
      <4>2. (p \o r)[k] = r[k - n]
        BY <1>3, <2>1, <2>2, <3>2
      <4> QED BY <1>4, <4>1, <4>2
    <3>3. k <= n \/ k > n
      BY <1>1
    <3> QED BY ONLY <3>1, <3>2, <3>3
  <2> QED BY <1>1, <2>1, <2>2, <2>3, SeqEqual
<1> QED BY <1>3, <1>4, <1>5, <1>6 DEF p, r

LEMMA BytesAssociative ==
  ASSUME NEW x \in Seq(Byte), NEW y \in Seq(Byte), NEW z \in Seq(Byte)
  PROVE  (x \o y) \o z = x \o (y \o z)
BY ConcatAssociative

\* The loop erases the entry of the running task and no other.
LEMMA ErasedQueue ==
  ASSUME Inv, pc \in Running
  PROVE  /\ Erased \in Seq(Sources)
         /\ NoDuplicates(Erased)
         /\ Range(Erased) = Range(tasks) \ {cur}
<1>1. tasks \in Seq(Sources) /\ NoDuplicates(tasks) /\ cur \in Range(tasks)
  BY DEF Inv, TypeOK, QueueInv
<1>2. PICK i \in DOMAIN tasks : tasks[i] = cur
  BY <1>1 DEF Range
<1>3. Place(cur) \in DOMAIN tasks /\ tasks[Place(cur)] = cur
  BY <1>2 DEF Place
<1>4. Place(cur) \in 1..Len(tasks)
  BY <1>1, <1>3, LenProperties
<1> QED BY <1>1, <1>3, <1>4, RemoveAtQueue DEF Erased

\* Injective, in the words of QueueLemmas.
LEMMA InjectiveQueue ==
  ASSUME NEW s
  PROVE  IsInjective(s) <=> NoDuplicates(s)
BY DEF IsInjective, NoDuplicates

-----------------------------------------------------------------------------
(* The bytes of one source in a sequence of bytes, OfSource. *)

\* f is the function that OfSource defines, up to the first m bytes of q.
Collects(f, q, s, m) ==
  f = [n \in 0..m |->
         IF n = 0 THEN <<>>
         ELSE IF q[n][1] = s THEN Append(f[n - 1], q[n]) ELSE f[n - 1]]

\* There is such a function.
LEMMA CollectsExists ==
  ASSUME NEW q, NEW s, NEW m \in Nat
  PROVE  \E f : Collects(f, q, s, m)
<1> DEFINE bad == {n \in Nat : ~ \E f : Collects(f, q, s, n)}
<1> SUFFICES ASSUME bad # {} PROVE FALSE
  OBVIOUS
<1>1. PICK n \in bad : \A k \in bad : n <= k
  <2>1. bad \in SUBSET Nat
    OBVIOUS
  <2> HIDE DEF bad
  <2> QED BY <2>1, LeastElement
<1>2. n # 0
  <2>1. Collects([k \in 0..0 |-> <<>>], q, s, 0)
    BY DEF Collects
  <2> QED BY <1>1, <2>1
<1>3. n \in Nat /\ n - 1 \in Nat /\ n - 1 \notin bad
  BY <1>1, <1>2
<1>4. PICK f : Collects(f, q, s, n - 1)
  BY <1>3
<1> DEFINE last == IF q[n][1] = s THEN Append(f[n - 1], q[n]) ELSE f[n - 1]
           g == [k \in 0..n |-> IF k = n THEN last ELSE f[k]]
<1>5. ASSUME NEW k \in 0..n
      PROVE  g[k] = IF k = 0 THEN <<>>
                    ELSE IF q[k][1] = s THEN Append(g[k - 1], q[k]) ELSE g[k - 1]
  <2>1. CASE k = n
    <3>1. g[n - 1] = f[n - 1] /\ n - 1 \in 0..n
      BY <1>3
    <3> QED BY <1>2, <2>1, <3>1
  <2>2. CASE k # n
    <3>1. k \in 0..(n - 1) /\ (k # 0 => k - 1 \in 0..(n - 1))
      BY <1>3, <2>2
    <3>2. f[k] = IF k = 0 THEN <<>>
                 ELSE IF q[k][1] = s THEN Append(f[k - 1], q[k]) ELSE f[k - 1]
      BY <1>4, <3>1 DEF Collects
    <3>3. g[k] = f[k] /\ (k # 0 => g[k - 1] = f[k - 1])
      BY <1>3, <2>2, <3>1
    <3> QED BY <3>2, <3>3
  <2> QED BY <2>1, <2>2
<1>6. Collects(g, q, s, n)
  BY <1>5 DEF Collects
<1> QED BY <1>1, <1>6

\* There is only one.
LEMMA CollectsUnique ==
  ASSUME NEW q, NEW s, NEW m \in Nat, NEW f, NEW g,
         Collects(f, q, s, m), Collects(g, q, s, m)
  PROVE  \A k \in 0..m : f[k] = g[k]
<1> DEFINE bad == {k \in 0..m : f[k] # g[k]}
<1> SUFFICES ASSUME bad # {} PROVE FALSE
  OBVIOUS
<1>1. PICK n \in bad : \A k \in bad : n <= k
  <2>1. bad \in SUBSET Nat
    OBVIOUS
  <2> HIDE DEF bad
  <2> QED BY <2>1, LeastElement
<1>2. n \in 0..m /\ f[n] # g[n]
  BY <1>1
<1>3. /\ f[n] = IF n = 0 THEN <<>>
                ELSE IF q[n][1] = s THEN Append(f[n - 1], q[n]) ELSE f[n - 1]
      /\ g[n] = IF n = 0 THEN <<>>
                ELSE IF q[n][1] = s THEN Append(g[n - 1], q[n]) ELSE g[n - 1]
  BY <1>2 DEF Collects
<1>4. n # 0
  BY <1>2, <1>3
<1>5. n - 1 \in 0..m /\ n - 1 \notin bad
  BY <1>1, <1>2, <1>4
<1>6. f[n - 1] = g[n - 1]
  BY <1>5
<1> QED BY <1>2, <1>3, <1>4, <1>6

\* OfSource by such a function, and the bytes it returns.
LEMMA OfSourceDef ==
  ASSUME NEW q \in Seq(Byte), NEW s
  PROVE  \E f : /\ Collects(f, q, s, Len(q))
                /\ OfSource(q, s) = f[Len(q)]
                /\ \A k \in 0..Len(q) : f[k] \in Seq(Byte)
<1>1. Len(q) \in Nat /\ \A k \in 1..Len(q) : q[k] \in Byte
  BY LenProperties, ElementOfSeq
<1> DEFINE f == CHOOSE h : Collects(h, q, s, Len(q))
<1>2. Collects(f, q, s, Len(q))
  BY <1>1, CollectsExists
<1>3. OfSource(q, s) = f[Len(q)]
  BY DEF OfSource, Collects
<1> HIDE DEF f
<1>4. \A k \in 0..Len(q) : f[k] \in Seq(Byte)
  <2> DEFINE bad == {k \in 0..Len(q) : f[k] \notin Seq(Byte)}
  <2> SUFFICES ASSUME bad # {} PROVE FALSE
    OBVIOUS
  <2>1. PICK n \in bad : \A k \in bad : n <= k
    <3>1. bad \in SUBSET Nat
      OBVIOUS
    <3> HIDE DEF bad
    <3> QED BY <3>1, LeastElement
  <2>2. /\ f[n] = IF n = 0 THEN <<>>
                  ELSE IF q[n][1] = s THEN Append(f[n - 1], q[n]) ELSE f[n - 1]
        /\ f[n] \notin Seq(Byte)
    BY <1>2, <2>1 DEF Collects
  <2>3. n # 0
    <3>1. <<>> \in Seq(Byte)
      OBVIOUS
    <3> QED BY <2>2, <3>1
  <2>4. f[n - 1] \in Seq(Byte) /\ q[n] \in Byte
    BY <1>1, <2>1, <2>3
  <2>5. Append(f[n - 1], q[n]) \in Seq(Byte)
    BY <2>4, AppendProperties
  <2> QED BY <2>1, <2>2, <2>3, <2>4, <2>5
<1> QED BY <1>2, <1>3, <1>4

LEMMA OfSourceType ==
  ASSUME NEW q \in Seq(Byte), NEW s
  PROVE  OfSource(q, s) \in Seq(Byte)
<1>1. Len(q) \in 0..Len(q)
  BY LenProperties
<1> QED BY <1>1, OfSourceDef

LEMMA OfSourceEmpty ==
  ASSUME NEW s
  PROVE  OfSource(<<>>, s) = <<>>
<1>1. <<>> \in Seq(Byte) /\ Len(<<>>) = 0
  OBVIOUS
<1>2. PICK f : Collects(f, <<>>, s, 0) /\ OfSource(<<>>, s) = f[0]
  BY <1>1, OfSourceDef
<1>3. f[0] = <<>>
  BY <1>2 DEF Collects
<1> QED BY <1>2, <1>3

\* Bytes of source s are added to it; bytes of others are not.
LEMMA OfSourceConcat ==
  ASSUME NEW q \in Seq(Byte), NEW t \in Seq(Byte), NEW s
  PROVE  /\ (\A i \in 1..Len(t) : t[i][1] = s) => OfSource(q \o t, s) = OfSource(q, s) \o t
         /\ (\A i \in 1..Len(t) : t[i][1] # s) => OfSource(q \o t, s) = OfSource(q, s)
<1> DEFINE u == q \o t
           a == Len(q)
           b == Len(t)
<1>1. /\ u \in Seq(Byte) /\ a \in Nat /\ b \in Nat /\ Len(u) = a + b
      /\ \A i \in 1..a : u[i] = q[i]
      /\ \A i \in 1..b : u[a + i] = t[i] /\ t[i] \in Byte
  BY ConcatProperties, LenProperties, ElementOfSeq
<1>2. PICK f : /\ Collects(f, q, s, a) /\ OfSource(q, s) = f[a]
               /\ \A k \in 0..a : f[k] \in Seq(Byte)
  BY OfSourceDef
<1>3. PICK g : Collects(g, u, s, a + b) /\ OfSource(u, s) = g[a + b]
  BY <1>1, OfSourceDef
<1>4. g[a] = f[a] /\ g[a] \in Seq(Byte)
  <2> DEFINE h == [k \in 0..a |-> g[k]]
  <2>1. ASSUME NEW k \in 0..a
        PROVE  h[k] = IF k = 0 THEN <<>>
                      ELSE IF q[k][1] = s THEN Append(h[k - 1], q[k]) ELSE h[k - 1]
    <3>1. k \in 0..(a + b) /\ (k # 0 => k - 1 \in 0..a /\ k \in 1..a)
      BY <1>1
    <3>2. g[k] = IF k = 0 THEN <<>>
                 ELSE IF u[k][1] = s THEN Append(g[k - 1], u[k]) ELSE g[k - 1]
      BY <1>3, <3>1 DEF Collects
    <3> QED BY <1>1, <3>1, <3>2
  <2>2. Collects(h, q, s, a)
    BY <2>1 DEF Collects
  <2>3. a \in 0..a /\ h[a] = g[a]
    BY <1>1
  <2> HIDE DEF h
  <2>4. h[a] = f[a]
    BY <1>1, <1>2, <2>2, <2>3, CollectsUnique
  <2> QED BY <1>2, <2>3, <2>4
<1> HIDE DEF u, a, b
<1>5. \A n \in 1..b :
        g[a + n] = IF t[n][1] = s THEN Append(g[a + (n - 1)], t[n]) ELSE g[a + (n - 1)]
  <2> SUFFICES ASSUME NEW n \in 1..b
               PROVE  g[a + n] = IF t[n][1] = s THEN Append(g[a + (n - 1)], t[n])
                                               ELSE g[a + (n - 1)]
    OBVIOUS
  <2>1. a + n \in 0..(a + b) /\ a + n # 0 /\ u[a + n] = t[n]
    BY <1>1
  <2>2. \A k \in 0..(a + b) :
          g[k] = IF k = 0 THEN <<>>
                 ELSE IF u[k][1] = s THEN Append(g[k - 1], u[k]) ELSE g[k - 1]
    BY <1>3 DEF Collects
  <2> DEFINE k == a + n
  <2>3. k \in 0..(a + b) /\ k # 0 /\ u[k] = t[n]
    BY <2>1
  <2> HIDE DEF k
  <2>4. g[k] = IF t[n][1] = s THEN Append(g[k - 1], t[n]) ELSE g[k - 1]
    BY <2>2, <2>3
  <2>5. k - 1 = a + (n - 1)
    BY <1>1 DEF k
  <2> QED BY <2>4, <2>5 DEF k
<1>6. ASSUME \A i \in 1..b : t[i][1] # s
      PROVE  g[a + b] = g[a]
  <2> DEFINE bad == {n \in 0..b : g[a + n] # g[a]}
  <2>1. bad = {}
    <3> SUFFICES ASSUME bad # {} PROVE FALSE
      OBVIOUS
    <3>1. PICK n \in bad : \A k \in bad : n <= k
      <4>1. bad \in SUBSET Nat
        BY <1>1
      <4> HIDE DEF bad
      <4> QED BY <4>1, LeastElement
    <3>2. n \in 0..b /\ g[a + n] # g[a] /\ \A k \in 0..b : g[a + k] # g[a] => n <= k
      BY <3>1
    <3> HIDE DEF bad
    <3>3. n # 0 /\ a + 0 = a
      BY <1>1, <3>2
    <3>4. n \in 1..b /\ n - 1 \in 0..b /\ ~(n <= n - 1)
      BY <1>1, <3>2, <3>3
    <3>5. g[a + (n - 1)] = g[a]
      BY <3>2, <3>4
    <3> QED BY <1>5, <1>6, <3>2, <3>4, <3>5
  <2>2. b \in 0..b
    BY <1>1
  <2> QED BY <2>1, <2>2
<1>7. ASSUME \A i \in 1..b : t[i][1] = s
      PROVE  g[a + b] = g[a] \o t
  <2> DEFINE bad == {n \in 0..b : g[a + n] # g[a] \o SubSeq(t, 1, n)}
  <2>1. bad # {} => \E n \in 0..b : /\ g[a + n] # g[a] \o SubSeq(t, 1, n)
                                   /\ \A k \in 0..b : g[a + k] # g[a] \o SubSeq(t, 1, k) => n <= k
    <3> SUFFICES ASSUME bad # {}
                 PROVE  \E n \in 0..b : /\ g[a + n] # g[a] \o SubSeq(t, 1, n)
                                        /\ \A k \in 0..b : g[a + k] # g[a] \o SubSeq(t, 1, k) => n <= k
      OBVIOUS
    <3>1. PICK n \in bad : \A k \in bad : n <= k
      <4>1. bad \in SUBSET Nat
        BY <1>1
      <4> HIDE DEF bad
      <4> QED BY <4>1, LeastElement
    <3> QED BY <3>1
  <2>2. ASSUME NEW n \in 0..b, g[a + n] # g[a] \o SubSeq(t, 1, n),
               \A k \in 0..b : g[a + k] # g[a] \o SubSeq(t, 1, k) => n <= k
        PROVE  FALSE
    <3>1. n # 0
      <4>1. SubSeq(t, 1, 0) = <<>> /\ a + 0 = a
        BY <1>1, SubSeqEmpty
      <4>2. g[a] \o <<>> = g[a]
        BY <1>4, ConcatEmptySeq
      <4> QED BY <2>2, <4>1, <4>2
    <3>2. n \in 1..b /\ n - 1 \in 0..b /\ ~(n <= n - 1)
      BY <1>1, <3>1
    <3>3. g[a + (n - 1)] = g[a] \o SubSeq(t, 1, n - 1)
      BY <2>2, <3>2
    <3>4. g[a + n] = Append(g[a] \o SubSeq(t, 1, n - 1), t[n])
      BY <1>5, <1>7, <3>2, <3>3
    <3>5. SubSeq(t, 1, n - 1) \in Seq(Byte) /\ t[n] \in Byte /\ <<t[n]>> \in Seq(Byte)
      <4>1. n - 1 \in 0..Len(t)
        BY <3>2 DEF b
      <4>2. SubSeq(t, 1, n - 1) \in Seq(Byte)
        BY <4>1, ChunkParts
      <4> QED BY <1>1, <3>2, <4>2
    <3> DEFINE x == SubSeq(t, 1, n - 1)
               y == <<t[n]>>
               z == g[a]
    <3>6. x \in Seq(Byte) /\ y \in Seq(Byte) /\ z \in Seq(Byte)
      BY <1>4, <3>5
    <3>7. Append(z \o x, t[n]) = (z \o x) \o y
      <4>1. z \o x \in Seq(Byte)
        BY <3>6, ConcatProperties
      <4> QED BY <3>5, <4>1, AppendIsConcat
    <3>8. (z \o x) \o y = z \o (x \o y)
      <4> HIDE DEF x, y, z
      <4> QED BY ONLY <3>6, BytesAssociative
    <3>9. x \o y = SubSeq(t, 1, n)
      <4>1. 1 \in 1..Len(t) /\ n \in 1..Len(t)
        BY <1>1, <3>2 DEF b
      <4> QED BY <4>1, SubSeqRecursiveSecond
    <3> QED BY <2>2, <3>4, <3>7, <3>8, <3>9
  <2>3. bad = {}
    BY <2>1, <2>2
  <2>4. b \in 0..b /\ SubSeq(t, 1, b) = t
    BY <1>1, SubSeqFull DEF b
  <2> QED BY <2>3, <2>4
<1> QED BY <1>2, <1>3, <1>4, <1>6, <1>7 DEF u, a, b

-----------------------------------------------------------------------------
(* How a run of a task ends: each lemma is about the variables of the queue. *)

\* The part of the invariant that the end of a run touches.
QueueOK ==
  /\ tasks \in Seq(Sources) /\ NoDuplicates(tasks)
  /\ state \in [Sources -> Blocked \cup {"none", "Ready", "Done"}]
  /\ cur \in Sources \cup {0}
  /\ QueueInv

LEMMA InvQueueOK ==
  ASSUME Inv
  PROVE  /\ QueueOK
         /\ Range(tasks) \subseteq Sources
         /\ pc \in Running => cur \in Sources
<1>1. QueueOK
  BY DEF Inv, TypeOK, QueueOK, QueueInv
<1>2. Range(tasks) \subseteq Sources
  BY <1>1, LenProperties, ElementOfSeq DEF QueueOK, Range
<1> QED BY <1>1, <1>2 DEF QueueOK, QueueInv

LEMMA RequeueOK ==
  ASSUME Inv, pc \in Running, NEW st \in Blocked, Requeue(st)
  PROVE  QueueOK' /\ pc' = "loop"
<1>1. /\ QueueOK /\ cur \in Sources
      /\ cur' = 0 /\ pc' = "loop"
      /\ tasks' = Append(Erased, cur)
      /\ state' = [state EXCEPT ![cur] = st]
  BY InvQueueOK DEF Requeue, Finished
<1>2. /\ Erased \in Seq(Sources) /\ NoDuplicates(Erased)
      /\ Range(Erased) = Range(tasks) \ {cur}
  BY ErasedQueue
<1>3. /\ tasks' \in Seq(Sources) /\ NoDuplicates(tasks')
      /\ Range(tasks') = Range(Erased) \cup {cur}
  BY <1>1, <1>2, AppendQueue
<1>4. state' \in [Sources -> Blocked \cup {"none", "Ready", "Done"}]
  BY <1>1 DEF QueueOK
<1>5. \A s \in Range(tasks') : state'[s] \in Blocked
  BY <1>1, <1>2, <1>3 DEF QueueOK, QueueInv
<1> QED BY <1>1, <1>3, <1>4, <1>5 DEF QueueOK, QueueInv, Running

LEMMA CompleteOK ==
  ASSUME Inv, pc \in Running, Complete
  PROVE  QueueOK' /\ pc' = "loop"
<1>1. /\ QueueOK /\ cur \in Sources
      /\ cur' = 0 /\ pc' = "loop"
      /\ tasks' = Erased
      /\ state' = [state EXCEPT ![cur] = "Done"]
  BY InvQueueOK DEF Complete, Finished
<1>2. /\ Erased \in Seq(Sources) /\ NoDuplicates(Erased)
      /\ Range(Erased) = Range(tasks) \ {cur}
  BY ErasedQueue
<1>3. state' \in [Sources -> Blocked \cup {"none", "Ready", "Done"}]
  BY <1>1 DEF QueueOK
<1>4. \A s \in Range(tasks') : state'[s] \in Blocked
  BY <1>1, <1>2 DEF QueueOK, QueueInv
<1> QED BY <1>1, <1>2, <1>3, <1>4 DEF QueueOK, QueueInv, Running

\* The run goes on, or it fails: the queue is what it was.
LEMMA SameQueueOK ==
  ASSUME Inv, UNCHANGED <<tasks, cur>>, pc \in Running, pc' \in Running \cup Ended,
         \/ UNCHANGED state
         \/ \E st \in {"BlockedOnOutgoing", "Ready"} : state' = [state EXCEPT ![cur] = st]
  PROVE  QueueOK'
<1>1. QueueOK /\ cur \in Range(tasks) /\ Range(tasks) \subseteq Sources
  BY InvQueueOK DEF QueueOK, QueueInv
<1>2. state' \in [Sources -> Blocked \cup {"none", "Ready", "Done"}]
  BY <1>1 DEF QueueOK, Blocked
<1>3. \A s \in Range(tasks) : s # cur => state'[s] = state[s] /\ state[s] \in Blocked
  BY <1>1 DEF QueueOK, QueueInv
<1> QED BY <1>1, <1>2, <1>3 DEF QueueOK, QueueInv, Running, Ended

-----------------------------------------------------------------------------
(* One lemma per part of the next-state relation. *)

\* The rest of the invariant, for a step that leaves some of it alone.
DataOK ==
  /\ arrived \in [Sources -> 0..MaxBytes]
  /\ taken \in [Sources -> 0..MaxBytes]
  /\ ended \in [Sources -> {"open", "closed", "broken"}]
  /\ out \in Seq(Byte)
  /\ room \in 0..MaxRoom
  /\ gone \in BOOLEAN
  /\ capacity \in 0..MaxRoom
  /\ chunk \in Seq(Byte)
  /\ pc \in {"loop", "write_all"} \cup Running \cup Ended
  /\ RoomInv

LEMMA InvParts == Inv <=> QueueOK /\ DataOK
BY InjectiveQueue DEF Inv, QueueOK, DataOK, TypeOK, QueueInv, Running

LEMMA InvPartsPrime == Inv' <=> QueueOK' /\ DataOK'
<1>1. IsInjective(tasks') <=> NoDuplicates(tasks')
  BY InjectiveQueue
<1> QED BY <1>1 DEF Inv, QueueOK, DataOK, TypeOK, QueueInv, Running

LEMMA InitInv == Init => Inv
<1> SUFFICES ASSUME Init PROVE Inv
  OBVIOUS
<1>1. <<>> \in Seq(Sources) /\ <<>> \in Seq(Byte) /\ Range(<<>>) = {} /\ NoDuplicates(<<>>)
  BY DEF Range, NoDuplicates
<1>2. QueueOK
  BY <1>1 DEF Init, QueueOK, QueueInv, Running
<1>3. \A s \in Sources : taken[s] = 0 /\ arrived[s] = 0
  BY DEF Init
<1>4. RoomInv
  BY <1>3 DEF Init, RoomInv
<1>5. DataOK
  <2>1. 0 \in 0..MaxBytes /\ 0 \in 0..MaxRoom
    BY MaxBytesAssumption, MaxRoomAssumption
  <2>2. arrived \in [Sources -> 0..MaxBytes] /\ taken \in [Sources -> 0..MaxBytes]
    BY <2>1 DEF Init
  <2>3. ended \in [Sources -> {"open", "closed", "broken"}]
    BY DEF Init
  <2> QED BY <1>1, <1>4, <2>1, <2>2, <2>3 DEF Init, DataOK
<1> QED BY <1>2, <1>5, InvParts

LEMMA ProgramInv == Inv /\ Program => Inv'
<1> SUFFICES ASSUME Inv, Program PROVE Inv'
  OBVIOUS
<1>0. QueueOK /\ DataOK /\ Range(tasks) \subseteq Sources
  BY InvParts, InvQueueOK
<1>1. ASSUME NEW s \in Sources, AppendSource(s)
      PROVE  Inv'
  <2>1. /\ pc = "loop" /\ cur = 0 /\ state[s] = "none"
        /\ tasks' = Append(tasks, s)
        /\ state' = [state EXCEPT ![s] = "BlockedOnBoth"]
        /\ UNCHANGED <<cur, pc>>
    BY <1>0, <1>1 DEF AppendSource, NextSource, QueueOK, QueueInv
  <2>2. s \notin Range(tasks)
    BY <1>0, <2>1 DEF QueueOK, QueueInv, Blocked
  <2>3. /\ tasks' \in Seq(Sources) /\ NoDuplicates(tasks')
        /\ Range(tasks') = Range(tasks) \cup {s}
    BY <1>0, <2>1, <2>2, AppendQueue DEF QueueOK
  <2>4. state' \in [Sources -> Blocked \cup {"none", "Ready", "Done"}]
    BY <1>0, <2>1 DEF QueueOK, Blocked
  <2>5. \A t \in Range(tasks') : state'[t] \in Blocked
    <3> SUFFICES ASSUME NEW t \in Range(tasks) \cup {s} PROVE state'[t] \in Blocked
      BY <2>3
    <3>1. CASE t = s
      BY <1>0, <2>1, <3>1 DEF QueueOK, Blocked
    <3>2. CASE t \in Range(tasks) /\ t # s
      <4>1. t \in Sources /\ t # cur
        BY <1>0, <2>1, <3>2 DEF Sources
      <4>2. state[t] \in Blocked
        BY <1>0, <3>2, <4>1 DEF QueueOK, QueueInv
      <4> QED BY <1>0, <2>1, <3>2, <4>1, <4>2 DEF QueueOK
    <3> QED BY <3>1, <3>2
  <2>6. QueueOK'
    BY <1>0, <2>1, <2>3, <2>4, <2>5 DEF QueueOK, QueueInv, Running
  <2>7. DataOK'
    BY <1>0, <1>1 DEF DataOK, RoomInv, AppendSource, inVars, outVars
  <2> QED BY <2>6, <2>7, InvPartsPrime
<1>2. ASSUME NEW n \in 1..MaxBytes, WriteAll(n)
      PROVE  Inv'
  <2>1. LastSent \in Nat
    BY <1>0, LastSentIsANumber DEF DataOK
  <2>2. chunk' \in Seq(Byte)
    BY <1>2, <2>1, BytesOfIsASeq DEF WriteAll
  <2>3. DataOK'
    BY <1>0, <1>2, <2>2 DEF DataOK, RoomInv, WriteAll, inVars, outVars, taskVars
  <2>4. QueueOK'
    BY <1>0, <1>2 DEF QueueOK, QueueInv, WriteAll, taskVars, Running
  <2> QED BY <2>3, <2>4, InvPartsPrime
<1> QED BY <1>1, <1>2 DEF Program

LEMMA HostInv == Inv /\ Host => Inv'
<1> SUFFICES ASSUME Inv, Host PROVE Inv'
  OBVIOUS
<1>0. QueueOK /\ DataOK
  BY InvParts
<1>1. UNCHANGED <<taskVars, chunk, pc>>
  BY DEF Host, Arrive, EndSource, MakeRoom, ClientLeaves
<1>2. QueueOK'
  BY <1>0, <1>1 DEF QueueOK, QueueInv, taskVars
<1>3. ASSUME NEW s \in Sources, Arrive(s)
      PROVE  DataOK'
  BY <1>0, <1>1, <1>3, MaxBytesAssumption DEF DataOK, RoomInv, Arrive, outVars, taskVars
<1>4. ASSUME NEW s \in Sources, NEW how \in {"closed", "broken"}, EndSource(s, how)
      PROVE  DataOK'
  BY <1>0, <1>1, <1>4 DEF DataOK, RoomInv, EndSource, outVars, taskVars
<1>5. ASSUME NEW n \in 1..MaxRoom, MakeRoom(n)
      PROVE  DataOK'
  <2>1. Len(chunk) \in Nat
    BY <1>0, LenProperties DEF DataOK
  <2> QED BY <1>0, <1>1, <1>5, <2>1, MaxRoomAssumption
        DEF DataOK, RoomInv, MakeRoom, inVars, taskVars
<1>6. ASSUME ClientLeaves
      PROVE  DataOK'
  BY <1>0, <1>1, <1>6 DEF DataOK, RoomInv, ClientLeaves, inVars, taskVars
<1>7. DataOK'
  BY <1>3, <1>4, <1>5, <1>6 DEF Host
<1> QED BY <1>2, <1>7, InvPartsPrime

LEMMA SelectInv == Inv /\ Select => Inv'
<1> SUFFICES ASSUME Inv, Select PROVE Inv'
  OBVIOUS
<1>0. QueueOK /\ DataOK /\ Range(tasks) \subseteq Sources
  BY InvParts, InvQueueOK
<1>1. PICK i \in DOMAIN tasks :
        cur' = tasks[i] /\ pc' = IF state[tasks[i]] = "BlockedOnOutgoing" THEN "capacity" ELSE "peek"
  BY DEF Select
<1>2. cur' \in Range(tasks) /\ cur' \in Sources
  BY <1>0, <1>1, LenProperties, ElementOfSeq DEF QueueOK, Range
<1>3. /\ UNCHANGED <<inVars, outVars, tasks, state, capacity, chunk>>
      /\ pc = "loop" /\ pc' \in {"capacity", "peek"}
  BY <1>1 DEF Select
<1>4. cur = 0 /\ \A s \in Range(tasks) : s # cur
  BY <1>0, <1>3 DEF QueueOK, QueueInv, Sources
<1>5. \A s \in Range(tasks) : state[s] \in Blocked
  BY <1>0, <1>4 DEF QueueOK, QueueInv
<1>6. QueueOK'
  BY <1>0, <1>2, <1>3, <1>5 DEF QueueOK, QueueInv, Running
<1>7. DataOK'
  BY <1>0, <1>3 DEF DataOK, RoomInv, inVars, outVars, Running
<1> QED BY <1>6, <1>7, InvPartsPrime

LEMMA PeekInv == Inv /\ Peek => Inv'
<1> SUFFICES ASSUME Inv, Peek PROVE Inv'
  OBVIOUS
<1>0. DataOK /\ pc \in Running
  BY InvParts DEF Peek, Running
<1>1. QueueOK' /\ pc' \in {"loop", "trapped", "capacity"}
  <2>1. CASE Complete
    BY <1>0, <2>1, CompleteOK
  <2>2. CASE pc' = "trapped" /\ UNCHANGED <<tasks, state, cur>>
    BY <1>0, <2>2, SameQueueOK DEF Ended
  <2>3. CASE /\ state' = [state EXCEPT ![cur] = "BlockedOnOutgoing"]
             /\ pc' = "capacity"
             /\ UNCHANGED <<tasks, cur>>
    BY <1>0, <2>3, SameQueueOK DEF Running
  <2> QED BY <2>1, <2>2, <2>3 DEF Peek
<1>2. DataOK'
  BY <1>0, <1>1 DEF DataOK, RoomInv, Peek, inVars, outVars, Running, Ended
<1> QED BY <1>1, <1>2, InvPartsPrime

LEMMA CheckCapacityInv == Inv /\ CheckCapacity => Inv'
<1> SUFFICES ASSUME Inv, CheckCapacity PROVE Inv'
  OBVIOUS
<1>0. DataOK /\ pc \in Running
  BY InvParts DEF CheckCapacity, Running
<1>1. CASE Fails
  <2>1. QueueOK' /\ pc' = "failed"
    BY <1>0, <1>1, SameQueueOK DEF Fails, Ended
  <2> QED BY <2>1, <1>0, InvPartsPrime
        DEF CheckCapacity, DataOK, RoomInv, inVars, outVars, Ended
<1>2. CASE Requeue("BlockedOnOutgoing")
  <2>1. QueueOK' /\ pc' = "loop"
    BY <1>0, <1>2, RequeueOK DEF Blocked
  <2> QED BY <2>1, <1>0, InvPartsPrime
        DEF CheckCapacity, DataOK, RoomInv, inVars, outVars
<1>3. CASE /\ state' = [state EXCEPT ![cur] = "Ready"]
           /\ pc' = "read"
           /\ UNCHANGED <<tasks, cur>>
  <2>1. QueueOK'
    BY <1>0, <1>3, SameQueueOK DEF Running
  <2> QED BY <2>1, <1>0, <1>3, InvPartsPrime
        DEF CheckCapacity, DataOK, RoomInv, inVars, outVars, Running
<1> QED BY <1>1, <1>2, <1>3 DEF CheckCapacity

\* Here WordSize matters: the size that read is asked for is never more than
\* the capacity, whether or not it was truncated.
LEMMA ReadChunkInv == Inv /\ ReadChunk => Inv'
<1> SUFFICES ASSUME Inv, ReadChunk PROVE Inv'
  OBVIOUS
<1>0. DataOK /\ QueueOK /\ pc = "read" /\ cur \in Sources
  BY InvParts, InvQueueOK DEF ReadChunk, Running
<1>1. PICK k \in 1..MaxBytes :
        /\ k <= Left(cur) /\ k <= ChunkSize
        /\ chunk' = BytesOf(cur, taken[cur] + 1, taken[cur] + k)
        /\ taken' = [taken EXCEPT ![cur] = @ + k]
  BY DEF ReadChunk, Take
<1>2. ChunkSize \in Nat /\ ChunkSize <= capacity
  <2>1. capacity \in Nat /\ WordSize \in Nat \ {0}
    BY <1>0, WordSizeAssumption, MaxRoomAssumption DEF DataOK
  <2>2. capacity % WordSize \in Nat /\ capacity % WordSize <= capacity
    BY <2>1, ModUpTo
  <2> QED BY <2>2 DEF ChunkSize
<1>3. taken[cur] \in Nat /\ arrived[cur] \in 0..MaxBytes /\ taken[cur] + k <= arrived[cur]
  BY <1>0, <1>1, MaxBytesAssumption DEF DataOK, Left
<1>4. taken[cur] + k \in 0..MaxBytes
  BY <1>3, MaxBytesAssumption
<1>5. chunk' \in Seq(Byte) /\ Len(chunk') = k
  <2>1. /\ taken[cur] + 1 \in Nat \ {0}
        /\ taken[cur] + k \in Nat
        /\ taken[cur] + 1 <= (taken[cur] + k) + 1
        /\ taken[cur] + k <= MaxBytes
        /\ (taken[cur] + k) - (taken[cur] + 1) + 1 = k
    BY <1>3, <1>4
  <2> HIDE DEF BytesOf
  <2> QED BY <1>0, <1>1, <2>1, BytesOfIsASeq
<1>6. taken' \in [Sources -> 0..MaxBytes]
  BY <1>0, <1>1, <1>4 DEF DataOK
<1>7. \A s \in Sources : taken'[s] <= arrived'[s]
  BY <1>0, <1>1, <1>3 DEF DataOK, RoomInv, ReadChunk
<1>8. Len(chunk') <= room
  BY <1>0, <1>1, <1>2, <1>5 DEF DataOK, RoomInv
<1>9. QueueOK'
  BY <1>0 DEF QueueOK, QueueInv, ReadChunk, taskVars, Running
<1>10. DataOK'
  BY <1>0, <1>5, <1>6, <1>7, <1>8 DEF DataOK, RoomInv, ReadChunk, outVars, taskVars, Running
<1> QED BY <1>9, <1>10, InvPartsPrime

LEMMA ReadEmptyInv == Inv /\ ReadEmpty => Inv'
<1> SUFFICES ASSUME Inv, ReadEmpty PROVE Inv'
  OBVIOUS
<1>0. DataOK /\ pc \in Running
  BY InvParts DEF ReadEmpty, Running
<1>1. QueueOK' /\ pc' \in {"failed", "loop"}
  <2>1. CASE Fails
    BY <1>0, <2>1, SameQueueOK DEF Fails, Ended
  <2>2. CASE Complete
    BY <1>0, <2>2, CompleteOK
  <2>3. CASE Requeue("BlockedOnIncoming")
    BY <1>0, <2>3, RequeueOK DEF Blocked
  <2> QED BY <2>1, <2>2, <2>3 DEF ReadEmpty
<1>2. DataOK'
  BY <1>0, <1>1 DEF DataOK, RoomInv, ReadEmpty, inVars, outVars, Ended
<1> QED BY <1>1, <1>2, InvPartsPrime

\* What write passes to the host, and what is left of the chunk after it.
Piece == SubSeq(chunk, 1, BytesToWrite)
Rest == Advance(BytesToWrite)

\* The permit may be truncated, but what write passes to the host is in it.
LEMMA Parts ==
  ASSUME Inv
  PROVE  /\ chunk \in Seq(Byte) /\ Len(chunk) \in Nat
         /\ BytesToWrite \in 0..Len(chunk) /\ BytesToWrite <= room
         /\ Piece \in Seq(Byte) /\ Len(Piece) = BytesToWrite
         /\ \A i \in 1..Len(Piece) : Piece[i] = chunk[i]
         /\ Rest \in Seq(Byte) /\ Len(Rest) = Len(chunk) - BytesToWrite
         /\ \A i \in 1..Len(Rest) : Rest[i] = chunk[BytesToWrite + i]
         /\ Piece \o Rest = chunk
<1>1. /\ chunk \in Seq(Byte) /\ Len(chunk) \in Nat /\ room \in Nat
      /\ Permitted \in Nat /\ Permitted <= room
  <2>1. chunk \in Seq(Byte) /\ Len(chunk) \in Nat /\ room \in Nat /\ WordSize \in Nat \ {0}
    BY LenProperties, MaxRoomAssumption, WordSizeAssumption DEF Inv, TypeOK
  <2>2. room % WordSize \in Nat /\ room % WordSize <= room
    BY <2>1, ModUpTo
  <2> QED BY <2>1, <2>2 DEF Permitted
<1> DEFINE n == BytesToWrite
<1>2. n \in 0..Len(chunk) /\ n <= room
  BY <1>1 DEF BytesToWrite
<1> HIDE DEF n
<1>3. /\ SubSeq(chunk, 1, n) \in Seq(Byte) /\ Len(SubSeq(chunk, 1, n)) = n
      /\ \A k \in 1..n : SubSeq(chunk, 1, n)[k] = chunk[k]
      /\ SubSeq(chunk, n + 1, Len(chunk)) \in Seq(Byte)
      /\ Len(SubSeq(chunk, n + 1, Len(chunk))) = Len(chunk) - n
      /\ \A k \in 1..(Len(chunk) - n) : SubSeq(chunk, n + 1, Len(chunk))[k] = chunk[n + k]
      /\ SubSeq(chunk, 1, n) \o SubSeq(chunk, n + 1, Len(chunk)) = chunk
  BY <1>1, <1>2, ChunkParts
<1>4. Piece = SubSeq(chunk, 1, n) /\ Rest = SubSeq(chunk, n + 1, Len(chunk))
  BY DEF Piece, Rest, Advance, n
<1>5. BytesToWrite = n
  BY DEF n
<1> QED BY <1>1, <1>2, <1>3, <1>4, <1>5

LEMMA WriteTakes ==
  ASSUME Write, ~gone
  PROVE  /\ pc = "write" /\ pc' = IF Rest = <<>> THEN "recheck" ELSE "write"
         /\ out' = out \o Piece /\ chunk' = Rest /\ room' = room - BytesToWrite
         /\ UNCHANGED <<arrived, taken, ended, tasks, state, cur, capacity, gone>>
BY DEF Write, Put, Piece, Rest, inVars

\* The whole chunk is sent, and a part of it may be sent again.
LEMMA WriteAllTakes ==
  ASSUME Inv, WriteAllStep
  PROVE  /\ pc = "write_all"
         /\ UNCHANGED <<arrived, taken, ended, tasks, state, cur, capacity, gone>>
         /\ \/ /\ UNCHANGED <<out, room, chunk>>
               /\ pc' \in {"loop", "failed", "trapped"} /\ (pc' = "loop" => chunk = <<>>)
            \/ /\ pc' = "write_all" /\ Len(chunk) <= room /\ room' = room - Len(chunk)
               /\ out' = out \o chunk /\ chunk' = Rest
<1>1. SubSeq(chunk, 1, Len(chunk)) = chunk
  BY SubSeqFull DEF Inv, TypeOK
<1> QED BY <1>1 DEF WriteAllStep, Put, Rest, inVars, outVars, taskVars

LEMMA WriteInv == Inv /\ Write => Inv'
<1> SUFFICES ASSUME Inv, Write PROVE Inv'
  OBVIOUS
<1>0. DataOK /\ pc = "write" /\ pc \in Running
  BY InvParts DEF Write, Running
<1>1. CASE gone
  <2>1. QueueOK' /\ pc' = "failed"
    BY <1>0, <1>1, SameQueueOK DEF Write, Fails, Ended
  <2>2. DataOK'
    BY <1>0, <1>1, <2>1 DEF Write, DataOK, RoomInv, inVars, outVars, Ended
  <2> QED BY <2>1, <2>2, InvPartsPrime
<1>2. CASE ~gone
  <2>1. /\ BytesToWrite \in 0..Len(chunk) /\ Len(chunk) \in Nat /\ Len(chunk) <= room
        /\ Piece \in Seq(Byte) /\ Rest \in Seq(Byte) /\ Len(Rest) = Len(chunk) - BytesToWrite
        /\ room \in 0..MaxRoom /\ MaxRoom \in Nat
    BY <1>0, Parts, MaxRoomAssumption DEF DataOK, RoomInv
  <2>2. /\ pc' \in {"recheck", "write"}
        /\ out' = out \o Piece /\ chunk' = Rest /\ room' = room - BytesToWrite
        /\ UNCHANGED <<arrived, taken, ended, tasks, state, cur, capacity, gone>>
    BY <1>2, WriteTakes
  <2>3. out' \in Seq(Byte)
    BY <1>0, <2>1, <2>2, ConcatProperties DEF DataOK
  <2>4. room' \in 0..MaxRoom /\ Len(chunk') <= room'
    BY <2>1, <2>2
  <2>5. QueueOK'
    BY <1>0, <2>2, SameQueueOK DEF Running
  <2>6. DataOK'
    BY <1>0, <2>1, <2>2, <2>3, <2>4 DEF DataOK, RoomInv, Running
  <2> QED BY <2>5, <2>6, InvPartsPrime
<1> QED BY <1>1, <1>2

LEMMA WriteAllStepInv == Inv /\ WriteAllStep => Inv'
<1> SUFFICES ASSUME Inv, WriteAllStep PROVE Inv'
  OBVIOUS
<1>0. QueueOK /\ DataOK
  BY InvParts
<1>1. /\ pc = "write_all" /\ pc' \in {"write_all", "loop", "failed", "trapped"}
      /\ UNCHANGED <<arrived, taken, ended, tasks, state, cur, capacity, gone>>
      /\ \/ UNCHANGED <<out, room, chunk>>
         \/ /\ Len(chunk) <= room /\ room' = room - Len(chunk)
            /\ out' = out \o chunk /\ chunk' = Rest
  BY WriteAllTakes
<1>2. QueueOK'
  BY <1>0, <1>1 DEF QueueOK, QueueInv, Running
<1>3. out' \in Seq(Byte) /\ chunk' \in Seq(Byte) /\ room' \in 0..MaxRoom
  <2>1. /\ chunk \in Seq(Byte) /\ Len(chunk) \in Nat /\ Rest \in Seq(Byte)
        /\ out \o chunk \in Seq(Byte) /\ room \in 0..MaxRoom /\ MaxRoom \in Nat
    BY <1>0, Parts, ConcatProperties, MaxRoomAssumption DEF DataOK
  <2>2. out' \in Seq(Byte)
    BY <1>0, <1>1, <2>1 DEF DataOK
  <2>3. chunk' \in Seq(Byte)
    BY <1>1, <2>1
  <2>4. room' \in 0..MaxRoom
    BY <1>1, <2>1
  <2> QED BY <2>2, <2>3, <2>4
<1>4. DataOK'
  BY <1>0, <1>1, <1>3 DEF DataOK, RoomInv, Ended
<1> QED BY <1>2, <1>4, InvPartsPrime

LEMMA IdleInv == Inv /\ (LoopEnds \/ Stopped \/ UNCHANGED vars) => Inv'
<1> SUFFICES ASSUME Inv, LoopEnds \/ Stopped \/ UNCHANGED vars PROVE Inv'
  OBVIOUS
<1>0. QueueOK /\ DataOK
  BY InvParts
<1>1. /\ UNCHANGED <<inVars, outVars, taskVars, chunk>>
      /\ pc' = pc \/ pc' = "returned"
  BY DEF LoopEnds, Stopped, vars
<1>2. QueueOK'
  BY <1>0, <1>1 DEF QueueOK, QueueInv, taskVars, Running
<1>3. DataOK'
  BY <1>0, <1>1 DEF DataOK, RoomInv, inVars, outVars, taskVars, Ended
<1> QED BY <1>2, <1>3, InvPartsPrime

LEMMA StepInv == Inv /\ [Next]_vars => Inv'
BY ProgramInv, HostInv, SelectInv, PeekInv, CheckCapacityInv, ReadChunkInv, ReadEmptyInv,
   WriteInv, WriteAllStepInv, IdleInv DEF Next, Task

-----------------------------------------------------------------------------
(* What becomes of the bytes. *)

\* A sequence of bytes of source s, or without any.
LEMMA OfSourceAlone ==
  ASSUME NEW t \in Seq(Byte), NEW s
  PROVE  /\ (\A i \in 1..Len(t) : t[i][1] = s) => OfSource(t, s) = t
         /\ (\A i \in 1..Len(t) : t[i][1] # s) => OfSource(t, s) = <<>>
<1>1. <<>> \in Seq(Byte) /\ <<>> \o t = t /\ OfSource(<<>>, s) = <<>>
  BY ConcatEmptySeq, OfSourceEmpty
<1>2. /\ (\A i \in 1..Len(t) : t[i][1] = s) => OfSource(<<>> \o t, s) = OfSource(<<>>, s) \o t
      /\ (\A i \in 1..Len(t) : t[i][1] # s) => OfSource(<<>> \o t, s) = OfSource(<<>>, s)
  BY <1>1, OfSourceConcat
<1> QED BY <1>1, <1>2

\* Bytes with consecutive numbers.
LEMMA BytesOfElements ==
  ASSUME NEW s \in {0} \cup Sources, NEW i \in Nat \ {0}, NEW j \in Nat,
         i <= j + 1, j <= MaxBytes
  PROVE  /\ BytesOf(s, i, j) \in Seq(Byte) /\ Len(BytesOf(s, i, j)) = (j - i) + 1
         /\ \A k \in 1..((j - i) + 1) : BytesOf(s, i, j)[k] = <<s, (i + k) - 1>>
<1>1. BytesOf(s, i, j) \in Seq(Byte) /\ Len(BytesOf(s, i, j)) = (j - i) + 1
  BY BytesOfIsASeq
<1>2. \A k \in 1..((j - i) + 1) : BytesOf(s, i, j)[k] = <<s, (i + k) - 1>>
  BY DEF BytesOf
<1> QED BY <1>1, <1>2

LEMMA BytesFrom ==
  ASSUME NEW s \in Sources, NEW m \in Nat, NEW n \in Nat, m <= n, n <= MaxBytes
  PROVE  /\ BytesOf(s, m + 1, n) \in Seq(Byte) /\ Len(BytesOf(s, m + 1, n)) = n - m
         /\ \A k \in 1..(n - m) : BytesOf(s, m + 1, n)[k] = <<s, m + k>>
<1> DEFINE i == m + 1
<1>1. /\ s \in {0} \cup Sources /\ i \in Nat \ {0} /\ i <= n + 1
      /\ (n - i) + 1 = n - m /\ \A k \in 1..(n - m) : (i + k) - 1 = m + k
  OBVIOUS
<1> HIDE DEF i
<1>2. /\ BytesOf(s, i, n) \in Seq(Byte) /\ Len(BytesOf(s, i, n)) = (n - i) + 1
      /\ \A k \in 1..((n - i) + 1) : BytesOf(s, i, n)[k] = <<s, (i + k) - 1>>
  BY <1>1, BytesOfElements
<1>3. \A k \in 1..(n - m) : BytesOf(s, i, n)[k] = <<s, m + k>>
  BY <1>1, <1>2
<1> QED BY <1>1, <1>2, <1>3 DEF i

LEMMA BytesUpTo ==
  ASSUME NEW s \in Sources, NEW n \in Nat, n <= MaxBytes
  PROVE  /\ BytesOf(s, 1, n) \in Seq(Byte) /\ Len(BytesOf(s, 1, n)) = n
         /\ \A k \in 1..n : BytesOf(s, 1, n)[k] = <<s, k>>
<1> DEFINE m == 0
<1>1. m \in Nat /\ m <= n /\ m + 1 = 1 /\ n - m = n /\ \A k \in 1..n : m + k = k
  OBVIOUS
<1> HIDE DEF m
<1>2. /\ BytesOf(s, m + 1, n) \in Seq(Byte) /\ Len(BytesOf(s, m + 1, n)) = n - m
      /\ \A k \in 1..(n - m) : BytesOf(s, m + 1, n)[k] = <<s, m + k>>
  BY <1>1, BytesFrom
<1> QED BY <1>1, <1>2

LEMMA BytesOfJoin ==
  ASSUME NEW s \in Sources, NEW m \in Nat, NEW n \in Nat, m <= n, n <= MaxBytes
  PROVE  /\ BytesOf(s, 1, m) \o BytesOf(s, m + 1, n) = BytesOf(s, 1, n)
         /\ SubSeq(BytesOf(s, 1, n), 1, m) = BytesOf(s, 1, m)
         /\ n < MaxBytes => BytesOf(s, 1, n + 1) = Append(BytesOf(s, 1, n), <<s, n + 1>>)
<1> DEFINE a == BytesOf(s, 1, m)
           b == BytesOf(s, m + 1, n)
           c == BytesOf(s, 1, n)
           d == BytesOf(s, 1, n + 1)
<1>1. /\ a \in Seq(Byte) /\ Len(a) = m /\ \A k \in 1..m : a[k] = <<s, k>>
      /\ b \in Seq(Byte) /\ Len(b) = n - m /\ \A k \in 1..(n - m) : b[k] = <<s, m + k>>
      /\ c \in Seq(Byte) /\ Len(c) = n /\ \A k \in 1..n : c[k] = <<s, k>>
  <2>1. m <= MaxBytes /\ MaxBytes \in Nat
    BY MaxBytesAssumption
  <2>2. a \in Seq(Byte) /\ Len(a) = m /\ \A k \in 1..m : a[k] = <<s, k>>
    BY <2>1, BytesUpTo
  <2>3. b \in Seq(Byte) /\ Len(b) = n - m /\ \A k \in 1..(n - m) : b[k] = <<s, m + k>>
    BY <2>1, BytesFrom
  <2>4. c \in Seq(Byte) /\ Len(c) = n /\ \A k \in 1..n : c[k] = <<s, k>>
    BY <2>1, BytesUpTo
  <2> QED BY <2>2, <2>3, <2>4
<1>2. n < MaxBytes => d \in Seq(Byte) /\ Len(d) = n + 1 /\ \A k \in 1..(n + 1) : d[k] = <<s, k>>
  <2>1. n + 1 \in Nat /\ (n < MaxBytes => n + 1 <= MaxBytes)
    BY MaxBytesAssumption
  <2> QED BY <2>1, BytesUpTo
<1> HIDE DEF a, b, c, d
<1>3. a \o b = c
  <2>1. /\ a \o b \in Seq(Byte) /\ Len(a \o b) = Len(a) + Len(b)
        /\ \A k \in 1..(Len(a) + Len(b)) :
             (a \o b)[k] = IF k <= Len(a) THEN a[k] ELSE b[k - Len(a)]
    BY <1>1, ConcatProperties
  <2>0. Len(a) + Len(b) = n /\ Len(a) = m
    BY <1>1
  <2>2. Len(a \o b) = n
    BY <1>1, <2>1
  <2>3. ASSUME NEW k \in 1..n PROVE (a \o b)[k] = c[k]
    <3>1. CASE k <= m
      <4>1. k \in 1..m /\ (a \o b)[k] = a[k]
        BY <2>0, <2>1, <3>1
      <4> QED BY <1>1, <4>1
    <3>2. CASE k > m
      <4>1. k - m \in 1..(n - m) /\ m + (k - m) = k
        BY <3>2
      <4>2. (a \o b)[k] = b[k - m]
        BY <2>0, <2>1, <3>2
      <4> QED BY <1>1, <4>1, <4>2
    <3>3. k <= m \/ k > m
      OBVIOUS
    <3> HIDE DEF BytesOf
    <3> QED BY ONLY <3>1, <3>2, <3>3
  <2> QED BY <1>1, <2>1, <2>2, <2>3, SeqEqual
<1>4. SubSeq(c, 1, m) = a
  <2> DEFINE e == SubSeq(c, 1, m)
  <2>1. \A k \in 1..m : c[k] \in Byte /\ c[k] = <<s, k>>
    BY <1>1, ElementOfSeq
  <2>2. e \in Seq(Byte) /\ Len(e) = m /\ \A k \in 1..m : e[k] = c[k]
    BY <2>1, SubSeqProperties
  <2> HIDE DEF e
  <2>3. e = a
    BY <1>1, <2>1, <2>2, SeqEqual
  <2> QED BY <2>3 DEF e
<1>5. ASSUME n < MaxBytes PROVE d = Append(c, <<s, n + 1>>)
  <2> DEFINE e == Append(c, <<s, n + 1>>)
  <2>1. <<s, n + 1>> \in Byte
    BY <1>5, MaxBytesAssumption DEF Byte
  <2>2. /\ e \in Seq(Byte) /\ Len(e) = n + 1
        /\ \A k \in 1..n : e[k] = c[k]
        /\ e[n + 1] = <<s, n + 1>>
    BY <1>1, <2>1, AppendProperties
  <2> HIDE DEF e
  <2>3. \A k \in 1..(n + 1) : e[k] = d[k]
    <3> TAKE k \in 1..(n + 1)
    <3>1. CASE k \in 1..n
      BY <1>1, <1>2, <1>5, <2>2, <3>1
    <3>2. CASE k = n + 1
      BY <1>2, <1>5, <2>2, <3>2
    <3> QED BY <3>1, <3>2
  <2>4. e = d
    BY <1>2, <1>5, <2>2, <2>3, SeqEqual
  <2> QED BY <2>4 DEF e
<1> QED BY <1>3, <1>4, <1>5 DEF a, b, c, d

\* The task has something in hand only while it writes, and it is its own; a task
\* that runs is not done.
HandInv ==
  /\ pc \notin {"write", "write_all"} \cup Ended => chunk = <<>>
  /\ pc = "write" => \A i \in 1..Len(chunk) : chunk[i][1] = cur
  /\ pc = "write_all" => \A i \in 1..Len(chunk) : chunk[i][1] = 0
  /\ pc \in Running => state[cur] \notin {"none", "Done"}

\* The bytes of the appended bodies.
Copied == \A s \in Sources : Delivered(s) \o InHand(s) = BytesOf(s, 1, taken[s])

\* The invariant of the bytes, inductive together with Inv.
FlowInv == HandInv /\ Copied

\* Nothing is written or taken.
LEMMA FlowKept ==
  ASSUME FlowInv, UNCHANGED <<out, taken, chunk>>, HandInv'
  PROVE  FlowInv'
BY DEF FlowInv, Copied, Delivered, InHand

\* Whose bytes were written.
LEMMA DeliveredMore ==
  ASSUME Inv, NEW t \in Seq(Byte), out' = out \o t, NEW s \in Sources, NEW o,
         \A i \in 1..Len(t) : t[i][1] = o
  PROVE  Delivered(s)' = IF s = o THEN Delivered(s) \o t ELSE Delivered(s)
<1>1. out \in Seq(Byte)
  BY DEF Inv, TypeOK
<1>2. /\ (\A i \in 1..Len(t) : t[i][1] = s) => OfSource(out \o t, s) = OfSource(out, s) \o t
      /\ (\A i \in 1..Len(t) : t[i][1] # s) => OfSource(out \o t, s) = OfSource(out, s)
  BY <1>1, OfSourceConcat
<1> QED BY <1>2 DEF Delivered

\* The parts of a chunk come from where the chunk comes from.
LEMMA PartsOf ==
  ASSUME Inv, NEW o, \A i \in 1..Len(chunk) : chunk[i][1] = o
  PROVE  /\ \A i \in 1..Len(Piece) : Piece[i][1] = o
         /\ \A i \in 1..Len(Rest) : Rest[i][1] = o
<1> DEFINE n == BytesToWrite
<1>1. /\ Len(chunk) \in Nat /\ n \in 0..Len(chunk)
      /\ Len(Piece) = n /\ \A i \in 1..n : Piece[i] = chunk[i]
      /\ Len(Rest) = Len(chunk) - n /\ \A i \in 1..(Len(chunk) - n) : Rest[i] = chunk[n + i]
  BY Parts
<1> HIDE DEF n
<1>2. /\ \A i \in 1..n : i \in 1..Len(chunk)
      /\ \A i \in 1..(Len(chunk) - n) : n + i \in 1..Len(chunk)
  BY <1>1
<1> QED BY <1>1, <1>2

\* Nothing in hand, or nothing of source s.
LEMMA InHandOf ==
  ASSUME Inv, FlowInv, NEW s \in Sources
  PROVE  /\ (chunk = <<>> \/ pc = "write_all" \/ (pc = "write" /\ s # cur))
              => Delivered(s) = BytesOf(s, 1, taken[s])
         /\ pc = "write" /\ s = cur => Delivered(s) \o chunk = BytesOf(s, 1, taken[s])
         /\ Delivered(s) \in Seq(Byte)
<1>1. out \in Seq(Byte) /\ chunk \in Seq(Byte) /\ s # 0
  BY DEF Inv, TypeOK, Sources
<1>2. Delivered(s) \in Seq(Byte) /\ Delivered(s) \o <<>> = Delivered(s)
  BY <1>1, OfSourceType, ConcatEmptySeq DEF Delivered
<1>3. Delivered(s) \o InHand(s) = BytesOf(s, 1, taken[s])
  BY DEF FlowInv, Copied
<1>4. chunk = <<>> => InHand(s) = <<>>
  BY OfSourceEmpty DEF InHand
<1>5. pc = "write" /\ s = cur => InHand(s) = chunk
  BY <1>1, OfSourceAlone DEF InHand, FlowInv, HandInv
<1>6. (pc = "write_all" \/ (pc = "write" /\ s # cur)) => InHand(s) = <<>>
  BY <1>1, OfSourceAlone DEF InHand, FlowInv, HandInv
<1> QED BY <1>2, <1>3, <1>4, <1>5, <1>6

LEMMA InitFlow == Init => FlowInv
<1> SUFFICES ASSUME Init PROVE FlowInv
  OBVIOUS
<1>1. HandInv
  BY DEF Init, HandInv, Running
<1>2. ASSUME NEW s \in Sources PROVE Delivered(s) \o InHand(s) = BytesOf(s, 1, taken[s])
  <2>1. Delivered(s) = <<>> /\ InHand(s) = <<>> /\ taken[s] = 0
    BY OfSourceEmpty DEF Init, Delivered, InHand
  <2>2. BytesOf(s, 1, 0) = <<>>
    BY MaxBytesAssumption, BytesUpTo, EmptySeq
  <2> QED BY <2>1, <2>2
<1> QED BY <1>1, <1>2 DEF FlowInv, Copied

LEMMA ProgramFlow == Inv /\ FlowInv /\ Program => FlowInv'
<1> SUFFICES ASSUME Inv, FlowInv, Program PROVE FlowInv'
  OBVIOUS
<1>1. ASSUME NEW s \in Sources, AppendSource(s)
      PROVE  FlowInv'
  BY <1>1, FlowKept DEF AppendSource, FlowInv, HandInv, inVars, outVars, Running, Ended
<1>2. ASSUME NEW n \in 1..MaxBytes, WriteAll(n)
      PROVE  FlowInv'
  <2>1. LastSent \in Nat /\ MaxBytes \in Nat
    BY LastSentIsANumber, MaxBytesAssumption DEF Inv, TypeOK
  <2> DEFINE i == LastSent + 1
             j == LastSent + n
  <2>2. i \in Nat \ {0} /\ j \in Nat /\ i <= j + 1 /\ j <= MaxBytes /\ chunk' = BytesOf(0, i, j)
    BY <1>2, <2>1 DEF WriteAll
  <2> HIDE DEF i, j
  <2>3. chunk' \in Seq(Byte) /\ \A k \in 1..Len(chunk') : chunk'[k][1] = 0
    <3>1. /\ BytesOf(0, i, j) \in Seq(Byte) /\ Len(BytesOf(0, i, j)) = (j - i) + 1
          /\ \A k \in 1..((j - i) + 1) : BytesOf(0, i, j)[k] = <<0, (i + k) - 1>>
      <4> DEFINE z == 0
      <4>1. z \in {0} \cup Sources
        OBVIOUS
      <4> HIDE DEF z
      <4>2. /\ BytesOf(z, i, j) \in Seq(Byte) /\ Len(BytesOf(z, i, j)) = (j - i) + 1
            /\ \A k \in 1..((j - i) + 1) : BytesOf(z, i, j)[k] = <<z, (i + k) - 1>>
        BY <2>2, <4>1, BytesOfElements
      <4> QED BY <4>2 DEF z
    <3> QED BY <2>2, <3>1
  <2>4. pc = "loop" /\ pc' = "write_all" /\ UNCHANGED <<inVars, outVars, taskVars>>
    BY <1>2 DEF WriteAll
  <2>5. HandInv'
    BY <2>3, <2>4 DEF HandInv, Running, Ended
  <2>6. ASSUME NEW s \in Sources
        PROVE  (Delivered(s) \o InHand(s) = BytesOf(s, 1, taken[s]))'
    <3>1. chunk = <<>> /\ s # 0
      BY <2>4 DEF FlowInv, HandInv, Ended, Sources
    <3>2. Delivered(s) = BytesOf(s, 1, taken[s]) /\ Delivered(s) \in Seq(Byte)
      BY <3>1, InHandOf
    <3>3. OfSource(chunk', s) = <<>>
      BY <2>3, <3>1, OfSourceAlone
    <3>4. Delivered(s) \o <<>> = Delivered(s)
      BY <3>2, ConcatEmptySeq
    <3> QED BY <2>4, <3>2, <3>3, <3>4 DEF Delivered, InHand, inVars, outVars
  <2> QED BY <2>5, <2>6 DEF FlowInv, Copied
<1> QED BY <1>1, <1>2 DEF Program

LEMMA HostFlow == Inv /\ FlowInv /\ Host => FlowInv'
<1> SUFFICES ASSUME Inv, FlowInv, Host PROVE FlowInv'
  OBVIOUS
<1>1. UNCHANGED <<taskVars, chunk, pc, out, taken>>
  BY DEF Host, Arrive, EndSource, MakeRoom, ClientLeaves, inVars, outVars
<1>2. HandInv'
  BY <1>1 DEF FlowInv, HandInv, taskVars
<1> QED BY <1>1, <1>2, FlowKept

LEMMA SelectFlow == Inv /\ FlowInv /\ Select => FlowInv'
<1> SUFFICES ASSUME Inv, FlowInv, Select PROVE FlowInv'
  OBVIOUS
<1>1. PICK i \in DOMAIN tasks :
        cur' = tasks[i] /\ pc' = IF state[tasks[i]] = "BlockedOnOutgoing" THEN "capacity" ELSE "peek"
  BY DEF Select
<1>2. /\ UNCHANGED <<inVars, outVars, tasks, state, chunk>>
      /\ pc = "loop" /\ pc' \in {"capacity", "peek"}
  BY <1>1 DEF Select
<1>3. QueueOK /\ Range(tasks) \subseteq Sources /\ tasks[i] \in Range(tasks)
  BY InvQueueOK DEF Range
<1>4. state[tasks[i]] \in Blocked
  BY <1>2, <1>3 DEF QueueOK, QueueInv, Sources
<1>5. HandInv'
  BY <1>1, <1>2, <1>4 DEF FlowInv, HandInv, Running, Ended, Blocked
<1> QED BY <1>2, <1>5, FlowKept DEF inVars, outVars

\* Steps of a run that neither read nor write.
LEMMA RunFlow ==
  ASSUME Inv, FlowInv, Peek \/ CheckCapacity \/ ReadEmpty \/ (Write /\ gone)
  PROVE  FlowInv'
<1>1. pc \in Running /\ cur \in Sources
  BY InvQueueOK DEF Peek, CheckCapacity, ReadEmpty, Write, Running
<1>2. UNCHANGED <<inVars, outVars, chunk>>
  BY DEF Peek, CheckCapacity, ReadEmpty, Write
<1>3. /\ pc' \in {"loop", "trapped", "failed", "capacity", "read"}
      /\ pc' \in {"capacity", "read"} =>
           /\ chunk = <<>> /\ cur' = cur
           /\ \E st \in {"BlockedOnOutgoing", "Ready"} : state' = [state EXCEPT ![cur] = st]
      /\ pc' = "loop" => chunk = <<>>
  BY DEF Peek, CheckCapacity, ReadEmpty, Write, Requeue, Complete, Finished, Fails,
         FlowInv, HandInv, Ended
<1>4. state \in [Sources -> Blocked \cup {"none", "Ready", "Done"}]
  BY DEF Inv, TypeOK
<1>5. HandInv'
  BY <1>1, <1>2, <1>3, <1>4 DEF HandInv, Running, Ended
<1> QED BY <1>2, <1>5, FlowKept DEF inVars, outVars

LEMMA ReadChunkFlow == Inv /\ FlowInv /\ ReadChunk => FlowInv'
<1> SUFFICES ASSUME Inv, FlowInv, ReadChunk PROVE FlowInv'
  OBVIOUS
<1>1. PICK k \in 1..MaxBytes :
        /\ k <= Left(cur)
        /\ chunk' = BytesOf(cur, taken[cur] + 1, taken[cur] + k)
        /\ taken' = [taken EXCEPT ![cur] = @ + k]
  BY DEF ReadChunk, Take
<1>2. /\ pc = "read" /\ pc' = "write" /\ cur \in Sources /\ chunk = <<>>
      /\ state[cur] \notin {"none", "Done"}
      /\ UNCHANGED <<arrived, ended, outVars, taskVars>>
  BY InvQueueOK DEF ReadChunk, FlowInv, HandInv, Running, Ended
<1> DEFINE m == taken[cur]
           n == taken[cur] + k
<1>3. /\ m \in Nat /\ n \in Nat /\ m <= n /\ n <= MaxBytes
      /\ chunk' = BytesOf(cur, m + 1, n)
      /\ taken'[cur] = n /\ \A s \in Sources : s # cur => taken'[s] = taken[s]
  BY <1>1, <1>2, MaxBytesAssumption DEF Inv, TypeOK, Left
<1> HIDE DEF m, n
<1>4. chunk' \in Seq(Byte) /\ \A i \in 1..Len(chunk') : chunk'[i][1] = cur
  <2>1. /\ chunk' \in Seq(Byte) /\ Len(chunk') = n - m
        /\ \A i \in 1..(n - m) : chunk'[i] = <<cur, m + i>>
    BY <1>2, <1>3, BytesFrom
  <2> QED BY <2>1
<1>5. HandInv'
  BY <1>2, <1>4 DEF HandInv, Running, Ended, taskVars
<1>6. ASSUME NEW s \in Sources
      PROVE  (Delivered(s) \o InHand(s) = BytesOf(s, 1, taken[s]))'
  <2>1. Delivered(s)' = Delivered(s) /\ InHand(s)' = OfSource(chunk', s)
    BY <1>2 DEF Delivered, InHand, outVars
  <2>2. Delivered(s) = BytesOf(s, 1, taken[s]) /\ Delivered(s) \in Seq(Byte)
    BY <1>2, InHandOf
  <2>3. CASE s = cur
    <3>1. OfSource(chunk', s) = chunk'
      BY <1>4, <2>3, OfSourceAlone
    <3>2. BytesOf(cur, 1, m) \o BytesOf(cur, m + 1, n) = BytesOf(cur, 1, n)
      BY <1>2, <1>3, BytesOfJoin
    <3> QED BY <1>3, <2>1, <2>2, <2>3, <3>1, <3>2 DEF m
  <2>4. CASE s # cur
    <3>1. OfSource(chunk', s) = <<>>
      BY <1>4, <2>4, OfSourceAlone
    <3>2. Delivered(s) \o <<>> = Delivered(s)
      BY <2>2, ConcatEmptySeq
    <3> QED BY <1>3, <2>1, <2>2, <2>4, <3>1, <3>2
  <2> QED BY <2>3, <2>4
<1> QED BY <1>5, <1>6 DEF FlowInv, Copied

LEMMA WriteFlow == Inv /\ FlowInv /\ Write /\ ~gone => FlowInv'
<1> SUFFICES ASSUME Inv, FlowInv, Write, ~gone PROVE FlowInv'
  OBVIOUS
<1>1. /\ pc = "write" /\ pc' = IF Rest = <<>> THEN "recheck" ELSE "write"
      /\ out' = out \o Piece /\ chunk' = Rest /\ UNCHANGED <<taken, state, cur>>
  BY WriteTakes
<1>2. /\ \A i \in 1..Len(Piece) : Piece[i][1] = cur
      /\ \A i \in 1..Len(Rest) : Rest[i][1] = cur
      /\ Piece \in Seq(Byte) /\ Rest \in Seq(Byte) /\ Piece \o Rest = chunk
  BY <1>1, Parts, PartsOf DEF FlowInv, HandInv
<1>3. HandInv'
  BY <1>1, <1>2 DEF FlowInv, HandInv, Running, Ended
<1>4. ASSUME NEW s \in Sources
      PROVE  (Delivered(s) \o InHand(s) = BytesOf(s, 1, taken[s]))'
  <2>1. Delivered(s)' = IF s = cur THEN Delivered(s) \o Piece ELSE Delivered(s)
    BY <1>1, <1>2, DeliveredMore
  <2>2. InHand(s)' = IF s = cur THEN Rest ELSE <<>>
    BY <1>1, <1>2, OfSourceAlone DEF InHand
  <2>3. Delivered(s) \in Seq(Byte)
    BY InHandOf
  <2>4. CASE s = cur
    <3>1. Delivered(s) \o chunk = BytesOf(s, 1, taken[s])
      BY <1>1, <2>4, InHandOf
    <3>2. (Delivered(s) \o Piece) \o Rest = Delivered(s) \o (Piece \o Rest)
      BY <1>2, <2>3, BytesAssociative
    <3> QED BY <1>1, <1>2, <2>1, <2>2, <2>4, <3>1, <3>2
  <2>5. CASE s # cur
    <3>1. Delivered(s) = BytesOf(s, 1, taken[s]) /\ Delivered(s) \o <<>> = Delivered(s)
      BY <1>1, <2>3, <2>5, InHandOf, ConcatEmptySeq
    <3> QED BY <1>1, <2>1, <2>2, <2>5, <3>1
  <2> QED BY <2>4, <2>5
<1> QED BY <1>3, <1>4 DEF FlowInv, Copied

LEMMA WriteAllFlow == Inv /\ FlowInv /\ WriteAllStep => FlowInv'
<1> SUFFICES ASSUME Inv, FlowInv, WriteAllStep PROVE FlowInv'
  OBVIOUS
<1>1. /\ pc = "write_all" /\ UNCHANGED <<arrived, taken, ended, tasks, state, cur, capacity, gone>>
      /\ \A i \in 1..Len(chunk) : chunk[i][1] = 0
  BY WriteAllTakes DEF FlowInv, HandInv
<1>2. CASE /\ UNCHANGED <<out, room, chunk>>
           /\ pc' \in {"loop", "failed", "trapped"} /\ (pc' = "loop" => chunk = <<>>)
  <2>1. HandInv'
    BY <1>1, <1>2 DEF HandInv, Running, Ended
  <2> QED BY <1>1, <1>2, <2>1, FlowKept
<1>3. CASE pc' = "write_all" /\ out' = out \o chunk /\ chunk' = Rest
  <2>1. Rest \in Seq(Byte) /\ chunk \in Seq(Byte) /\ \A i \in 1..Len(Rest) : Rest[i][1] = 0
    BY <1>1, Parts, PartsOf
  <2>2. HandInv'
    BY <1>3, <2>1 DEF HandInv, Running, Ended
  <2>3. ASSUME NEW s \in Sources
        PROVE  (Delivered(s) \o InHand(s) = BytesOf(s, 1, taken[s]))'
    <3>1. s # 0
      BY DEF Sources
    <3>2. Delivered(s)' = Delivered(s)
      BY <1>1, <1>3, <2>1, <3>1, DeliveredMore
    <3>3. InHand(s)' = <<>>
      BY <1>3, <2>1, <3>1, OfSourceAlone DEF InHand
    <3>4. Delivered(s) = BytesOf(s, 1, taken[s]) /\ Delivered(s) \o <<>> = Delivered(s)
      BY <1>1, InHandOf, ConcatEmptySeq
    <3> QED BY <1>1, <3>2, <3>3, <3>4
  <2> QED BY <2>2, <2>3 DEF FlowInv, Copied
<1> QED BY <1>2, <1>3, WriteAllTakes

\* The loop ends.
LEMMA IdleFlow ==
  ASSUME Inv, FlowInv, LoopEnds \/ Stopped \/ UNCHANGED vars
  PROVE  FlowInv'
<1>1. CASE LoopEnds
  <2>1. HandInv'
    BY <1>1 DEF LoopEnds, HandInv, Running, Ended
  <2> QED BY <1>1, <2>1, FlowKept DEF LoopEnds, inVars, outVars
<1>2. CASE Stopped \/ UNCHANGED vars
  <2>1. UNCHANGED <<inVars, outVars, taskVars, chunk, pc>>
    BY <1>2 DEF Stopped, vars
  <2>2. HandInv'
    BY <2>1 DEF FlowInv, HandInv, taskVars
  <2> QED BY <2>1, <2>2, FlowKept DEF inVars, outVars
<1> QED BY <1>1, <1>2

LEMMA StepFlow == Inv /\ FlowInv /\ [Next]_vars => FlowInv'
BY ProgramFlow, HostFlow, SelectFlow, RunFlow, ReadChunkFlow, WriteFlow, WriteAllFlow, IdleFlow
   DEF Next, Task

-----------------------------------------------------------------------------
(* What write_all sends. *)

\* Bytes with consecutive numbers.
Consecutive(c) == \A i \in 1..Len(c) : c[i][2] = (c[1][2] + i) - 1

\* Inductive together with Inv and FlowInv: what is left to send is consecutive, so
\* a part of it that is sent again ends where the next turn goes on.
SentInv == NothingAppended => NoneSkipped(out \o chunk) /\ Consecutive(chunk)

LEMMA NoneSkippedConcat ==
  ASSUME NEW q \in Seq(Byte), NEW t \in Seq(Byte), NoneSkipped(q), Consecutive(t),
         t # <<>> => t[1][2] <= (IF q = <<>> THEN 0 ELSE q[Len(q)][2]) + 1
  PROVE  NoneSkipped(q \o t)
<1> DEFINE a == Len(q)
           b == Len(t)
           u == q \o t
<1>1. /\ a \in Nat /\ b \in Nat /\ u \in Seq(Byte) /\ Len(u) = a + b
      /\ \A i \in 1..(a + b) : u[i] = IF i <= a THEN q[i] ELSE t[i - a]
  BY ConcatProperties, LenProperties
<1>2. /\ q = <<>> <=> a = 0
      /\ t = <<>> <=> b = 0
  BY EmptySeq
<1>3. \A i \in 1..b : t[i] \in Byte /\ t[i][2] \in Nat
  BY ElementOfSeq, MaxBytesAssumption DEF Byte
<1>4. /\ \A i \in 1..a : q[i][2] <= (IF i = 1 THEN 0 ELSE q[i - 1][2]) + 1
      /\ \A i \in 1..b : t[i][2] = (t[1][2] + i) - 1
      /\ b # 0 => t[1][2] <= (IF a = 0 THEN 0 ELSE q[a][2]) + 1
  BY <1>2 DEF NoneSkipped, Consecutive
<1> HIDE DEF a, b, u
<1>5. ASSUME NEW i \in 1..(a + b)
      PROVE  u[i][2] <= (IF i = 1 THEN 0 ELSE u[i - 1][2]) + 1
  <2>1. CASE i <= a
    <3>1. u[i] = q[i] /\ (i # 1 => u[i - 1] = q[i - 1])
      BY <1>1, <2>1
    <3> QED BY <1>1, <1>4, <2>1, <3>1
  <2>2. CASE i = a + 1
    <3>1. b # 0 /\ u[i] = t[1]
      BY <1>1, <2>2
    <3>2. CASE a = 0
      BY <1>4, <2>2, <3>1, <3>2
    <3>3. CASE a # 0
      <4>1. i # 1 /\ u[i - 1] = q[a]
        BY <1>1, <2>2, <3>3
      <4> QED BY <1>4, <3>1, <3>3, <4>1
    <3> QED BY <3>2, <3>3
  <2>3. CASE i > a + 1
    <3> DEFINE j == i - a
    <3>1. j \in 1..b /\ j - 1 \in 1..b /\ i # 1 /\ u[i] = t[j] /\ u[i - 1] = t[j - 1]
      BY <1>1, <2>3
    <3> HIDE DEF j
    <3>2. t[j][2] = (t[1][2] + j) - 1
      BY <1>4, <3>1
    <3>3. t[j - 1][2] = (t[1][2] + (j - 1)) - 1
      <4> DEFINE l == j - 1
      <4>1. l \in 1..b
        BY <3>1
      <4> HIDE DEF l
      <4>2. t[l][2] = (t[1][2] + l) - 1
        BY <1>4, <4>1
      <4> QED BY <4>2 DEF l
    <3>4. t[1][2] \in Nat /\ j \in Nat
      BY <1>1, <1>3, <3>1
    <3>5. u[i][2] <= u[i - 1][2] + 1
      BY <3>1, <3>2, <3>3, <3>4
    <3> QED BY <3>1, <3>5
  <2> QED BY <1>1, <2>1, <2>2, <2>3
<1> QED BY <1>1, <1>5 DEF NoneSkipped, u

\* The rest of consecutive bytes is consecutive, and does not start too late.
LEMMA RestIsConsecutive ==
  ASSUME Inv, Consecutive(chunk)
  PROVE  /\ Consecutive(Rest)
         /\ Rest # <<>> => chunk # <<>> /\ Rest[1][2] <= chunk[Len(chunk)][2] + 1
<1> DEFINE n == BytesToWrite
           m == Len(chunk)
<1>1. /\ m \in Nat /\ n \in 0..m
      /\ Rest \in Seq(Byte) /\ Len(Rest) = m - n /\ \A i \in 1..(m - n) : Rest[i] = chunk[n + i]
  BY Parts
<1>2. \A i \in 1..m : chunk[i][2] = (chunk[1][2] + i) - 1 /\ chunk[i][2] \in Nat
  <2>1. \A i \in 1..m : chunk[i] \in Byte
    BY Parts, ElementOfSeq
  <2>2. \A b \in Byte : b[2] \in Nat
    BY MaxBytesAssumption DEF Byte
  <2> QED BY <2>1, <2>2 DEF Consecutive
<1>3. Rest # <<>> => m - n # 0
  BY <1>1, EmptySeq
<1> HIDE DEF n
<1>4. Consecutive(Rest)
  <2> SUFFICES ASSUME NEW i \in 1..(m - n) PROVE Rest[i][2] = (Rest[1][2] + i) - 1
    BY <1>1 DEF Consecutive
  <2>1. n + i \in 1..m /\ n + 1 \in 1..m /\ 1 \in 1..m /\ 1 \in 1..(m - n)
    BY <1>1
  <2>2. Rest[i] = chunk[n + i] /\ Rest[1] = chunk[n + 1]
    BY <1>1, <2>1
  <2>3. /\ chunk[n + i][2] = (chunk[1][2] + (n + i)) - 1
        /\ chunk[n + 1][2] = (chunk[1][2] + (n + 1)) - 1 /\ chunk[1][2] \in Nat
    BY <1>2, <2>1
  <2> QED BY <1>1, <2>2, <2>3
<1>5. ASSUME Rest # <<>> PROVE chunk # <<>> /\ Rest[1][2] <= chunk[m][2] + 1
  <2>1. n + 1 \in 1..m /\ m \in 1..m /\ 1 \in 1..m /\ Rest[1] = chunk[n + 1]
    BY <1>1, <1>3, <1>5
  <2>2. /\ chunk[n + 1][2] = (chunk[1][2] + (n + 1)) - 1
        /\ chunk[m][2] = (chunk[1][2] + m) - 1 /\ chunk[1][2] \in Nat
    BY <1>2, <2>1
  <2> QED BY <1>1, <2>1, <2>2
<1> QED BY <1>4, <1>5

\* A run of a task means that something is appended, and it stays so.
LEMMA RunIsAppended ==
  ASSUME Inv, FlowInv, Peek \/ CheckCapacity \/ ReadChunk \/ ReadEmpty \/ Write
  PROVE  ~NothingAppended'
<1>1. /\ cur \in Sources /\ state[cur] # "none"
      /\ state \in [Sources -> Blocked \cup {"none", "Ready", "Done"}]
  BY InvQueueOK DEF Peek, CheckCapacity, ReadChunk, ReadEmpty, Write, FlowInv, HandInv, Running,
     QueueOK
<1>2. \/ UNCHANGED state
      \/ \E st \in Blocked \cup {"Ready", "Done"} : state' = [state EXCEPT ![cur] = st]
  BY DEF Peek, CheckCapacity, ReadChunk, ReadEmpty, Write, Requeue, Complete, Fails, Blocked,
         taskVars
<1>3. state'[cur] # "none"
  BY <1>1, <1>2 DEF Blocked
<1> QED BY <1>1, <1>3 DEF NothingAppended

LEMMA SentKept ==
  ASSUME SentInv, UNCHANGED <<out, chunk, state>>
  PROVE  SentInv'
BY DEF SentInv, NothingAppended, NoneSkipped, Consecutive

LEMMA StepSent == Inv /\ FlowInv /\ SentInv /\ [Next]_vars => SentInv'
<1> SUFFICES ASSUME Inv, FlowInv, SentInv, [Next]_vars PROVE SentInv'
  OBVIOUS
<1>0. out \in Seq(Byte) /\ chunk \in Seq(Byte)
  BY DEF Inv, TypeOK
<1>1. ASSUME NEW s \in Sources, AppendSource(s)
      PROVE  SentInv'
  <2>1. state'[s] # "none"
    BY <1>1 DEF AppendSource, Inv, TypeOK
  <2> QED BY <2>1 DEF SentInv, NothingAppended
<1>2. ASSUME NEW n \in 1..MaxBytes, WriteAll(n)
      PROVE  SentInv'
  <2>1. /\ NothingAppended /\ chunk = <<>> /\ UNCHANGED <<out, state>>
        /\ LastSent + n <= MaxBytes /\ chunk' = BytesOf(0, LastSent + 1, LastSent + n)
    BY <1>2 DEF WriteAll, FlowInv, HandInv, outVars, taskVars, Ended
  <2>2. NoneSkipped(out)
    <3>1. out \o <<>> = out
      BY <1>0, ConcatEmptySeq
    <3> QED BY <2>1, <3>1 DEF SentInv
  <2>3. /\ LastSent \in Nat /\ MaxBytes \in Nat
        /\ LastSent = IF out = <<>> THEN 0 ELSE out[Len(out)][2]
    BY <1>0, LastSentIsANumber, MaxBytesAssumption
  <2> DEFINE i == LastSent + 1
             j == LastSent + n
             z == 0
  <2>4. /\ i \in Nat \ {0} /\ j \in Nat /\ i <= j + 1 /\ j <= MaxBytes
        /\ i = LastSent + 1 /\ (j - i) + 1 = n
    <3>1. n \in Nat /\ n >= 1 /\ LastSent \in Nat /\ LastSent + n <= MaxBytes
      BY <2>1, <2>3
    <3>2. ASSUME NEW l \in Nat
          PROVE  ((l + n) - (l + 1)) + 1 = n /\ l + 1 <= (l + n) + 1
      BY <3>1
    <3> QED BY <3>1, <3>2
  <2>5. z \in {0} \cup Sources /\ chunk' = BytesOf(z, i, j)
    BY <2>1
  <2> HIDE DEF i, j, z
  <2>6. /\ chunk' \in Seq(Byte) /\ Len(chunk') = n
        /\ \A k \in 1..n : chunk'[k] = <<z, (i + k) - 1>>
    <3>1. /\ BytesOf(z, i, j) \in Seq(Byte) /\ Len(BytesOf(z, i, j)) = (j - i) + 1
          /\ \A k \in 1..((j - i) + 1) : BytesOf(z, i, j)[k] = <<z, (i + k) - 1>>
      BY ONLY <2>4, <2>5, BytesOfElements
    <3> QED BY ONLY <2>4, <2>5, <3>1
  <2>7. (\A k \in 1..n : chunk'[k][2] = (i + k) - 1) /\ 1 \in 1..n
    BY <2>6
  <2>8. Consecutive(chunk') /\ chunk'[1][2] = LastSent + 1
    <3>1. chunk'[1][2] = i
      BY <2>4, <2>7
    <3> QED BY <2>4, <2>6, <2>7, <3>1 DEF Consecutive
  <2>9. NoneSkipped(out \o chunk')
    BY <1>0, <2>2, <2>3, <2>6, <2>8, NoneSkippedConcat
  <2> QED BY <2>1, <2>8, <2>9 DEF SentInv, NoneSkipped, Consecutive
<1>3. CASE Peek \/ CheckCapacity \/ ReadChunk \/ ReadEmpty \/ Write
  BY <1>3, RunIsAppended DEF SentInv
<1>4. CASE WriteAllStep
  <2>1. /\ UNCHANGED state
        /\ \/ UNCHANGED <<out, chunk>>
           \/ out' = out \o chunk /\ chunk' = Rest
    BY <1>4, WriteAllTakes
  <2>2. CASE NothingAppended /\ out' = out \o chunk /\ chunk' = Rest
    <3> DEFINE q == out \o chunk
    <3>1. NoneSkipped(q) /\ Consecutive(chunk)
      BY <2>2 DEF SentInv
    <3>2. /\ q \in Seq(Byte) /\ Len(q) = Len(out) + Len(chunk) /\ Len(out) \in Nat
          /\ Len(chunk) \in Nat /\ (chunk # <<>> => Len(chunk) # 0)
          /\ \A k \in 1..(Len(out) + Len(chunk)) :
               q[k] = IF k <= Len(out) THEN out[k] ELSE chunk[k - Len(out)]
      BY <1>0, ConcatProperties, LenProperties, EmptySeq
    <3> HIDE DEF q
    <3>3. chunk # <<>> => Len(q) # 0 /\ q[Len(q)] = chunk[Len(chunk)]
      BY <3>2
    <3>4. /\ Consecutive(Rest) /\ Rest \in Seq(Byte)
          /\ Rest # <<>> => chunk # <<>> /\ Rest[1][2] <= chunk[Len(chunk)][2] + 1
      BY <3>1, RestIsConsecutive, Parts
    <3>5. Rest # <<>> => Rest[1][2] <= (IF q = <<>> THEN 0 ELSE q[Len(q)][2]) + 1
      BY <3>2, <3>3, <3>4, EmptySeq
    <3>6. NoneSkipped(q \o Rest)
      BY <3>1, <3>2, <3>4, <3>5, NoneSkippedConcat
    <3> QED BY <2>2, <3>4, <3>6 DEF SentInv, NoneSkipped, Consecutive, q
  <2> QED BY <2>1, <2>2, SentKept DEF SentInv, NothingAppended
<1>5. CASE Host \/ Select \/ LoopEnds \/ Stopped \/ UNCHANGED vars
  <2>1. UNCHANGED <<out, chunk, state>>
    BY <1>5 DEF Host, Arrive, EndSource, MakeRoom, ClientLeaves, Select, LoopEnds, Stopped, vars,
       outVars, taskVars
  <2> QED BY <2>1, SentKept
<1> QED BY <1>1, <1>2, <1>3, <1>4, <1>5 DEF Next, Task, Program

LEMMA InitSent == Init => SentInv
<1> SUFFICES ASSUME Init PROVE SentInv
  OBVIOUS
<1>1. out = <<>> /\ chunk = <<>> /\ <<>> \o <<>> = <<>> /\ Len(<<>>) = 0
  BY DEF Init
<1> QED BY <1>1 DEF SentInv, NoneSkipped, Consecutive

-----------------------------------------------------------------------------
(* Every copy is a pipe: the state of BytePipe, and what its steps need. *)

PipeArrived == [s \in Sources |-> BytesOf(s, 1, arrived[s])]
PipeEnded == [s \in Sources |-> ended[s] = "closed"]
PipeTarget == [s \in Sources |-> Delivered(s)]
PipeStatus == [s \in Sources |->
                 IF state[s] = "Done" THEN "done"
                 ELSE IF pc \in {"failed", "trapped"} THEN "failed" ELSE "copying"]
PipeVars == <<PipeArrived, PipeEnded, PipeTarget, PipeStatus>>

LEMMA PipeStays ==
  ASSUME UNCHANGED PipeVars
  PROVE  UNCHANGED Pipes!vars
BY DEF Pipes!vars, PipeVars, PipeArrived, PipeEnded, PipeTarget, PipeStatus

LEMMA PipeSends ==
  ASSUME NEW s \in Sources, NEW b \in Byte, ~PipeEnded[s],
         PipeArrived' = [PipeArrived EXCEPT ![s] = Append(@, b)],
         UNCHANGED <<PipeEnded, PipeTarget, PipeStatus>>
  PROVE  Pipes!Next
<1>1. Pipes!Send(s, b)
  BY DEF Pipes!Send, PipeArrived, PipeEnded, PipeTarget, PipeStatus
<1> QED BY <1>1 DEF Pipes!Next

LEMMA PipeEnds ==
  ASSUME NEW s \in Sources, ~PipeEnded[s],
         PipeEnded' = [PipeEnded EXCEPT ![s] = TRUE],
         UNCHANGED <<PipeArrived, PipeTarget, PipeStatus>>
  PROVE  Pipes!Next
<1>1. Pipes!End(s)
  BY DEF Pipes!End, PipeArrived, PipeEnded, PipeTarget, PipeStatus
<1> QED BY <1>1 DEF Pipes!Next

LEMMA PipeCopies ==
  ASSUME NEW s \in Sources, NEW k \in 1..(Len(PipeArrived[s]) - Len(PipeTarget[s])),
         PipeStatus[s] = "copying",
         PipeTarget' = [PipeTarget EXCEPT ![s] = SubSeq(PipeArrived[s], 1, Len(@) + k)],
         UNCHANGED <<PipeArrived, PipeEnded, PipeStatus>>
  PROVE  Pipes!Next
<1>1. Pipes!Copy(s, k)
  BY DEF Pipes!Copy, PipeArrived, PipeEnded, PipeTarget, PipeStatus
<1> QED BY <1>1 DEF Pipes!Next, PipeArrived, PipeTarget

LEMMA PipeFinishes ==
  ASSUME NEW s \in Sources, PipeStatus[s] = "copying", PipeEnded[s],
         PipeTarget[s] = PipeArrived[s],
         PipeStatus' = [PipeStatus EXCEPT ![s] = "done"],
         UNCHANGED <<PipeArrived, PipeEnded, PipeTarget>>
  PROVE  Pipes!Next
<1>1. Pipes!Finish(s)
  BY DEF Pipes!Finish, PipeArrived, PipeEnded, PipeTarget, PipeStatus
<1> QED BY <1>1 DEF Pipes!Next

LEMMA PipeFails ==
  ASSUME PipeStatus' = [s \in Sources |-> IF PipeStatus[s] = "done" THEN "done" ELSE "failed"],
         UNCHANGED <<PipeArrived, PipeEnded, PipeTarget>>
  PROVE  Pipes!Next
<1>1. Pipes!Fail
  BY DEF Pipes!Fail, PipeArrived, PipeEnded, PipeTarget, PipeStatus
<1> QED BY <1>1 DEF Pipes!Next

\* No copy is done or fails.
LEMMA StatusKept ==
  ASSUME \A s \in Sources : state'[s] = "Done" <=> state[s] = "Done",
         pc' \in {"failed", "trapped"} <=> pc \in {"failed", "trapped"}
  PROVE  UNCHANGED PipeStatus
BY DEF PipeStatus

LEMMA BytesKept ==
  /\ UNCHANGED arrived => UNCHANGED PipeArrived
  /\ UNCHANGED ended => UNCHANGED PipeEnded
  /\ UNCHANGED out => UNCHANGED PipeTarget
BY DEF PipeArrived, PipeEnded, PipeTarget, Delivered

\* The step is one of BytePipe, or changes nothing of its state.
PipeStep == Pipes!Next \/ UNCHANGED Pipes!vars

LEMMA HostPipes == Inv /\ FlowInv /\ Host => PipeStep
<1> SUFFICES ASSUME Inv, FlowInv, Host PROVE PipeStep
  OBVIOUS
<1>1. UNCHANGED <<taskVars, chunk, pc, out, taken>>
  BY DEF Host, Arrive, EndSource, MakeRoom, ClientLeaves, inVars, outVars
<1>2. UNCHANGED PipeTarget /\ UNCHANGED PipeStatus
  <2>1. UNCHANGED PipeStatus
    BY <1>1, StatusKept DEF taskVars
  <2> QED BY <1>1, <2>1, BytesKept
<1>3. ASSUME NEW s \in Sources, Arrive(s)
      PROVE  Pipes!Next
  <2>1. /\ ended[s] = "open" /\ arrived[s] \in 0..MaxBytes /\ arrived[s] < MaxBytes
        /\ arrived' = [arrived EXCEPT ![s] = @ + 1] /\ UNCHANGED ended
        /\ arrived \in [Sources -> 0..MaxBytes] /\ MaxBytes \in Nat
    BY <1>3, MaxBytesAssumption DEF Arrive, Inv, TypeOK
  <2> DEFINE n == arrived[s]
             b == <<s, n + 1>>
  <2>2. n \in Nat /\ n < MaxBytes /\ n <= MaxBytes /\ b \in Byte
    BY <2>1 DEF Byte
  <2>3. BytesOf(s, 1, n + 1) = Append(BytesOf(s, 1, n), b)
    <3> HIDE DEF n
    <3>1. n <= n
      BY <2>2
    <3> QED BY <2>2, <3>1, BytesOfJoin
  <2>4. PipeArrived' = [PipeArrived EXCEPT ![s] = Append(@, b)]
    <3>1. arrived'[s] = n + 1 /\ \A t \in Sources : t # s => arrived'[t] = arrived[t]
      BY <2>1
    <3> HIDE DEF b
    <3> QED BY <2>3, <3>1 DEF PipeArrived
  <2>5. ~PipeEnded[s] /\ UNCHANGED PipeEnded
    BY <2>1 DEF PipeEnded
  <2> HIDE DEF b
  <2> QED BY <1>2, <2>2, <2>4, <2>5, PipeSends
<1>4. ASSUME NEW s \in Sources, EndSource(s, "closed")
      PROVE  Pipes!Next
  <2>1. /\ ended[s] = "open" /\ ended' = [ended EXCEPT ![s] = "closed"] /\ UNCHANGED arrived
        /\ ended \in [Sources -> {"open", "closed", "broken"}]
    BY <1>4 DEF EndSource, Inv, TypeOK
  <2>2. ~PipeEnded[s] /\ PipeEnded' = [PipeEnded EXCEPT ![s] = TRUE]
    BY <2>1 DEF PipeEnded
  <2> QED BY <1>2, <2>1, <2>2, BytesKept, PipeEnds
<1>5. ASSUME NEW s \in Sources, EndSource(s, "broken")
      PROVE  UNCHANGED PipeVars
  <2>1. /\ ended[s] = "open" /\ ended' = [ended EXCEPT ![s] = "broken"] /\ UNCHANGED arrived
        /\ ended \in [Sources -> {"open", "closed", "broken"}]
    BY <1>5 DEF EndSource, Inv, TypeOK
  <2>2. UNCHANGED PipeEnded
    BY <2>1 DEF PipeEnded
  <2> QED BY <1>2, <2>1, <2>2, BytesKept DEF PipeVars
<1>6. ASSUME (\E n \in 1..MaxRoom : MakeRoom(n)) \/ ClientLeaves
      PROVE  UNCHANGED PipeVars
  <2>1. UNCHANGED inVars
    BY <1>6 DEF MakeRoom, ClientLeaves
  <2> QED BY <1>2, <2>1, BytesKept DEF PipeVars, inVars
<1> QED BY <1>3, <1>4, <1>5, <1>6, PipeStays DEF Host, PipeStep

\* A task ends because its source was copied, or all fail.
LEMMA EndsPipes ==
  ASSUME Inv, FlowInv, pc \in Running, UNCHANGED <<inVars, out>>,
         \/ Complete /\ chunk = <<>> /\ Left(cur) = 0 /\ ended[cur] = "closed"
         \/ UNCHANGED state /\ pc' \in {"failed", "trapped"}
  PROVE  Pipes!Next
<1>1. UNCHANGED <<PipeArrived, PipeEnded, PipeTarget>>
  BY BytesKept DEF inVars
<1>2. pc \notin {"failed", "trapped"} /\ cur \in Sources
  BY InvQueueOK DEF Running
<1>3. CASE Complete /\ chunk = <<>> /\ Left(cur) = 0 /\ ended[cur] = "closed"
  <2>1. /\ state[cur] # "Done" /\ pc' = "loop" /\ state' = [state EXCEPT ![cur] = "Done"]
        /\ state \in [Sources -> Blocked \cup {"none", "Ready", "Done"}]
    BY <1>3 DEF FlowInv, HandInv, Inv, TypeOK, Complete, Finished
  <2>2. PipeStatus[cur] = "copying" /\ PipeStatus' = [PipeStatus EXCEPT ![cur] = "done"]
    BY <1>2, <2>1 DEF PipeStatus
  <2>3. PipeEnded[cur]
    BY <1>2, <1>3 DEF PipeEnded
  <2>4. taken[cur] = arrived[cur]
    BY <1>2, <1>3 DEF Left, Inv, TypeOK
  <2>5. PipeTarget[cur] = PipeArrived[cur]
    BY <1>2, <1>3, <2>4, InHandOf DEF PipeTarget, PipeArrived
  <2> QED BY <1>1, <1>2, <2>2, <2>3, <2>5, PipeFinishes
<1>4. CASE UNCHANGED state /\ pc' \in {"failed", "trapped"}
  <2>1. PipeStatus' = [s \in Sources |-> IF PipeStatus[s] = "done" THEN "done" ELSE "failed"]
    BY <1>4 DEF PipeStatus
  <2> QED BY <1>1, <2>1, PipeFails
<1> QED BY <1>3, <1>4

\* A task goes on or is queued again.
LEMMA GoesOnPipes ==
  ASSUME Inv, FlowInv, pc \in Running, UNCHANGED <<arrived, ended, out>>,
         pc' \notin {"failed", "trapped"},
         \/ UNCHANGED state
         \/ \E st \in Blocked \cup {"Ready"} : state' = [state EXCEPT ![cur] = st]
  PROVE  UNCHANGED Pipes!vars
<1>1. state[cur] # "Done" /\ pc \notin {"failed", "trapped"}
  BY DEF FlowInv, HandInv, Running
<1>2. state \in [Sources -> Blocked \cup {"none", "Ready", "Done"}]
  BY DEF Inv, TypeOK
<1>3. \A s \in Sources : state'[s] = "Done" <=> state[s] = "Done"
  BY <1>1, <1>2 DEF Blocked
<1>4. UNCHANGED PipeStatus
  BY <1>1, <1>3, StatusKept
<1> QED BY <1>4, BytesKept, PipeStays DEF PipeVars

LEMMA RunPipes ==
  ASSUME Inv, FlowInv, Peek \/ CheckCapacity \/ ReadChunk \/ ReadEmpty \/ (Write /\ gone)
  PROVE  PipeStep
<1>1. /\ pc \in Running /\ UNCHANGED <<arrived, ended, out>>
      /\ ~ReadChunk => UNCHANGED inVars
      /\ ReadEmpty \/ Peek => chunk = <<>>
  BY DEF Peek, CheckCapacity, ReadChunk, ReadEmpty, Write, Running, inVars, outVars,
         FlowInv, HandInv, Ended
<1>2. \/ Complete /\ chunk = <<>> /\ Left(cur) = 0 /\ ended[cur] = "closed" /\ UNCHANGED inVars
      \/ UNCHANGED <<inVars, state>> /\ pc' \in {"failed", "trapped"}
      \/ /\ pc' \notin {"failed", "trapped"}
         /\ \/ UNCHANGED state
            \/ \E st \in Blocked \cup {"Ready"} : state' = [state EXCEPT ![cur] = st]
  <2>1. CASE Peek
    BY <1>1, <2>1 DEF Peek, Blocked
  <2>2. CASE CheckCapacity
    BY <1>1, <2>2 DEF CheckCapacity, Fails, Requeue, Finished, Blocked
  <2>3. CASE ReadChunk
    BY <2>3 DEF ReadChunk, taskVars
  <2>4. CASE ReadEmpty
    BY <1>1, <2>4 DEF ReadEmpty, Fails, Requeue, Finished, Blocked
  <2>5. CASE Write /\ gone
    BY <1>1, <2>5 DEF Write, Fails
  <2> QED BY <2>1, <2>2, <2>3, <2>4, <2>5
<1> QED BY <1>1, <1>2, EndsPipes, GoesOnPipes DEF PipeStep

LEMMA WritePipes == Inv /\ FlowInv /\ Write /\ ~gone => PipeStep
<1> SUFFICES ASSUME Inv, FlowInv, Write, ~gone PROVE PipeStep
  OBVIOUS
<1>1. /\ out' = out \o Piece /\ pc = "write" /\ pc' \in {"recheck", "write"}
      /\ UNCHANGED <<arrived, ended, state, cur>> /\ cur \in Sources /\ state[cur] # "Done"
  <2>1. /\ out' = out \o Piece /\ pc = "write" /\ pc' \in {"recheck", "write"}
        /\ UNCHANGED <<arrived, ended, state, cur>>
    BY WriteTakes
  <2> QED BY <2>1, InvQueueOK DEF FlowInv, HandInv, Running
<1>2. UNCHANGED <<PipeArrived, PipeEnded, PipeStatus>>
  <2>1. UNCHANGED PipeStatus
    BY <1>1, StatusKept
  <2> QED BY <1>1, <2>1, BytesKept
<1>p. /\ Piece \in Seq(Byte) /\ Rest \in Seq(Byte) /\ Piece \o Rest = chunk
      /\ \A i \in 1..Len(Piece) : Piece[i][1] = cur
  BY <1>1, Parts, PartsOf DEF FlowInv, HandInv
<1> DEFINE a == arrived[cur]
           m == taken[cur]
           k == Len(Piece)
           d == Delivered(cur)
<1>3. a \in Nat /\ m \in Nat /\ m <= a /\ a <= MaxBytes /\ m <= MaxBytes
  BY <1>1, MaxBytesAssumption DEF Inv, TypeOK, RoomInv
<1>4. d \in Seq(Byte) /\ d \o chunk = BytesOf(cur, 1, m)
  BY <1>1, InHandOf
<1>5. \A s \in Sources : Delivered(s)' = IF s = cur THEN d \o Piece ELSE Delivered(s)
  BY <1>1, <1>p, DeliveredMore
<1>6. PipeArrived[cur] = BytesOf(cur, 1, a) /\ PipeTarget[cur] = d /\ PipeStatus[cur] = "copying"
  BY <1>1 DEF PipeArrived, PipeTarget, PipeStatus
<1>7. PipeTarget' = [PipeTarget EXCEPT ![cur] = d \o Piece]
  <2> HIDE DEF d
  <2> QED BY <1>1, <1>5 DEF PipeTarget
<1>8. /\ k \in Nat /\ Len(d) \in Nat /\ Len(d) + k <= m
      /\ Len(BytesOf(cur, 1, a)) = a
      /\ d \o Piece = SubSeq(BytesOf(cur, 1, m), 1, Len(d) + k)
  <2> HIDE DEF a, m, d, k
  <2> DEFINE e == d \o Piece
  <2>1. e \in Seq(Byte) /\ Len(e) = Len(d) + k /\ Len(d) \in Nat /\ k \in Nat
    BY <1>4, <1>p, ConcatProperties, LenProperties DEF k
  <2>2. d \o chunk = e \o Rest
    BY <1>4, <1>p, BytesAssociative
  <2> HIDE DEF e
  <2>3. /\ BytesOf(cur, 1, m) = e \o Rest /\ Len(e \o Rest) = Len(e) + Len(Rest)
        /\ Len(Rest) \in Nat
    BY <1>4, <1>p, <2>1, <2>2, ConcatProperties, LenProperties
  <2>4. Len(BytesOf(cur, 1, m)) = m /\ Len(BytesOf(cur, 1, a)) = a
    BY <1>1, <1>3, BytesUpTo
  <2>5. SubSeq(e \o Rest, 1, Len(e)) = e
    <3>1. CASE Len(e) = 0
      BY <2>1, <3>1, SubSeqEmpty, EmptySeq
    <3>2. CASE Len(e) # 0
      <4>1. 1 \in 1..Len(e) /\ Len(e) \in 1..Len(e)
        BY <2>1, <3>2
      <4> QED BY <1>p, <2>1, <4>1, SubSeqOfConcat1, SubSeqFull
    <3> QED BY <3>1, <3>2
  <2> QED BY <2>1, <2>3, <2>4, <2>5 DEF e
<1>9. d \o Piece = SubSeq(BytesOf(cur, 1, a), 1, Len(d) + k)
  <2> HIDE DEF a, m, d, k
  <2> DEFINE n == Len(d) + k
  <2>1. n \in Nat /\ n <= m /\ n <= a
    BY <1>3, <1>8
  <2> HIDE DEF n
  <2>2. SubSeq(BytesOf(cur, 1, a), 1, n) = BytesOf(cur, 1, n)
    BY <1>1, <1>3, <2>1, BytesOfJoin
  <2>3. SubSeq(BytesOf(cur, 1, m), 1, n) = BytesOf(cur, 1, n)
    BY <1>1, <1>3, <2>1, BytesOfJoin
  <2> QED BY <1>8, <2>2, <2>3 DEF n
<1>10. CASE k = 0
  <2>1. Piece = <<>>
    BY <1>p, <1>10, EmptySeq
  <2>2. d \o Piece = d
    BY <1>4, <2>1, ConcatEmptySeq
  <2>3. UNCHANGED PipeTarget
    <3> HIDE DEF d
    <3> QED BY <1>5, <2>2 DEF PipeTarget, d
  <2> QED BY <1>2, <2>3, PipeStays DEF PipeVars, PipeStep
<1>11. CASE k # 0
  <2>1. k \in 1..(Len(PipeArrived[cur]) - Len(PipeTarget[cur]))
    BY <1>3, <1>6, <1>8, <1>11
  <2>2. PipeTarget' = [PipeTarget EXCEPT ![cur] = SubSeq(PipeArrived[cur], 1, Len(@) + k)]
    <3> HIDE DEF d, k, a
    <3> QED BY <1>6, <1>7, <1>9
  <2> HIDE DEF k
  <2> QED BY <1>1, <1>2, <1>6, <2>1, <2>2, PipeCopies DEF PipeStep
<1> QED BY <1>10, <1>11

\* Nothing of an appended body moves.
LEMMA OtherPipes ==
  ASSUME Inv, FlowInv, Program \/ Select \/ WriteAllStep \/ LoopEnds \/ Stopped \/ UNCHANGED vars
  PROVE  PipeStep
<1>1. CASE Program \/ Select \/ LoopEnds \/ Stopped \/ UNCHANGED vars
  <2>1. UNCHANGED <<inVars, outVars>>
    BY <1>1 DEF Program, AppendSource, WriteAll, Select, LoopEnds, Stopped, vars
  <2>2. pc' \in {"failed", "trapped"} <=> pc \in {"failed", "trapped"}
    BY <1>1 DEF Program, AppendSource, WriteAll, Select, LoopEnds, Stopped, vars
  <2>3. \A s \in Sources : state'[s] = "Done" <=> state[s] = "Done"
    <3>1. state \in [Sources -> Blocked \cup {"none", "Ready", "Done"}]
      BY DEF Inv, TypeOK
    <3> QED BY <1>1, <3>1
          DEF Program, AppendSource, NextSource, WriteAll, Select, LoopEnds, Stopped, vars, taskVars
  <2>4. UNCHANGED PipeStatus
    BY <2>2, <2>3, StatusKept
  <2> QED BY <2>1, <2>4, BytesKept, PipeStays DEF PipeVars, PipeStep, inVars, outVars
<1>2. CASE WriteAllStep
  <2>1. /\ pc = "write_all" /\ UNCHANGED <<arrived, ended, state>>
        /\ \/ UNCHANGED out /\ pc' \in {"loop", "failed", "trapped"}
           \/ out' = out \o chunk /\ pc' = "write_all"
    BY <1>2, WriteAllTakes
  <2>2. UNCHANGED PipeTarget
    <3>1. chunk \in Seq(Byte) /\ (\A i \in 1..Len(chunk) : chunk[i][1] = 0) /\ 0 \notin Sources
      BY <2>1 DEF FlowInv, HandInv, Inv, TypeOK, Sources
    <3>2. out' = out \o chunk => \A s \in Sources : Delivered(s)' = Delivered(s)
      BY <3>1, DeliveredMore
    <3> QED BY <2>1, <3>2, BytesKept DEF PipeTarget
  <2>3. UNCHANGED <<PipeArrived, PipeEnded>>
    BY <2>1, BytesKept
  <2>4. CASE pc' \in {"failed", "trapped"}
    <3>1. PipeStatus' = [s \in Sources |-> IF PipeStatus[s] = "done" THEN "done" ELSE "failed"]
      BY <2>1, <2>4 DEF PipeStatus
    <3> QED BY <2>2, <2>3, <3>1, PipeFails DEF PipeStep
  <2>5. CASE pc' \notin {"failed", "trapped"}
    <3>1. UNCHANGED PipeStatus
      BY <2>1, <2>5, StatusKept
    <3> QED BY <2>2, <2>3, <3>1, PipeStays DEF PipeVars, PipeStep
  <2> QED BY <2>4, <2>5
<1> QED BY <1>1, <1>2

LEMMA StepPipes == Inv /\ FlowInv /\ [Next]_vars => [Pipes!Next]_(Pipes!vars)
<1>1. Inv /\ FlowInv /\ [Next]_vars => PipeStep
  BY HostPipes, RunPipes, WritePipes, OtherPipes DEF Next, Task
<1> QED BY <1>1 DEF PipeStep

LEMMA InitPipes == Init => Pipes!Init
<1> SUFFICES ASSUME Init PROVE Pipes!Init
  OBVIOUS
<1>1. \A s \in Sources : BytesOf(s, 1, arrived[s]) = <<>> /\ Delivered(s) = <<>>
  <2> TAKE s \in Sources
  <2>1. arrived[s] = 0 /\ Delivered(s) = <<>>
    BY OfSourceEmpty DEF Init, Delivered
  <2>2. BytesOf(s, 1, 0) = <<>>
    BY MaxBytesAssumption, BytesUpTo, EmptySeq
  <2> QED BY <2>1, <2>2
<1>2. \A s \in Sources : (ended[s] = "closed") = FALSE /\ state[s] # "Done"
  BY DEF Init
<1>3. pc \notin {"failed", "trapped"}
  BY DEF Init
<1> QED BY <1>1, <1>2, <1>3 DEF Pipes!Init

-----------------------------------------------------------------------------

\* The inductive invariant: who is in the queue, and that a permit that was
\* asked for lasts until it is used, for any number of bodies and any limits.
THEOREM BodyInvariance == Spec => []Inv
BY InitInv, StepInv, PTL DEF Spec

\* Every byte that was read is written once and in order, or is in the hand of the
\* task that read it, and write_all leaves none out: for any number of bodies, any
\* interleaving of their tasks and the host, and any permit, truncated or not.
THEOREM BytesStayIntact == Spec => []Intact
<1>1. Inv /\ FlowInv /\ SentInv => Intact
  BY DEF FlowInv, Copied, SentInv, Intact
<1>2. Init => Inv /\ FlowInv /\ SentInv
  BY InitInv, InitFlow, InitSent
<1>3. Inv /\ FlowInv /\ SentInv /\ [Next]_vars => Inv' /\ FlowInv' /\ SentInv'
  BY StepInv, StepFlow, StepSent
<1> QED BY <1>1, <1>2, <1>3, PTL DEF Spec

\* Each appended body is copied as BytePipe says, for any number of bodies: a copy
\* is done only when all that its sender sent was written, in order, and nothing is
\* written after a copy is done or has failed.
THEOREM CopiesArePipes == Spec => EveryCopyIsAPipe
<1>1. Init => Inv /\ FlowInv /\ Pipes!Init
  BY InitInv, InitFlow, InitPipes
<1>2. Inv /\ FlowInv /\ [Next]_vars => Inv' /\ FlowInv' /\ [Pipes!Next]_(Pipes!vars)
  BY StepInv, StepFlow, StepPipes
<1> QED BY <1>1, <1>2, PTL DEF Spec, EveryCopyIsAPipe, Pipes!Spec

\* Type correctness.
THEOREM BodyTypeCorrect == Spec => []TypeOK
<1>1. Inv => TypeOK
  BY DEF Inv
<1> QED BY <1>1, BodyInvariance, PTL

\* What a task read is written at once although the permit is read again, unless the
\* host has come to permit 2^32 bytes or more in between: nothing else makes the
\* loop around write go round again or spin, for any width of size_t.
THEOREM ShortWritesExplained == Spec => []ShortWritesAreTruncated
<1>1. Inv => ShortWritesAreTruncated
  <2> SUFFICES ASSUME Inv, pc = "write", BytesToWrite < Len(chunk), ~(room >= WordSize)
               PROVE  FALSE
    BY DEF ShortWritesAreTruncated
  <2>1. Len(chunk) <= room /\ room \in Nat /\ WordSize \in Nat \ {0} /\ room < WordSize
    BY MaxRoomAssumption, WordSizeAssumption DEF Inv, RoomInv, TypeOK
  <2>2. room % WordSize = room
    BY <2>1
  <2>3. BytesToWrite = Len(chunk) /\ Len(chunk) \in Nat
    BY <2>1, <2>2, Parts DEF BytesToWrite, Permitted
  <2> QED BY <2>3
<1> QED BY <1>1, BodyInvariance, PTL

\* Each task that the loop polls waits for a stream, so BodyAppendTask::id
\* never meets one that is ready or done.
THEOREM PolledAreBlocked == Spec => []PolledTasksAreBlocked
<1>1. Inv => PolledTasksAreBlocked
  <2> SUFFICES ASSUME Inv, pc = "loop", NEW i \in DOMAIN tasks
               PROVE  state[tasks[i]] \in Blocked
    BY DEF PolledTasksAreBlocked
  <2>1. tasks[i] \in Range(tasks) /\ tasks[i] \in Sources /\ cur = 0
    BY LenProperties, ElementOfSeq DEF Inv, TypeOK, QueueInv, Range
  <2>2. tasks[i] # cur
    BY <2>1 DEF Sources
  <2> QED BY <2>1, <2>2 DEF Inv, QueueInv
<1> QED BY <1>1, BodyInvariance, PTL

=============================================================================
