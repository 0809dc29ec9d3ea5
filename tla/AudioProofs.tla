---------------------------- MODULE AudioProofs -----------------------------
(***************************************************************************)
(* Proofs about module Audio, for any size of a packet and any bounds.     *)
(*                                                                         *)
(* Whether the worker finds a codec is a matter of the thread that starts  *)
(* and stops the sound and of the record thread: the worker has nothing to *)
(* encode before the codec exists.  The order of the samples is kept in    *)
(* three places one behind the other, the packet, the rest of the chunk    *)
(* and the buffer.  The buffer is a sequence of chunks of any length, so   *)
(* the lemmas about FlattenSeq come first; they are proved by induction,   *)
(* from the fact that the natural numbers are well-founded.                *)
(***************************************************************************)
EXTENDS Audio, WellFoundedInduction, SequenceTheorems, TLAPS

-----------------------------------------------------------------------------
(* Chunks and what they hold.                                              *)

\* A set of natural numbers that is not empty has a smallest element.
LEMMA Least ==
  ASSUME NEW S \in SUBSET Nat, S # {}
  PROVE  \E k \in S : \A m \in S : k <= m
<1> DEFINE R == OpToRel(<, Nat)
<1>1. \A m, n \in Nat : m < n => <<m, n>> \in R
    BY DEF OpToRel
<1>2. IsWellFoundedOn(R, Nat)
    BY NatLessThanWellFounded
<1> HIDE DEF R
<1>3. PICK k \in S : \A m \in S : ~ (<<m, k>> \in R)
    BY <1>2, WFMin
<1>4. \A m \in S : ~ (m < k)
    BY <1>1, <1>3
<1> QED BY <1>4

\* Induction over an interval, for a set.
LEMMA UpTo ==
  ASSUME NEW m \in Nat, NEW n \in Nat, NEW Good,
         m \in Good, \A i \in m..(n - 1) : i \in Good => i + 1 \in Good
  PROVE  m..n \subseteq Good
<1> DEFINE Bad == (m..n) \ Good
<1> SUFFICES ASSUME Bad # {} PROVE FALSE
    OBVIOUS
<1>1. Bad \in SUBSET Nat
    OBVIOUS
<1>2. \A i \in Bad : i \in m..n /\ i \notin Good
    OBVIOUS
<1>3. \A i \in m..n : i \notin Bad => i \in Good
    OBVIOUS
<1> HIDE DEF Bad
<1>4. PICK k \in Bad : \A i \in Bad : k <= i
    BY <1>1, Least
<1>5. k - 1 \in m..(n - 1) /\ k - 1 \in m..n
    BY <1>2
<1>6. k - 1 \notin Bad
  <2>1. k \in Nat /\ ~ (k <= k - 1)
    BY <1>1
  <2> QED BY <1>4, <2>1
<1>7. (k - 1) + 1 \in Good
    BY <1>3, <1>5, <1>6
<1> QED BY <1>7, <1>2, <1>1

\* The function that FlattenSeq defines: the concatenation of the first i chunks, for each i.
Sums(f, s, n) == f = [i \in 1..n |-> IF i = 1 THEN s[i] ELSE f[i - 1] \o s[i]]

\* The values of that function.
LEMMA SumsValues ==
  ASSUME NEW f, NEW s, NEW n \in Nat, Sums(f, s, n)
  PROVE  \A i \in 1..n : f[i] = IF i = 1 THEN s[i] ELSE f[i - 1] \o s[i]
BY DEF Sums

\* The values of that function, chunk after chunk.
Steps(f, s, n) ==
    /\ n # 0 => f[1] = s[1]
    /\ \A k \in 1..(n - 1) : f[k + 1] = f[k] \o s[k + 1]

\* The same without the case distinction.
LEMMA SumsSteps ==
  ASSUME NEW f, NEW s, NEW n \in Nat, Sums(f, s, n)
  PROVE  Steps(f, s, n)
<1>1. \A i \in 1..n : f[i] = IF i = 1 THEN s[i] ELSE f[i - 1] \o s[i]
    BY SumsValues
<1>2. n # 0 => 1 \in 1..n
    OBVIOUS
<1>3. ASSUME NEW k \in 1..(n - 1) PROVE f[k + 1] = f[k] \o s[k + 1]
  <2>1. k + 1 \in 1..n /\ k + 1 # 1 /\ (k + 1) - 1 = k
    OBVIOUS
  <2>2. f[k + 1] = f[(k + 1) - 1] \o s[k + 1]
    BY <1>1, <2>1
  <2> QED BY <2>1, <2>2
<1> QED BY <1>1, <1>2, <1>3 DEF Steps

\* The function exists, for every sequence of chunks.
LEMMA SumsExists ==
  ASSUME NEW T, NEW s \in Seq(Seq(T))
  PROVE  \E f : Sums(f, s, Len(s))
<1> DEFINE Good == {k \in 0..Len(s) : \E f : Sums(f, s, k)}
<1> Len(s) \in Nat
    OBVIOUS
<1>1. 0 \in Good
  <2>1. Sums(<<>>, s, 0)
    BY DEF Sums
  <2> QED BY <2>1
<1>2. ASSUME NEW k \in 0..(Len(s) - 1), k \in Good PROVE k + 1 \in Good
  <2>1. PICK f : Sums(f, s, k)
    BY <1>2
  <2> DEFINE g == [i \in 1..(k + 1) |-> IF i = 1 THEN s[i] ELSE f[i - 1] \o s[i]]
  <2>2. \A i \in 1..k : g[i] = f[i]
    BY <2>1, SumsValues
  <2>3. \A i \in 1..(k + 1) : g[i] = IF i = 1 THEN s[i] ELSE g[i - 1] \o s[i]
    <3> TAKE i \in 1..(k + 1)
    <3>1. i # 1 => i - 1 \in 1..k
      OBVIOUS
    <3> QED BY <3>1, <2>2
  <2>4. g = [i \in 1..(k + 1) |-> IF i = 1 THEN s[i] ELSE g[i - 1] \o s[i]]
    BY <2>3
  <2>5. Sums(g, s, k + 1)
    BY <2>4 DEF Sums
  <2> QED BY <2>5
<1> HIDE DEF Good
<1>3. 0..Len(s) \subseteq Good
    BY <1>1, <1>2, UpTo
<1>4. Len(s) \in Good
    BY <1>3
<1> QED BY <1>4 DEF Good

\* Partial concatenations of chunks of T are sequences of T.
LEMMA StepsType ==
  ASSUME NEW T, NEW s, NEW n \in Nat, NEW f, Steps(f, s, n), \A i \in 1..n : s[i] \in Seq(T)
  PROVE  \A i \in 1..n : f[i] \in Seq(T)
<1> DEFINE Good == {i \in 1..n : f[i] \in Seq(T)}
<1> SUFFICES ASSUME n # 0 PROVE 1..n \subseteq Good
    OBVIOUS
<1>1. 1 \in Good
    BY DEF Steps
<1>2. ASSUME NEW k \in 1..(n - 1), k \in Good PROVE k + 1 \in Good
  <2>1. f[k + 1] = f[k] \o s[k + 1]
    BY DEF Steps
  <2>2. k + 1 \in 1..n /\ f[k] \in Seq(T) /\ s[k + 1] \in Seq(T)
    BY <1>2
  <2>3. f[k + 1] \in Seq(T)
    BY <2>1, <2>2, ConcatProperties
  <2> QED BY <2>2, <2>3
<1> HIDE DEF Good
<1> QED BY <1>1, <1>2, UpTo

\* FlattenSeq is the last of the partial concatenations.
LEMMA FlattenIs ==
  ASSUME NEW T, NEW s \in Seq(Seq(T)), Len(s) # 0
  PROVE  \E f : /\ Steps(f, s, Len(s)) /\ FlattenSeq(s) = f[Len(s)]
                /\ \A i \in 1..Len(s) : f[i] \in Seq(T)
<1>1. \E f : Sums(f, s, Len(s))
    BY SumsExists
<1>2. PICK f : f = CHOOSE g : Sums(g, s, Len(s))
    OBVIOUS
<1>3. Sums(f, s, Len(s))
    BY <1>1, <1>2
<1>4. FlattenSeq(s) = f[Len(s)]
    BY <1>2 DEF FlattenSeq, Sums
<1>5. Steps(f, s, Len(s))
    BY <1>3, SumsSteps
<1>6. \A i \in 1..Len(s) : f[i] \in Seq(T)
  <2>1. PICK n \in Nat : n = Len(s)
    OBVIOUS
  <2>2. \A i \in 1..n : s[i] \in Seq(T)
    BY <2>1, ElementOfSeq
  <2>3. \A i \in 1..n : f[i] \in Seq(T)
    BY <1>5, <2>1, <2>2, StepsType
  <2> QED BY <2>1, <2>3
<1> QED BY <1>4, <1>5, <1>6

\* They depend only on the chunks they are made of.
LEMMA StepsSame ==
  ASSUME NEW s, NEW t, NEW f, NEW g, NEW n \in Nat, NEW m \in Nat, n <= m,
         Steps(f, s, n), Steps(g, t, m), \A i \in 1..n : t[i] = s[i]
  PROVE  \A i \in 1..n : g[i] = f[i]
<1> DEFINE Good == {i \in 1..n : g[i] = f[i]}
<1> SUFFICES ASSUME n # 0 PROVE 1..n \subseteq Good
    OBVIOUS
<1>1. 1 \in Good
    BY DEF Steps
<1>2. ASSUME NEW k \in 1..(n - 1), k \in Good PROVE k + 1 \in Good
  <2>1. k + 1 \in 1..n /\ k \in 1..(m - 1)
    OBVIOUS
  <2>2. f[k + 1] = f[k] \o s[k + 1]
    BY DEF Steps
  <2>3. g[k + 1] = g[k] \o t[k + 1]
    BY <2>1 DEF Steps
  <2>4. g[k + 1] = f[k + 1]
    BY <2>1, <2>2, <2>3, <1>2
  <2> QED BY <2>1, <2>4
<1> HIDE DEF Good
<1> QED BY <1>1, <1>2, UpTo

\* What FlattenSeq makes of the empty buffer, ...
LEMMA FlattenEmpty == FlattenSeq(<<>>) = <<>>
BY DEF FlattenSeq

\* ... of which type it is, ...
LEMMA FlattenType ==
  ASSUME NEW T, NEW s \in Seq(Seq(T))
  PROVE  FlattenSeq(s) \in Seq(T)
<1>1. CASE Len(s) = 0
  <2>1. s = <<>>
    BY <1>1, EmptySeq
  <2>2. FlattenSeq(s) = <<>>
    BY <2>1, FlattenEmpty
  <2> QED BY <2>2
<1>2. CASE Len(s) # 0
  <2>1. PICK f : FlattenSeq(s) = f[Len(s)] /\ \A i \in 1..Len(s) : f[i] \in Seq(T)
    BY <1>2, FlattenIs
  <2>2. Len(s) \in 1..Len(s)
    BY <1>2
  <2> QED BY <2>1, <2>2
<1> QED BY <1>1, <1>2

\* ... what a chunk at the end adds to it, as onAudioData does, ...
LEMMA FlattenAppend ==
  ASSUME NEW T, NEW s \in Seq(Seq(T)), NEW c \in Seq(T)
  PROVE  FlattenSeq(Append(s, c)) = FlattenSeq(s) \o c
<1>1. PICK t, n : t = Append(s, c) /\ n = Len(s)
    OBVIOUS
<1>2. /\ t \in Seq(Seq(T)) /\ Len(t) = n + 1 /\ t[n + 1] = c /\ n \in Nat
      /\ \A i \in 1..n : t[i] = s[i]
    BY <1>1, AppendProperties
<1>3. PICK g : Steps(g, t, n + 1) /\ FlattenSeq(t) = g[n + 1]
    BY <1>2, FlattenIs
<1>4. CASE n = 0
  <2>1. FlattenSeq(t) = c
    BY <1>2, <1>3, <1>4 DEF Steps
  <2>2. FlattenSeq(s) = <<>>
    BY <1>1, <1>4, EmptySeq, FlattenEmpty
  <2> QED BY <2>1, <2>2, <1>1, ConcatEmptySeq
<1>5. CASE n # 0
  <2>1. PICK f : Steps(f, s, n) /\ FlattenSeq(s) = f[n]
    BY <1>1, <1>5, FlattenIs
  <2>2. n \in 1..n /\ n \in 1..((n + 1) - 1)
    BY <1>2, <1>5
  <2>3. g[n] = f[n]
    <3>1. PICK m \in Nat : m = n + 1
      BY <1>2
    <3>2. Steps(g, t, m) /\ n <= m
      BY <1>2, <1>3, <3>1
    <3>3. n \in Nat /\ Steps(f, s, n) /\ \A i \in 1..n : t[i] = s[i]
      BY <1>2, <2>1
    <3>4. \A i \in 1..n : g[i] = f[i]
      BY <3>2, <3>3, StepsSame
    <3> QED BY <2>2, <3>4
  <2>4. g[n + 1] = g[n] \o t[n + 1]
    BY <1>3, <2>2 DEF Steps
  <2> QED BY <1>1, <1>2, <1>3, <2>1, <2>3, <2>4
<1> QED BY <1>4, <1>5

\* Concatenation, as an operator that the provers do not look into.
Cat(a, b) == a \o b

\* Concatenation is associative.
LEMMA CatAssociative ==
  ASSUME NEW T, NEW a \in Seq(T), NEW b \in Seq(T), NEW c \in Seq(T)
  PROVE  Cat(Cat(a, b), c) = Cat(a, Cat(b, c))
BY ConcatAssociative DEF Cat

\* ... and what the worker takes off its front.
LEMMA FlattenHead ==
  ASSUME NEW T, NEW s \in Seq(Seq(T)), s # <<>>
  PROVE  FlattenSeq(s) = Head(s) \o FlattenSeq(Tail(s))
<1>1. PICK t, n, h : t = Tail(s) /\ n = Len(t) /\ h = Head(s)
    OBVIOUS
<1>2. /\ t \in Seq(Seq(T)) /\ Len(s) = n + 1 /\ n \in Nat
      /\ s[1] = h /\ h \in Seq(T)
      /\ \A i \in 1..n : t[i] = s[i + 1]
    BY <1>1, HeadTailProperties
<1>3. PICK f : Steps(f, s, Len(s)) /\ FlattenSeq(s) = f[Len(s)]
  <2>1. Len(s) # 0
    BY <1>2
  <2> QED BY <2>1, FlattenIs
<1>4. /\ FlattenSeq(s) = f[n + 1] /\ f[1] = h
      /\ \A k \in 1..n : f[k + 1] = f[k] \o s[k + 1]
  <2>1. Len(s) # 0 /\ 1..(Len(s) - 1) = 1..n
    BY <1>2
  <2>2. f[1] = s[1] /\ \A k \in 1..(Len(s) - 1) : f[k + 1] = f[k] \o s[k + 1]
    BY <1>3, <2>1 DEF Steps
  <2> QED BY <1>2, <1>3, <2>1, <2>2
<1>5. CASE n = 0
  <2>1. FlattenSeq(s) = h
    BY <1>4, <1>5
  <2>2. FlattenSeq(t) = <<>>
    BY <1>1, <1>2, <1>5, EmptySeq, FlattenEmpty
  <2>3. h \o <<>> = h
    BY <1>2, ConcatEmptySeq
  <2> QED BY <2>1, <2>2, <2>3, <1>1
<1>6. CASE n # 0
  <2>1. PICK g : Steps(g, t, n) /\ FlattenSeq(t) = g[n] /\ \A i \in 1..n : g[i] \in Seq(T)
    BY <1>1, <1>2, <1>6, FlattenIs
  <2>2. \A i \in 1..n : t[i] \in Seq(T)
    BY <1>1, <1>2, ElementOfSeq
  <2> DEFINE Good == {i \in 1..n : f[i + 1] = h \o g[i]}
  <2>5. 1 \in Good
    <3>1. 1 \in 1..n /\ g[1] = t[1]
      BY <1>2, <1>6, <2>1 DEF Steps
    <3>2. f[1 + 1] = h \o g[1]
      BY <3>1, <1>2, <1>4
    <3> QED BY <3>1, <3>2
  <2>6. ASSUME NEW k \in 1..(n - 1), k \in Good PROVE k + 1 \in Good
    <3>1. k + 1 \in 1..n /\ k \in 1..n
      BY <1>2
    <3>2. f[(k + 1) + 1] = f[k + 1] \o s[(k + 1) + 1]
      BY <3>1, <1>4
    <3>3. g[k + 1] = g[k] \o t[k + 1]
      BY <2>1 DEF Steps
    <3>4. f[k + 1] = h \o g[k]
      BY <2>6
    <3>5. (h \o g[k]) \o t[k + 1] = h \o (g[k] \o t[k + 1])
      <4>1. h \in Seq(T) /\ g[k] \in Seq(T) /\ t[k + 1] \in Seq(T)
        BY <1>2, <2>1, <2>2, <3>1
      <4>2. Cat(Cat(h, g[k]), t[k + 1]) = Cat(h, Cat(g[k], t[k + 1]))
        BY <4>1, CatAssociative
      <4> QED BY <4>2 DEF Cat
    <3>6. t[k + 1] = s[(k + 1) + 1]
      BY <1>2, <3>1
    <3>7. f[(k + 1) + 1] = h \o g[k + 1]
      BY <3>2, <3>3, <3>4, <3>5, <3>6
    <3> QED BY <3>1, <3>7
  <2>7. \A i \in Good : f[i + 1] = h \o g[i]
    OBVIOUS
  <2> HIDE DEF Good
  <2>8. 1..n \subseteq Good
    BY <1>2, <2>5, <2>6, UpTo
  <2>9. n \in 1..n
    BY <1>2, <1>6
  <2>10. f[n + 1] = h \o g[n]
    BY <2>7, <2>8, <2>9
  <2> QED BY <2>1, <2>10, <1>1, <1>4
<1> QED BY <1>2, <1>5, <1>6
-----------------------------------------------------------------------------
(* Samples that follow one another.                                        *)

\* Follows, element by element.
LEMMA FollowsIs ==
  ASSUME NEW s \in Seq(Nat), NEW n \in Nat
  PROVE  Follows(s, n) <=> \A i \in 1..Len(s) : s[i] = n + i
BY DEF Follows

\* Nothing follows anything.
LEMMA FollowsEmpty == ASSUME NEW n \in Nat PROVE Follows(<<>>, n)
<1>1. PICK s \in Seq(Nat) : s = <<>>
    BY EmptySeq
<1>2. \A i \in 1..Len(s) : s[i] = n + i
    BY <1>1
<1>3. Follows(s, n)
    BY <1>2, FollowsIs
<1> QED BY <1>1, <1>3

\* A sequence that follows another one can be put behind it.
LEMMA FollowsConcat ==
  ASSUME NEW s \in Seq(Nat), NEW t \in Seq(Nat), NEW n \in Nat,
         Follows(s, n), Follows(t, n + Len(s))
  PROVE  Follows(s \o t, n)
<1>1. Len(s) \in Nat /\ Len(t) \in Nat /\ n + Len(s) \in Nat
    OBVIOUS
<1>2. \A i \in 1..Len(s) : s[i] = n + i
    BY FollowsIs
<1>3. \A i \in 1..Len(t) : t[i] = (n + Len(s)) + i
    BY <1>1, FollowsIs
<1>4. /\ s \o t \in Seq(Nat) /\ Len(s \o t) = Len(s) + Len(t)
      /\ \A i \in 1..(Len(s) + Len(t)) :
           (s \o t)[i] = IF i <= Len(s) THEN s[i] ELSE t[i - Len(s)]
    BY ConcatProperties
<1>5. \A i \in 1..(Len(s) + Len(t)) : (s \o t)[i] = n + i
    BY <1>1, <1>2, <1>3, <1>4
<1> QED BY <1>4, <1>5, FollowsIs

\* The two parts of a sequence that follows n.
LEMMA FollowsParts ==
  ASSUME NEW s \in Seq(Nat), NEW t \in Seq(Nat), NEW n \in Nat, Follows(s \o t, n)
  PROVE  Follows(s, n) /\ Follows(t, n + Len(s))
<1>1. Len(s) \in Nat /\ Len(t) \in Nat /\ n + Len(s) \in Nat
    OBVIOUS
<1>2. /\ s \o t \in Seq(Nat) /\ Len(s \o t) = Len(s) + Len(t)
      /\ \A i \in 1..(Len(s) + Len(t)) :
           (s \o t)[i] = IF i <= Len(s) THEN s[i] ELSE t[i - Len(s)]
    BY ConcatProperties
<1>3. \A i \in 1..(Len(s) + Len(t)) : (s \o t)[i] = n + i
    BY <1>2, FollowsIs
<1>4. ASSUME NEW i \in 1..Len(s) PROVE s[i] = n + i
  <2>1. i \in 1..(Len(s) + Len(t)) /\ i <= Len(s)
    BY <1>1
  <2> QED BY <1>2, <1>3, <2>1
<1>5. ASSUME NEW i \in 1..Len(t) PROVE t[i] = (n + Len(s)) + i
  <2>1. PICK j : j = Len(s) + i
    OBVIOUS
  <2>2. j \in 1..(Len(s) + Len(t)) /\ ~ (j <= Len(s)) /\ j - Len(s) = i
    BY <1>1, <2>1
  <2>3. (s \o t)[j] = t[i] /\ (s \o t)[j] = n + j
    BY <1>2, <1>3, <2>2
  <2> QED BY <1>1, <2>1, <2>3
<1> QED BY <1>1, <1>4, <1>5, FollowsIs

\* The samples that the record thread appends.
LEMMA FollowsChunk ==
  ASSUME NEW n \in Nat, NEW k \in Nat, NEW c, c = [i \in 1..k |-> n + i]
  PROVE  c \in Seq(Nat) /\ Len(c) = k /\ Follows(c, n)
<1>1. c \in Seq(Nat) /\ Len(c) = k /\ \A i \in 1..k : c[i] = n + i
    OBVIOUS
<1> QED BY <1>1, FollowsIs

\* A cut through a sequence leaves it the same.
LEMMA Cut ==
  ASSUME NEW s \in Seq(Nat), NEW n \in 0..Len(s)
  PROVE  LET p == SubSeq(s, 1, n)
             q == SubSeq(s, n + 1, Len(s))
         IN  /\ p \in Seq(Nat) /\ q \in Seq(Nat) /\ Len(p) = n /\ Len(q) = Len(s) - n
             /\ p \o q = s
<1> DEFINE p == SubSeq(s, 1, n)
           q == SubSeq(s, n + 1, Len(s))
<1>1. Len(s) \in Nat /\ n \in Nat /\ n + 1 \in Int /\ \A i \in 1..Len(s) : s[i] \in Nat
    BY ElementOfSeq
<1>2. p \in Seq(Nat) /\ Len(p) = n /\ \A i \in 1..n : p[i] = s[i]
    BY <1>1, SubSeqProperties
<1>3. q \in Seq(Nat) /\ Len(q) = Len(s) - n /\ \A i \in 1..(Len(s) - n) : q[i] = s[n + i]
    BY <1>1, SubSeqProperties
<1> HIDE DEF p, q
<1>4. /\ p \o q \in Seq(Nat) /\ Len(p \o q) = Len(p) + Len(q)
      /\ \A i \in 1..(Len(p) + Len(q)) :
           (p \o q)[i] = IF i <= Len(p) THEN p[i] ELSE q[i - Len(p)]
    BY <1>2, <1>3, ConcatProperties
<1>5. Len(p \o q) = Len(s)
    BY <1>1, <1>2, <1>3, <1>4
<1>6. ASSUME NEW i \in 1..Len(s) PROVE (p \o q)[i] = s[i]
  <2>1. CASE i <= n
    BY <2>1, <1>1, <1>2, <1>3, <1>4
  <2>2. CASE ~ (i <= n)
    <3>1. PICK j : j = i - n
      OBVIOUS
    <3>2. j \in 1..(Len(s) - n) /\ n + j = i
      BY <2>2, <3>1, <1>1
    <3>3. Len(p) = n /\ i \in 1..(Len(p) + Len(q)) /\ ~ (i <= Len(p))
      BY <2>2, <1>1, <1>2, <1>3
    <3>4. (p \o q)[i] = q[i - Len(p)]
      BY <3>3, <1>4
    <3>5. (p \o q)[i] = q[j]
      BY <3>1, <3>3, <3>4
    <3> QED BY <3>2, <3>5, <1>3
  <2> QED BY <2>1, <2>2
<1>7. p \o q = s
    BY <1>4, <1>5, <1>6, SeqEqual
<1> QED BY <1>2, <1>3, <1>7 DEF p, q
-----------------------------------------------------------------------------
(* The inductive invariant.                                                *)

\* The types of the variables that are not Boolean.
DataOK ==
    /\ ctl \in CtlPcs /\ recPc \in RecPcs /\ playPc \in PlayPcs /\ wPc \in WPcs
    /\ sessions \in 0..MaxSessions /\ recorded \in 0..MaxSamples /\ sent \in Nat
    /\ buffer \in Seq(Seq(Nat)) /\ curr \in Seq(Nat) /\ buf \in Seq(Nat)

FlagsOK == flagRun \in BOOLEAN /\ capFlag \in BOOLEAN /\ codec \in BOOLEAN /\ crashed \in BOOLEAN

\* The record thread lives from start() to the first join of stop(), and it makes the
\* codec before it reads: the codec is there from then on, until stop() frees it.
Threads ==
    /\ flagRun <=> ctl \in {"capture", "running", "joinRecord", "joinPlayback", "stopFlag"}
    /\ ctl \notin {"running", "joinRecord"} => recPc \in {"off", "exited"}
    /\ ctl \in {"running", "joinRecord"} => recPc # "off"
    /\ (ctl \in {"running", "joinRecord"} /\ recPc # "configure") => codec
    /\ ctl \in {"joinPlayback", "stopFlag"} => codec

\* A session begins with nothing recorded, and the worker has nothing to do until the
\* record thread has made the codec.
Fresh ==
    /\ ctl \in {"idle", "joinWorker", "capture", "free", "destroy", "gone"} => buffer = <<>>
    /\ ctl = "capture" \/ recPc = "configure" =>
         /\ buffer = <<>> /\ curr = <<>> /\ buf = <<>>
         /\ wPc \notin {"pop", "fill", "encode"}

\* What the worker has in hand where.
InHand ==
    /\ wPc \notin {"fill", "encode"} => curr = <<>>
    /\ wPc = "encode" => Len(buf) = FrameSize
    /\ wPc # "encode" => Len(buf) < FrameSize
    /\ wPc = "pop" => (buffer # <<>> \/ crashed)

\* The packet, the rest of the chunk and the buffer follow one another; the buffer only
\* until stop() has cleared it.
Order ==
    /\ Follows(buf, sent)
    /\ Follows(curr, sent + Len(buf))
    /\ sent + Len(buf) + Len(curr) <= recorded
    /\ flagRun \/ ctl \in {"notify", "clear"} =>
         /\ Follows(FlattenSeq(buffer), sent + Len(buf) + Len(curr))
         /\ sent + Len(buf) + Len(curr) + Len(FlattenSeq(buffer)) = recorded

IndInv == DataOK /\ FlagsOK /\ Threads /\ Fresh /\ InHand /\ Order

USE FrameSizeAssumption, BoundsAssumption
-----------------------------------------------------------------------------
(* Types and threads.                                                      *)

\* A step keeps the flags Boolean.
LEMMA FlagsStep == FlagsOK /\ [Next]_vars => FlagsOK'
<1> SUFFICES ASSUME FlagsOK, [Next]_vars PROVE FlagsOK'
    OBVIOUS
<1>1. CASE UNCHANGED vars
    BY <1>1 DEF FlagsOK, vars, ctlVars, dataVars
<1>2. CASE Caller
    BY <1>2 DEF FlagsOK, Caller, Start, StartWorker, StartCapture, StopCapture, JoinRecord, JoinPlayback,
       StopFlag, StopNotify, ClearBuffer, FreeCodec, Destruct, DestructJoin, ctlVars, dataVars
<1>3. CASE RecordThread
    BY <1>3 DEF FlagsOK, RecordThread, Configure, RecordLoop, RecordNothing, OnAudioData, ctlVars, dataVars
<1>4. CASE PlaybackEnds
    BY <1>4 DEF FlagsOK, PlaybackEnds, ctlVars, dataVars
<1>5. CASE Worker
    BY <1>5 DEF FlagsOK, Worker, WorkerLoop, WorkerLock, WorkerSleep, WorkerPop, WorkerFill, WorkerEncode,
       ctlVars, dataVars
<1>6. CASE SpuriousWake
    BY <1>6 DEF FlagsOK, SpuriousWake, ctlVars, dataVars
<1> QED BY <1>1, <1>2, <1>3, <1>4, <1>5, <1>6 DEF Next

Pcs == ctl \in CtlPcs /\ recPc \in RecPcs /\ playPc \in PlayPcs /\ wPc \in WPcs

\* Where the threads are, after a step.
LEMMA PcsStep == Pcs /\ [Next]_vars => Pcs'
<1> SUFFICES ASSUME Pcs, [Next]_vars PROVE Pcs'
    OBVIOUS
<1> USE DEF Pcs, CtlPcs, RecPcs, PlayPcs, WPcs
<1>1. CASE UNCHANGED vars
    BY <1>1 DEF vars, ctlVars, dataVars
<1>2. CASE Caller
    BY <1>2 DEF Caller, Start, StartWorker, StartCapture, StopCapture, JoinRecord, JoinPlayback,
       StopFlag, StopNotify, ClearBuffer, FreeCodec, Destruct, DestructJoin, ctlVars, dataVars
<1>3. CASE RecordThread
    BY <1>3 DEF RecordThread, Configure, RecordLoop, RecordNothing, OnAudioData, ctlVars, dataVars
<1>4. CASE PlaybackEnds
    BY <1>4 DEF PlaybackEnds, ctlVars, dataVars
<1>5. CASE Worker
    BY <1>5 DEF Worker, WorkerLoop, WorkerLock, WorkerSleep, WorkerPop, WorkerFill, WorkerEncode,
       ctlVars, dataVars
<1>6. CASE SpuriousWake
    BY <1>6 DEF SpuriousWake, ctlVars, dataVars
<1> QED BY <1>1, <1>2, <1>3, <1>4, <1>5, <1>6 DEF Next

\* The worker leaves the other threads, the flags and the codec alone.
LEMMA WorkerLeaves == Worker \/ SpuriousWake =>
    UNCHANGED <<ctl, sessions, flagRun, capFlag, recPc, playPc, codec, recorded>>
BY DEF Worker, WorkerLoop, WorkerLock, WorkerSleep, WorkerPop, WorkerFill, WorkerEncode, SpuriousWake,
   ctlVars, dataVars

\* The life of the record thread and of the codec, after a step.
LEMMA ThreadsStep == Pcs /\ Threads /\ [Next]_vars => Threads'
<1> SUFFICES ASSUME Pcs, Threads, [Next]_vars PROVE Threads'
    OBVIOUS
<1> USE DEF Pcs, Threads, CtlPcs, RecPcs
<1>1. CASE UNCHANGED vars
    BY <1>1 DEF vars, ctlVars, dataVars
<1>2. CASE Caller
    BY <1>2 DEF Caller, Start, StartWorker, StartCapture, StopCapture, JoinRecord, JoinPlayback,
       StopFlag, StopNotify, ClearBuffer, FreeCodec, Destruct, DestructJoin, ctlVars, dataVars
<1>3. CASE RecordThread
    BY <1>3 DEF RecordThread, Configure, RecordLoop, RecordNothing, OnAudioData, ctlVars, dataVars
<1>4. CASE PlaybackEnds
    BY <1>4 DEF PlaybackEnds, ctlVars, dataVars
<1>5. CASE Worker
    BY <1>5, WorkerLeaves
<1>6. CASE SpuriousWake
    BY <1>6, WorkerLeaves
<1> QED BY <1>1, <1>2, <1>3, <1>4, <1>5, <1>6 DEF Next

-----------------------------------------------------------------------------
(* The samples.  A step that moves none of them keeps their order.         *)

Still == UNCHANGED <<buffer, curr, buf, recorded, sent>>

\* The worker's condition in InHand is about where it is; a step of others may only wake
\* it up.
LEMMA StillOrder ==
  ASSUME Order, Still,
         (flagRun \/ ctl \in {"notify", "clear"})' => flagRun \/ ctl \in {"notify", "clear"}
  PROVE  Order'
BY DEF Order, Still, Follows

\* StartWorker begins with what has been recorded, and the buffer is empty.
LEMMA StartWorkerOrder ==
  ASSUME DataOK, Fresh, StartWorker
  PROVE  Order' /\ DataOK' /\ InHand' /\ Fresh'
<1>1. /\ buffer = <<>> /\ buffer' = <<>> /\ curr' = <<>> /\ buf' = <<>> /\ sent' = recorded
      /\ recorded' = recorded /\ ctl' = "capture" /\ wPc' = "loop" /\ recPc' = recPc
      /\ playPc' = playPc /\ sessions' = sessions
    BY DEF StartWorker, Fresh
<1>2. recorded \in Nat /\ Len(<<>>) = 0 /\ recorded + 0 = recorded
    BY DEF DataOK
<1>3. FlattenSeq(buffer') = <<>>
    BY <1>1, FlattenEmpty
<1>4. Follows(<<>>, recorded)
    BY <1>2, FollowsEmpty
<1>5. Order'
  <2>1. Follows(buf', sent')
    BY <1>1, <1>4
  <2>2. sent' + Len(buf') = recorded' /\ sent' + Len(buf') + Len(curr') = recorded'
    BY <1>1, <1>2
  <2>3. Follows(curr', sent' + Len(buf'))
    BY <1>1, <1>4, <2>2
  <2>4. Follows(FlattenSeq(buffer'), sent' + Len(buf') + Len(curr'))
    BY <1>1, <1>3, <1>4, <2>2
  <2>5. sent' + Len(buf') + Len(curr') + Len(FlattenSeq(buffer')) = recorded'
    BY <1>1, <1>2, <1>3, <2>2
  <2>6. sent' + Len(buf') + Len(curr') <= recorded'
    BY <1>1, <1>2, <2>2
  <2> QED BY <2>1, <2>3, <2>4, <2>5, <2>6 DEF Order, Follows
<1>6. DataOK'
    BY <1>1, <1>2 DEF DataOK, CtlPcs, WPcs
<1>7. InHand'
    BY <1>1, <1>2 DEF InHand
<1>8. Fresh'
    BY <1>1 DEF Fresh
<1> QED BY <1>5, <1>6, <1>7, <1>8

\* onAudioData puts what follows the last sample behind the buffer.
LEMMA AudioDataOrder ==
  ASSUME DataOK, Threads, Order, OnAudioData
  PROVE  Order' /\ buffer' \in Seq(Seq(Nat)) /\ recorded' \in 0..MaxSamples
<1>1. PICK n \in 0..MaxChunk :
        /\ recorded + n <= MaxSamples
        /\ buffer' = Append(buffer, [i \in 1..n |-> recorded + i])
        /\ recorded' = recorded + n
    BY DEF OnAudioData
<1>2. /\ curr' = curr /\ buf' = buf /\ sent' = sent /\ ctl' = ctl /\ flagRun' = flagRun /\ recPc = "read"
    BY DEF OnAudioData, ctlVars
<1>3. PICK c : c = [i \in 1..n |-> recorded + i]
    OBVIOUS
<1>4. PICK b : b = FlattenSeq(buffer)
    OBVIOUS
<1>5. PICK h : h = sent + Len(buf) + Len(curr)
    OBVIOUS
<1>6. recorded \in Nat /\ n \in Nat /\ h \in Nat /\ buffer \in Seq(Seq(Nat))
    BY <1>5 DEF DataOK
<1>7. c \in Seq(Nat) /\ Len(c) = n /\ Follows(c, recorded)
    BY <1>3, <1>6, FollowsChunk
<1>8. b \in Seq(Nat) /\ FlattenSeq(buffer') = b \o c /\ buffer' \in Seq(Seq(Nat))
    BY <1>1, <1>3, <1>4, <1>6, <1>7, FlattenType, FlattenAppend, AppendProperties
<1>9. flagRun
    BY <1>2 DEF Threads
<1>10. Follows(b, h) /\ h + Len(b) = recorded
    BY <1>4, <1>5, <1>9 DEF Order
<1>11. Follows(b \o c, h) /\ Len(b \o c) = Len(b) + Len(c)
    BY <1>6, <1>7, <1>8, <1>10, FollowsConcat, ConcatProperties
<1>12. recorded' \in 0..MaxSamples
    BY <1>1, <1>6
<1>13. Order'
  <2>1. Follows(buf', sent') /\ Follows(curr', sent' + Len(buf'))
    BY <1>2 DEF Order
  <2>2. h = sent' + Len(buf') + Len(curr') /\ Len(b) \in Nat
    BY <1>2, <1>5, <1>8
  <2>3. h <= recorded'
    BY <1>1, <1>6, <1>10, <2>2
  <2>4. h + Len(b \o c) = recorded'
    <3>1. Len(b \o c) = Len(b) + n
      BY <1>7, <1>11
    <3>2. PICK l \in Nat : l = Len(b)
      BY <2>2
    <3>3. h + l = recorded /\ h \in Nat /\ recorded \in Nat /\ n \in Nat
      BY <1>6, <1>10, <3>2
    <3>4. h + (l + n) = recorded + n
      BY <3>3
    <3> QED BY <1>1, <3>1, <3>2, <3>4
  <2>5. Follows(FlattenSeq(buffer'), h) /\ h + Len(FlattenSeq(buffer')) = recorded'
    BY <1>8, <1>11, <2>4
  <2> QED BY <2>1, <2>2, <2>3, <2>5 DEF Order, Follows
<1> QED BY <1>8, <1>12, <1>13

\* The worker takes the first chunk of the buffer, which has one.
LEMMA PopOrder ==
  ASSUME DataOK, Threads, Fresh, InHand, Order, ~crashed, WorkerPop
  PROVE  Order' /\ buffer' \in Seq(Seq(Nat)) /\ curr' \in Seq(Nat)
<1>1. /\ curr = <<>> /\ buffer # <<>> /\ curr' = Head(buffer) /\ buffer' = Tail(buffer)
      /\ buf' = buf /\ sent' = sent /\ recorded' = recorded /\ ctl' = ctl /\ flagRun' = flagRun
    BY DEF WorkerPop, InHand, ctlVars
<1>2. flagRun \/ ctl \in {"notify", "clear"}
    BY <1>1 DEF Fresh, Threads, DataOK, CtlPcs
<1>3. PICK t : t = FlattenSeq(buffer')
    OBVIOUS
<1>4. PICK h : h = sent + Len(buf)
    OBVIOUS
<1>5. /\ buffer \in Seq(Seq(Nat)) /\ h \in Nat /\ sent \in Nat /\ Len(curr) = 0 /\ recorded \in Nat
      /\ buf \in Seq(Nat)
    BY <1>1, <1>4 DEF DataOK
<1>6. buffer' \in Seq(Seq(Nat)) /\ curr' \in Seq(Nat)
    BY <1>1, <1>5, HeadTailProperties
<1>7. t \in Seq(Nat) /\ FlattenSeq(buffer) = curr' \o t
    BY <1>1, <1>3, <1>5, <1>6, FlattenType, FlattenHead
<1>8. h + Len(curr) = h /\ sent + Len(buf) + Len(curr) = h
    BY <1>4, <1>5
<1>9. Follows(curr' \o t, h) /\ h + Len(curr' \o t) = recorded /\ Follows(buf, sent)
    BY <1>2, <1>7, <1>8 DEF Order
<1>10. Follows(curr', h) /\ Follows(t, h + Len(curr'))
    BY <1>5, <1>6, <1>7, <1>9, FollowsParts
<1>11. Len(curr' \o t) = Len(curr') + Len(t) /\ Len(curr') \in Nat /\ Len(t) \in Nat
    BY <1>6, <1>7, ConcatProperties
<1>12. h + Len(curr') + Len(t) = recorded /\ h + Len(curr') <= recorded
    BY <1>5, <1>9, <1>11
<1>13. Order'
  <2>1. Follows(buf', sent') /\ Follows(curr', sent' + Len(buf'))
    BY <1>1, <1>4, <1>9, <1>10
  <2>2. h + Len(curr') = sent' + Len(buf') + Len(curr') /\ recorded' = recorded
    BY <1>1, <1>4
  <2>3. /\ Follows(FlattenSeq(buffer'), sent' + Len(buf') + Len(curr'))
        /\ sent' + Len(buf') + Len(curr') + Len(FlattenSeq(buffer')) = recorded'
        /\ sent' + Len(buf') + Len(curr') <= recorded'
    BY <1>3, <1>10, <1>12, <2>2
  <2> QED BY <2>1, <2>3 DEF Order, Follows
<1> QED BY <1>6, <1>13

\* The worker moves the front of the chunk to the end of the packet, which has room for it.
LEMMA FillOrder ==
  ASSUME DataOK, InHand, Order, WorkerFill
  PROVE  Order' /\ curr' \in Seq(Nat) /\ buf' \in Seq(Nat) /\ Len(buf') <= FrameSize
<1>1. PICK n : n = IF Len(curr) <= FrameSize - Len(buf) THEN Len(curr) ELSE FrameSize - Len(buf)
    OBVIOUS
<1>2. PICK p : p = SubSeq(curr, 1, n)
    OBVIOUS
<1>3. /\ curr' = SubSeq(curr, n + 1, Len(curr)) /\ buf' = buf \o p /\ sent' = sent
      /\ recorded' = recorded /\ buffer' = buffer /\ ctl' = ctl /\ flagRun' = flagRun
      /\ Len(buf) < FrameSize
    BY <1>1, <1>2 DEF WorkerFill, InHand, ctlVars
<1>4. curr \in Seq(Nat) /\ buf \in Seq(Nat) /\ Len(curr) \in Nat /\ Len(buf) \in Nat /\ sent \in Nat
    BY DEF DataOK
<1>5. n \in 0..Len(curr) /\ Len(buf) + n <= FrameSize
    BY <1>1, <1>3, <1>4
<1>6. /\ p \in Seq(Nat) /\ curr' \in Seq(Nat) /\ Len(p) = n /\ Len(curr') = Len(curr) - n
      /\ p \o curr' = curr
    BY <1>2, <1>3, <1>4, <1>5, Cut
<1>7. buf' \in Seq(Nat) /\ Len(buf') = Len(buf) + n
    BY <1>3, <1>4, <1>6, ConcatProperties
<1>8. PICK h : h = sent + Len(buf)
    OBVIOUS
<1>9. Follows(buf, sent) /\ Follows(p \o curr', h) /\ h \in Nat
    BY <1>4, <1>6, <1>8 DEF Order
<1>10. Follows(p, h) /\ Follows(curr', h + Len(p))
    BY <1>6, <1>9, FollowsParts
<1>11. Follows(buf \o p, sent)
    BY <1>4, <1>6, <1>8, <1>9, <1>10, FollowsConcat
<1>12. /\ sent' + Len(buf') = h + Len(p)
       /\ sent' + Len(buf') + Len(curr') = sent + Len(buf) + Len(curr)
  <2>1. PICK l \in Nat, k \in Nat : l = Len(buf) /\ k = Len(curr)
    BY <1>4
  <2>2. sent \in Nat /\ n \in Nat
    BY <1>4, <1>5
  <2>3. sent + (l + n) = (sent + l) + n /\ (sent + (l + n)) + (k - n) = (sent + l) + k
    BY <2>2
  <2>4. sent' + Len(buf') = sent + (l + n) /\ Len(curr') = k - n /\ h + Len(p) = (sent + l) + n
    BY <1>3, <1>6, <1>7, <1>8, <2>1
  <2> QED BY <2>1, <2>3, <2>4
<1>13. Order'
  <2>1. Follows(buf', sent') /\ Follows(curr', sent' + Len(buf'))
    BY <1>3, <1>10, <1>11, <1>12
  <2>2. sent' + Len(buf') + Len(curr') <= recorded'
    BY <1>3, <1>12 DEF Order
  <2>3. flagRun' \/ ctl' \in {"notify", "clear"} =>
          /\ Follows(FlattenSeq(buffer'), sent' + Len(buf') + Len(curr'))
          /\ sent' + Len(buf') + Len(curr') + Len(FlattenSeq(buffer')) = recorded'
    BY <1>3, <1>12 DEF Order
  <2> QED BY <2>1, <2>2, <2>3 DEF Order, Follows
<1>14. Len(buf') <= FrameSize
    BY <1>5, <1>7
<1> QED BY <1>6, <1>7, <1>13, <1>14

\* The worker sends a full packet: its last sample is the one before the rest of the chunk.
LEMMA EncodeOrder ==
  ASSUME DataOK, InHand, Order, WorkerEncode
  PROVE  Order' /\ buf' \in Seq(Nat) /\ sent' \in Nat
<1>1. /\ Len(buf) = FrameSize /\ sent' = buf[Len(buf)] /\ buf' = <<>> /\ curr' = curr
      /\ recorded' = recorded /\ buffer' = buffer /\ ctl' = ctl /\ flagRun' = flagRun
    BY DEF WorkerEncode, InHand, ctlVars
<1>2. curr \in Seq(Nat) /\ buf \in Seq(Nat) /\ Len(curr) \in Nat /\ Len(buf) \in Nat /\ sent \in Nat
    BY DEF DataOK
<1>3. \A i \in 1..Len(buf) : buf[i] = sent + i
    BY <1>2, FollowsIs DEF Order
<1>4. sent' = sent + Len(buf)
    BY <1>1, <1>2, <1>3
<1>5. sent' \in Nat /\ Len(buf') = 0 /\ sent' + Len(buf') = sent'
    BY <1>1, <1>2, <1>4
<1>6. /\ sent' + Len(buf') = sent + Len(buf)
      /\ sent' + Len(buf') + Len(curr') = sent + Len(buf) + Len(curr)
    BY <1>1, <1>4, <1>5
<1>7. Order'
  <2>1. Follows(buf', sent')
    BY <1>1, <1>5, FollowsEmpty
  <2>2. Follows(curr', sent' + Len(buf'))
    BY <1>1, <1>6 DEF Order
  <2>3. sent' + Len(buf') + Len(curr') <= recorded'
    BY <1>1, <1>6 DEF Order
  <2>4. flagRun' \/ ctl' \in {"notify", "clear"} =>
          /\ Follows(FlattenSeq(buffer'), sent' + Len(buf') + Len(curr'))
          /\ sent' + Len(buf') + Len(curr') + Len(FlattenSeq(buffer')) = recorded'
    BY <1>1, <1>6 DEF Order
  <2> QED BY <2>1, <2>2, <2>3, <2>4 DEF Order, Follows
<1>8. buf' \in Seq(Nat)
    BY <1>1
<1> QED BY <1>5, <1>7, <1>8

-----------------------------------------------------------------------------
(* The invariant, action by action.                                        *)

Rest == DataOK /\ Fresh /\ InHand /\ Order

\* The types, when no sample moves.
LEMMA StillData ==
  ASSUME DataOK, Pcs', Still, sessions' \in 0..MaxSessions
  PROVE  DataOK'
BY DEF DataOK, Pcs, Still

\* start(), stop() and the destructor.
LEMMA CallerStep == ASSUME IndInv, Pcs', Threads', ~crashed, Caller PROVE Rest'
<1> USE DEF IndInv, Rest
<1>1. CASE StartWorker
    BY <1>1, StartWorkerOrder
<1>2. CASE ClearBuffer
  <2>1. /\ buffer' = <<>> /\ UNCHANGED <<curr, buf, recorded, sent, sessions, recPc, wPc, flagRun>>
        /\ ctl' = "free" /\ ctl = "clear" /\ crashed' = (wPc = "pop")
    BY <1>2 DEF ClearBuffer
  <2>2. <<>> \in Seq(Seq(Nat))
    OBVIOUS
  <2>3. DataOK'
    BY <2>1, <2>2 DEF DataOK, Pcs
  <2>4. Fresh'
    BY <2>1 DEF Fresh, Threads
  <2>5. InHand'
    BY <2>1 DEF InHand
  <2>6. Order'
    BY <2>1 DEF Order, Threads, Follows
  <2> QED BY <2>3, <2>4, <2>5, <2>6
<1>3. CASE Start
  <2>1. Still /\ UNCHANGED <<wPc, recPc, flagRun, crashed>> /\ ctl = "idle" /\ ctl' = "joinWorker"
    BY <1>3 DEF Start, Still, dataVars
  <2>2. sessions' \in 0..MaxSessions
    BY <1>3 DEF Start, DataOK
  <2>3. DataOK' /\ Order'
    BY <2>1, <2>2, StillData, StillOrder
  <2>4. Fresh' /\ InHand'
    BY <2>1 DEF Fresh, InHand, Still
  <2> QED BY <2>3, <2>4
<1>4. CASE StopNotify
  <2>1. /\ Still /\ UNCHANGED <<recPc, flagRun, crashed, sessions>> /\ ctl = "notify" /\ ctl' = "clear"
        /\ wPc' = IF wPc = "wait" THEN "lock" ELSE wPc
    BY <1>4 DEF StopNotify, Still, dataVars
  <2>2. DataOK' /\ Order'
    BY <2>1, StillData, StillOrder DEF DataOK
  <2>3. Fresh' /\ InHand'
    BY <2>1 DEF Fresh, InHand, Still
  <2> QED BY <2>2, <2>3
<1>5. CASE StartCapture
  <2>1. /\ Still /\ UNCHANGED <<wPc, flagRun, crashed, sessions>> /\ ctl = "capture" /\ ctl' = "running"
        /\ recPc' = "configure"
    BY <1>5 DEF StartCapture, Still, dataVars
  <2>2. DataOK' /\ Order'
    BY <2>1, StillData, StillOrder DEF DataOK
  <2>3. Fresh' /\ InHand'
    BY <2>1 DEF Fresh, InHand, Still
  <2> QED BY <2>2, <2>3
<1>6. CASE StopFlag
  <2>1. /\ Still /\ UNCHANGED <<wPc, recPc, crashed, sessions>> /\ ctl = "stopFlag" /\ ctl' = "notify"
    BY <1>6 DEF StopFlag, Still, dataVars
  <2>2. DataOK' /\ Order'
    BY <2>1, StillData, StillOrder DEF DataOK, Threads
  <2>3. Fresh' /\ InHand'
    BY <2>1 DEF Fresh, InHand, Still
  <2> QED BY <2>2, <2>3
<1>7. CASE StopCapture \/ JoinRecord \/ JoinPlayback \/ FreeCodec \/ Destruct \/ DestructJoin
  <2>1. /\ Still /\ UNCHANGED <<wPc, recPc, flagRun, crashed, sessions>>
        /\ ctl' \notin {"capture", "notify", "clear", "joinWorker", "free"}
        /\ ctl' \in {"idle", "destroy", "gone"} => ctl \in {"free", "idle", "destroy"}
    BY <1>7 DEF StopCapture, JoinRecord, JoinPlayback, FreeCodec, Destruct, DestructJoin, Still, dataVars
  <2>2. DataOK' /\ Order'
    BY <2>1, StillData, StillOrder DEF DataOK
  <2>3. Fresh' /\ InHand'
    BY <2>1 DEF Fresh, InHand, Still
  <2> QED BY <2>2, <2>3
<1> QED BY <1>1, <1>2, <1>3, <1>4, <1>5, <1>6, <1>7 DEF Caller

\* The capture threads.
LEMMA RecordStep == ASSUME IndInv, Pcs', Threads', ~crashed, RecordThread \/ PlaybackEnds PROVE Rest'
<1> USE DEF IndInv, Rest
<1>1. CASE OnAudioData
  <2>1. Order' /\ buffer' \in Seq(Seq(Nat)) /\ recorded' \in 0..MaxSamples
    BY <1>1, AudioDataOrder
  <2>2. /\ UNCHANGED <<ctl, sessions, curr, buf, sent>> /\ recPc = "read" /\ recPc' = "loop"
        /\ wPc' = IF wPc = "wait" THEN "lock" ELSE wPc
        /\ wPc # "pop"
    BY <1>1 DEF OnAudioData, ctlVars, LockFree
  <2>3. DataOK'
    BY <2>1, <2>2 DEF DataOK, Pcs
  <2>4. Fresh'
    BY <2>2 DEF Fresh, Threads
  <2>5. InHand'
    BY <2>2 DEF InHand
  <2> QED BY <2>1, <2>3, <2>4, <2>5
<1>2. CASE Configure \/ RecordLoop \/ RecordNothing \/ PlaybackEnds
  <2>1. /\ Still /\ UNCHANGED <<ctl, wPc, flagRun, crashed, sessions>>
        /\ recPc' = recPc \/ recPc' # "configure"
    BY <1>2 DEF Configure, RecordLoop, RecordNothing, PlaybackEnds, Still, ctlVars, dataVars
  <2>2. DataOK' /\ Order'
    BY <2>1, StillData, StillOrder DEF DataOK
  <2>3. Fresh' /\ InHand'
    BY <2>1 DEF Fresh, InHand, Still
  <2> QED BY <2>2, <2>3
<1> QED BY <1>1, <1>2 DEF RecordThread

\* The worker.
LEMMA WorkerStep == ASSUME IndInv, Pcs', Threads', ~crashed, Worker \/ SpuriousWake PROVE Rest'
<1> USE DEF IndInv, Rest
<1>1. UNCHANGED <<ctl, sessions, flagRun, capFlag, recPc, playPc, codec, recorded>>
    BY WorkerLeaves
<1>2. CASE WorkerPop
  <2>1. Order' /\ buffer' \in Seq(Seq(Nat)) /\ curr' \in Seq(Nat)
    BY <1>2, PopOrder
  <2>2. wPc = "pop" /\ buffer # <<>> /\ wPc' = "fill" /\ UNCHANGED <<buf, sent>>
    BY <1>2 DEF WorkerPop, InHand
  <2>3. DataOK'
    BY <1>1, <2>1, <2>2 DEF DataOK, Pcs
  <2>4. Fresh'
    BY <1>1, <2>2 DEF Fresh
  <2>5. InHand'
    BY <2>2 DEF InHand
  <2> QED BY <2>1, <2>3, <2>4, <2>5
<1>3. CASE WorkerFill
  <2>1. Order' /\ curr' \in Seq(Nat) /\ buf' \in Seq(Nat) /\ Len(buf') <= FrameSize
    BY <1>3, FillOrder
  <2>2. /\ wPc = "fill" /\ UNCHANGED <<buffer, sent>>
        /\ wPc' = IF Len(buf') = FrameSize THEN "encode" ELSE IF curr' = <<>> THEN "loop" ELSE "fill"
    BY <1>3 DEF WorkerFill
  <2>3. DataOK'
    BY <1>1, <2>1, <2>2 DEF DataOK, Pcs
  <2>4. Fresh'
    BY <1>1, <2>2 DEF Fresh
  <2>5. InHand'
    <3>1. Len(buf') # FrameSize => Len(buf') < FrameSize
      BY <2>1
    <3> QED BY <2>2, <3>1 DEF InHand
  <2> QED BY <2>1, <2>3, <2>4, <2>5
<1>4. CASE WorkerEncode
  <2>1. Order' /\ buf' \in Seq(Nat) /\ sent' \in Nat
    BY <1>4, EncodeOrder
  <2>2. /\ wPc = "encode" /\ UNCHANGED <<buffer, curr>> /\ buf' = <<>>
        /\ wPc' = IF curr = <<>> THEN "loop" ELSE "fill"
    BY <1>4 DEF WorkerEncode
  <2>3. DataOK'
    BY <1>1, <2>1, <2>2 DEF DataOK, Pcs
  <2>4. Fresh'
    BY <1>1, <2>2 DEF Fresh
  <2>5. InHand'
    <3>1. Len(buf') < FrameSize
      BY <2>2
    <3> QED BY <2>2, <3>1 DEF InHand
  <2> QED BY <2>1, <2>3, <2>4, <2>5
<1>5. CASE WorkerLoop \/ WorkerLock \/ WorkerSleep \/ SpuriousWake
  <2>1. /\ Still /\ crashed' = crashed /\ wPc \notin {"fill", "encode", "pop"}
        /\ wPc' \notin {"fill", "encode"} /\ (wPc' = "pop" => buffer # <<>>)
    BY <1>5 DEF WorkerLoop, WorkerLock, WorkerSleep, SpuriousWake, Still, ctlVars, dataVars
  <2>2. DataOK' /\ Order'
    BY <1>1, <2>1, StillData, StillOrder DEF DataOK
  <2>3. InHand'
    BY <1>1, <2>1 DEF InHand, Still
  <2>4. Fresh'
    BY <1>1, <2>1 DEF Fresh, Still
  <2> QED BY <2>2, <2>3, <2>4
<1> QED BY <1>2, <1>3, <1>4, <1>5 DEF Worker

\* The invariant is inductive.
THEOREM Inductive == Spec => []IndInv
<1>1. Init => IndInv
  <2> SUFFICES ASSUME Init PROVE IndInv
    OBVIOUS
  <2>1. Follows(<<>>, 0) /\ FlattenSeq(<<>>) = <<>>
    BY FollowsEmpty, FlattenEmpty
  <2>2. DataOK /\ FlagsOK
    <3>1. <<>> \in Seq(Seq(Nat)) /\ <<>> \in Seq(Nat)
      OBVIOUS
    <3>2. buffer \in Seq(Seq(Nat)) /\ curr \in Seq(Nat) /\ buf \in Seq(Nat)
      BY <3>1 DEF Init
    <3>3. sessions \in 0..MaxSessions /\ recorded \in 0..MaxSamples /\ sent \in Nat
      BY DEF Init
    <3>4. Pcs /\ FlagsOK
      BY DEF Init, Pcs, FlagsOK, CtlPcs, RecPcs, PlayPcs, WPcs
    <3> QED BY <3>2, <3>3, <3>4 DEF DataOK, Pcs
  <2>3. Threads /\ Fresh /\ InHand
    BY DEF Init, Threads, Fresh, InHand
  <2>4. Order
    BY <2>1 DEF Init, Order
  <2> QED BY <2>2, <2>3, <2>4 DEF IndInv
<1>2. IndInv /\ [Next]_vars => IndInv'
  <2> SUFFICES ASSUME IndInv, [Next]_vars PROVE IndInv'
    OBVIOUS
  <2>1. Pcs
    BY DEF IndInv, DataOK, Pcs
  <2>2. FlagsOK' /\ Pcs' /\ Threads'
    BY <2>1, FlagsStep, PcsStep, ThreadsStep DEF IndInv
  <2>3. Rest'
    <3>1. CASE UNCHANGED vars
      BY <3>1 DEF IndInv, Rest, DataOK, Fresh, InHand, Order, Follows, vars, ctlVars, dataVars
    <3>2. CASE Next
      BY <3>2, <2>2, CallerStep, RecordStep, WorkerStep DEF Next
    <3> QED BY <3>1, <3>2
  <2> QED BY <2>2, <2>3 DEF IndInv, Rest
<1> QED BY <1>1, <1>2, PTL DEF Spec

\* Every variable has its type, and a packet never has more than FrameSize samples,
\* whatever the sizes of the chunks that the resampler gives.
THEOREM TypeCorrect == Spec => []TypeOK
<1>1. IndInv => TypeOK
  <2> SUFFICES ASSUME IndInv PROVE TypeOK
    OBVIOUS
  <2>1. Len(buf) \in Nat /\ Len(curr) \in Nat /\ sent \in Nat /\ recorded \in 0..MaxSamples
    BY DEF IndInv, DataOK
  <2>2. sent + Len(buf) + Len(curr) <= recorded
    BY DEF IndInv, Order
  <2>3. sent \in 0..MaxSamples
    BY <2>1, <2>2
  <2>4. Len(buf) <= FrameSize /\ (wPc = "encode" => Len(buf) = FrameSize)
    BY <2>1 DEF IndInv, InHand
  <2> QED BY <2>3, <2>4 DEF IndInv, DataOK, FlagsOK, TypeOK
<1> QED BY <1>1, Inductive, PTL

\* While AudioEncoder runs, its worker encodes with a codec, and the record thread resamples
\* with one.
THEOREM CodecCorrect == Spec => []CodecWhileRunning
<1>1. IndInv => CodecWhileRunning
    BY DEF IndInv, Threads, Fresh, DataOK, CtlPcs, RecPcs, CodecWhileRunning
<1> QED BY <1>1, Inductive, PTL

\* No sample of a session is lost, doubled or moved between the record thread and the
\* packets, for any size of a packet and any sizes of the chunks.
THEOREM SamplesCorrect == Spec => []SamplesInOrder
<1>1. IndInv => SamplesInOrder
  <2> SUFFICES ASSUME IndInv PROVE SamplesInOrder
    OBVIOUS
  <2>1. PICK h, b : h = buf \o curr /\ b = FlattenSeq(buffer)
    OBVIOUS
  <2>2. /\ buf \in Seq(Nat) /\ curr \in Seq(Nat) /\ buffer \in Seq(Seq(Nat)) /\ sent \in Nat
        /\ recorded \in Nat
    BY DEF IndInv, DataOK
  <2>3. h \in Seq(Nat) /\ Len(h) = Len(buf) + Len(curr) /\ b \in Seq(Nat)
    BY <2>1, <2>2, ConcatProperties, FlattenType
  <2>4. Follows(h, sent)
    BY <2>1, <2>2, FollowsConcat DEF IndInv, Order
  <2>5. ASSUME flagRun PROVE Follows(h \o b, sent) /\ Len(h \o b) = recorded - sent
    <3>1. /\ Follows(b, sent + Len(buf) + Len(curr))
          /\ sent + Len(buf) + Len(curr) + Len(b) = recorded
      BY <2>1, <2>5 DEF IndInv, Order
    <3>2. Len(buf) \in Nat /\ Len(curr) \in Nat /\ Len(b) \in Nat
      BY <2>2, <2>3
    <3>3. sent + Len(buf) + Len(curr) = sent + Len(h)
      BY <2>2, <2>3, <3>2
    <3>4. Follows(h \o b, sent) /\ Len(h \o b) = Len(h) + Len(b)
      <4>1. h \in Seq(Nat) /\ b \in Seq(Nat) /\ sent \in Nat
        BY <2>2, <2>3
      <4>2. Follows(b, sent + Len(h))
        BY <3>1, <3>3
      <4>3. Len(h \o b) = Len(h) + Len(b)
        BY <4>1, ConcatProperties
      <4> QED BY <2>4, <4>1, <4>2, <4>3, FollowsConcat
    <3>5. Len(h) + Len(b) = recorded - sent
      BY <2>2, <2>3, <3>1, <3>2, <3>3
    <3> QED BY <3>4, <3>5
  <2> QED BY <2>1, <2>4, <2>5 DEF SamplesInOrder
<1> QED BY <1>1, Inductive, PTL
-----------------------------------------------------------------------------
(* What SamplesSent rests on, and what ends the process.                   *)

\* A worker that sleeps, or has decided to, has nothing to do: no chunk is left, and while
\* the encoder runs fewer samples than a packet needs have been recorded since the last.
NothingHeldBack ==
    wPc \in {"block", "wait"} =>
        /\ buffer = <<>> /\ curr = <<>>
        /\ flagRun => recorded - sent < FrameSize

\* The part that the other invariants do not give.
WaitsEmpty == wPc \in {"block", "wait"} => buffer = <<>>

\* No notification is lost between onAudioData and the worker: the samples of a whole
\* packet never lie in the buffer behind a worker that sleeps.
THEOREM NothingHeldBackCorrect == Spec => []NothingHeldBack
<1>1. Init => WaitsEmpty
    BY DEF Init, WaitsEmpty
<1>2. WaitsEmpty /\ [Next]_vars => WaitsEmpty'
  <2> SUFFICES ASSUME WaitsEmpty, [Next]_vars PROVE WaitsEmpty'
    OBVIOUS
  <2> USE DEF WaitsEmpty
  <2>1. CASE UNCHANGED vars
    BY <2>1 DEF vars, dataVars
  <2>2. CASE Caller
    BY <2>2 DEF Caller, Start, StartWorker, StartCapture, StopCapture, JoinRecord, JoinPlayback,
       StopFlag, StopNotify, ClearBuffer, FreeCodec, Destruct, DestructJoin, dataVars
  <2>3. CASE RecordThread \/ PlaybackEnds
    BY <2>3 DEF RecordThread, Configure, RecordLoop, RecordNothing, OnAudioData, PlaybackEnds,
       LockFree, dataVars
  <2>4. CASE Worker \/ SpuriousWake
    BY <2>4 DEF Worker, WorkerLoop, WorkerLock, WorkerSleep, WorkerPop, WorkerFill, WorkerEncode,
       SpuriousWake, dataVars
  <2> QED BY <2>1, <2>2, <2>3, <2>4 DEF Next
<1>3. IndInv /\ WaitsEmpty => NothingHeldBack
  <2> SUFFICES ASSUME IndInv, WaitsEmpty, wPc \in {"block", "wait"}
               PROVE  /\ buffer = <<>> /\ curr = <<>>
                      /\ flagRun => recorded - sent < FrameSize
    BY DEF NothingHeldBack
  <2>1. buffer = <<>> /\ curr = <<>> /\ Len(buf) < FrameSize
    BY DEF WaitsEmpty, IndInv, InHand
  <2>2. flagRun => sent + Len(buf) + Len(curr) + Len(FlattenSeq(buffer)) = recorded
    BY DEF IndInv, Order
  <2>3. Len(curr) = 0 /\ Len(FlattenSeq(buffer)) = 0
    BY <2>1, FlattenEmpty
  <2>4. sent \in Nat /\ Len(buf) \in Nat
    BY DEF IndInv, DataOK
  <2> QED BY <2>1, <2>2, <2>3, <2>4
<1> QED BY <1>1, <1>2, <1>3, Inductive, PTL DEF Spec

\* Only a stop() can end the process: while the encoder runs nobody uses a codec that is
\* not there, and nobody clears the buffer under the worker.
CrashesOnlyInStop == crashed => ~flagRun

\* The unlocked stop() is the only way in which AudioEncoder ends the process.
THEOREM CrashCorrect == Spec => []CrashesOnlyInStop
<1>1. Init => CrashesOnlyInStop
    BY DEF Init, CrashesOnlyInStop
<1>2. IndInv /\ CrashesOnlyInStop /\ [Next]_vars => CrashesOnlyInStop'
  <2> SUFFICES ASSUME IndInv, CrashesOnlyInStop, [Next]_vars PROVE CrashesOnlyInStop'
    OBVIOUS
  <2> USE DEF CrashesOnlyInStop
  <2>1. CASE UNCHANGED vars
    BY <2>1 DEF vars, ctlVars
  <2>2. ASSUME Next, UNCHANGED crashed PROVE CrashesOnlyInStop'
    BY <2>2 DEF Next
  <2>3. CASE ClearBuffer
    BY <2>3 DEF ClearBuffer, IndInv, Threads
  <2>4. CASE OnAudioData
    <3>1. codec
      BY <2>4 DEF OnAudioData, IndInv, Threads, DataOK, CtlPcs
    <3> QED BY <2>4, <3>1 DEF OnAudioData
  <2>5. CASE WorkerEncode
    <3>1. flagRun => codec
      BY <2>5 DEF WorkerEncode, IndInv, Threads, Fresh, DataOK, CtlPcs, RecPcs
    <3>2. flagRun' = flagRun /\ crashed' = ~codec
      BY <2>5 DEF WorkerEncode, ctlVars
    <3> QED BY <3>1, <3>2
  <2>6. ASSUME Caller, ~ClearBuffer PROVE UNCHANGED crashed
    BY <2>6 DEF Caller, Start, StartWorker, StartCapture, StopCapture, JoinRecord, JoinPlayback,
       StopFlag, StopNotify, FreeCodec, Destruct, DestructJoin
  <2>7. ASSUME RecordThread \/ PlaybackEnds, ~OnAudioData PROVE UNCHANGED crashed
    BY <2>7 DEF RecordThread, Configure, RecordLoop, RecordNothing, PlaybackEnds
  <2>8. ASSUME Worker \/ SpuriousWake, ~WorkerEncode PROVE UNCHANGED crashed
    BY <2>8 DEF Worker, WorkerLoop, WorkerLock, WorkerSleep, WorkerPop, WorkerFill, SpuriousWake
  <2> QED BY <2>1, <2>2, <2>3, <2>4, <2>5, <2>6, <2>7, <2>8 DEF Next
<1> QED BY <1>1, <1>2, Inductive, PTL DEF Spec
=============================================================================
