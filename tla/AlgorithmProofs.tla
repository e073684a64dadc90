-------------------------- MODULE AlgorithmProofs --------------------------
(***************************************************************************)
(* Theorems about the pure algorithms: what a search returns                *)
(* (Retrieval), of any ids, limits, documents and hits, and what the edit  *)
(* distance and the matching with a template compute (Similarity), of any  *)
(* lists of section types of any length.                                   *)
(***************************************************************************)
EXTENDS Retrieval, Similarity, TLAPS, FiniteSetTheorems, SequenceTheorems

-----------------------------------------------------------------------------
(* Induction.  The induction theorems of the library take a predicate, which *)
(* the provers cannot instantiate; these take the set of the numbers that    *)
(* have the property, and a step that is a function.                         *)

\* A set with 0 and the successors of its members has all natural numbers.
LEMMA SetInduction ==
  ASSUME NEW S \in SUBSET Nat, 0 \in S, \A n \in S : n + 1 \in S
  PROVE  S = Nat
<1> SUFFICES ASSUME Nat \ S # {} PROVE FALSE
  OBVIOUS
<1>1. PICK m \in Nat \ S : \A k \in Nat \ S : ~ (<<k, m>> \in OpToRel(<, Nat))
  BY NatLessThanWellFounded, WFMin
<1>2. \A k \in Nat \ S : ~(k < m)
  BY <1>1 DEF OpToRel
<1>3. m # 0 /\ m - 1 \in Nat /\ m - 1 \in S
  BY <1>2
<1>4. m \in S
  <2>1. (m - 1) + 1 \in S
    BY <1>3
  <2> QED
    BY <2>1
<1> QED
  BY <1>4

\* The same up to a bound.
LEMMA BoundedInduction ==
  ASSUME NEW N \in Nat, NEW S, 0 \in S, \A n \in 1..N : n - 1 \in S => n \in S
  PROVE  \A n \in 0..N : n \in S
<1> DEFINE M == {n \in Nat : n <= N => n \in S}
<1>1. 0 \in M
  OBVIOUS
<1>2. \A n \in M : n + 1 \in M
  <2> TAKE n \in M
  <2> SUFFICES ASSUME n + 1 <= N PROVE n + 1 \in S
    OBVIOUS
  <2>1. n \in S
    OBVIOUS
  <2>2. n + 1 \in 1..N /\ (n + 1) - 1 = n
    OBVIOUS
  <2> QED
    BY <2>1, <2>2
<1>3. M = Nat
  BY <1>1, <1>2, SetInduction
<1> QED
  BY <1>3

Steps(N, V) == [(1..N) \X V -> V]

\* What the step next makes of start, one value after another.
Follows(f, N, V, start, next) ==
  f \in [0..N -> V] /\ f[0] = start /\ \A n \in 1..N : f[n] = next[<<n, f[n - 1]>>]

\* A function of 0..N can be defined by its first value and a step.
LEMMA Recursion ==
  ASSUME NEW N \in Nat, NEW V, NEW start \in V, NEW next \in Steps(N, V)
  PROVE  \E f : Follows(f, N, V, start, next)
<1> USE DEF Follows, Steps
<1> DEFINE Upto(n) == {f \in [0..n -> V] :
                         f[0] = start /\ \A i \in 1..n : f[i] = next[<<i, f[i - 1]>>]}
           S == {n \in 0..N : Upto(n) # {}}
<1>1. 0 \in S
  <2>1. [i \in 0..0 |-> start] \in Upto(0)
    OBVIOUS
  <2> QED
    BY <2>1
<1>2. \A n \in 1..N : n - 1 \in S => n \in S
  <2> SUFFICES ASSUME NEW n \in 1..N, n - 1 \in S PROVE n \in S
    OBVIOUS
  <2>1. PICK f \in [0..(n - 1) -> V] : f[0] = start /\ \A i \in 1..(n - 1) : f[i] = next[<<i, f[i - 1]>>]
    OBVIOUS
  <2> DEFINE g == [i \in 0..n |-> IF i = n THEN next[<<n, f[n - 1]>>] ELSE f[i]]
  <2>2. f[n - 1] \in V /\ next[<<n, f[n - 1]>>] \in V
    OBVIOUS
  <2>3. g \in [0..n -> V]
    BY <2>2
  <2>4. g[0] = start
    BY <2>1
  <2>5. ASSUME NEW i \in 1..n PROVE g[i] = next[<<i, g[i - 1]>>]
    <3>1. CASE i = n
      <4>1. n - 1 \in 0..n /\ n - 1 # n
        OBVIOUS
      <4>2. g[n - 1] = f[n - 1] /\ g[n] = next[<<n, f[n - 1]>>]
        BY <4>1
      <4> HIDE DEF g
      <4> QED
        BY <3>1, <4>2
    <3>2. CASE i # n
      <4>1. i \in 1..(n - 1) /\ i - 1 \in 0..n /\ i - 1 # n
        BY <3>2
      <4>2. g[i] = f[i] /\ g[i - 1] = f[i - 1]
        BY <4>1, <3>2
      <4> QED
        BY <2>1, <4>1, <4>2
    <3> QED
      BY <3>1, <3>2
  <2> HIDE DEF g
  <2>6. g \in Upto(n)
    BY <2>3, <2>4, <2>5
  <2> QED
    BY <2>6
<1> HIDE DEF S
<1>3. N \in S
  BY <1>1, <1>2, BoundedInduction
<1> QED
  BY <1>3 DEF S

-----------------------------------------------------------------------------
(* What is chosen from a sequence.                                           *)

\* The elements of a sequence with one more.
LEMMA AppendSet ==
  ASSUME NEW X, NEW k \in Seq(X), NEW x \in X
  PROVE  ToSet(Append(k, x)) = ToSet(k) \cup {x}
<1>1. Len(k) \in Nat /\ DOMAIN k = 1..Len(k) /\ DOMAIN Append(k, x) = 1..(Len(k) + 1)
  OBVIOUS
<1>2. \A i \in 1..Len(k) : Append(k, x)[i] = k[i]
  OBVIOUS
<1>3. Append(k, x)[Len(k) + 1] = x
  OBVIOUS
<1>4. 1..(Len(k) + 1) = 1..Len(k) \cup {Len(k) + 1}
  BY <1>1
<1> QED
  BY <1>1, <1>2, <1>3, <1>4 DEF ToSet

\* The positions up to n, gone through one by one: the choice is a sequence of
\* what s has in T, in which nothing is repeated that s does not repeat.
LEMMA Choice ==
  ASSUME NEW X, NEW s \in Seq(X), NEW T
  PROVE  /\ Only(s, T) \in Seq(X)
         /\ ToSet(Only(s, T)) = ToSet(s) \cap T
         /\ IsInjective(s) => IsInjective(Only(s, T))
<1> DEFINE N == Len(s)
           Step(n, v) == IF s[n] \in T THEN Append(v, s[n]) ELSE v
           step == [p \in (1..N) \X Seq(X) |-> Step(p[1], p[2])]
           Body(f) == [n \in 0..N |->
                         IF n = 0 THEN <<>>
                         ELSE IF s[n] \in T THEN Append(f[n - 1], s[n]) ELSE f[n - 1]]
           kept == CHOOSE f : f = Body(f)
<1>1. N \in Nat
  OBVIOUS
<1>2. step \in Steps(N, Seq(X))
  BY DEF Steps
<1>3. PICK f : Follows(f, N, Seq(X), <<>>, step)
  <2>1. <<>> \in Seq(X)
    OBVIOUS
  <2> HIDE DEF N, step
  <2> QED
    BY <1>1, <1>2, <2>1, Recursion
<1>4. f = Body(f)
  <2> f \in [0..N -> Seq(X)]
    BY <1>3 DEF Follows
  <2> SUFFICES ASSUME NEW n \in 0..N PROVE f[n] = Body(f)[n]
    OBVIOUS
  <2>1. CASE n = 0
    BY <2>1, <1>3 DEF Follows
  <2>2. CASE n # 0
    <3>1. n \in 1..N /\ f[n - 1] \in Seq(X)
      BY <2>2, <1>3 DEF Follows
    <3> QED
      BY <3>1, <1>3 DEF Follows
  <2> QED
    BY <2>1, <2>2
<1>5. kept = Body(kept)
  BY <1>4
<1>6. Only(s, T) = kept[N]
  BY DEF Only
<1>7. /\ kept[0] = <<>>
      /\ \A n \in 1..N : kept[n] = IF s[n] \in T THEN Append(kept[n - 1], s[n]) ELSE kept[n - 1]
  <2> DEFINE g == kept
  <2>1. \A n \in 0..N : Body(g)[n] = IF n = 0 THEN <<>>
                                   ELSE IF s[n] \in T THEN Append(g[n - 1], s[n]) ELSE g[n - 1]
    OBVIOUS
  <2>2. g = Body(g)
    BY <1>5
  <2> HIDE DEF g, N, Body
  <2>3. \A n \in 0..N : g[n] = IF n = 0 THEN <<>>
                             ELSE IF s[n] \in T THEN Append(g[n - 1], s[n]) ELSE g[n - 1]
    BY <2>1, <2>2
  <2>4. /\ g[0] = <<>>
        /\ \A n \in 1..N : g[n] = IF s[n] \in T THEN Append(g[n - 1], s[n]) ELSE g[n - 1]
    BY <1>1, <2>3
  <2> QED
    BY <2>4 DEF g
<1> HIDE DEF kept
<1> DEFINE First(n) == {s[i] : i \in 1..n}
           Right(n) == /\ kept[n] \in Seq(X)
                       /\ ToSet(kept[n]) = First(n) \cap T
                       /\ IsInjective(s) => IsInjective(kept[n])
           S == {n \in 0..N : Right(n)}
<1>8. 0 \in S
  <2>1. <<>> \in Seq(X) /\ ToSet(<<>>) = {} /\ IsInjective(<<>>)
    BY DEF ToSet, IsInjective
  <2>2. First(0) = {}
    OBVIOUS
  <2> HIDE DEF First
  <2>3. Right(0)
    BY <1>7, <2>1, <2>2
  <2> HIDE DEF N, Right
  <2> QED
    BY <1>1, <2>3
<1>9. \A n \in 1..N : n - 1 \in S => n \in S
  <2> HIDE DEF N, Right
  <2> SUFFICES ASSUME NEW n \in 1..N, n - 1 \in S PROVE Right(n)
    BY <1>1
  <2>1. Right(n - 1)
    OBVIOUS
  <2> USE DEF Right
  <2>2. First(n) = First(n - 1) \cup {s[n]} /\ s[n] \in X
    BY DEF N
  <2>3. CASE s[n] \notin T
    <3>1. kept[n] = kept[n - 1]
      BY <1>7, <2>3
    <3> QED
      BY <2>1, <2>2, <2>3, <3>1
  <2>4. CASE s[n] \in T
    <3> DEFINE k == kept[n - 1]
    <3>1. kept[n] = Append(k, s[n])
      BY <1>7, <2>4
    <3>2. k \in Seq(X)
      BY <2>1
    <3>3. ToSet(kept[n]) = ToSet(k) \cup {s[n]}
      <4> HIDE DEF k
      <4> QED
        BY <3>1, <3>2, <2>2, AppendSet
    <3>4. ASSUME IsInjective(s) PROVE IsInjective(kept[n])
      <4>1. s[n] \notin First(n - 1)
        <5>1. n \in DOMAIN s /\ \A i \in 1..(n - 1) : i \in DOMAIN s /\ i # n
          BY DEF N
        <5> QED
          BY <3>4, <5>1 DEF IsInjective
      <4>2. s[n] \notin ToSet(k)
        BY <4>1, <2>1
      <4>3. IsInjective(k)
        BY <2>1, <3>4, Zenon
      <4> HIDE DEF k
      <4> QED
        BY <3>1, <3>2, <2>2, <4>2, <4>3 DEF IsInjective, ToSet
    <3> QED
      BY <2>1, <2>2, <2>4, <3>1, <3>3, <3>4, AppendProperties
  <2> QED
    BY <2>3, <2>4
<1> HIDE DEF S, N
<1>10. N \in S
  <2>1. \A n \in 0..N : n \in S
    BY <1>1, <1>8, <1>9, BoundedInduction, Zenon
  <2> QED
    BY <1>1, <2>1
<1>11. Right(N)
  BY <1>10 DEF S
<1>12. First(N) = ToSet(s)
  BY DEF ToSet, N
<1> HIDE DEF First
<1> QED
  BY <1>6, <1>11, <1>12, Zenon

\* A sequence without repetitions is as long as it has elements.
LEMMA InjectiveLen ==
  ASSUME NEW X, NEW s \in Seq(X), IsInjective(s)
  PROVE  IsFiniteSet(ToSet(s)) /\ Cardinality(ToSet(s)) = Len(s)
<1>1. Len(s) \in Nat /\ s \in [1..Len(s) -> X]
  OBVIOUS
<1>2. s \in Bijection(1..Len(s), ToSet(s))
  BY <1>1 DEF ToSet, IsInjective, Bijection, Injection, Surjection
<1>3. ExistsBijection(1..Len(s), ToSet(s))
  BY <1>2 DEF ExistsBijection
<1>4. IsFiniteSet(1..Len(s)) /\ Cardinality(1..Len(s)) = Len(s)
  BY <1>1, FS_Interval
<1> QED
  BY <1>3, <1>4, FS_Bijection

\* The beginning of a sequence, as long as the limit lets it be.
LEMMA CutIs ==
  ASSUME NEW X, NEW s \in Seq(X), NEW q, q.limit \in Nat
  PROVE  /\ Cut(q, s) \in Seq(X)
         /\ IsInjective(s) => IsInjective(Cut(q, s))
         /\ ToSet(Cut(q, s)) \subseteq ToSet(s)
         /\ \A i \in 1..Len(Cut(q, s)) : i \in 1..Len(s) /\ Cut(q, s)[i] = s[i]
         /\ Len(Cut(q, s)) = IF Len(s) < q.limit THEN Len(s) ELSE q.limit
         /\ Len(s) <= q.limit => Cut(q, s) = s
<1> DEFINE n == IF Len(s) < q.limit THEN Len(s) ELSE q.limit
<1>1. n \in Nat /\ n <= Len(s)
  OBVIOUS
<1>2. Cut(q, s) = SubSeq(s, 1, n)
  BY DEF Cut
<1> HIDE DEF n
<1>3. /\ Cut(q, s) \in Seq(X)
      /\ Len(Cut(q, s)) = n
      /\ \A i \in 1..n : Cut(q, s)[i] = s[i]
  BY <1>1, <1>2
<1>4. /\ IsInjective(s) => IsInjective(Cut(q, s))
      /\ ToSet(Cut(q, s)) \subseteq ToSet(s)
      /\ \A i \in 1..Len(Cut(q, s)) : i \in 1..Len(s) /\ Cut(q, s)[i] = s[i]
  BY <1>1, <1>3 DEF IsInjective, ToSet
<1>5. Len(s) <= q.limit => Cut(q, s) = s
  <2> SUFFICES ASSUME Len(s) <= q.limit PROVE Cut(q, s) = s
    OBVIOUS
  <2>1. n = Len(s)
    BY DEF n
  <2> QED
    BY <1>3, <2>1, SeqEqual
<1> QED
  BY <1>3, <1>4, <1>5 DEF n

-----------------------------------------------------------------------------
(* What a search returns.                                                    *)

\* The parts of one inquiry.
LEMMA InquiryIs ==
  ASSUME NEW q \in Inquiries
  PROVE  /\ q.place \in [Ids -> Places] /\ q.words \subseteq Ids
         /\ q.ranking = SetToSeq(Ids)
         /\ q.limit \in Nat /\ q.hits \in Hits(q.limit)
<1>1. PICK limit \in Limits :
        q \in [place : [Ids -> Places], words : SUBSET Ids, ranking : {SetToSeq(Ids)},
               hits : Hits(limit), limit : {limit}]
  BY DEF Inquiries
<1> HIDE DEF Hits
<1> QED
  BY <1>1, LimitsAssumption

\* The ids of one inquiry in order, each once.
LEMMA RankingIs ==
  ASSUME NEW q \in Inquiries
  PROVE  q.ranking \in Seq(Ids) /\ IsInjective(q.ranking) /\ ToSet(q.ranking) = Ids
<1> DEFINE N == Cardinality(Ids)
<1>1. N \in Nat /\ ExistsBijection(1..N, Ids)
  BY IdsAssumption, FS_CardinalityType
<1>2. PICK f \in Bijection(1..N, Ids) : TRUE
  BY <1>1 DEF ExistsBijection
<1>3. f \in [1..N -> Ids] /\ IsInjective(f)
  BY <1>2 DEF Bijection, Injection
<1>4. SetToSeq(Ids) \in [1..N -> Ids] /\ IsInjective(SetToSeq(Ids))
  BY <1>3 DEF SetToSeq
<1>5. q.ranking = SetToSeq(Ids)
  BY InquiryIs
<1> DEFINE r == q.ranking
<1>6. r \in [1..N -> Ids] /\ IsInjective(r) /\ N \in Nat
  BY <1>1, <1>4, <1>5
<1> HIDE DEF r, N
<1>7. r \in Seq(Ids) /\ Len(r) = N
  BY <1>6
<1>8. IsFiniteSet(ToSet(r)) /\ Cardinality(ToSet(r)) = N
  BY <1>6, <1>7, InjectiveLen
<1>9. ToSet(r) \subseteq Ids
  BY <1>6 DEF ToSet
<1>10. ToSet(r) = Ids
  BY <1>8, <1>9, IdsAssumption, FS_Subset DEF N
<1> QED
  BY <1>6, <1>7, <1>10 DEF r

\* The local rows: active documents with a word of the query, all of them or as
\* many as the limit.
LEMMA LocalIs ==
  ASSUME NEW q \in Inquiries
  PROVE  LET B == {id \in q.words : q.place[id] = "active"}
         IN  /\ Local(q) \in Seq(Ids)
             /\ IsInjective(Local(q))
             /\ ToSet(Local(q)) \subseteq B
             /\ IF Cardinality(B) <= q.limit THEN ToSet(Local(q)) = B ELSE Len(Local(q)) = q.limit
<1> DEFINE B == {id \in q.words : q.place[id] = "active"}
           rows == Only(q.ranking, B)
<1>1. B \subseteq Ids /\ q.limit \in Nat
  BY InquiryIs
<1>2. rows \in Seq(Ids) /\ IsInjective(rows) /\ ToSet(rows) = B
  BY <1>1, RankingIs, Choice
<1>3. Local(q) = Cut(q, rows)
  BY DEF Local
<1> HIDE DEF rows, B
<1>4. Len(rows) = Cardinality(B) /\ Len(rows) \in Nat
  BY <1>2, InjectiveLen
<1>5. /\ Local(q) \in Seq(Ids)
      /\ IsInjective(Local(q))
      /\ ToSet(Local(q)) \subseteq B
      /\ Len(rows) <= q.limit => Local(q) = rows
      /\ ~(Len(rows) <= q.limit) => Len(Local(q)) = q.limit
  BY <1>1, <1>2, <1>3, CutIs
<1>6. IF Cardinality(B) <= q.limit THEN ToSet(Local(q)) = B ELSE Len(Local(q)) = q.limit
  BY <1>1, <1>2, <1>4, <1>5
<1> QED
  BY <1>5, <1>6 DEF B

\* The hits that a search keeps: their documents, one for every hit.
LEMMA KeptIs ==
  ASSUME NEW q \in Inquiries
  PROVE  LET counted == {h \in ToSet(q.hits) : Current(q, h)}
             shown == {h.id : h \in counted}
         IN  /\ Kept(q) \in Seq(Ids)
             /\ ToSet(Kept(q)) = shown
             /\ IsFiniteSet(counted) /\ Cardinality(counted) = Len(Kept(q))
             /\ IsFiniteSet(shown) /\ Cardinality(shown) <= Len(Kept(q))
<1> DEFINE T == {h \in ToSet(q.hits) : Current(q, h)}
           X == [id : Ids, part : {"whole"} \cup Chunks, active : BOOLEAN]
           k == Only(q.hits, T)
<1>1. /\ q.hits \in Seq(X)
      /\ \A i, j \in 1..Len(q.hits) :
           q.hits[i].id = q.hits[j].id /\ q.hits[i].part = q.hits[j].part => i = j
  <2>1. q.hits \in Hits(q.limit) /\ q.limit \in Nat
    BY InquiryIs
  <2>2. PICK m \in 0..q.limit : q.hits \in [1..m -> X]
    BY <2>1 DEF Hits, SeqOf
  <2>4. q.hits \in Seq(X)
    <3> DEFINE h == q.hits
    <3>1. m \in Nat /\ h \in [1..m -> X]
      BY <2>1, <2>2
    <3> HIDE DEF h, X
    <3>2. h \in Seq(X)
      BY <3>1
    <3> QED
      BY <3>2 DEF h
  <2>5. \A i, j \in 1..Len(q.hits) :
          q.hits[i].id = q.hits[j].id /\ q.hits[i].part = q.hits[j].part => i = j
    BY <2>1 DEF Hits
  <2> QED
    BY <2>4, <2>5
<1>2. IsInjective(q.hits)
  BY <1>1 DEF IsInjective
<1>3. k \in Seq(X) /\ IsInjective(k) /\ ToSet(k) = ToSet(q.hits) \cap T
  BY <1>1, <1>2, Choice
<1>4. ToSet(k) = T
  BY <1>3
<1>5. IsFiniteSet(T) /\ Cardinality(T) = Len(k)
  <2> HIDE DEF k, T, X
  <2> QED
    BY <1>3, <1>4, InjectiveLen
<1>6. Kept(q) = [i \in 1..Len(k) |-> k[i].id]
  BY DEF Kept
<1> HIDE DEF k, T
<1>7. /\ Len(k) \in Nat
      /\ DOMAIN k = 1..Len(k)
      /\ \A i \in 1..Len(k) : k[i] \in T /\ k[i].id \in Ids
  <2>1. /\ Len(k) \in Nat
        /\ DOMAIN k = 1..Len(k)
        /\ \A i \in 1..Len(k) : k[i] \in X
    <3> HIDE DEF X
    <3> QED
      BY <1>3
  <2>2. \A i \in 1..Len(k) : k[i] \in T
    BY <1>4, <2>1 DEF ToSet
  <2> QED
    BY <2>1, <2>2
<1>8. Kept(q) \in Seq(Ids) /\ Len(Kept(q)) = Len(k)
  BY <1>6, <1>7
<1>9. ToSet(Kept(q)) = {h.id : h \in T}
  BY <1>4, <1>6, <1>7 DEF ToSet
<1> DEFINE shown == {h.id : h \in T}
           f == [h \in T |-> h.id]
<1>10. f \in Surjection(T, shown)
  BY DEF Surjection
<1> HIDE DEF f, shown
<1>11. IsFiniteSet(shown) /\ Cardinality(shown) <= Cardinality(T)
  BY <1>5, <1>10, FS_Surjection
<1> QED
  BY <1>5, <1>8, <1>9, <1>11 DEF T, shown

\* Two sequences, one after the other.
LEMMA JoinIs ==
  ASSUME NEW X, NEW s \in Seq(X), NEW t \in Seq(X), IsInjective(t)
  PROVE  /\ s \o t \in Seq(X)
         /\ Len(s \o t) = Len(s) + Len(t)
         /\ \A i \in 1..Len(s \o t) :
              IF i <= Len(s) THEN (s \o t)[i] \in ToSet(s)
              ELSE /\ (s \o t)[i] \in ToSet(t)
                   /\ \A j \in (Len(s) + 1)..(i - 1) : (s \o t)[j] # (s \o t)[i]
<1> DEFINE n == Len(s)  m == Len(t)  r == s \o t
<1>1. /\ n \in Nat /\ m \in Nat
      /\ DOMAIN s = 1..n /\ DOMAIN t = 1..m
      /\ r \in Seq(X) /\ Len(r) = n + m
  OBVIOUS
<1>2. \A i \in 1..n : r[i] = s[i]
  OBVIOUS
<1>3. \A i \in (n + 1)..(n + m) : r[i] = t[i - n] /\ i - n \in 1..m
  OBVIOUS
<1> HIDE DEF n, m, r
<1>4. ASSUME NEW i \in 1..(n + m)
      PROVE  IF i <= n THEN r[i] \in ToSet(s)
             ELSE /\ r[i] \in ToSet(t)
                  /\ \A j \in (n + 1)..(i - 1) : r[j] # r[i]
  <2>1. CASE i <= n
    <3>1. i \in 1..n
      BY <1>1, <2>1
    <3> QED
      BY <1>1, <1>2, <2>1, <3>1 DEF ToSet
  <2>2. CASE ~(i <= n)
    <3>1. i \in (n + 1)..(n + m)
      BY <1>1, <2>2
    <3>2. r[i] \in ToSet(t)
      BY <1>1, <1>3, <3>1 DEF ToSet
    <3>3. ASSUME NEW j \in (n + 1)..(i - 1) PROVE r[j] # r[i]
      <4>1. j \in (n + 1)..(n + m) /\ j - n # i - n
        BY <1>1, <3>1
      <4>2. r[j] = t[j - n] /\ r[i] = t[i - n] /\ j - n \in DOMAIN t /\ i - n \in DOMAIN t
        BY <1>1, <1>3, <3>1, <4>1
      <4> QED
        BY <4>1, <4>2 DEF IsInjective
    <3> QED
      BY <2>2, <3>2, <3>3
  <2> QED
    BY <2>1, <2>2
<1> QED
  BY <1>1, <1>4 DEF n, m, r

\* What a search finds is a beginning of the hits that count and of the rest of
\* the documents, and either it is all of them or the limit cuts it.
LEMMA SearchIs ==
  ASSUME NEW q \in Inquiries
  PROVE  LET found == Search(q)
             counted == {h \in ToSet(q.hits) : Current(q, h)}
             shown == {h.id : h \in counted}
             rest == {id \in q.words : q.place[id] = "active"} \ shown
             all == Cardinality(counted) + Cardinality(rest)
         IN  /\ Len(found) = IF all < q.limit THEN all ELSE q.limit
             /\ \A i \in 1..Len(found) :
                  IF i <= Cardinality(counted) THEN found[i] \in shown
                  ELSE found[i] \in rest /\ \A j \in 1..(i - 1) : found[j] # found[i]
<1> DEFINE C == {h \in ToSet(q.hits) : Current(q, h)}
           A == {h.id : h \in C}
           B == {id \in q.words : q.place[id] = "active"}
           K == Cardinality(C)
           all == K + Cardinality(B \ A)
<1>1. q.limit \in Nat /\ B \subseteq Ids
  BY InquiryIs
<1>2. /\ Kept(q) \in Seq(Ids) /\ ToSet(Kept(q)) = A
      /\ IsFiniteSet(C) /\ K = Len(Kept(q)) /\ K \in Nat
      /\ IsFiniteSet(A) /\ Cardinality(A) <= K
  <2>1. /\ Kept(q) \in Seq(Ids) /\ ToSet(Kept(q)) = A
        /\ IsFiniteSet(C) /\ K = Len(Kept(q))
        /\ IsFiniteSet(A) /\ Cardinality(A) <= K
    BY KeptIs
  <2> HIDE DEF C, A
  <2> QED
    BY <2>1, FS_CardinalityType
<1>3. /\ Local(q) \in Seq(Ids)
      /\ IsInjective(Local(q))
      /\ ToSet(Local(q)) \subseteq B
      /\ IF Cardinality(B) <= q.limit THEN ToSet(Local(q)) = B ELSE Len(Local(q)) = q.limit
  BY LocalIs
<1>4. q.hits = <<>> => C = {}
  BY DEF ToSet
<1>5. C = {} => A = {}
  OBVIOUS
<1> HIDE DEF A, B, C, K
<1>6. /\ IsFiniteSet(B) /\ Cardinality(B) \in Nat
      /\ IsFiniteSet(B \ A) /\ Cardinality(B \ A) \in Nat
  <2>1. IsFiniteSet(B)
    BY <1>1, IdsAssumption, FS_Subset
  <2>2. IsFiniteSet(B \ A)
    BY <2>1, FS_Difference
  <2> QED
    BY <2>1, <2>2, FS_CardinalityType
<1>7. /\ Len(Local(q)) \in Nat /\ IsFiniteSet(ToSet(Local(q)))
      /\ Cardinality(ToSet(Local(q))) = Len(Local(q))
  BY <1>3, InjectiveLen
<1>8. SUFFICES /\ Len(Search(q)) = IF all < q.limit THEN all ELSE q.limit
               /\ \A i \in 1..Len(Search(q)) :
                    IF i <= K THEN Search(q)[i] \in A
                    ELSE /\ Search(q)[i] \in B \ A
                         /\ \A j \in 1..(i - 1) : Search(q)[j] # Search(q)[i]
  BY <1>8 DEF A, B, C, K
<1>9. CASE q.hits = <<>>
  <2>1. Search(q) = Local(q) /\ C = {} /\ A = {} /\ B \ A = B
    BY <1>4, <1>5, <1>9 DEF Search
  <2>2. K = 0 /\ all = Cardinality(B)
    BY <1>6, <2>1, FS_EmptySet DEF K
  <2>3. Len(Local(q)) = IF Cardinality(B) < q.limit THEN Cardinality(B) ELSE q.limit
    BY <1>1, <1>3, <1>6, <1>7
  <2>4. ASSUME NEW i \in 1..Len(Local(q))
        PROVE  /\ ~(i <= K) /\ Local(q)[i] \in B \ A
               /\ \A j \in 1..(i - 1) : Local(q)[j] # Local(q)[i]
    <3>1. DOMAIN Local(q) = 1..Len(Local(q))
      BY <1>3
    <3>2. \A j \in 1..(i - 1) : j \in 1..Len(Local(q)) /\ j # i
      BY <1>7
    <3>3. Local(q)[i] \in B
      BY <1>3, <3>1 DEF ToSet
    <3>4. ~(i <= K)
      BY <1>7, <2>2
    <3> QED
      BY <1>3, <2>1, <3>1, <3>2, <3>3, <3>4 DEF IsInjective
  <2> HIDE DEF all
  <2> QED
    BY <2>1, <2>2, <2>3, <2>4
<1>10. CASE q.hits # <<>>
  <2> DEFINE more == Only(Local(q), Ids \ ToSet(Kept(q)))
             rows == Kept(q) \o more
  <2>1. /\ more \in Seq(Ids)
        /\ IsInjective(more)
        /\ ToSet(more) = ToSet(Local(q)) \cap (Ids \ A)
    BY <1>2, <1>3, Choice
  <2>2. ToSet(more) = ToSet(Local(q)) \ A /\ ToSet(more) \subseteq B \ A
    BY <1>1, <1>3, <2>1
  <2>3. Search(q) = Cut(q, rows)
    BY <1>10 DEF Search
  <2> HIDE DEF more
  <2>4. /\ rows \in Seq(Ids) /\ Len(rows) = K + Len(more)
        /\ \A i \in 1..Len(rows) :
             IF i <= K THEN rows[i] \in A
             ELSE /\ rows[i] \in ToSet(more)
                  /\ \A j \in (K + 1)..(i - 1) : rows[j] # rows[i]
    BY <1>2, <2>1, JoinIs
  <2> HIDE DEF rows
  <2>5. Len(more) \in Nat /\ IsFiniteSet(ToSet(more)) /\ Cardinality(ToSet(more)) = Len(more)
    BY <2>1, InjectiveLen, LenProperties
  <2>6. Len(more) <= Cardinality(B \ A)
    BY <1>6, <2>2, <2>5, FS_Subset
  <2>7. Cardinality(B) <= q.limit => Len(rows) = all
    BY <1>3, <2>2, <2>4, <2>5
  <2>8. Cardinality(B) > q.limit => q.limit <= Len(rows)
    <3> SUFFICES ASSUME Cardinality(B) > q.limit PROVE q.limit <= Len(rows)
      OBVIOUS
    <3>1. Len(Local(q)) = q.limit
      BY <1>1, <1>3, <1>6
    <3>2. Cardinality(ToSet(more)) = Len(Local(q)) - Cardinality(ToSet(Local(q)) \cap A)
      BY <1>7, <2>2, FS_Difference
    <3>3. Cardinality(ToSet(Local(q)) \cap A) <= Cardinality(A)
      BY <1>2, FS_Intersection
    <3>4. Cardinality(A) \in Nat /\ Cardinality(ToSet(Local(q)) \cap A) \in Nat
      BY <1>2, FS_Intersection, FS_CardinalityType
    <3> QED
      BY <1>1, <1>2, <2>4, <2>5, <3>1, <3>2, <3>3, <3>4
  <2>9. /\ Len(Search(q)) = IF Len(rows) < q.limit THEN Len(rows) ELSE q.limit
        /\ \A i \in 1..Len(Search(q)) : i \in 1..Len(rows) /\ Search(q)[i] = rows[i]
        /\ Len(Search(q)) \in Nat
    <3>1. /\ Cut(q, rows) \in Seq(Ids)
          /\ Len(Cut(q, rows)) = IF Len(rows) < q.limit THEN Len(rows) ELSE q.limit
          /\ \A i \in 1..Len(Cut(q, rows)) : i \in 1..Len(rows) /\ Cut(q, rows)[i] = rows[i]
      BY <1>1, <2>4, CutIs
    <3> QED
      BY <2>3, <3>1, LenProperties
  <2>10. Len(Search(q)) = IF all < q.limit THEN all ELSE q.limit
    BY <1>1, <1>2, <1>6, <2>4, <2>5, <2>6, <2>7, <2>8, <2>9
  <2>11. ASSUME NEW i \in 1..Len(Search(q))
         PROVE  IF i <= K THEN Search(q)[i] \in A
                ELSE /\ Search(q)[i] \in B \ A
                     /\ \A j \in 1..(i - 1) : Search(q)[j] # Search(q)[i]
    <3>1. i \in 1..Len(rows) /\ Search(q)[i] = rows[i]
      BY <2>9
    <3>2. CASE i <= K
      BY <2>4, <3>1, <3>2
    <3>3. CASE ~(i <= K)
      <4>1. /\ rows[i] \in ToSet(more)
            /\ \A j \in (K + 1)..(i - 1) : rows[j] # rows[i]
        BY <2>4, <3>1, <3>3
      <4>2. rows[i] \in B \ A
        BY <2>2, <4>1
      <4>3. ASSUME NEW j \in 1..(i - 1) PROVE rows[j] # rows[i]
        <5>1. j \in 1..Len(rows) /\ (j <= K \/ j \in (K + 1)..(i - 1))
          BY <1>2, <2>4, <2>5, <3>1
        <5> QED
          BY <2>4, <4>1, <4>2, <5>1
      <4>4. \A j \in 1..(i - 1) : Search(q)[j] = rows[j]
        <5>1. \A j \in 1..(i - 1) : j \in 1..Len(Search(q))
          BY <2>9
        <5> QED
          BY <2>9, <5>1
      <4> QED
        BY <3>1, <3>3, <4>2, <4>3, <4>4
    <3> QED
      BY <3>2, <3>3
  <2> QED
    BY <2>10, <2>11
<1> QED
  BY <1>9, <1>10

\* In every inquiry.
LEMMA InquiryFills == inquiry \in Inquiries => SearchFills
<1> SUFFICES ASSUME inquiry \in Inquiries PROVE SearchFills
  OBVIOUS
<1> DEFINE q == inquiry
           Counts(h) == /\ h.part = "whole" => q.place[h.id] # "inactive"
                        /\ h.active \/ (h.part = "whole" /\ q.place[h.id] = "active")
<1>1. \A h \in ToSet(q.hits) : h.active \in BOOLEAN
  <2>1. q.hits \in Hits(q.limit)
    BY InquiryIs
  <2> QED
    BY <2>1 DEF Hits, SeqOf, ToSet
<1>2. \A h \in ToSet(q.hits) : Current(q, h) <=> Counts(h)
  BY <1>1 DEF Current
<1>3. {h \in ToSet(q.hits) : Current(q, h)} = {h \in ToSet(q.hits) : Counts(h)}
  BY <1>2
<1> QED
  BY <1>3, SearchIs DEF SearchFills

\* A search shows every hit that counts and then the active documents with a word
\* of the query that no hit shows, each once, up to the limit, whatever the
\* vector store says and although the local rows are cut before those already
\* shown are dropped (search and _local_search_results).
THEOREM SearchAlwaysFills == RetrievalSpec => []SearchFills
<1>1. RetrievalInit => inquiry \in Inquiries
  BY DEF RetrievalInit
<1>2. inquiry \in Inquiries /\ [RetrievalNext]_inquiry => (inquiry \in Inquiries)'
  BY DEF RetrievalNext
<1> QED
  BY <1>1, <1>2, InquiryFills, PTL DEF RetrievalSpec

-----------------------------------------------------------------------------
(* The table of the edit distance.                                           *)

\* The least of three numbers.
LEMMA LeastIs ==
  ASSUME NEW u \in Nat, NEW v \in Nat, NEW w \in Nat
  PROVE  LET m == Least({u, v, w}) IN m \in {u, v, w} /\ m <= u /\ m <= v /\ m <= w
<1>1. \E x \in {u, v, w} : \A y \in {u, v, w} : x <= y
  <2>1. CASE u <= v /\ u <= w
    BY <2>1
  <2>2. CASE v <= u /\ v <= w
    BY <2>2
  <2>3. CASE w <= u /\ w <= v
    BY <2>3
  <2> QED
    BY <2>1, <2>2, <2>3
<1> DEFINE m == CHOOSE x \in {u, v, w} : \A y \in {u, v, w} : x <= y
<1>2. m \in {u, v, w} /\ \A y \in {u, v, w} : m <= y
  BY <1>1
<1> QED
  BY <1>2 DEF Least, Min

\* A cell of a row: the cheapest of three edits.
Cell(left, above, corner, x, y) == Least({left + 1, above + 1, corner + Substitution(x, y)})

\* A cell is a number, one of the three, and none of them is less.
LEMMA CellIs ==
  ASSUME NEW left \in Nat, NEW above \in Nat, NEW corner \in Nat, NEW x, NEW y
  PROVE  LET c == Cell(left, above, corner, x, y)
         IN  /\ c \in Nat
             /\ c \in {left + 1, above + 1, corner + Substitution(x, y)}
             /\ c <= left + 1 /\ c <= above + 1 /\ c <= corner + Substitution(x, y)
<1>1. left + 1 \in Nat /\ above + 1 \in Nat /\ corner + Substitution(x, y) \in Nat
  BY DEF Substitution
<1> DEFINE w == corner + Substitution(x, y)
<1> HIDE DEF w
<1> QED
  BY <1>1, LeastIs DEF Cell, w

\* One row from the row before it.
LEMMA RowIs ==
  ASSUME NEW b, Len(b) \in Nat, NEW previous \in [0..Len(b) -> Nat], NEW x
  PROVE  LET r == Row(previous, x, b)
         IN  /\ r \in [0..Len(b) -> Nat]
             /\ r[0] = previous[0] + 1
             /\ \A j \in 1..Len(b) : r[j] = Cell(r[j - 1], previous[j], previous[j - 1], x, b[j])
<1> DEFINE N == Len(b)
           step == [p \in (1..N) \X Nat |-> Cell(p[2], previous[p[1]], previous[p[1] - 1], x, b[p[1]])]
           Body(f) == [j \in 0..N |->
                         IF j = 0 THEN previous[0] + 1
                         ELSE Least({f[j - 1] + 1, previous[j] + 1,
                                     previous[j - 1] + Substitution(x, b[j])})]
           cell == CHOOSE f : f = Body(f)
<1>1. N \in Nat /\ previous[0] + 1 \in Nat
  OBVIOUS
<1>2. step \in Steps(N, Nat)
  <2>1. ASSUME NEW j \in 1..N, NEW v \in Nat
        PROVE  Cell(v, previous[j], previous[j - 1], x, b[j]) \in Nat
    <3>1. previous[j] \in Nat /\ previous[j - 1] \in Nat
      OBVIOUS
    <3> QED
      BY <3>1, CellIs
  <2> QED
    BY <2>1 DEF Steps
<1>3. PICK f : Follows(f, N, Nat, previous[0] + 1, step)
  <2> HIDE DEF N, step
  <2> QED
    BY <1>1, <1>2, Recursion
<1>4. f = Body(f)
  <2> f \in [0..N -> Nat]
    BY <1>3 DEF Follows
  <2> SUFFICES ASSUME NEW n \in 0..N PROVE f[n] = Body(f)[n]
    OBVIOUS
  <2>1. CASE n = 0
    BY <2>1, <1>3 DEF Follows
  <2>2. CASE n # 0
    <3>1. n \in 1..N /\ f[n - 1] \in Nat
      BY <2>2, <1>3 DEF Follows
    <3> QED
      BY <3>1, <1>3 DEF Follows, Cell
  <2> QED
    BY <2>1, <2>2
<1>5. cell = Body(cell)
  BY <1>4
<1>6. Row(previous, x, b) = cell
  BY DEF Row
<1>7. /\ DOMAIN cell = 0..N
      /\ cell[0] = previous[0] + 1
      /\ \A j \in 1..N : cell[j] = Cell(cell[j - 1], previous[j], previous[j - 1], x, b[j])
  <2> DEFINE g == cell
  <2>1. /\ DOMAIN Body(g) = 0..N
        /\ \A j \in 0..N : Body(g)[j] = IF j = 0 THEN previous[0] + 1
                                     ELSE Cell(g[j - 1], previous[j], previous[j - 1], x, b[j])
    BY DEF Cell
  <2>2. g = Body(g)
    BY <1>5
  <2> HIDE DEF g, N, Body
  <2>3. /\ DOMAIN g = 0..N
        /\ \A j \in 0..N : g[j] = IF j = 0 THEN previous[0] + 1
                               ELSE Cell(g[j - 1], previous[j], previous[j - 1], x, b[j])
    BY <2>1, <2>2
  <2>4. /\ g[0] = previous[0] + 1
        /\ \A j \in 1..N : g[j] = Cell(g[j - 1], previous[j], previous[j - 1], x, b[j])
    BY <1>1, <2>3
  <2> QED
    BY <2>3, <2>4 DEF g
<1>8. cell = [j \in 0..N |-> cell[j]]
  BY <1>5
<1> HIDE DEF cell
<1> DEFINE S == {j \in 0..N : cell[j] \in Nat}
<1>9. 0 \in S
  BY <1>1, <1>7
<1>10. \A j \in 1..N : j - 1 \in S => j \in S
  <2> SUFFICES ASSUME NEW j \in 1..N, cell[j - 1] \in Nat PROVE cell[j] \in Nat
    OBVIOUS
  <2>1. previous[j] \in Nat /\ previous[j - 1] \in Nat
    OBVIOUS
  <2> QED
    BY <1>7, <2>1, CellIs
<1>11. \A j \in 0..N : j \in S
  <2> HIDE DEF S, N
  <2> QED
    BY <1>1, <1>9, <1>10, BoundedInduction, Zenon
<1>12. cell \in [0..N -> Nat]
  BY <1>8, <1>11
<1> QED
  BY <1>6, <1>7, <1>12

\* The whole table for two sequences.
IsTable(t, a, b) ==
  /\ t \in [0..Len(a) -> [0..Len(b) -> Nat]]
  /\ \A j \in 0..Len(b) : t[0][j] = j
  /\ \A i \in 1..Len(a) : t[i][0] = t[i - 1][0] + 1
  /\ \A i \in 1..Len(a), j \in 1..Len(b) :
       t[i][j] = Cell(t[i][j - 1], t[i - 1][j], t[i - 1][j - 1], a[i], b[j])

\* The definition computes a table, and its last cell is the distance.
LEMMA TableIs ==
  ASSUME NEW a, NEW b, Len(a) \in Nat, Len(b) \in Nat
  PROVE  \E t : /\ IsTable(t, a, b)
                /\ a # b /\ a # <<>> /\ b # <<>> => Levenshtein(a, b) = t[Len(a)][Len(b)]
<1> DEFINE N == Len(a)  M == Len(b)  V == [0..M -> Nat]
           start == [j \in 0..M |-> j]
           step == [p \in (1..N) \X V |-> Row(p[2], a[p[1]], b)]
           Body(f) == [i \in 0..N |-> IF i = 0 THEN [j \in 0..M |-> j]
                                      ELSE Row(f[i - 1], a[i], b)]
           rows == CHOOSE f : f = Body(f)
<1>1. N \in Nat /\ M \in Nat /\ start \in V
  OBVIOUS
<1>2. step \in Steps(N, V)
  <2>1. ASSUME NEW i \in 1..N, NEW v \in V PROVE Row(v, a[i], b) \in V
    BY RowIs
  <2> HIDE DEF V
  <2> QED
    BY <2>1 DEF Steps
<1>3. PICK f : Follows(f, N, V, start, step)
  <2> HIDE DEF N, V, start, step
  <2> QED
    BY <1>1, <1>2, Recursion
<1>4. f = Body(f)
  <2> f \in [0..N -> V]
    BY <1>3 DEF Follows
  <2> HIDE DEF V
  <2> SUFFICES ASSUME NEW n \in 0..N PROVE f[n] = Body(f)[n]
    OBVIOUS
  <2>1. CASE n = 0
    BY <2>1, <1>3 DEF Follows
  <2>2. CASE n # 0
    <3>1. n \in 1..N /\ f[n - 1] \in V
      BY <2>2, <1>3 DEF Follows
    <3> QED
      BY <3>1, <1>3 DEF Follows
  <2> QED
    BY <2>1, <2>2
<1>5. rows = Body(rows)
  BY <1>4
<1>6. a # b /\ a # <<>> /\ b # <<>> => Levenshtein(a, b) = rows[N][M]
  BY DEF Levenshtein
<1>7. /\ rows = [i \in 0..N |-> rows[i]]
      /\ rows[0] = start
      /\ \A i \in 1..N : rows[i] = Row(rows[i - 1], a[i], b)
  <2> DEFINE g == rows
  <2>1. /\ Body(g) = [i \in 0..N |-> Body(g)[i]]
        /\ \A i \in 0..N : Body(g)[i] = IF i = 0 THEN start ELSE Row(g[i - 1], a[i], b)
    OBVIOUS
  <2>2. g = Body(g)
    BY <1>5
  <2> HIDE DEF g, N, Body, start
  <2>3. /\ g = [i \in 0..N |-> g[i]]
        /\ \A i \in 0..N : g[i] = IF i = 0 THEN start ELSE Row(g[i - 1], a[i], b)
    BY <2>1, <2>2
  <2>4. 0 \in 0..N /\ \A i \in 1..N : i \in 0..N /\ i # 0
    <3>1. N \in Nat
      BY <1>1
    <3> QED
      BY <3>1
  <2>5. g[0] = start /\ \A i \in 1..N : g[i] = Row(g[i - 1], a[i], b)
    BY <2>3, <2>4
  <2> QED
    BY <2>3, <2>5 DEF g
<1> HIDE DEF rows
<1> DEFINE S == {i \in 0..N : rows[i] \in V}
<1>8. 0 \in S
  BY <1>1, <1>7
<1>9. \A i \in 1..N : i - 1 \in S => i \in S
  <2> SUFFICES ASSUME NEW i \in 1..N, rows[i - 1] \in V PROVE rows[i] \in V
    OBVIOUS
  <2>1. rows[i] = Row(rows[i - 1], a[i], b)
    BY <1>7
  <2>2. Row(rows[i - 1], a[i], b) \in V
    BY <1>1, RowIs
  <2> QED
    BY <2>1, <2>2
<1>10. \A i \in 0..N : i \in S
  <2> HIDE DEF S, N
  <2> QED
    BY <1>1, <1>8, <1>9, BoundedInduction, Zenon
<1>11. rows \in [0..N -> V]
  <2> HIDE DEF V
  <2> QED
    BY <1>7, <1>10
<1>12. ASSUME NEW i \in 1..N
       PROVE  /\ rows[i][0] = rows[i - 1][0] + 1
              /\ \A j \in 1..M : rows[i][j] = Cell(rows[i][j - 1], rows[i - 1][j],
                                                   rows[i - 1][j - 1], a[i], b[j])
  <2>1. rows[i - 1] \in V /\ rows[i] = Row(rows[i - 1], a[i], b)
    <3>1. i \in 1..N /\ i - 1 \in 0..N
      BY <1>1
    <3> HIDE DEF V, N
    <3> QED
      BY <1>7, <1>11, <3>1
  <2> QED
    BY <2>1, RowIs
<1>13. IsTable(rows, a, b)
  BY <1>7, <1>11, <1>12 DEF IsTable
<1> QED
  BY <1>6, <1>13

\* Two lists have a table.
LEMMA TableExists ==
  ASSUME NEW a \in Seq(Types), NEW b \in Seq(Types)
  PROVE  \E t : IsTable(t, a, b)
<1>1. Len(a) \in Nat /\ Len(b) \in Nat
  OBVIOUS
<1> QED
  BY <1>1, TableIs

\* a is a beginning of c.
Begins(a, c) == Len(a) <= Len(c) /\ \A i \in 1..Len(a) : a[i] = c[i]

\* The table of two beginnings is a part of the table.
LEMMA TablePart ==
  ASSUME NEW a \in Seq(Types), NEW b \in Seq(Types), NEW c \in Seq(Types), NEW d \in Seq(Types),
         NEW t, NEW u, IsTable(t, a, b), IsTable(u, c, d), Begins(a, c), Begins(b, d)
  PROVE  t[Len(a)][Len(b)] = u[Len(a)][Len(b)]
<1> USE DEF Begins
<1> Len(a) \in Nat /\ Len(b) \in Nat /\ Len(c) \in Nat /\ Len(d) \in Nat
  OBVIOUS
<1> DEFINE Same(n) == \A i \in 0..Len(a), j \in 0..Len(b) : i + j <= n => t[i][j] = u[i][j]
           S == {n \in Nat : Same(n)}
<1>1. ASSUME NEW j \in 0..Len(b) PROVE t[0][j] = u[0][j]
  <2>1. j \in 0..Len(d)
    OBVIOUS
  <2> QED
    BY <2>1 DEF IsTable
<1>2. ASSUME NEW i \in 1..Len(a)
      PROVE  t[i][0] = t[i - 1][0] + 1 /\ u[i][0] = u[i - 1][0] + 1
  <2>1. i \in 1..Len(c)
    OBVIOUS
  <2> QED
    BY <2>1 DEF IsTable
<1>3. ASSUME NEW i \in 1..Len(a), NEW j \in 1..Len(b)
      PROVE  /\ t[i][j] = Cell(t[i][j - 1], t[i - 1][j], t[i - 1][j - 1], a[i], b[j])
             /\ u[i][j] = Cell(u[i][j - 1], u[i - 1][j], u[i - 1][j - 1], a[i], b[j])
  <2>1. i \in 1..Len(c) /\ j \in 1..Len(d) /\ a[i] = c[i] /\ b[j] = d[j]
    OBVIOUS
  <2>2. t[i][j] = Cell(t[i][j - 1], t[i - 1][j], t[i - 1][j - 1], a[i], b[j])
    BY DEF IsTable
  <2>3. u[i][j] = Cell(u[i][j - 1], u[i - 1][j], u[i - 1][j - 1], c[i], d[j])
    BY <2>1 DEF IsTable
  <2> QED
    BY <2>1, <2>2, <2>3
<1>4. 0 \in S
  BY <1>1
<1>5. \A n \in S : n + 1 \in S
  <2> HIDE DEF Same
  <2> SUFFICES ASSUME NEW n \in Nat, Same(n) PROVE Same(n + 1)
    OBVIOUS
  <2> USE DEF Same
  <2> SUFFICES ASSUME NEW i \in 0..Len(a), NEW j \in 0..Len(b), i + j <= n + 1
               PROVE  t[i][j] = u[i][j]
    OBVIOUS
  <2>1. CASE i = 0
    BY <1>1, <2>1
  <2>2. CASE i # 0 /\ j = 0
    <3>1. i \in 1..Len(a) /\ i - 1 \in 0..Len(a) /\ (i - 1) + 0 <= n
      BY <2>2
    <3>2. t[i - 1][0] = u[i - 1][0]
      BY <3>1, <2>2
    <3> QED
      BY <1>2, <2>2, <3>1, <3>2
  <2>3. CASE i # 0 /\ j # 0
    <3>1. /\ i \in 1..Len(a) /\ i - 1 \in 0..Len(a)
          /\ j \in 1..Len(b) /\ j - 1 \in 0..Len(b)
          /\ i + (j - 1) <= n /\ (i - 1) + j <= n /\ (i - 1) + (j - 1) <= n
      <4> HIDE DEF Begins, Same
      <4>1. i \in Int /\ j \in Int /\ 0 <= i /\ i <= Len(a) /\ 0 <= j /\ j <= Len(b)
        OBVIOUS
      <4>2. i \in 1..Len(a) /\ i - 1 \in 0..Len(a)
        BY <2>3, <4>1
      <4>3. j \in 1..Len(b) /\ j - 1 \in 0..Len(b)
        BY <2>3, <4>1
      <4>4. i + (j - 1) <= n /\ (i - 1) + j <= n /\ (i - 1) + (j - 1) <= n
        BY <4>1
      <4> QED
        BY <4>2, <4>3, <4>4
    <3>2. /\ t[i][j - 1] = u[i][j - 1]
          /\ t[i - 1][j] = u[i - 1][j]
          /\ t[i - 1][j - 1] = u[i - 1][j - 1]
      BY <3>1
    <3> HIDE DEF Same
    <3> QED
      BY <1>3, <3>1, <3>2
  <2> QED
    BY <2>1, <2>2, <2>3
<1>6. S = Nat
  <2> HIDE DEF Same
  <2> QED
    BY <1>4, <1>5, SetInduction
<1>7. /\ Len(a) + Len(b) \in Nat /\ Len(a) + Len(b) <= Len(a) + Len(b)
      /\ Len(a) \in 0..Len(a) /\ Len(b) \in 0..Len(b)
  OBVIOUS
<1>8. Same(Len(a) + Len(b))
  <2> HIDE DEF Same
  <2> QED
    BY <1>6, <1>7
<1> QED
  BY <1>7, <1>8

\* The distance is the last cell of the table, and the shortcuts agree with it.
LEMMA LastCell ==
  ASSUME NEW a \in Seq(Types), NEW b \in Seq(Types), NEW t, IsTable(t, a, b)
  PROVE  Levenshtein(a, b) = t[Len(a)][Len(b)] /\ Levenshtein(a, b) \in Nat
<1> DEFINE N == Len(a)  M == Len(b)
<1>1. N \in Nat /\ M \in Nat
  OBVIOUS
<1>2. t[N][M] \in Nat
  <2>1. N \in 0..N /\ M \in 0..M /\ t \in [0..N -> [0..M -> Nat]]
    BY <1>1 DEF IsTable
  <2> HIDE DEF N, M
  <2> QED
    BY <2>1
<1>3. CASE a = b
  <2> DEFINE S == {i \in 0..N : t[i][i] = 0}
  <2>1. 0 \in S
    BY <1>1, <1>3 DEF IsTable
  <2>2. \A i \in 1..N : i - 1 \in S => i \in S
    <3> SUFFICES ASSUME NEW i \in 1..N, t[i - 1][i - 1] = 0 PROVE t[i][i] = 0
      OBVIOUS
    <3>1. /\ t[i][i] = Cell(t[i][i - 1], t[i - 1][i], t[i - 1][i - 1], a[i], a[i])
          /\ t[i][i - 1] \in Nat /\ t[i - 1][i] \in Nat
      <4>1. i \in 0..N /\ i - 1 \in 0..N /\ M = N /\ b = a
        BY <1>1, <1>3
      <4>2. t[i] \in [0..N -> Nat] /\ t[i - 1] \in [0..N -> Nat]
        BY <4>1 DEF IsTable
      <4>3. t[i][i - 1] \in Nat /\ t[i - 1][i] \in Nat
        BY <4>1, <4>2
      <4>4. t[i][i] = Cell(t[i][i - 1], t[i - 1][i], t[i - 1][i - 1], a[i], a[i])
        BY <4>1 DEF IsTable
      <4> QED
        BY <4>3, <4>4
    <3>2. Substitution(a[i], a[i]) = 0
      BY DEF Substitution
    <3>3. 0 \in Nat /\ 0 + Substitution(a[i], a[i]) = 0
      BY <3>2
    <3> DEFINE u == t[i][i - 1]  v == t[i - 1][i]  c == Cell(u, v, 0, a[i], a[i])
    <3>4. t[i][i] = c /\ u \in Nat /\ v \in Nat
      BY <3>1
    <3> HIDE DEF u, v
    <3>5. c \in Nat /\ c <= 0 + Substitution(a[i], a[i])
      BY <3>3, <3>4, CellIs
    <3> QED
      BY <3>3, <3>4, <3>5
  <2>3. \A i \in 0..N : i \in S
    <3> HIDE DEF S, N
    <3> QED
      BY <1>1, <2>1, <2>2, BoundedInduction, Zenon
  <2>4. t[N][N] = 0
    BY <1>1, <2>3
  <2>5. Levenshtein(a, b) = 0
    BY <1>3 DEF Levenshtein
  <2> QED
    BY <1>3, <2>4, <2>5
<1>4. CASE a # b /\ a = <<>>
  <2>1. Levenshtein(a, b) = M
    BY <1>4 DEF Levenshtein
  <2>2. t[N][M] = M
    BY <1>1, <1>4 DEF IsTable
  <2> QED
    BY <1>1, <2>1, <2>2
<1>5. CASE a # b /\ a # <<>> /\ b = <<>>
  <2> DEFINE S == {i \in 0..N : t[i][0] = i}
  <2>1. 0 \in S
    BY <1>1 DEF IsTable
  <2>2. \A i \in 1..N : i - 1 \in S => i \in S
    <3> SUFFICES ASSUME NEW i \in 1..N, t[i - 1][0] = i - 1 PROVE t[i][0] = i
      OBVIOUS
    <3>1. t[i][0] = t[i - 1][0] + 1
      BY DEF IsTable
    <3> QED
      BY <3>1
  <2>3. \A i \in 0..N : i \in S
    <3> HIDE DEF S, N
    <3> QED
      BY <1>1, <2>1, <2>2, BoundedInduction, Zenon
  <2>4. t[N][0] = N
    BY <1>1, <2>3
  <2>5. Levenshtein(a, b) = N /\ M = 0
    BY <1>5 DEF Levenshtein
  <2> QED
    BY <1>1, <2>4, <2>5
<1>6. CASE a # b /\ a # <<>> /\ b # <<>>
  <2>1. PICK u : IsTable(u, a, b) /\ Levenshtein(a, b) = u[N][M]
    BY <1>1, <1>6, TableIs
  <2>2. Begins(a, a) /\ Begins(b, b)
    BY <1>1 DEF Begins
  <2>3. t[N][M] = u[N][M]
    BY <2>1, <2>2, TablePart
  <2> QED
    BY <1>2, <2>1, <2>3
<1> QED
  BY <1>3, <1>4, <1>5, <1>6

\* The distance of sequences from the distances of shorter ones.
LEMMA DistanceType ==
  ASSUME NEW a \in Seq(Types), NEW b \in Seq(Types)
  PROVE  Levenshtein(a, b) \in Nat
<1>1. PICK t : IsTable(t, a, b)
  BY TableExists
<1> QED
  BY <1>1, LastCell

\* The distance to the empty list is the length.
LEMMA DistanceEmpty ==
  ASSUME NEW a \in Seq(Types)
  PROVE  Levenshtein(<<>>, a) = Len(a) /\ Levenshtein(a, <<>>) = Len(a)
<1>1. CASE a = <<>>
  BY <1>1 DEF Levenshtein
<1>2. CASE a # <<>>
  BY <1>2 DEF Levenshtein
<1> QED
  BY <1>1, <1>2

\* The distance of two lists that end in x and y, from those without the ends.
LEMMA DistanceStep ==
  ASSUME NEW a \in Seq(Types), NEW b \in Seq(Types), NEW x \in Types, NEW y \in Types
  PROVE  Levenshtein(Append(a, x), Append(b, y)) =
           Cell(Levenshtein(Append(a, x), b), Levenshtein(a, Append(b, y)), Levenshtein(a, b), x, y)
<1> DEFINE c == Append(a, x)  d == Append(b, y)  n == Len(a)  m == Len(b)
<1>1. /\ c \in Seq(Types) /\ Len(c) = n + 1 /\ c[n + 1] = x
      /\ \A i \in 1..n : c[i] = a[i]
      /\ n \in Nat
  OBVIOUS
<1>2. /\ d \in Seq(Types) /\ Len(d) = m + 1 /\ d[m + 1] = y
      /\ \A j \in 1..m : d[j] = b[j]
      /\ m \in Nat
  OBVIOUS
<1> HIDE DEF c, d
<1> SUFFICES Levenshtein(c, d) = Cell(Levenshtein(c, b), Levenshtein(a, d), Levenshtein(a, b), x, y)
  BY DEF c, d
<1>3. Begins(a, c) /\ Begins(b, d) /\ Begins(c, c) /\ Begins(d, d)
  BY <1>1, <1>2 DEF Begins
<1>4. PICK t : IsTable(t, c, d)
  BY <1>1, <1>2, TableExists
<1>5. ASSUME NEW e \in Seq(Types), NEW f \in Seq(Types), Begins(e, c), Begins(f, d)
      PROVE  Levenshtein(e, f) = t[Len(e)][Len(f)]
  <2>1. PICK u : IsTable(u, e, f)
    BY TableExists
  <2>2. Levenshtein(e, f) = u[Len(e)][Len(f)]
    BY <2>1, LastCell
  <2>3. u[Len(e)][Len(f)] = t[Len(e)][Len(f)]
    BY <1>1, <1>2, <1>4, <1>5, <2>1, TablePart
  <2> QED
    BY <2>2, <2>3
<1>6. /\ Levenshtein(c, d) = t[n + 1][m + 1]
      /\ Levenshtein(c, b) = t[n + 1][m]
      /\ Levenshtein(a, d) = t[n][m + 1]
      /\ Levenshtein(a, b) = t[n][m]
  BY <1>1, <1>2, <1>3, <1>5
<1>7. t[n + 1][m + 1] = Cell(t[n + 1][m], t[n][m + 1], t[n][m], x, y)
  <2>1. n + 1 \in 1..Len(c) /\ m + 1 \in 1..Len(d) /\ (n + 1) - 1 = n /\ (m + 1) - 1 = m
    BY <1>1, <1>2
  <2>2. t[n + 1][m + 1] = Cell(t[n + 1][(m + 1) - 1], t[(n + 1) - 1][m + 1],
                               t[(n + 1) - 1][(m + 1) - 1], c[n + 1], d[m + 1])
    BY <1>4, <2>1 DEF IsTable
  <2> QED
    BY <1>1, <1>2, <2>1, <2>2
<1> QED
  BY <1>6, <1>7

-----------------------------------------------------------------------------
(* The distance as a metric.  From here on the table is not looked at.       *)

\* One token more on both sides.
LEMMA StepIs ==
  ASSUME NEW a \in Seq(Types), NEW b \in Seq(Types), NEW x \in Types, NEW y \in Types
  PROVE  LET ax == Append(a, x)
             by == Append(b, y)
         IN  /\ Levenshtein(ax, by) \in {Levenshtein(ax, b) + 1, Levenshtein(a, by) + 1,
                                         Levenshtein(a, b) + Substitution(x, y)}
             /\ Levenshtein(ax, by) <= Levenshtein(ax, b) + 1
             /\ Levenshtein(ax, by) <= Levenshtein(a, by) + 1
             /\ Levenshtein(ax, by) <= Levenshtein(a, b) + Substitution(x, y)
<1> DEFINE ax == Append(a, x)  by == Append(b, y)
<1>1. ax \in Seq(Types) /\ by \in Seq(Types)
  OBVIOUS
<1>2. Levenshtein(ax, by) = Cell(Levenshtein(ax, b), Levenshtein(a, by), Levenshtein(a, b), x, y)
  BY DistanceStep
<1> HIDE DEF ax, by
<1>3. Levenshtein(ax, b) \in Nat /\ Levenshtein(a, by) \in Nat /\ Levenshtein(a, b) \in Nat
  BY <1>1, DistanceType
<1> DEFINE u == Levenshtein(ax, b)  v == Levenshtein(a, by)  w == Levenshtein(a, b)
           c == Levenshtein(ax, by)
<1>4. u \in Nat /\ v \in Nat /\ w \in Nat /\ c = Cell(u, v, w, x, y)
  BY <1>2, <1>3
<1> HIDE DEF u, v, w, c
<1>5. c \in {u + 1, v + 1, w + Substitution(x, y)} /\ c <= u + 1 /\ c <= v + 1 /\ c <= w + Substitution(x, y)
  BY <1>4, CellIs
<1> QED
  BY <1>5 DEF u, v, w, c, ax, by

\* One token more on one side.
LEMMA LongerIs ==
  ASSUME NEW a \in Seq(Types), NEW b \in Seq(Types), NEW x \in Types
  PROVE  /\ Levenshtein(Append(a, x), b) <= Levenshtein(a, b) + 1
         /\ Levenshtein(a, Append(b, x)) <= Levenshtein(a, b) + 1
<1>1. Levenshtein(Append(a, x), b) <= Levenshtein(a, b) + 1
  <2>1. CASE b = <<>>
    <3>1. Append(a, x) \in Seq(Types) /\ Len(Append(a, x)) = Len(a) + 1 /\ Len(a) \in Nat
      OBVIOUS
    <3>2. Levenshtein(Append(a, x), b) = Len(a) + 1 /\ Levenshtein(a, b) = Len(a)
      BY <2>1, <3>1, DistanceEmpty
    <3> QED
      BY <3>1, <3>2
  <2>2. CASE b # <<>>
    <3>1. PICK d \in Seq(Types), y \in Types : b = Append(d, y)
      BY <2>2, SequenceEmptyOrAppend
    <3> QED
      BY <3>1, StepIs
  <2> QED
    BY <2>1, <2>2
<1>2. Levenshtein(a, Append(b, x)) <= Levenshtein(a, b) + 1
  <2>1. CASE a = <<>>
    <3>1. Append(b, x) \in Seq(Types) /\ Len(Append(b, x)) = Len(b) + 1 /\ Len(b) \in Nat
      OBVIOUS
    <3>2. Levenshtein(a, Append(b, x)) = Len(b) + 1 /\ Levenshtein(a, b) = Len(b)
      BY <2>1, <3>1, DistanceEmpty
    <3> QED
      BY <3>1, <3>2
  <2>2. CASE a # <<>>
    <3>1. PICK c \in Seq(Types), y \in Types : a = Append(c, y)
      BY <2>2, SequenceEmptyOrAppend
    <3> QED
      BY <3>1, StepIs
  <2> QED
    BY <2>1, <2>2
<1> QED
  BY <1>1, <1>2

\* The last edit of a cheapest sequence of edits from a to b.
Removal(a, b) ==
  \E c \in Seq(Types), x \in Types :
    /\ a = Append(c, x) /\ Len(a) = Len(c) + 1
    /\ Levenshtein(a, b) = Levenshtein(c, b) + 1

Insertion(a, b) ==
  \E d \in Seq(Types), y \in Types :
    /\ b = Append(d, y) /\ Len(b) = Len(d) + 1
    /\ Levenshtein(a, b) = Levenshtein(a, d) + 1

Replacement(a, b) ==
  \E c, d \in Seq(Types), x, y \in Types :
    /\ a = Append(c, x) /\ Len(a) = Len(c) + 1
    /\ b = Append(d, y) /\ Len(b) = Len(d) + 1
    /\ Levenshtein(a, b) = Levenshtein(c, d) + Substitution(x, y)

\* One of the three comes last.
LEMMA LastEdit ==
  ASSUME NEW a \in Seq(Types), NEW b \in Seq(Types), a # <<>> \/ b # <<>>
  PROVE  Removal(a, b) \/ Insertion(a, b) \/ Replacement(a, b)
<1>1. ASSUME NEW s \in Seq(Types), s # <<>>
      PROVE  \E c \in Seq(Types), x \in Types : s = Append(c, x) /\ Len(s) = Len(c) + 1
  <2>1. PICK c \in Seq(Types), x \in Types : s = Append(c, x)
    BY <1>1, SequenceEmptyOrAppend
  <2>2. Len(s) = Len(c) + 1
    BY <2>1
  <2> QED
    BY <2>1, <2>2
<1>2. CASE b = <<>>
  <2>1. PICK c \in Seq(Types), x \in Types : a = Append(c, x) /\ Len(a) = Len(c) + 1
    BY <1>1, <1>2
  <2>2. Levenshtein(a, b) = Len(a) /\ Levenshtein(c, b) = Len(c)
    BY <1>2, DistanceEmpty
  <2> QED
    BY <2>1, <2>2 DEF Removal
<1>3. CASE a = <<>>
  <2>1. PICK d \in Seq(Types), y \in Types : b = Append(d, y) /\ Len(b) = Len(d) + 1
    BY <1>1, <1>3
  <2>2. Levenshtein(a, b) = Len(b) /\ Levenshtein(a, d) = Len(d)
    BY <1>3, DistanceEmpty
  <2> QED
    BY <2>1, <2>2 DEF Insertion
<1>4. CASE a # <<>> /\ b # <<>>
  <2>1. PICK c \in Seq(Types), x \in Types : a = Append(c, x) /\ Len(a) = Len(c) + 1
    BY <1>1, <1>4
  <2>2. PICK d \in Seq(Types), y \in Types : b = Append(d, y) /\ Len(b) = Len(d) + 1
    BY <1>1, <1>4
  <2>3. \/ Levenshtein(a, b) = Levenshtein(a, d) + 1
        \/ Levenshtein(a, b) = Levenshtein(c, b) + 1
        \/ Levenshtein(a, b) = Levenshtein(c, d) + Substitution(x, y)
    BY <2>1, <2>2, StepIs
  <2> QED
    BY <2>1, <2>2, <2>3 DEF Removal, Insertion, Replacement
<1> QED
  BY <1>2, <1>3, <1>4

\* Two sequences at no distance are the same.
LEMMA ZeroDistance ==
  ASSUME NEW a \in Seq(Types), NEW b \in Seq(Types)
  PROVE  Levenshtein(a, b) = 0 <=> a = b
<1> DEFINE Right(n) == \A c, d \in Seq(Types) :
                         Len(c) + Len(d) <= n /\ Levenshtein(c, d) = 0 => c = d
           S == {n \in Nat : Right(n)}
<1>1. 0 \in S
  <2> SUFFICES ASSUME NEW c \in Seq(Types), NEW d \in Seq(Types), Len(c) + Len(d) <= 0
               PROVE  c = d
    OBVIOUS
  <2>1. Len(c) \in Nat /\ Len(d) \in Nat
    OBVIOUS
  <2>2. Len(c) = 0 /\ Len(d) = 0
    BY <2>1
  <2> QED
    BY <2>2
<1>2. \A n \in S : n + 1 \in S
  <2> HIDE DEF Right
  <2> SUFFICES ASSUME NEW n \in Nat, Right(n) PROVE Right(n + 1)
    OBVIOUS
  <2> USE DEF Right
  <2> SUFFICES ASSUME NEW c \in Seq(Types), NEW d \in Seq(Types),
                      Len(c) + Len(d) <= n + 1, Levenshtein(c, d) = 0
               PROVE  c = d
    OBVIOUS
  <2>1. ASSUME NEW e \in Seq(Types), NEW f \in Seq(Types) PROVE Levenshtein(e, f) \in Nat
    BY DistanceType
  <2>2. CASE c = <<>> /\ d = <<>>
    BY <2>2
  <2>3. CASE Removal(c, d)
    <3>1. PICK e \in Seq(Types) : Levenshtein(c, d) = Levenshtein(e, d) + 1
      BY <2>3 DEF Removal
    <3>2. Levenshtein(e, d) \in Nat
      BY <2>1
    <3> QED
      BY <3>1, <3>2
  <2>4. CASE Insertion(c, d)
    <3>1. PICK f \in Seq(Types) : Levenshtein(c, d) = Levenshtein(c, f) + 1
      BY <2>4 DEF Insertion
    <3>2. Levenshtein(c, f) \in Nat
      BY <2>1
    <3> QED
      BY <3>1, <3>2
  <2>5. CASE Replacement(c, d)
    <3>1. PICK e \in Seq(Types), f \in Seq(Types), x \in Types, y \in Types :
            /\ c = Append(e, x) /\ Len(c) = Len(e) + 1
            /\ d = Append(f, y) /\ Len(d) = Len(f) + 1
            /\ Levenshtein(c, d) = Levenshtein(e, f) + Substitution(x, y)
      BY <2>5 DEF Replacement
    <3>2. Levenshtein(e, f) = 0 /\ x = y
      <4>1. Levenshtein(e, f) \in Nat
        BY <2>1
      <4>2. Substitution(x, y) = IF x = y THEN 0 ELSE 1
        BY DEF Substitution
      <4>3. Levenshtein(e, f) + Substitution(x, y) = 0
        BY <3>1
      <4> QED
        BY <4>1, <4>2, <4>3
    <3>3. Len(e) \in Nat /\ Len(f) \in Nat
      OBVIOUS
    <3>4. Len(e) + Len(f) <= n
      BY <3>1, <3>3
    <3>5. e = f
      BY <3>2, <3>4
    <3> QED
      BY <3>1, <3>2, <3>5
  <2> QED
    BY <2>2, <2>3, <2>4, <2>5, LastEdit
<1>3. S = Nat
  <2> HIDE DEF Right
  <2> QED
    BY <1>1, <1>2, SetInduction
<1>4. Len(a) + Len(b) \in Nat
  OBVIOUS
<1>5. Right(Len(a) + Len(b))
  <2> HIDE DEF Right
  <2> QED
    BY <1>3, <1>4
<1>6. Levenshtein(a, b) = 0 => a = b
  BY <1>4, <1>5
<1>7. a = b => Levenshtein(a, b) = 0
  BY DEF Levenshtein
<1> QED
  BY <1>6, <1>7

\* A detour is not shorter.
LEMMA TriangleStep ==
  ASSUME NEW n \in Nat,
         \A a, b, c \in Seq(Types) : Len(a) + Len(b) + Len(c) <= n =>
           Levenshtein(a, c) <= Levenshtein(a, b) + Levenshtein(b, c),
         NEW a \in Seq(Types), NEW b \in Seq(Types), NEW c \in Seq(Types),
         Len(a) + Len(b) + Len(c) <= n + 1
  PROVE  Levenshtein(a, c) <= Levenshtein(a, b) + Levenshtein(b, c)
<1>1. ASSUME NEW e \in Seq(Types), NEW f \in Seq(Types)
      PROVE  Levenshtein(e, f) \in Nat
  BY DistanceType
<1>2. ASSUME NEW e \in Seq(Types)
      PROVE  Len(e) \in Nat
  OBVIOUS
<1>3. ASSUME NEW e \in Seq(Types), NEW f \in Seq(Types), NEW g \in Seq(Types),
             Len(e) + Len(f) + Len(g) <= n
      PROVE  Levenshtein(e, g) <= Levenshtein(e, f) + Levenshtein(f, g)
  BY <1>3
<1>4. CASE a = b
  BY <1>1, <1>4
<1>5. CASE b = c
  BY <1>1, <1>5
<1>6. CASE Removal(a, b)
  <2>1. PICK d \in Seq(Types), x \in Types :
          a = Append(d, x) /\ Len(a) = Len(d) + 1 /\ Levenshtein(a, b) = Levenshtein(d, b) + 1
    BY <1>6 DEF Removal
  <2>2. Len(d) + Len(b) + Len(c) <= n
    BY <1>2, <2>1
  <2>3. Levenshtein(d, c) <= Levenshtein(d, b) + Levenshtein(b, c)
    BY <1>3, <2>2
  <2>4. Levenshtein(a, c) <= Levenshtein(d, c) + 1
    BY <2>1, LongerIs
  <2>5. /\ Levenshtein(a, c) \in Nat /\ Levenshtein(d, c) \in Nat
        /\ Levenshtein(d, b) \in Nat /\ Levenshtein(b, c) \in Nat
    BY <1>1
  <2> QED
    BY <2>1, <2>3, <2>4, <2>5
<1>7. CASE Insertion(b, c)
  <2>1. PICK d \in Seq(Types), x \in Types :
          c = Append(d, x) /\ Len(c) = Len(d) + 1 /\ Levenshtein(b, c) = Levenshtein(b, d) + 1
    BY <1>7 DEF Insertion
  <2>2. Len(a) + Len(b) + Len(d) <= n
    BY <1>2, <2>1
  <2>3. Levenshtein(a, d) <= Levenshtein(a, b) + Levenshtein(b, d)
    BY <1>3, <2>2
  <2>4. Levenshtein(a, c) <= Levenshtein(a, d) + 1
    BY <2>1, LongerIs
  <2>5. /\ Levenshtein(a, c) \in Nat /\ Levenshtein(a, d) \in Nat
        /\ Levenshtein(a, b) \in Nat /\ Levenshtein(b, d) \in Nat
    BY <1>1
  <2> QED
    BY <2>1, <2>3, <2>4, <2>5
<1>8. CASE Insertion(a, b) /\ Removal(b, c)
  <2>1. PICK d \in Seq(Types), y \in Types :
          b = Append(d, y) /\ Len(b) = Len(d) + 1 /\ Levenshtein(a, b) = Levenshtein(a, d) + 1
    BY <1>8 DEF Insertion
  <2>2. PICK f \in Seq(Types), z \in Types :
          b = Append(f, z) /\ Levenshtein(b, c) = Levenshtein(f, c) + 1
    BY <1>8 DEF Removal
  <2>3. f = d
    <3>1. Append(d, y) = Append(f, z)
      BY <2>1, <2>2
    <3> QED
      BY <3>1, AppendInjective
  <2>4. Len(a) + Len(d) + Len(c) <= n
    BY <1>2, <2>1
  <2>5. Levenshtein(a, c) <= Levenshtein(a, d) + Levenshtein(d, c)
    BY <1>3, <2>4
  <2>6. /\ Levenshtein(a, c) \in Nat /\ Levenshtein(a, d) \in Nat /\ Levenshtein(d, c) \in Nat
    BY <1>1
  <2> QED
    BY <2>1, <2>2, <2>3, <2>5, <2>6
<1>9. CASE Insertion(a, b) /\ Replacement(b, c)
  <2>1. PICK d \in Seq(Types), y \in Types :
          b = Append(d, y) /\ Len(b) = Len(d) + 1 /\ Levenshtein(a, b) = Levenshtein(a, d) + 1
    BY <1>9 DEF Insertion
  <2>2. PICK f \in Seq(Types), g \in Seq(Types), v \in Types, z \in Types :
          /\ b = Append(f, v)
          /\ c = Append(g, z) /\ Len(c) = Len(g) + 1
          /\ Levenshtein(b, c) = Levenshtein(f, g) + Substitution(v, z)
    BY <1>9 DEF Replacement
  <2>3. f = d
    <3>1. Append(d, y) = Append(f, v)
      BY <2>1, <2>2
    <3> QED
      BY <3>1, AppendInjective
  <2>4. Len(a) + Len(d) + Len(g) <= n
    BY <1>2, <2>1, <2>2
  <2>5. Levenshtein(a, g) <= Levenshtein(a, d) + Levenshtein(d, g)
    BY <1>3, <2>4
  <2>6. Levenshtein(a, c) <= Levenshtein(a, g) + 1
    BY <2>2, LongerIs
  <2>7. /\ Levenshtein(a, c) \in Nat /\ Levenshtein(a, d) \in Nat
        /\ Levenshtein(d, g) \in Nat /\ Levenshtein(a, g) \in Nat
    BY <1>1
  <2>8. Substitution(v, z) \in Nat
    BY DEF Substitution
  <2>9. Levenshtein(b, c) = Levenshtein(d, g) + Substitution(v, z)
    BY <2>2, <2>3
  <2> DEFINE ac == Levenshtein(a, c)  ad == Levenshtein(a, d)  dg == Levenshtein(d, g)
             ag == Levenshtein(a, g)  vz == Substitution(v, z)
             ab == Levenshtein(a, b)  bc == Levenshtein(b, c)
  <2>10. /\ ac \in Nat /\ ad \in Nat /\ dg \in Nat /\ ag \in Nat /\ vz \in Nat
         /\ ag <= ad + dg /\ ac <= ag + 1 /\ ab = ad + 1 /\ bc = dg + vz
    BY <2>1, <2>5, <2>6, <2>7, <2>8, <2>9
  <2> HIDE DEF ac, ad, dg, ag, vz, ab, bc
  <2>11. ac <= ab + bc
    BY <2>10
  <2> QED
    BY <2>11 DEF ac, ab, bc
<1>10. CASE Replacement(a, b) /\ Removal(b, c)
  <2>1. PICK d \in Seq(Types), e \in Seq(Types), x \in Types, y \in Types :
          /\ a = Append(d, x) /\ Len(a) = Len(d) + 1
          /\ b = Append(e, y) /\ Len(b) = Len(e) + 1
          /\ Levenshtein(a, b) = Levenshtein(d, e) + Substitution(x, y)
    BY <1>10 DEF Replacement
  <2>2. PICK f \in Seq(Types), z \in Types :
          b = Append(f, z) /\ Levenshtein(b, c) = Levenshtein(f, c) + 1
    BY <1>10 DEF Removal
  <2>3. f = e
    <3>1. Append(e, y) = Append(f, z)
      BY <2>1, <2>2
    <3> QED
      BY <3>1, AppendInjective
  <2>4. Len(d) + Len(e) + Len(c) <= n
    BY <1>2, <2>1
  <2>5. Levenshtein(d, c) <= Levenshtein(d, e) + Levenshtein(e, c)
    BY <1>3, <2>4
  <2>6. Levenshtein(a, c) <= Levenshtein(d, c) + 1
    BY <2>1, LongerIs
  <2>7. /\ Levenshtein(a, c) \in Nat /\ Levenshtein(d, c) \in Nat
        /\ Levenshtein(d, e) \in Nat /\ Levenshtein(e, c) \in Nat
    BY <1>1
  <2>8. Substitution(x, y) \in Nat
    BY DEF Substitution
  <2>9. Levenshtein(b, c) = Levenshtein(e, c) + 1
    BY <2>2, <2>3
  <2>10. Levenshtein(a, b) = Levenshtein(d, e) + Substitution(x, y)
    BY <2>1
  <2> DEFINE ac == Levenshtein(a, c)  dc == Levenshtein(d, c)  de == Levenshtein(d, e)
             ec == Levenshtein(e, c)  xy == Substitution(x, y)
             ab == Levenshtein(a, b)  bc == Levenshtein(b, c)
  <2>11. /\ ac \in Nat /\ dc \in Nat /\ de \in Nat /\ ec \in Nat /\ xy \in Nat
         /\ dc <= de + ec /\ ac <= dc + 1 /\ ab = de + xy /\ bc = ec + 1
    BY <2>5, <2>6, <2>7, <2>8, <2>9, <2>10
  <2> HIDE DEF ac, dc, de, ec, xy, ab, bc
  <2>12. ac <= ab + bc
    BY <2>11
  <2> QED
    BY <2>12 DEF ac, ab, bc
<1>11. CASE Replacement(a, b) /\ Replacement(b, c)
  <2>1. PICK d \in Seq(Types), e \in Seq(Types), x \in Types, y \in Types :
          /\ a = Append(d, x) /\ Len(a) = Len(d) + 1
          /\ b = Append(e, y) /\ Len(b) = Len(e) + 1
          /\ Levenshtein(a, b) = Levenshtein(d, e) + Substitution(x, y)
    BY <1>11 DEF Replacement
  <2>2. PICK f \in Seq(Types), g \in Seq(Types), v \in Types, z \in Types :
          /\ b = Append(f, v)
          /\ c = Append(g, z) /\ Len(c) = Len(g) + 1
          /\ Levenshtein(b, c) = Levenshtein(f, g) + Substitution(v, z)
    <3>1. Replacement(b, c)
      BY <1>11
    <3> QED
      BY <3>1 DEF Replacement
  <2>3. f = e /\ v = y
    <3>1. Append(e, y) = Append(f, v)
      BY <2>1, <2>2
    <3> QED
      BY <3>1, AppendInjective
  <2>4. Len(d) + Len(e) + Len(g) <= n
    BY <1>2, <2>1, <2>2
  <2>5. Levenshtein(d, g) <= Levenshtein(d, e) + Levenshtein(e, g)
    BY <1>3, <2>4
  <2>6. Levenshtein(a, c) <= Levenshtein(d, g) + Substitution(x, z)
    BY <2>1, <2>2, StepIs
  <2>7. /\ Levenshtein(a, c) \in Nat /\ Levenshtein(d, g) \in Nat
        /\ Levenshtein(d, e) \in Nat /\ Levenshtein(e, g) \in Nat
    BY <1>1
  <2>8. /\ Substitution(x, y) \in Nat /\ Substitution(y, z) \in Nat /\ Substitution(x, z) \in Nat
        /\ Substitution(x, z) <= Substitution(x, y) + Substitution(y, z)
    BY DEF Substitution
  <2>9. Levenshtein(b, c) = Levenshtein(e, g) + Substitution(y, z)
    BY <2>2, <2>3
  <2>10. Levenshtein(a, b) = Levenshtein(d, e) + Substitution(x, y)
    BY <2>1
  <2> DEFINE ac == Levenshtein(a, c)  dg == Levenshtein(d, g)  de == Levenshtein(d, e)
             eg == Levenshtein(e, g)  xy == Substitution(x, y)  yz == Substitution(y, z)
             xz == Substitution(x, z)  ab == Levenshtein(a, b)  bc == Levenshtein(b, c)
  <2>11. /\ ac \in Nat /\ dg \in Nat /\ de \in Nat /\ eg \in Nat
         /\ xy \in Nat /\ yz \in Nat /\ xz \in Nat
         /\ dg <= de + eg /\ ac <= dg + xz /\ xz <= xy + yz
         /\ ab = de + xy /\ bc = eg + yz
    BY <2>5, <2>6, <2>7, <2>8, <2>9, <2>10
  <2> HIDE DEF ac, dg, de, eg, xy, yz, xz, ab, bc
  <2>12. ac <= ab + bc
    BY <2>11
  <2> QED
    BY <2>12 DEF ac, ab, bc
<1>12. CASE a # b /\ b # c
  <2>1. Removal(a, b) \/ Insertion(a, b) \/ Replacement(a, b)
    BY <1>12, LastEdit
  <2>2. Removal(b, c) \/ Insertion(b, c) \/ Replacement(b, c)
    BY <1>12, LastEdit
  <2> QED
    BY <1>6, <1>7, <1>8, <1>9, <1>10, <1>11, <2>1, <2>2
<1> QED
  BY <1>4, <1>5, <1>12

\* A detour is not shorter, whatever the lengths.
LEMMA Triangle ==
  ASSUME NEW a \in Seq(Types), NEW b \in Seq(Types), NEW c \in Seq(Types)
  PROVE  Levenshtein(a, c) <= Levenshtein(a, b) + Levenshtein(b, c)
<1> DEFINE Right(n) == \A d, e, f \in Seq(Types) : Len(d) + Len(e) + Len(f) <= n =>
                         Levenshtein(d, f) <= Levenshtein(d, e) + Levenshtein(e, f)
           S == {n \in Nat : Right(n)}
<1>1. 0 \in S
  <2> SUFFICES ASSUME NEW d \in Seq(Types), NEW e \in Seq(Types), NEW f \in Seq(Types),
                      Len(d) + Len(e) + Len(f) <= 0
               PROVE  Levenshtein(d, f) <= Levenshtein(d, e) + Levenshtein(e, f)
    OBVIOUS
  <2>1. Len(d) \in Nat /\ Len(e) \in Nat /\ Len(f) \in Nat
    OBVIOUS
  <2>2. Len(d) = 0 /\ Len(e) = 0 /\ Len(f) = 0
    BY <2>1
  <2>3. d = e /\ e = f
    BY <2>2
  <2>4. Levenshtein(d, d) \in Nat
    BY DistanceType
  <2> QED
    BY <2>3, <2>4
<1>2. \A n \in S : n + 1 \in S
  <2> HIDE DEF Right
  <2> SUFFICES ASSUME NEW n \in Nat, Right(n) PROVE Right(n + 1)
    OBVIOUS
  <2> USE DEF Right
  <2> QED
    BY TriangleStep
<1>3. S = Nat
  <2> HIDE DEF Right
  <2> QED
    BY <1>1, <1>2, SetInduction
<1>4. Len(a) + Len(b) + Len(c) \in Nat
  OBVIOUS
<1>5. Right(Len(a) + Len(b) + Len(c))
  <2> HIDE DEF Right
  <2> QED
    BY <1>3, <1>4
<1> QED
  BY <1>4, <1>5

-----------------------------------------------------------------------------
(* One edit.                                                                 *)

\* What an insertion and a removal make of a sequence, token by token.
Inserted(r, s, i, x) ==
  /\ r \in Seq(Types) /\ Len(r) = Len(s) + 1
  /\ \A k \in 1..(Len(s) + 1) : r[k] = IF k < i THEN s[k] ELSE IF k = i THEN x ELSE s[k - 1]

Removed(r, s, i) ==
  /\ r \in Seq(Types) /\ Len(r) = Len(s) - 1
  /\ \A k \in 1..(Len(s) - 1) : r[k] = IF k < i THEN s[k] ELSE s[k + 1]

\* One sequence after the other.
Joined(r, s, t) ==
  /\ r \in Seq(Types) /\ Len(r) = Len(s) + Len(t)
  /\ \A k \in 1..Len(s) : r[k] = s[k]
  /\ \A k \in 1..Len(t) : r[Len(s) + k] = t[k]

\* What \o makes.
LEMMA ConcatIs ==
  ASSUME NEW s \in Seq(Types), NEW t \in Seq(Types)
  PROVE  Joined(s \o t, s, t)
<1> DEFINE r == s \o t  n == Len(s)  m == Len(t)
<1>1. n \in Nat /\ m \in Nat
  OBVIOUS
<1>2. r \in Seq(Types) /\ Len(r) = n + m
  OBVIOUS
<1>3. \A k \in 1..n : r[k] = s[k]
  OBVIOUS
<1>4. \A k \in 1..m : r[n + k] = t[k]
  OBVIOUS
<1> HIDE DEF r
<1>5. Joined(r, s, t)
  BY <1>2, <1>3, <1>4 DEF Joined
<1> QED
  BY <1>5 DEF r

\* What InsertAt makes.
LEMMA InsertIs ==
  ASSUME NEW s \in Seq(Types), NEW i \in 1..(Len(s) + 1), NEW x \in Types
  PROVE  Inserted(InsertAt(s, i, x), s, i, x)
<1> DEFINE n == Len(s)  u == SubSeq(s, 1, i - 1)  v == SubSeq(s, i, n)  w == <<x>>
           uw == u \o w  r == uw \o v
<1>1. n \in Nat /\ i \in 1..(n + 1) /\ i \in Int /\ \A k \in 1..n : s[k] \in Types
  OBVIOUS
<1>2. u \in Seq(Types) /\ Len(u) = i - 1 /\ \A k \in 1..(i - 1) : u[k] = s[k]
  BY <1>1
<1>3. v \in Seq(Types) /\ Len(v) = n - i + 1 /\ \A k \in 1..(n - i + 1) : v[k] = s[i + k - 1]
  BY <1>1
<1>4. w \in Seq(Types) /\ Len(w) = 1 /\ w[1] = x
  OBVIOUS
<1>5. InsertAt(s, i, x) = r
  BY DEF InsertAt
<1> HIDE DEF n, u, v, w
<1>6. Joined(uw, u, w)
  BY <1>2, <1>4, ConcatIs
<1> HIDE DEF uw
<1>7. /\ uw \in Seq(Types) /\ Len(uw) = i
      /\ \A k \in 1..(i - 1) : uw[k] = s[k]
      /\ uw[i] = x
  <2>1. (i - 1) + 1 = i /\ 1 \in 1..1
    BY <1>1
  <2> QED
    BY <1>2, <1>4, <1>6, <2>1 DEF Joined
<1>8. Joined(r, uw, v)
  BY <1>3, <1>7, ConcatIs
<1> HIDE DEF r
<1>9. /\ r \in Seq(Types) /\ Len(r) = n + 1
      /\ \A k \in 1..i : r[k] = uw[k]
      /\ \A k \in 1..(n - i + 1) : r[i + k] = s[i + k - 1]
  <2>1. i + (n - i + 1) = n + 1
    BY <1>1
  <2> QED
    BY <1>3, <1>7, <1>8, <2>1 DEF Joined
<1>10. ASSUME NEW k \in 1..(n + 1)
       PROVE  r[k] = IF k < i THEN s[k] ELSE IF k = i THEN x ELSE s[k - 1]
  <2>1. CASE k < i
    <3>1. k \in 1..(i - 1) /\ k \in 1..i
      BY <1>1, <2>1
    <3> QED
      BY <1>7, <1>9, <2>1, <3>1
  <2>2. CASE k = i
    <3>1. i \in 1..i /\ ~(i < i)
      BY <1>1
    <3> QED
      BY <1>7, <1>9, <2>2, <3>1
  <2>3. CASE k > i
    <3>1. k - i \in 1..(n - i + 1) /\ i + (k - i) = k /\ i + (k - i) - 1 = k - 1 /\ ~(k < i) /\ k # i
      BY <1>1, <2>3
    <3> QED
      BY <1>9, <3>1
  <2>4. k < i \/ k = i \/ k > i
    BY <1>1
  <2> QED
    BY <2>1, <2>2, <2>3, <2>4
<1>11. Inserted(r, s, i, x)
  BY <1>9, <1>10 DEF Inserted, n
<1> QED
  BY <1>5, <1>11

\* What RemoveAt makes.
LEMMA RemoveIs ==
  ASSUME NEW s \in Seq(Types), NEW i \in 1..Len(s)
  PROVE  Removed(RemoveAt(s, i), s, i)
<1> DEFINE n == Len(s)  u == SubSeq(s, 1, i - 1)  v == SubSeq(s, i + 1, n)  r == u \o v
<1>1. n \in Nat /\ i \in 1..n /\ i \in Int /\ \A k \in 1..n : s[k] \in Types
  OBVIOUS
<1>2. u \in Seq(Types) /\ Len(u) = i - 1 /\ \A k \in 1..(i - 1) : u[k] = s[k]
  BY <1>1
<1>3. v \in Seq(Types) /\ Len(v) = n - i /\ \A k \in 1..(n - i) : v[k] = s[i + k]
  BY <1>1
<1>4. RemoveAt(s, i) = r
  BY DEF RemoveAt
<1> HIDE DEF n, u, v
<1>5. Joined(r, u, v)
  BY <1>2, <1>3, ConcatIs
<1> HIDE DEF r
<1>6. /\ r \in Seq(Types) /\ Len(r) = n - 1
      /\ \A k \in 1..(i - 1) : r[k] = s[k]
      /\ \A k \in 1..(n - i) : r[(i - 1) + k] = s[i + k]
  <2>1. (i - 1) + (n - i) = n - 1
    BY <1>1
  <2> QED
    BY <1>2, <1>3, <1>5, <2>1 DEF Joined
<1>7. ASSUME NEW k \in 1..(n - 1)
      PROVE  r[k] = IF k < i THEN s[k] ELSE s[k + 1]
  <2>1. CASE k < i
    <3>1. k \in 1..(i - 1)
      BY <1>1, <2>1
    <3> QED
      BY <1>6, <2>1, <3>1
  <2>2. CASE ~(k < i)
    <3> DEFINE j == k - (i - 1)
    <3>1. j \in 1..(n - i) /\ (i - 1) + j = k /\ i + j = k + 1
      BY <1>1, <2>2
    <3> HIDE DEF j
    <3> QED
      BY <1>6, <2>2, <3>1
  <2> QED
    BY <2>1, <2>2
<1>8. Removed(r, s, i)
  BY <1>6, <1>7 DEF Removed, n
<1> QED
  BY <1>4, <1>8

\* A token more, a token less and another token at the end are edits, and so is
\* an edit before the last token.
LEMMA EndEdits ==
  ASSUME NEW s \in Seq(Types), NEW x \in Types, NEW y \in Types
  PROVE  /\ Append(s, x) \in Edits(s)
         /\ s \in Edits(Append(s, x))
         /\ Append(s, y) \in Edits(Append(s, x))
<1> DEFINE n == Len(s)  sx == Append(s, x)  sy == Append(s, y)
<1>1. /\ n \in Nat
      /\ sx \in Seq(Types) /\ Len(sx) = n + 1 /\ sx[n + 1] = x /\ \A k \in 1..n : sx[k] = s[k]
      /\ sy \in Seq(Types) /\ Len(sy) = n + 1 /\ sy[n + 1] = y /\ \A k \in 1..n : sy[k] = s[k]
  OBVIOUS
<1> HIDE DEF sx, sy
<1>2. sx \in Edits(s)
  <2>1. n + 1 \in 1..(n + 1)
    BY <1>1
  <2> DEFINE r == InsertAt(s, n + 1, x)
  <2>2. Inserted(r, s, n + 1, x)
    BY <2>1, InsertIs
  <2> HIDE DEF r
  <2>3. \A k \in 1..(n + 1) : r[k] = sx[k]
    <3>1. \A k \in 1..(n + 1) : (k < n + 1 /\ k \in 1..n) \/ (k = n + 1 /\ ~(k < n + 1))
      BY <1>1
    <3> QED
      BY <1>1, <2>2, <3>1 DEF Inserted
  <2>4. r \in Seq(Types) /\ Len(r) = n + 1
    BY <2>2 DEF Inserted
  <2>5. sx = r
    BY <1>1, <2>3, <2>4, SeqEqual
  <2> QED
    BY <2>1, <2>5 DEF Edits, r
<1>3. s \in Edits(sx)
  <2>1. n + 1 \in 1..Len(sx) /\ Len(sx) - 1 = n
    BY <1>1
  <2> DEFINE r == RemoveAt(sx, n + 1)
  <2>2. Removed(r, sx, n + 1)
    BY <1>1, <2>1, RemoveIs
  <2> HIDE DEF r
  <2>3. r \in Seq(Types) /\ Len(r) = n /\ \A k \in 1..n : r[k] = s[k]
    <3>1. \A k \in 1..n : k < n + 1
      BY <1>1
    <3> QED
      BY <1>1, <2>1, <2>2, <3>1 DEF Removed
  <2>4. s = r
    BY <2>3, SeqEqual
  <2> QED
    BY <2>1, <2>4 DEF Edits, r
<1>4. sy \in Edits(sx)
  <2>1. n + 1 \in 1..Len(sx)
    BY <1>1
  <2>2. /\ ReplaceAt(sx, n + 1, y) \in Seq(Types)
        /\ Len(ReplaceAt(sx, n + 1, y)) = n + 1
        /\ \A k \in 1..(n + 1) : ReplaceAt(sx, n + 1, y)[k] = IF k = n + 1 THEN y ELSE sx[k]
    BY <1>1, <2>1, ExceptSeq DEF ReplaceAt
  <2>3. \A k \in 1..(n + 1) : ReplaceAt(sx, n + 1, y)[k] = sy[k]
    <3>1. \A k \in 1..(n + 1) : k # n + 1 => k \in 1..n
      BY <1>1
    <3> QED
      BY <1>1, <2>2, <3>1
  <2>4. sy = ReplaceAt(sx, n + 1, y)
    BY <1>1, <2>2, <2>3, SeqEqual
  <2> QED
    BY <2>1, <2>4 DEF Edits
<1> QED
  BY <1>2, <1>3, <1>4 DEF sx, sy

\* An edit is an edit also where one token follows.
LEMMA InnerEdits ==
  ASSUME NEW s \in Seq(Types), NEW x \in Types, NEW e \in Edits(s)
  PROVE  e \in Seq(Types) /\ Append(e, x) \in Edits(Append(s, x))
<1> DEFINE n == Len(s)  sx == Append(s, x)  ex == Append(e, x)
<1>1. /\ n \in Nat
      /\ sx \in Seq(Types) /\ Len(sx) = n + 1 /\ sx[n + 1] = x /\ \A k \in 1..n : sx[k] = s[k]
  OBVIOUS
<1>2. ASSUME e \in Seq(Types)
      PROVE  /\ ex \in Seq(Types) /\ Len(ex) = Len(e) + 1 /\ ex[Len(e) + 1] = x
             /\ \A k \in 1..Len(e) : ex[k] = e[k]
  BY <1>2
<1> HIDE DEF sx, ex
<1>3. ASSUME NEW i \in 1..(n + 1), NEW z \in Types, e = InsertAt(s, i, z)
      PROVE  e \in Seq(Types) /\ ex \in Edits(sx)
  <2>1. /\ e \in Seq(Types) /\ Len(e) = n + 1
        /\ \A k \in 1..(n + 1) : e[k] = IF k < i THEN s[k] ELSE IF k = i THEN z ELSE s[k - 1]
    <3>1. Inserted(e, s, i, z)
      BY <1>3, InsertIs
    <3> QED
      BY <3>1 DEF Inserted
  <2>2. i \in 1..(Len(sx) + 1)
    BY <1>1
  <2> DEFINE r == InsertAt(sx, i, z)
  <2>3. Inserted(r, sx, i, z)
    BY <1>1, <2>2, InsertIs
  <2> HIDE DEF r
  <2>7. /\ r \in Seq(Types) /\ Len(r) = n + 2
        /\ \A k \in 1..(n + 2) : r[k] = IF k < i THEN sx[k] ELSE IF k = i THEN z ELSE sx[k - 1]
    <3>1. Len(sx) + 1 = n + 2
      BY <1>1
    <3> QED
      BY <2>3, <3>1 DEF Inserted
  <2>4. ex \in Seq(Types) /\ Len(ex) = n + 2 /\ ex[n + 2] = x /\ \A k \in 1..(n + 1) : ex[k] = e[k]
    <3>1. (n + 1) + 1 = n + 2
      BY <1>1
    <3> QED
      BY <1>2, <2>1, <3>1
  <2>5. ASSUME NEW k \in 1..(n + 2) PROVE ex[k] = r[k]
    <3>1. CASE k = n + 2
      <4>1. ~(k < i) /\ k # i /\ k - 1 = n + 1
        BY <1>1, <3>1
      <4> QED
        BY <1>1, <2>7, <2>4, <3>1, <4>1
    <3>2. CASE k # n + 2
      <4>1. /\ k \in 1..(n + 1) /\ (k < i => k \in 1..n)
            /\ (~(k < i) /\ k # i => k - 1 \in 1..n)
        BY <1>1, <3>2
      <4> QED
        BY <1>1, <2>1, <2>7, <2>4, <4>1
    <3> QED
      BY <3>1, <3>2
  <2>6. ex = r
    BY <2>7, <2>4, <2>5, SeqEqual
  <2> QED
    BY <2>1, <2>2, <2>6 DEF Edits, r
<1>4. ASSUME NEW i \in 1..n, NEW z \in Types, e = ReplaceAt(s, i, z)
      PROVE  e \in Seq(Types) /\ ex \in Edits(sx)
  <2>1. /\ e \in Seq(Types) /\ Len(e) = n
        /\ \A k \in 1..n : e[k] = IF k = i THEN z ELSE s[k]
    BY <1>4, ExceptSeq DEF ReplaceAt
  <2>2. i \in 1..Len(sx) /\ i # n + 1
    BY <1>1
  <2> DEFINE r == ReplaceAt(sx, i, z)
  <2>3. /\ r \in Seq(Types) /\ Len(r) = n + 1
        /\ \A k \in 1..(n + 1) : r[k] = IF k = i THEN z ELSE sx[k]
    BY <1>1, <2>2, ExceptSeq DEF ReplaceAt
  <2> HIDE DEF r
  <2>4. ex \in Seq(Types) /\ Len(ex) = n + 1 /\ ex[n + 1] = x /\ \A k \in 1..n : ex[k] = e[k]
    BY <1>2, <2>1
  <2>5. ASSUME NEW k \in 1..(n + 1) PROVE ex[k] = r[k]
    <3>1. k \in 1..n \/ k = n + 1
      BY <1>1
    <3> QED
      BY <1>1, <2>1, <2>2, <2>3, <2>4, <3>1
  <2>6. ex = r
    BY <2>3, <2>4, <2>5, SeqEqual
  <2> QED
    BY <2>1, <2>2, <2>6 DEF Edits, r
<1>5. ASSUME NEW i \in 1..n, e = RemoveAt(s, i)
      PROVE  e \in Seq(Types) /\ ex \in Edits(sx)
  <2>1. /\ e \in Seq(Types) /\ Len(e) = n - 1
        /\ \A k \in 1..(n - 1) : e[k] = IF k < i THEN s[k] ELSE s[k + 1]
    <3>1. Removed(e, s, i)
      BY <1>5, RemoveIs
    <3> QED
      BY <3>1 DEF Removed
  <2>2. i \in 1..Len(sx) /\ Len(sx) - 1 = n
    BY <1>1
  <2> DEFINE r == RemoveAt(sx, i)
  <2>7. Removed(r, sx, i)
    BY <1>1, <2>2, RemoveIs
  <2> HIDE DEF r
  <2>3. /\ r \in Seq(Types) /\ Len(r) = n
        /\ \A k \in 1..n : r[k] = IF k < i THEN sx[k] ELSE sx[k + 1]
    BY <2>2, <2>7 DEF Removed
  <2>4. ex \in Seq(Types) /\ Len(ex) = n /\ ex[n] = x /\ \A k \in 1..(n - 1) : ex[k] = e[k]
    <3>1. (n - 1) + 1 = n
      BY <1>1
    <3> QED
      BY <1>2, <2>1, <3>1
  <2>5. ASSUME NEW k \in 1..n PROVE ex[k] = r[k]
    <3>1. CASE k = n
      <4>1. ~(k < i)
        BY <3>1
      <4> QED
        BY <1>1, <2>3, <2>4, <3>1, <4>1
    <3>2. CASE k # n
      <4>1. k \in 1..(n - 1) /\ k + 1 \in 1..n /\ k \in 1..n
        BY <1>1, <3>2
      <4> QED
        BY <1>1, <2>1, <2>3, <2>4, <4>1
    <3> QED
      BY <3>1, <3>2
  <2>6. ex = r
    BY <2>3, <2>4, <2>5, SeqEqual
  <2> QED
    BY <2>1, <2>2, <2>6 DEF Edits, r
<1>6. e \in Seq(Types) /\ ex \in Edits(sx)
  BY <1>3, <1>4, <1>5 DEF Edits
<1> QED
  BY <1>6 DEF ex, sx

\* An edit of a that is one step from it and closer to b.
Closer(e, a, b) ==
  /\ e \in Edits(a) /\ e \in Seq(Types)
  /\ Levenshtein(e, b) + 1 <= Levenshtein(a, b)
  /\ Levenshtein(a, e) <= 1

\* Different lists are brought closer, if shorter ones are.
LEMMA CloserStep ==
  ASSUME NEW n \in Nat,
         \A c, d \in Seq(Types) : Len(c) + Len(d) <= n /\ c # d => \E e : Closer(e, c, d),
         NEW a \in Seq(Types), NEW b \in Seq(Types), Len(a) + Len(b) <= n + 1, a # b
  PROVE  \E e : Closer(e, a, b)
<1>1. ASSUME NEW e \in Seq(Types), NEW f \in Seq(Types)
      PROVE  Levenshtein(e, f) \in Nat
  BY DistanceType
<1>2. ASSUME NEW e \in Seq(Types)
      PROVE  Levenshtein(e, e) = 0
  BY ZeroDistance
<1>3. CASE Removal(a, b)
  <2>1. PICK c \in Seq(Types), x \in Types :
          a = Append(c, x) /\ Levenshtein(a, b) = Levenshtein(c, b) + 1
    BY <1>3 DEF Removal
  <2>2. c \in Edits(a)
    BY <2>1, EndEdits
  <2>3. Levenshtein(a, c) <= Levenshtein(c, c) + 1
    BY <2>1, LongerIs
  <2>4. Levenshtein(c, c) = 0 /\ Levenshtein(c, b) \in Nat
    BY <1>1, <1>2
  <2>5. Closer(c, a, b)
    BY <2>1, <2>2, <2>3, <2>4 DEF Closer
  <2> QED
    BY <2>5
<1>4. CASE Insertion(a, b)
  <2>1. PICK d \in Seq(Types), y \in Types :
          b = Append(d, y) /\ Levenshtein(a, b) = Levenshtein(a, d) + 1
    BY <1>4 DEF Insertion
  <2> DEFINE e == Append(a, y)
  <2>2. e \in Edits(a) /\ e \in Seq(Types)
    BY EndEdits
  <2>3. Levenshtein(a, e) <= Levenshtein(a, a) + 1
    BY LongerIs
  <2>4. Levenshtein(e, b) <= Levenshtein(a, d) + Substitution(y, y)
    BY <2>1, StepIs
  <2>5. Substitution(y, y) = 0
    BY DEF Substitution
  <2> HIDE DEF e
  <2>6. Levenshtein(a, a) = 0 /\ Levenshtein(a, d) \in Nat /\ Levenshtein(e, b) \in Nat
    BY <1>1, <1>2, <2>2
  <2>7. Closer(e, a, b)
    BY <2>1, <2>2, <2>3, <2>4, <2>5, <2>6 DEF Closer
  <2> QED
    BY <2>7
<1>5. CASE Replacement(a, b)
  <2>1. PICK c \in Seq(Types), d \in Seq(Types), x \in Types, y \in Types :
          /\ a = Append(c, x) /\ Len(a) = Len(c) + 1
          /\ b = Append(d, y) /\ Len(b) = Len(d) + 1
          /\ Levenshtein(a, b) = Levenshtein(c, d) + Substitution(x, y)
    BY <1>5 DEF Replacement
  <2>2. Levenshtein(c, d) \in Nat
    BY <1>1
  <2>3. CASE x # y
    <3> DEFINE e == Append(c, y)
    <3>1. e \in Edits(a) /\ e \in Seq(Types)
      BY <2>1, EndEdits
    <3>2. Levenshtein(a, e) <= Levenshtein(c, c) + Substitution(x, y)
      BY <2>1, StepIs
    <3>3. Levenshtein(e, b) <= Levenshtein(c, d) + Substitution(y, y)
      BY <2>1, StepIs
    <3>4. Substitution(x, y) = 1 /\ Substitution(y, y) = 0
      BY <2>3 DEF Substitution
    <3> HIDE DEF e
    <3>5. Levenshtein(c, c) = 0 /\ Levenshtein(e, b) \in Nat
      BY <1>1, <1>2, <3>1
    <3>6. Closer(e, a, b)
      BY <2>1, <2>2, <3>1, <3>2, <3>3, <3>4, <3>5 DEF Closer
    <3> QED
      BY <3>6
  <2>4. CASE x = y
    <3>1. Substitution(x, y) = 0 /\ Substitution(x, x) = 0
      BY <2>4 DEF Substitution
    <3>2. c # d /\ Len(c) + Len(d) <= n
      <4>1. Len(c) \in Nat /\ Len(d) \in Nat
        OBVIOUS
      <4> QED
        BY <2>1, <2>4, <4>1
    <3>3. PICK f : Closer(f, c, d)
      BY <3>2
    <3>4. f \in Edits(c) /\ f \in Seq(Types)
      BY <3>3 DEF Closer
    <3> DEFINE e == Append(f, x)
    <3>5. e \in Edits(a) /\ e \in Seq(Types)
      BY <2>1, <3>4, InnerEdits
    <3>6. Levenshtein(a, e) <= Levenshtein(c, f) + Substitution(x, x)
      BY <2>1, <3>4, StepIs
    <3>7. Levenshtein(e, b) <= Levenshtein(f, d) + Substitution(x, y)
      BY <2>1, <3>4, StepIs
    <3> HIDE DEF e
    <3>8. /\ Levenshtein(c, f) \in Nat /\ Levenshtein(f, d) \in Nat
          /\ Levenshtein(e, b) \in Nat /\ Levenshtein(a, e) \in Nat
      BY <1>1, <3>4, <3>5
    <3>9. Levenshtein(f, d) + 1 <= Levenshtein(c, d) /\ Levenshtein(c, f) <= 1
      BY <3>3 DEF Closer
    <3>10. Levenshtein(a, b) = Levenshtein(c, d)
      BY <2>1, <2>2, <3>1
    <3>11. Closer(e, a, b)
      BY <2>2, <3>1, <3>5, <3>6, <3>7, <3>8, <3>9, <3>10 DEF Closer
    <3> QED
      BY <3>11
  <2> QED
    BY <2>3, <2>4
<1> QED
  BY <1>3, <1>4, <1>5, LastEdit

\* Different sequences are brought closer by an edit.
LEMMA Nearer ==
  ASSUME NEW a \in Seq(Types), NEW b \in Seq(Types), a # b
  PROVE  \E e \in Edits(a) : Levenshtein(e, b) = Levenshtein(a, b) - 1
<1> DEFINE Right(n) == \A c, d \in Seq(Types) :
                         Len(c) + Len(d) <= n /\ c # d => \E e : Closer(e, c, d)
           S == {n \in Nat : Right(n)}
<1>1. 0 \in S
  <2> SUFFICES ASSUME NEW c \in Seq(Types), NEW d \in Seq(Types), Len(c) + Len(d) <= 0
               PROVE  c = d
    OBVIOUS
  <2>1. Len(c) \in Nat /\ Len(d) \in Nat
    OBVIOUS
  <2>2. Len(c) = 0 /\ Len(d) = 0
    BY <2>1
  <2> QED
    BY <2>2
<1>2. \A n \in S : n + 1 \in S
  <2> HIDE DEF Right
  <2> SUFFICES ASSUME NEW n \in Nat, Right(n) PROVE Right(n + 1)
    OBVIOUS
  <2> USE DEF Right
  <2> QED
    BY CloserStep
<1>3. S = Nat
  <2> HIDE DEF Right
  <2> QED
    BY <1>1, <1>2, SetInduction
<1>4. Len(a) + Len(b) \in Nat
  OBVIOUS
<1>5. Right(Len(a) + Len(b))
  <2> HIDE DEF Right
  <2> QED
    BY <1>3, <1>4
<1>6. PICK e : Closer(e, a, b)
  BY <1>4, <1>5
<1>7. /\ e \in Edits(a) /\ e \in Seq(Types)
      /\ Levenshtein(e, b) + 1 <= Levenshtein(a, b)
      /\ Levenshtein(a, e) <= 1
  BY <1>6 DEF Closer
<1>8. Levenshtein(a, b) <= Levenshtein(a, e) + Levenshtein(e, b)
  BY <1>7, Triangle
<1>9. Levenshtein(a, b) \in Nat /\ Levenshtein(e, b) \in Nat /\ Levenshtein(a, e) \in Nat
  BY <1>7, DistanceType
<1>10. Levenshtein(e, b) = Levenshtein(a, b) - 1
  BY <1>7, <1>8, <1>9
<1> QED
  BY <1>7, <1>10

-----------------------------------------------------------------------------
(* Matching a template with a document.                                      *)

\* The first place of a token.
FirstAt(s, e, i) == i \in 1..Len(s) /\ s[i] = e /\ \A k \in 1..(i - 1) : s[k] # e

\* A section is taken where its type first stands.
LEMMA TakenIs ==
  ASSUME NEW s \in Seq(Types), NEW e \in ToSet(s)
  PROVE  \E i : FirstAt(s, e, i) /\ Removed(RemoveFirst(s, e), s, i)
<1> DEFINE I == {i \in 1..Len(s) : s[i] = e}
<1>1. Len(s) \in Nat /\ I \in SUBSET Nat /\ I # {}
  BY DEF ToSet
<1>2. PICK m \in I : \A k \in I : ~ (<<k, m>> \in OpToRel(<, Nat))
  BY <1>1, NatLessThanWellFounded, WFMin
<1>3. m \in I /\ \A k \in I : m <= k
  <2>1. \A k \in I : ~ (k < m)
    BY <1>1, <1>2 DEF OpToRel
  <2> QED
    BY <1>1, <2>1
<1>4. Min(I) = m
  <2>1. Min(I) \in I /\ \A k \in I : Min(I) <= k
    BY <1>3 DEF Min
  <2>2. Min(I) \in Nat /\ m \in Nat /\ Min(I) <= m /\ m <= Min(I)
    BY <1>1, <1>3, <2>1
  <2> QED
    BY <2>2
<1>6. RemoveFirst(s, e) = RemoveAt(s, m)
  BY <1>3, <1>4 DEF RemoveFirst, SelectInSeq
<1>7. FirstAt(s, e, m)
  BY <1>1, <1>3 DEF FirstAt
<1>8. Removed(RemoveAt(s, m), s, m)
  BY <1>3, RemoveIs
<1> QED
  BY <1>6, <1>7, <1>8

\* Sequences with the same tokens are the same.
LEMMA SameIs ==
  ASSUME NEW r \in Seq(Types), NEW s \in Seq(Types), Len(r) = Len(s),
         \A k \in 1..Len(s) : r[k] = s[k]
  PROVE  r = s
  OBVIOUS

\* What is taken from a sequence with one more token at the end: that one, or
\* one before it.
LEMMA TakenLast ==
  ASSUME NEW s \in Seq(Types), NEW y \in Types, y \notin ToSet(s)
  PROVE  RemoveFirst(Append(s, y), y) = s
<1> DEFINE t == Append(s, y)  n == Len(s)
<1>1. /\ t \in Seq(Types) /\ Len(t) = n + 1 /\ t[n + 1] = y /\ n \in Nat
      /\ \A k \in 1..n : t[k] = s[k] /\ s[k] # y
  BY DEF ToSet
<1> HIDE DEF t
<1>2. y \in ToSet(t)
  BY <1>1 DEF ToSet
<1>3. PICK i : FirstAt(t, y, i) /\ Removed(RemoveFirst(t, y), t, i)
  BY <1>1, <1>2, TakenIs
<1>4. i = n + 1
  BY <1>1, <1>3 DEF FirstAt
<1> DEFINE r == RemoveFirst(t, y)
<1>5. r \in Seq(Types) /\ Len(r) = n /\ \A k \in 1..n : r[k] = s[k]
  BY <1>1, <1>3, <1>4 DEF Removed
<1> HIDE DEF r
<1>6. r = s
  BY <1>5, SameIs
<1> QED
  BY <1>6 DEF r, t

\* The token at the end stays where an earlier one is taken.
LEMMA TakenInner ==
  ASSUME NEW s \in Seq(Types), NEW y \in Types, NEW z \in ToSet(s)
  PROVE  RemoveFirst(Append(s, y), z) = Append(RemoveFirst(s, z), y)
<1> DEFINE t == Append(s, y)  n == Len(s)
<1>1. /\ t \in Seq(Types) /\ Len(t) = n + 1 /\ t[n + 1] = y /\ n \in Nat
      /\ \A k \in 1..n : t[k] = s[k]
  OBVIOUS
<1> HIDE DEF t
<1>2. PICK i : FirstAt(s, z, i) /\ Removed(RemoveFirst(s, z), s, i)
  BY TakenIs
<1>3. i \in 1..n /\ s[i] = z /\ \A k \in 1..(i - 1) : s[k] # z
  BY <1>2 DEF FirstAt
<1>4. z \in ToSet(t)
  BY <1>1, <1>3 DEF ToSet
<1>5. PICK j : FirstAt(t, z, j) /\ Removed(RemoveFirst(t, z), t, j)
  BY <1>1, <1>4, TakenIs
<1>6. j \in 1..(n + 1) /\ t[j] = z /\ \A k \in 1..(j - 1) : t[k] # z
  BY <1>1, <1>5 DEF FirstAt
<1>7. j = i
  <2>1. ~ (i < j)
    BY <1>1, <1>3, <1>6
  <2>2. ~ (j < i)
    BY <1>1, <1>3, <1>6
  <2> QED
    BY <1>1, <1>3, <1>6, <2>1, <2>2
<1> DEFINE r == RemoveFirst(s, z)  q == RemoveFirst(t, z)  p == Append(r, y)
<1>8. r \in Seq(Types) /\ Len(r) = n - 1 /\ \A k \in 1..(n - 1) : r[k] = IF k < i THEN s[k] ELSE s[k + 1]
  BY <1>2 DEF Removed
<1>9. q \in Seq(Types) /\ Len(q) = n /\ \A k \in 1..n : q[k] = IF k < i THEN t[k] ELSE t[k + 1]
  <2>1. (n + 1) - 1 = n
    BY <1>1
  <2> QED
    BY <1>1, <1>5, <1>7, <2>1 DEF Removed
<1> HIDE DEF r, q
<1>10. p \in Seq(Types) /\ Len(p) = n /\ p[n] = y /\ \A k \in 1..(n - 1) : p[k] = r[k]
  BY <1>1, <1>3, <1>8
<1> HIDE DEF p
<1>11. ASSUME NEW k \in 1..n PROVE q[k] = p[k]
  <2>1. CASE k = n
    <3>1. ~(n < i) /\ n \in 1..n
      BY <1>1, <1>3
    <3> QED
      BY <1>1, <1>9, <1>10, <2>1, <3>1
  <2>2. CASE k # n
    <3>1. k \in 1..(n - 1) /\ k + 1 \in 1..n
      BY <1>1, <2>2
    <3>2. t[k] = s[k] /\ t[k + 1] = s[k + 1]
      BY <1>1, <3>1
    <3> QED
      BY <1>8, <1>9, <1>10, <3>1, <3>2
  <2> QED
    BY <2>1, <2>2
<1>12. q = p
  BY <1>9, <1>10, <1>11, SameIs
<1> QED
  BY <1>12 DEF q, p, r, t

\* What a section of the template leaves of the document.
After(s, x) == IF x \in ToSet(s) THEN RemoveFirst(s, x) ELSE s

\* What is left is a list of section types.
LEMMA AfterType ==
  ASSUME NEW s \in Seq(Types), NEW x
  PROVE  After(s, x) \in Seq(Types)
<1>1. CASE x \in ToSet(s)
  BY <1>1, TakenIs DEF After, Removed
<1>2. CASE x \notin ToSet(s)
  BY <1>2 DEF After
<1> QED
  BY <1>1, <1>2

\* What the sections of a up to each one leave of b.
IsLeft(f, a, b) ==
  /\ f[0] = b
  /\ \A i \in 0..Len(a) : f[i] \in Seq(Types)
  /\ \A i \in 1..Len(a) : f[i] = After(f[i - 1], a[i])

Extra(a, b) == Alignment(a, b).extra

Matched(a, b) == Alignment(a, b).matched

\* What the sections leave, one after another, as the matching computes it.
LEMMA LeftExists ==
  ASSUME NEW a \in Seq(Types), NEW b \in Seq(Types)
  PROVE  \E f : /\ IsLeft(f, a, b)
                /\ Extra(a, b) = f[Len(a)]
                /\ Matched(a, b) = {i \in 1..Len(a) : a[i] \in ToSet(f[i - 1])}
<1> DEFINE N == Len(a)
           step == [p \in (1..N) \X Seq(Types) |-> After(p[2], a[p[1]])]
           Body(f) == [i \in 0..N |->
                         IF i = 0 THEN b
                         ELSE IF a[i] \in ToSet(f[i - 1])
                              THEN RemoveFirst(f[i - 1], a[i])
                              ELSE f[i - 1]]
           left == CHOOSE f : f = Body(f)
<1>1. N \in Nat
  OBVIOUS
<1>2. step \in Steps(N, Seq(Types))
  BY AfterType DEF Steps
<1>3. PICK f : Follows(f, N, Seq(Types), b, step)
  <2> HIDE DEF N, step
  <2> QED
    BY <1>1, <1>2, Recursion
<1>4. /\ f \in [0..N -> Seq(Types)] /\ f[0] = b
      /\ \A i \in 1..N : f[i] = After(f[i - 1], a[i])
  <2>1. /\ f \in [0..N -> Seq(Types)] /\ f[0] = b
        /\ \A i \in 1..N : f[i] = step[<<i, f[i - 1]>>]
    BY <1>3 DEF Follows
  <2>2. ASSUME NEW i \in 1..N PROVE f[i] = After(f[i - 1], a[i])
    <3>1. f[i - 1] \in Seq(Types)
      BY <1>1, <2>1
    <3> QED
      BY <2>1, <3>1
  <2> QED
    BY <2>1, <2>2
<1>5. f = Body(f)
  <2> SUFFICES ASSUME NEW i \in 0..N PROVE f[i] = Body(f)[i]
    BY <1>4
  <2>1. CASE i = 0
    BY <1>4, <2>1
  <2>2. CASE i # 0
    BY <1>4, <2>2 DEF After
  <2> QED
    BY <2>1, <2>2
<1>6. left = Body(left)
  BY <1>5
<1>7. Extra(a, b) = left[N] /\ Matched(a, b) = {i \in 1..N : a[i] \in ToSet(left[i - 1])}
  BY DEF Alignment, Extra, Matched
<1>8. left[0] = b /\ \A i \in 1..N : left[i] = After(left[i - 1], a[i])
  <2> DEFINE g == left
  <2>1. \A i \in 0..N : Body(g)[i] = IF i = 0 THEN b
                         ELSE IF a[i] \in ToSet(g[i - 1])
                              THEN RemoveFirst(g[i - 1], a[i])
                              ELSE g[i - 1]
    OBVIOUS
  <2>2. g = Body(g)
    BY <1>6
  <2> HIDE DEF g, N, Body
  <2>3. \A i \in 0..N : g[i] = IF i = 0 THEN b
                         ELSE IF a[i] \in ToSet(g[i - 1])
                              THEN RemoveFirst(g[i - 1], a[i])
                              ELSE g[i - 1]
    BY <2>1, <2>2
  <2>4. g[0] = b /\ \A i \in 1..N : g[i] = After(g[i - 1], a[i])
    BY <1>1, <2>3 DEF After
  <2> QED
    BY <2>4 DEF g
<1> HIDE DEF left, N
<1> DEFINE S == {i \in 0..N : left[i] \in Seq(Types)}
<1>9. 0 \in S
  BY <1>1, <1>8
<1>10. \A i \in 1..N : i - 1 \in S => i \in S
  BY <1>1, <1>8, AfterType
<1>11. \A i \in 0..N : i \in S
  <2> HIDE DEF S
  <2> QED
    BY <1>1, <1>9, <1>10, BoundedInduction, Zenon
<1>12. IsLeft(left, a, b)
  BY <1>8, <1>11 DEF IsLeft, N
<1> QED
  BY <1>7, <1>12 DEF N

\* The first sections of a template leave the same, whatever follows them.
LEMMA LeftPart ==
  ASSUME NEW a \in Seq(Types), NEW c \in Seq(Types), NEW b, NEW f, NEW g,
         IsLeft(f, a, b), IsLeft(g, c, b), Begins(a, c)
  PROVE  \A i \in 0..Len(a) : f[i] = g[i]
<1> DEFINE N == Len(a)
           S == {i \in 0..N : f[i] = g[i]}
<1>1. N \in Nat /\ N <= Len(c) /\ Len(c) \in Nat /\ \A i \in 1..N : a[i] = c[i]
  BY DEF Begins
<1>2. /\ f[0] = g[0]
      /\ \A i \in 1..N : f[i] = After(f[i - 1], a[i])
      /\ \A i \in 1..N : g[i] = After(g[i - 1], c[i])
  BY <1>1 DEF IsLeft
<1> HIDE DEF N
<1>3. 0 \in S
  BY <1>1, <1>2
<1>4. \A i \in 1..N : i - 1 \in S => i \in S
  <2> SUFFICES ASSUME NEW i \in 1..N, f[i - 1] = g[i - 1] PROVE f[i] = g[i]
    BY <1>1
  <2> QED
    BY <1>1, <1>2
<1>5. \A i \in 0..N : i \in S
  <2> HIDE DEF S
  <2> QED
    BY <1>1, <1>3, <1>4, BoundedInduction, Zenon
<1> QED
  BY <1>5 DEF N

\* How many sections of the template are found.
Found(a, b) == Cardinality(Matched(a, b))

\* The matching, section by section of the template.
LEMMA MatchEmpty ==
  ASSUME NEW b \in Seq(Types)
  PROVE  Extra(<<>>, b) = b /\ Found(<<>>, b) = 0
<1>1. <<>> \in Seq(Types) /\ Len(<<>>) = 0
  OBVIOUS
<1>2. PICK f : /\ IsLeft(f, <<>>, b)
               /\ Extra(<<>>, b) = f[Len(<<>>)]
               /\ Matched(<<>>, b) = {i \in 1..Len(<<>>) : <<>>[i] \in ToSet(f[i - 1])}
  BY <1>1, LeftExists
<1>3. f[0] = b
  BY <1>2 DEF IsLeft
<1>4. 1..0 = {}
  OBVIOUS
<1>5. Matched(<<>>, b) = {}
  BY <1>1, <1>2, <1>4
<1> QED
  BY <1>1, <1>2, <1>3, <1>5, FS_EmptySet DEF Found

\* What is left over is a list of section types, what is found a number.
LEMMA MatchType ==
  ASSUME NEW a \in Seq(Types), NEW b \in Seq(Types)
  PROVE  Extra(a, b) \in Seq(Types) /\ Found(a, b) \in Nat
<1>1. PICK f : /\ IsLeft(f, a, b)
               /\ Extra(a, b) = f[Len(a)]
               /\ Matched(a, b) = {i \in 1..Len(a) : a[i] \in ToSet(f[i - 1])}
  BY LeftExists
<1>2. Len(a) \in Nat /\ Len(a) \in 0..Len(a)
  OBVIOUS
<1>3. Extra(a, b) \in Seq(Types)
  BY <1>1, <1>2 DEF IsLeft
<1>4. IsFiniteSet(1..Len(a))
  BY <1>2, FS_Interval
<1>5. IsFiniteSet(Matched(a, b))
  BY <1>1, <1>4, FS_Subset
<1> QED
  BY <1>3, <1>5, FS_CardinalityType DEF Found

\* One section more in the template takes its type, if it is left.
LEMMA MatchStep ==
  ASSUME NEW a \in Seq(Types), NEW b \in Seq(Types), NEW x \in Types
  PROVE  /\ Extra(Append(a, x), b) = After(Extra(a, b), x)
         /\ Found(Append(a, x), b) = Found(a, b) + (IF x \in ToSet(Extra(a, b)) THEN 1 ELSE 0)
<1> DEFINE c == Append(a, x)  n == Len(a)
<1>1. /\ c \in Seq(Types) /\ Len(c) = n + 1 /\ c[n + 1] = x
      /\ \A i \in 1..n : c[i] = a[i]
      /\ n \in Nat
  OBVIOUS
<1> HIDE DEF c
<1>2. Begins(a, c)
  BY <1>1 DEF Begins
<1>3. PICK f : /\ IsLeft(f, a, b)
               /\ Extra(a, b) = f[n]
               /\ Matched(a, b) = {i \in 1..n : a[i] \in ToSet(f[i - 1])}
  BY LeftExists
<1>4. PICK g : /\ IsLeft(g, c, b)
               /\ Extra(c, b) = g[Len(c)]
               /\ Matched(c, b) = {i \in 1..Len(c) : c[i] \in ToSet(g[i - 1])}
  BY <1>1, LeftExists
<1>5. \A i \in 0..n : f[i] = g[i]
  BY <1>1, <1>2, <1>3, <1>4, LeftPart
<1> DEFINE here == x \in ToSet(Extra(a, b))
<1>6. g[n] = Extra(a, b) /\ (n + 1) - 1 = n /\ n + 1 \in 1..(n + 1)
  BY <1>1, <1>3, <1>5
<1>7. Extra(c, b) = After(Extra(a, b), x)
  BY <1>1, <1>4, <1>6 DEF IsLeft
<1>8. n + 1 \in Matched(c, b) <=> here
  BY <1>1, <1>4, <1>6
<1>9. \A i \in 1..n : i \in Matched(c, b) <=> i \in Matched(a, b)
  <2> TAKE i \in 1..n
  <2>1. i \in 1..(n + 1) /\ i - 1 \in 0..n
    BY <1>1
  <2>2. f[i - 1] = g[i - 1] /\ c[i] = a[i]
    BY <1>1, <1>5, <2>1
  <2> QED
    BY <1>1, <1>3, <1>4, <2>1, <2>2
<1>10. Matched(c, b) \subseteq 1..(n + 1) /\ Matched(a, b) \subseteq 1..n
  BY <1>1, <1>3, <1>4
<1>11. Matched(c, b) = Matched(a, b) \cup (IF here THEN {n + 1} ELSE {})
  <2>1. 1..(n + 1) = 1..n \cup {n + 1} /\ n + 1 \notin 1..n
    BY <1>1
  <2> HIDE DEF here
  <2> QED
    BY <1>8, <1>9, <1>10, <2>1
<1>12. IsFiniteSet(Matched(a, b)) /\ n + 1 \notin Matched(a, b)
  <2>1. IsFiniteSet(1..n)
    BY <1>1, FS_Interval
  <2>2. n + 1 \notin 1..n
    BY <1>1
  <2> QED
    BY <1>10, <2>1, <2>2, FS_Subset
<1>13. Found(c, b) = Found(a, b) + (IF here THEN 1 ELSE 0)
  <2> HIDE DEF here
  <2>1. CASE here
    BY <1>11, <1>12, <2>1, FS_AddElement DEF Found
  <2>2. CASE ~here
    <3>1. Matched(c, b) = Matched(a, b)
      BY <1>11, <2>2
    <3>2. Found(a, b) \in Nat
      BY MatchType
    <3> QED
      BY <2>2, <3>1, <3>2 DEF Found
  <2> QED
    BY <2>1, <2>2
<1> QED
  BY <1>7, <1>13 DEF c

\* One section more in the document is either left over, or found by one section
\* of the template more.
LeftOver(a, b, y) ==
  /\ Extra(a, Append(b, y)) = Append(Extra(a, b), y)
  /\ Found(a, Append(b, y)) = Found(a, b)

FoundMore(a, b, y) ==
  /\ Extra(a, Append(b, y)) = Extra(a, b)
  /\ Found(a, Append(b, y)) = Found(a, b) + 1

\* One section more in the template keeps to that.
LEMMA MoreStep ==
  ASSUME NEW a \in Seq(Types), NEW b \in Seq(Types), NEW x \in Types, NEW y \in Types,
         LeftOver(a, b, y) \/ FoundMore(a, b, y)
  PROVE  LeftOver(Append(a, x), b, y) \/ FoundMore(Append(a, x), b, y)
<1> DEFINE c == Append(a, x)  by == Append(b, y)  l == Extra(a, b)  more == Extra(a, by)
<1>1. c \in Seq(Types) /\ by \in Seq(Types)
  OBVIOUS
<1>2. /\ Extra(c, b) = After(l, x)
      /\ Found(c, b) = Found(a, b) + (IF x \in ToSet(l) THEN 1 ELSE 0)
  BY MatchStep
<1> HIDE DEF by
<1>3. /\ Extra(c, by) = After(more, x)
      /\ Found(c, by) = Found(a, by) + (IF x \in ToSet(more) THEN 1 ELSE 0)
  BY <1>1, MatchStep
<1>4. l \in Seq(Types) /\ Found(a, b) \in Nat
  BY MatchType
<1> USE DEF by
<1>5. CASE FoundMore(a, b, y)
  <2>1. more = l /\ Found(a, by) = Found(a, b) + 1
    BY <1>5 DEF FoundMore
  <2> HIDE DEF c, by, l, more
  <2>2. Extra(c, by) = Extra(c, b) /\ Found(c, by) = Found(c, b) + 1
    BY <1>2, <1>3, <1>4, <2>1
  <2> QED
    BY <2>2 DEF FoundMore, c, by
<1>6. CASE LeftOver(a, b, y)
  <2>1. more = Append(l, y) /\ Found(a, by) = Found(a, b)
    BY <1>6 DEF LeftOver
  <2>2. ToSet(Append(l, y)) = ToSet(l) \cup {y}
    BY <1>4, AppendSet
  <2> HIDE DEF c, by, l, more
  <2>3. CASE x \in ToSet(l)
    <3>1. RemoveFirst(Append(l, y), x) = Append(RemoveFirst(l, x), y)
      BY <1>4, <2>3, TakenInner
    <3>2. Extra(c, by) = Append(Extra(c, b), y) /\ Found(c, by) = Found(c, b)
      BY <1>2, <1>3, <2>1, <2>2, <2>3, <3>1 DEF After
    <3> QED
      BY <3>2 DEF LeftOver, c, by
  <2>4. CASE x \notin ToSet(l) /\ x = y
    <3>1. RemoveFirst(Append(l, y), x) = l
      BY <1>4, <2>4, TakenLast
    <3>2. Extra(c, by) = Extra(c, b) /\ Found(c, by) = Found(c, b) + 1
      BY <1>2, <1>3, <1>4, <2>1, <2>2, <2>4, <3>1 DEF After
    <3> QED
      BY <3>2 DEF FoundMore, c, by
  <2>5. CASE x \notin ToSet(l) /\ x # y
    <3>1. Extra(c, by) = Append(Extra(c, b), y) /\ Found(c, by) = Found(c, b)
      BY <1>2, <1>3, <2>1, <2>2, <2>5 DEF After
    <3> QED
      BY <3>1 DEF LeftOver, c, by
  <2> QED
    BY <2>3, <2>4, <2>5
<1> QED
  BY <1>5, <1>6

\* Every template keeps to that.
LEMMA MoreFound ==
  ASSUME NEW a \in Seq(Types), NEW b \in Seq(Types), NEW y \in Types
  PROVE  LeftOver(a, b, y) \/ FoundMore(a, b, y)
<1> DEFINE Right(n) == \A c \in Seq(Types) : Len(c) = n => LeftOver(c, b, y) \/ FoundMore(c, b, y)
           S == {n \in Nat : Right(n)}
<1>1. 0 \in S
  <2> SUFFICES ASSUME NEW c \in Seq(Types), Len(c) = 0 PROVE LeftOver(c, b, y)
    OBVIOUS
  <2>1. c = <<>> /\ Append(b, y) \in Seq(Types)
    OBVIOUS
  <2> QED
    BY <2>1, MatchEmpty DEF LeftOver
<1>2. \A n \in S : n + 1 \in S
  <2> HIDE DEF Right
  <2> SUFFICES ASSUME NEW n \in Nat, Right(n) PROVE Right(n + 1)
    OBVIOUS
  <2> USE DEF Right
  <2> SUFFICES ASSUME NEW c \in Seq(Types), Len(c) = n + 1
               PROVE  LeftOver(c, b, y) \/ FoundMore(c, b, y)
    OBVIOUS
  <2>1. c # <<>>
    OBVIOUS
  <2>2. PICK d \in Seq(Types), x \in Types : c = Append(d, x)
    BY <2>1, SequenceEmptyOrAppend
  <2>3. Len(d) = n
    BY <2>2
  <2> QED
    BY <2>2, <2>3, MoreStep
<1>3. S = Nat
  <2> HIDE DEF Right
  <2> QED
    BY <1>1, <1>2, SetInduction
<1>4. Len(a) \in Nat
  OBVIOUS
<1>5. Right(Len(a))
  <2> HIDE DEF Right
  <2> QED
    BY <1>3, <1>4
<1> QED
  BY <1>5

\* A longer template or document has no fewer sections found, and the same type
\* at the end of both is one more.
LEMMA FoundGrows ==
  ASSUME NEW a \in Seq(Types), NEW b \in Seq(Types), NEW x \in Types
  PROVE  /\ Found(a, b) <= Found(Append(a, x), b)
         /\ Found(a, b) <= Found(a, Append(b, x))
         /\ Found(a, b) + 1 <= Found(Append(a, x), Append(b, x))
<1> DEFINE bx == Append(b, x)  c == Append(a, x)
<1>1. bx \in Seq(Types) /\ c \in Seq(Types)
  OBVIOUS
<1>2. Found(c, b) = Found(a, b) + (IF x \in ToSet(Extra(a, b)) THEN 1 ELSE 0)
  BY MatchStep
<1>3. LeftOver(a, b, x) \/ FoundMore(a, b, x)
  BY MoreFound
<1>4. Extra(a, b) \in Seq(Types)
  BY MatchType
<1>5. LeftOver(a, b, x) => x \in ToSet(Extra(a, bx)) /\ Found(a, bx) = Found(a, b)
  BY <1>4, AppendSet DEF LeftOver
<1>6. FoundMore(a, b, x) => Found(a, bx) = Found(a, b) + 1
  BY DEF FoundMore
<1> HIDE DEF bx
<1>7. Found(c, bx) = Found(a, bx) + (IF x \in ToSet(Extra(a, bx)) THEN 1 ELSE 0)
  BY <1>1, MatchStep
<1>8. Found(a, b) \in Nat /\ Found(a, bx) \in Nat
  BY <1>1, MatchType
<1>9. Found(a, b) <= Found(c, b)
  BY <1>2, <1>8
<1>10. Found(a, b) <= Found(a, bx)
  BY <1>3, <1>5, <1>6, <1>8
<1>11. Found(a, b) + 1 <= Found(c, bx)
  BY <1>3, <1>5, <1>6, <1>7, <1>8
<1> QED
  BY <1>9, <1>10, <1>11 DEF bx

Longer(a, b) == IF Len(a) < Len(b) THEN Len(b) ELSE Len(a)

\* What a distance leaves in place is found.
InPlace(a, b) == Longer(a, b) <= Levenshtein(a, b) + Found(a, b)

\* It is found for two lists, if it is for shorter ones.
LEMMA InPlaceStep ==
  ASSUME NEW n \in Nat,
         \A c, d \in Seq(Types) : Len(c) + Len(d) <= n => InPlace(c, d),
         NEW a \in Seq(Types), NEW b \in Seq(Types), Len(a) + Len(b) <= n + 1
  PROVE  InPlace(a, b)
<1>1. ASSUME NEW c \in Seq(Types), NEW d \in Seq(Types)
      PROVE  Levenshtein(c, d) \in Nat /\ Found(c, d) \in Nat /\ Len(c) \in Nat /\ Len(d) \in Nat
  <2>1. Levenshtein(c, d) \in Nat
    BY DistanceType
  <2>2. Found(c, d) \in Nat
    BY MatchType
  <2>3. Len(c) \in Nat /\ Len(d) \in Nat
    OBVIOUS
  <2> QED
    BY <2>1, <2>2, <2>3
<1>2. CASE a = <<>> /\ b = <<>>
  <2>1. Longer(a, b) = 0
    BY <1>2 DEF Longer
  <2> QED
    BY <1>1, <2>1 DEF InPlace
<1>3. CASE Removal(a, b)
  <2>1. PICK c \in Seq(Types), x \in Types :
          a = Append(c, x) /\ Len(a) = Len(c) + 1 /\ Levenshtein(a, b) = Levenshtein(c, b) + 1
    BY <1>3 DEF Removal
  <2>2. InPlace(c, b)
    BY <1>1, <2>1
  <2>3. Found(c, b) <= Found(a, b)
    BY <2>1, FoundGrows
  <2>4. Longer(a, b) <= Longer(c, b) + 1 /\ Longer(a, b) \in Nat /\ Longer(c, b) \in Nat
    BY <1>1, <2>1 DEF Longer
  <2>5. /\ Levenshtein(c, b) \in Nat /\ Found(c, b) \in Nat /\ Found(a, b) \in Nat
    BY <1>1
  <2> QED
    BY <2>1, <2>2, <2>3, <2>4, <2>5 DEF InPlace
<1>4. CASE Insertion(a, b)
  <2>1. PICK d \in Seq(Types), y \in Types :
          b = Append(d, y) /\ Len(b) = Len(d) + 1 /\ Levenshtein(a, b) = Levenshtein(a, d) + 1
    BY <1>4 DEF Insertion
  <2>2. InPlace(a, d)
    BY <1>1, <2>1
  <2>3. Found(a, d) <= Found(a, b)
    BY <2>1, FoundGrows
  <2>4. Longer(a, b) <= Longer(a, d) + 1 /\ Longer(a, b) \in Nat /\ Longer(a, d) \in Nat
    BY <1>1, <2>1 DEF Longer
  <2>5. /\ Levenshtein(a, d) \in Nat /\ Found(a, d) \in Nat /\ Found(a, b) \in Nat
    BY <1>1
  <2> QED
    BY <2>1, <2>2, <2>3, <2>4, <2>5 DEF InPlace
<1>5. CASE Replacement(a, b)
  <2>1. PICK c \in Seq(Types), d \in Seq(Types), x \in Types, y \in Types :
          /\ a = Append(c, x) /\ Len(a) = Len(c) + 1
          /\ b = Append(d, y) /\ Len(b) = Len(d) + 1
          /\ Levenshtein(a, b) = Levenshtein(c, d) + Substitution(x, y)
    BY <1>5 DEF Replacement
  <2>2. InPlace(c, d)
    BY <1>1, <2>1
  <2>3. Longer(a, b) = Longer(c, d) + 1 /\ Longer(c, d) \in Nat
    BY <1>1, <2>1 DEF Longer
  <2>4. /\ Levenshtein(c, d) \in Nat /\ Found(c, d) \in Nat
        /\ Found(c, b) \in Nat /\ Found(a, b) \in Nat
    BY <1>1
  <2>5. CASE x = y
    <3>1. Found(c, d) + 1 <= Found(a, b)
      BY <2>1, <2>5, FoundGrows
    <3>2. Substitution(x, y) = 0
      BY <2>5 DEF Substitution
    <3> QED
      BY <2>1, <2>2, <2>3, <2>4, <3>1, <3>2 DEF InPlace
  <2>6. CASE x # y
    <3>1. Found(c, d) <= Found(c, b) /\ Found(c, b) <= Found(a, b)
      BY <2>1, FoundGrows
    <3>2. Substitution(x, y) = 1
      BY <2>6 DEF Substitution
    <3> QED
      BY <2>1, <2>2, <2>3, <2>4, <3>1, <3>2 DEF InPlace
  <2> QED
    BY <2>5, <2>6
<1> QED
  BY <1>2, <1>3, <1>4, <1>5, LastEdit

\* It is found for all lists.
LEMMA InPlaceFound ==
  ASSUME NEW a \in Seq(Types), NEW b \in Seq(Types)
  PROVE  InPlace(a, b)
<1> DEFINE Right(n) == \A c, d \in Seq(Types) : Len(c) + Len(d) <= n => InPlace(c, d)
           S == {n \in Nat : Right(n)}
<1>1. 0 \in S
  <2> SUFFICES ASSUME NEW c \in Seq(Types), NEW d \in Seq(Types), Len(c) + Len(d) <= 0
               PROVE  InPlace(c, d)
    OBVIOUS
  <2>1. Len(c) \in Nat /\ Len(d) \in Nat
    OBVIOUS
  <2>2. Longer(c, d) = 0
    BY <2>1 DEF Longer
  <2>3. Levenshtein(c, d) \in Nat /\ Found(c, d) \in Nat
    BY DistanceType, MatchType
  <2> QED
    BY <2>2, <2>3 DEF InPlace
<1>2. \A n \in S : n + 1 \in S
  <2> HIDE DEF Right
  <2> SUFFICES ASSUME NEW n \in Nat, Right(n) PROVE Right(n + 1)
    OBVIOUS
  <2> USE DEF Right
  <2> QED
    BY InPlaceStep
<1>3. S = Nat
  <2> HIDE DEF Right
  <2> QED
    BY <1>1, <1>2, SetInduction
<1>4. Len(a) + Len(b) \in Nat
  OBVIOUS
<1>5. Right(Len(a) + Len(b))
  <2> HIDE DEF Right
  <2> QED
    BY <1>3, <1>4
<1> QED
  BY <1>4, <1>5

-----------------------------------------------------------------------------
\* DistanceCountsEdits, of any three lists of section types of any length: the
\* table computes the edit distance (distance.py), and what it leaves in place a
\* template finds (templates.py).
LEMMA ComparedCount == compared \in Triples => DistanceCountsEdits
<1> SUFFICES ASSUME compared \in Triples PROVE DistanceCountsEdits
  OBVIOUS
<1> DEFINE a == compared.a  b == compared.b  c == compared.c
<1>1. SeqOf(Types, MaxLength) \subseteq Seq(Types)
  BY MaxLengthAssumption DEF SeqOf
<1>2. a \in Seq(Types) /\ b \in Seq(Types) /\ c \in Seq(Types)
  BY <1>1 DEF Triples
<1> HIDE DEF a, b, c
<1>3. Levenshtein(a, b) = 0 <=> a = b
  BY <1>2, ZeroDistance
<1>4. Levenshtein(a, c) <= Levenshtein(a, b) + Levenshtein(b, c)
  BY <1>2, Triangle
<1>5. a # b => \E e \in Edits(a) : Levenshtein(e, b) = Levenshtein(a, b) - 1
  BY <1>2, Nearer
<1>6. Longer(a, b) - Levenshtein(a, b) <= Cardinality(Alignment(a, b).matched)
  <2>1. InPlace(a, b) /\ Levenshtein(a, b) \in Nat /\ Found(a, b) \in Nat
    BY <1>2, InPlaceFound, DistanceType, MatchType
  <2>2. Longer(a, b) \in Nat
    BY <1>2 DEF Longer
  <2>3. Longer(a, b) - Levenshtein(a, b) <= Found(a, b)
    BY <2>1, <2>2 DEF InPlace
  <2> QED
    BY <2>3 DEF Found, Matched
<1> QED
  BY <1>3, <1>4, <1>5, <1>6 DEF DistanceCountsEdits, Longer, a, b, c

\* The same of every state of the specification.
THEOREM DistanceAlwaysCountsEdits == SimilaritySpec => []DistanceCountsEdits
<1>1. SimilarityInit => compared \in Triples
  BY DEF SimilarityInit
<1>2. compared \in Triples /\ [SimilarityNext]_compared => (compared \in Triples)'
  BY DEF SimilarityNext, Triples
<1> QED
  BY <1>1, <1>2, ComparedCount, PTL DEF SimilaritySpec

=============================================================================
