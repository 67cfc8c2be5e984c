-------------------------- MODULE AggregatorProofs --------------------------
(***************************************************************************)
(* No result is lost, doubled or reordered between the driver and the      *)
(* files of the shards, for every number of tasks, shards and workers,     *)
(* whichever shards die: the proofs about ShardedAggregator.               *)
(***************************************************************************)
EXTENDS ShardedAggregator, ProofLemmas, SequenceTheorems

-----------------------------------------------------------------------------
(* The results of one shard. *)

\* f tells the results of the first m results of s that go to the i-th of k shards.
Selects(f, s, k, i) ==
  /\ f \in [0 .. Len(s) -> Seq(Results)]
  /\ f[0] = << >>
  /\ \A m \in 1 .. Len(s) :
       f[m] = IF ShardIndex(s[m].task, k) = i THEN Append(f[m - 1], s[m]) ELSE f[m - 1]

\* What OfShard computes, one result at a time.
LEMMA OfShardSelects ==
  ASSUME NEW s \in Seq(Results), NEW k, NEW i
  PROVE  \E f : Selects(f, s, k, i) /\ OfShard(s, k, i) = f[Len(s)]
<1> DEFINE V == Seq(Results)
           Rule(f) == [m \in 0 .. Len(s) |->
             IF m = 0 THEN << >>
             ELSE IF ShardIndex(s[m].task, k) = i THEN Append(f[m - 1], s[m])
             ELSE f[m - 1]]
           St == [m \in 1 .. Len(s) |->
                   [v \in V |-> IF ShardIndex(s[m].task, k) = i THEN Append(v, s[m]) ELSE v]]
<1>1. Len(s) \in Nat /\ << >> \in V /\ \A m \in 1 .. Len(s) : s[m] \in Results
  OBVIOUS
<1>2. St \in [1 .. Len(s) -> [V -> V]]
  <2>1. \A m \in 1 .. Len(s), v \in V : Append(v, s[m]) \in V
    BY <1>1
  <2> HIDE DEF V
  <2> QED BY <2>1
<1>3. PICK f \in [0 .. Len(s) -> V] : Follows(f, << >>, St, Len(s))
  <2> HIDE DEF V, St
  <2> QED BY <1>1, <1>2, Recursion
<1>4. ASSUME NEW m \in 1 .. Len(s)
      PROVE  f[m] = IF ShardIndex(s[m].task, k) = i THEN Append(f[m - 1], s[m]) ELSE f[m - 1]
  <2>1. f[m] = St[m][f[m - 1]]
    <3> HIDE DEF St, V
    <3> QED BY <1>3 DEF Follows
  <2>2. f[m - 1] \in V
    <3>1. m - 1 \in 0 .. Len(s)
      BY <1>1
    <3> HIDE DEF V
    <3> QED BY <1>3, <3>1
  <2> HIDE DEF V
  <2> QED BY <2>1, <2>2
<1>5. f[0] = << >>
  BY <1>3 DEF Follows
<1>6. f = Rule(f)
  <2>1. ASSUME NEW m \in 0 .. Len(s) PROVE f[m] = Rule(f)[m]
    <3>1. m = 0 \/ (m # 0 /\ m \in 1 .. Len(s))
      BY <1>1
    <3> QED BY <1>4, <1>5, <3>1
  <2> HIDE DEF V
  <2> QED BY <1>3, <2>1
<1> DEFINE g == CHOOSE h : h = Rule(h)
<1>7. g = Rule(g) /\ OfShard(s, k, i) = g[Len(s)]
  <2>1. OfShard(s, k, i) = g[Len(s)]
    BY DEF OfShard
  <2>2. \E h : h = Rule(h)
    BY <1>6
  <2> HIDE DEF Rule
  <2> QED BY <2>1, <2>2
<1>8. \A m \in 1 .. Len(s) :
        g[m] = IF ShardIndex(s[m].task, k) = i THEN Append(g[m - 1], s[m]) ELSE g[m - 1]
  <2>1. \A m \in 1 .. Len(s) : m \in 0 .. Len(s) /\ m # 0
    BY <1>1
  <2> HIDE DEF g
  <2> QED BY <1>7, <2>1
<1>9. g[0] = << >> /\ DOMAIN g = 0 .. Len(s)
  <2>1. 0 \in 0 .. Len(s)
    BY <1>1
  <2> HIDE DEF g
  <2> QED BY <1>7, <2>1
<1> DEFINE T == {m \in Nat : m <= Len(s) => g[m] = f[m]}
<1> HIDE DEF g, V, St, Rule
<1>10. 0 \in T
  BY <1>5, <1>9
<1>11. ASSUME NEW m \in Nat, m \in T PROVE m + 1 \in T
  <2>1. m + 1 <= Len(s) => m + 1 \in 1 .. Len(s) /\ (m + 1) - 1 = m /\ m <= Len(s)
    BY <1>1
  <2> QED BY <1>4, <1>8, <1>11, <2>1
<1>12. Nat \subseteq T
  <2> HIDE DEF T
  <2> QED BY <1>10, <1>11, Inductive
<1>13. \A m \in 0 .. Len(s) : g[m] = f[m]
  BY <1>1, <1>12
<1>14. g = f
  <2>1. g = [m \in 0 .. Len(s) |-> g[m]]
    BY <1>7 DEF Rule
  <2> QED BY <1>3, <1>13, <2>1
<1> QED BY <1>3, <1>4, <1>5, <1>7, <1>14 DEF Selects, V

\* A shard is given results.
LEMMA OfShardType ==
  ASSUME NEW s \in Seq(Results), NEW k, NEW i
  PROVE  OfShard(s, k, i) \in Seq(Results)
<1>1. PICK f : Selects(f, s, k, i) /\ OfShard(s, k, i) = f[Len(s)]
  BY OfShardSelects
<1>2. Len(s) \in 0 .. Len(s)
  OBVIOUS
<1> QED BY <1>1, <1>2 DEF Selects

\* Of nothing it is given nothing.
LEMMA OfShardNone ==
  ASSUME NEW k, NEW i
  PROVE  OfShard(<< >>, k, i) = << >>
<1>1. << >> \in Seq(Results) /\ Len(<< >>) = 0
  OBVIOUS
<1>2. PICK f : Selects(f, << >>, k, i) /\ OfShard(<< >>, k, i) = f[Len(<< >>)]
  BY <1>1, OfShardSelects
<1> QED BY <1>1, <1>2 DEF Selects

\* Appending to a concatenation is appending to its second part.
LEMMA AppendConcat ==
  ASSUME NEW a \in Seq(Results), NEW b \in Seq(Results), NEW e \in Results
  PROVE  Append(a \o b, e) = a \o Append(b, e)
<1>1. a \o b \in Seq(Results) /\ <<e>> \in Seq(Results)
  BY ConcatProperties
<1>2. Append(a \o b, e) = (a \o b) \o <<e>>
  BY <1>1, AppendIsConcat
<1>3. (a \o b) \o <<e>> = a \o (b \o <<e>>)
  BY <1>1, ConcatAssociative
<1>4. Append(b, e) = b \o <<e>>
  BY AppendIsConcat
<1> QED BY <1>2, <1>3, <1>4

\* What is appended to the results is appended to those of each shard.
LEMMA OfShardConcat ==
  ASSUME NEW s \in Seq(Results), NEW t \in Seq(Results), NEW k, NEW i
  PROVE  OfShard(s \o t, k, i) = OfShard(s, k, i) \o OfShard(t, k, i)
<1>0. s \o t \in Seq(Results)
  OBVIOUS
<1>1. PICK f : Selects(f, s \o t, k, i) /\ OfShard(s \o t, k, i) = f[Len(s \o t)]
  BY <1>0, OfShardSelects
<1>2. PICK g : Selects(g, s, k, i) /\ OfShard(s, k, i) = g[Len(s)]
  BY OfShardSelects
<1>3. PICK h : Selects(h, t, k, i) /\ OfShard(t, k, i) = h[Len(t)]
  BY OfShardSelects
<1>4. PICK m \in Nat, l \in Nat : m = Len(s) /\ l = Len(t)
  OBVIOUS
<1>5. /\ Len(s \o t) = m + l
      /\ \A j \in 1 .. m : (s \o t)[j] = s[j]
      /\ \A j \in 1 .. l : (s \o t)[m + j] = t[j]
  <2>1. Len(s \o t) = m + l /\ \A j \in 1 .. m + l :
          (s \o t)[j] = IF j <= m THEN s[j] ELSE t[j - m]
    BY <1>4, ConcatProperties
  <2>2. \A j \in 1 .. m : j \in 1 .. m + l /\ j <= m
    OBVIOUS
  <2>3. \A j \in 1 .. l : m + j \in 1 .. m + l /\ ~(m + j <= m) /\ (m + j) - m = j
    OBVIOUS
  <2> QED BY <2>1, <2>2, <2>3
<1>6. \A j \in 1 .. m : j \in 1 .. m + l
  OBVIOUS
<1>7. \A j \in 0 .. m : f[j] = g[j]
  <2> DEFINE T == {j \in Nat : j <= m => f[j] = g[j]}
  <2>1. 0 \in T
    BY <1>1, <1>2 DEF Selects
  <2>2. ASSUME NEW j \in Nat, j \in T PROVE j + 1 \in T
    <3>1. ASSUME j + 1 <= m PROVE f[j + 1] = g[j + 1]
      <4>1. j + 1 \in 1 .. m /\ (j + 1) - 1 = j /\ j <= m /\ j + 1 \in 1 .. m + l
        BY <3>1
      <4>2. f[j] = g[j]
        BY <2>2, <4>1
      <4>3. (s \o t)[j + 1] = s[j + 1]
        BY <1>5, <4>1
      <4>4. f[j + 1] = IF ShardIndex(s[j + 1].task, k) = i THEN Append(f[j], s[j + 1]) ELSE f[j]
        BY <1>1, <1>5, <4>1, <4>3 DEF Selects
      <4>5. g[j + 1] = IF ShardIndex(s[j + 1].task, k) = i THEN Append(g[j], s[j + 1]) ELSE g[j]
        BY <1>2, <1>4, <4>1 DEF Selects
      <4> QED BY <4>2, <4>4, <4>5
    <3> QED BY <3>1
  <2> HIDE DEF T
  <2>3. Nat \subseteq T
    BY <2>1, <2>2, Inductive
  <2> QED BY <2>3 DEF T
<1>8. /\ g[m] \in Seq(Results) /\ h[0] = << >>
      /\ \A j \in 0 .. l : h[j] \in Seq(Results)
  <2>1. m \in 0 .. Len(s) /\ 0 .. l = 0 .. Len(t)
    BY <1>4
  <2> QED BY <1>2, <1>3, <2>1 DEF Selects
<1>9. \A j \in 0 .. l : f[m + j] = g[m] \o h[j]
  <2> DEFINE At(j) == f[m + j] = g[m] \o h[j]
             T == {j \in Nat : j <= l => At(j)}
  <2>1. 0 \in T
    <3>1. g[m] \o << >> = g[m]
      BY <1>8, ConcatEmptySeq
    <3>2. m + 0 = m /\ m \in 0 .. m
      OBVIOUS
    <3> QED BY <1>7, <1>8, <3>1, <3>2
  <2>2. ASSUME NEW j \in Nat, j \in T PROVE j + 1 \in T
    <3> SUFFICES ASSUME j + 1 <= l PROVE At(j + 1)
      <4> HIDE DEF At
      <4> QED OBVIOUS
    <3>1. /\ j + 1 \in 1 .. l /\ (j + 1) - 1 = j /\ j \in 0 .. l /\ j <= l
          /\ m + (j + 1) \in 1 .. m + l /\ (m + (j + 1)) - 1 = m + j
      OBVIOUS
    <3>2. f[m + j] = g[m] \o h[j]
      BY <2>2, <3>1
    <3>3. (s \o t)[m + (j + 1)] = t[j + 1] /\ t[j + 1] \in Results
      BY <1>4, <1>5, <3>1
    <3>4. f[m + (j + 1)] = IF ShardIndex(t[j + 1].task, k) = i
                           THEN Append(f[m + j], t[j + 1]) ELSE f[m + j]
      BY <1>1, <1>5, <3>1, <3>3 DEF Selects
    <3>5. h[j + 1] = IF ShardIndex(t[j + 1].task, k) = i
                     THEN Append(h[j], t[j + 1]) ELSE h[j]
      BY <1>3, <1>4, <3>1 DEF Selects
    <3>6. Append(g[m] \o h[j], t[j + 1]) = g[m] \o Append(h[j], t[j + 1])
      <4>1. h[j] \in Seq(Results)
        BY <1>8, <3>1
      <4> QED BY <1>8, <3>3, <4>1, AppendConcat
    <3> QED BY <3>2, <3>4, <3>5, <3>6
  <2>3. Nat \subseteq T
    <3> HIDE DEF T
    <3> QED BY <2>1, <2>2, Inductive
  <2>4. \A j \in 0 .. l : At(j)
    <3> HIDE DEF At
    <3> QED BY <2>3
  <2> QED BY <2>4
<1>10. l \in 0 .. l
  OBVIOUS
<1> QED BY <1>1, <1>2, <1>3, <1>4, <1>5, <1>9, <1>10

\* The results of a shard are results, and all of those that go to it.
LEMMA OfShardElements ==
  ASSUME NEW s \in Seq(Results), NEW k, NEW i
  PROVE  \A r : (\E p \in 1 .. Len(OfShard(s, k, i)) : OfShard(s, k, i)[p] = r) <=>
                (\E m \in 1 .. Len(s) : s[m] = r /\ ShardIndex(r.task, k) = i)
<1>1. PICK f : Selects(f, s, k, i) /\ OfShard(s, k, i) = f[Len(s)]
  BY OfShardSelects
<1> DEFINE Has(r, m) == \E p \in 1 .. Len(f[m]) : f[m][p] = r
           Sent(r, m) == \E j \in 1 .. m : s[j] = r /\ ShardIndex(r.task, k) = i
           T == {m \in Nat : m <= Len(s) => \A r : Has(r, m) <=> Sent(r, m)}
<1>2. 0 \in T
  <2>1. f[0] = << >> /\ Len(<< >>) = 0 /\ 1 .. 0 = {}
    BY <1>1 DEF Selects
  <2> QED BY <2>1
<1>3. ASSUME NEW m \in Nat, m \in T PROVE m + 1 \in T
  <2> SUFFICES ASSUME m + 1 <= Len(s), NEW r PROVE Has(r, m + 1) <=> Sent(r, m + 1)
    OBVIOUS
  <2>1. /\ m + 1 \in 1 .. Len(s) /\ (m + 1) - 1 = m /\ m \in 0 .. Len(s) /\ m <= Len(s)
        /\ \A j : j \in 1 .. m + 1 <=> j \in 1 .. m \/ j = m + 1
    OBVIOUS
  <2>2. f[m] \in Seq(Results) /\ s[m + 1] \in Results
    BY <1>1, <2>1 DEF Selects
  <2>3. Has(r, m) <=> Sent(r, m)
    BY <1>3, <2>1
  <2>4. f[m + 1] = IF ShardIndex(s[m + 1].task, k) = i THEN Append(f[m], s[m + 1]) ELSE f[m]
    BY <1>1, <2>1 DEF Selects
  <2>5. Sent(r, m + 1) <=> Sent(r, m) \/ (s[m + 1] = r /\ ShardIndex(r.task, k) = i)
    BY <2>1
  <2>6. CASE ShardIndex(s[m + 1].task, k) = i
    <3>1. /\ Len(f[m]) \in Nat /\ Len(f[m + 1]) = Len(f[m]) + 1
          /\ f[m + 1][Len(f[m]) + 1] = s[m + 1]
          /\ \A p \in 1 .. Len(f[m]) : f[m + 1][p] = f[m][p]
      BY <2>2, <2>4, <2>6, AppendProperties
    <3>2. \A p : p \in 1 .. Len(f[m + 1]) <=> p \in 1 .. Len(f[m]) \/ p = Len(f[m]) + 1
      BY <3>1
    <3>3. Has(r, m + 1) <=> Has(r, m) \/ s[m + 1] = r
      BY <3>1, <3>2
    <3> HIDE DEF Has, Sent
    <3> QED BY <2>3, <2>5, <2>6, <3>3
  <2>7. CASE ShardIndex(s[m + 1].task, k) # i
    <3>1. Has(r, m + 1) <=> Has(r, m)
      BY <2>4, <2>7
    <3> HIDE DEF Has, Sent
    <3> QED BY <2>3, <2>5, <2>7, <3>1
  <2> QED BY <2>6, <2>7
<1> HIDE DEF T
<1>4. Nat \subseteq T
  BY <1>2, <1>3, Inductive
<1>5. Len(s) \in Nat /\ Len(s) <= Len(s)
  OBVIOUS
<1>6. \A r : Has(r, Len(s)) <=> Sent(r, Len(s))
  BY <1>4, <1>5 DEF T
<1> QED BY <1>1, <1>6

-----------------------------------------------------------------------------
(* Sequences joined to one. *)

\* f joins the first m sequences of ms.
Joins(f, ms) ==
  /\ f \in [0 .. Len(ms) -> Seq(Results)]
  /\ f[0] = << >>
  /\ \A m \in 1 .. Len(ms) : f[m] = f[m - 1] \o ms[m]

\* What FlattenSeq computes, one sequence at a time.
LEMMA FlattenJoins ==
  ASSUME NEW ms \in Seq(Seq(Results))
  PROVE  \E f : Joins(f, ms) /\ FlattenSeq(ms) = f[Len(ms)]
<1> DEFINE V == Seq(Results)
           St == [m \in 1 .. Len(ms) |-> [v \in V |-> v \o ms[m]]]
           Rule(f) == [m \in 1 .. Len(ms) |-> IF m = 1 THEN ms[m] ELSE f[m - 1] \o ms[m]]
<1>1. Len(ms) \in Nat /\ << >> \in V /\ \A m \in 1 .. Len(ms) : ms[m] \in V
  OBVIOUS
<1>2. St \in [1 .. Len(ms) -> [V -> V]]
  <2>1. \A m \in 1 .. Len(ms), v \in V : v \o ms[m] \in V
    BY <1>1
  <2> HIDE DEF V
  <2> QED BY <2>1
<1>3. PICK f \in [0 .. Len(ms) -> V] : Follows(f, << >>, St, Len(ms))
  <2> HIDE DEF V, St
  <2> QED BY <1>1, <1>2, Recursion
<1>4. ASSUME NEW m \in 1 .. Len(ms)
      PROVE  f[m] = f[m - 1] \o ms[m]
  <2>1. f[m] = St[m][f[m - 1]]
    <3> HIDE DEF St, V
    <3> QED BY <1>3 DEF Follows
  <2>2. f[m - 1] \in V
    <3>1. m - 1 \in 0 .. Len(ms)
      BY <1>1
    <3> HIDE DEF V
    <3> QED BY <1>3, <3>1
  <2> HIDE DEF V
  <2> QED BY <2>1, <2>2
<1>5. f[0] = << >>
  BY <1>3 DEF Follows
<1>6. CASE Len(ms) = 0
  <2>1. FlattenSeq(ms) = << >>
    BY <1>6 DEF FlattenSeq
  <2> QED BY <1>3, <1>4, <1>5, <1>6, <2>1 DEF Joins
<1>7. CASE Len(ms) # 0
  <2>1. f[1] = ms[1] /\ 1 \in 1 .. Len(ms)
    <3>1. 1 \in 1 .. Len(ms) /\ 1 - 1 = 0
      BY <1>1, <1>7
    <3>2. f[1] = << >> \o ms[1]
      BY <1>4, <1>5, <3>1
    <3> QED BY <1>1, <3>1, <3>2, ConcatEmptySeq
  <2> DEFINE h == [m \in 1 .. Len(ms) |-> f[m]]
  <2>2. h = Rule(h)
    <3>1. ASSUME NEW m \in 1 .. Len(ms) PROVE h[m] = Rule(h)[m]
      <4>1. m = 1 \/ (m # 1 /\ m - 1 \in 1 .. Len(ms))
        BY <1>1
      <4> QED BY <1>4, <2>1, <4>1
    <3> QED BY <3>1
  <2> DEFINE g == CHOOSE x : x = Rule(x)
  <2>3. g = Rule(g) /\ FlattenSeq(ms) = g[Len(ms)]
    <3>1. FlattenSeq(ms) = g[Len(ms)]
      BY <1>7 DEF FlattenSeq
    <3>2. \E x : x = Rule(x)
      BY <2>2
    <3> HIDE DEF Rule, h
    <3> QED BY <3>1, <3>2
  <2>4. \A m \in 1 .. Len(ms) : g[m] = IF m = 1 THEN ms[m] ELSE g[m - 1] \o ms[m]
    <3> HIDE DEF g
    <3> QED BY <2>3
  <2> HIDE DEF g, h, V, St, Rule
  <2> DEFINE T == {m \in Nat : m + 1 <= Len(ms) => g[m + 1] = f[m + 1]}
  <2>5. 0 \in T
    BY <2>1, <2>4
  <2>6. ASSUME NEW m \in Nat, m \in T PROVE m + 1 \in T
    <3>1. ASSUME (m + 1) + 1 <= Len(ms) PROVE g[(m + 1) + 1] = f[(m + 1) + 1]
      <4>1. /\ (m + 1) + 1 \in 1 .. Len(ms) /\ ((m + 1) + 1) - 1 = m + 1
            /\ m + 1 <= Len(ms) /\ (m + 1) + 1 # 1
        BY <1>1, <3>1
      <4>2. g[m + 1] = f[m + 1]
        BY <2>6, <4>1
      <4>3. g[(m + 1) + 1] = g[m + 1] \o ms[(m + 1) + 1]
        BY <2>4, <4>1
      <4>4. f[(m + 1) + 1] = f[m + 1] \o ms[(m + 1) + 1]
        BY <1>4, <4>1
      <4> QED BY <4>2, <4>3, <4>4
    <3> QED BY <3>1
  <2>7. Nat \subseteq T
    <3> HIDE DEF T
    <3> QED BY <2>5, <2>6, Inductive
  <2>8. g[Len(ms)] = f[Len(ms)]
    <3>1. PICK l \in Nat : l + 1 = Len(ms)
      <4>1. Len(ms) - 1 \in Nat /\ (Len(ms) - 1) + 1 = Len(ms)
        BY <1>1, <1>7
      <4> QED BY <4>1
    <3>2. l \in T
      <4> HIDE DEF T
      <4> QED BY <2>7, <3>1
    <3> QED BY <3>1, <3>2
  <2> QED BY <1>3, <1>4, <1>5, <2>3, <2>8 DEF Joins, V
<1> QED BY <1>6, <1>7

\* Joined sequences of results are results.
LEMMA FlattenType ==
  ASSUME NEW ms \in Seq(Seq(Results))
  PROVE  FlattenSeq(ms) \in Seq(Results)
<1>1. PICK f : Joins(f, ms) /\ FlattenSeq(ms) = f[Len(ms)]
  BY FlattenJoins
<1>2. Len(ms) \in 0 .. Len(ms)
  OBVIOUS
<1> QED BY <1>1, <1>2 DEF Joins

\* No sequences join to none.
LEMMA FlattenNone == FlattenSeq(<< >>) = << >>
BY DEF FlattenSeq

\* A mailbox that grows by a call grows by its results.
LEMMA FlattenAppend ==
  ASSUME NEW ms \in Seq(Seq(Results)), NEW g \in Seq(Results)
  PROVE  FlattenSeq(Append(ms, g)) = FlattenSeq(ms) \o g
<1> DEFINE ns == Append(ms, g)
<1>1. PICK l \in Nat : l = Len(ms)
  OBVIOUS
<1>2. /\ ns \in Seq(Seq(Results)) /\ Len(ns) = l + 1 /\ ns[l + 1] = g
      /\ \A m \in 1 .. l : ns[m] = ms[m]
  BY <1>1, AppendProperties
<1> HIDE DEF ns
<1>3. PICK f : Joins(f, ms) /\ FlattenSeq(ms) = f[Len(ms)]
  BY FlattenJoins
<1>4. PICK h : Joins(h, ns) /\ FlattenSeq(ns) = h[Len(ns)]
  BY <1>2, FlattenJoins
<1> DEFINE T == {m \in Nat : m <= l => h[m] = f[m]}
<1>5. 0 \in T
  BY <1>3, <1>4 DEF Joins
<1>6. ASSUME NEW m \in Nat, m \in T PROVE m + 1 \in T
  <2>1. ASSUME m + 1 <= l PROVE h[m + 1] = f[m + 1]
    <3>1. m + 1 \in 1 .. l /\ m + 1 \in 1 .. l + 1 /\ (m + 1) - 1 = m /\ m <= l
      BY <2>1
    <3>2. h[m + 1] = h[m] \o ns[m + 1]
      BY <1>2, <1>4, <3>1 DEF Joins
    <3>3. f[m + 1] = f[m] \o ms[m + 1]
      BY <1>1, <1>3, <3>1 DEF Joins
    <3> QED BY <1>2, <1>6, <3>1, <3>2, <3>3
  <2> QED BY <2>1
<1>7. Nat \subseteq T
  <2> HIDE DEF T
  <2> QED BY <1>5, <1>6, Inductive
<1>8. h[l] = f[l]
  BY <1>7
<1>9. h[l + 1] = h[l] \o g
  <2>1. l + 1 \in 1 .. l + 1 /\ (l + 1) - 1 = l
    OBVIOUS
  <2> QED BY <1>2, <1>4, <2>1 DEF Joins
<1> QED BY <1>1, <1>2, <1>3, <1>4, <1>8, <1>9 DEF ns

\* Concatenation is associative.
LEMMA ResultsAssociative ==
  ASSUME NEW a \in Seq(Results), NEW b \in Seq(Results), NEW c \in Seq(Results)
  PROVE  (a \o b) \o c = a \o (b \o c)
BY ConcatAssociative

\* The results of a mailbox are those of its head and then the rest.
LEMMA FlattenHead ==
  ASSUME NEW ms \in Seq(Seq(Results)), ms # << >>
  PROVE  FlattenSeq(ms) = Head(ms) \o FlattenSeq(Tail(ms))
<1> DEFINE ts == Tail(ms)
<1>1. PICK l \in Nat : l + 1 = Len(ms)
  <2>1. Len(ms) \in Nat /\ Len(ms) # 0
    OBVIOUS
  <2>2. Len(ms) - 1 \in Nat /\ (Len(ms) - 1) + 1 = Len(ms)
    BY <2>1
  <2> QED BY <2>2
<1>2. /\ ts \in Seq(Seq(Results)) /\ Len(ts) = l /\ Head(ms) = ms[1]
      /\ \A m \in 1 .. l : ts[m] = ms[m + 1]
  <2>1. /\ ts \in Seq(Seq(Results)) /\ Len(ts) = Len(ms) - 1
        /\ \A m \in 1 .. Len(ts) : ts[m] = ms[m + 1]
    BY HeadTailProperties
  <2> QED BY <1>1, <2>1
<1>3. ms[1] \in Seq(Results) /\ \A m \in 1 .. l : ts[m] \in Seq(Results)
  BY <1>1, <1>2
<1> HIDE DEF ts
<1>4. PICK f : Joins(f, ms) /\ FlattenSeq(ms) = f[Len(ms)]
  BY FlattenJoins
<1>5. PICK h : Joins(h, ts) /\ FlattenSeq(ts) = h[Len(ts)]
  BY <1>2, FlattenJoins
<1> DEFINE At(m) == f[m + 1] = ms[1] \o h[m]
           T == {m \in Nat : m <= l => At(m)}
<1>6. 0 \in T
  <2>1. f[0] = << >> /\ h[0] = << >> /\ f[1] = f[0] \o ms[1]
    <3>1. 1 \in 1 .. Len(ms) /\ 1 - 1 = 0
      BY <1>1
    <3> QED BY <1>4, <1>5, <3>1 DEF Joins
  <2>2. << >> \o ms[1] = ms[1] /\ ms[1] \o << >> = ms[1]
    BY <1>3, ConcatEmptySeq
  <2>3. f[0 + 1] = ms[1] \o h[0]
    BY <2>1, <2>2
  <2>4. At(0)
    BY <2>3
  <2> HIDE DEF At
  <2> QED BY <2>4
<1>7. ASSUME NEW m \in Nat, m \in T PROVE m + 1 \in T
  <2>1. ASSUME m + 1 <= l PROVE At(m + 1)
    <3>1. /\ m + 1 \in 1 .. l /\ (m + 1) + 1 \in 1 .. l + 1 /\ (m + 1) - 1 = m /\ m <= l
          /\ ((m + 1) + 1) - 1 = m + 1 /\ m \in 0 .. l
      BY <2>1
    <3>2. h[m + 1] = h[m] \o ts[m + 1] /\ h[m] \in Seq(Results)
      BY <1>2, <1>5, <3>1 DEF Joins
    <3>3. f[(m + 1) + 1] = f[m + 1] \o ms[(m + 1) + 1]
      BY <1>1, <1>4, <3>1 DEF Joins
    <3>4. ms[(m + 1) + 1] = ts[m + 1]
      BY <1>2, <3>1
    <3>5. f[m + 1] = ms[1] \o h[m]
      BY <1>7, <3>1
    <3>6. (ms[1] \o h[m]) \o ts[m + 1] = ms[1] \o (h[m] \o ts[m + 1])
      <4>1. ts[m + 1] \in Seq(Results)
        BY <1>3, <3>1
      <4> QED BY <1>3, <3>2, <4>1, ResultsAssociative
    <3>7. f[(m + 1) + 1] = ms[1] \o h[m + 1]
      BY <3>2, <3>3, <3>4, <3>5, <3>6
    <3> QED BY <3>7
  <2> HIDE DEF At
  <2> QED BY <2>1
<1>8. Nat \subseteq T
  <2> HIDE DEF T
  <2> QED BY <1>6, <1>7, Inductive
<1>9. At(l)
  <2> HIDE DEF At
  <2> QED BY <1>8
<1> QED BY <1>1, <1>2, <1>4, <1>5, <1>9 DEF ts
-----------------------------------------------------------------------------
(* The invariant. *)

Pending(i) == FlattenSeq(mailbox[i])

Shape ==
  /\ phase \in {"idle", "recording", "drained", "finalized", "done", "raised"}
  /\ n \in AllShards
  /\ sent \in Seq(Results)
  /\ lost \in BOOLEAN
  /\ mailbox \in [AllShards -> Seq(Seq(Results))]
  /\ alive \in [AllShards -> BOOLEAN]
  /\ buffer \in [AllShards -> Seq(Results)]
  /\ files \in [0 .. MaxShards -> Seq(Results)]
  /\ base \in [0 .. MaxShards -> Nat]
  /\ \A i \in Shards : base[PathOf(i)] <= Len(files[PathOf(i)])

\* A shard that is dead, or was not opened, has nothing in hand; one that has
\* answered all its calls has flushed.
Emptied ==
  \A i \in AllShards :
    /\ alive[i] => i \in Shards
    /\ ~alive[i] => mailbox[i] = << >>
    /\ mailbox[i] = << >> => buffer[i] = << >>

\* A shard that lives, or died without a call of its own being lost, has on
\* disk, in its buffer and in its mailbox what it was sent.
Accounted ==
  \A i \in Shards : alive[i] \/ ~lost =>
    NewRows(PathOf(i)) \o (buffer[i] \o Pending(i)) = Routed(i)

\* Once drained, every task has its outcome and every call has returned.
Written ==
  phase \in {"drained", "finalized", "done"} =>
    /\ ~lost
    /\ Unrecorded = {}
    /\ \A i \in Shards : mailbox[i] = << >>

AInv == Shape /\ Emptied /\ Accounted /\ Written

\* The shards of any run are among those modelled.
LEMMA MostShards ==
  /\ MaxShards \in Nat \ {0}
  /\ ShardCounts \subseteq AllShards
<1>1. MaxShards \in ShardCounts /\ \A k \in ShardCounts : MaxShards >= k
  <2>1. PICK most \in ShardCounts : \A k \in ShardCounts : k <= most
    BY ShardCountsAssumption
  <2>2. \A k \in ShardCounts : most >= k
    BY <2>1, ShardCountsAssumption
  <2> QED BY <2>2 DEF MaxShards, Max
<1> QED BY <1>1, ShardCountsAssumption DEF AllShards

\* Each shard has a file of its own.
LEMMA OwnPaths ==
  ASSUME n \in AllShards
  PROVE  /\ Shards \subseteq AllShards
         /\ \A i \in Shards : PathOf(i) \in 0 .. MaxShards
         /\ \A i, j \in Shards : PathOf(i) = PathOf(j) => i = j
         /\ \A i \in Shards : n > 1 => PathOf(i) = i /\ i # 0
BY MostShards DEF AllShards, Shards, PathOf

\* A batch of some tasks is a sequence of results.
LEMMA BatchType ==
  ASSUME NEW S \in SUBSET TaskIds, NEW results \in Batches(S)
  PROVE  results \in Seq(Results)
<1>1. IsFiniteSet(S)
  BY TaskIdsAssumption, FS_Subset
<1>2. PICK m \in Nat : m = Cardinality(S)
  BY <1>1, FS_CardinalityType
<1>3. results \in [1 .. m -> Results]
  BY <1>2 DEF Batches, Results
<1> QED BY <1>3

\* What is added to a file is added to the rows that are new since it was opened.
LEMMA RowsGrow ==
  ASSUME NEW f \in Seq(Results), NEW b \in Seq(Results),
         NEW c \in Nat, c <= Len(f)
  PROVE  SubSeq(f \o b, c + 1, Len(f \o b)) = SubSeq(f, c + 1, Len(f)) \o b
<1>1. PICK m \in Nat, l \in Nat : m = Len(f) /\ l = Len(b)
  OBVIOUS
<1>2. /\ Len(f \o b) = m + l /\ f \o b \in Seq(Results)
      /\ \A j \in 1 .. m + l : (f \o b)[j] = IF j <= m THEN f[j] ELSE b[j - m]
  BY <1>1, ConcatProperties
<1> DEFINE x == SubSeq(f \o b, c + 1, m + l)
           y == SubSeq(f, c + 1, m)
<1>3. /\ x \in Seq(Results) /\ Len(x) = (m + l) - c
      /\ \A j \in 1 .. (m + l) - c : x[j] = (f \o b)[c + j]
  <2>1. \A j \in c + 1 .. m + l : (f \o b)[j] \in Results
    BY <1>2
  <2> QED BY <1>1, <1>2, <2>1, SubSeqProperties
<1>4. /\ y \in Seq(Results) /\ Len(y) = m - c
      /\ \A j \in 1 .. m - c : y[j] = f[c + j]
  <2>1. \A j \in c + 1 .. m : f[j] \in Results
    BY <1>1
  <2> QED BY <1>1, <2>1, SubSeqProperties
<1> HIDE DEF x, y
<1>5. PICK d \in Nat : d = m - c /\ (m + l) - c = d + l
  <2>1. m - c \in Nat /\ (m + l) - c = (m - c) + l
    BY <1>1
  <2> QED BY <2>1
<1>6. /\ y \o b \in Seq(Results) /\ Len(y \o b) = d + l
      /\ \A j \in 1 .. d + l : (y \o b)[j] = IF j <= d THEN y[j] ELSE b[j - d]
  <2>1. Len(y) = d /\ y \in Seq(Results)
    BY <1>4, <1>5
  <2>2. /\ y \o b \in Seq(Results) /\ Len(y \o b) = Len(y) + Len(b)
        /\ \A j \in 1 .. Len(y) + Len(b) :
             (y \o b)[j] = IF j <= Len(y) THEN y[j] ELSE b[j - Len(y)]
    BY <2>1, ConcatProperties
  <2> QED BY <1>1, <2>1, <2>2
<1>7. ASSUME NEW j \in 1 .. d + l PROVE x[j] = (y \o b)[j]
  <2>1. c + j \in 1 .. m + l /\ (c + j) - m = j - d /\ (c + j <= m <=> j <= d)
    BY <1>1, <1>5
  <2>2. x[j] = IF j <= d THEN f[c + j] ELSE b[j - d]
    BY <1>2, <1>3, <1>5, <2>1
  <2>3. j <= d => y[j] = f[c + j]
    BY <1>4, <1>5
  <2> QED BY <1>6, <2>2, <2>3
<1>8. x = y \o b
  <2>1. Len(x) = d + l
    BY <1>3, <1>5
  <2> QED BY <1>3, <1>6, <1>7, <2>1, SeqEqual
<1> QED BY <1>1, <1>2, <1>8 DEF x, y

\* The rows after some position of a file are results.
LEMMA RowsType ==
  ASSUME NEW f \in Seq(Results), NEW c \in Nat
  PROVE  SubSeq(f, c + 1, Len(f)) \in Seq(Results)
<1>1. PICK m \in Nat : m = Len(f)
  OBVIOUS
<1>2. \A j \in c + 1 .. m : f[j] \in Results
  BY <1>1
<1> QED BY <1>1, <1>2, SubSeqProperties

\* After its last row a file has none.
LEMMA NoNewRows ==
  ASSUME NEW f \in Seq(Results)
  PROVE  SubSeq(f, Len(f) + 1, Len(f)) = << >>
<1>1. PICK m \in Nat : m = Len(f)
  OBVIOUS
<1> QED BY <1>1, SubSeqEmpty

\* The empty sequence is neutral.
LEMMA NoResults ==
  /\ << >> \in Seq(Results)
  /\ \A a \in Seq(Results) : a \o << >> = a /\ << >> \o a = a
BY ConcatEmptySeq

\* What a shard has in its mailbox, its buffer and its file are results.
LEMMA InHand ==
  ASSUME Shape
  PROVE  /\ \A i \in AllShards : Pending(i) \in Seq(Results) /\ buffer[i] \in Seq(Results)
         /\ \A i \in Shards : NewRows(PathOf(i)) \in Seq(Results)
<1>1. ASSUME NEW i \in AllShards
      PROVE  Pending(i) \in Seq(Results) /\ buffer[i] \in Seq(Results)
  <2>1. mailbox[i] \in Seq(Seq(Results)) /\ buffer[i] \in Seq(Results)
    BY DEF Shape
  <2> QED BY <2>1, FlattenType DEF Pending
<1>2. ASSUME NEW i \in Shards PROVE NewRows(PathOf(i)) \in Seq(Results)
  <2>1. PathOf(i) \in 0 .. MaxShards
    BY OwnPaths DEF Shape
  <2>2. files[PathOf(i)] \in Seq(Results) /\ base[PathOf(i)] \in Nat
    BY <2>1 DEF Shape
  <2> QED BY <2>2, RowsType DEF NewRows
<1> QED BY <1>1, <1>2

\* Nothing was sent yet and nothing is anywhere.
LEMMA AccountedInit == Init => AInv
<1> SUFFICES ASSUME Init PROVE AInv
  OBVIOUS
<1>1. /\ << >> \in Seq(Results) /\ << >> \in Seq(Seq(Results)) /\ Len(<< >>) = 0
      /\ 1 \in AllShards
  BY MostShards DEF AllShards
<1>2. \A i \in Shards : i \in AllShards /\ PathOf(i) \in 0 .. MaxShards
  BY <1>1, OwnPaths DEF Init
<1>3. Shape
  <2>1. \A i \in Shards : base[PathOf(i)] <= Len(files[PathOf(i)])
    <3> TAKE i \in Shards
    <3>1. base[PathOf(i)] = 0 /\ files[PathOf(i)] = << >>
      BY <1>2 DEF Init
    <3> QED BY <1>1, <3>1
  <2>2. /\ mailbox \in [AllShards -> Seq(Seq(Results))] /\ buffer \in [AllShards -> Seq(Results)]
        /\ alive \in [AllShards -> BOOLEAN] /\ files \in [0 .. MaxShards -> Seq(Results)]
        /\ base \in [0 .. MaxShards -> Nat]
    BY <1>1 DEF Init
  <2> QED BY <1>1, <2>1, <2>2 DEF Init, Shape
<1>4. Emptied
  BY DEF Init, Emptied
<1>5. Accounted
  <2> SUFFICES ASSUME NEW i \in Shards
               PROVE  NewRows(PathOf(i)) \o (buffer[i] \o Pending(i)) = Routed(i)
    BY DEF Accounted
  <2>1. NewRows(PathOf(i)) = << >>
    <3>1. files[PathOf(i)] = << >> /\ base[PathOf(i)] = Len(<< >>)
      BY <1>1, <1>2 DEF Init
    <3> QED BY <1>1, <3>1, NoNewRows DEF NewRows
  <2>2. buffer[i] = << >> /\ Pending(i) = << >>
    BY <1>2, FlattenNone DEF Init, Pending
  <2>3. Routed(i) = << >>
    BY OfShardNone DEF Init, Routed
  <2>4. << >> \o (<< >> \o << >>) = << >>
    BY NoResults
  <2> QED BY <2>1, <2>2, <2>3, <2>4
<1>6. Written
  BY DEF Init, Written
<1> QED BY <1>3, <1>4, <1>5, <1>6 DEF AInv

\* A run starts on fresh actors, behind the rows of earlier runs.
LEMMA StartKeeps == AInv /\ StartRun => AInv'
<1> SUFFICES ASSUME AInv, StartRun PROVE AInv'
  OBVIOUS
<1>1. PICK k \in ShardCounts : n' = k /\ alive' = [i \in AllShards |-> i <= k]
  BY DEF StartRun
<1>2. n' \in AllShards
  BY <1>1, MostShards
<1>3. /\ Shards' \subseteq AllShards
      /\ \A i \in Shards' : PathOf(i)' \in 0 .. MaxShards
  BY <1>2, MostShards DEF AllShards, Shards, PathOf
<1>4. << >> \in Seq(Results) /\ << >> \in Seq(Seq(Results))
  OBVIOUS
<1>5. \A p \in 0 .. MaxShards :
        /\ files'[p] \in Seq(Results) /\ base'[p] = Len(files'[p])
        /\ base'[p] \in Nat
  <2> TAKE p \in 0 .. MaxShards
  <2>1. files[p] \in Seq(Results)
    BY DEF AInv, Shape
  <2>2. files' = files /\ base'[p] = Len(files[p])
    BY DEF StartRun
  <2> QED BY <2>1, <2>2
<1>6. Shape'
  <2>1. base' \in [0 .. MaxShards -> Nat]
    BY <1>5 DEF StartRun
  <2>2. alive' \in [AllShards -> BOOLEAN]
    BY <1>1
  <2>3. \A i \in Shards' : base'[PathOf(i)'] <= Len(files'[PathOf(i)'])
    BY <1>3, <1>5
  <2>4. files' \in [0 .. MaxShards -> Seq(Results)]
    BY DEF StartRun, AInv, Shape
  <2>5. /\ phase' = "recording" /\ sent' = << >> /\ lost' = FALSE
        /\ mailbox' = [i \in AllShards |-> << >>] /\ buffer' = [i \in AllShards |-> << >>]
    BY DEF StartRun
  <2>6. /\ mailbox' \in [AllShards -> Seq(Seq(Results))] /\ buffer' \in [AllShards -> Seq(Results)]
        /\ sent' \in Seq(Results) /\ lost' \in BOOLEAN
    BY <1>4, <2>5
  <2> QED BY <1>2, <2>1, <2>2, <2>3, <2>4, <2>5, <2>6 DEF Shape
<1>7. Emptied'
  <2> SUFFICES ASSUME NEW i \in AllShards
               PROVE  /\ alive'[i] => i \in Shards'
                      /\ mailbox'[i] = << >> /\ buffer'[i] = << >>
    BY DEF Emptied
  <2>1. alive'[i] => i <= n'
    BY <1>1
  <2>2. i \in Nat \ {0}
    BY MostShards DEF AllShards
  <2>3. n' \in Nat
    BY <1>2, MostShards DEF AllShards
  <2> QED BY <2>1, <2>2, <2>3 DEF StartRun, Shards
<1>8. Accounted'
  <2> SUFFICES ASSUME NEW i \in Shards'
               PROVE  (NewRows(PathOf(i)) \o (buffer[i] \o Pending(i)) = Routed(i))'
    BY DEF Accounted
  <2>1. NewRows(PathOf(i))' = << >>
    <3>1. files'[PathOf(i)'] \in Seq(Results) /\ base'[PathOf(i)'] = Len(files'[PathOf(i)'])
      BY <1>3, <1>5
    <3> QED BY <3>1, NoNewRows DEF NewRows
  <2>2. buffer'[i] = << >> /\ Pending(i)' = << >>
    BY <1>3, FlattenNone DEF StartRun, Pending
  <2>3. Routed(i)' = << >>
    BY OfShardNone DEF StartRun, Routed
  <2>4. << >> \o (<< >> \o << >>) = << >>
    BY NoResults
  <2> QED BY <2>1, <2>2, <2>3, <2>4
<1>9. Written'
  BY DEF StartRun, Written
<1> QED BY <1>6, <1>7, <1>8, <1>9 DEF AInv

\* What the driver sends to a shard is at the end of its mailbox.
LEMMA RecordKeeps == AInv /\ RecordBatch => AInv'
<1> SUFFICES ASSUME AInv, RecordBatch PROVE AInv'
  OBVIOUS
<1>0. PICK S \in SUBSET Unrecorded \ {{}} : \E results \in Batches(S) :
        /\ sent' = sent \o results
        /\ mailbox' = [i \in AllShards |->
             IF i \in Shards /\ alive[i] /\ OfShard(results, n, i) # << >>
             THEN Append(mailbox[i], OfShard(results, n, i)) ELSE mailbox[i]]
        /\ lost' = (lost \/ \E i \in Shards : ~alive[i] /\ OfShard(results, n, i) # << >>)
  BY DEF RecordBatch
<1>1. PICK results \in Batches(S) :
        /\ sent' = sent \o results
        /\ mailbox' = [i \in AllShards |->
             IF i \in Shards /\ alive[i] /\ OfShard(results, n, i) # << >>
             THEN Append(mailbox[i], OfShard(results, n, i)) ELSE mailbox[i]]
        /\ lost' = (lost \/ \E i \in Shards : ~alive[i] /\ OfShard(results, n, i) # << >>)
  BY <1>0
<1>2. results \in Seq(Results)
  BY BatchType DEF Unrecorded
<1> DEFINE Group(i) == OfShard(results, n, i)
<1>3. \A i \in AllShards : Group(i) \in Seq(Results)
  BY <1>2, OfShardType
<1> HIDE DEF Group
<1>4. /\ UNCHANGED <<phase, n, alive, buffer, files, base>>
      /\ phase = "recording"
  BY DEF RecordBatch
<1>5. Shards' = Shards /\ \A i : PathOf(i)' = PathOf(i) /\ NewRows(PathOf(i))' = NewRows(PathOf(i))
  BY <1>4 DEF Shards, PathOf, NewRows
<1>6. /\ mailbox' = [i \in AllShards |->
             IF i \in Shards /\ alive[i] /\ Group(i) # << >>
             THEN Append(mailbox[i], Group(i)) ELSE mailbox[i]]
      /\ lost' = (lost \/ \E i \in Shards : ~alive[i] /\ Group(i) # << >>)
  BY <1>1 DEF Group
<1>7. \A i \in AllShards : mailbox'[i] = IF i \in Shards /\ alive[i] /\ Group(i) # << >>
                                         THEN Append(mailbox[i], Group(i)) ELSE mailbox[i]
  BY <1>6
<1>8. Shape'
  <2>1. sent' \in Seq(Results)
    BY <1>1, <1>2, ConcatProperties DEF AInv, Shape
  <2>2. mailbox' \in [AllShards -> Seq(Seq(Results))]
    <3>1. \A i \in AllShards : Append(mailbox[i], Group(i)) \in Seq(Seq(Results))
      BY <1>3 DEF AInv, Shape
    <3> QED BY <1>6, <3>1 DEF AInv, Shape
  <2>3. lost' \in BOOLEAN
    BY <1>6
  <2> QED BY <1>4, <1>5, <2>1, <2>2, <2>3 DEF AInv, Shape
<1>9. Emptied'
  <2> SUFFICES ASSUME NEW i \in AllShards
               PROVE  /\ alive[i] => i \in Shards
                      /\ ~alive[i] => mailbox'[i] = << >>
                      /\ mailbox'[i] = << >> => buffer[i] = << >>
    BY <1>4, <1>5 DEF Emptied
  <2>1. Append(mailbox[i], Group(i)) # << >>
    <3>1. mailbox[i] \in Seq(Seq(Results)) /\ Group(i) \in Seq(Results)
      BY <1>3 DEF AInv, Shape
    <3> QED BY <3>1, AppendProperties
  <2>2. /\ alive[i] => i \in Shards
        /\ ~alive[i] => mailbox[i] = << >>
        /\ mailbox[i] = << >> => buffer[i] = << >>
    BY DEF AInv, Emptied
  <2>3. mailbox'[i] = mailbox[i] \/ (alive[i] /\ mailbox'[i] # << >>)
    BY <1>7, <2>1
  <2> QED BY <2>2, <2>3
<1>10. Accounted'
  <2> SUFFICES ASSUME NEW i \in Shards, alive[i] \/ ~lost'
               PROVE  NewRows(PathOf(i)) \o (buffer[i] \o Pending(i)') = Routed(i)'
    BY <1>4, <1>5 DEF Accounted
  <2>1. i \in AllShards
    BY OwnPaths DEF AInv, Shape
  <2>2. NewRows(PathOf(i)) \o (buffer[i] \o Pending(i)) = Routed(i)
    BY <1>6 DEF AInv, Accounted
  <2>3. Routed(i)' = Routed(i) \o Group(i)
    <3>1. sent \in Seq(Results) /\ sent' = sent \o results /\ n' = n
      BY <1>1, <1>4 DEF AInv, Shape
    <3>2. OfShard(sent \o results, n, i) = OfShard(sent, n, i) \o OfShard(results, n, i)
      <4>1. PICK s \in Seq(Results) : s = sent
        BY <3>1
      <4>2. OfShard(s \o results, n, i) = OfShard(s, n, i) \o OfShard(results, n, i)
        BY <1>2, OfShardConcat
      <4> QED BY <4>1, <4>2
    <3> QED BY <3>1, <3>2 DEF Routed, Group
  <2>4. Pending(i)' = Pending(i) \o Group(i)
    <3>1. mailbox[i] \in Seq(Seq(Results)) /\ Group(i) \in Seq(Results)
      BY <1>3, <2>1 DEF AInv, Shape
    <3>2. CASE Group(i) # << >>
      <4>1. alive[i]
        BY <1>6, <3>2
      <4>2. mailbox'[i] = Append(mailbox[i], Group(i))
        BY <1>7, <2>1, <3>2, <4>1
      <4> QED BY <3>1, <4>2, FlattenAppend DEF Pending
    <3>3. CASE Group(i) = << >>
      <4>1. mailbox'[i] = mailbox[i]
        BY <1>7, <2>1, <3>3
      <4>2. Pending(i) \in Seq(Results)
        BY <2>1, InHand DEF AInv
      <4>3. Pending(i) \o << >> = Pending(i)
        BY <4>2, NoResults
      <4> QED BY <3>3, <4>1, <4>3 DEF Pending
    <3> QED BY <3>2, <3>3
  <2>5. /\ NewRows(PathOf(i)) \in Seq(Results) /\ buffer[i] \in Seq(Results)
        /\ Pending(i) \in Seq(Results) /\ Group(i) \in Seq(Results)
    BY <1>3, <2>1, InHand DEF AInv
  <2>6. (NewRows(PathOf(i)) \o (buffer[i] \o Pending(i))) \o Group(i) =
        NewRows(PathOf(i)) \o (buffer[i] \o (Pending(i) \o Group(i)))
    <3>1. PICK a \in Seq(Results), b \in Seq(Results), c \in Seq(Results), d \in Seq(Results) :
            a = NewRows(PathOf(i)) /\ b = buffer[i] /\ c = Pending(i) /\ d = Group(i)
      BY <2>5
    <3>2. PICK v \in Seq(Results) : v = b \o c
      BY ConcatProperties
    <3>3. (a \o v) \o d = a \o (v \o d)
      BY ResultsAssociative
    <3>4. (b \o c) \o d = b \o (c \o d)
      BY ResultsAssociative
    <3> QED BY <3>1, <3>2, <3>3, <3>4
  <2> QED BY <2>2, <2>3, <2>4, <2>6
<1>11. Written'
  BY <1>4 DEF Written
<1> QED BY <1>8, <1>9, <1>10, <1>11 DEF AInv

\* The drain returns only when every mailbox is empty and flushed.
LEMMA DrainKeeps == AInv /\ Drain => AInv'
<1> SUFFICES ASSUME AInv, Drain PROVE AInv'
  OBVIOUS
<1>1. /\ UNCHANGED <<run, n, sent, lost, mailbox, alive, state, buffer, files, base, summary>>
      /\ phase' \in {"drained", "raised"}
      /\ Unrecorded = {}
      /\ phase' = "drained" => ~lost /\ \A i \in Shards : mailbox[i] = << >>
  BY DEF Drain, shardVars
<1>2. /\ Shards' = Shards /\ Unrecorded' = Unrecorded
      /\ \A i : PathOf(i)' = PathOf(i) /\ NewRows(PathOf(i))' = NewRows(PathOf(i))
      /\ \A i : Pending(i)' = Pending(i) /\ Routed(i)' = Routed(i)
  BY <1>1 DEF Shards, PathOf, NewRows, Unrecorded, Pending, Routed
<1>3. Shape'
  BY <1>1, <1>2 DEF AInv, Shape
<1>4. Emptied'
  BY <1>1, <1>2 DEF AInv, Emptied
<1>5. Accounted'
  BY <1>1, <1>2 DEF AInv, Accounted
<1>6. Written'
  BY <1>1, <1>2 DEF Written
<1> QED BY <1>3, <1>4, <1>5, <1>6 DEF AInv

\* The concatenated file is of results.
LEMMA ConcatenatedType ==
  ASSUME Shape, n > 1
  PROVE  /\ [i \in Shards |-> files[i]] \in Seq(Seq(Results))
         /\ Concatenated \in Seq(Results)
<1>1. n \in Nat /\ Shards = 1 .. n /\ \A i \in Shards : i \in 0 .. MaxShards
  BY MostShards DEF Shape, AllShards, Shards
<1>2. [i \in 1 .. n |-> files[i]] \in [1 .. n -> Seq(Results)]
  BY <1>1 DEF Shape
<1>3. [i \in Shards |-> files[i]] \in Seq(Seq(Results))
  BY <1>1, <1>2
<1> QED BY <1>3, FlattenType DEF Concatenated

\* Finalize touches no shard file.
LEMMA FinalizeKeeps == AInv /\ Finalize => AInv'
<1> SUFFICES ASSUME AInv, Finalize PROVE AInv'
  OBVIOUS
<1>1. /\ UNCHANGED <<run, n, sent, lost, mailbox, alive, state, buffer, base, summary>>
      /\ phase = "drained" /\ phase' \in {"finalized", "raised"}
      /\ \/ files' = files
         \/ n > 1 /\ files' = [files EXCEPT ![0] = Concatenated]
  BY DEF Finalize, shardVars
<1>2. Shards' = Shards /\ Unrecorded' = Unrecorded /\ \A i : PathOf(i)' = PathOf(i)
  BY <1>1 DEF Shards, PathOf, Unrecorded
<1>3. \A i \in Shards : files'[PathOf(i)] = files[PathOf(i)]
  <2> TAKE i \in Shards
  <2>1. PathOf(i) \in 0 .. MaxShards /\ (n > 1 => PathOf(i) # 0)
    BY OwnPaths DEF AInv, Shape
  <2>2. files \in [0 .. MaxShards -> Seq(Results)]
    BY DEF AInv, Shape
  <2> QED BY <1>1, <2>1, <2>2
<1>4. \A i \in Shards : /\ NewRows(PathOf(i))' = NewRows(PathOf(i))
                        /\ Pending(i)' = Pending(i) /\ Routed(i)' = Routed(i)
  BY <1>1, <1>2, <1>3 DEF NewRows, Pending, Routed
<1>5. Shape'
  <2>1. files' \in [0 .. MaxShards -> Seq(Results)]
    <3>1. files \in [0 .. MaxShards -> Seq(Results)]
      BY DEF AInv, Shape
    <3>2. n > 1 => Concatenated \in Seq(Results)
      BY ConcatenatedType DEF AInv
    <3> QED BY <1>1, <3>1, <3>2
  <2>2. \A i \in Shards' : base'[PathOf(i)'] <= Len(files'[PathOf(i)'])
    BY <1>1, <1>2, <1>3 DEF AInv, Shape
  <2> QED BY <1>1, <2>1, <2>2 DEF AInv, Shape
<1>6. Emptied'
  BY <1>1, <1>2 DEF AInv, Emptied
<1>7. Accounted'
  <2> SUFFICES ASSUME NEW i \in Shards, alive[i] \/ ~lost
               PROVE  NewRows(PathOf(i))' \o (buffer[i] \o Pending(i)') = Routed(i)'
    BY <1>1, <1>2 DEF Accounted
  <2> QED BY <1>4 DEF AInv, Accounted
<1>8. Written'
  BY <1>1, <1>2 DEF AInv, Written
<1> QED BY <1>5, <1>6, <1>7, <1>8 DEF AInv

\* Nor does the summary.
LEMMA SummaryKeeps == AInv /\ GetSummary => AInv'
<1> SUFFICES ASSUME AInv, GetSummary PROVE AInv'
  OBVIOUS
<1>1. /\ UNCHANGED <<run, n, sent, lost, mailbox, alive, state, buffer, files, base>>
      /\ phase = "finalized" /\ phase' \in {"done", "raised"}
  BY DEF GetSummary, shardVars
<1>2. /\ Shards' = Shards /\ Unrecorded' = Unrecorded
      /\ \A i : PathOf(i)' = PathOf(i) /\ NewRows(PathOf(i))' = NewRows(PathOf(i))
      /\ \A i : Pending(i)' = Pending(i) /\ Routed(i)' = Routed(i)
  BY <1>1 DEF Shards, PathOf, NewRows, Unrecorded, Pending, Routed
<1>3. Shape'
  BY <1>1, <1>2 DEF AInv, Shape
<1>4. Emptied'
  BY <1>1, <1>2 DEF AInv, Emptied
<1>5. Accounted'
  BY <1>1, <1>2 DEF AInv, Accounted
<1>6. Written'
  BY <1>1, <1>2 DEF AInv, Written
<1> QED BY <1>3, <1>4, <1>5, <1>6 DEF AInv

\* The results of a mailbox whose first call is g are g and then the others.
LEMMA FirstCall ==
  ASSUME NEW g \in Seq(Results), NEW ms \in Seq(Seq(Results))
  PROVE  /\ <<g>> \o ms \in Seq(Seq(Results)) /\ <<g>> \o ms # << >>
         /\ FlattenSeq(<<g>> \o ms) = g \o FlattenSeq(ms)
<1>1. /\ <<g>> \in Seq(Seq(Results)) /\ Len(<<g>>) = 1 /\ <<g>>[1] = g
  OBVIOUS
<1> DEFINE ns == <<g>> \o ms
<1>2. PICK l \in Nat : l = Len(ms)
  OBVIOUS
<1>3. /\ ns \in Seq(Seq(Results)) /\ Len(ns) = 1 + l
      /\ \A j \in 1 .. 1 + l : ns[j] = IF j <= 1 THEN g ELSE ms[j - 1]
  BY <1>1, <1>2, ConcatProperties
<1> HIDE DEF ns
<1>4. ns # << >> /\ 1 \in 1 .. 1 + l
  BY <1>3
<1>5. /\ Head(ns) = g /\ Tail(ns) \in Seq(Seq(Results)) /\ Len(Tail(ns)) = l
      /\ \A j \in 1 .. l : Tail(ns)[j] = ns[j + 1]
  <2>1. /\ Tail(ns) \in Seq(Seq(Results)) /\ Len(Tail(ns)) = Len(ns) - 1
        /\ \A j \in 1 .. Len(Tail(ns)) : Tail(ns)[j] = ns[j + 1]
    BY <1>3, <1>4, HeadTailProperties
  <2>2. Head(ns) = ns[1]
    BY <1>3, <1>4
  <2>3. Len(Tail(ns)) = l
    BY <1>3, <2>1
  <2> QED BY <1>3, <1>4, <2>1, <2>2, <2>3
<1>6. Tail(ns) = ms
  <2>1. \A j \in 1 .. l : Tail(ns)[j] = ms[j]
    <3> TAKE j \in 1 .. l
    <3>1. j + 1 \in 1 .. 1 + l /\ ~(j + 1 <= 1) /\ (j + 1) - 1 = j
      OBVIOUS
    <3> QED BY <1>3, <1>5, <3>1
  <2> QED BY <1>2, <1>5, <2>1, SeqEqual
<1>7. FlattenSeq(ns) = Head(ns) \o FlattenSeq(Tail(ns))
  BY <1>3, <1>4, FlattenHead
<1> QED BY <1>3, <1>4, <1>5, <1>6, <1>7 DEF ns

\* Ingesting a result takes it from the mailbox to the buffer.
LEMMA TakenIn ==
  ASSUME NEW b \in Seq(Results), NEW h \in Seq(Results), NEW q \in Seq(Results), h # << >>
  PROVE  Append(b, Head(h)) \o (Tail(h) \o q) = b \o (h \o q)
<1>1. PICK e \in Results, t \in Seq(Results) : e = Head(h) /\ t = Tail(h)
  BY HeadTailProperties
<1>2. <<e>> \in Seq(Results) /\ Append(b, e) = b \o <<e>>
  BY AppendIsConcat
<1>3. h = <<e>> \o t
  <2>1. Len(h) \in Nat /\ Len(h) # 0 /\ 1 \in 1 .. Len(h)
    OBVIOUS
  <2>2. SubSeq(h, 1, Len(h)) = <<h[1]>> \o SubSeq(h, 1 + 1, Len(h))
    BY <2>1, SubSeqRecursiveFirst
  <2>3. Tail(h) = SubSeq(h, 2, Len(h)) /\ SubSeq(h, 1, Len(h)) = h /\ h[1] = Head(h)
    BY <2>1, TailIsSubSeq, SubSeqFull
  <2> QED BY <1>1, <2>2, <2>3
<1>4. PICK w \in Seq(Results) : w = t \o q
  BY ConcatProperties
<1>5. (<<e>> \o t) \o q = <<e>> \o (t \o q)
  BY <1>2, ResultsAssociative
<1>6. (b \o <<e>>) \o w = b \o (<<e>> \o w)
  BY <1>2, ResultsAssociative
<1>7. PICK hq : hq = h \o q
  OBVIOUS
<1>8. hq = <<e>> \o w
  BY <1>3, <1>4, <1>5, <1>7
<1> QED BY <1>1, <1>2, <1>4, <1>6, <1>7, <1>8

\* A result moves from the head of the mailbox to the end of the buffer.
LEMMA IngestKeeps ==
  ASSUME NEW i \in AllShards
  PROVE  AInv /\ Ingest(i) => AInv'
<1> SUFFICES ASSUME AInv, Ingest(i) PROVE AInv'
  OBVIOUS
<1>1. /\ UNCHANGED <<phase, run, n, sent, lost, alive, files, base, summary>>
      /\ mailbox[i] # << >> /\ Head(mailbox[i]) # << >>
      /\ buffer' = [buffer EXCEPT ![i] = Append(@, Head(Head(mailbox[i])))]
      /\ mailbox' = [mailbox EXCEPT ![i] = <<Tail(Head(@))>> \o Tail(@)]
  BY DEF Ingest
<1>2. PICK mb \in Seq(Seq(Results)), b \in Seq(Results) : mb = mailbox[i] /\ b = buffer[i]
  BY DEF AInv, Shape
<1>3. PICK h \in Seq(Results), ms \in Seq(Seq(Results)) : h = Head(mb) /\ ms = Tail(mb)
  BY <1>1, <1>2, HeadTailProperties
<1>4. Head(h) \in Results /\ Tail(h) \in Seq(Results) /\ Append(b, Head(h)) \in Seq(Results)
  BY <1>1, <1>2, <1>3, HeadTailProperties, AppendProperties
<1>5. /\ mailbox'[i] = <<Tail(h)>> \o ms /\ buffer'[i] = Append(b, Head(h))
      /\ \A j \in AllShards : j # i => mailbox'[j] = mailbox[j] /\ buffer'[j] = buffer[j]
  BY <1>1, <1>2, <1>3 DEF AInv, Shape
<1>6. mailbox'[i] \in Seq(Seq(Results)) /\ mailbox'[i] # << >>
  BY <1>3, <1>4, <1>5, FirstCall
<1>7. /\ Shards' = Shards /\ Unrecorded' = Unrecorded
      /\ \A j : PathOf(j)' = PathOf(j) /\ NewRows(PathOf(j))' = NewRows(PathOf(j))
      /\ \A j : Routed(j)' = Routed(j)
  BY <1>1 DEF Shards, PathOf, NewRows, Unrecorded, Routed
<1>8. Shape'
  <2>1. mailbox' \in [AllShards -> Seq(Seq(Results))]
    <3>1. mailbox \in [AllShards -> Seq(Seq(Results))]
      BY DEF AInv, Shape
    <3>2. mailbox' = [mailbox EXCEPT ![i] = mailbox'[i]]
      BY <1>1, <3>1
    <3> QED BY <1>6, <3>1, <3>2
  <2>2. buffer' \in [AllShards -> Seq(Results)]
    <3>1. buffer \in [AllShards -> Seq(Results)]
      BY DEF AInv, Shape
    <3>2. buffer' = [buffer EXCEPT ![i] = buffer'[i]]
      BY <1>1, <3>1
    <3> QED BY <1>4, <1>5, <3>1, <3>2
  <2> QED BY <1>1, <1>7, <2>1, <2>2 DEF AInv, Shape
<1>9. alive[i]
  BY <1>1 DEF AInv, Emptied
<1>10. Emptied'
  <2> SUFFICES ASSUME NEW j \in AllShards
               PROVE  /\ alive[j] => j \in Shards
                      /\ ~alive[j] => mailbox'[j] = << >>
                      /\ mailbox'[j] = << >> => buffer'[j] = << >>
    BY <1>1, <1>7 DEF Emptied
  <2>1. CASE j = i
    BY <1>6, <1>9, <2>1 DEF AInv, Emptied
  <2>2. CASE j # i
    BY <1>5, <2>2 DEF AInv, Emptied
  <2> QED BY <2>1, <2>2
<1>11. buffer'[i] \o Pending(i)' = buffer[i] \o Pending(i)
  <2>1. Pending(i) = h \o FlattenSeq(ms)
    BY <1>1, <1>2, <1>3, FlattenHead DEF Pending
  <2>2. Pending(i)' = Tail(h) \o FlattenSeq(ms)
    <3>1. PICK t \in Seq(Results) : t = Tail(h)
      BY <1>4
    <3>2. FlattenSeq(<<t>> \o ms) = t \o FlattenSeq(ms)
      BY FirstCall
    <3> QED BY <1>5, <3>1, <3>2 DEF Pending
  <2>3. PICK q \in Seq(Results) : q = FlattenSeq(ms)
    BY <1>3, FlattenType
  <2>4. Append(b, Head(h)) \o (Tail(h) \o q) = b \o (h \o q)
    <3>1. h # << >>
      BY <1>1, <1>2, <1>3
    <3> QED BY <3>1, TakenIn
  <2>5. buffer'[i] \o Pending(i)' = Append(b, Head(h)) \o (Tail(h) \o q)
    <3>1. Pending(i)' = Tail(h) \o q
      BY <2>2, <2>3
    <3>2. buffer'[i] = Append(b, Head(h))
      BY <1>5
    <3> QED BY <3>1, <3>2
  <2>6. buffer[i] \o Pending(i) = b \o (h \o q)
    <3>1. Pending(i) = h \o q
      BY <2>1, <2>3
    <3> QED BY <1>2, <3>1
  <2> QED BY <2>4, <2>5, <2>6
<1>12. Accounted'
  <2> SUFFICES ASSUME NEW j \in Shards, alive[j] \/ ~lost
               PROVE  NewRows(PathOf(j)) \o (buffer'[j] \o Pending(j)') = Routed(j)
    BY <1>1, <1>7 DEF Accounted
  <2>1. NewRows(PathOf(j)) \o (buffer[j] \o Pending(j)) = Routed(j)
    BY DEF AInv, Accounted
  <2>2. CASE j = i
    BY <1>11, <2>1, <2>2
  <2>3. CASE j # i
    <3>1. buffer'[j] = buffer[j] /\ Pending(j)' = Pending(j)
      BY <1>5, <2>3, OwnPaths DEF AInv, Shape, Pending
    <3> QED BY <2>1, <3>1
  <2> QED BY <2>2, <2>3
<1>13. Written'
  <2> SUFFICES ASSUME phase \in {"drained", "finalized", "done"} PROVE FALSE
    BY <1>1 DEF Written
  <2>1. i \in Shards /\ mailbox[i] # << >>
    BY <1>1, <1>9 DEF AInv, Emptied
  <2> QED BY <2>1 DEF AInv, Written
<1> QED BY <1>8, <1>10, <1>12, <1>13 DEF AInv

\* The buffer moves to the end of the file.
LEMMA FlushKeeps ==
  ASSUME NEW i \in AllShards
  PROVE  AInv /\ Flush(i) => AInv'
<1> SUFFICES ASSUME AInv, Flush(i) PROVE AInv'
  OBVIOUS
<1>1. /\ UNCHANGED <<phase, run, n, sent, lost, alive, base, summary>>
      /\ mailbox[i] # << >> /\ Head(mailbox[i]) = << >>
      /\ files' = [files EXCEPT ![PathOf(i)] = @ \o buffer[i]]
      /\ buffer' = [buffer EXCEPT ![i] = << >>]
      /\ mailbox' = [mailbox EXCEPT ![i] = Tail(@)]
  BY DEF Flush
<1>2. alive[i] /\ i \in Shards
  BY <1>1 DEF AInv, Emptied
<1>3. PICK mb \in Seq(Seq(Results)), b \in Seq(Results) : mb = mailbox[i] /\ b = buffer[i]
  BY DEF AInv, Shape
<1>4. PICK ms \in Seq(Seq(Results)) : ms = Tail(mb)
  BY <1>1, <1>3, HeadTailProperties
<1>5. /\ mailbox'[i] = ms /\ buffer'[i] = << >>
      /\ \A j \in AllShards : j # i => mailbox'[j] = mailbox[j] /\ buffer'[j] = buffer[j]
  BY <1>1, <1>3, <1>4 DEF AInv, Shape
<1>6. PICK p \in 0 .. MaxShards, f \in Seq(Results), c \in Nat :
        p = PathOf(i) /\ f = files[p] /\ c = base[p] /\ c <= Len(f)
  BY <1>2, OwnPaths DEF AInv, Shape
<1>7. /\ files'[p] = f \o b
      /\ \A j \in Shards : j # i => files'[PathOf(j)] = files[PathOf(j)]
  <2>1. files \in [0 .. MaxShards -> Seq(Results)]
    BY DEF AInv, Shape
  <2>2. \A j \in Shards : PathOf(j) \in 0 .. MaxShards /\ (j # i => PathOf(j) # p)
    BY <1>2, <1>6, OwnPaths DEF AInv, Shape
  <2> QED BY <1>1, <1>3, <1>6, <2>1, <2>2
<1>8. Shards' = Shards /\ Unrecorded' = Unrecorded /\ \A j : PathOf(j)' = PathOf(j) /\ Routed(j)' = Routed(j)
  BY <1>1 DEF Shards, PathOf, Unrecorded, Routed
<1>9. Len(f) \in Nat /\ Len(b) \in Nat /\ f \o b \in Seq(Results) /\ Len(f \o b) = Len(f) + Len(b)
  BY ConcatProperties
<1>10. Shape'
  <2>1. mailbox' \in [AllShards -> Seq(Seq(Results))]
    BY <1>1, <1>3, <1>4 DEF AInv, Shape
  <2>2. buffer' \in [AllShards -> Seq(Results)]
    <3>1. << >> \in Seq(Results)
      OBVIOUS
    <3> QED BY <1>1, <3>1 DEF AInv, Shape
  <2>3. files' \in [0 .. MaxShards -> Seq(Results)]
    <3>1. files \in [0 .. MaxShards -> Seq(Results)]
      BY DEF AInv, Shape
    <3>2. files' = [files EXCEPT ![p] = f \o b]
      BY <1>1, <1>3, <1>6
    <3> QED BY <1>9, <3>1, <3>2
  <2>4. \A j \in Shards : base[PathOf(j)] <= Len(files'[PathOf(j)])
    <3> TAKE j \in Shards
    <3>1. CASE j = i
      <4>1. c <= Len(f \o b)
        BY <1>6, <1>9
      <4> QED BY <1>6, <1>7, <3>1, <4>1
    <3>2. CASE j # i
      BY <1>7, <3>2 DEF AInv, Shape
    <3> QED BY <3>1, <3>2
  <2> QED BY <1>1, <1>8, <2>1, <2>2, <2>3, <2>4 DEF AInv, Shape
<1>11. Emptied'
  <2> SUFFICES ASSUME NEW j \in AllShards
               PROVE  /\ alive[j] => j \in Shards
                      /\ ~alive[j] => mailbox'[j] = << >>
                      /\ mailbox'[j] = << >> => buffer'[j] = << >>
    BY <1>1, <1>8 DEF Emptied
  <2>1. CASE j = i
    BY <1>2, <1>5, <2>1
  <2>2. CASE j # i
    BY <1>5, <2>2 DEF AInv, Emptied
  <2> QED BY <2>1, <2>2
<1>12. Accounted'
  <2> SUFFICES ASSUME NEW j \in Shards, alive[j] \/ ~lost
               PROVE  NewRows(PathOf(j))' \o (buffer'[j] \o Pending(j)') = Routed(j)
    BY <1>1, <1>8 DEF Accounted
  <2>1. NewRows(PathOf(j)) \o (buffer[j] \o Pending(j)) = Routed(j)
    BY DEF AInv, Accounted
  <2>2. CASE j = i
    <3>1. PICK r \in Seq(Results) : r = NewRows(PathOf(i))
      BY <1>2, InHand DEF AInv
    <3>2. NewRows(PathOf(i))' = r \o b
      <4>1. r = SubSeq(f, c + 1, Len(f))
        BY <1>6, <3>1 DEF NewRows
      <4>2. NewRows(PathOf(i))' = SubSeq(f \o b, c + 1, Len(f \o b))
        BY <1>1, <1>6, <1>7, <1>8 DEF NewRows
      <4>3. c <= Len(f)
        BY <1>6
      <4>4. SubSeq(f \o b, c + 1, Len(f \o b)) = SubSeq(f, c + 1, Len(f)) \o b
        BY <4>3, RowsGrow
      <4> QED BY <4>1, <4>2, <4>4
    <3>3. PICK q \in Seq(Results) : q = FlattenSeq(ms)
      BY FlattenType
    <3>4. Pending(i)' = q /\ Pending(i) = << >> \o q
      BY <1>1, <1>3, <1>4, <1>5, <3>3, FlattenHead DEF Pending
    <3>5. << >> \o q = q
      BY NoResults
    <3>6. (r \o b) \o q = r \o (b \o q)
      BY ResultsAssociative
    <3> QED BY <1>3, <1>5, <2>1, <2>2, <3>1, <3>2, <3>4, <3>5, <3>6
  <2>3. CASE j # i
    <3>1. buffer'[j] = buffer[j] /\ Pending(j)' = Pending(j)
      BY <1>5, <2>3, OwnPaths DEF AInv, Shape, Pending
    <3>2. NewRows(PathOf(j))' = NewRows(PathOf(j))
      BY <1>1, <1>7, <1>8, <2>3 DEF NewRows
    <3> QED BY <2>1, <3>1, <3>2
  <2> QED BY <2>2, <2>3
<1>13. Written'
  BY <1>1, <1>2 DEF AInv, Written
<1> QED BY <1>10, <1>11, <1>12, <1>13 DEF AInv

\* A shard that dies keeps what its file has, and nothing more.
LEMMA CrashKeeps ==
  ASSUME NEW i \in AllShards
  PROVE  AInv /\ Crash(i) => AInv'
<1> SUFFICES ASSUME AInv, Crash(i) PROVE AInv'
  OBVIOUS
<1>1. /\ UNCHANGED <<phase, run, n, sent, state, base, summary>>
      /\ alive[i] /\ phase \in {"recording", "drained", "finalized"}
      /\ alive' = [alive EXCEPT ![i] = FALSE]
      /\ lost' = (lost \/ mailbox[i] # << >>)
      /\ mailbox' = [mailbox EXCEPT ![i] = << >>]
      /\ buffer' = [buffer EXCEPT ![i] = << >>]
  BY DEF Crash
<1>2. i \in Shards
  BY <1>1 DEF AInv, Emptied
<1>3. PICK b \in Seq(Results) : b = buffer[i]
  BY DEF AInv, Shape
<1>4. PICK k \in 0 .. Len(b) :
        files' = [files EXCEPT ![PathOf(i)] = @ \o SubSeq(b, 1, k)]
  BY <1>3 DEF Crash
<1>5. PICK g \in Seq(Results) : g = SubSeq(b, 1, k) /\ (b = << >> => g = << >>)
  <2>1. Len(b) \in Nat /\ k \in Nat /\ \A j \in 1 .. k : b[j] \in Results
    BY <1>4
  <2>2. SubSeq(b, 1, k) \in Seq(Results)
    BY <2>1, SubSeqProperties
  <2>3. b = << >> => SubSeq(b, 1, k) = << >>
    <3>1. b = << >> => k < 1
      BY <1>4
    <3> QED BY <2>1, <3>1, SubSeqEmpty
  <2> QED BY <2>2, <2>3
<1>6. PICK p \in 0 .. MaxShards, f \in Seq(Results), c \in Nat :
        p = PathOf(i) /\ f = files[p] /\ c = base[p] /\ c <= Len(f)
  BY <1>2, OwnPaths DEF AInv, Shape
<1>7. /\ files'[p] = f \o g
      /\ \A j \in Shards : j # i => files'[PathOf(j)] = files[PathOf(j)]
  <2>1. files \in [0 .. MaxShards -> Seq(Results)]
    BY DEF AInv, Shape
  <2>2. \A j \in Shards : PathOf(j) \in 0 .. MaxShards /\ (j # i => PathOf(j) # p)
    BY <1>2, <1>6, OwnPaths DEF AInv, Shape
  <2> QED BY <1>4, <1>5, <1>6, <2>1, <2>2
<1>8. Shards' = Shards /\ Unrecorded' = Unrecorded /\ \A j : PathOf(j)' = PathOf(j) /\ Routed(j)' = Routed(j)
  BY <1>1 DEF Shards, PathOf, Unrecorded, Routed
<1>9. Len(f) \in Nat /\ Len(g) \in Nat /\ f \o g \in Seq(Results) /\ Len(f \o g) = Len(f) + Len(g)
  BY ConcatProperties
<1>10. /\ mailbox'[i] = << >> /\ buffer'[i] = << >> /\ ~alive'[i]
       /\ \A j \in AllShards : j # i => /\ mailbox'[j] = mailbox[j] /\ buffer'[j] = buffer[j]
                                        /\ alive'[j] = alive[j]
  BY <1>1 DEF AInv, Shape
<1>11. Shape'
  <2>1. /\ mailbox' \in [AllShards -> Seq(Seq(Results))] /\ buffer' \in [AllShards -> Seq(Results)]
        /\ alive' \in [AllShards -> BOOLEAN] /\ lost' \in BOOLEAN
    <3>1. << >> \in Seq(Results) /\ << >> \in Seq(Seq(Results))
      OBVIOUS
    <3> QED BY <1>1, <3>1 DEF AInv, Shape
  <2>2. files' \in [0 .. MaxShards -> Seq(Results)]
    <3>1. files \in [0 .. MaxShards -> Seq(Results)]
      BY DEF AInv, Shape
    <3>2. files' = [files EXCEPT ![p] = f \o g]
      BY <1>4, <1>5, <1>6
    <3> QED BY <1>9, <3>1, <3>2
  <2>3. \A j \in Shards : base[PathOf(j)] <= Len(files'[PathOf(j)])
    <3> TAKE j \in Shards
    <3>1. CASE j = i
      <4>1. c <= Len(f \o g)
        BY <1>6, <1>9
      <4> QED BY <1>6, <1>7, <3>1, <4>1
    <3>2. CASE j # i
      BY <1>7, <3>2 DEF AInv, Shape
    <3> QED BY <3>1, <3>2
  <2> QED BY <1>1, <1>8, <2>1, <2>2, <2>3 DEF AInv, Shape
<1>12. Emptied'
  <2> SUFFICES ASSUME NEW j \in AllShards
               PROVE  /\ alive'[j] => j \in Shards
                      /\ ~alive'[j] => mailbox'[j] = << >>
                      /\ mailbox'[j] = << >> => buffer'[j] = << >>
    BY <1>8 DEF Emptied
  <2>1. CASE j = i
    BY <1>2, <1>10, <2>1
  <2>2. CASE j # i
    BY <1>10, <2>2 DEF AInv, Emptied
  <2> QED BY <2>1, <2>2
<1>13. Accounted'
  <2> SUFFICES ASSUME NEW j \in Shards, alive'[j] \/ ~lost'
               PROVE  NewRows(PathOf(j))' \o (buffer'[j] \o Pending(j)') = Routed(j)
    BY <1>8 DEF Accounted
  <2>1. NewRows(PathOf(j)) \o (buffer[j] \o Pending(j)) = Routed(j)
    <3>1. alive[j] \/ ~lost
      <4>1. j \in AllShards
        BY OwnPaths DEF AInv, Shape
      <4>2. alive'[j] => alive[j]
        BY <1>1, <1>10, <4>1
      <4>3. ~lost' => ~lost
        BY <1>1, Zenon
      <4> QED BY <4>2, <4>3
    <3> QED BY <3>1 DEF AInv, Accounted
  <2>2. CASE j = i
    \* Nothing was in its mailbox, hence nothing in its buffer.
    <3>1. mailbox[i] = << >> /\ b = << >>
      BY <1>1, <1>3, <1>10, <2>2 DEF AInv, Emptied
    <3>2. f \o g = f
      BY <1>5, <3>1, NoResults
    <3>3. NewRows(PathOf(i))' = NewRows(PathOf(i))
      BY <1>1, <1>6, <1>7, <1>8, <3>2 DEF NewRows
    <3>4. Pending(i)' = Pending(i) /\ buffer'[i] = buffer[i]
      BY <1>3, <1>10, <3>1 DEF Pending
    <3> QED BY <2>1, <2>2, <3>3, <3>4
  <2>3. CASE j # i
    <3>1. buffer'[j] = buffer[j] /\ Pending(j)' = Pending(j)
      BY <1>10, <2>3, OwnPaths DEF AInv, Shape, Pending
    <3>2. NewRows(PathOf(j))' = NewRows(PathOf(j))
      BY <1>1, <1>7, <1>8, <2>3 DEF NewRows
    <3> QED BY <2>1, <3>1, <3>2
  <2> QED BY <2>2, <2>3
<1>14. Written'
  <2> SUFFICES ASSUME phase \in {"drained", "finalized", "done"} PROVE Written'
    BY <1>1 DEF Written
  <2>1. ~lost /\ Unrecorded = {} /\ \A j \in Shards : mailbox[j] = << >>
    BY DEF AInv, Written
  <2>2. ~lost' /\ Unrecorded' = {}
    BY <1>1, <1>2, <1>8, <2>1
  <2>3. \A j \in Shards : mailbox'[j] = << >>
    <3> TAKE j \in Shards
    <3>1. j \in AllShards
      BY OwnPaths DEF AInv, Shape
    <3> QED BY <1>10, <2>1, <3>1
  <2> QED BY <1>8, <2>2, <2>3 DEF Written
<1> QED BY <1>11, <1>12, <1>13, <1>14 DEF AInv

\* Every step keeps the accounts of the shards.
LEMMA AccountedStep == AInv /\ [Next]_vars => AInv'
<1> SUFFICES ASSUME AInv, [Next]_vars PROVE AInv'
  OBVIOUS
<1>1. CASE UNCHANGED vars
  <2>1. /\ Shards' = Shards /\ Unrecorded' = Unrecorded
        /\ \A i : PathOf(i)' = PathOf(i) /\ NewRows(PathOf(i))' = NewRows(PathOf(i))
        /\ \A i : Pending(i)' = Pending(i) /\ Routed(i)' = Routed(i)
    BY <1>1 DEF vars, shardVars, Shards, PathOf, NewRows, Unrecorded, Pending, Routed
  <2>2. Shape' /\ Emptied'
    BY <1>1, <2>1 DEF vars, shardVars, AInv, Shape, Emptied
  <2>3. Accounted' /\ Written'
    BY <1>1, <2>1 DEF vars, shardVars, AInv, Accounted, Written
  <2> QED BY <2>2, <2>3 DEF AInv
<1>2. CASE Finished
  BY <1>1, <1>2 DEF Finished
<1>3. CASE StartRun
  BY <1>3, StartKeeps
<1>4. CASE RecordBatch
  BY <1>4, RecordKeeps
<1>5. CASE Drain
  BY <1>5, DrainKeeps
<1>6. CASE Finalize
  BY <1>6, FinalizeKeeps
<1>7. CASE GetSummary
  BY <1>7, SummaryKeeps
<1>8. ASSUME NEW i \in AllShards, Ingest(i) \/ Flush(i) \/ Crash(i) PROVE AInv'
  BY <1>8, IngestKeeps, FlushKeeps, CrashKeeps
<1> QED BY <1>1, <1>2, <1>3, <1>4, <1>5, <1>6, <1>7, <1>8 DEF Next

\* However many shards there are, however their work interleaves and whichever of
\* them die, file, buffer and mailbox of a shard account for what it was sent, and
\* only a shard that died has lost any of it.
THEOREM AggregatorInvariant == Spec => []AInv
<1> QED BY AccountedInit, AccountedStep, PTL DEF Spec

\* Between the driver and the file of a live shard no row is lost, written
\* twice or moved, whatever the batches and whenever the shards flush
\* (record_batch of the facade and of the shard).
THEOREM InFlightTheorem == Spec => []NothingLostInFlight
<1>1. AInv => NothingLostInFlight
  <2> SUFFICES ASSUME AInv, NEW i \in Shards, alive[i]
               PROVE  NewRows(PathOf(i)) \o buffer[i] \o FlattenSeq(mailbox[i]) = Routed(i)
    BY DEF NothingLostInFlight
  <2>1. i \in AllShards
    BY OwnPaths DEF AInv, Shape
  <2>2. PICK r \in Seq(Results), b \in Seq(Results), q \in Seq(Results) :
          r = NewRows(PathOf(i)) /\ b = buffer[i] /\ q = Pending(i)
    BY <2>1, InHand DEF AInv
  <2>3. (r \o b) \o q = r \o (b \o q)
    BY ResultsAssociative
  <2>4. NewRows(PathOf(i)) \o (buffer[i] \o Pending(i)) = Routed(i)
    BY DEF AInv, Accounted
  <2> QED BY <2>2, <2>3, <2>4 DEF Pending
<1> QED BY <1>1, AggregatorInvariant, PTL

\* When ray.get(_write_refs) has returned, the files hold every row, and keep
\* them though shards die before finalize: a shard that dies has nothing left
\* to flush.
THEOREM DurableTheorem == Spec => []DrainedIsDurable
<1>1. AInv => DrainedIsDurable
  <2> SUFFICES ASSUME AInv, phase = "drained", NEW i \in Shards
               PROVE  NewRows(PathOf(i)) = Routed(i)
    BY DEF DrainedIsDurable
  <2>1. i \in AllShards
    BY OwnPaths DEF AInv, Shape
  <2>2. ~lost /\ mailbox[i] = << >> /\ buffer[i] = << >> /\ Pending(i) = << >>
    BY <2>1, FlattenNone DEF AInv, Written, Emptied, Pending
  <2>3. PICK r \in Seq(Results) : r = NewRows(PathOf(i))
    BY InHand DEF AInv
  <2>4. NewRows(PathOf(i)) \o (buffer[i] \o Pending(i)) = Routed(i)
    BY <2>2 DEF AInv, Accounted
  <2>5. << >> \o << >> = << >> /\ r \o << >> = r
    BY NoResults
  <2> QED BY <2>2, <2>3, <2>4, <2>5
<1> QED BY <1>1, AggregatorInvariant, PTL

-----------------------------------------------------------------------------
(* The output file. *)

\* The results of a sequence: those at its places.
Elem(s) == {s[k] : k \in 1 .. Len(s)}

\* s has one result of a task at most.
Distinct(s) == \A j, k \in 1 .. Len(s) : s[j].task = s[k].task => j = k

\* What two sequences hold together.
LEMMA ConcatElem ==
  ASSUME NEW s \in Seq(Results), NEW t \in Seq(Results)
  PROVE  Elem(s \o t) = Elem(s) \cup Elem(t)
<1>1. PICK m \in Nat, l \in Nat : m = Len(s) /\ l = Len(t)
  OBVIOUS
<1>2. /\ Len(s \o t) = m + l
      /\ \A j \in 1 .. m + l : (s \o t)[j] = IF j <= m THEN s[j] ELSE t[j - m]
  BY <1>1, ConcatProperties
<1>3. /\ \A j \in 1 .. m + l : j \in 1 .. m \/ (~(j <= m) /\ j - m \in 1 .. l)
      /\ \A j \in 1 .. m : j \in 1 .. m + l /\ j <= m
      /\ \A j \in 1 .. l : m + j \in 1 .. m + l /\ ~(m + j <= m) /\ (m + j) - m = j
  OBVIOUS
<1>4. \A r : r \in Elem(s \o t) => r \in Elem(s) \/ r \in Elem(t)
  BY <1>1, <1>2, <1>3 DEF Elem
<1>5. \A r \in Elem(s) : r \in Elem(s \o t)
  BY <1>1, <1>2, <1>3 DEF Elem
<1>6. \A r \in Elem(t) : r \in Elem(s \o t)
  <2> TAKE r \in Elem(t)
  <2>1. PICK j \in 1 .. l : r = t[j]
    BY <1>1 DEF Elem
  <2>2. m + j \in 1 .. m + l /\ (s \o t)[m + j] = r
    BY <1>2, <1>3, <2>1
  <2> QED BY <1>2, <2>2 DEF Elem
<1> QED BY <1>4, <1>5, <1>6

\* Two sequences that share no task have no task twice when joined.
LEMMA ConcatDistinct ==
  ASSUME NEW s \in Seq(Results), NEW t \in Seq(Results), Distinct(s), Distinct(t),
         \A a \in Elem(s), b \in Elem(t) : a.task # b.task
  PROVE  Distinct(s \o t)
<1>1. PICK m \in Nat, l \in Nat : m = Len(s) /\ l = Len(t)
  OBVIOUS
<1>2. /\ Len(s \o t) = m + l
      /\ \A j \in 1 .. m + l : (s \o t)[j] = IF j <= m THEN s[j] ELSE t[j - m]
  BY <1>1, ConcatProperties
<1>3. ASSUME NEW j \in 1 .. m + l, NEW k \in 1 .. m + l, (s \o t)[j].task = (s \o t)[k].task
      PROVE  j = k
  <2>1. CASE j <= m /\ k <= m
    <3>1. j \in 1 .. Len(s) /\ k \in 1 .. Len(s)
      BY <1>1, <2>1
    <3>2. s[j].task = s[k].task
      BY <1>2, <1>3, <2>1
    <3> QED BY <3>1, <3>2 DEF Distinct
  <2>2. CASE ~(j <= m) /\ ~(k <= m)
    <3>1. j - m \in 1 .. l /\ k - m \in 1 .. l /\ (j - m = k - m => j = k)
      BY <2>2
    <3>2. t[j - m].task = t[k - m].task
      BY <1>2, <1>3, <2>2
    <3>3. j - m = k - m
      BY <1>1, <3>1, <3>2 DEF Distinct
    <3> QED BY <3>1, <3>3
  <2>3. CASE j <= m /\ ~(k <= m)
    <3>1. s[j] \in Elem(s) /\ t[k - m] \in Elem(t)
      BY <1>1, <2>3 DEF Elem
    <3> QED BY <1>2, <1>3, <2>3, <3>1
  <2>4. CASE ~(j <= m) /\ k <= m
    <3>1. s[k] \in Elem(s) /\ t[j - m] \in Elem(t)
      BY <1>1, <2>4 DEF Elem
    <3> QED BY <1>2, <1>3, <2>4, <3>1
  <2> QED BY <2>1, <2>2, <2>3, <2>4
<1> QED BY <1>2, <1>3 DEF Distinct

\* A shard is given the results of its tasks, and those only.
LEMMA OfShardElem ==
  ASSUME NEW s \in Seq(Results), NEW k, NEW i
  PROVE  Elem(OfShard(s, k, i)) = {r \in Elem(s) : ShardIndex(r.task, k) = i}
BY OfShardElements DEF Elem

\* It is given no task twice if the driver sent none twice.
LEMMA OfShardDistinct ==
  ASSUME NEW s \in Seq(Results), Distinct(s), NEW k, NEW i
  PROVE  Distinct(OfShard(s, k, i))
<1>1. PICK f : Selects(f, s, k, i) /\ OfShard(s, k, i) = f[Len(s)]
  BY OfShardSelects
<1>2. PICK l \in Nat : l = Len(s)
  OBVIOUS
<1> DEFINE Before(m) == {s[j] : j \in 1 .. m}
           At(m) == Elem(f[m]) \subseteq Before(m) /\ Distinct(f[m])
           T == {m \in Nat : m <= l => At(m)}
<1>3. 0 \in T
  <2>1. f[0] = << >> /\ Len(<< >>) = 0 /\ 1 .. 0 = {}
    BY <1>1 DEF Selects
  <2>2. Elem(f[0]) = {} /\ Distinct(f[0])
    BY <2>1 DEF Elem, Distinct
  <2> QED BY <2>2
<1>4. ASSUME NEW m \in Nat, m \in T PROVE m + 1 \in T
  <2> SUFFICES ASSUME m + 1 <= l PROVE At(m + 1)
    <3> HIDE DEF At
    <3> QED OBVIOUS
  <2>1. /\ m + 1 \in 1 .. l /\ (m + 1) - 1 = m /\ m \in 0 .. l /\ m <= l
        /\ \A j \in 1 .. m : j \in 1 .. m + 1 /\ j \in 1 .. l /\ j # m + 1
    OBVIOUS
  <2>2. At(m)
    BY <1>4, <2>1
  <2>3. f[m] \in Seq(Results) /\ s[m + 1] \in Results
    BY <1>1, <1>2, <2>1 DEF Selects
  <2>4. f[m + 1] = IF ShardIndex(s[m + 1].task, k) = i THEN Append(f[m], s[m + 1]) ELSE f[m]
    BY <1>1, <1>2, <2>1 DEF Selects
  <2>5. Before(m) \subseteq Before(m + 1) /\ s[m + 1] \in Before(m + 1)
    BY <2>1
  <2>6. CASE f[m + 1] = f[m]
    BY <2>2, <2>5, <2>6
  <2>7. CASE f[m + 1] = Append(f[m], s[m + 1])
    <3>1. PICK a \in Seq(Results), e \in Results : a = f[m] /\ e = s[m + 1]
      BY <2>3
    <3>2. f[m + 1] = a \o <<e>> /\ <<e>> \in Seq(Results)
      BY <2>7, <3>1, AppendIsConcat
    <3>3. Elem(<<e>>) = {e} /\ Distinct(<<e>>)
      BY DEF Elem, Distinct
    <3>4. Elem(f[m + 1]) = Elem(a) \cup {e}
      BY <3>2, <3>3, ConcatElem
    <3>5. \A x \in Elem(a), y \in Elem(<<e>>) : x.task # y.task
      <4> TAKE x \in Elem(a), y \in Elem(<<e>>)
      <4>1. y = s[m + 1]
        BY <3>1, <3>3
      <4>2. PICK j \in 1 .. m : x = s[j]
        BY <2>2, <3>1
      <4> QED BY <1>2, <2>1, <4>1, <4>2 DEF Distinct
    <3>6. Distinct(f[m + 1])
      <4>1. Distinct(a)
        BY <2>2, <3>1
      <4> QED BY <3>2, <3>3, <3>5, <4>1, ConcatDistinct
    <3> QED BY <2>2, <2>5, <3>1, <3>4, <3>6
  <2> QED BY <2>4, <2>6, <2>7
<1>5. Nat \subseteq T
  <2> HIDE DEF T
  <2> QED BY <1>3, <1>4, Inductive
<1>6. At(l)
  <2> HIDE DEF At
  <2> QED BY <1>5
<1> QED BY <1>1, <1>2, <1>6

\* Joining sequences that have no task in common keeps their results, and tasks
\* that occur once in each.
LEMMA FlattenApart ==
  ASSUME NEW ms \in Seq(Seq(Results)),
         \A j \in 1 .. Len(ms) : Distinct(ms[j]),
         \A j, k \in 1 .. Len(ms) : j # k =>
           \A a \in Elem(ms[j]), b \in Elem(ms[k]) : a.task # b.task
  PROVE  /\ Distinct(FlattenSeq(ms))
         /\ Elem(FlattenSeq(ms)) = UNION {Elem(ms[j]) : j \in 1 .. Len(ms)}
<1>1. PICK f : Joins(f, ms) /\ FlattenSeq(ms) = f[Len(ms)]
  BY FlattenJoins
<1>2. PICK l \in Nat : l = Len(ms)
  OBVIOUS
<1> DEFINE Before(m) == UNION {Elem(ms[j]) : j \in 1 .. m}
           At(m) == Elem(f[m]) = Before(m) /\ Distinct(f[m])
           T == {m \in Nat : m <= l => At(m)}
<1>3. 0 \in T
  <2>1. f[0] = << >> /\ Len(<< >>) = 0 /\ 1 .. 0 = {}
    BY <1>1 DEF Joins
  <2>2. Elem(f[0]) = {} /\ Distinct(f[0])
    BY <2>1 DEF Elem, Distinct
  <2>3. At(0)
    BY <2>1, <2>2
  <2> HIDE DEF At
  <2> QED BY <2>3
<1>4. ASSUME NEW m \in Nat, m \in T PROVE m + 1 \in T
  <2> SUFFICES ASSUME m + 1 <= l PROVE At(m + 1)
    <3> HIDE DEF At
    <3> QED OBVIOUS
  <2>1. /\ m + 1 \in 1 .. l /\ (m + 1) - 1 = m /\ m \in 0 .. l /\ m <= l
        /\ \A j : j \in 1 .. m + 1 <=> j \in 1 .. m \/ j = m + 1
        /\ \A j \in 1 .. m : j \in 1 .. l /\ j # m + 1
    OBVIOUS
  <2>2. At(m)
    BY <1>4, <2>1
  <2>3. PICK a \in Seq(Results), b \in Seq(Results) : a = f[m] /\ b = ms[m + 1]
    <3>1. f[m] \in Seq(Results)
      BY <1>1, <1>2, <2>1 DEF Joins
    <3>2. ms[m + 1] \in Seq(Results)
      BY <1>2, <2>1
    <3> QED BY <3>1, <3>2
  <2>4. f[m + 1] = a \o b
    BY <1>1, <1>2, <2>1, <2>3 DEF Joins
  <2>5. Elem(f[m + 1]) = Elem(a) \cup Elem(b)
    BY <2>4, ConcatElem
  <2>6. Before(m + 1) = Before(m) \cup Elem(ms[m + 1])
    BY <2>1
  <2>7. \A x \in Elem(a), y \in Elem(b) : x.task # y.task
    <3> TAKE x \in Elem(a), y \in Elem(b)
    <3>1. PICK j \in 1 .. m : x \in Elem(ms[j])
      BY <2>2, <2>3
    <3> QED BY <1>2, <2>1, <2>3, <3>1
  <2>8. Distinct(a) /\ Distinct(b)
    BY <1>2, <2>1, <2>2, <2>3
  <2>9. Distinct(f[m + 1])
    BY <2>4, <2>7, <2>8, ConcatDistinct
  <2> QED BY <2>2, <2>3, <2>5, <2>6, <2>9
<1>5. Nat \subseteq T
  <2> HIDE DEF T
  <2> QED BY <1>3, <1>4, Inductive
<1>6. At(l)
  <2> HIDE DEF At
  <2> QED BY <1>5
<1> QED BY <1>1, <1>2, <1>6

\* Every task has one of the shards.
LEMMA IndexInRange ==
  ASSUME NEW t \in TaskIds, NEW k \in Nat \ {0}
  PROVE  ShardIndex(t, k) \in 1 .. k
<1>1. PICK c \in Nat : c = Crc[t]
  BY CrcAssumption
<1>2. c % k \in 0 .. k - 1
  OBVIOUS
<1> QED BY <1>1, <1>2 DEF ShardIndex

\* The results of the shards, put together, are the results.
LEMMA ShardsTogether ==
  ASSUME NEW s \in Seq(Results), Distinct(s), NEW k \in Nat \ {0}
  PROVE  /\ Distinct(FlattenSeq([i \in 1 .. k |-> OfShard(s, k, i)]))
         /\ Elem(FlattenSeq([i \in 1 .. k |-> OfShard(s, k, i)])) = Elem(s)
         /\ FlattenSeq([i \in 1 .. k |-> OfShard(s, k, i)]) \in Seq(Results)
<1> DEFINE ms == [i \in 1 .. k |-> OfShard(s, k, i)]
<1>1. /\ ms \in Seq(Seq(Results)) /\ Len(ms) = k
      /\ \A i \in 1 .. k : ms[i] = OfShard(s, k, i)
  <2>1. \A i \in 1 .. k : OfShard(s, k, i) \in Seq(Results)
    BY OfShardType
  <2> QED BY <2>1
<1> HIDE DEF ms
<1>2. \A i \in 1 .. k : Distinct(ms[i])
  BY <1>1, OfShardDistinct
<1>3. \A i \in 1 .. k : Elem(ms[i]) = {r \in Elem(s) : ShardIndex(r.task, k) = i}
  BY <1>1, OfShardElem
<1>4. \A i, j \in 1 .. k : i # j => \A a \in Elem(ms[i]), b \in Elem(ms[j]) : a.task # b.task
  BY <1>3
<1>5. \A r \in Elem(s) : ShardIndex(r.task, k) \in 1 .. k
  <2> TAKE r \in Elem(s)
  <2>1. r \in Results
    BY DEF Elem
  <2>2. r.task \in TaskIds
    BY <2>1 DEF Results
  <2> QED BY <2>2, IndexInRange
<1>6. UNION {Elem(ms[j]) : j \in 1 .. k} = Elem(s)
  BY <1>3, <1>5
<1>7. Distinct(FlattenSeq(ms)) /\ Elem(FlattenSeq(ms)) = UNION {Elem(ms[j]) : j \in 1 .. k}
  BY <1>1, <1>2, <1>4, FlattenApart
<1>8. FlattenSeq(ms) \in Seq(Results)
  BY <1>1, FlattenType
<1> QED BY <1>6, <1>7, <1>8 DEF ms

\* A batch has one outcome for each of its tasks.
LEMMA BatchDistinct ==
  ASSUME NEW S \in SUBSET TaskIds, NEW results \in Batches(S)
  PROVE  /\ Distinct(results)
         /\ \A r \in Elem(results) : r.task \in S
<1>1. IsFiniteSet(S)
  BY TaskIdsAssumption, FS_Subset
<1>2. PICK m \in Nat : m = Cardinality(S)
  BY <1>1, FS_CardinalityType
<1>3. /\ results \in [1 .. m -> [task : S, ok : BOOLEAN, worker : Workers]]
      /\ \A j, k \in 1 .. m : j < k => results[j].task < results[k].task
  BY <1>2 DEF Batches
<1>4. Len(results) = m /\ \A j \in 1 .. m : results[j].task \in S
  BY <1>3
<1>5. \A x \in S : x \in Nat
  BY TaskIdsAssumption
<1>6. ASSUME NEW j \in 1 .. m, NEW k \in 1 .. m, results[j].task = results[k].task
      PROVE  j = k
  <2>1. PICK x \in Nat : x = results[j].task
    BY <1>4, <1>5
  <2>2. ~(j < k) /\ ~(k < j)
    BY <1>3, <1>6, <2>1
  <2> QED BY <2>2
<1> QED BY <1>4, <1>6 DEF Distinct, Elem

\* The driver sends no task twice.
LEMMA SentOnceStep == AInv /\ Distinct(sent) /\ [Next]_vars => Distinct(sent')
<1> SUFFICES ASSUME AInv, Distinct(sent), [Next]_vars PROVE Distinct(sent')
  OBVIOUS
<1>1. CASE sent' = sent
  BY <1>1
<1>2. CASE StartRun
  <2>1. sent' = << >> /\ Len(<< >>) = 0
    BY <1>2 DEF StartRun
  <2> QED BY <2>1 DEF Distinct
<1>3. CASE RecordBatch
  <2>1. PICK S \in SUBSET Unrecorded : \E results \in Batches(S) : sent' = sent \o results
    BY <1>3 DEF RecordBatch
  <2>2. PICK results \in Batches(S) : sent' = sent \o results
    BY <2>1
  <2>3. S \in SUBSET TaskIds
    BY DEF Unrecorded
  <2>4. results \in Seq(Results) /\ Distinct(results) /\ \A r \in Elem(results) : r.task \in S
    BY <2>3, BatchType, BatchDistinct
  <2>5. PICK s \in Seq(Results) : s = sent
    BY DEF AInv, Shape
  <2>6. \A a \in Elem(s), b \in Elem(results) : a.task # b.task
    <3> TAKE a \in Elem(s), b \in Elem(results)
    <3>1. PICK k \in 1 .. Len(sent) : a = sent[k]
      BY <2>5 DEF Elem
    <3>2. b.task \in Unrecorded
      BY <2>1, <2>4
    <3> QED BY <3>1, <3>2 DEF Unrecorded
  <2>7. Distinct(s)
    BY <2>5
  <2>8. Distinct(s \o results)
    BY <2>4, <2>6, <2>7, ConcatDistinct
  <2> QED BY <2>2, <2>5, <2>8
<1> QED BY <1>1, <1>2, <1>3
    DEF Next, vars, Drain, Finalize, GetSummary, Ingest, Flush, Crash, Finished

\* In the only run, the files were empty when they were opened, and the output
\* file of several shards is theirs put together.
FirstRun ==
  /\ run \in Nat
  /\ run = 0 => /\ phase = "idle"
                /\ \A i \in AllShards : ~alive[i]
                /\ \A p \in 0 .. MaxShards : files[p] = << >>
  /\ \A p \in 0 .. MaxShards : base[p] = 0
  /\ phase \in {"finalized", "done"} /\ n > 1 => files[0] = Concatenated

\* Before the first run there is no file.
LEMMA FirstRunInit == Init => FirstRun
<1> SUFFICES ASSUME Init PROVE FirstRun
  OBVIOUS
<1>1. \A i \in AllShards : ~alive[i]
  BY DEF Init
<1>2. \A p \in 0 .. MaxShards : files[p] = << >> /\ base[p] = 0
  BY DEF Init
<1> QED BY <1>1, <1>2 DEF Init, FirstRun

\* No shard works before the first run, nor once the writes are drained.
LEMMA WorkersBusy ==
  ASSUME AInv, FirstRun, NEW i \in AllShards, mailbox[i] # << >>
  PROVE  run # 0 /\ phase \notin {"drained", "finalized", "done"}
<1>1. alive[i] /\ i \in Shards
  BY DEF AInv, Emptied
<1> QED BY <1>1 DEF AInv, Written, FirstRun

\* As long as there is but one run, the files hold only its rows.
LEMMA FirstRunStep ==
  ASSUME MaxRuns = 1
  PROVE  AInv /\ FirstRun /\ [Next]_vars => FirstRun'
<1> SUFFICES ASSUME AInv, FirstRun, [Next]_vars PROVE FirstRun'
  OBVIOUS
<1> USE DEF FirstRun
<1>1. CASE UNCHANGED vars
  <2>1. Concatenated' = Concatenated
    BY <1>1 DEF vars, Concatenated, Shards
  <2> QED BY <1>1, <2>1 DEF vars, shardVars
<1>2. CASE StartRun
  <2>1. run = 0 /\ run' = 1 /\ phase' = "recording"
    BY <1>2 DEF StartRun
  <2>2. \A p \in 0 .. MaxShards : base'[p] = 0
    <3> TAKE p \in 0 .. MaxShards
    <3>1. files[p] = << >> /\ base'[p] = Len(files[p]) /\ Len(<< >>) = 0
      BY <1>2, <2>1 DEF StartRun
    <3> QED BY <3>1
  <2> QED BY <2>1, <2>2
<1>3. CASE RecordBatch
  BY <1>3 DEF RecordBatch
<1>4. CASE Drain
  <2>1. UNCHANGED <<run, base>> /\ phase = "recording" /\ phase' \in {"drained", "raised"}
    BY <1>4 DEF Drain
  <2> QED BY <2>1
<1>5. CASE Finalize
  <2>1. /\ UNCHANGED <<run, n, base>> /\ run # 0
        /\ phase' = "finalized" /\ n > 1 => files' = [files EXCEPT ![0] = Concatenated]
    BY <1>5 DEF Finalize
  <2>2. ASSUME phase' \in {"finalized", "done"}, n > 1 PROVE files'[0] = Concatenated'
    <3>1. phase' = "finalized"
      BY <1>5, <2>2 DEF Finalize
    <3>2. /\ files \in [0 .. MaxShards -> Seq(Results)] /\ 0 \in 0 .. MaxShards
          /\ files' = [files EXCEPT ![0] = Concatenated]
      BY <2>1, <2>2, <3>1, MostShards DEF AInv, Shape
    <3>3. [i \in Shards |-> files[i]] = [i \in Shards |-> files'[i]]
      <4>1. \A i \in Shards : i \in 0 .. MaxShards /\ i # 0
        BY <2>2, OwnPaths DEF AInv, Shape
      <4> QED BY <3>2, <4>1
    <3>4. Concatenated' = Concatenated
      <4>1. Shards' = Shards
        BY <2>1 DEF Shards
      <4> QED BY <3>3, <4>1 DEF Concatenated
    <3> QED BY <3>2, <3>4
  <2> QED BY <2>1, <2>2
<1>6. CASE GetSummary
  <2>1. UNCHANGED <<run, n, base, files>> /\ phase = "finalized"
    BY <1>6 DEF GetSummary
  <2>2. Concatenated' = Concatenated
    BY <2>1 DEF Concatenated, Shards
  <2> QED BY <2>1, <2>2
<1>7. ASSUME NEW i \in AllShards, Ingest(i) PROVE FirstRun'
  <2>1. UNCHANGED <<phase, run, n, base, files, alive>> /\ mailbox[i] # << >>
    BY <1>7 DEF Ingest
  <2>2. run # 0 /\ phase \notin {"finalized", "done"}
    BY <2>1, WorkersBusy
  <2> QED BY <2>1, <2>2
<1>8. ASSUME NEW i \in AllShards, Flush(i) PROVE FirstRun'
  <2>1. UNCHANGED <<phase, run, n, base, alive>> /\ mailbox[i] # << >>
    BY <1>8 DEF Flush
  <2>2. run # 0 /\ phase \notin {"finalized", "done"}
    BY <2>1, WorkersBusy
  <2> QED BY <2>1, <2>2
<1>9. ASSUME NEW i \in AllShards, Crash(i) PROVE FirstRun'
  <2>1. UNCHANGED <<phase, run, n, base>> /\ alive[i]
    BY <1>9 DEF Crash
  <2>2. run # 0
    BY <2>1
  <2>3. ASSUME phase \in {"finalized", "done"}, n > 1 PROVE files'[0] = Concatenated'
    <3>1. i \in Shards
      BY <2>1 DEF AInv, Emptied
    <3>2. mailbox[i] = << >> /\ buffer[i] = << >>
      BY <2>3, <3>1 DEF AInv, Written, Emptied
    <3>3. PICK k \in 0 .. 0 : files' = [files EXCEPT ![PathOf(i)] = @ \o SubSeq(<< >>, 1, k)]
      <4>1. Len(<< >>) = 0
        OBVIOUS
      <4> QED BY <1>9, <3>2, <4>1 DEF Crash
    <3>4. SubSeq(<< >>, 1, k) = << >>
      <4>1. k \in Int /\ k < 1 /\ 1 \in Int
        BY <3>3
      <4> QED BY <4>1, SubSeqEmpty
    <3>5. files' = files
      <4>1. files \in [0 .. MaxShards -> Seq(Results)] /\ PathOf(i) \in 0 .. MaxShards
        BY <3>1, OwnPaths DEF AInv, Shape
      <4>2. files[PathOf(i)] \o << >> = files[PathOf(i)]
        BY <4>1, NoResults
      <4> QED BY <3>3, <3>4, <4>1, <4>2
    <3>6. Concatenated' = Concatenated
      BY <2>1, <3>5 DEF Concatenated, Shards
    <3> QED BY <2>3, <3>5, <3>6
  <2> QED BY <2>1, <2>2, <2>3
<1>10. CASE Finished
  BY <1>1, <1>10 DEF Finished
<1> QED BY <1>1, <1>2, <1>3, <1>4, <1>5, <1>6, <1>7, <1>8, <1>9, <1>10 DEF Next

\* A file that was empty when it was opened has new rows only.
LEMMA AllRowsNew ==
  ASSUME NEW f \in Seq(Results)
  PROVE  SubSeq(f, 0 + 1, Len(f)) = f
BY SubSeqFull

\* The output file holds the results sent, each task once.
LEMMA OutputRows ==
  ASSUME AInv, Distinct(sent), FirstRun, phase \in {"finalized", "done"}
  PROVE  /\ files[0] \in Seq(Results)
         /\ Distinct(files[0])
         /\ Elem(files[0]) = Elem(sent)
<1>1. PICK s \in Seq(Results) : s = sent
  BY DEF AInv, Shape
<1>2. PICK k \in Nat \ {0} : k = n
  BY MostShards DEF AInv, Shape, AllShards
<1>3. /\ Distinct(FlattenSeq([i \in 1 .. k |-> OfShard(s, k, i)]))
      /\ Elem(FlattenSeq([i \in 1 .. k |-> OfShard(s, k, i)])) = Elem(s)
      /\ FlattenSeq([i \in 1 .. k |-> OfShard(s, k, i)]) \in Seq(Results)
  BY <1>1, ShardsTogether
<1>4. ASSUME NEW i \in Shards PROVE files[PathOf(i)] = OfShard(s, k, i)
  <2>1. i \in AllShards /\ PathOf(i) \in 0 .. MaxShards
    BY OwnPaths DEF AInv, Shape
  <2>2. ~lost /\ buffer[i] = << >> /\ Pending(i) = << >>
    BY <2>1, FlattenNone DEF AInv, Written, Emptied, Pending
  <2>3. PICK f \in Seq(Results) : f = files[PathOf(i)]
    BY <2>1 DEF AInv, Shape
  <2>4. NewRows(PathOf(i)) = f
    BY <2>1, <2>3, AllRowsNew DEF FirstRun, NewRows
  <2>5. << >> \o << >> = << >> /\ f \o << >> = f
    BY NoResults
  <2>6. NewRows(PathOf(i)) \o (buffer[i] \o Pending(i)) = Routed(i)
    BY <2>2 DEF AInv, Accounted
  <2> QED BY <1>1, <1>2, <2>2, <2>3, <2>4, <2>5, <2>6 DEF Routed
<1>5. CASE n = 1
  <2>1. files[0] = OfShard(s, 1, 1)
    BY <1>2, <1>4, <1>5 DEF Shards, PathOf
  <2>2. \A r \in Elem(s) : ShardIndex(r.task, 1) = 1
    <3> TAKE r \in Elem(s)
    <3>1. r \in Results
      BY DEF Elem
    <3>2. ShardIndex(r.task, 1) \in 1 .. 1
      BY <3>1, IndexInRange DEF Results
    <3> QED BY <3>2
  <2>3. Elem(files[0]) = Elem(s)
    <3>1. Elem(OfShard(s, 1, 1)) = {r \in Elem(s) : ShardIndex(r.task, 1) = 1}
      BY OfShardElem
    <3>2. {r \in Elem(s) : ShardIndex(r.task, 1) = 1} = Elem(s)
      BY <2>2
    <3> QED BY <2>1, <3>1, <3>2
  <2>4. Distinct(s)
    BY <1>1
  <2> QED BY <1>1, <2>1, <2>3, <2>4, OfShardDistinct, OfShardType
<1>6. CASE n # 1
  <2>1. n > 1
    BY <1>2, <1>6
  <2>2. files[0] = Concatenated
    BY <2>1 DEF FirstRun
  <2>3. [i \in Shards |-> files[i]] = [i \in 1 .. k |-> OfShard(s, k, i)]
    BY <1>2, <1>4, <2>1, OwnPaths DEF Shards, PathOf
  <2> QED BY <1>1, <1>3, <2>2, <2>3 DEF Concatenated
<1> QED BY <1>5, <1>6

\* A run that has the output path to itself leaves one row for each task there,
\* and no others, however many shards wrote and whichever died once drained
\* (finalize).
THEOREM OutputTheorem ==
  ASSUME MaxRuns = 1
  PROVE  Spec => []OutputExactlyOnce
<1>1. Init => Distinct(sent)
  <2>1. Len(<< >>) = 0
    OBVIOUS
  <2> QED BY <2>1 DEF Init, Distinct
<1>2. AInv /\ Distinct(sent) /\ FirstRun => OutputExactlyOnce
  <2> SUFFICES ASSUME AInv, Distinct(sent), FirstRun, phase \in {"finalized", "done"}
               PROVE  /\ Len(files[0]) = Cardinality(TaskIds)
                      /\ Elem(files[0]) = Elem(sent)
    BY DEF OutputExactlyOnce, Elem
  <2>1. PICK f \in Seq(Results) : f = files[0] /\ Distinct(f) /\ Elem(f) = Elem(sent)
    BY OutputRows
  <2>2. PICK l \in Nat : l = Len(f)
    OBVIOUS
  <2> DEFINE g == [k \in 1 .. l |-> f[k].task]
  <2>3. g \in [1 .. l -> TaskIds]
    <3>1. \A k \in 1 .. l : f[k] \in Results
      BY <2>2
    <3>2. \A k \in 1 .. l : f[k].task \in TaskIds
      BY <3>1 DEF Results
    <3> QED BY <3>2
  <2>4. \A t \in TaskIds : \E k \in 1 .. l : g[k] = t
    <3> TAKE t \in TaskIds
    <3>1. Unrecorded = {}
      BY DEF AInv, Written
    <3>2. PICK j \in 1 .. Len(sent) : sent[j].task = t
      BY <3>1 DEF Unrecorded
    <3>3. sent[j] \in Elem(f)
      BY <2>1 DEF Elem
    <3>4. PICK k \in 1 .. l : f[k] = sent[j]
      BY <2>2, <3>3 DEF Elem
    <3> QED BY <3>2, <3>4
  <2>5. \A j, k \in 1 .. l : g[j] = g[k] => j = k
    BY <2>1, <2>2 DEF Distinct
  <2>6. ExistsBijection(1 .. l, TaskIds)
    <3>1. g \in Bijection(1 .. l, TaskIds)
      <4> HIDE DEF g
      <4> QED BY <2>3, <2>4, <2>5
          DEF Bijection, Injection, Surjection, IsInjective
    <3> QED BY <3>1 DEF ExistsBijection
  <2>7. Cardinality(TaskIds) = l
    BY <2>6, FS_CountingElements
  <2> QED BY <2>1, <2>2, <2>7
<1>3. AInv /\ Distinct(sent) /\ [Next]_vars => Distinct(sent)'
  BY SentOnceStep DEF Distinct
<1> QED BY <1>1, <1>2, <1>3, AggregatorInvariant, FirstRunInit, FirstRunStep, PTL DEF Spec

-----------------------------------------------------------------------------
(* The reservoirs. *)

Extreme == [set : BOOLEAN, v : Nat]
Latencies == Seq(Nat)
Breakdowns == Seq({Awarded[t] : t \in TaskIds})
Counts == [Workers -> Nat]

\* What a shard keeps (get_shard_state).
ShardState ==
  [count : Nat, succeeded : Nat, failed : Nat, score_sum : Nat,
   score_min : Extreme, score_max : Extreme, latency_sum : Nat,
   latency_samples : Latencies, latency_seen : Nat,
   condition_scores : Breakdowns, per_worker : Counts]

\* The counters of a new shard.
LEMMA EmptyStateType == EmptyState \in ShardState
<1>1. Unset \in Extreme
  BY DEF Unset, Extreme
<1>2. << >> \in Latencies /\ << >> \in Breakdowns
  BY DEF Latencies, Breakdowns
<1>3. [w \in Workers |-> 0] \in Counts
  BY DEF Counts
<1> HIDE DEF Unset, Extreme
<1> QED BY <1>1, <1>2, <1>3 DEF EmptyState, ShardState

\* A reservoir holds latencies.
LEMMA ReservoirType ==
  ASSUME NEW xs \in Seq(Nat), NEW v \in Nat, NEW j \in Nat
  PROVE  ReservoirAppend(xs, v, j) \in Seq(Nat)
<1>1. Append(xs, v) \in Seq(Nat)
  BY AppendProperties
<1>2. PICK m \in Nat : m = Len(xs)
  OBVIOUS
<1>3. ASSUME ~(m < ReservoirCap), j < ReservoirCap PROVE [xs EXCEPT ![j + 1] = v] \in Seq(Nat)
  <2>1. j + 1 \in 1 .. Len(xs)
    BY <1>2, <1>3, CapAssumption
  <2> QED BY <2>1, ExceptSeq
<1> QED BY <1>1, <1>2, <1>3 DEF ReservoirAppend

\* The least and the greatest score known so far.
LEMMA ExtremeType ==
  ASSUME NEW a \in Extreme, NEW v \in Nat
  PROVE  Lesser(a, Known(v)) \in Extreme /\ Greater(a, Known(v)) \in Extreme
BY DEF Extreme, Lesser, Greater, Known

\* t is s with the counters of r.
IngestedTo(t, s, r, j) ==
  /\ t.count = s.count + 1
  /\ t.per_worker = [s.per_worker EXCEPT ![r.worker] = @ + 1]
  /\ r.ok => /\ t.succeeded = s.succeeded + 1 /\ t.failed = s.failed
             /\ t.score_sum = s.score_sum + Score[r.task]
             /\ t.score_min = Lesser(s.score_min, Known(Score[r.task]))
             /\ t.score_max = Greater(s.score_max, Known(Score[r.task]))
             /\ t.latency_sum = s.latency_sum + Latency[r.task]
             /\ t.latency_seen = s.latency_seen + 1
             /\ t.latency_samples =
                  ReservoirAppend(s.latency_samples, Latency[r.task], j)
             /\ t.condition_scores =
                  IF DOMAIN Awarded[r.task] = {} THEN s.condition_scores
                  ELSE Append(s.condition_scores, Awarded[r.task])
  /\ ~r.ok => /\ t.failed = s.failed + 1
              /\ t.succeeded = s.succeeded /\ t.latency_seen = s.latency_seen
              /\ t.latency_samples = s.latency_samples
              /\ t.score_sum = s.score_sum /\ t.latency_sum = s.latency_sum
              /\ t.score_min = s.score_min /\ t.score_max = s.score_max
              /\ t.condition_scores = s.condition_scores

\* What ingestion does to each counter.
LEMMA IngestedFields ==
  ASSUME NEW s \in ShardState, NEW r \in Results, NEW j \in Nat
  PROVE  Ingested(s, r, j) \in ShardState /\ IngestedTo(Ingested(s, r, j), s, r, j)
<1> SUFFICES ASSUME NEW t, t = Ingested(s, r, j)
             PROVE  t \in ShardState /\ IngestedTo(t, s, r, j)
  OBVIOUS
<1> USE DEF IngestedTo
<1> DEFINE c == [s EXCEPT !.count = @ + 1, !.per_worker[r.worker] = @ + 1]
<1>1. /\ r.task \in TaskIds /\ r.ok \in BOOLEAN /\ r.worker \in Workers
      /\ Latency[r.task] \in Nat /\ Score[r.task] \in Nat
  BY DataAssumption DEF Results
<1>2. PICK pw \in Counts : pw = [s.per_worker EXCEPT ![r.worker] = @ + 1]
  <2>1. PICK q \in Counts : q = s.per_worker
    BY DEF ShardState
  <2>2. q[r.worker] \in Nat
    BY <1>1 DEF Counts
  <2>3. PICK x \in Nat : x = q[r.worker] + 1
    BY <2>2
  <2>4. [q EXCEPT ![r.worker] = x] \in Counts
    BY <1>1 DEF Counts
  <2> QED BY <2>1, <2>3, <2>4
<1>3. PICK ct \in Nat : ct = s.count + 1
  BY DEF ShardState
<1>4. c = [s EXCEPT !.count = ct, !.per_worker = pw]
  BY <1>2, <1>3
<1> HIDE DEF c
<1>5. c \in ShardState
  BY <1>4 DEF ShardState
<1>6. /\ c.count = ct /\ c.per_worker = pw /\ c.failed = s.failed
      /\ c.succeeded = s.succeeded /\ c.latency_seen = s.latency_seen
      /\ c.latency_samples = s.latency_samples
      /\ c.score_sum = s.score_sum /\ c.latency_sum = s.latency_sum
      /\ c.score_min = s.score_min /\ c.score_max = s.score_max
      /\ c.condition_scores = s.condition_scores
  BY <1>4 DEF ShardState
<1>7. CASE ~r.ok
  <2>1. Ingested(s, r, j) = [c EXCEPT !.failed = @ + 1]
    BY <1>7 DEF Ingested, c
  <2>2. PICK fl \in Nat : fl = c.failed + 1
    BY <1>5 DEF ShardState
  <2>3. PICK d : d = [c EXCEPT !.failed = fl]
    OBVIOUS
  <2>4. d \in ShardState
    BY <1>5, <2>3 DEF ShardState
  <2>5. /\ d.count = ct /\ d.per_worker = pw /\ d.failed = fl
        /\ d.succeeded = c.succeeded /\ d.latency_seen = c.latency_seen
        /\ d.latency_samples = c.latency_samples
        /\ d.score_sum = c.score_sum /\ d.latency_sum = c.latency_sum
        /\ d.score_min = c.score_min /\ d.score_max = c.score_max
        /\ d.condition_scores = c.condition_scores
    BY <1>5, <1>6, <2>3 DEF ShardState
  <2>6. t = d
    BY <2>1, <2>2, <2>3
  <2> QED BY <1>2, <1>3, <1>6, <1>7, <2>2, <2>4, <2>5, <2>6
<1>8. CASE r.ok
  <2>1. PICK lo \in Extreme, hi \in Extreme, xs \in Latencies, cs \in Breakdowns :
          /\ lo = Lesser(c.score_min, Known(Score[r.task]))
          /\ hi = Greater(c.score_max, Known(Score[r.task]))
          /\ xs = ReservoirAppend(c.latency_samples, Latency[r.task], j)
          /\ cs = IF DOMAIN Awarded[r.task] = {} THEN c.condition_scores
                  ELSE Append(c.condition_scores, Awarded[r.task])
    <3>1. /\ c.score_min \in Extreme /\ c.score_max \in Extreme /\ c.latency_samples \in Latencies
          /\ c.condition_scores \in Breakdowns
      BY <1>5 DEF ShardState
    <3>2. Append(c.condition_scores, Awarded[r.task]) \in Breakdowns
      BY <1>1, <3>1, AppendProperties DEF Breakdowns
    <3>3. ReservoirAppend(c.latency_samples, Latency[r.task], j) \in Latencies
      BY <1>1, <3>1, ReservoirType DEF Latencies
    <3> QED BY <1>1, <3>1, <3>2, <3>3, ExtremeType
  <2>2. /\ \E sc \in Nat : sc = c.score_sum + Score[r.task]
        /\ \E lt \in Nat : lt = c.latency_sum + Latency[r.task]
        /\ \E su \in Nat : su = c.succeeded + 1
        /\ \E se \in Nat : se = c.latency_seen + 1
    <3>1. /\ c.score_sum \in Nat /\ c.latency_sum \in Nat
          /\ c.succeeded \in Nat /\ c.latency_seen \in Nat
      BY <1>5 DEF ShardState
    <3>2. \A x, y \in Nat : \E z \in Nat : z = x + y
      OBVIOUS
    <3> QED BY <1>1, <3>1, <3>2
  <2>3. PICK sc \in Nat : sc = c.score_sum + Score[r.task]
    BY <2>2
  <2>4. PICK lt \in Nat : lt = c.latency_sum + Latency[r.task]
    BY <2>2
  <2>5. PICK su \in Nat : su = c.succeeded + 1
    BY <2>2
  <2>6. PICK se \in Nat : se = c.latency_seen + 1
    BY <2>2
  <2>7. PICK d : d =
          [c EXCEPT !.succeeded = su, !.score_sum = sc,
                    !.score_min = lo, !.score_max = hi,
                    !.latency_sum = lt, !.latency_samples = xs,
                    !.latency_seen = se, !.condition_scores = cs]
    OBVIOUS
  <2>8. Ingested(s, r, j) = d
    BY <1>8, <2>1, <2>3, <2>4, <2>5, <2>6, <2>7 DEF Ingested, c
  <2>9. d \in ShardState
    BY <1>5, <2>7 DEF ShardState
  <2>10. /\ d.count = ct /\ d.per_worker = pw /\ d.failed = c.failed
         /\ d.succeeded = su /\ d.latency_seen = se /\ d.latency_samples = xs
         /\ d.score_sum = sc /\ d.latency_sum = lt
         /\ d.score_min = lo /\ d.score_max = hi /\ d.condition_scores = cs
    BY <1>5, <1>6, <2>7 DEF ShardState
  <2>11. t = d
    BY <2>8
  <2> QED BY <1>2, <1>3, <1>6, <1>8, <2>1, <2>3, <2>4, <2>5, <2>6, <2>9, <2>10, <2>11
<1> QED BY <1>1, <1>7, <1>8

\* g tells the results of R that the samples xs come from, none of the tasks of P.
SampledFrom(g, xs, R, P) ==
  /\ g \in [1 .. Len(xs) -> R]
  /\ \A k \in 1 .. Len(xs) : /\ g[k].ok /\ Latency[g[k].task] = xs[k]
                             /\ \A q \in P : q.task # g[k].task
  /\ \A j, k \in 1 .. Len(xs) : g[j].task = g[k].task => j = k

\* A sample of a result that was yet to come is added, or takes the place of
\* another.
LEMMA SampleTaken ==
  ASSUME NEW xs \in Seq(Nat), NEW R, NEW P, NEW Q, NEW g, SampledFrom(g, xs, R, P),
         NEW e \in R, e \in P, e.ok, Latency[e.task] \in Nat,
         Q \subseteq P, \A q \in Q : q.task # e.task,
         NEW j \in Nat, Len(xs) <= ReservoirCap
  PROVE  \E h : SampledFrom(h, ReservoirAppend(xs, Latency[e.task], j), R, Q)
<1> DEFINE v == Latency[e.task]
<1>1. PICK m \in Nat : m = Len(xs)
  OBVIOUS
<1>2. /\ g \in [1 .. m -> R]
      /\ \A k \in 1 .. m : /\ g[k].ok /\ Latency[g[k].task] = xs[k] /\ g[k].task # e.task
                           /\ \A q \in Q : q.task # g[k].task
      /\ \A a, k \in 1 .. m : g[a].task = g[k].task => a = k
  BY <1>1 DEF SampledFrom
<1>3. CASE m < ReservoirCap
  <2> DEFINE h == [k \in 1 .. m + 1 |-> IF k = m + 1 THEN e ELSE g[k]]
  <2>1. /\ ReservoirAppend(xs, v, j) = Append(xs, v) /\ Len(Append(xs, v)) = m + 1
        /\ Append(xs, v)[m + 1] = v /\ \A k \in 1 .. m : Append(xs, v)[k] = xs[k]
    BY <1>1, <1>3, AppendProperties DEF ReservoirAppend
  <2>2. \A k \in 1 .. m + 1 : k = m + 1 \/ (k # m + 1 /\ k \in 1 .. m)
    OBVIOUS
  <2>3. /\ h \in [1 .. m + 1 -> R]
        /\ \A k \in 1 .. m + 1 : h[k] = IF k = m + 1 THEN e ELSE g[k]
    BY <1>2, <2>2
  <2> HIDE DEF h
  <2>4. \A k \in 1 .. m + 1 : /\ h[k].ok /\ Latency[h[k].task] = Append(xs, v)[k]
                              /\ \A q \in Q : q.task # h[k].task
    <3> TAKE k \in 1 .. m + 1
    <3>1. CASE k = m + 1
      BY <2>1, <2>3, <3>1
    <3>2. CASE k # m + 1
      BY <1>2, <2>1, <2>2, <2>3, <3>2
    <3> QED BY <3>1, <3>2
  <2>5. \A a, k \in 1 .. m + 1 : h[a].task = h[k].task => a = k
    BY <1>2, <2>2, <2>3
  <2>6. SampledFrom(h, ReservoirAppend(xs, v, j), R, Q)
    BY <2>1, <2>3, <2>4, <2>5 DEF SampledFrom
  <2> QED BY <2>6
<1>4. CASE ~(m < ReservoirCap) /\ j < ReservoirCap
  <2> DEFINE h == [k \in 1 .. m |-> IF k = j + 1 THEN e ELSE g[k]]
             ys == [xs EXCEPT ![j + 1] = v]
  <2>1. j + 1 \in 1 .. m /\ j + 1 \in 1 .. Len(xs)
    BY <1>1, <1>4, CapAssumption
  <2>2. /\ ReservoirAppend(xs, v, j) = ys /\ Len(ys) = m
        /\ \A k \in 1 .. m : ys[k] = IF k = j + 1 THEN v ELSE xs[k]
    <3>1. Len(ys) = Len(xs) /\ \A k \in 1 .. Len(xs) : ys[k] = IF k = j + 1 THEN v ELSE xs[k]
      BY <2>1, ExceptSeq
    <3> QED BY <1>1, <1>4, <3>1 DEF ReservoirAppend
  <2>3. /\ h \in [1 .. m -> R]
        /\ \A k \in 1 .. m : h[k] = IF k = j + 1 THEN e ELSE g[k]
    BY <1>2
  <2> HIDE DEF h, ys
  <2>4. \A k \in 1 .. m : /\ h[k].ok /\ Latency[h[k].task] = ys[k]
                          /\ \A q \in Q : q.task # h[k].task
    <3> TAKE k \in 1 .. m
    <3>1. CASE k = j + 1
      BY <2>2, <2>3, <3>1
    <3>2. CASE k # j + 1
      BY <1>2, <2>2, <2>3, <3>2
    <3> QED BY <3>1, <3>2
  <2>5. \A a, k \in 1 .. m : h[a].task = h[k].task => a = k
    BY <1>2, <2>3
  <2>6. SampledFrom(h, ReservoirAppend(xs, v, j), R, Q)
    BY <2>2, <2>3, <2>4, <2>5 DEF SampledFrom
  <2> QED BY <2>6
<1>5. CASE ~(m < ReservoirCap) /\ ~(j < ReservoirCap)
  <2>1. ReservoirAppend(xs, v, j) = xs
    BY <1>1, <1>5 DEF ReservoirAppend
  <2>2. SampledFrom(g, xs, R, Q)
    BY <1>1, <1>2 DEF SampledFrom
  <2> QED BY <2>1, <2>2
<1> QED BY <1>3, <1>4, <1>5

\* A reservoir grows until it is full and stays so.
LEMMA ReservoirLength ==
  ASSUME NEW xs \in Seq(Nat), NEW v \in Nat, NEW j \in Nat, NEW seen \in Nat,
         Len(xs) = IF seen < ReservoirCap THEN seen ELSE ReservoirCap
  PROVE  Len(ReservoirAppend(xs, v, j)) =
           IF seen + 1 < ReservoirCap THEN seen + 1 ELSE ReservoirCap
<1>1. PICK m \in Nat : m = Len(xs)
  OBVIOUS
<1>2. Len(Append(xs, v)) = m + 1
  BY <1>1, AppendProperties
<1>3. j + 1 \in 1 .. m => Len([xs EXCEPT ![j + 1] = v]) = m
  BY <1>1, ExceptSeq
<1>4. ~(m < ReservoirCap) => m = ReservoirCap /\ (j < ReservoirCap => j + 1 \in 1 .. m)
  BY <1>1, CapAssumption
<1> QED BY <1>1, <1>2, <1>3, <1>4, CapAssumption DEF ReservoirAppend

\* Parts of a sequence without repetition share no task.
LEMMA DistinctParts ==
  ASSUME NEW s \in Seq(Results), NEW t \in Seq(Results), Distinct(s \o t)
  PROVE  /\ Distinct(t)
         /\ \A a \in Elem(s), b \in Elem(t) : a.task # b.task
<1>1. PICK m \in Nat, l \in Nat : m = Len(s) /\ l = Len(t)
  OBVIOUS
<1>2. /\ Len(s \o t) = m + l
      /\ \A j \in 1 .. m + l : (s \o t)[j] = IF j <= m THEN s[j] ELSE t[j - m]
  BY <1>1, ConcatProperties
<1>3. /\ \A j \in 1 .. m : j \in 1 .. m + l /\ j <= m
      /\ \A j \in 1 .. l : m + j \in 1 .. m + l /\ ~(m + j <= m) /\ (m + j) - m = j
      /\ \A j \in 1 .. m, k \in 1 .. l : j # m + k
      /\ \A j, k \in 1 .. l : m + j = m + k => j = k
  OBVIOUS
<1>4. /\ \A j \in 1 .. m : (s \o t)[j] = s[j]
      /\ \A j \in 1 .. l : (s \o t)[m + j] = t[j]
  BY <1>2, <1>3
<1>5. \A j, k \in 1 .. m + l : (s \o t)[j].task = (s \o t)[k].task => j = k
  BY <1>2 DEF Distinct
<1>6. ASSUME NEW j \in 1 .. l, NEW k \in 1 .. l, t[j].task = t[k].task PROVE j = k
  <2>1. m + j = m + k
    <3>1. m + j \in 1 .. m + l /\ m + k \in 1 .. m + l
      OBVIOUS
    <3>2. (s \o t)[m + j].task = (s \o t)[m + k].task
      BY <1>4, <1>6
    <3> QED BY <1>5, <3>1, <3>2
  <2> QED BY <1>3, <2>1
<1>7. ASSUME NEW a \in Elem(s), NEW b \in Elem(t) PROVE a.task # b.task
  <2>1. PICK j \in 1 .. m, k \in 1 .. l : a = s[j] /\ b = t[k]
    BY <1>1 DEF Elem
  <2> QED BY <1>3, <1>4, <1>5, <2>1
<1> QED BY <1>1, <1>6, <1>7 DEF Distinct

\* The results the i-th shard is to have.
SentTo(i) == {r \in Elem(sent) : ShardFor(r.task) = i}

\* Every sample of the i-th shard comes from another result that was sent to it
\* and that it is done with.
Sampled(i) ==
  \E g : SampledFrom(g, state[i].latency_samples, SentTo(i), Elem(Pending(i)))

\* It keeps as many samples as it may.
Filled(i) ==
  /\ state[i].latency_seen = state[i].succeeded
  /\ Len(state[i].latency_samples) =
       IF state[i].latency_seen < ReservoirCap THEN state[i].latency_seen ELSE ReservoirCap

RInv ==
  /\ state \in [AllShards -> ShardState]
  /\ \A i \in AllShards : Sampled(i) /\ Filled(i)

\* A sample of some results is a sample of more results.
LEMMA SampledStill ==
  ASSUME NEW g, NEW xs \in Seq(Nat), NEW R, NEW P, SampledFrom(g, xs, R, P),
         NEW T, R \subseteq T,
         NEW Q, \A r \in R, q \in Q : q \in P \/ q.task # r.task
  PROVE  SampledFrom(g, xs, T, Q)
<1>1. PICK m \in Nat : m = Len(xs)
  OBVIOUS
<1>2. /\ g \in [1 .. m -> R]
      /\ \A k \in 1 .. m : g[k].ok /\ Latency[g[k].task] = xs[k] /\ \A q \in P : q.task # g[k].task
      /\ \A j, k \in 1 .. m : g[j].task = g[k].task => j = k
  BY <1>1 DEF SampledFrom
<1>3. \A k \in 1 .. m : \A q \in Q : q.task # g[k].task
  BY <1>2
<1> QED BY <1>1, <1>2, <1>3 DEF SampledFrom

\* A shard that learns nothing keeps its samples.
LEMMA SampledKept ==
  ASSUME RInv, NEW i \in AllShards, state'[i] = state[i],
         SentTo(i) \subseteq SentTo(i)',
         \A r \in SentTo(i), q \in Elem(Pending(i)') : q \in Elem(Pending(i)) \/ q.task # r.task
  PROVE  Sampled(i)' /\ Filled(i)'
<1>1. PICK xs \in Seq(Nat) : xs = state[i].latency_samples
  BY DEF RInv, ShardState, Latencies
<1>2. PICK g : SampledFrom(g, xs, SentTo(i), Elem(Pending(i)))
  BY <1>1 DEF RInv, Sampled
<1>3. PICK R, P, T, Q : R = SentTo(i) /\ P = Elem(Pending(i)) /\ T = SentTo(i)' /\ Q = Elem(Pending(i)')
  OBVIOUS
<1>4. SampledFrom(g, xs, T, Q)
  BY <1>2, <1>3, SampledStill
<1>5. SampledFrom(g, xs, SentTo(i)', Elem(Pending(i)'))
  BY <1>3, <1>4
<1>6. Sampled(i)'
  BY <1>1, <1>5 DEF Sampled, Elem
<1> QED BY <1>6 DEF RInv, Filled

\* The empty reservoir samples nothing.
LEMMA NothingSampled ==
  ASSUME NEW R, NEW P
  PROVE  /\ SampledFrom(<< >>, EmptyState.latency_samples, R, P)
         /\ EmptyState.latency_seen = EmptyState.succeeded
         /\ Len(EmptyState.latency_samples) =
              IF EmptyState.latency_seen < ReservoirCap THEN EmptyState.latency_seen
              ELSE ReservoirCap
<1>1. /\ EmptyState.latency_samples = << >> /\ EmptyState.latency_seen = 0
      /\ EmptyState.succeeded = 0
  BY DEF EmptyState
<1>2. Len(<< >>) = 0 /\ 1 .. 0 = {} /\ << >> \in [{} -> R]
  OBVIOUS
<1>3. SampledFrom(<< >>, << >>, R, P)
  BY <1>2 DEF SampledFrom
<1> QED BY <1>1, <1>2, <1>3, CapAssumption

\* Every reservoir is empty at first.
LEMMA ReservoirInit == Init => RInv
<1> SUFFICES ASSUME Init PROVE RInv
  OBVIOUS
<1>1. state = [i \in AllShards |-> EmptyState]
  BY DEF Init
<1>2. ASSUME NEW i \in AllShards PROVE Sampled(i) /\ Filled(i)
  BY <1>1, NothingSampled DEF Sampled, Filled
<1> QED BY <1>1, <1>2, EmptyStateType DEF RInv

\* What a live shard has yet to ingest was sent to it, each task once.
LEMMA PendingApart ==
  ASSUME AInv, Distinct(sent), NEW i \in AllShards, alive[i]
  PROVE  Distinct(Pending(i)) /\ Elem(Pending(i)) \subseteq SentTo(i)
<1>1. i \in Shards
  BY DEF AInv, Emptied
<1>2. PICK r \in Seq(Results), b \in Seq(Results), q \in Seq(Results), s \in Seq(Results) :
        r = NewRows(PathOf(i)) /\ b = buffer[i] /\ q = Pending(i) /\ s = sent
  BY <1>1, InHand DEF AInv, Shape
<1>3. PICK v \in Seq(Results) : v = b \o q
  BY ConcatProperties
<1>4. r \o v = OfShard(s, n, i)
  BY <1>1, <1>2, <1>3 DEF AInv, Accounted, Routed
<1>5. Distinct(OfShard(s, n, i))
  BY <1>2, OfShardDistinct
<1>6. Distinct(v)
  BY <1>4, <1>5, DistinctParts
<1>7. Distinct(q)
  BY <1>3, <1>6, DistinctParts
<1>8. Elem(OfShard(s, n, i)) = {x \in Elem(s) : ShardIndex(x.task, n) = i}
  BY OfShardElem
<1>9. Elem(r \o v) = Elem(r) \cup Elem(v)
  BY ConcatElem
<1>10. Elem(v) = Elem(b) \cup Elem(q)
  BY <1>3, ConcatElem
<1>11. Elem(q) \subseteq Elem(OfShard(s, n, i))
  BY <1>4, <1>9, <1>10
<1> QED BY <1>2, <1>7, <1>8, <1>11 DEF SentTo, ShardFor

\* A batch that is sent is not sampled yet, and was not before.
LEMMA ReservoirRecord == AInv /\ Distinct(sent) /\ RInv /\ RecordBatch => RInv'
<1> SUFFICES ASSUME AInv, Distinct(sent), RInv, RecordBatch PROVE RInv'
  OBVIOUS
<1>1. PICK S \in SUBSET Unrecorded : \E results \in Batches(S) :
        /\ sent' = sent \o results
        /\ mailbox' = [i \in AllShards |->
             IF i \in Shards /\ alive[i] /\ OfShard(results, n, i) # << >>
             THEN Append(mailbox[i], OfShard(results, n, i)) ELSE mailbox[i]]
  BY DEF RecordBatch
<1>2. PICK results \in Batches(S) :
        /\ sent' = sent \o results
        /\ mailbox' = [i \in AllShards |->
             IF i \in Shards /\ alive[i] /\ OfShard(results, n, i) # << >>
             THEN Append(mailbox[i], OfShard(results, n, i)) ELSE mailbox[i]]
  BY <1>1
<1>3. results \in Seq(Results) /\ \A r \in Elem(results) : r.task \in Unrecorded
  BY BatchType, BatchDistinct DEF Unrecorded
<1>4. UNCHANGED <<n, state>>
  BY DEF RecordBatch
<1>5. PICK s \in Seq(Results) : s = sent
  BY DEF AInv, Shape
<1>6. Elem(sent') = Elem(sent) \cup Elem(results)
  BY <1>2, <1>3, <1>5, ConcatElem
<1>7. \A r \in Elem(sent), q \in Elem(results) : q.task # r.task
  BY <1>3 DEF Elem, Unrecorded
<1>8. ASSUME NEW i \in AllShards PROVE Sampled(i)' /\ Filled(i)'
  <2>1. Elem(Pending(i)') \subseteq Elem(Pending(i)) \cup Elem(results)
    <3>1. CASE mailbox'[i] = mailbox[i]
      BY <3>1 DEF Pending
    <3>2. CASE mailbox'[i] = Append(mailbox[i], OfShard(results, n, i))
      <4>1. PICK mb \in Seq(Seq(Results)), g \in Seq(Results) :
              mb = mailbox[i] /\ g = OfShard(results, n, i)
        BY <1>3, OfShardType DEF AInv, Shape
      <4>2. FlattenSeq(Append(mb, g)) = FlattenSeq(mb) \o g
        BY FlattenAppend
      <4>3. Elem(FlattenSeq(mb) \o g) = Elem(FlattenSeq(mb)) \cup Elem(g)
        BY FlattenType, ConcatElem
      <4>4. Elem(g) \subseteq Elem(results)
        BY <1>3, <4>1, OfShardElem
      <4> QED BY <3>2, <4>1, <4>2, <4>3, <4>4 DEF Pending
    <3> QED BY <1>2, <3>1, <3>2
  <2>2. SentTo(i) \subseteq SentTo(i)'
    BY <1>4, <1>6 DEF SentTo, ShardFor, Elem
  <2>3. \A r \in SentTo(i), q \in Elem(Pending(i)') : q \in Elem(Pending(i)) \/ q.task # r.task
    <3> TAKE r \in SentTo(i), q \in Elem(Pending(i)')
    <3>1. r \in Elem(sent)
      BY DEF SentTo
    <3> QED BY <1>7, <2>1, <3>1
  <2>4. state'[i] = state[i]
    BY <1>4
  <2> QED BY <2>2, <2>3, <2>4, SampledKept
<1> QED BY <1>4, <1>8 DEF RInv

\* Ingestion takes the first result there is and leaves the others.
LEMMA IngestTakes ==
  ASSUME AInv, Distinct(sent), NEW i \in AllShards, Ingest(i)
  PROVE  \E e \in Results, w \in Seq(Results) :
           /\ alive[i] /\ e \in SentTo(i)
           /\ Elem(Pending(i)) = {e} \cup Elem(w) /\ Pending(i)' = w
           /\ \A q \in Elem(w) : q.task # e.task
           /\ \E j \in 0 .. state[i].latency_seen :
                state' = [state EXCEPT ![i] = Ingested(state[i], e, j)]
<1>1. /\ UNCHANGED <<n, sent, alive>>
      /\ mailbox[i] # << >> /\ Head(mailbox[i]) # << >>
      /\ mailbox' = [mailbox EXCEPT ![i] = <<Tail(Head(@))>> \o Tail(@)]
  BY DEF Ingest
<1>2. alive[i]
  BY <1>1 DEF AInv, Emptied
<1>3. PICK mb \in Seq(Seq(Results)) : mb = mailbox[i]
  BY DEF AInv, Shape
<1>4. PICK h \in Seq(Results), ms \in Seq(Seq(Results)) : h = Head(mb) /\ ms = Tail(mb)
  BY <1>1, <1>3, HeadTailProperties
<1>5. PICK e \in Results, t \in Seq(Results) : e = Head(h) /\ t = Tail(h)
  BY <1>1, <1>3, <1>4, HeadTailProperties
<1>6. PICK w \in Seq(Results) : w = t \o FlattenSeq(ms)
  BY FlattenType, ConcatProperties
<1>7. Pending(i)' = w
  <2>1. mailbox'[i] = <<t>> \o ms
    BY <1>1, <1>3, <1>4, <1>5 DEF AInv, Shape
  <2>2. FlattenSeq(<<t>> \o ms) = t \o FlattenSeq(ms)
    BY FirstCall
  <2> QED BY <1>6, <2>1, <2>2 DEF Pending
<1>8. Pending(i) = <<e>> \o w
  <2>1. PICK q \in Seq(Results) : q = FlattenSeq(ms)
    BY FlattenType
  <2>2. Pending(i) = h \o q
    BY <1>1, <1>3, <1>4, <2>1, FlattenHead DEF Pending
  <2>3. << >> \in Seq(Results) /\ h # << >>
    BY <1>1, <1>3, <1>4
  <2>4. Append(<< >>, Head(h)) \o (Tail(h) \o q) = << >> \o (h \o q)
    BY <2>3, TakenIn
  <2>5. PICK v \in Seq(Results) : v = h \o q
    BY ConcatProperties
  <2>6. << >> \o v = v
    BY NoResults
  <2>7. Append(<< >>, e) = <<e>>
    OBVIOUS
  <2> QED BY <1>5, <1>6, <2>1, <2>2, <2>4, <2>5, <2>6, <2>7
<1>9. /\ e \in SentTo(i) /\ Elem(Pending(i)) = {e} \cup Elem(w)
      /\ \A q \in Elem(w) : q.task # e.task
  <2>1. <<e>> \in Seq(Results) /\ Elem(<<e>>) = {e}
    BY DEF Elem
  <2>2. Elem(Pending(i)) = {e} \cup Elem(w)
    BY <1>8, <2>1, ConcatElem
  <2>3. Distinct(<<e>> \o w) /\ Elem(Pending(i)) \subseteq SentTo(i)
    BY <1>2, <1>8, PendingApart
  <2>4. \A a \in Elem(<<e>>), b \in Elem(w) : a.task # b.task
    BY <2>1, <2>3, DistinctParts
  <2> QED BY <2>1, <2>2, <2>3, <2>4
<1>10. PICK j \in 0 .. state[i].latency_seen :
         state' = [state EXCEPT ![i] = Ingested(state[i], e, j)]
  BY <1>3, <1>4, <1>5 DEF Ingest
<1> QED BY <1>2, <1>7, <1>9, <1>10

\* The result ingested is the one that may enter the sample.
LEMMA ReservoirIngest ==
  ASSUME NEW i \in AllShards
  PROVE  AInv /\ Distinct(sent) /\ RInv /\ Ingest(i) => RInv'
<1> SUFFICES ASSUME AInv, Distinct(sent), RInv, Ingest(i) PROVE RInv'
  OBVIOUS
<1>1. /\ UNCHANGED <<n, sent, alive>>
      /\ mailbox' = [mailbox EXCEPT ![i] = <<Tail(Head(@))>> \o Tail(@)]
  BY DEF Ingest
<1>2. PICK e \in Results, w \in Seq(Results) :
        /\ alive[i] /\ e \in SentTo(i)
        /\ Elem(Pending(i)) = {e} \cup Elem(w) /\ Pending(i)' = w
        /\ \A q \in Elem(w) : q.task # e.task
        /\ \E j \in 0 .. state[i].latency_seen :
             state' = [state EXCEPT ![i] = Ingested(state[i], e, j)]
  BY IngestTakes
<1>3. Pending(i)' = w
  BY <1>2
<1>4. /\ e \in SentTo(i) /\ e \in Elem(Pending(i))
      /\ Elem(w) \subseteq Elem(Pending(i))
      /\ \A q \in Elem(w) : q.task # e.task
  BY <1>2
<1>5. PICK st \in ShardState : st = state[i]
  BY DEF RInv
<1>6. \A k \in 0 .. state[i].latency_seen : k \in Nat
  BY <1>5 DEF ShardState
<1>7. PICK j \in Nat : state' = [state EXCEPT ![i] = Ingested(state[i], e, j)]
  BY <1>2, <1>6
<1>8. PICK nt : nt = Ingested(st, e, j)
  OBVIOUS
<1>9. /\ nt \in ShardState
      /\ e.ok => /\ nt.succeeded = st.succeeded + 1
                 /\ nt.latency_seen = st.latency_seen + 1
                 /\ nt.latency_samples =
                      ReservoirAppend(st.latency_samples, Latency[e.task], j)
      /\ ~e.ok => /\ nt.succeeded = st.succeeded
                  /\ nt.latency_seen = st.latency_seen
                  /\ nt.latency_samples = st.latency_samples
  <2>1. nt \in ShardState /\ IngestedTo(nt, st, e, j)
    BY <1>8, IngestedFields
  <2> QED BY <2>1 DEF IngestedTo
<1>10. /\ state' \in [AllShards -> ShardState] /\ state'[i] = nt
       /\ \A k \in AllShards : k # i => state'[k] = state[k]
  BY <1>5, <1>7, <1>8, <1>9 DEF RInv
<1>11. Elem(sent') = Elem(sent) /\ \A k : SentTo(k)' = SentTo(k)
  BY <1>1 DEF SentTo, ShardFor, Elem
<1>12. PICK xs \in Seq(Nat), seen \in Nat : xs = st.latency_samples /\ seen = st.latency_seen
  BY DEF ShardState, Latencies
<1>13. seen = st.succeeded /\ Len(xs) = IF seen < ReservoirCap THEN seen ELSE ReservoirCap
  BY <1>5, <1>12 DEF RInv, Filled
<1>14. PICK g : SampledFrom(g, xs, SentTo(i), Elem(Pending(i)))
  BY <1>5, <1>12 DEF RInv, Sampled
<1>15. PICK lat \in Nat : lat = Latency[e.task]
  BY DataAssumption DEF Results
<1>16. Sampled(i)' /\ Filled(i)'
  <2>1. PICK R, P, Q : R = SentTo(i) /\ P = Elem(Pending(i)) /\ Q = Elem(w)
    OBVIOUS
  <2>2. CASE e.ok
    <3>1. Len(xs) <= ReservoirCap
      BY <1>13, CapAssumption
    <3>2. /\ SampledFrom(g, xs, R, P) /\ e \in R /\ e \in P /\ Latency[e.task] \in Nat
          /\ Q \subseteq P /\ \A q \in Q : q.task # e.task
      BY <1>4, <1>14, <1>15, <2>1
    <3>3. \E f : SampledFrom(f, ReservoirAppend(xs, Latency[e.task], j), R, Q)
      BY <1>7, <2>2, <3>1, <3>2, SampleTaken
    <3>4. nt.latency_samples = ReservoirAppend(xs, lat, j) /\ nt.latency_seen = seen + 1
          /\ nt.succeeded = seen + 1
      BY <1>9, <1>12, <1>13, <1>15, <2>2
    <3>5. Len(ReservoirAppend(xs, lat, j)) =
            IF seen + 1 < ReservoirCap THEN seen + 1 ELSE ReservoirCap
      BY <1>7, <1>13, ReservoirLength
    <3>6. \E f : SampledFrom(f, nt.latency_samples, SentTo(i), Elem(w))
      BY <1>15, <2>1, <3>3, <3>4
    <3>7. Sampled(i)'
      BY <1>3, <1>10, <1>11, <3>6 DEF Sampled
    <3>8. Filled(i)'
      BY <1>10, <3>4, <3>5 DEF Filled
    <3> QED BY <3>7, <3>8
  <2>3. CASE ~e.ok
    <3>1. \A r \in R, q \in Q : q \in P \/ q.task # r.task
      BY <1>4, <2>1
    <3>2. SampledFrom(g, xs, R, P)
      BY <1>14, <2>1
    <3>3. SampledFrom(g, xs, R, Q)
      BY <3>1, <3>2, SampledStill
    <3>4. nt.latency_samples = xs /\ nt.latency_seen = seen /\ nt.succeeded = seen
      BY <1>9, <1>12, <1>13, <2>3
    <3>5. \E f : SampledFrom(f, nt.latency_samples, SentTo(i), Elem(w))
      BY <2>1, <3>3, <3>4
    <3>6. Sampled(i)'
      BY <1>3, <1>10, <1>11, <3>5 DEF Sampled
    <3>7. Filled(i)'
      BY <1>10, <1>13, <3>4 DEF Filled
    <3> QED BY <3>6, <3>7
  <2> QED BY <2>2, <2>3
<1>17. ASSUME NEW k \in AllShards, k # i PROVE Sampled(k)' /\ Filled(k)'
  <2>1. mailbox'[k] = mailbox[k]
    BY <1>1, <1>17 DEF AInv, Shape
  <2>2. Pending(k)' = Pending(k)
    BY <2>1 DEF Pending
  <2> QED BY <1>10, <1>11, <1>17, <2>2, SampledKept
<1> QED BY <1>10, <1>16, <1>17 DEF RInv

\* What is flushed or lost leaves the sample alone.
LEMMA ReservoirFlush ==
  ASSUME NEW i \in AllShards
  PROVE  AInv /\ RInv /\ (Flush(i) \/ Crash(i)) => RInv'
<1> SUFFICES ASSUME AInv, RInv, Flush(i) \/ Crash(i) PROVE RInv'
  OBVIOUS
<1>1. UNCHANGED <<n, sent, state>>
  BY DEF Flush, Crash
<1>2. \A k : SentTo(k)' = SentTo(k)
  BY <1>1 DEF SentTo, ShardFor, Elem
<1>3. \A k \in AllShards : k # i => Pending(k)' = Pending(k)
  BY DEF Flush, Crash, AInv, Shape, Pending
<1>4. Elem(Pending(i)') \subseteq Elem(Pending(i))
  <2>1. CASE Flush(i)
    <3>1. PICK mb \in Seq(Seq(Results)) : mb = mailbox[i] /\ mb # << >> /\ Head(mb) = << >>
      BY <2>1 DEF Flush, AInv, Shape
    <3>2. mailbox'[i] = Tail(mb) /\ Tail(mb) \in Seq(Seq(Results))
      BY <2>1, <3>1, HeadTailProperties DEF Flush, AInv, Shape
    <3>3. PICK q \in Seq(Results) : q = FlattenSeq(Tail(mb))
      BY <3>2, FlattenType
    <3>4. FlattenSeq(mb) = << >> \o q /\ << >> \o q = q
      BY <3>1, <3>3, FlattenHead, NoResults
    <3> QED BY <3>1, <3>2, <3>3, <3>4 DEF Pending
  <2>2. CASE Crash(i)
    <3>1. mailbox'[i] = << >>
      BY <2>2 DEF Crash, AInv, Shape
    <3>2. Pending(i)' = << >> /\ Len(<< >>) = 0
      BY <3>1, FlattenNone DEF Pending
    <3>3. Elem(<< >>) = {}
      BY <3>2 DEF Elem
    <3> QED BY <3>2, <3>3
  <2> QED BY <2>1, <2>2
<1>5. ASSUME NEW k \in AllShards PROVE Sampled(k)' /\ Filled(k)'
  <2>1. Elem(Pending(k)') \subseteq Elem(Pending(k))
    BY <1>3, <1>4
  <2> QED BY <1>1, <1>2, <2>1, SampledKept
<1> QED BY <1>1, <1>5 DEF RInv

\* Every step keeps the reservoirs sound.
LEMMA ReservoirStep == AInv /\ Distinct(sent) /\ RInv /\ [Next]_vars => RInv'
<1> SUFFICES ASSUME AInv, Distinct(sent), RInv, [Next]_vars PROVE RInv'
  OBVIOUS
<1>1. CASE UNCHANGED <<n, sent, state, mailbox>>
  <2>1. \A k : SentTo(k)' = SentTo(k) /\ Pending(k)' = Pending(k)
    BY <1>1 DEF SentTo, ShardFor, Elem, Pending
  <2>2. ASSUME NEW k \in AllShards PROVE Sampled(k)' /\ Filled(k)'
    BY <1>1, <2>1, SampledKept
  <2> QED BY <1>1, <2>2 DEF RInv
<1>2. CASE StartRun
  <2>1. state' = [i \in AllShards |-> EmptyState]
    BY <1>2 DEF StartRun
  <2>2. ASSUME NEW i \in AllShards PROVE Sampled(i)' /\ Filled(i)'
    BY <2>1, NothingSampled DEF Sampled, Filled
  <2> QED BY <2>1, <2>2, EmptyStateType DEF RInv
<1>3. CASE RecordBatch
  BY <1>3, ReservoirRecord
<1>4. ASSUME NEW i \in AllShards, Ingest(i) \/ Flush(i) \/ Crash(i) PROVE RInv'
  BY <1>4, ReservoirIngest, ReservoirFlush
<1>5. CASE Drain \/ Finalize \/ GetSummary \/ Finished \/ UNCHANGED vars
  BY <1>1, <1>5 DEF Drain, Finalize, GetSummary, Finished, vars, shardVars
<1> QED BY <1>2, <1>3, <1>4, <1>5 DEF Next

\* Algorithm R, whatever it draws: a shard keeps as many samples as its cap and
\* its successes allow, each the latency of a different successful result of its
\* own (_reservoir_append, _ingest).
THEOREM ReservoirTheorem == Spec => []ReservoirSound
<1>1. Init => Distinct(sent)
  <2>1. Len(<< >>) = 0
    OBVIOUS
  <2> QED BY <2>1 DEF Init, Distinct
<1>2. AInv /\ Distinct(sent) /\ [Next]_vars => Distinct(sent)'
  BY SentOnceStep DEF Distinct
<1>3. AInv /\ RInv => ReservoirSound
  <2> SUFFICES ASSUME AInv, RInv, NEW i \in AllShards
               PROVE  LET s == state[i] IN
                 /\ Len(s.latency_samples) =
                      IF s.latency_seen < ReservoirCap THEN s.latency_seen ELSE ReservoirCap
                 /\ s.latency_seen = s.succeeded
                 /\ \A k \in 1 .. Len(s.latency_samples) : \E m \in 1 .. Len(sent) :
                      /\ sent[m].ok /\ ShardFor(sent[m].task) = i
                      /\ Latency[sent[m].task] = s.latency_samples[k]
                 /\ IsInjective(Latency) => IsInjective(s.latency_samples)
    BY DEF ReservoirSound
  <2>1. PICK xs \in Seq(Nat) : xs = state[i].latency_samples
    BY DEF RInv, ShardState, Latencies
  <2>2. PICK g : SampledFrom(g, xs, SentTo(i), Elem(Pending(i)))
    BY <2>1 DEF RInv, Sampled
  <2>3. ASSUME NEW k \in 1 .. Len(xs)
        PROVE  \E m \in 1 .. Len(sent) :
                 /\ sent[m].ok /\ ShardFor(sent[m].task) = i
                 /\ Latency[sent[m].task] = xs[k]
    <3>1. g[k] \in SentTo(i) /\ g[k].ok /\ Latency[g[k].task] = xs[k]
      BY <2>2 DEF SampledFrom
    <3>2. ShardFor(g[k].task) = i /\ \E m \in 1 .. Len(sent) : sent[m] = g[k]
      BY <3>1 DEF SentTo, Elem
    <3> QED BY <3>1, <3>2
  <2>4. ASSUME IsInjective(Latency) PROVE IsInjective(xs)
    <3>1. DOMAIN xs = 1 .. Len(xs)
      OBVIOUS
    <3>2. ASSUME NEW a \in 1 .. Len(xs), NEW b \in 1 .. Len(xs), xs[a] = xs[b] PROVE a = b
      <4>1. Latency[g[a].task] = Latency[g[b].task]
        BY <2>2, <3>2 DEF SampledFrom
      <4>2. DOMAIN Latency = TaskIds
        BY DataAssumption
      <4>3. \A k \in 1 .. Len(xs) : g[k] \in SentTo(i)
        BY <2>2 DEF SampledFrom
      <4>4. \A r \in SentTo(i) : r \in Results
        BY DEF SentTo, Elem, AInv, Shape
      <4>5. g[a].task \in TaskIds /\ g[b].task \in TaskIds
        BY <4>3, <4>4 DEF Results
      <4>6. g[a].task = g[b].task
        BY <2>4, <4>1, <4>2, <4>5 DEF IsInjective
      <4> QED BY <2>2, <4>6 DEF SampledFrom
    <3> QED BY <3>1, <3>2 DEF IsInjective
  <2> QED BY <2>1, <2>3, <2>4 DEF RInv, Filled
<1> QED BY <1>1, <1>2, <1>3, AggregatorInvariant, ReservoirInit, ReservoirStep, PTL DEF Spec

-----------------------------------------------------------------------------
(* The counters. *)

\* The successful results of R, and those of them that have awards.
OkOf(R) == {r \in R : r.ok}
AwardedIn(R) == {r \in R : r.ok /\ DOMAIN Awarded[r.task] # {}}

ScoreOf == [r \in Results |-> Score[r.task]]
LatencyOf == [r \in Results |-> Latency[r.task]]

\* g tells of which result of Q each value of xs is: of each result one.
ListsBy(g, xs, f, Q) ==
  /\ g \in [1 .. Len(xs) -> Q]
  /\ \A j, k \in 1 .. Len(xs) : g[j] = g[k] => j = k
  /\ \A r \in Q : \E k \in 1 .. Len(xs) : g[k] = r
  /\ \A k \in 1 .. Len(xs) : xs[k] = f[g[k].task]

\* xs has, in some order, what f gives for the tasks of Q.
Lists(xs, f, Q) == \E g : ListsBy(g, xs, f, Q)

\* e is the least, or the greatest, score in Q.
IsLeast(e, Q) ==
  /\ e.set <=> Q # {}
  /\ e.set => /\ \E r \in Q : e.v = Score[r.task]
              /\ \A r \in Q : e.v <= Score[r.task]
IsGreatest(e, Q) ==
  /\ e.set <=> Q # {}
  /\ e.set => /\ \E r \in Q : e.v = Score[r.task]
              /\ \A r \in Q : Score[r.task] <= e.v

\* The counters of s are those of the results in R.
Describes(s, R) ==
  /\ s.count = Cardinality(R)
  /\ s.succeeded = Cardinality(OkOf(R))
  /\ s.failed = Cardinality(R \ OkOf(R))
  /\ s.score_sum = SumOver(ScoreOf, OkOf(R))
  /\ s.latency_sum = SumOver(LatencyOf, OkOf(R))
  /\ IsLeast(s.score_min, OkOf(R)) /\ IsGreatest(s.score_max, OkOf(R))
  /\ \A w \in Workers : s.per_worker[w] = Cardinality({r \in R : r.worker = w})
  /\ Lists(s.condition_scores, Awarded, AwardedIn(R))

\* And while it has not overflowed, its reservoir has all their latencies.
Samples(s, R) ==
  /\ s.latency_seen = Cardinality(OkOf(R))
  /\ s.latency_seen <= ReservoirCap => Lists(s.latency_samples, Latency, OkOf(R))

\* Nothing lists nothing.
LEMMA ListsNone == ASSUME NEW f PROVE Lists(<< >>, f, {})
<1>1. Len(<< >>) = 0 /\ 1 .. 0 = {}
  OBVIOUS
<1>2. ListsBy(<< >>, << >>, f, {})
  <2>1. << >> \in [1 .. 0 -> {}]
    OBVIOUS
  <2> QED BY <1>1, <2>1 DEF ListsBy
<1> QED BY <1>2 DEF Lists

\* Two lists of results that have none in common make one.
LEMMA ListsConcat ==
  ASSUME NEW V, NEW xs \in Seq(V), NEW ys \in Seq(V), NEW f, NEW P, NEW Q,
         Lists(xs, f, P), Lists(ys, f, Q), P \cap Q = {}
  PROVE  Lists(xs \o ys, f, P \cup Q)
<1>1. PICK g : ListsBy(g, xs, f, P)
  BY DEF Lists
<1>2. PICK h : ListsBy(h, ys, f, Q)
  BY DEF Lists
<1>3. PICK m \in Nat, l \in Nat : m = Len(xs) /\ l = Len(ys)
  OBVIOUS
<1>4. PICK zs : zs = xs \o ys
  OBVIOUS
<1>5. /\ Len(zs) = m + l
      /\ \A k \in 1 .. m + l : zs[k] = IF k <= m THEN xs[k] ELSE ys[k - m]
  BY <1>3, <1>4, ConcatProperties
<1> DEFINE c == [k \in 1 .. m + l |-> IF k <= m THEN g[k] ELSE h[k - m]]
<1>6. \A k \in 1 .. m + l : \/ k \in 1 .. m /\ k <= m
                            \/ ~(k <= m) /\ k - m \in 1 .. l
  OBVIOUS
<1>7. /\ \A k \in 1 .. m : k \in 1 .. m + l /\ k <= m
      /\ \A k \in 1 .. l : m + k \in 1 .. m + l /\ ~(m + k <= m) /\ (m + k) - m = k
  OBVIOUS
<1>8. ASSUME NEW k \in 1 .. m + l, k <= m
      PROVE  c[k] = g[k] /\ k \in 1 .. m /\ c[k] \in P /\ zs[k] = f[c[k].task]
  <2>1. k \in 1 .. m
    BY <1>6, <1>8
  <2>2. c[k] = g[k] /\ zs[k] = xs[k]
    BY <1>5, <1>8
  <2> HIDE DEF c
  <2> QED BY <1>1, <1>3, <2>1, <2>2 DEF ListsBy
<1>9. ASSUME NEW k \in 1 .. m + l, ~(k <= m)
      PROVE  c[k] = h[k - m] /\ k - m \in 1 .. l /\ c[k] \in Q /\ zs[k] = f[c[k].task]
  <2>1. k - m \in 1 .. l
    BY <1>6, <1>9
  <2>2. c[k] = h[k - m] /\ zs[k] = ys[k - m]
    BY <1>5, <1>9
  <2> HIDE DEF c
  <2> QED BY <1>2, <1>3, <2>1, <2>2 DEF ListsBy
<1>10. c \in [1 .. m + l -> P \cup Q]
  <2>1. \A k \in 1 .. m + l : c[k] \in P \cup Q
    <3> HIDE DEF c
    <3> QED BY <1>8, <1>9
  <2>2. c = [k \in 1 .. m + l |-> c[k]]
    OBVIOUS
  <2> HIDE DEF c
  <2> QED BY <2>1, <2>2
<1>11. ASSUME NEW j \in 1 .. m + l, NEW k \in 1 .. m + l, c[j] = c[k] PROVE j = k
  <2> HIDE DEF c
  <2>1. CASE j <= m /\ k <= m
    BY <1>1, <1>3, <1>8, <1>11, <2>1 DEF ListsBy
  <2>2. CASE ~(j <= m) /\ ~(k <= m)
    <3>1. h[j - m] = h[k - m] /\ j - m \in 1 .. l /\ k - m \in 1 .. l
      BY <1>9, <1>11, <2>2
    <3>2. j - m = k - m
      BY <1>2, <1>3, <3>1 DEF ListsBy
    <3> QED BY <3>2
  <2>3. CASE (j <= m /\ ~(k <= m)) \/ (~(j <= m) /\ k <= m)
    BY <1>8, <1>9, <1>11, <2>3
  <2> QED BY <2>1, <2>2, <2>3
<1>12. ASSUME NEW r \in P \cup Q PROVE \E k \in 1 .. m + l : c[k] = r
  <2>1. CASE r \in P
    <3>1. PICK k \in 1 .. m : g[k] = r
      BY <1>1, <1>3, <2>1 DEF ListsBy
    <3> HIDE DEF c
    <3> QED BY <1>7, <1>8, <3>1
  <2>2. CASE r \in Q
    <3>1. PICK k \in 1 .. l : h[k] = r
      BY <1>2, <1>3, <2>2 DEF ListsBy
    <3>2. m + k \in 1 .. m + l /\ ~(m + k <= m) /\ (m + k) - m = k
      BY <1>7
    <3> HIDE DEF c
    <3>3. c[m + k] = r
      BY <1>9, <3>1, <3>2
    <3> QED BY <3>2, <3>3
  <2> QED BY <2>1, <2>2
<1>13. \A k \in 1 .. m + l : zs[k] = f[c[k].task]
  <2> HIDE DEF c
  <2> QED BY <1>8, <1>9
<1> HIDE DEF c
<1>14. ListsBy(c, zs, f, P \cup Q)
  BY <1>5, <1>10, <1>11, <1>12, <1>13 DEF ListsBy
<1> QED BY <1>4, <1>14 DEF Lists

\* One more result.
LEMMA ListsAppend ==
  ASSUME NEW V, NEW xs \in Seq(V), NEW f, NEW P, Lists(xs, f, P),
         NEW r, r \notin P, f[r.task] \in V
  PROVE  Lists(Append(xs, f[r.task]), f, P \cup {r})
<1>1. PICK x \in V : x = f[r.task]
  OBVIOUS
<1>2. <<x>> \in Seq(V) /\ Len(<<x>>) = 1 /\ <<x>>[1] = x
  OBVIOUS
<1> DEFINE g == [k \in 1 .. 1 |-> r]
<1>3. ListsBy(g, <<x>>, f, {r})
  <2>1. \A k \in 1 .. 1 : k = 1
    OBVIOUS
  <2> QED BY <1>1, <1>2, <2>1 DEF ListsBy
<1>4. Lists(<<x>>, f, {r})
  <2> HIDE DEF g
  <2> QED BY <1>3 DEF Lists
<1>5. Append(xs, x) = xs \o <<x>>
  BY AppendIsConcat
<1>6. P \cap {r} = {}
  OBVIOUS
<1> HIDE DEF g
<1>7. Lists(xs \o <<x>>, f, P \cup {r})
  BY <1>2, <1>4, <1>6, ListsConcat
<1> QED BY <1>1, <1>5, <1>7

\* Scores and latencies are numbers.
LEMMA Measures == ScoreOf \in [Results -> Nat] /\ LatencyOf \in [Results -> Nat]
BY DataAssumption DEF Results, ScoreOf, LatencyOf

\* The lesser of two least scores is the least of both.
LEMMA LeastOfBoth ==
  ASSUME NEW a \in Extreme, NEW b \in Extreme, NEW P \in SUBSET Results, NEW Q \in SUBSET Results
  PROVE  /\ Lesser(a, b) \in Extreme /\ Greater(a, b) \in Extreme
         /\ IsLeast(a, P) /\ IsLeast(b, Q) => IsLeast(Lesser(a, b), P \cup Q)
         /\ IsGreatest(a, P) /\ IsGreatest(b, Q) => IsGreatest(Greater(a, b), P \cup Q)
<1>1. /\ a.set \in BOOLEAN /\ a.v \in Nat /\ b.set \in BOOLEAN /\ b.v \in Nat
      /\ Lesser(a, b) \in Extreme /\ Greater(a, b) \in Extreme
  BY DEF Extreme, Lesser, Greater
<1>2. \A r \in P \cup Q : Score[r.task] \in Nat
  BY DataAssumption DEF Results
<1>3. ASSUME IsLeast(a, P), IsLeast(b, Q) PROVE IsLeast(Lesser(a, b), P \cup Q)
  <2>1. CASE ~a.set
    <3>1. Lesser(a, b) = b /\ P = {}
      BY <1>3, <2>1 DEF Lesser, IsLeast
    <3> QED BY <1>3, <3>1
  <2>2. CASE a.set /\ ~b.set
    <3>1. Lesser(a, b) = a /\ Q = {}
      BY <1>3, <2>2 DEF Lesser, IsLeast
    <3> QED BY <1>3, <3>1
  <2>3. CASE a.set /\ b.set /\ b.v < a.v
    <3>1. Lesser(a, b) = b
      BY <2>3 DEF Lesser
    <3>2. \A r \in P : b.v <= Score[r.task]
      BY <1>1, <1>2, <1>3, <2>3 DEF IsLeast
    <3> QED BY <1>3, <2>3, <3>1, <3>2 DEF IsLeast
  <2>4. CASE a.set /\ b.set /\ ~(b.v < a.v)
    <3>1. Lesser(a, b) = a
      BY <2>4 DEF Lesser
    <3>2. \A r \in Q : a.v <= Score[r.task]
      BY <1>1, <1>2, <1>3, <2>4 DEF IsLeast
    <3> QED BY <1>3, <2>4, <3>1, <3>2 DEF IsLeast
  <2> QED BY <2>1, <2>2, <2>3, <2>4
<1>4. ASSUME IsGreatest(a, P), IsGreatest(b, Q) PROVE IsGreatest(Greater(a, b), P \cup Q)
  <2>1. CASE ~a.set
    <3>1. Greater(a, b) = b /\ P = {}
      BY <1>4, <2>1 DEF Greater, IsGreatest
    <3> QED BY <1>4, <3>1
  <2>2. CASE a.set /\ ~b.set
    <3>1. Greater(a, b) = a /\ Q = {}
      BY <1>4, <2>2 DEF Greater, IsGreatest
    <3> QED BY <1>4, <3>1
  <2>3. CASE a.set /\ b.set /\ b.v > a.v
    <3>1. Greater(a, b) = b
      BY <2>3 DEF Greater
    <3>2. \A r \in P : Score[r.task] <= b.v
      BY <1>1, <1>2, <1>4, <2>3 DEF IsGreatest
    <3> QED BY <1>4, <2>3, <3>1, <3>2 DEF IsGreatest
  <2>4. CASE a.set /\ b.set /\ ~(b.v > a.v)
    <3>1. Greater(a, b) = a
      BY <2>4 DEF Greater
    <3>2. \A r \in Q : Score[r.task] <= a.v
      BY <1>1, <1>2, <1>4, <2>4 DEF IsGreatest
    <3> QED BY <1>4, <2>4, <3>1, <3>2 DEF IsGreatest
  <2> QED BY <2>1, <2>2, <2>3, <2>4
<1> QED BY <1>1, <1>3, <1>4

\* Before any result.
LEMMA DescribedNone == Describes(EmptyState, {}) /\ Samples(EmptyState, {})
<1>1. /\ EmptyState.count = 0 /\ EmptyState.succeeded = 0 /\ EmptyState.failed = 0
      /\ EmptyState.score_sum = 0 /\ EmptyState.latency_sum = 0
      /\ EmptyState.latency_seen = 0 /\ EmptyState.latency_samples = << >>
      /\ EmptyState.condition_scores = << >> /\ ~EmptyState.score_min.set
      /\ ~EmptyState.score_max.set /\ EmptyState.per_worker = [w \in Workers |-> 0]
  BY DEF EmptyState, Unset
<1>2. OkOf({}) = {} /\ AwardedIn({}) = {} /\ Cardinality({}) = 0
  BY FS_EmptySet DEF OkOf, AwardedIn
<1>3. SumOver(ScoreOf, {}) = 0 /\ SumOver(LatencyOf, {}) = 0
  BY Measures, SumOfNone
<1>4. Lists(<< >>, Awarded, {}) /\ Lists(<< >>, Latency, {})
  BY ListsNone
<1>5. IsLeast(EmptyState.score_min, {}) /\ IsGreatest(EmptyState.score_max, {})
  BY <1>1 DEF IsLeast, IsGreatest
<1>6. \A w \in Workers : {r \in {} : r.worker = w} = {}
  OBVIOUS
<1>7. Describes(EmptyState, {})
  BY <1>1, <1>2, <1>3, <1>4, <1>5, <1>6 DEF Describes
<1>8. Samples(EmptyState, {})
  BY <1>1, <1>2, <1>4 DEF Samples
<1> QED BY <1>7, <1>8

\* The parts of a finite set of results are finite.
LEMMA PartsFinite ==
  ASSUME NEW R, IsFiniteSet(R)
  PROVE  /\ IsFiniteSet(OkOf(R)) /\ OkOf(R) \subseteq R
         /\ IsFiniteSet(R \ OkOf(R))
         /\ \A w : IsFiniteSet({r \in R : r.worker = w})
<1>1. OkOf(R) \subseteq R /\ R \ OkOf(R) \subseteq R
  BY DEF OkOf
<1>2. \A w : {r \in R : r.worker = w} \subseteq R
  OBVIOUS
<1> QED BY <1>1, <1>2, FS_Subset

\* A list is as long as what it lists.
LEMMA ListsLength ==
  ASSUME NEW V, NEW xs \in Seq(V), NEW f, NEW Q, Lists(xs, f, Q)
  PROVE  IsFiniteSet(Q) /\ Cardinality(Q) = Len(xs)
<1>1. PICK g : ListsBy(g, xs, f, Q)
  BY DEF Lists
<1>2. PICK m \in Nat : m = Len(xs)
  OBVIOUS
<1>3. g \in Bijection(1 .. m, Q)
  <2>1. g \in [1 .. m -> Q] /\ \A j, k \in 1 .. m : g[j] = g[k] => j = k
    BY <1>1, <1>2 DEF ListsBy
  <2>2. \A r \in Q : \E k \in 1 .. m : g[k] = r
    BY <1>1, <1>2 DEF ListsBy
  <2> QED BY <2>1, <2>2 DEF Bijection, Injection, Surjection, IsInjective
<1>4. IsFiniteSet(1 .. m) /\ Cardinality(1 .. m) = m
  BY FS_Interval
<1>5. IsFiniteSet(Q) /\ Cardinality(1 .. m) = Cardinality(Q)
  BY <1>3, <1>4, FS_Bijection DEF ExistsBijection
<1> QED BY <1>2, <1>4, <1>5

\* The count of its worker is one more.
LEMMA WorkerCounted ==
  ASSUME NEW s \in ShardState, NEW R, IsFiniteSet(R), NEW r \in Results, r \notin R,
         \A w \in Workers : s.per_worker[w] = Cardinality({x \in R : x.worker = w}),
         NEW w \in Workers
  PROVE  [s.per_worker EXCEPT ![r.worker] = @ + 1][w] =
           Cardinality({x \in R \cup {r} : x.worker = w})
<1>1. PICK q \in Counts : q = s.per_worker
  BY DEF ShardState
<1>2. r.worker \in Workers
  BY DEF Results
<1>3. CASE w = r.worker
  <2>1. {x \in R \cup {r} : x.worker = w} = {x \in R : x.worker = w} \cup {r}
    BY <1>3
  <2>2. Cardinality({x \in R : x.worker = w} \cup {r}) = Cardinality({x \in R : x.worker = w}) + 1
    <3>1. PICK S : S = {x \in R : x.worker = w}
      OBVIOUS
    <3>2. IsFiniteSet(S) /\ r \notin S
      BY <3>1, PartsFinite
    <3>3. Cardinality(S \cup {r}) = Cardinality(S) + 1
      BY <3>2, CountWithOneMore
    <3> QED BY <3>1, <3>3
  <2>3. [q EXCEPT ![r.worker] = q[r.worker] + 1][w] = q[w] + 1
    BY <1>2, <1>3 DEF Counts
  <2> QED BY <1>1, <2>1, <2>2, <2>3
<1>4. CASE w # r.worker
  <2>1. {x \in R \cup {r} : x.worker = w} = {x \in R : x.worker = w}
    BY <1>4
  <2>2. [q EXCEPT ![r.worker] = q[r.worker] + 1][w] = q[w]
    BY <1>2, <1>4 DEF Counts
  <2> QED BY <1>1, <2>1, <2>2
<1> QED BY <1>3, <1>4

\* A result that failed is counted as such.
LEMMA DescribedFailed ==
  ASSUME NEW s \in ShardState, NEW R \in SUBSET Results, IsFiniteSet(R),
         Describes(s, R), Samples(s, R), NEW r \in Results, r \notin R, ~r.ok,
         NEW j \in Nat, NEW t, t = Ingested(s, r, j)
  PROVE  Describes(t, R \cup {r}) /\ Samples(t, R \cup {r})
<1>1. /\ t.count = s.count + 1
      /\ t.per_worker = [s.per_worker EXCEPT ![r.worker] = @ + 1]
      /\ t.failed = s.failed + 1
      /\ t.succeeded = s.succeeded /\ t.latency_seen = s.latency_seen
      /\ t.latency_samples = s.latency_samples
      /\ t.score_sum = s.score_sum /\ t.latency_sum = s.latency_sum
      /\ t.score_min = s.score_min /\ t.score_max = s.score_max
      /\ t.condition_scores = s.condition_scores
  BY IngestedFields DEF IngestedTo
<1>2. PICK Q : Q = R \cup {r}
  OBVIOUS
<1>3. OkOf(Q) = OkOf(R) /\ AwardedIn(Q) = AwardedIn(R) /\ Q \ OkOf(Q) = (R \ OkOf(R)) \cup {r}
  BY <1>2 DEF OkOf, AwardedIn
<1>4. /\ Cardinality(Q) = s.count + 1
      /\ Cardinality(Q \ OkOf(Q)) = s.failed + 1
  <2>1. Cardinality(Q) = Cardinality(R) + 1
    BY <1>2, CountWithOneMore
  <2>2. Cardinality((R \ OkOf(R)) \cup {r}) = Cardinality(R \ OkOf(R)) + 1
    BY PartsFinite, CountWithOneMore
  <2> QED BY <1>3, <2>1, <2>2 DEF Describes
<1>5. \A w \in Workers : t.per_worker[w] = Cardinality({x \in Q : x.worker = w})
  BY <1>1, <1>2, WorkerCounted DEF Describes
<1>6. Describes(t, Q)
  BY <1>1, <1>3, <1>4, <1>5 DEF Describes
<1>7. Samples(t, Q)
  BY <1>1, <1>3 DEF Samples
<1> QED BY <1>2, <1>6, <1>7
\* One that succeeded is, and adds its score, latency and awards.
LEMMA DescribedOk ==
  ASSUME NEW s \in ShardState, NEW R \in SUBSET Results, IsFiniteSet(R),
         Describes(s, R), Samples(s, R), NEW r \in Results, r \notin R, r.ok,
         NEW j \in Nat, NEW t, t = Ingested(s, r, j)
  PROVE  Describes(t, R \cup {r}) /\ Samples(t, R \cup {r})
<1>1. /\ t.count = s.count + 1
      /\ t.per_worker = [s.per_worker EXCEPT ![r.worker] = @ + 1]
      /\ t.succeeded = s.succeeded + 1 /\ t.failed = s.failed
      /\ t.score_sum = s.score_sum + Score[r.task]
      /\ t.score_min = Lesser(s.score_min, Known(Score[r.task]))
      /\ t.score_max = Greater(s.score_max, Known(Score[r.task]))
      /\ t.latency_sum = s.latency_sum + Latency[r.task]
      /\ t.latency_seen = s.latency_seen + 1
      /\ t.latency_samples = ReservoirAppend(s.latency_samples, Latency[r.task], j)
      /\ t.condition_scores = IF DOMAIN Awarded[r.task] = {} THEN s.condition_scores
                              ELSE Append(s.condition_scores, Awarded[r.task])
  BY IngestedFields DEF IngestedTo
<1>2. PICK Q : Q = R \cup {r}
  OBVIOUS
<1>3. PICK P : P = OkOf(R)
  OBVIOUS
<1>4. /\ OkOf(Q) = P \cup {r} /\ Q \ OkOf(Q) = R \ P
      /\ AwardedIn(Q) = IF DOMAIN Awarded[r.task] = {} THEN AwardedIn(R) ELSE AwardedIn(R) \cup {r}
      /\ r \notin P /\ P \in SUBSET Results /\ r \notin AwardedIn(R)
  BY <1>2, <1>3 DEF OkOf, AwardedIn
<1>5. IsFiniteSet(P)
  BY <1>3, PartsFinite
<1>6. /\ Cardinality(Q) = s.count + 1
      /\ Cardinality(OkOf(Q)) = s.succeeded + 1
      /\ Cardinality(Q \ OkOf(Q)) = s.failed
  <2>1. Cardinality(Q) = Cardinality(R) + 1
    BY <1>2, CountWithOneMore
  <2>2. Cardinality(P \cup {r}) = Cardinality(P) + 1
    BY <1>4, <1>5, CountWithOneMore
  <2> QED BY <1>3, <1>4, <2>1, <2>2 DEF Describes
<1>7. \A w \in Workers : t.per_worker[w] = Cardinality({x \in Q : x.worker = w})
  BY <1>1, <1>2, WorkerCounted DEF Describes
<1>8. /\ t.score_sum = SumOver(ScoreOf, P \cup {r})
      /\ t.latency_sum = SumOver(LatencyOf, P \cup {r})
  <2>1. r \in Results \ P
    BY <1>4
  <2>2. /\ SumOver(ScoreOf, P \cup {r}) = SumOver(ScoreOf, P) + ScoreOf[r]
        /\ SumOver(LatencyOf, P \cup {r}) = SumOver(LatencyOf, P) + LatencyOf[r]
    BY <1>4, <1>5, <2>1, Measures, SumWithOneMore
  <2>3. ScoreOf[r] = Score[r.task] /\ LatencyOf[r] = Latency[r.task]
    BY DEF ScoreOf, LatencyOf
  <2> QED BY <1>1, <1>3, <2>2, <2>3 DEF Describes
<1>9. PICK v \in Nat, l \in Nat : v = Score[r.task] /\ l = Latency[r.task]
  BY DataAssumption DEF Results
<1>10. IsLeast(t.score_min, P \cup {r}) /\ IsGreatest(t.score_max, P \cup {r})
  <2>1. Known(v) \in Extreme /\ Known(v).set /\ Known(v).v = v
    BY DEF Known, Extreme
  <2>2. IsLeast(Known(v), {r}) /\ IsGreatest(Known(v), {r})
    BY <1>9, <2>1 DEF IsLeast, IsGreatest
  <2>3. s.score_min \in Extreme /\ s.score_max \in Extreme
    BY DEF ShardState
  <2>4. {r} \in SUBSET Results
    OBVIOUS
  <2>5. IsLeast(s.score_min, P) /\ IsGreatest(s.score_max, P)
    BY <1>3 DEF Describes
  <2>6. IsLeast(Lesser(s.score_min, Known(v)), P \cup {r})
    BY <1>4, <2>1, <2>2, <2>3, <2>4, <2>5, LeastOfBoth
  <2>7. IsGreatest(Greater(s.score_max, Known(v)), P \cup {r})
    BY <1>4, <2>1, <2>2, <2>3, <2>4, <2>5, LeastOfBoth
  <2> QED BY <1>1, <1>9, <2>6, <2>7
<1>11. Lists(t.condition_scores, Awarded, AwardedIn(Q))
  <2>1. Lists(s.condition_scores, Awarded, AwardedIn(R))
    BY DEF Describes
  <2>2. CASE DOMAIN Awarded[r.task] = {}
    BY <1>1, <1>4, <2>1, <2>2
  <2>3. CASE DOMAIN Awarded[r.task] # {}
    <3>1. s.condition_scores \in Seq({Awarded[x] : x \in TaskIds})
      BY DEF ShardState, Breakdowns
    <3>2. Awarded[r.task] \in {Awarded[x] : x \in TaskIds}
      BY DEF Results
    <3>3. Lists(Append(s.condition_scores, Awarded[r.task]), Awarded, AwardedIn(R) \cup {r})
      BY <1>4, <2>1, <3>1, <3>2, ListsAppend
    <3> QED BY <1>1, <1>4, <2>3, <3>3
  <2> QED BY <2>2, <2>3
<1>12. Describes(t, Q)
  BY <1>1, <1>4, <1>6, <1>7, <1>8, <1>10, <1>11 DEF Describes
<1>13. Samples(t, Q)
  <2>1. t.latency_seen = Cardinality(OkOf(Q))
    <3>1. s.latency_seen = s.succeeded
      BY DEF Samples, Describes
    <3> QED BY <1>1, <1>6, <3>1
  <2>2. ASSUME t.latency_seen <= ReservoirCap PROVE Lists(t.latency_samples, Latency, OkOf(Q))
    <3>1. PICK xs \in Seq(Nat), seen \in Nat :
            xs = s.latency_samples /\ seen = s.latency_seen /\ seen = s.succeeded
      BY DEF ShardState, Latencies, Samples, Describes
    <3>2. seen + 1 <= ReservoirCap /\ seen <= ReservoirCap /\ seen < ReservoirCap
      <4>1. seen + 1 <= ReservoirCap /\ ReservoirCap \in Nat
        BY <1>1, <2>2, <3>1, CapAssumption
      <4> QED BY <4>1
    <3>3. Lists(xs, Latency, P)
      BY <1>3, <3>1, <3>2 DEF Samples
    <3>4. Len(xs) = seen
      BY <1>3, <1>5, <3>1, <3>3, ListsLength DEF Samples
    <3>5. t.latency_samples = Append(xs, Latency[r.task])
      BY <1>1, <3>1, <3>2, <3>4 DEF ReservoirAppend
    <3>6. Lists(Append(xs, Latency[r.task]), Latency, P \cup {r})
      BY <1>4, <1>9, <3>3, ListsAppend
    <3> QED BY <1>4, <3>5, <3>6
  <2> QED BY <2>1, <2>2 DEF Samples
<1> QED BY <1>2, <1>12, <1>13

\* What two shards merge to is the state of a shard.
LEMMA MergeType ==
  ASSUME NEW a \in ShardState, NEW b \in ShardState, NEW t, t = Merge2(a, b)
  PROVE  t \in ShardState
<1>1. /\ t.count = a.count + b.count /\ t.succeeded = a.succeeded + b.succeeded
      /\ t.failed = a.failed + b.failed /\ t.score_sum = a.score_sum + b.score_sum
      /\ t.score_min = Lesser(a.score_min, b.score_min)
      /\ t.score_max = Greater(a.score_max, b.score_max)
      /\ t.latency_sum = a.latency_sum + b.latency_sum
      /\ t.latency_samples = a.latency_samples \o b.latency_samples
      /\ t.latency_seen = a.latency_seen + b.latency_seen
      /\ t.condition_scores = a.condition_scores \o b.condition_scores
      /\ t.per_worker = MergeCounts(a.per_worker, b.per_worker)
  BY DEF Merge2
<1>2. /\ a.count \in Nat /\ b.count \in Nat /\ a.succeeded \in Nat /\ b.succeeded \in Nat
      /\ a.failed \in Nat /\ b.failed \in Nat /\ a.score_sum \in Nat /\ b.score_sum \in Nat
      /\ a.latency_sum \in Nat /\ b.latency_sum \in Nat
      /\ a.latency_seen \in Nat /\ b.latency_seen \in Nat
  BY DEF ShardState
<1>3. /\ a.latency_samples \in Latencies /\ b.latency_samples \in Latencies
      /\ a.condition_scores \in Breakdowns /\ b.condition_scores \in Breakdowns
      /\ a.score_min \in Extreme /\ a.score_max \in Extreme
      /\ b.score_min \in Extreme /\ b.score_max \in Extreme
  BY DEF ShardState
<1>4. \A x, y \in Nat : x + y \in Nat
  OBVIOUS
<1>5. /\ t.count \in Nat /\ t.succeeded \in Nat /\ t.failed \in Nat /\ t.score_sum \in Nat
      /\ t.latency_sum \in Nat /\ t.latency_seen \in Nat
  <2>1. t.count \in Nat /\ t.succeeded \in Nat
    BY <1>1, <1>2, <1>4
  <2>2. t.failed \in Nat /\ t.score_sum \in Nat
    BY <1>1, <1>2, <1>4
  <2>3. t.latency_sum \in Nat /\ t.latency_seen \in Nat
    BY <1>1, <1>2, <1>4
  <2> QED BY <2>1, <2>2, <2>3
<1>6. t.latency_samples \in Latencies /\ t.condition_scores \in Breakdowns
  BY <1>1, <1>3, ConcatProperties DEF Latencies, Breakdowns
<1>7. t.score_min \in Extreme /\ t.score_max \in Extreme
  BY <1>1, <1>3 DEF Lesser, Greater
<1>8. t.per_worker \in Counts
  <2>1. PICK x \in Counts, y \in Counts : x = a.per_worker /\ y = b.per_worker
    BY DEF ShardState
  <2>2. t.per_worker = [w \in Workers |-> x[w] + y[w]]
    BY <1>1, <2>1 DEF MergeCounts
  <2>3. \A w \in Workers : x[w] \in Nat /\ y[w] \in Nat
    BY DEF Counts
  <2> QED BY <2>2, <2>3 DEF Counts
<1>9. t = [count |-> t.count, succeeded |-> t.succeeded,
           failed |-> t.failed, score_sum |-> t.score_sum,
           score_min |-> t.score_min, score_max |-> t.score_max,
           latency_sum |-> t.latency_sum, latency_samples |-> t.latency_samples,
           latency_seen |-> t.latency_seen, condition_scores |-> t.condition_scores,
           per_worker |-> t.per_worker]
  BY DEF Merge2
<1> QED BY <1>5, <1>6, <1>7, <1>8, <1>9 DEF ShardState

\* The counters of two shards together are those of the results of both.
LEMMA DescribedTogether ==
  ASSUME NEW a \in ShardState, NEW b \in ShardState,
         NEW P \in SUBSET Results, IsFiniteSet(P), NEW Q \in SUBSET Results, IsFiniteSet(Q),
         P \cap Q = {}, Describes(a, P), Describes(b, Q), NEW t, t = Merge2(a, b)
  PROVE  Describes(t, P \cup Q)
<1>1. PICK R, O, U : R = P \cup Q /\ O = OkOf(P) /\ U = OkOf(Q)
  OBVIOUS
<1>2. /\ OkOf(R) = O \cup U /\ R \ OkOf(R) = (P \ O) \cup (Q \ U)
      /\ AwardedIn(R) = AwardedIn(P) \cup AwardedIn(Q)
      /\ AwardedIn(P) \cap AwardedIn(Q) = {}
      /\ O \cap U = {} /\ (P \ O) \cap (Q \ U) = {}
      /\ O \in SUBSET Results /\ U \in SUBSET Results
  BY <1>1 DEF OkOf, AwardedIn
<1>3. /\ IsFiniteSet(O) /\ IsFiniteSet(P \ O) /\ IsFiniteSet(U) /\ IsFiniteSet(Q \ U)
      /\ \A w : IsFiniteSet({r \in P : r.worker = w}) /\ IsFiniteSet({r \in Q : r.worker = w})
  BY <1>1, PartsFinite
<1>4. /\ t.count = a.count + b.count /\ t.succeeded = a.succeeded + b.succeeded
      /\ t.failed = a.failed + b.failed /\ t.score_sum = a.score_sum + b.score_sum
      /\ t.score_min = Lesser(a.score_min, b.score_min)
      /\ t.score_max = Greater(a.score_max, b.score_max)
      /\ t.latency_sum = a.latency_sum + b.latency_sum
      /\ t.latency_samples = a.latency_samples \o b.latency_samples
      /\ t.latency_seen = a.latency_seen + b.latency_seen
      /\ t.condition_scores = a.condition_scores \o b.condition_scores
      /\ t.per_worker = MergeCounts(a.per_worker, b.per_worker)
  BY DEF Merge2
<1>5. t.count = Cardinality(R) /\ t.succeeded = Cardinality(OkOf(R)) /\ t.failed = Cardinality(R \ OkOf(R))
  <2>1. Cardinality(R) = Cardinality(P) + Cardinality(Q)
    BY <1>1, TogetherCount
  <2>2. Cardinality(OkOf(R)) = Cardinality(O) + Cardinality(U)
    BY <1>2, <1>3, TogetherCount
  <2>3. Cardinality(R \ OkOf(R)) = Cardinality(P \ O) + Cardinality(Q \ U)
    BY <1>2, <1>3, TogetherCount
  <2> QED BY <1>1, <1>4, <2>1, <2>2, <2>3 DEF Describes
<1>6. t.score_sum = SumOver(ScoreOf, OkOf(R)) /\ t.latency_sum = SumOver(LatencyOf, OkOf(R))
  <2>1. SumOver(ScoreOf, O \cup U) = SumOver(ScoreOf, O) + SumOver(ScoreOf, U)
    BY <1>2, <1>3, Measures, SumOfUnion
  <2>2. SumOver(LatencyOf, O \cup U) = SumOver(LatencyOf, O) + SumOver(LatencyOf, U)
    BY <1>2, <1>3, Measures, SumOfUnion
  <2> QED BY <1>1, <1>2, <1>4, <2>1, <2>2 DEF Describes
<1>7. IsLeast(t.score_min, OkOf(R)) /\ IsGreatest(t.score_max, OkOf(R))
  <2>1. /\ a.score_min \in Extreme /\ a.score_max \in Extreme
        /\ b.score_min \in Extreme /\ b.score_max \in Extreme
    BY DEF ShardState
  <2>2. /\ IsLeast(a.score_min, O) /\ IsLeast(b.score_min, U)
        /\ IsGreatest(a.score_max, O) /\ IsGreatest(b.score_max, U)
    BY <1>1 DEF Describes
  <2>3. PICK la, lb, ga, gb : /\ la = a.score_min /\ lb = b.score_min
                              /\ ga = a.score_max /\ gb = b.score_max
    OBVIOUS
  <2>4. IsLeast(Lesser(la, lb), O \cup U)
    BY <1>2, <2>1, <2>2, <2>3, LeastOfBoth
  <2>5. IsGreatest(Greater(ga, gb), O \cup U)
    BY <1>2, <2>1, <2>2, <2>3, LeastOfBoth
  <2> QED BY <1>2, <1>4, <2>3, <2>4, <2>5
<1>8. \A w \in Workers : t.per_worker[w] = Cardinality({r \in R : r.worker = w})
  <2>1. PICK x \in Counts, y \in Counts : x = a.per_worker /\ y = b.per_worker
    BY DEF ShardState
  <2>2. t.per_worker = [w \in Workers |-> x[w] + y[w]]
    BY <1>4, <2>1 DEF MergeCounts
  <2>3. \A w \in Workers : x[w] \in Nat /\ y[w] \in Nat
    BY DEF Counts
  <2>4. ASSUME NEW w \in Workers
        PROVE  Cardinality({r \in R : r.worker = w}) = x[w] + y[w]
    <3>1. /\ {r \in R : r.worker = w} = {r \in P : r.worker = w} \cup {r \in Q : r.worker = w}
          /\ {r \in P : r.worker = w} \cap {r \in Q : r.worker = w} = {}
      BY <1>1
    <3>2. Cardinality({r \in R : r.worker = w}) =
            Cardinality({r \in P : r.worker = w}) + Cardinality({r \in Q : r.worker = w})
      <4>1. PICK S, T : S = {r \in P : r.worker = w} /\ T = {r \in Q : r.worker = w}
        OBVIOUS
      <4>2. IsFiniteSet(S) /\ IsFiniteSet(T) /\ S \cap T = {}
        BY <1>3, <3>1, <4>1
      <4>3. Cardinality(S \cup T) = Cardinality(S) + Cardinality(T)
        BY <4>2, TogetherCount
      <4> QED BY <3>1, <4>1, <4>3
    <3> QED BY <2>1, <3>2 DEF Describes
  <2> QED BY <2>2, <2>4
<1>9. Lists(t.condition_scores, Awarded, AwardedIn(R))
  <2>1. a.condition_scores \in Breakdowns /\ b.condition_scores \in Breakdowns
    BY DEF ShardState
  <2>2. Lists(a.condition_scores \o b.condition_scores, Awarded, AwardedIn(P) \cup AwardedIn(Q))
    BY <1>2, <2>1, ListsConcat DEF Describes, Breakdowns
  <2> QED BY <1>2, <1>4, <2>2
<1>10. Describes(t, R)
  BY <1>5, <1>6, <1>7, <1>8, <1>9 DEF Describes
<1> QED BY <1>1, <1>10

\* So are their reservoirs, unless one overflowed.
LEMMA SampledTogether ==
  ASSUME NEW a \in ShardState, NEW b \in ShardState,
         NEW P \in SUBSET Results, NEW Q \in SUBSET Results, P \cap Q = {},
         Lists(a.latency_samples, Latency, OkOf(P)), Lists(b.latency_samples, Latency, OkOf(Q))
  PROVE  Lists(Merge2(a, b).latency_samples, Latency, OkOf(P \cup Q))
<1>1. OkOf(P \cup Q) = OkOf(P) \cup OkOf(Q) /\ OkOf(P) \cap OkOf(Q) = {}
  BY DEF OkOf
<1>2. a.latency_samples \in Seq(Nat) /\ b.latency_samples \in Seq(Nat)
  BY DEF ShardState, Latencies
<1>3. Merge2(a, b).latency_samples = a.latency_samples \o b.latency_samples
  BY DEF Merge2
<1>4. PICK xs \in Seq(Nat), ys \in Seq(Nat) : xs = a.latency_samples /\ ys = b.latency_samples
  BY <1>2
<1>5. PICK S, T : S = OkOf(P) /\ T = OkOf(Q)
  OBVIOUS
<1>6. Lists(xs \o ys, Latency, S \cup T)
  BY <1>1, <1>4, <1>5, ListsConcat
<1> QED BY <1>1, <1>3, <1>4, <1>5, <1>6

\* What a shard is done with, of what it was sent.
Worked(i) == SentTo(i) \ Elem(Pending(i))

\* The counters of a live shard are those of the results it is done with, and the
\* summary is drawn from them.
SInv ==
  /\ \A i \in AllShards : alive[i] =>
       Describes(state[i], Worked(i)) /\ Samples(state[i], Worked(i))
  /\ phase = "done" => summary = Summarize(Merged) /\ \A i \in Shards : alive[i]

\* A shard has finitely many results.
LEMMA WorkedFinite ==
  ASSUME AInv, NEW i
  PROVE  Worked(i) \in SUBSET Results /\ IsFiniteSet(Worked(i)) /\ IsFiniteSet(SentTo(i))
<1>1. PICK s \in Seq(Results) : s = sent
  BY DEF AInv, Shape
<1>2. PICK m \in Nat : m = Len(s)
  OBVIOUS
<1>3. IsFiniteSet(Elem(s)) /\ Elem(s) \subseteq Results
  <2>1. IsFiniteSet(1 .. m)
    BY FS_Interval
  <2>2. [k \in 1 .. m |-> s[k]] \in Surjection(1 .. m, Elem(s))
    BY <1>2 DEF Surjection, Elem
  <2>3. IsFiniteSet(Elem(s))
    BY <2>1, <2>2, FS_Surjection
  <2> QED BY <2>3 DEF Elem
<1>4. SentTo(i) \subseteq Elem(s) /\ Worked(i) \subseteq Elem(s)
  BY <1>1 DEF SentTo, Worked
<1> QED BY <1>3, <1>4, FS_Subset

\* Before the first run no shard lives.
LEMMA SummaryInit == Init => SInv
BY DEF Init, SInv

\* A shard that is opened has nothing to count.
LEMMA SummaryStart == StartRun => SInv'
<1> SUFFICES ASSUME StartRun PROVE SInv'
  OBVIOUS
<1>1. /\ phase' = "recording" /\ sent' = << >>
      /\ mailbox' = [i \in AllShards |-> << >>] /\ state' = [i \in AllShards |-> EmptyState]
  BY DEF StartRun
<1>2. Elem(sent') = {}
  <2>1. Len(<< >>) = 0
    OBVIOUS
  <2> QED BY <1>1, <2>1 DEF Elem
<1>3. \A i : Worked(i)' = {}
  BY <1>2 DEF Worked, SentTo
<1>4. ASSUME NEW i \in AllShards
      PROVE  Describes(state'[i], Worked(i)') /\ Samples(state'[i], Worked(i)')
  BY <1>1, <1>3, DescribedNone
<1> QED BY <1>1, <1>4 DEF SInv

\* What a live shard is sent is pending.
LEMMA RecordAdds ==
  ASSUME AInv, RecordBatch, NEW i \in AllShards, alive[i]
  PROVE  Worked(i)' = Worked(i)
<1>1. PICK S \in SUBSET Unrecorded : \E results \in Batches(S) :
        /\ sent' = sent \o results
        /\ mailbox' = [k \in AllShards |->
             IF k \in Shards /\ alive[k] /\ OfShard(results, n, k) # << >>
             THEN Append(mailbox[k], OfShard(results, n, k)) ELSE mailbox[k]]
  BY DEF RecordBatch
<1>2. PICK results \in Batches(S) :
        /\ sent' = sent \o results
        /\ mailbox' = [k \in AllShards |->
             IF k \in Shards /\ alive[k] /\ OfShard(results, n, k) # << >>
             THEN Append(mailbox[k], OfShard(results, n, k)) ELSE mailbox[k]]
  BY <1>1
<1>3. results \in Seq(Results) /\ \A r \in Elem(results) : r.task \in Unrecorded
  BY BatchType, BatchDistinct DEF Unrecorded
<1>4. n' = n /\ i \in Shards
  BY DEF RecordBatch, AInv, Emptied
<1>5. PICK s \in Seq(Results) : s = sent
  BY DEF AInv, Shape
<1>6. Elem(sent') = Elem(sent) \cup Elem(results)
  BY <1>2, <1>3, <1>5, ConcatElem
<1>7. Elem(sent) \cap Elem(results) = {}
  BY <1>3 DEF Elem, Unrecorded
<1>8. PICK mb \in Seq(Seq(Results)), g \in Seq(Results) :
        mb = mailbox[i] /\ g = OfShard(results, n, i)
  BY <1>3, OfShardType DEF AInv, Shape
<1>9. Elem(g) = {r \in Elem(results) : ShardFor(r.task) = i}
  BY <1>3, <1>8, OfShardElem DEF ShardFor
<1>10. SentTo(i)' = SentTo(i) \cup Elem(g)
  BY <1>4, <1>6, <1>9 DEF SentTo, ShardFor
<1>11. Elem(Pending(i)') = Elem(Pending(i)) \cup Elem(g)
  <2>1. CASE g = << >>
    <3>1. Elem(g) = {}
      BY <2>1 DEF Elem
    <3>2. mailbox'[i] = mailbox[i]
      BY <1>2, <1>8, <2>1
    <3> QED BY <3>1, <3>2 DEF Pending
  <2>2. CASE g # << >>
    <3>1. mailbox'[i] = Append(mb, g)
      BY <1>2, <1>4, <1>8, <2>2
    <3>2. FlattenSeq(Append(mb, g)) = FlattenSeq(mb) \o g
      BY FlattenAppend
    <3>3. Elem(FlattenSeq(mb) \o g) = Elem(FlattenSeq(mb)) \cup Elem(g)
      BY FlattenType, ConcatElem
    <3> QED BY <1>8, <3>1, <3>2, <3>3 DEF Pending
  <2> QED BY <2>1, <2>2
<1>12. SentTo(i) \cap Elem(g) = {}
  BY <1>7, <1>9 DEF SentTo
<1> QED BY <1>10, <1>11, <1>12 DEF Worked

\* The result that is ingested is counted.
LEMMA SummaryIngest ==
  ASSUME NEW i \in AllShards
  PROVE  AInv /\ Distinct(sent) /\ RInv /\ SInv /\ Ingest(i) => SInv'
<1> SUFFICES ASSUME AInv, Distinct(sent), RInv, SInv, Ingest(i) PROVE SInv'
  OBVIOUS
<1>1. /\ UNCHANGED <<n, sent, alive, phase>> /\ mailbox[i] # << >>
      /\ mailbox' = [mailbox EXCEPT ![i] = <<Tail(Head(@))>> \o Tail(@)]
  BY DEF Ingest
<1>2. PICK e \in Results, w \in Seq(Results) :
        /\ alive[i] /\ e \in SentTo(i)
        /\ Elem(Pending(i)) = {e} \cup Elem(w) /\ Pending(i)' = w
        /\ \A q \in Elem(w) : q.task # e.task
        /\ \E j \in 0 .. state[i].latency_seen :
             state' = [state EXCEPT ![i] = Ingested(state[i], e, j)]
  BY IngestTakes
<1>3. PICK j \in 0 .. state[i].latency_seen :
         state' = [state EXCEPT ![i] = Ingested(state[i], e, j)]
  BY <1>2
<1>4. PICK st \in ShardState : st = state[i]
  BY DEF RInv
<1>5. j \in Nat
  BY <1>3, <1>4 DEF ShardState
<1>6. PICK nt : nt = Ingested(st, e, j)
  OBVIOUS
<1>7. state'[i] = nt /\ \A k \in AllShards : k # i => state'[k] = state[k]
  BY <1>3, <1>4, <1>6 DEF RInv
<1>8. \A k : SentTo(k)' = SentTo(k)
  BY <1>1 DEF SentTo, ShardFor, Elem
<1>9. Worked(i)' = Worked(i) \cup {e} /\ e \notin Worked(i)
  <2>1. e \notin Elem(w)
    BY <1>2
  <2>2. Elem(Pending(i)') = Elem(w)
    BY <1>2
  <2> QED BY <1>2, <1>8, <2>1, <2>2 DEF Worked
<1>10. Describes(state'[i], Worked(i)') /\ Samples(state'[i], Worked(i)')
  <2>1. Worked(i) \in SUBSET Results /\ IsFiniteSet(Worked(i))
    BY WorkedFinite
  <2>2. Describes(st, Worked(i)) /\ Samples(st, Worked(i))
    BY <1>2, <1>4 DEF SInv
  <2>3. Describes(nt, Worked(i) \cup {e}) /\ Samples(nt, Worked(i) \cup {e})
    <3>1. CASE e.ok
      BY <1>5, <1>6, <1>9, <2>1, <2>2, <3>1, DescribedOk
    <3>2. CASE ~e.ok
      BY <1>5, <1>6, <1>9, <2>1, <2>2, <3>2, DescribedFailed
    <3> QED BY <3>1, <3>2
  <2> QED BY <1>7, <1>9, <2>3
<1>11. ASSUME NEW k \in AllShards, k # i PROVE state'[k] = state[k] /\ Worked(k)' = Worked(k)
  <2>1. mailbox'[k] = mailbox[k]
    BY <1>1, <1>11 DEF AInv, Shape
  <2>2. Pending(k)' = Pending(k)
    BY <2>1 DEF Pending
  <2> QED BY <1>7, <1>8, <1>11, <2>2 DEF Worked
<1>12. phase' # "done"
  <2>1. i \in Shards
    BY <1>2 DEF AInv, Emptied
  <2> QED BY <1>1, <2>1 DEF AInv, Written
<1>13. ASSUME NEW k \in AllShards, alive'[k]
       PROVE  Describes(state'[k], Worked(k)') /\ Samples(state'[k], Worked(k)')
  <2>1. CASE k = i
    BY <1>10, <2>1
  <2>2. CASE k # i
    BY <1>1, <1>11, <1>13, <2>2 DEF SInv
  <2> QED BY <2>1, <2>2
<1> QED BY <1>12, <1>13 DEF SInv

\* A flush or a death counts nothing.
LEMMA SummaryFlush ==
  ASSUME NEW i \in AllShards
  PROVE  AInv /\ SInv /\ (Flush(i) \/ Crash(i)) => SInv'
<1> SUFFICES ASSUME AInv, SInv, Flush(i) \/ Crash(i) PROVE SInv'
  OBVIOUS
<1>1. UNCHANGED <<n, sent, state, phase>>
  BY DEF Flush, Crash
<1>2. \A k : SentTo(k)' = SentTo(k)
  BY <1>1 DEF SentTo, ShardFor, Elem
<1>3. \A k \in AllShards : k # i => Pending(k)' = Pending(k)
  BY DEF Flush, Crash, AInv, Shape, Pending
<1>4. ASSUME NEW k \in AllShards, alive'[k] PROVE alive[k] /\ Pending(k)' = Pending(k)
  <2>1. CASE k # i
    BY <1>3, <1>4, <2>1 DEF Flush, Crash, AInv, Shape
  <2>2. CASE k = i /\ Crash(i)
    BY <1>4, <2>2 DEF Crash, AInv, Shape
  <2>3. CASE k = i /\ Flush(i)
    <3>1. PICK mb \in Seq(Seq(Results)) : mb = mailbox[i] /\ mb # << >> /\ Head(mb) = << >>
      BY <2>3 DEF Flush, AInv, Shape
    <3>2. mailbox'[i] = Tail(mb) /\ Tail(mb) \in Seq(Seq(Results))
      BY <2>3, <3>1, HeadTailProperties DEF Flush, AInv, Shape
    <3>3. PICK q \in Seq(Results) : q = FlattenSeq(Tail(mb))
      BY <3>2, FlattenType
    <3>4. FlattenSeq(mb) = << >> \o q /\ << >> \o q = q
      BY <3>1, <3>3, FlattenHead, NoResults
    <3>5. alive[i]
      BY <1>4, <2>3 DEF Flush
    <3> QED BY <2>3, <3>1, <3>2, <3>3, <3>4, <3>5 DEF Pending
  <2> QED BY <2>1, <2>2, <2>3
<1>5. ASSUME NEW k \in AllShards, alive'[k]
      PROVE  Describes(state'[k], Worked(k)') /\ Samples(state'[k], Worked(k)')
  BY <1>1, <1>2, <1>4, <1>5 DEF SInv, Worked
<1>6. phase' # "done"
  <2>1. CASE Crash(i)
    BY <1>1, <2>1 DEF Crash
  <2>2. CASE Flush(i)
    <3>1. i \in Shards
      BY <2>2 DEF Flush, AInv, Emptied
    <3> QED BY <1>1, <2>2, <3>1 DEF Flush, AInv, Written
  <2> QED BY <2>1, <2>2
<1> QED BY <1>5, <1>6 DEF SInv

\* Every step keeps the counters those of the results.
LEMMA SummaryStep == AInv /\ Distinct(sent) /\ RInv /\ SInv /\ [Next]_vars => SInv'
<1> SUFFICES ASSUME AInv, Distinct(sent), RInv, SInv, [Next]_vars PROVE SInv'
  OBVIOUS
<1>1. CASE StartRun
  BY <1>1, SummaryStart
<1>2. CASE RecordBatch
  <2>1. UNCHANGED <<alive, state>> /\ phase' = "recording"
    BY <1>2 DEF RecordBatch
  <2>2. ASSUME NEW i \in AllShards, alive'[i]
        PROVE  Describes(state'[i], Worked(i)') /\ Samples(state'[i], Worked(i)')
    <3>1. Worked(i)' = Worked(i)
      BY <1>2, <2>1, <2>2, RecordAdds
    <3> QED BY <2>1, <2>2, <3>1 DEF SInv
  <2> QED BY <2>1, <2>2 DEF SInv
<1>3. ASSUME NEW i \in AllShards, Ingest(i) \/ Flush(i) \/ Crash(i) PROVE SInv'
  BY <1>3, SummaryIngest, SummaryFlush
<1>4. CASE Drain \/ Finalize \/ GetSummary \/ Finished \/ UNCHANGED vars
  <2>1. UNCHANGED <<n, sent, state, alive, mailbox>>
    BY <1>4 DEF Drain, Finalize, GetSummary, Finished, vars, shardVars
  <2>2. \A i : Worked(i)' = Worked(i)
    BY <2>1 DEF Worked, SentTo, ShardFor, Elem, Pending
  <2>3. Merged' = Merged /\ Shards' = Shards
    BY <2>1 DEF Merged, Shards
  <2>4. phase' = "done" => summary' = Summarize(Merged)' /\ \A i \in Shards : alive[i]
    <3>1. CASE GetSummary
      BY <2>3, <3>1 DEF GetSummary, AnyDead
    <3>2. CASE Drain \/ Finalize
      BY <3>2 DEF Drain, Finalize
    <3>3. CASE Finished \/ UNCHANGED vars
      BY <2>3, <3>3 DEF Finished, vars, SInv
    <3> QED BY <1>4, <3>1, <3>2, <3>3
  <2> QED BY <2>1, <2>2, <2>3, <2>4 DEF SInv
<1> QED BY <1>1, <1>2, <1>3, <1>4 DEF Next

\* h has what the first shards merge to.
MergesTo(h) ==
  /\ h[0] = EmptyState
  /\ \A m \in 1 .. n : h[m] = Merge2(h[m - 1], state[m])

\* What get_summary merges, one shard at a time.
LEMMA MergedByShard ==
  ASSUME n \in Nat, state \in [AllShards -> ShardState], Shards \subseteq AllShards
  PROVE  \E h \in [0 .. n -> ShardState] : MergesTo(h) /\ Merged = h[n]
<1> DEFINE V == ShardState
           Rule(f) == [s \in SUBSET Shards |->
             IF s = {} THEN EmptyState
             ELSE Merge2(f[s \ {Max(s)}], [i \in Shards |-> state[i]][Max(s)])]
           St == [i \in Shards |-> [v \in V |-> Merge2(v, state[i])]]
           pick == [s \in SUBSET Shards |-> IF s = {} THEN Shards ELSE Max(s)]
           g == CHOOSE f : f = Rule(f)
<1>1. Merged = g[Shards]
  <2>1. DOMAIN [i \in Shards |-> state[i]] = Shards
    OBVIOUS
  <2> QED BY <2>1 DEF Merged, FoldLeft, MapThenFoldSet
<1>2. \A i \in Shards : state[i] \in V
  OBVIOUS
<1>3. St \in [Shards -> [V -> V]]
  <2>1. \A i \in Shards, v \in V : Merge2(v, state[i]) \in V
    BY <1>2, MergeType
  <2> HIDE DEF V
  <2> QED BY <2>1
<1>4. \A s \in SUBSET Shards : s # {} => Max(s) \in s
  BY GreatestOf DEF Shards
<1>5. pick \in [SUBSET Shards -> Shards \cup {Shards}] /\ \A s \in SUBSET Shards : s # {} => pick[s] \in s
  BY <1>4
<1>6. IsFiniteSet(Shards)
  BY FS_Interval DEF Shards
<1>7. EmptyState \in V
  BY EmptyStateType
<1>8. PICK f \in [SUBSET Shards -> V] : FoldsBy(f, EmptyState, St, pick, Shards)
  <2> HIDE DEF V, St, pick
  <2>1. Foldable(Shards, V, EmptyState, St, pick)
    BY <1>3, <1>5, <1>6, <1>7 DEF Foldable
  <2> QED BY <2>1, SetRecursion
<1>9. f = Rule(f)
  <2>1. ASSUME NEW s \in SUBSET Shards PROVE f[s] = Rule(f)[s]
    <3>1. CASE s = {}
      BY <1>8, <3>1 DEF FoldsBy
    <3>2. CASE s # {}
      <4>1. pick[s] = Max(s) /\ Max(s) \in Shards
        BY <1>4, <3>2
      <4>2. f[s] = St[Max(s)][f[s \ {Max(s)}]]
        <5> HIDE DEF St, pick, V
        <5> QED BY <1>8, <3>2, <4>1 DEF FoldsBy
      <4>3. f[s \ {Max(s)}] \in V
        <5> HIDE DEF V
        <5> QED BY <1>8
      <4> HIDE DEF V
      <4> QED BY <3>2, <4>1, <4>2, <4>3
    <3> QED BY <3>1, <3>2
  <2> HIDE DEF V, St, pick
  <2> QED BY <1>8, <2>1
<1>10. g = Rule(g)
  <2> HIDE DEF Rule
  <2> QED BY <1>9
<1>11. \A s \in SUBSET Shards : g[s] =
         IF s = {} THEN EmptyState ELSE Merge2(g[s \ {Max(s)}], [i \in Shards |-> state[i]][Max(s)])
  <2> HIDE DEF g
  <2> QED BY <1>10
<1> HIDE DEF g, Rule, St, pick
<1> DEFINE h == [m \in 0 .. n |-> g[1 .. m]]
<1>12. g[{}] = EmptyState
  BY <1>11
<1>13. ASSUME NEW m \in Nat, m + 1 \in 1 .. n
       PROVE  g[1 .. m + 1] = Merge2(g[1 .. m], state[m + 1])
  <2>1. 1 .. m + 1 \in SUBSET Shards /\ m + 1 \in Shards
    BY <1>13 DEF Shards
  <2> QED BY <1>11, <2>1, LastOf
<1>14. ASSUME NEW m \in 1 .. n PROVE h[m] = Merge2(h[m - 1], state[m])
  <2>1. PICK k \in Nat : m = k + 1
    <3>1. m - 1 \in Nat /\ m = (m - 1) + 1
      OBVIOUS
    <3> QED BY <3>1
  <2>2. m - 1 = k /\ k \in 0 .. n /\ m \in 0 .. n /\ k + 1 \in 1 .. n
    BY <2>1
  <2> QED BY <1>13, <2>1, <2>2
<1>15. h[0] = EmptyState
  <2>1. 1 .. 0 = {} /\ 0 \in 0 .. n
    OBVIOUS
  <2> QED BY <1>12, <2>1
<1>16. h[n] = Merged
  <2>1. n \in 0 .. n
    OBVIOUS
  <2> QED BY <1>1, <2>1 DEF Shards
<1>17. h \in [0 .. n -> ShardState]
  <2> DEFINE T == {m \in Nat : m <= n => h[m] \in ShardState}
  <2> HIDE DEF h
  <2>1. 0 \in T
    BY <1>15, EmptyStateType
  <2>2. ASSUME NEW m \in Nat, m \in T PROVE m + 1 \in T
    <3> SUFFICES ASSUME m + 1 <= n PROVE h[m + 1] \in ShardState
      OBVIOUS
    <3>1. m <= n /\ m + 1 \in 1 .. n /\ (m + 1) - 1 = m
      OBVIOUS
    <3>2. h[m] \in ShardState
      BY <2>2, <3>1
    <3>3. h[m + 1] = Merge2(h[m], state[m + 1])
      BY <1>14, <3>1
    <3>4. state[m + 1] \in ShardState
      BY <1>2, <3>1 DEF Shards
    <3> QED BY <3>2, <3>3, <3>4, MergeType
  <2>3. Nat \subseteq T
    <3> HIDE DEF T
    <3> QED BY <2>1, <2>2, Inductive
  <2>4. \A m \in 0 .. n : h[m] \in ShardState
    BY <2>3
  <2>5. h = [m \in 0 .. n |-> h[m]]
    BY DEF h
  <2> QED BY <2>4, <2>5
<1> HIDE DEF h
<1> QED BY <1>14, <1>15, <1>16, <1>17 DEF MergesTo

\* The results sent to the first m shards.
SentUpTo(m) == {r \in Elem(sent) : ShardFor(r.task) \in 1 .. m}

\* Once the run is done, what the shards merge to counts all the results sent,
\* and samples them unless a reservoir overflowed.
LEMMA MergedDescribed ==
  ASSUME AInv, RInv, SInv, phase = "done"
  PROVE  /\ Merged \in ShardState /\ Describes(Merged, Elem(sent))
         /\ (\A i \in Shards : state[i].latency_seen <= ReservoirCap) =>
              Lists(Merged.latency_samples, Latency, OkOf(Elem(sent)))
<1>1. n \in Nat /\ n # 0 /\ Shards \subseteq AllShards /\ state \in [AllShards -> ShardState]
  BY MostShards DEF AInv, Shape, RInv, AllShards, Shards
<1>2. PICK h \in [0 .. n -> ShardState] : MergesTo(h) /\ Merged = h[n]
  BY <1>1, MergedByShard
<1>3. ASSUME NEW i \in Shards
      PROVE  /\ SentTo(i) \in SUBSET Results /\ IsFiniteSet(SentTo(i))
             /\ Describes(state[i], SentTo(i)) /\ Samples(state[i], SentTo(i))
  <2>1. mailbox[i] = << >>
    BY DEF AInv, Written
  <2>2. Pending(i) = << >> /\ Elem(<< >>) = {}
    <3>1. Len(<< >>) = 0
      OBVIOUS
    <3> QED BY <2>1, <3>1, FlattenNone DEF Pending, Elem
  <2>3. Worked(i) = SentTo(i)
    BY <2>2 DEF Worked
  <2> QED BY <1>1, <2>3, WorkedFinite DEF SInv
<1>4. SentUpTo(0) = {}
  BY DEF SentUpTo
<1>5. ASSUME NEW m \in Nat
      PROVE  /\ SentUpTo(m + 1) = SentUpTo(m) \cup SentTo(m + 1)
             /\ SentUpTo(m) \cap SentTo(m + 1) = {}
  <2>1. \A k : k \in 1 .. m + 1 <=> k \in 1 .. m \/ k = m + 1
    OBVIOUS
  <2>2. m + 1 \notin 1 .. m
    OBVIOUS
  <2> QED BY <2>1, <2>2 DEF SentUpTo, SentTo
<1>6. SentUpTo(n) = Elem(sent)
  <2>1. \A r \in Elem(sent) : r \in Results
    BY DEF AInv, Shape, Elem
  <2>2. \A r \in Elem(sent) : ShardFor(r.task) \in 1 .. n
    BY <1>1, <2>1, IndexInRange DEF Results, ShardFor
  <2> QED BY <2>2 DEF SentUpTo
<1> DEFINE Fits == \A i \in Shards : state[i].latency_seen <= ReservoirCap
           Ok(m) == /\ SentUpTo(m) \in SUBSET Results /\ IsFiniteSet(SentUpTo(m))
                    /\ Describes(h[m], SentUpTo(m))
                    /\ Fits => Lists(h[m].latency_samples, Latency, OkOf(SentUpTo(m)))
           T == {m \in Nat : m <= n => Ok(m)}
<1>7. 0 \in T
  <2>1. h[0] = EmptyState
    BY <1>2 DEF MergesTo
  <2>2. EmptyState.latency_seen <= ReservoirCap
    BY CapAssumption DEF EmptyState
  <2>3. Ok(0)
    BY <1>4, <2>1, <2>2, DescribedNone, FS_EmptySet DEF Samples
  <2> QED BY <2>3
<1>8. ASSUME NEW m \in Nat, m \in T PROVE m + 1 \in T
  <2> SUFFICES ASSUME m + 1 <= n PROVE Ok(m + 1)
    OBVIOUS
  <2>1. m <= n /\ m + 1 \in 1 .. n /\ (m + 1) - 1 = m /\ m \in 0 .. n
    BY <1>1
  <2>2. Ok(m)
    BY <1>8, <2>1
  <2>3. m + 1 \in Shards
    BY <2>1 DEF Shards
  <2>4. h[m] \in ShardState /\ state[m + 1] \in ShardState
    BY <1>1, <2>1, <2>3
  <2>5. h[m + 1] = Merge2(h[m], state[m + 1])
    BY <1>2, <2>1 DEF MergesTo
  <2>6. /\ SentTo(m + 1) \in SUBSET Results /\ IsFiniteSet(SentTo(m + 1))
        /\ Describes(state[m + 1], SentTo(m + 1)) /\ Samples(state[m + 1], SentTo(m + 1))
    BY <1>3, <2>3
  <2>7. PICK P, Q : P = SentUpTo(m) /\ Q = SentTo(m + 1)
    OBVIOUS
  <2>8. SentUpTo(m + 1) = P \cup Q /\ P \cap Q = {}
    BY <1>5, <2>7
  <2>9. IsFiniteSet(P \cup Q) /\ P \cup Q \in SUBSET Results
    BY <2>2, <2>6, <2>7, FS_Union
  <2>10. Describes(h[m + 1], P \cup Q)
    BY <2>2, <2>4, <2>5, <2>6, <2>7, <2>8, DescribedTogether
  <2>11. ASSUME Fits PROVE Lists(h[m + 1].latency_samples, Latency, OkOf(P \cup Q))
    <3>1. Lists(h[m].latency_samples, Latency, OkOf(P))
      BY <2>2, <2>7, <2>11
    <3>2. Lists(state[m + 1].latency_samples, Latency, OkOf(Q))
      BY <2>3, <2>6, <2>7, <2>11 DEF Samples
    <3> QED BY <2>2, <2>4, <2>5, <2>6, <2>7, <2>8, <3>1, <3>2, SampledTogether
  <2> HIDE DEF Fits
  <2> QED BY <2>8, <2>9, <2>10, <2>11
<1>9. n \in T
  <2> HIDE DEF T
  <2> QED BY <1>1, <1>7, <1>8, Inductive
<1>10. h[n] \in ShardState
  BY <1>1, <1>2
<1> HIDE DEF Fits
<1>11. Ok(n)
  BY <1>1, <1>9
<1> QED BY <1>2, <1>6, <1>10, <1>11 DEF Fits

-----------------------------------------------------------------------------
(* From the results to their places in the order they were sent. *)

\* The results at the places of K.
SentAt(K) == {sent[k] : k \in K}

\* As many places as results, and the same sums.
LEMMA PlacesCount ==
  ASSUME Distinct(sent), sent \in Seq(Results), NEW K \in SUBSET (1 .. Len(sent))
  PROVE  /\ IsFiniteSet(K) /\ Cardinality(K) \in Nat /\ Cardinality(SentAt(K)) = Cardinality(K)
         /\ SentAt(K) \in SUBSET Results
         /\ \A j, k \in K : sent[j] = sent[k] => j = k
<1>1. PICK m \in Nat : m = Len(sent)
  OBVIOUS
<1>2. IsFiniteSet(1 .. m)
  BY FS_Interval
<1>3. IsFiniteSet(K) /\ Cardinality(K) \in Nat
  BY <1>1, <1>2, FS_Subset, FS_CardinalityType
<1>4. \A j, k \in K : sent[j] = sent[k] => j = k
  BY DEF Distinct
<1>5. Cardinality(SentAt(K)) = Cardinality(K)
  BY <1>3, <1>4, ImageCount DEF SentAt
<1> QED BY <1>3, <1>4, <1>5 DEF SentAt

\* The places of the results of a kind.
LEMMA PlacesOf ==
  ASSUME sent \in Seq(Results)
  PROVE  /\ Elem(sent) = SentAt(1 .. Len(sent)) /\ OkOf(Elem(sent)) = SentAt(Good)
         /\ Elem(sent) \ OkOf(Elem(sent)) = SentAt((1 .. Len(sent)) \ Good)
         /\ \A w : {r \in Elem(sent) : r.worker = w} = SentAt({k \in 1 .. Len(sent) : sent[k].worker = w})
         /\ Good \in SUBSET (1 .. Len(sent))
BY DEF Elem, SentAt, OkOf, Good

\* What is added over places is the sum of what their results carry.
LEMMA TotalSummed ==
  ASSUME sent \in Seq(Results), Distinct(sent), NEW f \in [TaskIds -> Nat],
         NEW K \in SUBSET (1 .. Len(sent))
  PROVE  Total(f, K) = SumOver([r \in Results |-> f[r.task]], SentAt(K))
<1> DEFINE Rule(u) == [s \in SUBSET K |->
             IF s = {} THEN 0
             ELSE f[sent[CHOOSE x \in s : TRUE].task] + u[s \ {CHOOSE x \in s : TRUE}]]
           h == CHOOSE u : u = Rule(u)
           g == [k \in K |-> f[sent[k].task]]
           fr == [r \in Results |-> f[r.task]]
           b == [k \in K |-> sent[k]]
<1>1. Total(f, K) = h[K]
  BY DEF Total, MapThenSumSet, MapThenFoldSet
<1>2. /\ IsFiniteSet(K) /\ SentAt(K) \in SUBSET Results
      /\ \A j, k \in K : sent[j] = sent[k] => j = k
  BY PlacesCount
<1>3. \A k \in K : sent[k] \in Results /\ sent[k].task \in TaskIds
  <2>1. \A k \in K : sent[k] \in Results
    OBVIOUS
  <2> QED BY <2>1 DEF Results
<1>4. g \in [K -> Nat] /\ fr \in [Results -> Nat] /\ b \in [K -> Results]
  BY <1>3 DEF Results
<1>5. \A s \in SUBSET K : s # {} => g[OneOf(s)] = f[sent[CHOOSE x \in s : TRUE].task]
  BY DEF OneOf
<1>6. \A k \in K : g[k] = fr[b[k]] /\ b[k] = sent[k]
  BY <1>3
<1>7. SentAt(K) = Names(b, K)
  BY DEF SentAt, Names
<1> HIDE DEF g, fr, b
<1>8. \A u : u = Rule(u) <=> FollowsRule(u, g, K)
  <2> TAKE u
  <2> DEFINE R == [s \in SUBSET K |-> IF s = {} THEN 0 ELSE g[OneOf(s)] + u[s \ {OneOf(s)}]]
  <2>1. \A s \in SUBSET K : Rule(u)[s] = R[s]
    BY <1>5 DEF OneOf
  <2>2. Rule(u) = R
    BY <2>1
  <2> QED BY <2>2 DEF FollowsRule
<1>9. FollowsRule(h, g, K)
  <2>1. \E u : u = Rule(u)
    <3> HIDE DEF Rule
    <3> QED BY <1>2, <1>4, <1>8, RuleSum
  <2>2. h = Rule(h)
    <3> HIDE DEF Rule
    <3> QED BY <2>1
  <2> HIDE DEF h
  <2> QED BY <1>8, <2>2
<1> HIDE DEF h
<1>10. h[K] = SumOver(g, K)
  BY <1>2, <1>4, <1>9, RuleSum
<1>11. SumOver(g, K) = SumOver(fr, SentAt(K))
  <2>1. K \in SUBSET K /\ \A x, y \in K : b[x] = b[y] => x = y
    BY <1>2, <1>6
  <2>2. SumOver(g, K) = SumOver(fr, Names(b, K))
    <3>1. \A k \in K : g[k] = fr[b[k]]
      BY <1>6
    <3>2. Renames(b, K, g, Results, fr)
      BY <1>2, <1>4, <2>1, <3>1 DEF Renames
    <3> QED BY <3>2, SumRenamed
  <2> QED BY <1>7, <2>2
<1> QED BY <1>1, <1>10, <1>11 DEF fr

\* What the results of R were awarded for condition c.
AwardOf(c, R) == [r \in R |-> Awarded[r.task][c]]

\* The awards are numbers.
LEMMA AwardType ==
  ASSUME NEW c, NEW R, \A r \in R : r \in Results /\ c \in DOMAIN Awarded[r.task]
  PROVE  AwardOf(c, R) \in [R -> Nat]
<1>1. \A r \in R : Awarded[r.task][c] \in Nat
  BY DataAssumption DEF Results
<1> QED BY <1>1 DEF AwardOf

\* The awards added over the places of the results that have the condition.
LEMMA AwardTotalSummed ==
  ASSUME sent \in Seq(Results), Distinct(sent), NEW c,
         NEW K, K = {k \in Good : c \in DOMAIN Awarded[sent[k].task]},
         NEW R, R = {r \in OkOf(Elem(sent)) : c \in DOMAIN Awarded[r.task]}
  PROVE  /\ AwardTotal(c, K) = SumOver(AwardOf(c, R), R)
         /\ R = SentAt(K)
<1> DEFINE Rule(u) == [s \in SUBSET K |->
             IF s = {} THEN 0
             ELSE Awarded[sent[CHOOSE x \in s : TRUE].task][c] + u[s \ {CHOOSE x \in s : TRUE}]]
           h == CHOOSE u : u = Rule(u)
           g == [k \in K |-> Awarded[sent[k].task][c]]
           b == [k \in K |-> sent[k]]
<1>1. AwardTotal(c, K) = h[K]
  BY DEF AwardTotal, MapThenSumSet, MapThenFoldSet
<1>2. /\ IsFiniteSet(K) /\ \A j, k \in K : sent[j] = sent[k] => j = k
      /\ \A k \in K : sent[k] \in R
  <2>1. K \in SUBSET (1 .. Len(sent)) /\ Good \in SUBSET (1 .. Len(sent))
    BY DEF Good
  <2> QED BY <2>1, PlacesCount, PlacesOf DEF SentAt
<1>3. R = SentAt(K) /\ R = {sent[k] : k \in K}
  BY PlacesOf DEF SentAt
<1>4. /\ g \in [K -> Nat] /\ AwardOf(c, R) \in [R -> Nat] /\ b \in [K -> R]
      /\ \A x, y \in K : b[x] = b[y] => x = y
  <2>1. R \subseteq Results
    BY PlacesOf, PlacesCount
  <2>2. AwardOf(c, R) \in [R -> Nat]
    BY <2>1, AwardType
  <2>3. \A k \in K : Awarded[sent[k].task][c] \in Nat
    BY <1>2, <2>2 DEF AwardOf
  <2> QED BY <1>2, <2>2, <2>3
<1>5. \A s \in SUBSET K : s # {} => g[OneOf(s)] = Awarded[sent[CHOOSE x \in s : TRUE].task][c]
  BY DEF OneOf
<1>6. \A k \in K : g[k] = AwardOf(c, R)[b[k]]
  BY <1>2 DEF AwardOf
<1>7. Renames(b, K, g, R, AwardOf(c, R)) /\ IsFiniteSet(K) /\ g \in [K -> Nat]
  <2> HIDE DEF g
  <2> QED BY <1>2, <1>4, <1>6 DEF Renames
<1>8. Names(b, K) = R
  BY <1>3 DEF Names
<1> HIDE DEF g, b
<1>9. \A u : u = Rule(u) <=> FollowsRule(u, g, K)
  <2> TAKE u
  <2> DEFINE F == [s \in SUBSET K |-> IF s = {} THEN 0 ELSE g[OneOf(s)] + u[s \ {OneOf(s)}]]
  <2>1. \A s \in SUBSET K : Rule(u)[s] = F[s]
    BY <1>5 DEF OneOf
  <2>2. Rule(u) = F
    BY <2>1
  <2> QED BY <2>2 DEF FollowsRule
<1>10. FollowsRule(h, g, K)
  <2>1. \E u : u = Rule(u)
    <3> HIDE DEF Rule
    <3> QED BY <1>7, <1>9, RuleSum
  <2>2. h = Rule(h)
    <3> HIDE DEF Rule
    <3> QED BY <2>1
  <2> HIDE DEF h
  <2> QED BY <1>9, <2>2
<1> HIDE DEF h
<1>11. h[K] = SumOver(g, K)
  BY <1>7, <1>10, RuleSum
<1>12. SumOver(g, K) = SumOver(AwardOf(c, R), R)
  <2>1. PICK a : a = AwardOf(c, R)
    OBVIOUS
  <2>2. Renames(b, K, g, R, a)
    BY <1>7, <2>1
  <2>3. SumOver(g, K) = SumOver(a, Names(b, K))
    BY <2>2, SumRenamed
  <2> QED BY <1>8, <2>1, <2>3
<1> QED BY <1>1, <1>3, <1>11, <1>12

\* How many of the breakdowns at K, and of the results of R, were awarded c.
PassedIn(bs, c, K) == Cardinality({k \in K : bs[k][c] > 0})
PassedOf(c, R) == Cardinality({r \in R : Awarded[r.task][c] > 0})

\* The awards added over the breakdowns that have the condition.
LEMMA AwardSumSummed ==
  ASSUME NEW V, NEW bs \in Seq(V), NEW p, NEW Q \in SUBSET Results, ListsBy(p, bs, Awarded, Q),
         NEW c, NEW K, K = {k \in DOMAIN bs : c \in DOMAIN bs[k]},
         NEW R, R = {r \in Q : c \in DOMAIN Awarded[r.task]}
  PROVE  /\ AwardSum(bs, c, K) = SumOver(AwardOf(c, R), R)
         /\ IsFiniteSet(K) /\ Cardinality(K) = Cardinality(R)
         /\ PassedIn(bs, c, K) = PassedOf(c, R)
<1> DEFINE Rule(u) == [s \in SUBSET K |->
             IF s = {} THEN 0
             ELSE bs[CHOOSE x \in s : TRUE][c] + u[s \ {CHOOSE x \in s : TRUE}]]
           h == CHOOSE u : u = Rule(u)
           g == [k \in K |-> bs[k][c]]
           b == [k \in K |-> p[k]]
<1>1. AwardSum(bs, c, K) = h[K]
  BY DEF AwardSum, MapThenSumSet, MapThenFoldSet
<1>2. /\ IsFiniteSet(K) /\ \A j, k \in K : p[j] = p[k] => j = k
      /\ \A k \in K : p[k] \in R /\ bs[k] = Awarded[p[k].task]
  <2>1. PICK m \in Nat : m = Len(bs) /\ DOMAIN bs = 1 .. m
    OBVIOUS
  <2>2. IsFiniteSet(1 .. m) /\ K \subseteq 1 .. m
    BY <2>1, FS_Interval
  <2>3. IsFiniteSet(K)
    BY <2>2, FS_Subset
  <2>4. \A k \in K : p[k] \in Q /\ bs[k] = Awarded[p[k].task] /\ c \in DOMAIN bs[k]
    BY <2>1 DEF ListsBy
  <2> QED BY <2>1, <2>2, <2>3, <2>4 DEF ListsBy
<1>3. R = {p[k] : k \in K}
  <2>1. DOMAIN bs = 1 .. Len(bs)
    OBVIOUS
  <2>2. \A r \in R : \E k \in K : p[k] = r
    BY <2>1 DEF ListsBy
  <2> QED BY <1>2, <2>2
<1>4. /\ g \in [K -> Nat] /\ AwardOf(c, R) \in [R -> Nat] /\ b \in [K -> R]
      /\ \A x, y \in K : b[x] = b[y] => x = y
  <2>1. AwardOf(c, R) \in [R -> Nat]
    BY AwardType
  <2>2. \A k \in K : bs[k][c] \in Nat
    BY <1>2, <2>1 DEF AwardOf
  <2> QED BY <1>2, <2>1, <2>2
<1>5. \A s \in SUBSET K : s # {} => g[OneOf(s)] = bs[CHOOSE x \in s : TRUE][c]
  BY DEF OneOf
<1>6. \A k \in K : g[k] = AwardOf(c, R)[b[k]]
  BY <1>2 DEF AwardOf
<1>7. Renames(b, K, g, R, AwardOf(c, R)) /\ IsFiniteSet(K) /\ g \in [K -> Nat]
  <2> HIDE DEF g
  <2> QED BY <1>2, <1>4, <1>6 DEF Renames
<1>8. Names(b, K) = R
  BY <1>3 DEF Names
<1> HIDE DEF g, b
<1>9. \A u : u = Rule(u) <=> FollowsRule(u, g, K)
  <2> TAKE u
  <2> DEFINE F == [s \in SUBSET K |-> IF s = {} THEN 0 ELSE g[OneOf(s)] + u[s \ {OneOf(s)}]]
  <2>1. \A s \in SUBSET K : Rule(u)[s] = F[s]
    BY <1>5 DEF OneOf
  <2>2. Rule(u) = F
    BY <2>1
  <2> QED BY <2>2 DEF FollowsRule
<1>10. FollowsRule(h, g, K)
  <2>1. \E u : u = Rule(u)
    <3> HIDE DEF Rule
    <3> QED BY <1>7, <1>9, RuleSum
  <2>2. h = Rule(h)
    <3> HIDE DEF Rule
    <3> QED BY <2>1
  <2> HIDE DEF h
  <2> QED BY <1>9, <2>2
<1> HIDE DEF h
<1>11. h[K] = SumOver(g, K)
  BY <1>7, <1>10, RuleSum
<1>12. SumOver(g, K) = SumOver(AwardOf(c, R), R)
  <2>1. PICK a : a = AwardOf(c, R)
    OBVIOUS
  <2>2. Renames(b, K, g, R, a)
    BY <1>7, <2>1
  <2>3. SumOver(g, K) = SumOver(a, Names(b, K))
    BY <2>2, SumRenamed
  <2> QED BY <1>8, <2>1, <2>3
<1>13. Cardinality(K) = Cardinality(R)
  BY <1>2, <1>3, ImageCount
<1>14. Cardinality({k \in K : bs[k][c] > 0}) = Cardinality({r \in R : Awarded[r.task][c] > 0})
  <2>1. PICK S : S = {k \in K : bs[k][c] > 0}
    OBVIOUS
  <2>2. IsFiniteSet(S) /\ \A j, k \in S : p[j] = p[k] => j = k
    BY <1>2, <2>1, FS_Subset
  <2>3. {p[k] : k \in S} = {r \in R : Awarded[r.task][c] > 0}
    BY <1>2, <1>3, <2>1
  <2>4. Cardinality({p[k] : k \in S}) = Cardinality(S)
    BY <2>2, ImageCount
  <2> QED BY <2>1, <2>3, <2>4
<1> QED BY <1>1, <1>2, <1>11, <1>12, <1>13, <1>14 DEF PassedIn, PassedOf

\* More than the index read do not exceed it just when Rank percent do not.
LEMMA RankReached ==
  ASSUME Rank > 0, NEW k \in Nat, k # 0, NEW c \in Nat
  PROVE  c > NearestRank(k) <=> c * 100 >= Rank * k
<1>1. PICK p \in Nat : p = Rank * k /\ p >= 1 /\ p <= 100 * k
  <2>1. Rank \in Nat /\ Rank >= 1 /\ Rank <= 100
    BY RankAssumption
  <2>2. \A r \in Nat, m \in Nat : r >= 1 /\ r <= 100 /\ m >= 1 =>
          r * m \in Nat /\ r * m >= 1 /\ r * m <= 100 * m
    OBVIOUS
  <2> QED BY <2>1, <2>2
<1>2. PICK q \in Int : q = (p + 99) \div 100
  OBVIOUS
<1>3. 100 * q <= p + 99 /\ p + 99 < 100 * q + 100
  BY <1>2
<1>4. q >= 1 /\ q <= k
  BY <1>1, <1>3
<1>5. Max({0, q - 1}) = q - 1
  BY <1>4, GreatestIs
<1>6. Min({k - 1, q - 1}) = q - 1
  BY <1>4, LeastIs
<1>7. NearestRank(k) = q - 1
  BY <1>1, <1>2, <1>5, <1>6 DEF NearestRank
<1>8. c > q - 1 <=> c * 100 >= p
  BY <1>3, <1>4
<1> QED BY <1>1, <1>7, <1>8

\* How many of the listed values, and of the results, do not exceed v.
ListedUpTo(xs, v) == Cardinality({m \in 1 .. Len(xs) : xs[m] <= v})
ResultsUpTo(Q, f, v) == Cardinality({r \in Q : f[r.task] <= v})

\* A list has the values of what it lists, each as often.
LEMMA ListedValues ==
  ASSUME NEW V, NEW xs \in Seq(V), NEW f, NEW Q, Lists(xs, f, Q)
  PROVE  /\ ToSet(xs) = {f[r.task] : r \in Q}
         /\ \A v : ListedUpTo(xs, v) = ResultsUpTo(Q, f, v)
<1>1. PICK g : ListsBy(g, xs, f, Q)
  BY DEF Lists
<1>2. PICK l \in Nat : l = Len(xs) /\ DOMAIN xs = 1 .. l
  OBVIOUS
<1>3. /\ \A k \in 1 .. l : g[k] \in Q /\ xs[k] = f[g[k].task]
      /\ \A r \in Q : \E k \in 1 .. l : g[k] = r
      /\ \A j, k \in 1 .. l : g[j] = g[k] => j = k
  BY <1>1, <1>2 DEF ListsBy
<1>4. ToSet(xs) = {f[r.task] : r \in Q}
  BY <1>2, <1>3 DEF ToSet
<1>5. ASSUME NEW v
      PROVE  Cardinality({m \in 1 .. l : xs[m] <= v}) = Cardinality({r \in Q : f[r.task] <= v})
  <2>1. PICK S : S = {m \in 1 .. l : xs[m] <= v}
    OBVIOUS
  <2>2. IsFiniteSet(1 .. l) /\ S \subseteq 1 .. l
    BY <2>1, FS_Interval
  <2>3. IsFiniteSet(S)
    BY <2>2, FS_Subset
  <2>4. \A j, k \in S : g[j] = g[k] => j = k
    BY <1>3, <2>1
  <2>5. Cardinality({g[m] : m \in S}) = Cardinality(S)
    BY <2>3, <2>4, ImageCount
  <2>6. {g[m] : m \in S} = {r \in Q : f[r.task] <= v}
    BY <1>3, <2>1
  <2> QED BY <2>1, <2>5, <2>6
<1> QED BY <1>2, <1>4, <1>5 DEF ListedUpTo, ResultsUpTo

\* The percentile of a list of latencies.
LEMMA PercentileIs ==
  ASSUME Rank > 0, NEW xs \in Seq(Nat), NEW Q, Q # {}, Lists(xs, Latency, Q)
  PROVE  Percentile(xs) =
           Min({v \in {Latency[r.task] : r \in Q} :
                  Cardinality({r \in Q : Latency[r.task] <= v}) * 100 >= Rank * Cardinality(Q)})
<1>1. IsFiniteSet(Q) /\ Cardinality(Q) = Len(xs)
  BY ListsLength
<1>2. PICK k \in Nat : k = Len(xs) /\ k = Cardinality(Q) /\ k # 0
  <2>1. Cardinality(Q) \in Nat /\ Cardinality(Q) # 0
    BY <1>1, FS_CardinalityType, FS_EmptySet
  <2> QED BY <1>1, <2>1
<1>3. xs # << >>
  BY <1>2
<1>4. Percentile(xs) = Sorted(xs, NearestRank(k))
  BY <1>2, <1>3 DEF Percentile
<1> DEFINE A == {v \in ToSet(xs) : Cardinality({m \in 1 .. Len(xs) : xs[m] <= v}) > NearestRank(k)}
           B == {v \in {Latency[r.task] : r \in Q} :
                  Cardinality({r \in Q : Latency[r.task] <= v}) * 100 >= Rank * Cardinality(Q)}
<1>5. A = B
  <2>0. \A v : ListedUpTo(xs, v) = ResultsUpTo(Q, Latency, v)
    BY ListedValues
  <2>1. ASSUME NEW v
        PROVE  Cardinality({m \in 1 .. Len(xs) : xs[m] <= v}) > NearestRank(k) <=>
               Cardinality({r \in Q : Latency[r.task] <= v}) * 100 >= Rank * Cardinality(Q)
    <3>1. PICK c \in Nat : c = Cardinality({r \in Q : Latency[r.task] <= v})
      <4>1. {r \in Q : Latency[r.task] <= v} \subseteq Q
        OBVIOUS
      <4> QED BY <1>1, <4>1, FS_Subset, FS_CardinalityType
    <3>2. Cardinality({m \in 1 .. Len(xs) : xs[m] <= v}) = c
      BY <2>0, <3>1 DEF ListedUpTo, ResultsUpTo
    <3>3. c > NearestRank(k) <=> c * 100 >= Rank * k
      BY <1>2, RankReached
    <3> QED BY <1>2, <3>1, <3>2, <3>3
  <2>2. ToSet(xs) = {Latency[r.task] : r \in Q}
    BY ListedValues
  <2> QED BY <2>1, <2>2
<1> HIDE DEF B
<1>6. Sorted(xs, NearestRank(k)) = Min(A)
  BY DEF Sorted
<1> HIDE DEF A
<1> QED BY <1>4, <1>5, <1>6 DEF B

\* The counts of a summary that are of the results sent.
CountsHold ==
  /\ summary.total = Len(sent)
  /\ summary.succeeded = Cardinality(Good)
  /\ summary.failed = Len(sent) - Cardinality(Good)
  /\ \A w \in Workers : summary.per_worker_counts[w] =
       Cardinality({k \in 1 .. Len(sent) : sent[k].worker = w})

\* The means and extremes that are.
MeasuresHold ==
  Good # {} =>
    /\ summary.mean_score = <<Total(Score, Good), Cardinality(Good)>>
    /\ summary.mean_latency_s = <<Total(Latency, Good), Cardinality(Good)>>
    /\ summary.min_score = Min(Scores) /\ summary.max_score = Max(Scores)

\* The condition statistics that are.
ConditionsHold ==
  /\ DOMAIN summary.condition_stats = UNION {DOMAIN Awarded[sent[k].task] : k \in Good}
  /\ \A c \in DOMAIN summary.condition_stats :
       LET Having == {k \in Good : c \in DOMAIN Awarded[sent[k].task]}
           Passed == {k \in Having : Awarded[sent[k].task][c] > 0}
       IN  summary.condition_stats[c] =
             [mean_awarded |-> <<AwardTotal(c, Having), Cardinality(Having)>>,
              pass_rate |-> <<Cardinality(Passed), Cardinality(Having)>>]

\* The counts.
LEMMA SummaryCounts ==
  ASSUME sent \in Seq(Results), Distinct(sent), NEW s \in ShardState,
         Describes(s, Elem(sent)), summary = Summarize(s)
  PROVE  CountsHold
<1>1. PICK m \in Nat : m = Len(sent)
  OBVIOUS
<1>2. /\ summary.total = s.count /\ summary.succeeded = s.succeeded
      /\ summary.failed = s.failed /\ summary.per_worker_counts = s.per_worker
  BY DEF Summarize
<1>3. /\ Good \in SUBSET (1 .. m) /\ Elem(sent) = SentAt(1 .. m) /\ OkOf(Elem(sent)) = SentAt(Good)
      /\ Elem(sent) \ OkOf(Elem(sent)) = SentAt((1 .. m) \ Good)
      /\ \A w : {r \in Elem(sent) : r.worker = w} = SentAt({k \in 1 .. m : sent[k].worker = w})
  BY <1>1, PlacesOf
<1>4. IsFiniteSet(1 .. m) /\ Cardinality(1 .. m) = m
  BY FS_Interval
<1>5. /\ Cardinality(SentAt(1 .. m)) = m
      /\ Cardinality(SentAt(Good)) = Cardinality(Good)
      /\ Cardinality(SentAt((1 .. m) \ Good)) = Cardinality((1 .. m) \ Good)
  <2>1. 1 .. m \in SUBSET (1 .. m) /\ (1 .. m) \ Good \in SUBSET (1 .. m)
    OBVIOUS
  <2> QED BY <1>1, <1>3, <1>4, <2>1, PlacesCount
<1>6. Cardinality((1 .. m) \ Good) = m - Cardinality(Good)
  <2>1. IsFiniteSet(Good) /\ IsFiniteSet((1 .. m) \ Good)
    BY <1>3, <1>4, FS_Subset
  <2>2. PICK G, B : G = Good /\ B = (1 .. m) \ Good
    OBVIOUS
  <2>3. G \cup B = 1 .. m /\ G \cap B = {}
    BY <1>3, <2>2
  <2>4. /\ Cardinality(G) \in Nat /\ Cardinality(B) \in Nat
        /\ Cardinality(1 .. m) = Cardinality(G) + Cardinality(B)
    BY <2>1, <2>2, <2>3, TogetherCount
  <2> QED BY <1>4, <2>2, <2>4
<1>7. ASSUME NEW w \in Workers
      PROVE  summary.per_worker_counts[w] = Cardinality({k \in 1 .. m : sent[k].worker = w})
  <2>1. PICK K : K = {k \in 1 .. m : sent[k].worker = w}
    OBVIOUS
  <2>2. Cardinality(SentAt(K)) = Cardinality(K)
    BY <1>1, <2>1, PlacesCount
  <2> QED BY <1>2, <1>3, <2>1, <2>2 DEF Describes
<1> QED BY <1>1, <1>2, <1>3, <1>5, <1>6, <1>7 DEF CountsHold, Describes

\* The means and extremes.
LEMMA SummaryMeasures ==
  ASSUME sent \in Seq(Results), Distinct(sent), NEW s \in ShardState,
         Describes(s, Elem(sent)), summary = Summarize(s)
  PROVE  MeasuresHold
<1> SUFFICES ASSUME Good # {}
             PROVE  /\ summary.mean_score = <<Total(Score, Good), Cardinality(Good)>>
                    /\ summary.mean_latency_s = <<Total(Latency, Good), Cardinality(Good)>>
                    /\ summary.min_score = Min(Scores) /\ summary.max_score = Max(Scores)
  BY DEF MeasuresHold
<1>1. PICK R : R = OkOf(Elem(sent)) /\ R = SentAt(Good)
  BY PlacesOf
<1>2. /\ summary.mean_score = Mean(s.score_sum, s.succeeded)
      /\ summary.mean_latency_s = Mean(s.latency_sum, s.succeeded)
      /\ summary.min_score = IF s.score_min.set THEN s.score_min.v ELSE 0
      /\ summary.max_score = IF s.score_max.set THEN s.score_max.v ELSE 0
  BY DEF Summarize
<1>3. /\ Good \in SUBSET (1 .. Len(sent)) /\ IsFiniteSet(Good) /\ Cardinality(Good) \in Nat
      /\ R \in SUBSET Results
      /\ Cardinality(R) = Cardinality(Good)
  BY <1>1, PlacesOf, PlacesCount
<1>4. Cardinality(Good) > 0
  <2>1. Cardinality(Good) # 0
    BY <1>3, FS_EmptySet
  <2> QED BY <1>3, <2>1
<1>5. s.succeeded = Cardinality(Good)
  BY <1>1, <1>3 DEF Describes
<1>6. s.score_sum = Total(Score, Good) /\ s.latency_sum = Total(Latency, Good)
  <2>1. Score \in [TaskIds -> Nat] /\ Latency \in [TaskIds -> Nat]
    BY DataAssumption
  <2>2. Total(Score, Good) = SumOver(ScoreOf, R)
    BY <1>1, <1>3, <2>1, TotalSummed DEF ScoreOf
  <2>3. Total(Latency, Good) = SumOver(LatencyOf, R)
    BY <1>1, <1>3, <2>1, TotalSummed DEF LatencyOf
  <2> QED BY <1>1, <2>2, <2>3 DEF Describes
<1>7. Scores = {Score[r.task] : r \in R} /\ R # {}
  BY <1>1 DEF Scores, SentAt
<1>8. \A r \in R : Score[r.task] \in Nat
  BY <1>3, DataAssumption DEF Results
<1>9. Scores \in SUBSET Int
  BY <1>7, <1>8
<1>10. s.score_min.set /\ s.score_min.v = Min(Scores)
  <2>1. PICK e : e = s.score_min
    OBVIOUS
  <2>2. e.set /\ e.v \in Scores /\ \A y \in Scores : e.v <= y
    BY <1>1, <1>7, <2>1 DEF Describes, IsLeast
  <2>3. Min(Scores) = e.v
    BY <1>9, <2>2, LeastIs
  <2> QED BY <2>1, <2>2, <2>3
<1>11. s.score_max.set /\ s.score_max.v = Max(Scores)
  <2>1. PICK e : e = s.score_max
    OBVIOUS
  <2>2. e.set /\ e.v \in Scores /\ \A y \in Scores : y <= e.v
    BY <1>1, <1>7, <2>1 DEF Describes, IsGreatest
  <2>3. Max(Scores) = e.v
    BY <1>9, <2>2, GreatestIs
  <2> QED BY <2>1, <2>2, <2>3
<1> QED BY <1>2, <1>4, <1>5, <1>6, <1>10, <1>11 DEF Mean

\* The condition statistics.
LEMMA SummaryConditions ==
  ASSUME sent \in Seq(Results), Distinct(sent), NEW s \in ShardState,
         Describes(s, Elem(sent)), summary = Summarize(s)
  PROVE  ConditionsHold
<1>1. PICK bs \in Seq({Awarded[t] : t \in TaskIds}) : bs = s.condition_scores
  BY DEF ShardState, Breakdowns
<1>2. PICK Q : Q = AwardedIn(Elem(sent))
  OBVIOUS
<1>3. PICK p : ListsBy(p, bs, Awarded, Q)
  BY <1>1, <1>2 DEF Describes, Lists
<1>4. Q \in SUBSET Results
  <2>1. Elem(sent) \in SUBSET Results
    BY DEF Elem
  <2> QED BY <1>2, <2>1 DEF AwardedIn
<1>5. summary.condition_stats = ConditionStats(bs)
  BY <1>1 DEF Summarize
<1>6. DOMAIN bs = 1 .. Len(bs)
  BY <1>1
<1>7. /\ \A k \in DOMAIN bs : p[k] \in Q /\ bs[k] = Awarded[p[k].task]
      /\ \A r \in Q : \E k \in DOMAIN bs : p[k] = r
  BY <1>3, <1>6 DEF ListsBy
<1>8. DOMAIN summary.condition_stats = UNION {DOMAIN bs[k] : k \in DOMAIN bs}
  BY <1>5 DEF ConditionStats
<1>9. /\ \A k \in Good : DOMAIN Awarded[sent[k].task] # {} => sent[k] \in Q
      /\ \A r \in Q : \E k \in Good : sent[k] = r
  BY <1>2 DEF AwardedIn, Good, Elem
<1>10. DOMAIN summary.condition_stats = UNION {DOMAIN Awarded[sent[k].task] : k \in Good}
  <2>1. ASSUME NEW k \in DOMAIN bs, NEW c \in DOMAIN bs[k]
        PROVE  \E j \in Good : c \in DOMAIN Awarded[sent[j].task]
    <3>1. PICK r \in Q : r = p[k] /\ bs[k] = Awarded[r.task]
      BY <1>7
    <3>2. PICK j \in Good : sent[j] = r
      BY <1>9
    <3> QED BY <3>1, <3>2
  <2>2. ASSUME NEW j \in Good, NEW c \in DOMAIN Awarded[sent[j].task]
        PROVE  \E k \in DOMAIN bs : c \in DOMAIN bs[k]
    <3>1. PICK r \in Q : r = sent[j]
      BY <1>9
    <3>2. PICK k \in DOMAIN bs : p[k] = r
      BY <1>7
    <3>3. bs[k] = Awarded[r.task]
      BY <1>7, <3>2
    <3> QED BY <3>1, <3>3
  <2>3. UNION {DOMAIN bs[k] : k \in DOMAIN bs} = UNION {DOMAIN Awarded[sent[j].task] : j \in Good}
    BY <2>1, <2>2
  <2> QED BY <1>8, <2>3
<1>11. ASSUME NEW c \in DOMAIN summary.condition_stats
       PROVE  LET Having == {k \in Good : c \in DOMAIN Awarded[sent[k].task]}
                  Passed == {k \in Having : Awarded[sent[k].task][c] > 0}
              IN  summary.condition_stats[c] =
                    [mean_awarded |-> <<AwardTotal(c, Having), Cardinality(Having)>>,
                     pass_rate |-> <<Cardinality(Passed), Cardinality(Having)>>]
  <2>1. PICK K : K = {k \in DOMAIN bs : c \in DOMAIN bs[k]}
    OBVIOUS
  <2>2. PICK H : H = {k \in Good : c \in DOMAIN Awarded[sent[k].task]}
    OBVIOUS
  <2>3. PICK R : /\ R = {r \in Q : c \in DOMAIN Awarded[r.task]}
                 /\ R = {r \in OkOf(Elem(sent)) : c \in DOMAIN Awarded[r.task]}
    BY <1>2 DEF AwardedIn, OkOf
  <2>4. summary.condition_stats[c] =
          [mean_awarded |-> Mean(AwardSum(bs, c, K), Cardinality(K)),
           pass_rate |-> Mean(Cardinality({k \in K : bs[k][c] > 0}), Cardinality(K))]
    BY <1>5, <1>8, <2>1 DEF ConditionStats
  <2>5. /\ AwardSum(bs, c, K) = SumOver(AwardOf(c, R), R)
        /\ IsFiniteSet(K) /\ Cardinality(K) = Cardinality(R)
        /\ PassedIn(bs, c, K) = PassedOf(c, R)
    BY <1>3, <1>4, <2>1, <2>3, AwardSumSummed
  <2>6. AwardTotal(c, H) = SumOver(AwardOf(c, R), R) /\ R = SentAt(H)
    BY <2>2, <2>3, AwardTotalSummed
  <2>7. PICK P : P = {k \in H : Awarded[sent[k].task][c] > 0}
    OBVIOUS
  <2>8. H \in SUBSET (1 .. Len(sent)) /\ P \in SUBSET (1 .. Len(sent))
    BY <2>2, <2>7 DEF Good
  <2>9. Cardinality(SentAt(H)) = Cardinality(H) /\ Cardinality(SentAt(P)) = Cardinality(P)
    BY <2>8, PlacesCount
  <2>10. SentAt(P) = {r \in R : Awarded[r.task][c] > 0}
    BY <2>6, <2>7 DEF SentAt
  <2>11. Cardinality(K) > 0
    <3>1. K # {}
      BY <1>8, <2>1
    <3>2. Cardinality(K) \in Nat /\ Cardinality(K) # 0
      BY <2>5, <3>1, FS_CardinalityType, FS_EmptySet
    <3> QED BY <3>2
  <2>12. summary.condition_stats[c] =
           [mean_awarded |-> <<AwardTotal(c, H), Cardinality(H)>>,
            pass_rate |-> <<Cardinality(P), Cardinality(H)>>]
    BY <2>4, <2>5, <2>6, <2>9, <2>10, <2>11 DEF Mean, PassedIn, PassedOf
  <2> QED BY <2>2, <2>7, <2>12
<1> QED BY <1>10, <1>11 DEF ConditionsHold

\* The summary, sharded or not, is that of the results sent: its counts, extremes
\* and means, and what each condition was awarded (get_summary, _merge_states,
\* _summarize_state, aggregate_condition_scores).
THEOREM SummaryTheorem == Spec => []SummaryIsOfResults
<1>1. Init => Distinct(sent)
  <2>1. Len(<< >>) = 0
    OBVIOUS
  <2> QED BY <2>1 DEF Init, Distinct
<1>2. AInv /\ Distinct(sent) /\ [Next]_vars => Distinct(sent)'
  BY SentOnceStep DEF Distinct
<1>3. AInv /\ Distinct(sent) /\ RInv /\ SInv => SummaryIsOfResults
  <2> SUFFICES ASSUME AInv, Distinct(sent), RInv, SInv, phase = "done"
               PROVE  CountsHold /\ MeasuresHold /\ ConditionsHold
    BY DEF SummaryIsOfResults, CountsHold, MeasuresHold, ConditionsHold
  <2>1. sent \in Seq(Results) /\ summary = Summarize(Merged)
    BY DEF AInv, Shape, SInv
  <2>2. Merged \in ShardState /\ Describes(Merged, Elem(sent))
    BY MergedDescribed
  <2> QED BY <2>1, <2>2, SummaryCounts, SummaryMeasures, SummaryConditions
<1> QED BY <1>1, <1>2, <1>3, AggregatorInvariant, ReservoirInit, ReservoirStep,
           SummaryInit, SummaryStep, PTL DEF Spec

\* The percentile reported is the nearest-rank one of all successful results, as
\* long as no reservoir overflowed (_percentile, _reservoir_append).
THEOREM PercentileTheorem == Spec => []PercentileIsNearestRank
<1>1. Init => Distinct(sent)
  <2>1. Len(<< >>) = 0
    OBVIOUS
  <2> QED BY <2>1 DEF Init, Distinct
<1>2. AInv /\ Distinct(sent) /\ [Next]_vars => Distinct(sent)'
  BY SentOnceStep DEF Distinct
<1>3. AInv /\ Distinct(sent) /\ RInv /\ SInv => PercentileIsNearestRank
  <2> SUFFICES ASSUME AInv, Distinct(sent), RInv, SInv, phase = "done", Good # {}, Rank > 0,
                      \A i \in Shards : state[i].latency_seen <= ReservoirCap
               PROVE  summary.percentile_s =
                        Min({v \in {Latency[sent[k].task] : k \in Good} :
                               AtMost(v) * 100 >= Rank * Cardinality(Good)})
    BY DEF PercentileIsNearestRank
  <2>1. sent \in Seq(Results) /\ summary = Summarize(Merged)
    BY DEF AInv, Shape, SInv
  <2>2. PICK R : R = OkOf(Elem(sent)) /\ R = SentAt(Good)
    BY <2>1, PlacesOf
  <2>3. PICK xs \in Seq(Nat) : xs = Merged.latency_samples /\ Lists(xs, Latency, R)
    BY <2>2, MergedDescribed DEF ShardState, Latencies
  <2>4. summary.percentile_s = Percentile(xs)
    BY <2>1, <2>3 DEF Summarize
  <2>5. R # {}
    BY <2>2 DEF SentAt
  <2>6. Percentile(xs) =
          Min({v \in {Latency[r.task] : r \in R} :
                 Cardinality({r \in R : Latency[r.task] <= v}) * 100 >= Rank * Cardinality(R)})
    BY <2>3, <2>5, PercentileIs
  <2>7. {Latency[r.task] : r \in R} = {Latency[sent[k].task] : k \in Good}
    BY <2>2 DEF SentAt
  <2>8. Good \in SUBSET (1 .. Len(sent)) /\ Cardinality(R) = Cardinality(Good)
    BY <2>1, <2>2, PlacesOf, PlacesCount
  <2>9. ASSUME NEW v PROVE Cardinality({r \in R : Latency[r.task] <= v}) = AtMost(v)
    <3>1. PICK K : K = {k \in Good : Latency[sent[k].task] <= v}
      OBVIOUS
    <3>2. K \in SUBSET (1 .. Len(sent))
      BY <2>8, <3>1
    <3>3. Cardinality(SentAt(K)) = Cardinality(K)
      BY <2>1, <3>2, PlacesCount
    <3>4. SentAt(K) = {r \in R : Latency[r.task] <= v}
      BY <2>2, <3>1 DEF SentAt
    <3> QED BY <3>1, <3>3, <3>4 DEF AtMost
  <2> QED BY <2>4, <2>6, <2>7, <2>8, <2>9
<1> QED BY <1>1, <1>2, <1>3, AggregatorInvariant, ReservoirInit, ReservoirStep,
           SummaryInit, SummaryStep, PTL DEF Spec

=============================================================================
