--------------------------- MODULE EventListProofs ---------------------------
(***************************************************************************)
(* Proofs about EventList for every pool size and every set of values.     *)
(***************************************************************************)
EXTENDS EventList, SequenceTheorems, FiniteSetTheorems, TLAPS

IInv == TypeOK /\ WellFormed /\ LoopPosition

Injective(s) == \A j, k \in DOMAIN s : s[j] = s[k] => j = k

-----------------------------------------------------------------------------
(* Lemmas about sequences of links *)

(* What RemoveAt returns, element by element. *)
LEMMA RemoveAtProperties ==
  ASSUME NEW S, NEW s \in Seq(S), NEW k \in 1..Len(s)
  PROVE  /\ RemoveAt(s, k) \in Seq(S)
         /\ Len(RemoveAt(s, k)) = Len(s) - 1
         /\ \A j \in 1..(Len(s) - 1) :
              RemoveAt(s, k)[j] = IF j < k THEN s[j] ELSE s[j + 1]
<1> DEFINE a == SubSeq(s, 1, k - 1)
           b == SubSeq(s, k + 1, Len(s))
<1>1. Len(s) \in Nat /\ k \in Nat /\ k >= 1 /\ k <= Len(s)
  BY LenProperties
<1>2. \A i \in 1..Len(s) : s[i] \in S
  BY ElementOfSeq
<1>3. /\ a \in Seq(S)
      /\ Len(a) = k - 1
      /\ \A i \in 1..(k - 1) : a[i] = s[i]
  <2>1. \A i \in 1..(k - 1) : s[i] \in S
    BY <1>1, <1>2
  <2>2. /\ a \in Seq(S)
        /\ Len(a) = IF 1 <= k - 1 THEN (k - 1) - 1 + 1 ELSE 0
        /\ \A i \in 1..((k - 1) - 1 + 1) : a[i] = s[1 + i - 1]
    BY <1>1, <2>1, SubSeqProperties
  <2> QED BY <1>1, <2>2
<1>4. /\ b \in Seq(S)
      /\ Len(b) = Len(s) - k
      /\ \A i \in 1..(Len(s) - k) : b[i] = s[k + i]
  <2>1. \A i \in (k + 1)..Len(s) : s[i] \in S
    BY <1>1, <1>2
  <2>2. /\ b \in Seq(S)
        /\ Len(b) = IF k + 1 <= Len(s) THEN Len(s) - (k + 1) + 1 ELSE 0
        /\ \A i \in 1..(Len(s) - (k + 1) + 1) : b[i] = s[(k + 1) + i - 1]
    BY <1>1, <2>1, SubSeqProperties
  <2> QED BY <1>1, <2>2
<1>5. /\ a \o b \in Seq(S)
      /\ Len(a \o b) = Len(a) + Len(b)
      /\ \A i \in 1..(Len(a) + Len(b)) :
           (a \o b)[i] = IF i <= Len(a) THEN a[i] ELSE b[i - Len(a)]
  BY <1>3, <1>4, ConcatProperties
<1>6. RemoveAt(s, k) = a \o b
  BY DEF RemoveAt
<1> QED
  <2> HIDE DEF a, b
  <2>1. ASSUME NEW j \in 1..(Len(s) - 1)
        PROVE  (a \o b)[j] = IF j < k THEN s[j] ELSE s[j + 1]
    <3>1. CASE j < k
      BY <1>1, <1>3, <1>4, <1>5, <3>1
    <3>2. CASE ~(j < k)
      <4>1. j - (k - 1) \in 1..(Len(s) - k)
        BY <1>1, <3>2
      <4>2. b[j - (k - 1)] = s[k + (j - (k - 1))]
        BY <1>4, <4>1
      <4>3. k + (j - (k - 1)) = j + 1
        BY <1>1
      <4> QED BY <1>1, <1>3, <1>4, <1>5, <3>2, <4>2, <4>3
    <3> QED BY <3>1, <3>2
  <2>2. Len(a \o b) = Len(s) - 1
    BY <1>1, <1>3, <1>4, <1>5
  <2> QED BY <1>5, <1>6, <2>1, <2>2

(* The index after k, in a sequence and one past its end. *)
LEMMA NextIndex ==
  ASSUME NEW n \in Nat, NEW k \in 1..n
  PROVE  /\ k + 1 \in 1..(n + 1)
         /\ k + 1 # 1
         /\ (k + 1) - 1 = k
         /\ k + 1 = n + 1 <=> k = n
         /\ k # n => k + 1 \in 1..n
OBVIOUS

(* The size of an index set. *)
LEMMA IndexCardinality ==
  ASSUME NEW n \in Nat
  PROVE  IsFiniteSet(1..n) /\ Cardinality(1..n) = n
<1>1. 1 \in Int /\ n \in Int
  OBVIOUS
<1>2. /\ IsFiniteSet(1..n)
      /\ Cardinality(1..n) = IF 1 > n THEN 0 ELSE n - 1 + 1
  BY ONLY <1>1, FS_Interval
<1> QED BY <1>2

(* Links that are listed once each are at most as many as the pool. *)
LEMMA ListedOnceFits ==
  ASSUME NEW s \in Seq(Links), Injective(s)
  PROVE  Len(s) <= PoolSize
<1>1. /\ Len(s) \in Nat
      /\ DOMAIN s = 1..Len(s)
      /\ s \in [1..Len(s) -> Links]
  BY LenProperties
<1>2. s \in Injection(1..Len(s), Links)
  BY <1>1 DEF Injective, Injection, IsInjective
<1>3. /\ IsFiniteSet(Links)
      /\ Cardinality(Links) = PoolSize
  BY PoolAssumption, IndexCardinality DEF Links
<1>4. Cardinality(1..Len(s)) = Len(s)
  BY <1>1, IndexCardinality
<1> QED BY <1>2, <1>3, <1>4, FS_Injection

(* If every link of the pool is listed, the list has the size of the pool. *)
LEMMA AllListedIsFull ==
  ASSUME NEW s \in Seq(Links), Injective(s),
         \A l \in Links : \E k \in DOMAIN s : s[k] = l
  PROVE  Len(s) = PoolSize
<1>1. /\ Len(s) \in Nat
      /\ DOMAIN s = 1..Len(s)
      /\ s \in [1..Len(s) -> Links]
  BY LenProperties
<1>2. s \in Injection(1..Len(s), Links) /\ s \in Surjection(1..Len(s), Links)
  BY <1>1 DEF Injective, Injection, IsInjective, Surjection
<1>3. /\ IsFiniteSet(Links)
      /\ Cardinality(Links) = PoolSize
  BY PoolAssumption, IndexCardinality DEF Links
<1>4. Cardinality(1..Len(s)) = Len(s)
  BY <1>1, IndexCardinality
<1> QED BY <1>2, <1>3, <1>4, FS_Injection
-----------------------------------------------------------------------------
(* The inductive invariant *)

(* What the type invariant says of the history, in the form the steps use. *)
LEMMA OrderFacts ==
  ASSUME TypeOK
  PROVE  /\ Len(order) \in Nat
         /\ DOMAIN order = 1..Len(order)
         /\ \A k \in 1..Len(order) : order[k] \in Links /\ order[k] # NULL
         /\ order = << >> <=> Len(order) = 0
<1>1. order \in Seq(Links)
  BY DEF TypeOK
<1>2. \A k \in 1..Len(order) : order[k] \in Links
  BY <1>1, ElementOfSeq
<1>3. NULL \notin Links
  BY DEF NULL, Links
<1>4. order = << >> <=> Len(order) = 0
  BY <1>1, EmptySeq
<1> QED BY <1>1, <1>2, <1>3, <1>4, LenProperties

(* The list is empty and no call is in progress. *)
LEMMA InitIInv == Init => IInv
<1> SUFFICES ASSUME Init PROVE IInv
  OBVIOUS
<1>1. TypeOK
  BY PoolAssumption, DataAssumption, EmptySeq DEF Init, TypeOK, Links, NULL
<1>2. Len(order) = 0 /\ DOMAIN order = {}
  BY <1>1, OrderFacts DEF Init
<1>3. WellFormed
  BY <1>2 DEF Init, WellFormed, OrderIsPool, Chained, CountIsLength
<1>4. LoopPosition
  BY DEF Init, LoopPosition
<1> QED BY <1>1, <1>3, <1>4 DEF IInv

(* listAdd takes a link the list does not hold and chains it behind tail. *)
LEMMA AddIInv ==
  ASSUME IInv, NEW d \in Data, Add(d)
  PROVE  IInv'
<1> DEFINE n == Len(order)
<1>0. /\ n \in Nat
      /\ DOMAIN order = 1..n
      /\ \A k \in 1..n : order[k] \in Links /\ order[k] # NULL
      /\ order = << >> <=> n = 0
  BY OrderFacts DEF IInv
<1>1. PICK l \in Links :
        /\ IsEmptyLink(l)
        /\ isUsed' = [isUsed EXCEPT ![l] = TRUE]
        /\ data' = [data EXCEPT ![l] = d]
        /\ LinkFirst(l, d) \/ LinkLast(l, d)
        /\ order' = Append(order, l)
  BY DEF Add
<1>2. pc = "idle" /\ pc' = "idle" /\ ret' = "success"
      /\ UNCHANGED <<plink, plinkPre, target>>
  BY DEF Add, callVars
<1>3. /\ order' \in Seq(Links)
      /\ Len(order') = n + 1
      /\ DOMAIN order' = 1..(n + 1)
      /\ order'[n + 1] = l
      /\ \A k \in 1..n : order'[k] = order[k]
  BY <1>0, <1>1, AppendProperties, LenProperties DEF IInv, TypeOK
<1>4. \A k \in 1..n : isUsed[order[k]] /\ order[k] # l
  BY <1>0, <1>1, <1>2 DEF IInv, WellFormed, OrderIsPool, Freed, IsEmptyLink
<1>5. Injective(order')
  BY <1>0, <1>3, <1>4 DEF IInv, WellFormed, OrderIsPool, Injective
<1>6. n + 1 <= PoolSize
  BY <1>3, <1>5, ListedOnceFits
<1>7. /\ head' = IF n = 0 THEN l ELSE head
      /\ tail' = l
      /\ next' = IF n = 0 THEN [next EXCEPT ![l] = NULL]
                 ELSE [next EXCEPT ![l] = NULL, ![tail] = l]
      /\ count' = n + 1
  BY <1>0, <1>1 DEF IInv, WellFormed, Chained, CountIsLength, LinkFirst, LinkLast
<1>8. l # NULL
  BY DEF Links, NULL
<1>9. TypeOK'
  <2>1. tail \in Links \/ n = 0
    BY <1>0 DEF IInv, WellFormed, Chained
  <2> QED BY <1>0, <1>1, <1>2, <1>3, <1>6, <1>7, <2>1, PoolAssumption DEF IInv, TypeOK
<1>10. OrderIsPool'
  <2>1. \A k \in DOMAIN order' : ~ Freed(k)'
    BY <1>2 DEF Freed
  <2>2. \A k \in DOMAIN order' : isUsed'[order'[k]]
    BY <1>0, <1>1, <1>3, <1>4 DEF IInv, TypeOK
  <2>3. ASSUME NEW m \in Links, isUsed'[m]
        PROVE  \E k \in DOMAIN order' : order'[k] = m
    <3>1. CASE m = l
      BY <1>0, <1>3, <3>1
    <3>2. CASE m # l
      BY <1>0, <1>1, <1>3, <2>3, <3>2 DEF IInv, TypeOK, WellFormed, OrderIsPool
    <3> QED BY <3>1, <3>2
  <2> QED BY <1>5, <2>1, <2>2, <2>3 DEF OrderIsPool, Injective
<1>11. Chained'
  <2>1. order' # << >>
    BY <1>0, <1>3, EmptySeq
  <2>2. head' = order'[1]
    BY <1>0, <1>3, <1>7 DEF IInv, WellFormed, Chained
  <2>3. tail' = order'[n + 1]
    BY <1>3, <1>7
  <2>4. next'[order'[n + 1]] = NULL
    <3>1. n # 0 => tail # l
      BY <1>0, <1>4 DEF IInv, WellFormed, Chained
    <3> QED BY <1>0, <1>3, <1>7, <3>1 DEF IInv, TypeOK
  <2>5. ASSUME NEW k \in 1..n
        PROVE  next'[order'[k]] = order'[k + 1]
    <3>1. n # 0 /\ tail = order[n]
      BY <1>0 DEF IInv, WellFormed, Chained
    <3>2. CASE k = n
      BY <1>0, <1>3, <1>4, <1>7, <3>1, <3>2 DEF IInv, TypeOK
    <3>3. CASE k # n
      <4>1. order[k] # tail
        <5>1. n \in DOMAIN order /\ k \in DOMAIN order
          BY <1>0, <3>1
        <5> QED BY <3>1, <3>3, <5>1 DEF IInv, WellFormed, OrderIsPool
      <4>2. next'[order[k]] = next[order[k]]
        BY <1>0, <1>4, <1>7, <3>1, <4>1 DEF IInv, TypeOK
      <4>3. next[order[k]] = order[k + 1]
        BY <1>0, <3>3 DEF IInv, WellFormed, Chained
      <4> QED BY <1>0, <1>3, <3>3, <4>2, <4>3
    <3> QED BY <3>2, <3>3
  <2> QED BY <1>0, <1>3, <2>1, <2>2, <2>3, <2>4, <2>5 DEF Chained
<1>12. CountIsLength'
  BY <1>3, <1>7 DEF CountIsLength
<1>13. LoopPosition'
  BY <1>2 DEF IInv, LoopPosition
<1> QED BY <1>9, <1>10, <1>11, <1>12, <1>13 DEF IInv, WellFormed

(* One iteration of listRemoveData that unlinks the link it stands on. *)
LEMMA RemoveMatchIInv ==
  ASSUME IInv, RemoveMatch
  PROVE  IInv'
<1> DEFINE n == Len(order)
<1>0. /\ n \in Nat
      /\ DOMAIN order = 1..n
      /\ \A k \in 1..n : order[k] \in Links /\ order[k] # NULL
      /\ order = << >> <=> n = 0
      /\ order \in Seq(Links)
  BY OrderFacts DEF IInv, TypeOK
<1>1. \A i, j \in 1..n : order[i] = order[j] => i = j
  BY <1>0 DEF IInv, WellFormed, OrderIsPool
<1>2. pc = "remove" /\ pc' = "remove" /\ plink # NULL /\ data[plink] = target
      /\ UNCHANGED <<data, plinkPre, target, ret>>
  BY DEF RemoveMatch
<1>3. PICK k \in 1..n :
        /\ plink = order[k]
        /\ plinkPre = IF k = 1 THEN NULL ELSE order[k - 1]
        /\ \A j \in 1..(k - 1) : data[order[j]] # target
  BY <1>0, <1>2 DEF IInv, LoopPosition
<1>k. /\ k \in Nat /\ 1 <= k /\ k <= n
      /\ 1 \in 1..n /\ n \in 1..n
      /\ k = 1 \/ k - 1 \in 1..n
      /\ k = n \/ k + 1 \in 1..n
  <2>1. n \in Nat /\ k \in 1..n
    BY <1>0
  <2> HIDE DEF n
  <2> QED BY ONLY <2>1
<1>4. Position(plink) = k
  BY <1>0, <1>1, <1>3 DEF Position
<1>5. /\ order' \in Seq(Links)
      /\ Len(order') = n - 1
      /\ \A j \in 1..(n - 1) : order'[j] = IF j < k THEN order[j] ELSE order[j + 1]
  <2>1. order' = RemoveAt(order, k)
    BY <1>4 DEF RemoveMatch
  <2>2. order \in Seq(Links) /\ k \in 1..Len(order)
    BY <1>0
  <2> HIDE DEF n
  <2>3. /\ RemoveAt(order, k) \in Seq(Links)
        /\ Len(RemoveAt(order, k)) = Len(order) - 1
        /\ \A j \in 1..(Len(order) - 1) :
             RemoveAt(order, k)[j] = IF j < k THEN order[j] ELSE order[j + 1]
    BY <2>2, RemoveAtProperties
  <2> QED BY <2>1, <2>3 DEF n
<1>6. DOMAIN order' = 1..(n - 1)
  BY <1>5, LenProperties
<1>7. next[plink] = IF k = n THEN NULL ELSE order[k + 1]
  BY <1>0, <1>3 DEF IInv, WellFormed, Chained
<1>8. n >= 1 /\ head = order[1] /\ tail = order[n]
  BY <1>0, <1>3 DEF IInv, WellFormed, Chained
<1>9. /\ head' = IF k = 1 THEN next[plink] ELSE order[1]
      /\ tail' = IF k = n THEN plinkPre ELSE order[n]
  <2>1. plink = head <=> k = 1
    BY <1>k, <1>1, <1>3, <1>8
  <2>2. plink = tail <=> k = n
    BY <1>k, <1>1, <1>3, <1>8
  <2> QED BY <1>8, <2>1, <2>2 DEF RemoveMatch
<1>10. /\ k = 1 => next' = next
       /\ k # 1 => next' = [next EXCEPT ![order[k - 1]] = next[plink]]
  <2>1. k # 1 => k - 1 \in 1..n
    BY <1>0, <1>3
  <2> QED BY <1>0, <1>3, <2>1 DEF RemoveMatch
<1>11. /\ isUsed' = [isUsed EXCEPT ![plink] = FALSE]
       /\ count' = n - 1
       /\ plink' = next[plink]
  BY DEF RemoveMatch, IInv, WellFormed, CountIsLength
<1>12. TypeOK'
  <2>1. plink \in Links /\ plinkPre \in Links \cup {NULL} /\ next[plink] \in Links \cup {NULL}
    BY <1>0, <1>3 DEF IInv, TypeOK
  <2>2. head' \in Links \cup {NULL} /\ tail' \in Links \cup {NULL}
    BY <1>0, <1>k, <1>9, <2>1
  <2>3. next' \in [Links -> Links \cup {NULL}]
    BY <1>10, <2>1 DEF IInv, TypeOK
  <2>4. n - 1 \in 0..PoolSize
    BY <1>0, <1>8, PoolAssumption DEF IInv, TypeOK, WellFormed, CountIsLength
  <2> QED BY <1>2, <1>5, <1>11, <2>1, <2>2, <2>3, <2>4 DEF IInv, TypeOK
<1>13. \A i, j \in 1..(n - 1) : order'[i] = order'[j] => i = j
  BY <1>0, <1>1, <1>3, <1>5
<1>14. OrderIsPool'
  <2>1. \A j \in DOMAIN order' : ~ Freed(j)'
    BY <1>2 DEF Freed
  <2>2. \A j \in 1..n : isUsed[order[j]]
    BY <1>0, <1>2 DEF IInv, WellFormed, OrderIsPool, Freed
  <2>3. \A j \in 1..(n - 1) : order'[j] # plink /\ \E i \in 1..n : order'[j] = order[i]
    BY <1>0, <1>1, <1>3, <1>5
  <2>4. \A j \in 1..(n - 1) : isUsed'[order'[j]]
    BY <1>0, <1>11, <2>2, <2>3 DEF IInv, TypeOK
  <2>5. ASSUME NEW m \in Links, isUsed'[m]
        PROVE  \E j \in DOMAIN order' : order'[j] = m
    <3>1. m # plink /\ isUsed[m]
      BY <1>0, <1>3, <1>11, <2>5 DEF IInv, TypeOK
    <3>2. PICK i \in 1..n : order[i] = m
      BY <1>0, <3>1 DEF IInv, WellFormed, OrderIsPool
    <3>3. CASE i < k
      BY <1>0, <1>3, <1>5, <1>6, <3>2, <3>3
    <3>4. CASE i > k
      <4>1. i - 1 \in 1..(n - 1) /\ ~(i - 1 < k) /\ (i - 1) + 1 = i
        BY <1>0, <1>3, <3>2, <3>4
      <4> QED BY <1>5, <1>6, <3>2, <4>1
    <3>5. i # k
      BY <1>3, <3>1, <3>2
    <3> QED BY <1>0, <1>3, <3>2, <3>3, <3>4, <3>5
  <2> QED BY <1>6, <1>13, <2>1, <2>4, <2>5 DEF OrderIsPool
<1>15. Chained'
  <2>1. order' = << >> <=> n = 1
    BY <1>0, <1>5, <1>8, EmptySeq
  <2>2. head' = IF order' = << >> THEN NULL ELSE order'[1]
    BY <1>k, <1>5, <1>7, <1>9, <2>1
  <2>3. tail' = IF order' = << >> THEN NULL ELSE order'[n - 1]
    BY <1>k, <1>3, <1>5, <1>9, <2>1
  <2>4. ASSUME NEW j \in 1..(n - 1)
        PROVE  next'[order'[j]] = IF j = n - 1 THEN NULL ELSE order'[j + 1]
    <3>1. \A i \in 1..n : next[order[i]] = IF i = n THEN NULL ELSE order[i + 1]
      BY <1>0 DEF IInv, WellFormed, Chained
    <3>2. CASE j < k - 1
      <4>1. j \in 1..n /\ k - 1 \in 1..n /\ j # k - 1 /\ j + 1 < k /\ j + 1 \in 1..(n - 1)
        BY <1>0, <1>3, <3>2
      <4>2. order'[j] = order[j] /\ order'[j + 1] = order[j + 1]
        BY <1>5, <3>2, <4>1
      <4>3. order[j] # order[k - 1]
        BY <1>1, <4>1
      <4>4. next'[order[j]] = next[order[j]]
        BY <1>0, <1>10, <4>1, <4>3 DEF IInv, TypeOK
      <4> QED BY <1>k, <3>1, <3>2, <4>1, <4>2, <4>4
    <3>3. CASE j = k - 1
      <4>1. order'[j] = order[k - 1] /\ k # 1
        BY <1>0, <1>3, <1>5, <3>3
      <4>2. next'[order[k - 1]] = next[plink]
        BY <1>0, <1>3, <1>10, <3>3, <4>1 DEF IInv, TypeOK
      <4>3. k # n => order'[j + 1] = order[k + 1]
        BY <1>k, <1>5, <3>3
      <4> QED BY <1>k, <1>7, <3>3, <4>1, <4>2, <4>3
    <3>4. CASE j >= k
      <4>1. j + 1 \in 1..n /\ j # n /\ (k # 1 => k - 1 \in 1..n /\ j + 1 # k - 1)
        BY <1>k, <3>4
      <4>2. order'[j] = order[j + 1]
        BY <1>0, <1>3, <1>5, <3>4
      <4>3. k # 1 => order[j + 1] # order[k - 1]
        BY <1>1, <4>1
      <4>4. next'[order[j + 1]] = next[order[j + 1]]
        BY <1>0, <1>10, <4>1, <4>3 DEF IInv, TypeOK
      <4>5. j # n - 1 => order'[j + 1] = order[(j + 1) + 1]
        <5>1. j # n - 1 => j + 1 \in 1..(n - 1) /\ ~(j + 1 < k)
          BY <1>k, <3>4
        <5> QED BY <1>5, <5>1
      <4> QED BY <1>k, <3>1, <3>4, <4>1, <4>2, <4>4, <4>5
    <3> QED BY <1>k, <3>2, <3>3, <3>4
  <2> QED BY <1>5, <1>6, <2>2, <2>3, <2>4 DEF Chained
<1>16. CountIsLength'
  BY <1>5, <1>11 DEF CountIsLength
<1>17. LoopPosition'
  <2>1. k \in 1..((n - 1) + 1)
    BY <1>0, <1>3
  <2>2. plink' = IF k = (n - 1) + 1 THEN NULL ELSE order'[k]
    BY <1>k, <1>5, <1>7, <1>11
  <2>3. plinkPre' = IF k = 1 THEN NULL ELSE order'[k - 1]
    BY <1>0, <1>2, <1>3, <1>5
  <2>4. \A j \in 1..(k - 1) : data'[order'[j]] # target'
    BY <1>0, <1>2, <1>3, <1>5
  <2> QED BY <1>2, <1>5, <2>1, <2>2, <2>3, <2>4 DEF LoopPosition
<1> QED BY <1>12, <1>14, <1>15, <1>16, <1>17 DEF IInv, WellFormed

(* The iterations and calls that leave the links alone. *)
LEMMA ListUnchanged ==
  ASSUME IInv, UNCHANGED <<listVars, order>>, pc' # "clear", pc # "clear",
         ret' \in {"success", "no_resource"}, pc' \in {"idle", "remove"},
         plink' \in Links \cup {NULL}, plinkPre' \in Links \cup {NULL},
         target' \in Data
  PROVE  TypeOK' /\ WellFormed'
<1>1. TypeOK'
  BY DEF IInv, TypeOK, listVars
<1>2. \A k \in DOMAIN order : ~ Freed(k) /\ ~ Freed(k)'
  BY DEF Freed
<1>3. OrderIsPool'
  BY <1>2 DEF IInv, WellFormed, OrderIsPool, listVars
<1>4. Chained' /\ CountIsLength'
  BY DEF IInv, WellFormed, Chained, CountIsLength, listVars
<1> QED BY <1>1, <1>3, <1>4 DEF WellFormed

(* A call begins at the head of the list. *)
LEMMA BeginIInv ==
  ASSUME IInv, ClearBegin \/ \E d \in Data : RemoveBegin(d)
  PROVE  IInv'
<1>0. /\ Len(order) \in Nat
      /\ DOMAIN order = 1..Len(order)
      /\ \A k \in 1..Len(order) : order[k] \in Links /\ order[k] # NULL
      /\ order = << >> <=> Len(order) = 0
  BY OrderFacts DEF IInv
<1>1. head = IF 1 = Len(order) + 1 THEN NULL ELSE order[1]
  BY <1>0 DEF IInv, WellFormed, Chained
<1>2. 1 \in 1..(Len(order) + 1)
  BY <1>0
<1>3. CASE \E d \in Data : RemoveBegin(d)
  <2>1. PICK d \in Data : RemoveBegin(d)
    BY <1>3
  <2>2. TypeOK' /\ WellFormed'
    BY <2>1, ListUnchanged DEF RemoveBegin, listVars, IInv, TypeOK
  <2>3. LoopPosition'
    <3>1. pc' = "remove" /\ plink' = head /\ plinkPre' = NULL /\ order' = order
      BY <2>1 DEF RemoveBegin
    <3>2. \A j \in 1..(1 - 1) : data'[order'[j]] # target'
      OBVIOUS
    <3> QED BY <1>1, <1>2, <3>1, <3>2 DEF LoopPosition
  <2> QED BY <2>2, <2>3 DEF IInv
<1>4. CASE ClearBegin
  <2>1. /\ pc' = "clear" /\ plink' = head /\ plinkPre' = NULL /\ pc = "idle"
        /\ UNCHANGED <<head, tail, next, data, isUsed, count, target, ret, order>>
    BY <1>4 DEF ClearBegin, listVars
  <2>2. TypeOK'
    BY <2>1 DEF IInv, TypeOK
  <2>3. \A k \in 1..Len(order) : ~ Freed(k) /\ ~ Freed(k)'
    <3>1. ASSUME NEW k \in 1..Len(order)
          PROVE  ~ Freed(k)'
      <4>1. 1 \in DOMAIN order /\ order[1] = plink' /\ ~(k < 1)
        BY <1>0, <1>1, <2>1
      <4> QED BY <2>1, <4>1 DEF Freed
    <3> QED BY <2>1, <3>1 DEF Freed
  <2>4. OrderIsPool'
    BY <1>0, <2>1, <2>3 DEF IInv, WellFormed, OrderIsPool
  <2>5. Chained' /\ CountIsLength'
    BY <2>1 DEF IInv, WellFormed, Chained, CountIsLength
  <2>6. LoopPosition'
    BY <1>1, <1>2, <2>1 DEF LoopPosition
  <2> QED BY <2>2, <2>4, <2>5, <2>6 DEF IInv, WellFormed
<1> QED BY <1>3, <1>4

(* One iteration of listRemoveData that moves on to the next link. *)
LEMMA RemoveSkipIInv ==
  ASSUME IInv, RemoveSkip
  PROVE  IInv'
<1>0. /\ Len(order) \in Nat
      /\ DOMAIN order = 1..Len(order)
      /\ \A k \in 1..Len(order) : order[k] \in Links /\ order[k] # NULL
  BY OrderFacts DEF IInv
<1>1. /\ pc = "remove" /\ pc' = "remove" /\ plink # NULL /\ data[plink] # target
      /\ plinkPre' = plink /\ plink' = next[plink]
      /\ UNCHANGED <<listVars, target, ret, order>>
  BY DEF RemoveSkip
<1>2. PICK k \in 1..(Len(order) + 1) :
        /\ plink = IF k = Len(order) + 1 THEN NULL ELSE order[k]
        /\ \A j \in 1..(k - 1) : data[order[j]] # target
  BY <1>0, <1>1 DEF IInv, LoopPosition
<1>3. k \in 1..Len(order) /\ plink = order[k]
  BY <1>0, <1>1, <1>2
<1>4. next[plink] = IF k = Len(order) THEN NULL ELSE order[k + 1]
  BY <1>0, <1>3 DEF IInv, WellFormed, Chained
<1>5. TypeOK' /\ WellFormed'
  <2>1. next[plink] \in Links \cup {NULL} /\ plink \in Links
    BY <1>0, <1>3 DEF IInv, TypeOK
  <2>2. target \in Data /\ ret \in {"success", "no_resource"}
    BY DEF IInv, TypeOK
  <2> QED BY <1>1, <2>1, <2>2, ListUnchanged
<1>6. LoopPosition'
  <2>1. k + 1 \in 1..(Len(order) + 1) /\ k + 1 # 1 /\ (k + 1) - 1 = k
    BY <1>0, <1>3
  <2>2. plink' = IF k + 1 = Len(order) + 1 THEN NULL ELSE order[k + 1]
    <3>1. k + 1 = Len(order) + 1 <=> k = Len(order)
      BY <1>0, <1>3, NextIndex
    <3> QED BY <1>1, <1>4, <3>1
  <2>3. \A j \in 1..k : data[order[j]] # target
    BY <1>0, <1>1, <1>2, <1>3
  <2> QED BY <1>1, <1>3, <2>1, <2>2, <2>3 DEF LoopPosition, listVars
<1> QED BY <1>5, <1>6 DEF IInv

(* One iteration of listRemoveAll. *)
LEMMA ClearLinkIInv ==
  ASSUME IInv, ClearLink
  PROVE  IInv'
<1>0. /\ Len(order) \in Nat
      /\ DOMAIN order = 1..Len(order)
      /\ \A k \in 1..Len(order) : order[k] \in Links /\ order[k] # NULL
      /\ \A i, j \in 1..Len(order) : order[i] = order[j] => i = j
  BY OrderFacts DEF IInv, WellFormed, OrderIsPool
<1>1. /\ pc = "clear" /\ pc' = "clear" /\ plink # NULL /\ plink' = next[plink]
      /\ isUsed' = [isUsed EXCEPT ![plink] = FALSE]
      /\ UNCHANGED <<head, tail, next, data, count, plinkPre, target, ret, order>>
  BY DEF ClearLink
<1>2. PICK k \in 1..(Len(order) + 1) :
        plink = IF k = Len(order) + 1 THEN NULL ELSE order[k]
  BY <1>0, <1>1 DEF IInv, LoopPosition
<1>3. k \in 1..Len(order) /\ plink = order[k]
  BY <1>0, <1>1, <1>2
<1>4. plink' = IF k = Len(order) THEN NULL ELSE order[k + 1]
  BY <1>0, <1>1, <1>3 DEF IInv, WellFormed, Chained
<1>5. TypeOK'
  <2>1. plink \in Links /\ next[plink] \in Links \cup {NULL}
    BY <1>0, <1>3 DEF IInv, TypeOK
  <2> QED BY <1>1, <2>1 DEF IInv, TypeOK
<1>6. \A j \in 1..Len(order) : Freed(j) <=> j < k
  BY <1>0, <1>1, <1>3 DEF Freed
<1>7. \A j \in 1..Len(order) : Freed(j)' <=> j < k + 1
  <2>1. CASE k = Len(order)
    <3>1. plink' = NULL /\ \A j \in 1..Len(order) : j < k + 1
      BY <1>0, <1>4, <2>1
    <3> QED BY <1>0, <1>1, <3>1 DEF Freed
  <2>2. CASE k # Len(order)
    <3>1. k + 1 \in 1..Len(order) /\ plink' = order[k + 1]
      BY <1>0, <1>3, <1>4, <2>2, NextIndex
    <3> QED BY <1>0, <1>1, <3>1 DEF Freed
  <2> QED BY <2>1, <2>2
<1>8. OrderIsPool'
  <2>1. \A j \in 1..Len(order) : isUsed'[order[j]] <=> ~ Freed(j)'
    <3>1. \A j \in 1..Len(order) : isUsed[order[j]] <=> ~(j < k)
      BY <1>0, <1>6 DEF IInv, WellFormed, OrderIsPool
    <3>2. \A j \in 1..Len(order) : isUsed'[order[j]] <=> isUsed[order[j]] /\ j # k
      BY <1>0, <1>1, <1>3 DEF IInv, TypeOK
    <3>3. \A j \in 1..Len(order) : j < k + 1 <=> j < k \/ j = k
      BY <1>0, <1>3
    <3> QED BY <1>7, <3>1, <3>2, <3>3
  <2>2. \A l \in Links : isUsed'[l] => isUsed[l]
    BY <1>1 DEF IInv, TypeOK
  <2> QED BY <1>0, <1>1, <2>1, <2>2 DEF IInv, WellFormed, OrderIsPool
<1>9. Chained' /\ CountIsLength'
  BY <1>1 DEF IInv, WellFormed, Chained, CountIsLength
<1>10. LoopPosition'
  <2>1. k + 1 \in 1..(Len(order) + 1)
        /\ (k + 1 = Len(order) + 1 <=> k = Len(order))
    BY <1>0, <1>3, NextIndex
  <2>2. plink' = IF k + 1 = Len(order) + 1 THEN NULL ELSE order[k + 1]
    BY <1>4, <2>1
  <2> QED BY <1>1, <2>1, <2>2 DEF IInv, LoopPosition
<1> QED BY <1>5, <1>8, <1>9, <1>10 DEF IInv, WellFormed

(* listRemoveAll returns with every link free and the pointers reset. *)
LEMMA ClearReturnIInv ==
  ASSUME IInv, ClearReturn
  PROVE  IInv'
<1>0. /\ Len(order) \in Nat
      /\ DOMAIN order = 1..Len(order)
      /\ \A k \in 1..Len(order) : order[k] # NULL
  BY OrderFacts DEF IInv
<1>1. /\ pc = "clear" /\ pc' = "idle" /\ plink = NULL
      /\ head' = NULL /\ tail' = NULL /\ count' = 0 /\ order' = << >>
      /\ ret' = "success"
      /\ UNCHANGED <<next, data, isUsed, plink, plinkPre, target>>
  BY DEF ClearReturn
<1>2. TypeOK'
  BY <1>1, PoolAssumption, EmptySeq DEF IInv, TypeOK
<1>3. DOMAIN order' = {} /\ Len(order') = 0
  BY <1>1, EmptySeq, LenProperties
<1>4. \A k \in DOMAIN order : Freed(k)
  BY <1>0, <1>1 DEF Freed
<1>5. \A l \in Links : ~ isUsed[l]
  BY <1>4 DEF IInv, WellFormed, OrderIsPool
<1>6. WellFormed'
  BY <1>1, <1>3, <1>5 DEF WellFormed, OrderIsPool, Chained, CountIsLength
<1>7. LoopPosition'
  BY <1>1 DEF IInv, LoopPosition
<1> QED BY <1>2, <1>6, <1>7 DEF IInv

(* The invariant is inductive. *)
LEMMA StepIInv == IInv /\ [Next]_vars => IInv'
<1> SUFFICES ASSUME IInv, [Next]_vars PROVE IInv'
  OBVIOUS
<1>1. ASSUME NEW d \in Data, Add(d) PROVE IInv'
  BY <1>1, AddIInv
<1>2. CASE AddFails
  <2>1. pc = "idle" /\ ret' = "no_resource" /\ UNCHANGED <<listVars, callVars, order>>
    BY <1>2 DEF AddFails
  <2>2. TypeOK' /\ WellFormed'
    BY <2>1, ListUnchanged DEF callVars, IInv, TypeOK
  <2>3. LoopPosition'
    BY <2>1 DEF IInv, LoopPosition, callVars
  <2> QED BY <2>2, <2>3 DEF IInv
<1>3. ASSUME NEW d \in Data, RemoveBegin(d) PROVE IInv'
  BY <1>3, BeginIInv
<1>4. CASE ClearBegin
  BY <1>4, BeginIInv
<1>5. CASE RemoveMatch
  BY <1>5, RemoveMatchIInv
<1>6. CASE RemoveSkip
  BY <1>6, RemoveSkipIInv
<1>7. CASE RemoveReturn
  <2>1. /\ pc = "remove" /\ pc' = "idle" /\ plinkPre' = NULL /\ ret' = "success"
        /\ UNCHANGED <<listVars, plink, target, order>>
    BY <1>7 DEF RemoveReturn
  <2>2. TypeOK' /\ WellFormed'
    BY <2>1, ListUnchanged DEF IInv, TypeOK
  <2>3. LoopPosition'
    BY <2>1 DEF LoopPosition
  <2> QED BY <2>2, <2>3 DEF IInv
<1>8. CASE ClearLink
  BY <1>8, ClearLinkIInv
<1>9. CASE ClearReturn
  BY <1>9, ClearReturnIInv
<1>10. CASE UNCHANGED vars
  <2>1. UNCHANGED <<head, tail, next, data, isUsed, count, pc, plink, plinkPre,
                    target, ret, order>>
    BY <1>10 DEF vars, listVars, callVars
  <2>2. TypeOK' /\ LoopPosition'
    BY <2>1 DEF IInv, TypeOK, LoopPosition
  <2>3. WellFormed'
    BY <2>1 DEF IInv, WellFormed, OrderIsPool, Freed, Chained, CountIsLength
  <2> QED BY <2>2, <2>3 DEF IInv
<1> QED BY <1>1, <1>2, <1>3, <1>4, <1>5, <1>6, <1>7, <1>8, <1>9, <1>10 DEF Next, Loop

-----------------------------------------------------------------------------
(* Theorems *)

(* Every reachable state satisfies the inductive invariant. *)
THEOREM Invariance == Spec => []IInv
BY InitIInv, StepIInv, PTL DEF Spec

(* Type correctness of list.c for every pool and every set of values: no field
   leaves its type and count stays within the pool. *)
THEOREM TypeCorrect == Spec => []TypeOK
<1>1. IInv => TypeOK
  BY DEF IInv
<1> QED BY <1>1, Invariance, PTL

(* The links form one chain in the order of the calls to listAdd, between any
   two iterations of listRemoveData and listRemoveAll as well. *)
THEOREM ListWellFormed == Spec => []WellFormed
<1>1. IInv => WellFormed
  BY DEF IInv
<1> QED BY <1>1, Invariance, PTL

(* An event listed twice disappears with one call of listRemoveData: when the
   call returns no link of the list stores its argument. *)
THEOREM RemoveIsComplete == Spec => RemovesEveryOccurrence
<1>1. ASSUME IInv, RemoveReturn
      PROVE  \A k \in DOMAIN order' : data'[order'[k]] # target
  <2>1. /\ Len(order) \in Nat
        /\ DOMAIN order = 1..Len(order)
        /\ \A k \in 1..Len(order) : order[k] # NULL
    BY <1>1, OrderFacts DEF IInv
  <2>2. pc = "remove" /\ plink = NULL /\ UNCHANGED <<data, order>>
    BY <1>1 DEF RemoveReturn, listVars
  <2>3. PICK k \in 1..(Len(order) + 1) :
          /\ plink = IF k = Len(order) + 1 THEN NULL ELSE order[k]
          /\ \A j \in 1..(k - 1) : data[order[j]] # target
    BY <1>1, <2>2 DEF IInv, LoopPosition
  <2>4. k = Len(order) + 1
    BY <2>1, <2>2, <2>3
  <2>5. k - 1 = Len(order)
    BY <2>1, <2>4
  <2> QED BY <2>1, <2>2, <2>3, <2>5
<1>2. IInv /\ [Next]_vars =>
        [RemoveReturn => \A k \in DOMAIN order' : data'[order'[k]] # target]_vars
  BY <1>1
<1> QED BY <1>2, Invariance, PTL DEF Spec, RemovesEveryOccurrence

(* listAdd returns ERROR_NO_RESOURCE only when the list holds as many values as
   the pool has links, whatever calls came before. *)
THEOREM AddRefusesOnlyWhenFull == Spec => RefusesOnlyWhenFull
<1>1. ASSUME IInv, AddFails
      PROVE  Len(order) = PoolSize
  <2>1. order \in Seq(Links) /\ Injective(order)
    BY <1>1 DEF IInv, TypeOK, WellFormed, OrderIsPool, Injective
  <2>2. \A l \in Links : \E k \in DOMAIN order : order[k] = l
    BY <1>1 DEF IInv, WellFormed, OrderIsPool, AddFails
  <2> QED BY <2>1, <2>2, AllListedIsFull
<1>2. IInv /\ [Next]_vars => [AddFails => Len(order) = PoolSize]_vars
  BY <1>1
<1> QED BY <1>2, Invariance, PTL DEF Spec, RefusesOnlyWhenFull

-----------------------------------------------------------------------------
(* Refinement: the list is a bounded FIFO *)

(* The abstract contents are a sequence of values, one for each listed link. *)
LEMMA ContentsFacts ==
  ASSUME TypeOK
  PROVE  /\ Contents \in Seq(Data)
         /\ Len(Contents) = Len(order)
         /\ \A k \in 1..Len(order) : Contents[k] = data[order[k]]
<1>1. Len(order) \in Nat /\ \A k \in 1..Len(order) : data[order[k]] \in Data
  BY OrderFacts DEF TypeOK
<1>2. Contents \in [1..Len(order) -> Data]
  BY <1>1 DEF Contents
<1>3. Contents \in Seq(Data)
  BY <1>1, <1>2, SeqDef
<1>4. Len(Contents) = Len(order)
  BY <1>1, <1>2, <1>3, LenProperties
<1> QED BY <1>3, <1>4 DEF Contents

(* The same in the next state. *)
LEMMA ContentsNextFacts ==
  ASSUME TypeOK'
  PROVE  /\ Contents' \in Seq(Data)
         /\ Len(Contents') = Len(order')
         /\ \A k \in 1..Len(order') : Contents'[k] = data'[order'[k]]
<1>1. order' \in Seq(Links) /\ data' \in [Links -> Data]
  BY DEF TypeOK
<1>2. Len(order') \in Nat /\ \A k \in 1..Len(order') : data'[order'[k]] \in Data
  BY <1>1, LenProperties, ElementOfSeq
<1>3. Contents' \in [1..Len(order') -> Data]
  BY <1>2 DEF Contents
<1>4. Contents' \in Seq(Data)
  BY <1>2, <1>3, SeqDef
<1>5. Len(Contents') = Len(order')
  BY <1>2, <1>3, <1>4, LenProperties
<1> QED BY <1>4, <1>5 DEF Contents

(* A call of listAdd that finds a link is Enqueue. *)
LEMMA AddIsEnqueue ==
  ASSUME IInv, NEW d \in Data, Add(d)
  PROVE  Fifo!Enqueue(d)
<1>0. /\ Len(order) \in Nat
      /\ DOMAIN order = 1..Len(order)
      /\ order \in Seq(Links)
  BY OrderFacts DEF IInv, TypeOK
<1>1. TypeOK'
  BY AddIInv DEF IInv
<1>2. PICK l \in Links :
        /\ IsEmptyLink(l)
        /\ data' = [data EXCEPT ![l] = d]
        /\ order' = Append(order, l)
  BY DEF Add
<1>3. pc = "idle"
  BY DEF Add
<1>4. /\ Len(order') = Len(order) + 1
      /\ order'[Len(order) + 1] = l
      /\ \A k \in 1..Len(order) : order'[k] = order[k]
  BY <1>0, <1>2, AppendProperties
<1>5. \A k \in 1..Len(order) : order[k] # l /\ order[k] \in Links
  <2>1. \A k \in 1..Len(order) : isUsed[order[k]]
    BY <1>0, <1>3 DEF IInv, WellFormed, OrderIsPool, Freed
  <2>2. ~ isUsed[l]
    BY <1>2 DEF IsEmptyLink
  <2> QED BY <1>0, <2>1, <2>2, OrderFacts DEF IInv
<1>6. Len(order) < PoolSize
  <2>1. Len(order') \in Nat /\ Len(order') <= PoolSize
    BY <1>0, <1>1, <1>4, AddIInv, PoolAssumption
       DEF IInv, TypeOK, WellFormed, CountIsLength
  <2> QED BY <1>0, <1>4, <2>1, PoolAssumption
<1>7. /\ Append(Contents, d) \in Seq(Data)
      /\ Len(Append(Contents, d)) = Len(order) + 1
      /\ \A k \in 1..Len(order) : Append(Contents, d)[k] = data[order[k]]
      /\ Append(Contents, d)[Len(order) + 1] = d
  BY <1>0, ContentsFacts, AppendProperties DEF IInv
<1>8. /\ Contents' \in Seq(Data)
      /\ Len(Contents') = Len(order) + 1
      /\ \A k \in 1..(Len(order) + 1) : Contents'[k] = data'[order'[k]]
  BY <1>1, <1>4, ContentsNextFacts
<1>9. \A k \in 1..(Len(order) + 1) : Contents'[k] = Append(Contents, d)[k]
  <2>1. ASSUME NEW k \in 1..Len(order)
        PROVE  data'[order'[k]] = data[order[k]]
    BY <1>2, <1>4, <1>5 DEF IInv, TypeOK
  <2>2. data'[order'[Len(order) + 1]] = d
    BY <1>2, <1>4 DEF IInv, TypeOK
  <2> QED BY <1>0, <1>7, <1>8, <2>1, <2>2
<1>10. Contents' = Append(Contents, d)
  BY <1>7, <1>8, <1>9, SeqEqual
<1>11. Len(Contents) < PoolSize
  BY <1>6, ContentsFacts DEF IInv
<1> QED BY <1>10, <1>11 DEF Fifo!Enqueue

(* An iteration of listRemoveData that unlinks a link is Delete. *)
LEMMA RemoveMatchIsDelete ==
  ASSUME IInv, RemoveMatch
  PROVE  \E k \in 1..Len(Contents) : Fifo!Delete(k)
<1>0. /\ Len(order) \in Nat
      /\ DOMAIN order = 1..Len(order)
      /\ order \in Seq(Links)
      /\ \A i, j \in 1..Len(order) : order[i] = order[j] => i = j
  BY OrderFacts DEF IInv, TypeOK, WellFormed, OrderIsPool
<1>1. TypeOK'
  BY RemoveMatchIInv DEF IInv
<1>2. PICK k \in 1..Len(order) : plink = order[k]
  BY <1>0 DEF RemoveMatch, IInv, LoopPosition
<1>3. Position(plink) = k
  BY <1>0, <1>2 DEF Position
<1>4. order' = RemoveAt(order, k) /\ data' = data
  BY <1>3 DEF RemoveMatch
<1>5. /\ Len(order') = Len(order) - 1
      /\ \A j \in 1..(Len(order) - 1) :
           order'[j] = IF j < k THEN order[j] ELSE order[j + 1]
  BY <1>0, <1>2, <1>4, RemoveAtProperties
<1>6. /\ Contents \in Seq(Data)
      /\ Len(Contents) = Len(order)
      /\ \A j \in 1..Len(order) : Contents[j] = data[order[j]]
  BY ContentsFacts DEF IInv
<1>7. /\ RemoveAt(Contents, k) \in Seq(Data)
      /\ Len(RemoveAt(Contents, k)) = Len(order) - 1
      /\ \A j \in 1..(Len(order) - 1) :
           RemoveAt(Contents, k)[j] = IF j < k THEN Contents[j] ELSE Contents[j + 1]
  BY <1>2, <1>6, RemoveAtProperties
<1>8. /\ Contents' \in Seq(Data)
      /\ Len(Contents') = Len(order) - 1
      /\ \A j \in 1..(Len(order) - 1) : Contents'[j] = data[order'[j]]
  BY <1>1, <1>4, <1>5, ContentsNextFacts
<1>9. ASSUME NEW j \in 1..(Len(order) - 1)
      PROVE  Contents'[j] = RemoveAt(Contents, k)[j]
  <2>1. j \in 1..Len(order) /\ j + 1 \in 1..Len(order)
    BY <1>0
  <2>2. Contents'[j] = data[IF j < k THEN order[j] ELSE order[j + 1]]
    BY <1>5, <1>8
  <2>3. RemoveAt(Contents, k)[j] = IF j < k THEN Contents[j] ELSE Contents[j + 1]
    BY <1>7
  <2>4. Contents[j] = data[order[j]] /\ Contents[j + 1] = data[order[j + 1]]
    BY <1>6, <2>1
  <2> QED BY <2>2, <2>3, <2>4
<1>10. Contents' = RemoveAt(Contents, k)
  BY <1>7, <1>8, <1>9, SeqEqual
<1>11. k \in 1..Len(Contents)
  BY <1>2, <1>6
<1>12. Fifo!Delete(k)
  BY <1>10 DEF Fifo!Delete, Fifo!RemoveAt, RemoveAt
<1> QED BY <1>11, <1>12

(* Every step that leaves the history and the stored values of listed links
   alone leaves the abstract queue alone. *)
LEMMA OtherStepsStutter ==
  ASSUME IInv, UNCHANGED <<data, order>>
  PROVE  UNCHANGED Contents
BY DEF Contents

(* listRemoveAll empties the queue when it returns. *)
LEMMA ClearReturnIsClear ==
  ASSUME IInv, ClearReturn
  PROVE  Fifo!Clear
<1>1. TypeOK' /\ order' = << >>
  BY ClearReturnIInv DEF ClearReturn, IInv
<1>2. Contents' \in Seq(Data) /\ Len(Contents') = 0
  BY <1>1, ContentsNextFacts, EmptySeq
<1>3. Contents' = << >>
  BY <1>2, EmptySeq
<1> QED BY <1>3 DEF Fifo!Clear

(* list.c implements the bounded FIFO of EventFifo, step by step. *)
THEOREM Refinement == Spec => ImplementsFifo
<1>1. Init => Fifo!Init
  <2> SUFFICES ASSUME Init PROVE Contents = << >>
    BY DEF Fifo!Init
  <2>1. TypeOK /\ Len(order) = 0
    BY InitIInv, EmptySeq DEF Init, IInv
  <2>2. Contents \in Seq(Data) /\ Len(Contents) = 0
    BY <2>1, ContentsFacts
  <2> QED BY <2>2, EmptySeq
<1>2. IInv /\ [Next]_vars => [Fifo!Next]_Contents
  <2> SUFFICES ASSUME IInv, [Next]_vars PROVE Fifo!Next \/ UNCHANGED Contents
    OBVIOUS
  <2>1. ASSUME NEW d \in Data, Add(d) PROVE Fifo!Next
    BY <2>1, AddIsEnqueue DEF Fifo!Next
  <2>2. CASE RemoveMatch
    BY <2>2, RemoveMatchIsDelete DEF Fifo!Next
  <2>3. CASE ClearReturn
    BY <2>3, ClearReturnIsClear DEF Fifo!Next
  <2>4. CASE AddFails \/ ClearBegin \/ RemoveSkip \/ RemoveReturn \/ ClearLink
    BY <2>4, OtherStepsStutter
       DEF AddFails, ClearBegin, RemoveSkip, RemoveReturn, ClearLink, listVars
  <2>5. ASSUME NEW d \in Data, RemoveBegin(d) PROVE UNCHANGED Contents
    BY <2>5, OtherStepsStutter DEF RemoveBegin, listVars
  <2>6. CASE UNCHANGED vars
    BY <2>6, OtherStepsStutter DEF vars, listVars
  <2> QED BY <2>1, <2>2, <2>3, <2>4, <2>5, <2>6 DEF Next, Loop
<1> QED BY <1>1, <1>2, Invariance, PTL DEF Spec, ImplementsFifo, Fifo!Spec
=============================================================================
