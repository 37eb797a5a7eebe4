------------------------- MODULE ExecutorQueueProofs -------------------------
(***************************************************************************)
(* Proofs about ExecutorQueue, for any groups, reservations and sizes: the *)
(* list of queues and its cursor stay consistent, turns are taken round    *)
(* robin, every reservation is counted, the tasks that run fit in the      *)
(* executor together, and nothing runs after the shutdown.                 *)
(***************************************************************************)
EXTENDS ExecutorQueue, SequenceTheorems, FiniteSetTheorems,
        WellFoundedInduction, TLAPS

(* The list without its i-th element. *)
LEMMA RemoveAtProperties ==
  ASSUME NEW S, NEW s \in Seq(S), NEW i \in 1..Len(s)
  PROVE  /\ RemoveAt(s, i) \in Seq(S)
         /\ Len(RemoveAt(s, i)) = Len(s) - 1
         /\ \A j \in 1..(Len(s) - 1) :
              RemoveAt(s, i)[j] = IF j < i THEN s[j] ELSE s[j + 1]
<1> DEFINE a == SubSeq(s, 1, i - 1)
           b == SubSeq(s, i + 1, Len(s))
<1>1. Len(s) \in Nat /\ \A k \in 1..Len(s) : s[k] \in S
  BY LenProperties, ElementOfSeq
<1>2. a \in Seq(S) /\ Len(a) = i - 1 /\ \A k \in 1..(i - 1) : a[k] = s[k]
  <2>1. \A k \in 1..(i - 1) : s[k] \in S
    BY <1>1
  <2>2. /\ a \in Seq(S)
        /\ Len(a) = IF 1 <= i - 1 THEN (i - 1) - 1 + 1 ELSE 0
        /\ \A k \in 1..((i - 1) - 1 + 1) : a[k] = s[1 + k - 1]
    BY <1>1, <2>1, SubSeqProperties
  <2> QED
    BY <1>1, <2>2
<1>3. /\ b \in Seq(S) /\ Len(b) = Len(s) - i
      /\ \A k \in 1..(Len(s) - i) : b[k] = s[i + k]
  <2>1. \A k \in (i + 1)..Len(s) : s[k] \in S
    BY <1>1
  <2>2. /\ b \in Seq(S)
        /\ Len(b) = IF i + 1 <= Len(s) THEN Len(s) - (i + 1) + 1 ELSE 0
        /\ \A k \in 1..(Len(s) - (i + 1) + 1) : b[k] = s[i + 1 + k - 1]
    BY <1>1, <2>1, SubSeqProperties
  <2> QED
    BY <1>1, <2>2
<1>4. RemoveAt(s, i) = a \o b
  BY DEF RemoveAt
<1>5. /\ a \o b \in Seq(S)
      /\ Len(a \o b) = Len(a) + Len(b)
      /\ \A j \in 1..(Len(a) + Len(b)) :
           (a \o b)[j] = IF j <= Len(a) THEN a[j] ELSE b[j - Len(a)]
  BY <1>2, <1>3, ConcatProperties
<1> HIDE DEF a, b
<1>6. \A j \in 1..(Len(s) - 1) :
        (a \o b)[j] = IF j < i THEN s[j] ELSE s[j + 1]
  <2> TAKE j \in 1..(Len(s) - 1)
  <2>1. CASE j < i
    <3>1. j \in 1..(i - 1) /\ j \in 1..(Len(a) + Len(b)) /\ j <= Len(a)
      BY <1>1, <1>2, <1>3, <2>1
    <3> QED
      BY <1>2, <1>5, <2>1, <3>1
  <2>2. CASE ~(j < i)
    <3>1. j \in 1..(Len(a) + Len(b)) /\ ~(j <= Len(a))
      BY <1>1, <1>2, <1>3, <2>2
    <3>2. j - (i - 1) \in 1..(Len(s) - i) /\ i + (j - (i - 1)) = j + 1
      BY <1>1, <2>2
    <3>3. (a \o b)[j] = b[j - (i - 1)]
      BY <1>2, <1>5, <3>1
    <3> QED
      BY <1>3, <2>2, <3>2, <3>3
  <2> QED
    BY <2>1, <2>2
<1> QED
  BY <1>1, <1>2, <1>3, <1>4, <1>5, <1>6

-----------------------------------------------------------------------------
(* Sums over finite sets.  The library adds up by a recursive function     *)
(* over the subsets of the set, of which nothing is known before it is     *)
(* shown to exist; from that it follows that a total depends only on the   *)
(* values, and not on the order in which they are added.                   *)

Total(f, S) == MapThenSumSet(LAMBDA x : f[x], S)

First(s) == CHOOSE x \in s : TRUE

Iterates(g, f, S) ==
  g = [s \in SUBSET S |-> IF s = {} THEN 0 ELSE f[First(s)] + g[s \ {First(s)}]]

(* A total is what the library's recursive function gives for the set. *)
LEMMA TotalIterates ==
  ASSUME NEW f, NEW S
  PROVE  Total(f, S) = (CHOOSE g : Iterates(g, f, S))[S]
BY DEF Total, MapThenSumSet, MapThenFoldSet, Iterates, First

(* The library adds the elements up in the order CHOOSE gives them. *)
LEMMA FirstIn == \A s : s # {} => First(s) \in s
BY DEF First

(* Of the subsets of a finite set that have some property, one has no      *)
(* smaller one with it.                                                    *)
LEMMA SmallestSubset ==
  ASSUME NEW S, IsFiniteSet(S), NEW T \in SUBSET SUBSET S, T # {}
  PROVE  \E s \in T : \A t \in T : t \subseteq s => t = s
<1>1. IsWellFoundedOn(StrictSubsetOrdering(S), SUBSET S)
  BY FS_StrictSubsetOrderingWellFounded, FS_FiniteSubsetsOfFinite
<1>2. PICK s \in T : \A t \in T : ~ (<<t, s>> \in StrictSubsetOrdering(S))
  BY <1>1, WFMin
<1>3. ASSUME NEW t \in T, t \subseteq s, t # s
      PROVE  <<t, s>> \in StrictSubsetOrdering(S)
  BY <1>3 DEF StrictSubsetOrdering
<1>4. \A t \in T : t \subseteq s => t = s
  BY <1>2, <1>3
<1> QED
  BY <1>4

(* Two such functions, for subsets of any two sets and with the same      *)
(* values on s, agree on s.                                                *)
LEMMA IteratesAgree ==
  ASSUME NEW s, IsFiniteSet(s), NEW R, NEW S, s \subseteq R, s \subseteq S,
         NEW f, NEW h, \A x \in s : f[x] = h[x],
         NEW g, Iterates(g, f, R), NEW k, Iterates(k, h, S)
  PROVE  g[s] = k[s]
<1> DEFINE T == {t \in SUBSET s : g[t] # k[t]}
<1> SUFFICES ASSUME T # {} PROVE FALSE
  OBVIOUS
<1>0. T \in SUBSET SUBSET s
  OBVIOUS
<1>1. PICK t \in T : \A u \in T : u \subseteq t => u = t
  <2> HIDE DEF T
  <2> QED
    BY <1>0, SmallestSubset
<1>2. t \in SUBSET R /\ t \in SUBSET S
  OBVIOUS
<1>3. g[t] = IF t = {} THEN 0 ELSE f[First(t)] + g[t \ {First(t)}]
  BY <1>2 DEF Iterates
<1>4. k[t] = IF t = {} THEN 0 ELSE h[First(t)] + k[t \ {First(t)}]
  BY <1>2 DEF Iterates
<1>5. t # {} /\ First(t) \in t
  BY <1>3, <1>4, FirstIn
<1>6. g[t \ {First(t)}] = k[t \ {First(t)}]
  BY <1>1, <1>5
<1> QED
  BY <1>3, <1>4, <1>5, <1>6

(* There is such a function: it is put together from those of the smaller  *)
(* sets.                                                                   *)
LEMMA IteratesExists ==
  ASSUME NEW f, NEW S, IsFiniteSet(S)
  PROVE  \E g : Iterates(g, f, S)
<1> DEFINE T == {t \in SUBSET S : ~ \E g : Iterates(g, f, t)}
<1> SUFFICES ASSUME T # {} PROVE FALSE
  OBVIOUS
<1>0. T \in SUBSET SUBSET S
  OBVIOUS
<1>1. PICK s \in T : \A t \in T : t \subseteq s => t = s
  <2> HIDE DEF T
  <2> QED
    BY <1>0, SmallestSubset
<1>2. s \in SUBSET S /\ ~ \E g : Iterates(g, f, s)
  OBVIOUS
<1>3. ASSUME NEW t \in SUBSET s, t # s
      PROVE  \E g : Iterates(g, f, t)
  BY <1>1, <1>2, <1>3
<1> DEFINE part(t) == (CHOOSE g : Iterates(g, f, t))[t]
           whole == [t \in SUBSET s |->
                      IF t = {} THEN 0 ELSE f[First(t)] + part(t \ {First(t)})]
<1>4. ASSUME NEW t \in SUBSET s, t # s
      PROVE  part(t) = IF t = {} THEN 0 ELSE f[First(t)] + part(t \ {First(t)})
  <2> DEFINE g == CHOOSE g : Iterates(g, f, t)
  <2>1. Iterates(g, f, t)
    BY <1>3, <1>4
  <2>2. g[t] = IF t = {} THEN 0 ELSE f[First(t)] + g[t \ {First(t)}]
    BY <2>1 DEF Iterates
  <2>3. ASSUME t # {} PROVE g[t \ {First(t)}] = part(t \ {First(t)})
    <3> DEFINE u == t \ {First(t)}
               k == CHOOSE k : Iterates(k, f, u)
    <3>1. u \in SUBSET s /\ u # s /\ u \subseteq t
      BY <2>3, FirstIn
    <3>2. Iterates(k, f, u)
      BY <1>3, <3>1
    <3>3. IsFiniteSet(u)
      BY <1>2, <3>1, FS_Subset
    <3> HIDE DEF u, g, k
    <3>4. g[u] = k[u]
      BY <2>1, <3>1, <3>2, <3>3, IteratesAgree
    <3> QED
      BY <3>4 DEF u, k
  <2> QED
    BY <2>2, <2>3
<1>5. ASSUME NEW t \in SUBSET s, t # {}
      PROVE  whole[t \ {First(t)}] = part(t \ {First(t)})
  <2>1. t \ {First(t)} \in SUBSET s /\ t \ {First(t)} # s
    BY <1>5, FirstIn
  <2> QED
    BY <1>4, <2>1
<1>6. Iterates(whole, f, s)
  <2>1. whole = [t \in SUBSET s |-> whole[t]]
    OBVIOUS
  <2>2. ASSUME NEW t \in SUBSET s
        PROVE  whole[t] = IF t = {} THEN 0 ELSE f[First(t)] + whole[t \ {First(t)}]
    <3>1. whole[t] = IF t = {} THEN 0 ELSE f[First(t)] + part(t \ {First(t)})
      OBVIOUS
    <3> HIDE DEF whole, part
    <3> QED
      BY <1>5, <3>1
  <2> HIDE DEF whole
  <2> QED
    BY <2>1, <2>2 DEF Iterates
<1> QED
  BY <1>2, <1>6

(* The recursion, now as a fact. *)
LEMMA TotalUnfolds ==
  ASSUME NEW S, IsFiniteSet(S), NEW f
  PROVE  Total(f, S) = IF S = {} THEN 0
                       ELSE f[First(S)] + Total(f, S \ {First(S)})
<1> DEFINE g == CHOOSE g : Iterates(g, f, S)
           u == S \ {First(S)}
           k == CHOOSE k : Iterates(k, f, u)
<1>1. IsFiniteSet(u) /\ u \subseteq S
  BY FS_Subset
<1>2. Iterates(g, f, S) /\ Iterates(k, f, u)
  BY <1>1, IteratesExists
<1>3. Total(f, S) = g[S] /\ Total(f, u) = k[u]
  BY TotalIterates
<1>4. g[S] = IF S = {} THEN 0 ELSE f[First(S)] + g[u]
  BY <1>2 DEF Iterates
<1> HIDE DEF g, u, k
<1>5. g[u] = k[u]
  BY <1>1, <1>2, IteratesAgree
<1>6. Total(f, S) = IF S = {} THEN 0 ELSE f[First(S)] + Total(f, u)
  BY <1>3, <1>4, <1>5
<1> QED
  BY <1>6 DEF u

(* A total depends only on the values it adds up. *)
LEMMA TotalAgrees ==
  ASSUME NEW S, IsFiniteSet(S), NEW f, NEW h, \A x \in S : f[x] = h[x]
  PROVE  Total(f, S) = Total(h, S)
<1> DEFINE g == CHOOSE g : Iterates(g, f, S)
           k == CHOOSE k : Iterates(k, h, S)
<1>1. Iterates(g, f, S) /\ Iterates(k, h, S)
  BY IteratesExists
<1>2. Total(f, S) = g[S] /\ Total(h, S) = k[S]
  BY TotalIterates
<1> HIDE DEF g, k
<1> QED
  BY <1>1, <1>2, IteratesAgree

(* The sum of nothing, of numbers, and of zeros. *)
LEMMA TotalEmpty == \A f : Total(f, {}) = 0
BY TotalUnfolds, FS_EmptySet

LEMMA TotalNat ==
  ASSUME NEW S, IsFiniteSet(S), NEW f, \A x \in S : f[x] \in Nat
  PROVE  Total(f, S) \in Nat
<1> DEFINE T == {t \in SUBSET S : Total(f, t) \notin Nat}
<1> SUFFICES ASSUME T # {} PROVE FALSE
  OBVIOUS
<1>0. T \in SUBSET SUBSET S
  OBVIOUS
<1>1. PICK s \in T : \A t \in T : t \subseteq s => t = s
  <2> HIDE DEF T
  <2> QED
    BY <1>0, SmallestSubset
<1>2. IsFiniteSet(s) /\ s \subseteq S
  BY FS_Subset
<1>3. Total(f, s) = IF s = {} THEN 0 ELSE f[First(s)] + Total(f, s \ {First(s)})
  BY <1>2, TotalUnfolds
<1>4. s # {}
  BY <1>3
<1>5. First(s) \in s /\ f[First(s)] \in Nat
  BY <1>2, <1>4, FirstIn
<1>6. Total(f, s \ {First(s)}) \in Nat
  BY <1>1, <1>5
<1> QED
  BY <1>3, <1>4, <1>5, <1>6

LEMMA TotalZero ==
  ASSUME NEW S, IsFiniteSet(S)
  PROVE  Total([x \in S |-> 0], S) = 0
<1> DEFINE f == [x \in S |-> 0]
           T == {t \in SUBSET S : Total(f, t) # 0}
<1> SUFFICES ASSUME T # {} PROVE FALSE
  OBVIOUS
<1>0. T \in SUBSET SUBSET S /\ \A x \in S : f[x] = 0
  OBVIOUS
<1>1. PICK s \in T : \A t \in T : t \subseteq s => t = s
  <2> HIDE DEF T
  <2> QED
    BY <1>0, SmallestSubset
<1>2. IsFiniteSet(s) /\ s \subseteq S /\ Total(f, s) # 0
  BY FS_Subset
<1> HIDE DEF f
<1>3. Total(f, s) = IF s = {} THEN 0 ELSE f[First(s)] + Total(f, s \ {First(s)})
  BY <1>2, TotalUnfolds
<1>4. First(s) \in s /\ f[First(s)] = 0
  BY <1>0, <1>2, <1>3, FirstIn
<1>5. Total(f, s \ {First(s)}) = 0
  BY <1>1, <1>4
<1> QED
  BY <1>2, <1>3, <1>4, <1>5

(* The order in which a total adds up does not matter. *)
LEMMA TotalWithout ==
  ASSUME NEW S, IsFiniteSet(S), NEW f, \A x \in S : f[x] \in Nat, NEW a \in S
  PROVE  Total(f, S) = f[a] + Total(f, S \ {a})
<1> DEFINE T == {t \in SUBSET S : \E x \in t : Total(f, t) # f[x] + Total(f, t \ {x})}
<1> SUFFICES ASSUME T # {} PROVE FALSE
  OBVIOUS
<1>0. T \in SUBSET SUBSET S
  OBVIOUS
<1>1. PICK s \in T : \A t \in T : t \subseteq s => t = s
  <2> HIDE DEF T
  <2> QED
    BY <1>0, SmallestSubset
<1>2. PICK x \in s : Total(f, s) # f[x] + Total(f, s \ {x})
  OBVIOUS
<1> DEFINE c == First(s)
<1>3. s \subseteq S /\ IsFiniteSet(s) /\ IsFiniteSet(s \ {x}) /\ IsFiniteSet(s \ {c})
      /\ IsFiniteSet((s \ {x}) \ {c})
  BY FS_Subset
<1>4. c \in s /\ Total(f, s) = f[c] + Total(f, s \ {c})
  BY <1>3, TotalUnfolds, FirstIn
<1> HIDE DEF c
<1>5. c # x
  BY <1>2, <1>4
<1>6. \A t \in SUBSET s : t # s => \A y \in t : Total(f, t) = f[y] + Total(f, t \ {y})
  BY <1>1, <1>3
<1>7. Total(f, s \ {c}) = f[x] + Total(f, (s \ {c}) \ {x})
  BY <1>4, <1>5, <1>6
<1>8. Total(f, s \ {x}) = f[c] + Total(f, (s \ {x}) \ {c})
  BY <1>4, <1>5, <1>6
<1>9. (s \ {c}) \ {x} = (s \ {x}) \ {c}
  OBVIOUS
<1>10. Total(f, (s \ {x}) \ {c}) \in Nat /\ f[x] \in Nat /\ f[c] \in Nat
  BY <1>3, <1>4, TotalNat
<1> DEFINE rest == Total(f, (s \ {x}) \ {c})
<1>11. /\ Total(f, s) = f[c] + (f[x] + rest)
       /\ f[x] + Total(f, s \ {x}) = f[x] + (f[c] + rest)
       /\ rest \in Nat /\ f[x] \in Nat /\ f[c] \in Nat
  BY <1>4, <1>7, <1>8, <1>9, <1>10
<1> HIDE DEF rest
<1> QED
  BY <1>2, <1>11

-----------------------------------------------------------------------------
(* The list of queues and its cursor.                                      *)

QueueInv == QueueTypeOK /\ WellFormed

(* Places and groups determine each other in a list without repetitions.   *)
LEMMA PlaceIs ==
  ASSUME QueueInv
  PROVE  /\ Len(pqs) \in Nat
         /\ \A i \in 1..Len(pqs) : pqs[i] \in Group /\ Place(pqs[i]) = i
         /\ \A g \in ToSet(pqs) :
              Place(g) \in 1..Len(pqs) /\ pqs[Place(g)] = g
<1>1. /\ Len(pqs) \in Nat /\ DOMAIN pqs = 1..Len(pqs)
      /\ \A i \in 1..Len(pqs) : pqs[i] \in Group
  BY LenProperties, ElementOfSeq DEF QueueInv, QueueTypeOK
<1>2. \A i \in 1..Len(pqs) : Place(pqs[i]) = i
  BY <1>1 DEF QueueInv, WellFormed, Place
<1>3. \A g \in ToSet(pqs) : \E i \in 1..Len(pqs) : g = pqs[i]
  BY <1>1 DEF ToSet
<1> QED
  BY <1>1, <1>2, <1>3

(* What is in a sequence, in terms of positions. *)
LEMMA ListOf ==
  ASSUME NEW S, NEW l \in Seq(S)
  PROVE  /\ Len(l) \in Nat /\ DOMAIN l = 1..Len(l)
         /\ \A i \in 1..Len(l) : l[i] \in S
         /\ \A g : g \in ToSet(l) <=> \E i \in 1..Len(l) : l[i] = g
         /\ l = <<>> <=> Len(l) = 0
<1>1. Len(l) \in Nat /\ DOMAIN l = 1..Len(l) /\ \A i \in 1..Len(l) : l[i] \in S
  BY LenProperties, ElementOfSeq
<1>2. l = <<>> <=> Len(l) = 0
  BY EmptySeq, <1>1
<1> QED
  BY <1>1, <1>2 DEF ToSet

LEMMA EnqueuePreserves ==
  ASSUME QueueInv, NEW r \in Reservation, Enqueue(r)
  PROVE  QueueInv'
<1> DEFINE g == GroupOf[r]
<1>1. g \in Group /\ NoGroup \notin Group
  BY QueueConstantsOK
<1>2. fifo' \in [Group -> Seq(Reservation)] /\ fifo'[g] # <<>>
      /\ \A h \in Group : h # g => fifo'[h] = fifo[h]
  <2>1. fifo \in [Group -> Seq(Reservation)]
    BY DEF QueueInv, QueueTypeOK
  <2>2. fifo' = [fifo EXCEPT ![g] = Append(fifo[g], r)]
    BY DEF Enqueue
  <2>3. fifo[g] \in Seq(Reservation)
    BY <1>1, <2>1
  <2>4. Append(fifo[g], r) \in Seq(Reservation) /\ Append(fifo[g], r) # <<>>
    BY <2>3, AppendProperties
  <2> HIDE DEF g
  <2>5. /\ fifo' \in [Group -> Seq(Reservation)]
        /\ fifo'[g] = Append(fifo[g], r)
        /\ \A h \in Group : h # g => fifo'[h] = fifo[h]
    BY <1>1, <2>1, <2>2, <2>4
  <2> QED
    BY <2>4, <2>5
<1>3. numTasks' \in Nat
  BY DEF QueueInv, QueueTypeOK, Enqueue
<1>4. CASE fifo[g] # <<>>
  <2>1. pqs' = pqs /\ currentPQ' = currentPQ
    BY <1>4 DEF Enqueue
  <2>2. QueueTypeOK'
    BY <1>2, <1>3, <2>1 DEF QueueInv, QueueTypeOK
  <2>3. \A h \in Group : h \in ToSet(pqs') <=> fifo'[h] # <<>>
    BY <1>1, <1>2, <1>4, <2>1 DEF QueueInv, WellFormed
  <2> QED
    BY <2>1, <2>2, <2>3 DEF QueueInv, WellFormed
<1>5. CASE fifo[g] = <<>>
  <2>1. /\ pqs' = Append(pqs, g)
        /\ currentPQ' = IF currentPQ = NoGroup THEN g ELSE currentPQ
    BY <1>5 DEF Enqueue
  <2>2. /\ pqs' \in Seq(Group) /\ Len(pqs') = Len(pqs) + 1
        /\ \A i \in 1..Len(pqs) : pqs'[i] = pqs[i]
        /\ pqs'[Len(pqs) + 1] = g
        /\ Len(pqs) \in Nat
    BY <1>1, <2>1, AppendProperties, ListOf DEF QueueInv, QueueTypeOK
  <2>3. g \notin ToSet(pqs)
    BY <1>1, <1>5 DEF QueueInv, WellFormed
  <2>4. \A i \in 1..Len(pqs) : pqs[i] # g
    BY <2>3, ListOf DEF QueueInv, QueueTypeOK
  <2>5. \A i, j \in DOMAIN pqs' : pqs'[i] = pqs'[j] => i = j
    <3>1. DOMAIN pqs' = 1..(Len(pqs) + 1) /\ DOMAIN pqs = 1..Len(pqs)
      BY <2>2, ListOf DEF QueueInv, QueueTypeOK
    <3>2. \A i, j \in 1..Len(pqs) : pqs[i] = pqs[j] => i = j
      BY <3>1 DEF QueueInv, WellFormed
    <3> QED
      BY <2>2, <2>4, <3>1, <3>2
  <2>6. \A h : h \in ToSet(pqs') <=> (h \in ToSet(pqs) \/ h = g)
    <3>1. \A h : h \in ToSet(pqs') <=> \E i \in 1..(Len(pqs) + 1) : pqs'[i] = h
      BY <2>2, ListOf
    <3>2. \A h : h \in ToSet(pqs) <=> \E i \in 1..Len(pqs) : pqs[i] = h
      BY ListOf DEF QueueInv, QueueTypeOK
    <3> QED
      BY <2>2, <3>1, <3>2
  <2>7. \A h \in Group : h \in ToSet(pqs') <=> fifo'[h] # <<>>
    BY <1>2, <2>6 DEF QueueInv, WellFormed
  <2>8. pqs' # <<>>
    BY <1>1, <2>1, AppendProperties DEF QueueInv, QueueTypeOK
  <2>9. currentPQ' # NoGroup /\ currentPQ' \in ToSet(pqs') /\ currentPQ' \in Group
    BY <1>1, <2>1, <2>6 DEF QueueInv, QueueTypeOK, WellFormed
  <2> QED
    BY <1>2, <1>3, <2>2, <2>5, <2>7, <2>8, <2>9
       DEF QueueInv, QueueTypeOK, WellFormed
<1> QED
  BY <1>4, <1>5

(* What Dequeue does to the list: c is the place of the cursor. *)
LEMMA DequeueEffect ==
  ASSUME QueueInv, currentPQ # NoGroup, Dequeue, NEW c, c = Place(currentPQ)
  PROVE  /\ c \in 1..Len(pqs) /\ pqs[c] = currentPQ
         /\ pqs' \in Seq(Group)
         /\ fifo' \in [Group -> Seq(Reservation)]
         /\ \A g \in Group : g # currentPQ => fifo'[g] = fifo[g]
         /\ \/ pqs' = pqs /\ fifo'[currentPQ] # <<>>
            \/ /\ fifo'[currentPQ] = <<>>
               /\ Len(pqs') = Len(pqs) - 1
               /\ \A j \in 1..(Len(pqs) - 1) :
                    pqs'[j] = IF j < c THEN pqs[j] ELSE pqs[j + 1]
         /\ currentPQ' = IF c < Len(pqs) THEN pqs[c + 1]
                         ELSE IF pqs' = <<>> THEN NoGroup ELSE pqs'[1]
<1>1. currentPQ \in ToSet(pqs) /\ currentPQ \in Group
  BY DEF QueueInv, QueueTypeOK, WellFormed
<1>2. c \in 1..Len(pqs) /\ pqs[c] = currentPQ
  BY <1>1, PlaceIs
<1>3. fifo[currentPQ] \in Seq(Reservation) /\ fifo[currentPQ] # <<>>
  BY <1>1 DEF QueueInv, QueueTypeOK, WellFormed
<1>4. /\ Tail(fifo[currentPQ]) \in Seq(Reservation)
      /\ Len(Tail(fifo[currentPQ])) = Len(fifo[currentPQ]) - 1
  BY <1>3, HeadTailProperties
<1>5. Tail(fifo[currentPQ]) = <<>> <=> Len(fifo[currentPQ]) = 1
  <2>1. Tail(fifo[currentPQ]) = <<>> <=> Len(Tail(fifo[currentPQ])) = 0
    BY <1>4, ListOf
  <2>2. Len(fifo[currentPQ]) \in Nat
    BY <1>3, LenProperties
  <2> QED
    BY <1>4, <2>1, <2>2
<1>6. /\ fifo' \in [Group -> Seq(Reservation)]
      /\ fifo'[currentPQ] = Tail(fifo[currentPQ])
      /\ \A g \in Group : g # currentPQ => fifo'[g] = fifo[g]
  BY <1>1, <1>4 DEF QueueInv, QueueTypeOK, Dequeue
<1>7. /\ RemoveAt(pqs, c) \in Seq(Group)
      /\ Len(RemoveAt(pqs, c)) = Len(pqs) - 1
      /\ \A j \in 1..(Len(pqs) - 1) :
           RemoveAt(pqs, c)[j] = IF j < c THEN pqs[j] ELSE pqs[j + 1]
  BY <1>2, RemoveAtProperties DEF QueueInv, QueueTypeOK
<1>8. pqs' = IF Len(fifo[currentPQ]) = 1 THEN RemoveAt(pqs, c) ELSE pqs
  BY DEF Dequeue
<1>9. currentPQ' = IF c < Len(pqs) THEN pqs[c + 1]
                   ELSE IF pqs' = <<>> THEN NoGroup ELSE pqs'[1]
  BY DEF Dequeue, NextTurn
<1>10. pqs \in Seq(Group)
  BY DEF QueueInv, QueueTypeOK
<1> QED
  BY <1>2, <1>5, <1>6, <1>7, <1>8, <1>9, <1>10

LEMMA DequeuePreserves ==
  ASSUME QueueInv, currentPQ # NoGroup, numTasks # 0, Dequeue
  PROVE  QueueInv'
<1> DEFINE c == Place(currentPQ)
           n == Len(pqs)
<1>1. /\ c \in 1..n /\ pqs[c] = currentPQ
      /\ pqs' \in Seq(Group)
      /\ fifo' \in [Group -> Seq(Reservation)]
      /\ \A g \in Group : g # currentPQ => fifo'[g] = fifo[g]
      /\ currentPQ' = IF c < n THEN pqs[c + 1]
                      ELSE IF pqs' = <<>> THEN NoGroup ELSE pqs'[1]
  BY DequeueEffect
<1>2. \/ pqs' = pqs /\ fifo'[currentPQ] # <<>>
      \/ /\ fifo'[currentPQ] = <<>>
         /\ Len(pqs') = n - 1
         /\ \A j \in 1..(n - 1) :
              pqs'[j] = IF j < c THEN pqs[j] ELSE pqs[j + 1]
  BY DequeueEffect
<1>3. numTasks' \in Nat
  BY DEF QueueInv, QueueTypeOK, Dequeue
<1>4. /\ n \in Nat /\ DOMAIN pqs = 1..n
      /\ \A i \in 1..n : pqs[i] \in Group
      /\ \A g : g \in ToSet(pqs) <=> \E i \in 1..n : pqs[i] = g
  BY ListOf DEF QueueInv, QueueTypeOK
<1>5. \A i, j \in 1..n : pqs[i] = pqs[j] => i = j
  BY <1>4 DEF QueueInv, WellFormed
<1>6. /\ Len(pqs') \in Nat /\ DOMAIN pqs' = 1..Len(pqs')
      /\ \A i \in 1..Len(pqs') : pqs'[i] \in Group
      /\ \A g : g \in ToSet(pqs') <=> \E i \in 1..Len(pqs') : pqs'[i] = g
      /\ pqs' = <<>> <=> Len(pqs') = 0
  BY <1>1, ListOf
<1>7. currentPQ \in Group /\ NoGroup \notin Group
  BY QueueConstantsOK DEF QueueInv, QueueTypeOK
<1> HIDE DEF c, n
<1>8. CASE pqs' = pqs /\ fifo'[currentPQ] # <<>>
  <2>1. currentPQ' = IF c < n THEN pqs[c + 1] ELSE pqs[1]
    BY <1>1, <1>4, <1>6, <1>8 DEF n
  <2>2. currentPQ' \in Group /\ currentPQ' \in ToSet(pqs')
    BY <1>1, <1>4, <1>8, <2>1
  <2>3. \A g \in Group : g \in ToSet(pqs') <=> fifo'[g] # <<>>
    BY <1>1, <1>4, <1>8 DEF QueueInv, WellFormed
  <2>4. pqs' # <<>>
    BY <1>1, <1>6, <1>8 DEF n
  <2> QED
    BY <1>1, <1>3, <1>4, <1>5, <1>7, <1>8, <2>2, <2>3, <2>4
       DEF QueueInv, QueueTypeOK, WellFormed
<1>9. CASE /\ fifo'[currentPQ] = <<>>
           /\ Len(pqs') = n - 1
           /\ \A j \in 1..(n - 1) :
                pqs'[j] = IF j < c THEN pqs[j] ELSE pqs[j + 1]
  <2> DEFINE old(j) == IF j < c THEN j ELSE j + 1
  <2>1. \A j \in 1..(n - 1) :
          old(j) \in 1..n /\ old(j) # c /\ pqs'[j] = pqs[old(j)]
    BY <1>1, <1>4, <1>9
  <2>2. \A i, j \in 1..(n - 1) : old(i) = old(j) => i = j
    <3>1. c \in Int /\ n \in Int
      BY <1>1, <1>4
    <3> QED
      BY <3>1
  <2>3. \A i \in 1..n : i # c => \E j \in 1..(n - 1) : old(j) = i
    <3> SUFFICES ASSUME NEW i \in 1..n, i # c
                 PROVE  \E j \in 1..(n - 1) : old(j) = i
      OBVIOUS
    <3>1. CASE i < c
      <4>1. i \in 1..(n - 1) /\ old(i) = i
        BY <1>1, <1>4, <3>1
      <4> QED
        BY <4>1
    <3>2. CASE i > c
      <4>1. i - 1 \in 1..(n - 1) /\ old(i - 1) = i
        BY <1>1, <1>4, <3>2
      <4> QED
        BY <4>1
    <3>3. i < c \/ i > c
      <4>1. c \in Int /\ n \in Int
        BY <1>1, <1>4
      <4> QED
        BY <4>1
    <3> QED
      BY <3>1, <3>2, <3>3
  <2> HIDE DEF old
  <2>4. \A i, j \in 1..(n - 1) : pqs'[i] = pqs'[j] => i = j
    BY <1>5, <2>1, <2>2
  <2>5. \A g : g \in ToSet(pqs') <=> (g \in ToSet(pqs) /\ g # currentPQ)
    <3>1. ASSUME NEW g, g \in ToSet(pqs')
          PROVE  g \in ToSet(pqs) /\ g # currentPQ
      <4>1. PICK j \in 1..(n - 1) : pqs'[j] = g
        BY <1>6, <1>9, <3>1
      <4> QED
        BY <1>1, <1>4, <1>5, <2>1, <4>1
    <3>2. ASSUME NEW g, g \in ToSet(pqs), g # currentPQ
          PROVE  g \in ToSet(pqs')
      <4>1. PICK i \in 1..n : pqs[i] = g
        BY <1>4, <3>2
      <4>2. PICK j \in 1..(n - 1) : old(j) = i
        BY <1>1, <2>3, <3>2, <4>1
      <4>3. j \in 1..Len(pqs') /\ pqs'[j] = g
        BY <1>9, <2>1, <4>1, <4>2
      <4> QED
        BY <1>6, <4>3
    <3> QED
      BY <3>1, <3>2
  <2>6. \A g \in Group : g \in ToSet(pqs') <=> fifo'[g] # <<>>
    BY <1>1, <1>9, <2>5 DEF QueueInv, WellFormed
  <2>7. CASE c < n
    <3>1. currentPQ' = pqs[c + 1] /\ c + 1 \in 1..n /\ c + 1 # c
      BY <1>1, <1>4, <2>7
    <3>2. currentPQ' \in Group /\ currentPQ' \in ToSet(pqs')
      BY <1>1, <1>4, <1>5, <2>5, <3>1
    <3>3. pqs' # <<>>
      BY <1>1, <1>4, <1>6, <1>9, <2>7
    <3> QED
      BY <1>1, <1>3, <1>6, <1>7, <1>9, <2>4, <2>6, <3>2, <3>3
         DEF QueueInv, QueueTypeOK, WellFormed
  <2>8. CASE ~(c < n)
    <3>1. currentPQ' = IF pqs' = <<>> THEN NoGroup ELSE pqs'[1]
      BY <1>1, <2>8
    <3>2. pqs' # <<>> => currentPQ' \in Group /\ currentPQ' \in ToSet(pqs')
      BY <1>6, <3>1
    <3> QED
      BY <1>1, <1>3, <1>6, <1>7, <1>9, <2>4, <2>6, <3>1, <3>2
         DEF QueueInv, QueueTypeOK, WellFormed
  <2> QED
    BY <2>7, <2>8
<1> QED
  BY <1>2, <1>8, <1>9

(* The round robin: whatever a Dequeue removes, the other groups' turns    *)
(* come one closer.                                                        *)
LEMMA DequeueTurns ==
  ASSUME QueueInv, currentPQ # NoGroup, numTasks # 0, Dequeue,
         NEW g \in ToSet(pqs), g # currentPQ
  PROVE  TurnsBefore(g)' = TurnsBefore(g) - 1
<1> DEFINE c == Place(currentPQ)
           n == Len(pqs)
           p == Place(g)
<1>1. /\ c \in 1..n /\ pqs[c] = currentPQ
      /\ currentPQ' = IF c < n THEN pqs[c + 1]
                      ELSE IF pqs' = <<>> THEN NoGroup ELSE pqs'[1]
  BY DequeueEffect
<1>2. \/ pqs' = pqs
      \/ /\ Len(pqs') = n - 1
         /\ \A j \in 1..(n - 1) :
              pqs'[j] = IF j < c THEN pqs[j] ELSE pqs[j + 1]
  BY DequeueEffect
<1>3. p \in 1..n /\ pqs[p] = g /\ p # c /\ n \in Nat
  BY <1>1, PlaceIs
<1>4. QueueInv'
  BY DequeuePreserves
<1>5. \A i \in 1..Len(pqs') :
        /\ pqs'[i] = g => Place(g)' = i
        /\ pqs'[i] = currentPQ' => Place(currentPQ)' = i
  <2>1. /\ DOMAIN pqs' = 1..Len(pqs')
        /\ \A i, j \in DOMAIN pqs' : pqs'[i] = pqs'[j] => i = j
    BY <1>4, ListOf DEF QueueInv, QueueTypeOK, WellFormed
  <2> QED
    BY <2>1 DEF Place
<1>6. Len(pqs') \in Nat /\ (pqs' = <<>> <=> Len(pqs') = 0)
  BY <1>4, ListOf DEF QueueInv, QueueTypeOK
<1> HIDE DEF c, n, p
<1>7. CASE pqs' = pqs
  <2>1. Len(pqs') = n /\ Place(g)' = p
    BY <1>3, <1>5, <1>7 DEF n
  <2>2. Place(currentPQ)' = IF c < n THEN c + 1 ELSE 1
    <3>1. CASE c < n
      <4>1. c + 1 \in 1..Len(pqs') /\ pqs'[c + 1] = currentPQ'
        BY <1>1, <1>3, <1>7, <2>1, <3>1
      <4> QED
        BY <1>5, <3>1, <4>1
    <3>2. CASE ~(c < n)
      <4>1. 1 \in 1..Len(pqs') /\ pqs'[1] = currentPQ'
        BY <1>1, <1>3, <1>6, <2>1, <3>2
      <4> QED
        BY <1>5, <3>2, <4>1
    <3> QED
      BY <3>1, <3>2
  <2> QED
    BY <1>1, <1>3, <2>1, <2>2 DEF TurnsBefore, c, n, p
<1>8. CASE /\ Len(pqs') = n - 1
           /\ \A j \in 1..(n - 1) :
                pqs'[j] = IF j < c THEN pqs[j] ELSE pqs[j + 1]
  <2>1. Place(g)' = IF p < c THEN p ELSE p - 1
    <3>1. CASE p < c
      <4>1. p \in 1..Len(pqs') /\ pqs'[p] = g
        BY <1>1, <1>3, <1>8, <3>1
      <4> QED
        BY <1>5, <3>1, <4>1
    <3>2. CASE ~(p < c)
      <4>1. p - 1 \in 1..(n - 1) /\ ~(p - 1 < c) /\ (p - 1) + 1 = p
        BY <1>1, <1>3, <3>2
      <4>2. p - 1 \in 1..Len(pqs') /\ pqs'[p - 1] = g
        BY <1>3, <1>8, <4>1
      <4> QED
        BY <1>5, <3>2, <4>2
    <3> QED
      BY <3>1, <3>2
  <2>2. Place(currentPQ)' = IF c < n THEN c ELSE 1
    <3>1. CASE c < n
      <4>1. c \in 1..Len(pqs') /\ pqs'[c] = currentPQ'
        BY <1>1, <1>3, <1>8, <3>1
      <4> QED
        BY <1>5, <3>1, <4>1
    <3>2. CASE ~(c < n)
      <4>1. 1 \in 1..Len(pqs')
        BY <1>1, <1>3, <1>8, <3>2
      <4>2. pqs'[1] = currentPQ'
        BY <1>1, <1>6, <3>2, <4>1
      <4> QED
        BY <1>5, <3>2, <4>1, <4>2
    <3> QED
      BY <3>1, <3>2
  <2> QED
    <3> DEFINE gp == IF p < c THEN p ELSE p - 1
               cp == IF c < n THEN c ELSE 1
    <3>1. TurnsBefore(g)' = IF gp >= cp THEN gp - cp ELSE gp - cp + (n - 1)
      BY <1>8, <2>1, <2>2 DEF TurnsBefore
    <3>2. TurnsBefore(g) = IF p >= c THEN p - c ELSE p - c + n
      BY DEF TurnsBefore, c, n, p
    <3>3. c \in 1..n /\ p \in 1..n /\ p # c /\ n \in Nat
      BY <1>1, <1>3
    <3> QED
      BY <3>1, <3>2, <3>3
<1> QED
  BY <1>2, <1>7, <1>8

-----------------------------------------------------------------------------
(* Sums in the model are totals: of the loads of the tasks being run, and  *)
(* of the lengths of the queues.                                           *)

Load(x) == [r \in Reservation |-> Size[r][x]]
Lengths(queues) == [g \in Group |-> Len(queues[g])]

(* A sum over a set written with an expression is the total of a function  *)
(* that has the same values.                                               *)
LEMMA LoadTotal ==
  ASSUME NEW S, IsFiniteSet(S), S \subseteq Reservation, NEW x
  PROVE  MapThenSumSet(LAMBDA r : Size[r][x], S) = Total(Load(x), S)
<1> DEFINE P(g) == g = [s \in SUBSET S |->
                     IF s = {} THEN 0 ELSE Size[First(s)][x] + g[s \ {First(s)}]]
<1>1. \A s \in SUBSET S : s # {} => Load(x)[First(s)] = Size[First(s)][x]
  BY FirstIn DEF Load
<1>2. \A g : P(g) <=> Iterates(g, Load(x), S)
  BY <1>1 DEF Iterates
<1>3. MapThenSumSet(LAMBDA r : Size[r][x], S) = (CHOOSE g : P(g))[S]
  BY DEF MapThenSumSet, MapThenFoldSet, First
<1> DEFINE g == CHOOSE g : P(g)
           k == CHOOSE k : Iterates(k, Load(x), S)
<1>4. Iterates(k, Load(x), S)
  BY IteratesExists
<1>5. Iterates(g, Load(x), S)
  BY <1>2, <1>4
<1>6. Total(Load(x), S) = k[S]
  BY TotalIterates
<1>7. MapThenSumSet(LAMBDA r : Size[r][x], S) = g[S]
  BY <1>3
<1> HIDE DEF g, k, P
<1> QED
  BY <1>4, <1>5, <1>6, <1>7, IteratesAgree

LEMMA LengthsTotal ==
  ASSUME NEW q
  PROVE  MapThenSumSet(LAMBDA g : Len(q[g]), Group) = Total(Lengths(q), Group)
<1> DEFINE P(f) == f = [s \in SUBSET Group |->
                     IF s = {} THEN 0 ELSE Len(q[First(s)]) + f[s \ {First(s)}]]
<1>0. IsFiniteSet(Group)
  BY QueueConstantsOK
<1>1. \A s \in SUBSET Group : s # {} => Lengths(q)[First(s)] = Len(q[First(s)])
  BY FirstIn DEF Lengths
<1>2. \A f : P(f) <=> Iterates(f, Lengths(q), Group)
  BY <1>1 DEF Iterates
<1>3. MapThenSumSet(LAMBDA g : Len(q[g]), Group) = (CHOOSE f : P(f))[Group]
  BY DEF MapThenSumSet, MapThenFoldSet, First
<1> DEFINE f == CHOOSE f : P(f)
           k == CHOOSE k : Iterates(k, Lengths(q), Group)
<1>4. Iterates(k, Lengths(q), Group)
  BY <1>0, IteratesExists
<1>5. Iterates(f, Lengths(q), Group)
  BY <1>2, <1>4
<1>6. Total(Lengths(q), Group) = k[Group]
  BY TotalIterates
<1>7. MapThenSumSet(LAMBDA g : Len(q[g]), Group) = f[Group]
  BY <1>3
<1> HIDE DEF f, k, P
<1>8. f[Group] = k[Group]
  BY <1>0, <1>4, <1>5, IteratesAgree
<1> QED
  BY <1>6, <1>7, <1>8

(* When one queue changes its length the total changes as much. *)
LEMMA OneLength ==
  ASSUME NEW q, NEW p, NEW g \in Group,
         \A h \in Group : Len(q[h]) \in Nat /\ Len(p[h]) \in Nat,
         \A h \in Group : h # g => Len(p[h]) = Len(q[h])
  PROVE  /\ Total(Lengths(q), Group) \in Nat
         /\ Total(Lengths(p), Group)
              = Total(Lengths(q), Group) + Len(p[g]) - Len(q[g])
<1> DEFINE fq == Lengths(q)
           fp == Lengths(p)
           rest == Total(fq, Group \ {g})
<1>1. /\ \A h \in Group : fq[h] = Len(q[h]) /\ fp[h] = Len(p[h])
      /\ \A h \in Group : fq[h] \in Nat /\ fp[h] \in Nat
      /\ \A h \in Group \ {g} : fp[h] = fq[h]
  BY DEF Lengths
<1>2. IsFiniteSet(Group) /\ IsFiniteSet(Group \ {g})
  BY QueueConstantsOK, FS_Subset
<1> HIDE DEF fq, fp
<1>3. Total(fq, Group) = fq[g] + Total(fq, Group \ {g})
  BY <1>1, <1>2, TotalWithout
<1>4. Total(fp, Group) = fp[g] + Total(fp, Group \ {g})
  BY <1>1, <1>2, TotalWithout
<1>5. Total(fp, Group \ {g}) = rest
  BY <1>1, <1>2, TotalAgrees
<1>6. rest \in Nat
  BY <1>1, <1>2, TotalNat
<1> DEFINE old == Len(q[g])
           new == Len(p[g])
<1>7. /\ Total(fq, Group) = old + rest /\ Total(fp, Group) = new + rest
      /\ old \in Nat /\ new \in Nat
  BY <1>1, <1>3, <1>4, <1>5
<1> HIDE DEF rest, old, new
<1>8. /\ Total(fq, Group) \in Nat
      /\ Total(fp, Group) = Total(fq, Group) + new - old
  BY <1>6, <1>7
<1> QED
  BY <1>8 DEF fq, fp, old, new

-----------------------------------------------------------------------------
(* Every reservation is in the queue of its group, once, and is not run    *)
(* while it is there: so no task is tracked twice.                         *)

Apart ==
  /\ \A g \in Group : \A i \in 1..Len(fifo[g]) :
       GroupOf[fifo[g][i]] = g /\ fifo[g][i] \notin active
  /\ \A g \in Group : \A i, j \in 1..Len(fifo[g]) :
       fifo[g][i] = fifo[g][j] => i = j

LEMMA QueueOf ==
  ASSUME QueueInv, NEW g \in Group
  PROVE  /\ fifo[g] \in Seq(Reservation) /\ Len(fifo[g]) \in Nat
         /\ DOMAIN fifo[g] = 1..Len(fifo[g])
         /\ \A i \in 1..Len(fifo[g]) : fifo[g][i] \in Reservation
<1>1. fifo[g] \in Seq(Reservation)
  BY DEF QueueInv, QueueTypeOK
<1> QED
  BY <1>1, ListOf

LEMMA EnqueueApart ==
  ASSUME QueueInv, Apart, NEW r \in Reservation, EnqueueTaskReservation(r)
  PROVE  Apart'
<1> DEFINE h == GroupOf[r]
           n == Len(fifo[h])
<1>1. /\ h \in Group /\ fifo[h] \in Seq(Reservation) /\ n \in Nat
      /\ DOMAIN fifo[h] = 1..n
  BY QueueOf, QueueConstantsOK
<1>2. fifo' = [fifo EXCEPT ![h] = Append(fifo[h], r)] /\ active' = active
  BY DEF EnqueueTaskReservation, Enqueue, runVars
<1>3. r \notin active /\ \A i \in 1..n : fifo[h][i] # r
  BY <1>1 DEF EnqueueTaskReservation, Queued
<1>4. /\ Len(Append(fifo[h], r)) = n + 1
      /\ \A i \in 1..n : Append(fifo[h], r)[i] = fifo[h][i]
      /\ Append(fifo[h], r)[n + 1] = r
  BY <1>1, AppendProperties
<1>5. \A g \in Group : fifo'[g] = IF g = h THEN Append(fifo[h], r) ELSE fifo[g]
  <2>1. fifo \in [Group -> Seq(Reservation)]
    BY DEF QueueInv, QueueTypeOK
  <2> HIDE DEF h
  <2> QED
    BY <1>2, <2>1
<1>6. /\ Len(fifo'[h]) = n + 1
      /\ \A i \in 1..n : fifo'[h][i] = fifo[h][i]
      /\ fifo'[h][n + 1] = r
      /\ \A g \in Group : g # h => fifo'[g] = fifo[g]
  BY <1>1, <1>4, <1>5
<1>7. /\ \A i \in 1..n : GroupOf[fifo[h][i]] = h /\ fifo[h][i] \notin active
      /\ \A i, j \in 1..n : fifo[h][i] = fifo[h][j] => i = j
      /\ GroupOf[r] = h
  BY <1>1 DEF Apart
<1>8. \A i \in 1..(n + 1) : i \in 1..n \/ i = n + 1
  BY <1>1
<1> HIDE DEF n, h
<1>9. ASSUME NEW g \in Group, NEW i \in 1..Len(fifo'[g])
      PROVE  GroupOf[fifo'[g][i]] = g /\ fifo'[g][i] \notin active
  <2>1. CASE g = h
    BY <1>3, <1>6, <1>7, <1>8, <1>9, <2>1
  <2>2. CASE g # h
    BY <1>6, <1>9, <2>2 DEF Apart
  <2> QED
    BY <2>1, <2>2
<1>10. ASSUME NEW g \in Group,
              NEW i \in 1..Len(fifo'[g]), NEW j \in 1..Len(fifo'[g]),
              fifo'[g][i] = fifo'[g][j]
       PROVE  i = j
  <2>1. CASE g = h
    BY <1>3, <1>6, <1>7, <1>8, <1>10, <2>1
  <2>2. CASE g # h
    BY <1>6, <1>10, <2>2 DEF Apart
  <2> QED
    BY <2>1, <2>2
<1> QED
  BY <1>2, <1>9, <1>10 DEF Apart

(* What HandleTask takes is at the front of its group's queue, and nowhere *)
(* else.                                                                   *)
LEMMA TakeEffect ==
  ASSUME QueueInv, Apart, HandleTask
  PROVE  /\ currentPQ \in Group /\ Peek \in Reservation /\ Peek \notin active
         /\ active' = active \union {Peek}
         /\ Len(fifo[currentPQ]) \in Nat \ {0}
         /\ Len(fifo'[currentPQ]) = Len(fifo[currentPQ]) - 1
         /\ \A i \in 1..(Len(fifo[currentPQ]) - 1) :
              fifo'[currentPQ][i] = fifo[currentPQ][i + 1]
         /\ \A g \in Group : g # currentPQ => fifo'[g] = fifo[g]
         /\ \A i \in 1..(Len(fifo[currentPQ]) - 1) :
              fifo[currentPQ][i + 1] # Peek
         /\ \A g \in Group : g # currentPQ =>
              \A i \in 1..Len(fifo[g]) : fifo[g][i] # Peek
<1> DEFINE s == fifo[currentPQ]
           n == Len(s)
<1>1. currentPQ \in Group /\ s # <<>> /\ s \in Seq(Reservation)
  BY QueueOf DEF HandleTask, CanTake, QueueInv, QueueTypeOK, WellFormed
<1>2. /\ n \in Nat \ {0} /\ Peek = s[1] /\ Peek \in Reservation
      /\ Len(Tail(s)) = n - 1
      /\ \A i \in 1..(n - 1) : Tail(s)[i] = s[i + 1]
  <2>1. n \in Nat /\ n # 0
    BY <1>1, ListOf
  <2>2. 1 \in 1..n
    BY <2>1
  <2> QED
    BY <1>1, <2>1, <2>2, HeadTailProperties, ListOf DEF Peek
<1>3. /\ fifo'[currentPQ] = Tail(s)
      /\ \A g \in Group : g # currentPQ => fifo'[g] = fifo[g]
  BY <1>1 DEF HandleTask, Dequeue, QueueInv, QueueTypeOK
<1>4. active' = active \union {Peek}
  BY DEF HandleTask, TrackTask
<1>5. 1 \in 1..n /\ \A i \in 1..(n - 1) : i + 1 \in 1..n /\ i + 1 # 1
  BY <1>2
<1>6. Peek \notin active /\ GroupOf[Peek] = currentPQ
  BY <1>1, <1>2, <1>5 DEF Apart
<1>7. \A i \in 1..(n - 1) : s[i + 1] # Peek
  BY <1>1, <1>2, <1>5 DEF Apart
<1>8. \A g \in Group : g # currentPQ => \A i \in 1..Len(fifo[g]) : fifo[g][i] # Peek
  BY <1>6 DEF Apart
<1> HIDE DEF Peek
<1> QED
  BY <1>1, <1>2, <1>3, <1>4, <1>6, <1>7, <1>8

LEMMA TakeApart ==
  ASSUME QueueInv, Apart, HandleTask
  PROVE  Apart'
<1> DEFINE s == fifo[currentPQ]
           n == Len(s)
           p == Peek
<1>1. /\ currentPQ \in Group /\ active' = active \union {p}
      /\ n \in Nat \ {0} /\ Len(fifo'[currentPQ]) = n - 1
      /\ \A i \in 1..(n - 1) : fifo'[currentPQ][i] = s[i + 1]
      /\ \A g \in Group : g # currentPQ => fifo'[g] = fifo[g]
      /\ \A i \in 1..(n - 1) : s[i + 1] # p
      /\ \A g \in Group : g # currentPQ => \A i \in 1..Len(fifo[g]) : fifo[g][i] # p
  BY TakeEffect
<1>2. \A i \in 1..(n - 1) : i + 1 \in 1..n
  BY <1>1
<1> HIDE DEF n, p
<1>3. ASSUME NEW g \in Group, NEW i \in 1..Len(fifo'[g])
      PROVE  GroupOf[fifo'[g][i]] = g /\ fifo'[g][i] \notin active'
  <2>1. CASE g = currentPQ
    <3>1. i \in 1..(n - 1) /\ fifo'[g][i] = s[i + 1] /\ s[i + 1] # p
      BY <1>1, <1>3, <2>1
    <3>2. GroupOf[s[i + 1]] = g /\ s[i + 1] \notin active
      BY <1>1, <1>2, <2>1, <3>1 DEF Apart, n
    <3> QED
      BY <1>1, <3>1, <3>2
  <2>2. CASE g # currentPQ
    BY <1>1, <1>3, <2>2 DEF Apart
  <2> QED
    BY <2>1, <2>2
<1>4. ASSUME NEW g \in Group,
             NEW i \in 1..Len(fifo'[g]), NEW j \in 1..Len(fifo'[g]),
             fifo'[g][i] = fifo'[g][j]
      PROVE  i = j
  <2>1. CASE g = currentPQ
    <3>1. i \in 1..(n - 1) /\ j \in 1..(n - 1) /\ s[i + 1] = s[j + 1]
      BY <1>1, <1>4, <2>1
    <3>2. i + 1 = j + 1
      BY <1>1, <1>2, <3>1 DEF Apart, n
    <3> QED
      BY <1>1, <3>1, <3>2
  <2>2. CASE g # currentPQ
    BY <1>1, <1>4, <2>2 DEF Apart
  <2> QED
    BY <2>1, <2>2
<1> QED
  BY <1>3, <1>4 DEF Apart

-----------------------------------------------------------------------------
(* What is used of the machine is what the tasks being run use.            *)

Loads ==
  /\ active \in SUBSET Reservation /\ IsFiniteSet(active)
  /\ \A x \in Resource : /\ used[x] = Total(Load(x), active)
                         /\ used[x] <= Capacity[x]
  /\ exclusive => Cardinality(active) <= 1

LEMMA LoadsAre ==
  /\ \A x \in Resource : Capacity[x] \in Nat
  /\ \A x \in Resource, r \in Reservation :
       Size[r][x] \in Nat /\ Load(x)[r] = Size[r][x] /\ Load(x)[r] \in Nat
BY SizesOK DEF Load

LEMMA TakeLoads ==
  ASSUME QueueInv, Apart, Loads, HandleTask, exclusive' = exclusive
  PROVE  Loads'
<1> DEFINE p == Peek
<1>1. /\ p \in Reservation /\ p \notin active
      /\ active' = active \union {p}
  BY TakeEffect
<1>2. active' \in SUBSET Reservation /\ IsFiniteSet(active')
  BY <1>1, FS_AddElement DEF Loads
<1>3. /\ \A x \in Resource : Capacity[x] - used[x] >= Size[p][x]
      /\ exclusive => active = {}
      /\ used' = [x \in Resource |-> used[x] + Size[p][x]]
  BY DEF HandleTask, CanTake, CanFitAnotherTask, Fits, TrackTask
<1> HIDE DEF p
<1>4. ASSUME NEW x \in Resource
      PROVE  used'[x] = Total(Load(x), active') /\ used'[x] <= Capacity[x]
  <2> DEFINE t == Total(Load(x), active)
  <2>1. Total(Load(x), active') = Load(x)[p] + Total(Load(x), active' \ {p})
    <3>1. p \in active' /\ \A r \in active' : Load(x)[r] \in Nat
      BY <1>1, <1>2, LoadsAre
    <3> QED
      BY <1>2, <3>1, TotalWithout
  <2>2. active' \ {p} = active
    BY <1>1
  <2>3. t \in Nat /\ used[x] = t
    <3>1. \A r \in active : Load(x)[r] \in Nat
      BY LoadsAre DEF Loads
    <3> QED
      BY <3>1, TotalNat DEF Loads
  <2>4. Total(Load(x), active') = Size[p][x] + t /\ Size[p][x] \in Nat
    BY <1>1, <2>1, <2>2, LoadsAre
  <2>5. Capacity[x] \in Nat
    BY LoadsAre
  <2> HIDE DEF t
  <2> QED
    BY <1>3, <2>3, <2>4, <2>5
<1>5. exclusive => Cardinality(active') <= 1
  <2>1. active = {} => active' = {p}
    BY <1>1
  <2>2. Cardinality({p}) = 1
    BY FS_Singleton
  <2> QED
    BY <1>3, <2>1, <2>2
<1> QED
  BY <1>2, <1>4, <1>5 DEF Loads

LEMMA FinishLoads ==
  ASSUME Loads, NEW r \in Reservation, Finish(r)
  PROVE  Loads'
<1>1. /\ r \in active /\ active' = active \ {r} /\ exclusive' = exclusive
      /\ used' = [x \in Resource |-> used[x] - Size[r][x]]
  BY DEF Finish, UntrackTask
<1>2. active' \in SUBSET Reservation /\ IsFiniteSet(active')
  BY <1>1, FS_RemoveElement DEF Loads
<1>3. ASSUME NEW x \in Resource
      PROVE  used'[x] = Total(Load(x), active') /\ used'[x] <= Capacity[x]
  <2> DEFINE t == Total(Load(x), active')
  <2>1. Total(Load(x), active) = Load(x)[r] + t
    <3>1. IsFiniteSet(active) /\ \A q \in active : Load(x)[q] \in Nat
      BY LoadsAre DEF Loads
    <3> QED
      BY <1>1, <3>1, TotalWithout
  <2>2. t \in Nat
    <3>1. \A q \in active' : Load(x)[q] \in Nat
      BY <1>2, LoadsAre
    <3> QED
      BY <1>2, <3>1, TotalNat
  <2>3. used[x] = Size[r][x] + t /\ used[x] <= Capacity[x]
    BY <2>1, LoadsAre DEF Loads
  <2>4. Capacity[x] \in Nat /\ Size[r][x] \in Nat
    BY LoadsAre
  <2> HIDE DEF t
  <2>5. used'[x] = t
    BY <1>1, <2>2, <2>3, <2>4
  <2>6. used'[x] <= Capacity[x]
    BY <2>2, <2>3, <2>4, <2>5
  <2> QED
    BY <2>5, <2>6 DEF t
<1>4. exclusive => Cardinality(active') <= 1
  <2>1. /\ IsFiniteSet(active) /\ Cardinality(active) \in Nat
        /\ Cardinality(active') = Cardinality(active) - 1
    BY <1>1, FS_CardinalityType, FS_RemoveElement DEF Loads
  <2> QED
    BY <2>1 DEF Loads
<1> QED
  BY <1>1, <1>2, <1>3, <1>4 DEF Loads

-----------------------------------------------------------------------------
(* The theorems.                                                           *)

(* Only HandleTask dequeues, and only after these guards. *)
LEMMA QueueStep ==
  ASSUME QueueInv, [Next]_vars
  PROVE  QueueInv'
<1>1. ASSUME NEW r \in Reservation, EnqueueTaskReservation(r)
      PROVE  QueueInv'
  BY <1>1, EnqueuePreserves DEF EnqueueTaskReservation
<1>2. CASE HandleTask
  BY <1>2, DequeuePreserves DEF HandleTask, CanTake
<1>3. CASE UNCHANGED queueVars
  BY <1>3 DEF QueueInv, QueueTypeOK, WellFormed, queueVars
<1> QED
  BY <1>1, <1>2, <1>3
     DEF Next, vars, Finish, SignalNewTask, WakeUp, Poll, Shutdown,
         ShutdownDone, Deadline, Watch

(* The list of queues has each group with reservations once, and the       *)
(* cursor is on it, after any enqueues and dequeues.                       *)
THEOREM QueueConsistent == Spec => [](QueueTypeOK /\ WellFormed)
<1>1. Init => QueueInv
  <2> SUFFICES ASSUME Init PROVE QueueInv
    OBVIOUS
  <2>1. pqs \in Seq(Group) /\ ToSet(pqs) = {} /\ DOMAIN pqs = {}
    BY EmptySeq, ListOf DEF Init, QueueInit, ToSet
  <2>2. fifo \in [Group -> Seq(Reservation)]
    BY EmptySeq DEF Init, QueueInit
  <2> QED
    BY <2>1, <2>2, QueueConstantsOK
       DEF Init, QueueInit, QueueInv, QueueTypeOK, WellFormed
<1> QED
  BY <1>1, QueueStep, PTL DEF Spec, QueueInv

(* Turns are taken round robin. *)
THEOREM RoundRobin == Spec => TurnsPass
<1> DEFINE Closer ==
      numTasks' < numTasks =>
        \A g \in ToSet(pqs) \ {currentPQ} :
          TurnsBefore(g)' = TurnsBefore(g) - 1
<1>1. QueueInv /\ [Next]_vars => [Closer]_vars
  <2> SUFFICES ASSUME QueueInv, Next, numTasks' < numTasks
               PROVE  \A g \in ToSet(pqs) \ {currentPQ} :
                        TurnsBefore(g)' = TurnsBefore(g) - 1
    BY DEF vars
  <2>1. numTasks \in Nat
    BY DEF QueueInv, QueueTypeOK
  <2>2. HandleTask
    BY <2>1 DEF Next, EnqueueTaskReservation, Enqueue, Finish, SignalNewTask,
                WakeUp, Poll, Shutdown, ShutdownDone, Deadline, Watch,
                queueVars
  <2> QED
    BY <2>2, DequeueTurns DEF HandleTask, CanTake
<1>2. Spec => []QueueInv
  BY QueueConsistent DEF QueueInv
<1> QED
  BY <1>1, <1>2, PTL DEF Spec, TurnsPass

(* Nothing is taken up once Shutdown has begun, so that nothing runs when  *)
(* it has returned.                                                        *)
THEOREM QuietAfterShutdown == Spec => []QuietOnceDown
<1> DEFINE Inv == /\ shutdown # "off" => shuttingDown
                  /\ shutdown = "done" => active = {}
<1>1. Init => Inv
  BY DEF Init
<1>2. Inv /\ [Next]_vars => Inv'
  <2> SUFFICES ASSUME Inv, [Next]_vars PROVE Inv'
    OBVIOUS
  <2>1. ASSUME NEW r \in Reservation, EnqueueTaskReservation(r)
        PROVE  Inv'
    BY <2>1 DEF EnqueueTaskReservation, runVars, stopVars
  <2>2. ASSUME NEW r \in Reservation, Finish(r)
        PROVE  Inv'
    BY <2>2 DEF Finish, UntrackTask, stopVars
  <2>3. CASE SignalNewTask \/ Deadline \/ Watch \/ UNCHANGED vars
    BY <2>3 DEF SignalNewTask, Deadline, Watch, vars, runVars, stopVars
  <2>4. CASE WakeUp \/ Poll
    BY <2>4 DEF WakeUp, Poll, HandleTask, CanTake, runVars, stopVars
  <2>5. CASE Shutdown \/ ShutdownDone
    BY <2>5 DEF Shutdown, ShutdownDone, runVars
  <2> QED
    BY <2>1, <2>2, <2>3, <2>4, <2>5 DEF Next
<1>3. Inv => QuietOnceDown
  BY DEF QuietOnceDown
<1> QED
  BY <1>1, <1>2, <1>3, PTL DEF Spec

(* Init and every step keep reservations apart and the loads counted. *)
LEMMA RunsInit == Init => Apart /\ Loads
<1> SUFFICES ASSUME Init PROVE Apart /\ Loads
  OBVIOUS
<1>1. active = {} /\ IsFiniteSet({}) /\ Cardinality({}) = 0
  BY FS_EmptySet DEF Init
<1>2. \A g \in Group : Len(fifo[g]) = 0
  BY EmptySeq DEF Init, QueueInit
<1>3. Apart
  BY <1>2 DEF Apart
<1>4. \A x \in Resource : used[x] = 0 /\ Total(Load(x), active) = 0
  BY <1>1, TotalEmpty DEF Init
<1>5. \A x \in Resource : Capacity[x] \in Nat
  BY LoadsAre
<1> QED
  BY <1>1, <1>3, <1>4, <1>5 DEF Loads

LEMMA RunsStep ==
  ASSUME QueueInv, Apart, Loads, [Next]_vars
  PROVE  (Apart /\ Loads)'
<1>1. ASSUME NEW r \in Reservation, EnqueueTaskReservation(r)
      PROVE  (Apart /\ Loads)'
  <2>1. Loads'
    BY <1>1 DEF EnqueueTaskReservation, runVars, Loads
  <2> QED
    BY <1>1, <2>1, EnqueueApart
<1>2. ASSUME NEW r \in Reservation, Finish(r)
      PROVE  (Apart /\ Loads)'
  <2>1. Apart'
    BY <1>2 DEF Finish, UntrackTask, queueVars, Apart
  <2> QED
    BY <1>2, <2>1, FinishLoads
<1>3. CASE HandleTask /\ exclusive' = exclusive
  BY <1>3, TakeApart, TakeLoads
<1>4. CASE UNCHANGED <<queueVars, runVars, exclusive>>
  BY <1>4 DEF queueVars, runVars, Apart, Loads
<1> QED
  BY <1>1, <1>2, <1>3, <1>4
     DEF Next, vars, SignalNewTask, WakeUp, Poll, Shutdown, ShutdownDone,
         Deadline, Watch

LEMMA Always == Spec => [](QueueInv /\ Apart /\ Loads)
BY RunsInit, RunsStep, QueueConsistent, PTL DEF Spec, QueueInv

(* What the queue operations do to the number of reservations. *)
LEMMA EnqueueCounts ==
  ASSUME QueueInv, numTasks = Total(Lengths(fifo), Group),
         NEW r \in Reservation, Enqueue(r)
  PROVE  numTasks' = Total(Lengths(fifo'), Group)
<1> DEFINE h == GroupOf[r]
<1>1. h \in Group /\ fifo[h] \in Seq(Reservation) /\ Len(fifo[h]) \in Nat
  BY QueueOf, QueueConstantsOK
<1>2. Len(Append(fifo[h], r)) = Len(fifo[h]) + 1
  BY <1>1, AppendProperties
<1>3. fifo' = [fifo EXCEPT ![h] = Append(fifo[h], r)] /\ numTasks' = numTasks + 1
  BY DEF Enqueue
<1>4. fifo \in [Group -> Seq(Reservation)] /\ numTasks \in Nat
  BY DEF QueueInv, QueueTypeOK
<1> HIDE DEF h
<1>5. /\ Len(fifo'[h]) = Len(fifo[h]) + 1
      /\ \A g \in Group : g # h => fifo'[g] = fifo[g]
  BY <1>1, <1>2, <1>3, <1>4
<1>6. \A g \in Group : Len(fifo[g]) \in Nat /\ Len(fifo'[g]) \in Nat
  <2>1. \A g \in Group : Len(fifo[g]) \in Nat
    BY QueueOf
  <2> QED
    BY <1>5, <2>1
<1>7. \A g \in Group : g # h => Len(fifo'[g]) = Len(fifo[g])
  BY <1>5
<1>8. Total(Lengths(fifo'), Group)
        = Total(Lengths(fifo), Group) + Len(fifo'[h]) - Len(fifo[h])
  BY <1>1, <1>6, <1>7, OneLength
<1> DEFINE n == Len(fifo[h])
<1>9. Total(Lengths(fifo'), Group) = numTasks + (n + 1) - n /\ n \in Nat
  BY <1>1, <1>5, <1>8
<1> HIDE DEF n
<1> QED
  BY <1>3, <1>4, <1>9

LEMMA DequeueCounts ==
  ASSUME QueueInv, numTasks = Total(Lengths(fifo), Group), numTasks # 0,
         currentPQ # NoGroup, Dequeue
  PROVE  numTasks' = Total(Lengths(fifo'), Group)
<1> DEFINE h == currentPQ
<1>1. /\ h \in Group /\ fifo[h] \in Seq(Reservation) /\ fifo[h] # <<>>
      /\ Len(fifo[h]) \in Nat /\ Len(fifo[h]) # 0
  BY QueueOf, ListOf DEF QueueInv, QueueTypeOK, WellFormed
<1>2. Len(Tail(fifo[h])) = Len(fifo[h]) - 1
  BY <1>1, HeadTailProperties
<1>3. fifo' = [fifo EXCEPT ![h] = Tail(fifo[h])] /\ numTasks' = numTasks - 1
  BY DEF Dequeue
<1>4. fifo \in [Group -> Seq(Reservation)] /\ numTasks \in Nat
  BY DEF QueueInv, QueueTypeOK
<1>5. /\ Len(fifo'[h]) = Len(fifo[h]) - 1
      /\ \A g \in Group : g # h => fifo'[g] = fifo[g]
  BY <1>1, <1>2, <1>3, <1>4
<1>6. \A g \in Group : Len(fifo[g]) \in Nat /\ Len(fifo'[g]) \in Nat
  <2>1. \A g \in Group : Len(fifo[g]) \in Nat
    BY QueueOf
  <2>2. Len(fifo'[h]) \in Nat
    <3> DEFINE n == Len(fifo[h])
    <3>1. n \in Nat /\ n # 0 /\ Len(fifo'[h]) = n - 1
      BY <1>1, <1>5
    <3> HIDE DEF n
    <3> QED
      BY <3>1
  <2> QED
    BY <1>5, <2>1, <2>2
<1>7. \A g \in Group : g # h => Len(fifo'[g]) = Len(fifo[g])
  BY <1>5
<1>8. Total(Lengths(fifo'), Group)
        = Total(Lengths(fifo), Group) + Len(fifo'[h]) - Len(fifo[h])
  BY <1>1, <1>6, <1>7, OneLength
<1> DEFINE n == Len(fifo[h])
<1>9. Total(Lengths(fifo'), Group) = numTasks + (n - 1) - n /\ n \in Nat
  BY <1>1, <1>5, <1>8
<1> HIDE DEF n
<1> QED
  BY <1>3, <1>4, <1>9

(* The tasks that run fit in the executor together, whatever order they    *)
(* come and end in: what is tracked is exactly what they use.              *)
THEOREM FitsTogether == Spec => []NoOvercommit
<1>1. Loads => NoOvercommit
  <2> SUFFICES ASSUME Loads PROVE NoOvercommit
    OBVIOUS
  <2>1. ASSUME NEW x \in Resource
        PROVE  MapThenSumSet(LAMBDA r : Size[r][x], active) <= Capacity[x]
    BY LoadTotal DEF Loads
  <2> QED
    BY <2>1 DEF NoOvercommit, Loads
<1> QED
  BY <1>1, Always, PTL

(* The types, of the resources in use too: a task that ends never leaves   *)
(* less than nothing in use.                                               *)
THEOREM QueueTypes == Spec => []TypeOK
<1> DEFINE Rest ==
      /\ seen \in SUBSET Reservation
      /\ exclusive \in BOOLEAN
      /\ sending \in BOOLEAN /\ signal \in BOOLEAN
      /\ shuttingDown \in BOOLEAN
      /\ shutdown \in {"off", "waiting", "done"}
      /\ watcher \in {"off", "watching", "graceful", "hard"}
      /\ late \in BOOLEAN
      /\ used = [x \in Resource |-> used[x]]
<1>1. Init => Rest
  BY DEF Init
<1>2. Rest /\ [Next]_vars => Rest'
  <2> SUFFICES ASSUME Rest, [Next]_vars PROVE Rest'
    OBVIOUS
  <2>1. ASSUME NEW r \in Reservation, EnqueueTaskReservation(r)
        PROVE  Rest'
    BY <2>1 DEF EnqueueTaskReservation, runVars, stopVars
  <2>2. ASSUME NEW r \in Reservation, Finish(r)
        PROVE  Rest'
    BY <2>2 DEF Finish, UntrackTask, stopVars
  <2>3. CASE SignalNewTask \/ Deadline \/ Watch \/ UNCHANGED vars
    BY <2>3 DEF SignalNewTask, Deadline, Watch, vars, runVars, stopVars
  <2>4. CASE WakeUp \/ Poll
    BY <2>4 DEF WakeUp, Poll, HandleTask, TrackTask, runVars, stopVars
  <2>5. CASE Shutdown \/ ShutdownDone
    BY <2>5 DEF Shutdown, ShutdownDone, runVars
  <2> QED
    BY <2>1, <2>2, <2>3, <2>4, <2>5 DEF Next
<1>3. QueueInv /\ Loads /\ Rest => TypeOK
  <2> SUFFICES ASSUME QueueInv, Loads, Rest PROVE TypeOK
    OBVIOUS
  <2>1. ASSUME NEW x \in Resource PROVE used[x] \in Nat
    <3>1. IsFiniteSet(active) /\ \A r \in active : Load(x)[r] \in Nat
      BY LoadsAre DEF Loads
    <3> QED
      BY <3>1, TotalNat DEF Loads
  <2>2. used \in [Resource -> Nat]
    BY <2>1
  <2> QED
    BY <2>2 DEF TypeOK, QueueInv, Loads
<1> QED
  BY <1>1, <1>2, <1>3, Always, PTL DEF Spec

(* The number of tasks is the number of reservations in the queues of all  *)
(* groups, so that the loop never waits while there is something to do.    *)
THEOREM CountIsExact == Spec => []CountsAll
<1> DEFINE Counted == numTasks = Total(Lengths(fifo), Group)
<1>1. Init => Counted
  <2> SUFFICES ASSUME Init PROVE Counted
    OBVIOUS
  <2> DEFINE f == Lengths(fifo)
  <2>1. \A g \in Group : f[g] = 0
    BY EmptySeq DEF Init, QueueInit, Lengths
  <2>2. IsFiniteSet(Group)
    BY QueueConstantsOK
  <2>3. Total(f, Group) = Total([g \in Group |-> 0], Group)
    <3> HIDE DEF f
    <3> QED
      BY <2>1, <2>2, TotalAgrees
  <2>4. Total([g \in Group |-> 0], Group) = 0
    BY <2>2, TotalZero
  <2> QED
    BY <2>3, <2>4 DEF Init, QueueInit
<1>2. QueueInv /\ Counted /\ [Next]_vars => Counted'
  <2> SUFFICES ASSUME QueueInv, Counted, [Next]_vars PROVE Counted'
    OBVIOUS
  <2>1. ASSUME NEW r \in Reservation, EnqueueTaskReservation(r)
        PROVE  Counted'
    BY <2>1, EnqueueCounts DEF EnqueueTaskReservation
  <2>2. CASE HandleTask
    BY <2>2, DequeueCounts DEF HandleTask, CanTake
  <2>3. CASE UNCHANGED queueVars
    BY <2>3 DEF queueVars
  <2> QED
    BY <2>1, <2>2, <2>3
       DEF Next, vars, Finish, SignalNewTask, WakeUp, Poll, Shutdown,
           ShutdownDone, Deadline, Watch
<1>3. Counted => CountsAll
  BY LengthsTotal DEF CountsAll
<1> QED
  BY <1>1, <1>2, <1>3, QueueConsistent, PTL DEF Spec, QueueInv
=============================================================================
