-------------------------- MODULE UsageTrackerProofs --------------------------
(***************************************************************************)
(* Whatever fails or comes late, no increment is billed twice; one that no *)
(* fault has hit is never left out; and a row that is final for a period   *)
(* has all of it that reached Redis in time.                               *)
(***************************************************************************)
EXTENDS UsageTracker, TLAPS

(* Rounding a time or a period down. *)
LEMMA RoundedDown ==
  ASSUME NEW t \in Nat, NEW d \in Nat \ {0}
  PROVE  t \div d \in 0..t /\ t - (t % d) \in 0..t
OBVIOUS

LEMMA ClockBound ==
  ASSUME TypeOK, NEW t \in Clock
  PROVE  t \in Nat /\ t <= MaxTime + Skew
BY UsageConstantsOK DEF TypeOK, Clock

LEMMA UsagePeriodType ==
  ASSUME NEW p \in Period
  PROVE  UsagePeriod(p) \in Period
<1>1. p \in Nat /\ MaxTime + Skew \in Nat
  BY UsageConstantsOK DEF Period
<1>2. p - (p % UsageDuration) \in 0..p
  BY <1>1, RoundedDown, UsageConstantsOK
<1> QED
  BY <1>1, <1>2 DEF Period, UsagePeriod

LEMMA AnyGroupType == AnyGroup \in Group
BY UsageConstantsOK DEF AnyGroup

LEMMA NoCountsType == NoCounts \in [Increment -> Nat]
BY DEF NoCounts

(* A settled period is over on every clock. *)
LEMMA SettledIsOver ==
  ASSUME NEW p \in Nat, NEW t \in Nat, isSettled(p, t)
  PROVE  p + 1 <= t
<1> DEFINE q == t - (PeriodDuration + SettlingTime)
<1>1. q \in Int /\ PeriodDuration \in Nat \ {0} /\ SettlingTime \in Nat
  BY UsageConstantsOK
<1>2. p <= q \div PeriodDuration
  BY DEF isSettled, collectionPeriodStartingAt
<1> HIDE DEF q
<1>3. p <= q
  BY <1>1, <1>2
<1> QED
  BY <1>1, <1>3 DEF q

-----------------------------------------------------------------------------
(* Types.                                                                  *)

(* flushToDB goes on to the next period only from one that is over. *)
Bounded ==
  \A s \in Server : step[s] \in {"groups", "commit", "delete"} => c[s] + 1 \in Period

TypeInv == TypeOK /\ Bounded

LEMMA TypeInit == Init => TypeInv
<1> SUFFICES ASSUME Init PROVE TypeInv
  OBVIOUS
<1>1. 0 \in Period
  BY UsageConstantsOK DEF Period
<1>2. BufferTypeOK(Member)
  BY DEF Init, BufferInit, BufferTypeOK
<1> QED
  BY <1>1, <1>2, AnyGroupType, NoCountsType, UsageConstantsOK
     DEF Init, TypeInv, TypeOK, Bounded

LEMMA TypeStep ==
  ASSUME TypeInv, [Next]_vars
  PROVE  TypeInv'
<1> USE DEF TypeInv
<1>1. ASSUME NEW i \in Increment, IncrementSet(i)
      PROVE  TypeInv'
  <2>1. PICK t \in Clock :
          period' = [period EXCEPT ![i] = collectionPeriodStartingAt(t)]
    BY <1>1 DEF IncrementSet
  <2>2. collectionPeriodStartingAt(t) \in Period
    <3>1. t \in Nat /\ t <= MaxTime + Skew /\ MaxTime + Skew \in Nat
      BY ClockBound, UsageConstantsOK
    <3>2. t \div PeriodDuration \in 0..t
      BY <3>1, RoundedDown, UsageConstantsOK
    <3> QED
      BY <3>1, <3>2 DEF Period, collectionPeriodStartingAt
  <2>3. period' \in [Increment -> Period]
    BY <2>1, <2>2 DEF TypeOK
  <2>4. Key(i)' \in Member
    BY <2>3, UsageConstantsOK DEF Key, Member
  <2>5. BufferTypeOK(Member)'
    BY <1>1, <2>4, UsageConstantsOK DEF IncrementSet, SAdd, TypeOK, BufferTypeOK
  <2> QED
    BY <1>1, <2>3, <2>5 DEF IncrementSet, TypeOK, Bounded, flushVars, dbVars
<1>2. ASSUME NEW i \in Increment, IncrementCounts(i)
      PROVE  TypeInv'
  <2>1. BufferTypeOK(Member) /\ HomeOf[i] \in Server
    BY UsageConstantsOK DEF TypeOK
  <2>2. hash' \in [Increment -> Nat]
    <3>1. CASE isShuttingDown[HomeOf[i]]
      BY <1>2, <2>1, <3>1 DEF IncrementCounts, HIncrBy, BufferTypeOK
    <3>2. CASE ~isShuttingDown[HomeOf[i]]
      BY <1>2, <2>1, <3>2 DEF IncrementCounts, HIncrBy, BufferTypeOK
    <3> QED
      BY <3>1, <3>2
  <2>3. hincr' \in [Server -> SUBSET Increment]
    <3>1. CASE isShuttingDown[HomeOf[i]]
      BY <1>2, <2>1, <3>1 DEF IncrementCounts, HIncrBy, BufferTypeOK
    <3>2. CASE ~isShuttingDown[HomeOf[i]]
      BY <1>2, <2>1, <3>2 DEF IncrementCounts, HIncrBy, BufferTypeOK
    <3> QED
      BY <3>1, <3>2
  <2>4. BufferTypeOK(Member)'
    BY <1>2, <2>1, <2>2, <2>3 DEF IncrementCounts, BufferTypeOK, Member
  <2> QED
    BY <1>2, <2>4 DEF IncrementCounts, TypeOK, Bounded, flushVars, dbVars
<1>2f. ASSUME NEW i \in Increment, IncrementFails(i)
       PROVE  TypeInv'
  <2>1. BufferTypeOK(Member)'
    BY <1>2f DEF IncrementFails, TypeOK, BufferTypeOK, Member, bufferVars,
                 redisVars
  <2> QED
    BY <1>2f, <2>1 DEF IncrementFails, TypeOK, Bounded, flushVars, dbVars
<1>3. ASSUME NEW s \in Server, FlushBuffer(s) \/ StopBuffer(s) \/ Exec(s)
      PROVE  TypeInv'
  <2>1. BufferTypeOK(Member)
    BY DEF TypeOK
  <2>2. CASE FlushBuffer(s)
    BY <2>1, <2>2 DEF FlushBuffer, Flush, TypeOK, Bounded, BufferTypeOK,
                      redisVars, timeVars, flushVars, dbVars
  <2>3. CASE StopBuffer(s)
    BY <2>1, <2>3 DEF StopBuffer, StopPeriodicFlush, TypeOK, Bounded,
                      BufferTypeOK, redisVars, timeVars, flushVars, dbVars
  <2>4. ASSUME NEW incs, ExecHIncrBy(s, incs)
        PROVE  BufferTypeOK(Member)'
    <3>1. hash' \in [Increment -> Nat]
      BY <2>1, <2>4 DEF ExecHIncrBy, BufferTypeOK
    <3>2. sentIncrements' \in [Server -> SUBSET Increment]
      BY <2>1, <2>4 DEF ExecHIncrBy, BufferTypeOK
    <3> QED
      BY <2>1, <2>4, <3>1, <3>2 DEF ExecHIncrBy, BufferTypeOK
  <2>5. ASSUME NEW k \in Member, ExecSAdd(s, k)
        PROVE  BufferTypeOK(Member)'
    BY <2>1, <2>5 DEF ExecSAdd, BufferTypeOK
  <2>6. CASE Exec(s)
    <3>1. BufferTypeOK(Member)'
      BY <2>4, <2>5, <2>6 DEF Exec
    <3> QED
      BY <2>6, <3>1 DEF Exec, TypeOK, Bounded, timeVars, flushVars, dbVars
  <2> QED
    BY <1>3, <2>2, <2>3, <2>6
<1>4. ASSUME NEW s \in Server, BufferFails(s)
      PROVE  TypeInv'
  <2>1. BufferTypeOK(Member)'
    BY <1>4 DEF BufferFails, FlushFails, TypeOK, BufferTypeOK, Member, redisVars
  <2> QED
    BY <1>4, <2>1 DEF BufferFails, Carried, TypeOK, Bounded, flushVars, dbVars
<1>5. ASSUME NEW s \in Server, Crash(s)
      PROVE  TypeInv'
  <2>1. BufferTypeOK(Member)'
    BY <1>5 DEF Crash, Lose, TypeOK, BufferTypeOK, Member, redisVars
  <2>2. 0 \in Period
    BY UsageConstantsOK DEF Period
  <2> QED
    BY <1>5, <2>1, <2>2, AnyGroupType, NoCountsType
       DEF Crash, Return, Carried, TypeOK, Bounded, dbVars
<1>6. CASE Tick
  BY <1>6, UsageConstantsOK
     DEF Tick, TypeOK, Bounded, BufferTypeOK, bufferVars, redisVars, flushVars,
         dbVars, Member
<1>7. ASSUME NEW k, ExpireCounts(k) \/ ExpireGroups(k)
      PROVE  TypeInv'
  <2>1. hash' \in [Increment -> Nat] /\ members' \in SUBSET Member
    <3>1. BufferTypeOK(Member)
      BY DEF TypeOK
    <3>2. CASE ExpireCounts(k)
      BY <3>1, <3>2 DEF ExpireCounts, BufferTypeOK
    <3>3. CASE ExpireGroups(k)
      BY <3>1, <3>3 DEF ExpireGroups, BufferTypeOK
    <3> QED
      BY <1>7, <3>2, <3>3
  <2>2. BufferTypeOK(Member)'
    BY <1>7, <2>1 DEF ExpireCounts, ExpireGroups, TypeOK, BufferTypeOK,
                      bufferVars
  <2> QED
    BY <1>7, <2>2 DEF ExpireCounts, ExpireGroups, TypeOK, Bounded, timeVars,
                      bufferVars, flushVars, dbVars
<1>8. ASSUME NEW s \in Server, StartFlush(s)
      PROVE  TypeInv'
  <2>1. PICK t \in Clock :
          c' = [c EXCEPT ![s] = IF t < KeyTTL THEN 0
                                ELSE collectionPeriodStartingAt(t - KeyTTL)]
    BY <1>8 DEF StartFlush
  <2>2. t \in Nat /\ t <= MaxTime + Skew /\ MaxTime + Skew \in Nat /\ KeyTTL \in Nat
    BY ClockBound, UsageConstantsOK
  <2>3. ~(t < KeyTTL) => (t - KeyTTL) \div PeriodDuration \in 0..(t - KeyTTL)
    BY <2>2, RoundedDown, UsageConstantsOK
  <2>4. c' \in [Server -> Period]
    BY <2>1, <2>2, <2>3 DEF TypeOK, Period, collectionPeriodStartingAt
  <2>5. BufferTypeOK(Member)'
    BY <1>8 DEF StartFlush, TypeOK, BufferTypeOK, Member, bufferVars, redisVars
  <2> QED
    BY <1>8, <2>1, <2>4, <2>5 DEF StartFlush, TypeOK, Bounded, timeVars, dbVars
<1>9. ASSUME NEW s \in Server, ReadGroups(s) \/ FlushToDBFails(s)
      PROVE  TypeInv'
  <2>1. BufferTypeOK(Member)'
    BY <1>9 DEF ReadGroups, FlushToDBFails, TypeOK, BufferTypeOK, Member,
                bufferVars, redisVars
  <2>2. CASE Return(s)
    <3>1. 0 \in Period
      BY UsageConstantsOK DEF Period
    <3> QED
      BY <1>9, <2>1, <2>2, <3>1, AnyGroupType, NoCountsType
         DEF ReadGroups, FlushToDBFails, Return, TypeOK, Bounded, timeVars,
             dbVars
  <2>3. ASSUME NEW t \in Clock, isSettled(c[s], t),
               groupIDs' = [groupIDs EXCEPT ![s] =
                              {g \in Group : <<g, c[s]>> \in members}],
               step' = [step EXCEPT ![s] = "groups"],
               UNCHANGED <<c, groupID, counts>>
        PROVE  TypeInv'
    <3>1. c[s] + 1 \in Period
      <4>1. c[s] \in Nat
        BY UsageConstantsOK DEF TypeOK, Period
      <4> QED
        BY <2>3, <4>1, ClockBound, SettledIsOver, UsageConstantsOK DEF Period
    <3> QED
      BY <1>9, <2>1, <2>3, <3>1
         DEF ReadGroups, FlushToDBFails, TypeOK, Bounded, timeVars, dbVars
  <2> QED
    BY <1>9, <2>2, <2>3 DEF ReadGroups, FlushToDBFails
<1>10. ASSUME NEW s \in Server, ReadCounts(s)
       PROVE  TypeInv'
  <2>1. BufferTypeOK(Member)'
    BY <1>10 DEF ReadCounts, TypeOK, BufferTypeOK, Member, bufferVars, redisVars
  <2>2. counts' \in [Server -> [Increment -> Nat]]
    BY <1>10 DEF ReadCounts, TypeOK, BufferTypeOK
  <2>3. groupID' \in [Server -> Group] /\ groupIDs' \in [Server -> SUBSET Group]
    BY <1>10 DEF ReadCounts, TypeOK
  <2> QED
    BY <1>10, <2>1, <2>2, <2>3 DEF ReadCounts, TypeOK, Bounded, timeVars, dbVars
<1>11. ASSUME NEW s \in Server, flushCounts(s)
       PROVE  TypeInv'
  <2>1. BufferTypeOK(Member)'
    BY <1>11 DEF flushCounts, TypeOK, BufferTypeOK, Member, bufferVars, redisVars
  <2>2. c[s] + 1 \in Nat /\ UsagePeriod(c[s]) \in Period /\ groupID[s] \in Group
    BY UsagePeriodType, UsageConstantsOK DEF TypeOK, Period
  <2>3. finalBefore' \in [Group -> [Period -> Nat]]
    <3> DEFINE g == groupID[s]
               u == UsagePeriod(c[s])
    <3>1. finalBefore \in [Group -> [Period -> Nat]]
      BY DEF TypeOK
    <3>2. \/ finalBefore' = [finalBefore EXCEPT ![g][u] = c[s] + 1]
          \/ finalBefore' = finalBefore
      BY <1>11 DEF flushCounts, dbVars
    <3> HIDE DEF g, u
    <3>3. [finalBefore EXCEPT ![g][u] = c[s] + 1] \in [Group -> [Period -> Nat]]
      BY <2>2, <3>1 DEF g, u
    <3> QED
      BY <3>1, <3>2, <3>3
  <2>4. billed' \in [Increment -> Nat]
    BY <1>11 DEF flushCounts, TypeOK, dbVars
  <2>5. counts' \in [Server -> [Increment -> Nat]]
    BY <1>11, NoCountsType DEF flushCounts, TypeOK
  <2>6. step' \in [Server -> {"idle", "period", "groups", "commit", "delete"}]
    BY <1>11 DEF flushCounts, TypeOK
  <2>7. UNCHANGED <<now, progress, period, excused, c, groupIDs, groupID>>
    BY <1>11 DEF flushCounts, timeVars
  <2>8. Bounded'
    BY <1>11, <2>7 DEF flushCounts, TypeOK, Bounded, Period
  <2> QED
    BY <2>1, <2>3, <2>4, <2>5, <2>6, <2>7, <2>8 DEF TypeOK
<1>12. ASSUME NEW s \in Server, DeleteCounts(s) \/ DeleteGroups(s)
       PROVE  TypeInv'
  <2>1. BufferTypeOK(Member)'
    <3>1. hash' \in [Increment -> Nat] /\ members' \in SUBSET Member
      BY <1>12 DEF DeleteCounts, DeleteGroups, TypeOK, BufferTypeOK
    <3> QED
      BY <1>12, <3>1 DEF DeleteCounts, DeleteGroups, TypeOK, BufferTypeOK,
                         bufferVars
  <2>2. CASE DeleteCounts(s)
    BY <2>1, <2>2, AnyGroupType
       DEF DeleteCounts, TypeOK, Bounded, timeVars, bufferVars, dbVars
  <2>3. CASE DeleteGroups(s)
    <3>1. c' \in [Server -> Period]
      BY <2>3 DEF DeleteGroups, TypeOK, Bounded
    <3> QED
      BY <2>1, <2>3, <3>1
         DEF DeleteGroups, TypeOK, Bounded, timeVars, bufferVars, dbVars
  <2> QED
    BY <1>12, <2>2, <2>3
<1>13. CASE UNCHANGED vars
  BY <1>13 DEF vars, TypeOK, Bounded, BufferTypeOK, timeVars, bufferVars,
               redisVars, flushVars, dbVars, Member
<1> QED
  BY <1>1, <1>2, <1>2f, <1>3, <1>4, <1>5, <1>6, <1>7, <1>8, <1>9, <1>10, <1>11, <1>12,
     <1>13 DEF Next

(* Every variable keeps its type; in particular a flush never goes on to a *)
(* period that is not over.                                                *)
THEOREM UsageTypes == Spec => []TypeOK
<1>1. TypeInv => TypeOK
  BY DEF TypeInv
<1> QED
  BY <1>1, TypeInit, TypeStep, PTL DEF Spec

-----------------------------------------------------------------------------
(* No double billing.                                                      *)

(* An increment in a buffer is there once, in its server, after its second *)
(* half.                                                                   *)
Placed ==
  \A s \in Server, i \in Increment :
    /\ i \in hincr[s] => HomeOf[i] = s /\ progress[i] = "done"
    /\ i \in sentIncrements[s] => HomeOf[i] = s /\ progress[i] = "done"
    /\ i \notin hincr[s] \/ i \notin sentIncrements[s]

Unsent(i) ==
  \/ progress[i] # "done"
  \/ i \in hincr[HomeOf[i]] \/ i \in sentIncrements[HomeOf[i]]

(* What has not been sent is not in Redis nor beyond. *)
Waiting ==
  \A i \in Increment : Unsent(i) =>
    hash[i] = 0 /\ billed[i] = 0 /\ \A s \in Server : counts[s][i] = 0

AtMostOnce ==
  \A i \in Increment :
    hash[i] <= 1 /\ billed[i] <= 1 /\ \A s \in Server : counts[s][i] <= 1

(* The counts that a flush has read are those of its group and period. *)
Snapshot ==
  \A s \in Server, i \in Increment : counts[s][i] > 0 =>
    step[s] = "commit" /\ GroupOf[i] = groupID[s] /\ period[i] = c[s]

(* A row is final for what it counts. *)
Final ==
  \A i \in Increment : billed[i] > 0 =>
    finalBefore[GroupOf[i]][UsagePeriod(period[i])] > period[i]

OnceInv == Placed /\ Waiting /\ AtMostOnce /\ Snapshot /\ Final

LEMMA OnceInit == Init => OnceInv
BY DEF Init, BufferInit, NoCounts, OnceInv, Placed, Waiting, AtMostOnce,
       Snapshot, Final

LEMMA OnceStep ==
  ASSUME TypeOK, OnceInv, [Next]_vars
  PROVE  OnceInv'
<1> USE DEF OnceInv
<1>h. HomeOf \in [Increment -> Server]
  BY UsageConstantsOK
<1>1. ASSUME NEW i \in Increment, IncrementSet(i)
      PROVE  OnceInv'
  <2>1. /\ progress[i] = "new" /\ progress' = [progress EXCEPT ![i] = "added"]
        /\ \A j \in Increment \ {i} : period'[j] = period[j]
        /\ UNCHANGED <<hincr, sentIncrements, hash, step, c, groupID, counts,
                       finalBefore, billed>>
    BY <1>1 DEF IncrementSet, TypeOK, flushVars, dbVars
  <2>2. hash[i] = 0 /\ billed[i] = 0 /\ \A s \in Server : counts[s][i] = 0
    BY <2>1 DEF Waiting, Unsent
  <2>3. Placed'
    BY <2>1 DEF Placed, TypeOK
  <2>4. Waiting'
    BY <2>1, <2>2 DEF Waiting, Unsent, TypeOK
  <2>5. AtMostOnce'
    BY <2>1 DEF AtMostOnce
  <2>6. Snapshot'
    BY <2>1, <2>2 DEF Snapshot
  <2>7. Final'
    BY <2>1, <2>2 DEF Final
  <2> QED
    BY <2>3, <2>4, <2>5, <2>6, <2>7
<1>2. ASSUME NEW i \in Increment, IncrementCounts(i)
      PROVE  OnceInv'
  <2>1. /\ progress[i] = "added" /\ progress' = [progress EXCEPT ![i] = "done"]
        /\ UNCHANGED <<period, sentIncrements, step, c, groupID, counts,
                       finalBefore, billed>>
    BY <1>2 DEF IncrementCounts, flushVars, dbVars
  <2>2. hash[i] = 0 /\ billed[i] = 0 /\ \A s \in Server : counts[s][i] = 0
    BY <2>1 DEF Waiting, Unsent
  <2>3. \A s \in Server : i \notin hincr[s] /\ i \notin sentIncrements[s]
    BY <2>1 DEF Placed
  <2>4. CASE isShuttingDown[HomeOf[i]]
    <3>1. hash' = [hash EXCEPT ![i] = @ + 1] /\ hincr' = hincr
      BY <1>2, <2>4 DEF IncrementCounts, HIncrBy
    <3>2. Placed'
      BY <2>1, <2>3, <3>1 DEF Placed, TypeOK
    <3>3. Waiting'
      BY <1>h, <2>1, <2>3, <3>1 DEF Waiting, Unsent, TypeOK, BufferTypeOK
    <3>4. AtMostOnce'
      BY <2>1, <2>2, <3>1 DEF AtMostOnce, TypeOK, BufferTypeOK
    <3> QED
      BY <2>1, <3>2, <3>3, <3>4 DEF Snapshot, Final, UsagePeriod
  <2>5. CASE ~isShuttingDown[HomeOf[i]]
    <3>1. hincr' = [hincr EXCEPT ![HomeOf[i]] = @ \union {i}] /\ hash' = hash
      BY <1>2, <2>5 DEF IncrementCounts, HIncrBy
    <3>2. Placed'
      BY <1>h, <2>1, <2>3, <3>1 DEF Placed, TypeOK, BufferTypeOK
    <3>3. Waiting'
      BY <1>h, <2>1, <2>2, <3>1 DEF Waiting, Unsent, TypeOK, BufferTypeOK
    <3> QED
      BY <2>1, <3>1, <3>2, <3>3 DEF AtMostOnce, Snapshot, Final, UsagePeriod
  <2> QED
    BY <2>4, <2>5
<1>2f. ASSUME NEW i \in Increment, IncrementFails(i)
       PROVE  OnceInv'
  <2>1. /\ progress' = [progress EXCEPT ![i] = "done"]
        /\ UNCHANGED <<period, hincr, sentIncrements, hash, step, c, groupID,
                       counts, finalBefore, billed>>
    BY <1>2f DEF IncrementFails, bufferVars, redisVars, flushVars, dbVars
  <2>2. \A j \in Increment : progress'[j] = progress[j] \/ progress'[j] = "done"
    BY <2>1 DEF TypeOK
  <2>3. Placed' /\ Waiting'
    BY <2>1, <2>2 DEF Placed, Waiting, Unsent
  <2> QED
    BY <2>1, <2>3 DEF AtMostOnce, Snapshot, Final, UsagePeriod
<1>3. ASSUME NEW s \in Server, FlushBuffer(s)
      PROVE  OnceInv'
  <2>1. /\ sentIncrements[s] = {}
        /\ sentIncrements' = [sentIncrements EXCEPT ![s] = hincr[s]]
        /\ hincr' = [hincr EXCEPT ![s] = {}]
        /\ UNCHANGED <<progress, period, hash, step, c, groupID, counts,
                       finalBefore, billed>>
    BY <1>3 DEF FlushBuffer, Flush, Flushing, timeVars, flushVars, dbVars,
                redisVars
  <2>2. Placed'
    BY <2>1 DEF Placed, TypeOK, BufferTypeOK
  <2>3. Waiting'
    BY <1>h, <2>1 DEF Waiting, Unsent, TypeOK, BufferTypeOK
  <2> QED
    BY <2>1, <2>2, <2>3 DEF AtMostOnce, Snapshot, Final, UsagePeriod
<1>4. ASSUME NEW s \in Server, NEW incs, ExecHIncrBy(s, incs),
             UNCHANGED <<timeVars, flushVars, dbVars>>
      PROVE  OnceInv'
  <2>1. /\ incs \subseteq sentIncrements[s]
        /\ \A i \in Increment : hash'[i] = IF i \in incs THEN hash[i] + 1 ELSE hash[i]
        /\ sentIncrements' = [sentIncrements EXCEPT ![s] = @ \ incs]
        /\ UNCHANGED <<progress, period, hincr, step, c, groupID, counts,
                       finalBefore, billed>>
    BY <1>4 DEF ExecHIncrBy, timeVars, flushVars, dbVars
  <2>2. \A i \in incs : /\ HomeOf[i] = s /\ progress[i] = "done" /\ i \notin hincr[s]
                        /\ hash[i] = 0
    BY <2>1 DEF Placed, Waiting, Unsent, TypeOK, BufferTypeOK
  <2>3. Placed'
    BY <2>1 DEF Placed, TypeOK, BufferTypeOK
  <2>4. Waiting'
    BY <1>h, <2>1, <2>2 DEF Waiting, Unsent, TypeOK, BufferTypeOK
  <2>5. \A i \in Increment : hash'[i] <= 1
    BY <2>1, <2>2 DEF AtMostOnce
  <2> QED
    BY <2>1, <2>3, <2>4, <2>5 DEF AtMostOnce, Snapshot, Final, UsagePeriod
<1>5. ASSUME NEW s \in Server,
             \/ StopBuffer(s) \/ StartFlush(s) \/ ReadGroups(s) \/ DeleteGroups(s)
             \/ FlushToDBFails(s)
             \/ (\E k \in Member : ExecSAdd(s, k)) /\ UNCHANGED <<timeVars, flushVars, dbVars>>
      PROVE  OnceInv'
  <2>1. UNCHANGED <<progress, period, hincr, sentIncrements, hash, finalBefore,
                    billed>>
    BY <1>5 DEF StopBuffer, StopPeriodicFlush, StartFlush, ReadGroups,
       DeleteGroups, FlushToDBFails, ExecSAdd, timeVars, bufferVars, redisVars,
       dbVars
  <2>2. /\ \A t \in Server \ {s} : /\ step'[t] = step[t] /\ c'[t] = c[t]
                                    /\ groupID'[t] = groupID[t]
                                    /\ counts'[t] = counts[t]
        /\ \/ UNCHANGED <<step, c, groupID, counts>>
           \/ step[s] # "commit" /\ counts' = counts
           \/ \A i \in Increment : counts'[s][i] = 0
    BY <1>5 DEF StopBuffer, StopPeriodicFlush, StartFlush, ReadGroups,
       DeleteGroups, FlushToDBFails, ExecSAdd, Return, NoCounts, timeVars,
       flushVars, TypeOK
  <2>3. \A t \in Server, i \in Increment :
          counts'[t][i] = counts[t][i] \/ counts'[t][i] = 0
    BY <2>2
  <2>4. Waiting' /\ AtMostOnce'
    BY <2>1, <2>3 DEF Waiting, Unsent, AtMostOnce
  <2>5. Snapshot'
    BY <2>1, <2>2 DEF Snapshot, TypeOK
  <2> QED
    BY <2>1, <2>4, <2>5 DEF Placed, Final, UsagePeriod
<1>6. ASSUME NEW s \in Server, BufferFails(s)
      PROVE  OnceInv'
  <2>1. /\ sentIncrements' = [sentIncrements EXCEPT ![s] = {}]
        /\ UNCHANGED <<progress, period, hincr, hash, step, c, groupID, counts,
                       finalBefore, billed>>
    BY <1>6 DEF BufferFails, FlushFails, flushVars, dbVars, redisVars
  <2>2. Placed'
    BY <2>1 DEF Placed, TypeOK, BufferTypeOK
  <2>3. Waiting'
    BY <1>h, <2>1 DEF Waiting, Unsent, TypeOK, BufferTypeOK
  <2> QED
    BY <2>1, <2>2, <2>3 DEF AtMostOnce, Snapshot, Final, UsagePeriod
<1>7. ASSUME NEW s \in Server, Crash(s)
      PROVE  OnceInv'
  <2>1. /\ hincr' = [hincr EXCEPT ![s] = {}]
        /\ sentIncrements' = [sentIncrements EXCEPT ![s] = {}]
        /\ \A i \in Increment : progress'[i] = progress[i] \/ progress'[i] = "done"
        /\ UNCHANGED <<period, hash, finalBefore, billed>>
    BY <1>7 DEF Crash, Lose, redisVars, dbVars
  <2>2. /\ \A t \in Server \ {s} : /\ step'[t] = step[t] /\ c'[t] = c[t]
                                    /\ groupID'[t] = groupID[t]
                                    /\ counts'[t] = counts[t]
        /\ \A i \in Increment : counts'[s][i] = 0
    BY <1>7 DEF Crash, Return, NoCounts, TypeOK
  <2>3. Placed'
    BY <2>1 DEF Placed, TypeOK, BufferTypeOK
  <2>4. Waiting'
    <3>1. ASSUME NEW i \in Increment, Unsent(i)'
          PROVE  Unsent(i)
      <4>1. CASE progress'[i] # "done"
        BY <2>1, <4>1 DEF Unsent
      <4>2. CASE HomeOf[i] = s
        <5>1. hincr'[s] = {} /\ sentIncrements'[s] = {}
          BY <2>1 DEF TypeOK, BufferTypeOK
        <5> QED
          BY <3>1, <4>1, <4>2, <5>1 DEF Unsent
      <4>3. CASE HomeOf[i] # s
        <5>1. /\ hincr'[HomeOf[i]] = hincr[HomeOf[i]]
              /\ sentIncrements'[HomeOf[i]] = sentIncrements[HomeOf[i]]
          BY <1>h, <2>1, <4>3 DEF TypeOK, BufferTypeOK
        <5> QED
          BY <3>1, <4>1, <5>1 DEF Unsent
      <4> QED
        BY <4>2, <4>3
    <3>2. ASSUME NEW i \in Increment, Unsent(i)'
          PROVE  hash'[i] = 0 /\ billed'[i] = 0
      BY <2>1, <3>1, <3>2 DEF Waiting
    <3>3. ASSUME NEW i \in Increment, Unsent(i)', NEW t \in Server
          PROVE  counts'[t][i] = 0
      <4>1. counts[t][i] = 0
        BY <3>1, <3>3 DEF Waiting
      <4> QED
        BY <2>2, <4>1
    <3> QED
      BY <3>2, <3>3 DEF Waiting
  <2>5. AtMostOnce'
    BY <2>1, <2>2 DEF AtMostOnce
  <2>6. Snapshot'
    BY <2>1, <2>2 DEF Snapshot
  <2> QED
    BY <2>1, <2>3, <2>4, <2>5, <2>6 DEF Final, UsagePeriod
<1>8. ASSUME \/ Tick \/ UNCHANGED vars
             \/ \E k \in Member : ExpireCounts(k)
             \/ \E p \in Period : ExpireGroups(p)
             \/ \E s \in Server : DeleteCounts(s)
      PROVE  OnceInv'
  <2>1. UNCHANGED <<progress, period, hincr, sentIncrements, c, counts,
                    finalBefore, billed>>
    BY <1>8 DEF Tick, ExpireCounts, ExpireGroups, DeleteCounts, vars, timeVars,
       bufferVars, flushVars, dbVars
  <2>2. \A i \in Increment : hash'[i] = hash[i] \/ hash'[i] = 0
    BY <1>8 DEF Tick, ExpireCounts, ExpireGroups, DeleteCounts, vars, redisVars
  <2>3. \A s \in Server : step[s] = "commit" =>
          step'[s] = step[s] /\ groupID'[s] = groupID[s]
    BY <1>8 DEF Tick, ExpireCounts, ExpireGroups, DeleteCounts, vars, flushVars,
       TypeOK
  <2>4. Waiting' /\ AtMostOnce'
    BY <2>1, <2>2 DEF Waiting, Unsent, AtMostOnce
  <2>5. Snapshot'
    BY <2>1, <2>3 DEF Snapshot
  <2> QED
    BY <2>1, <2>4, <2>5 DEF Placed, Final, UsagePeriod
<1>9. ASSUME NEW s \in Server, ReadCounts(s)
      PROVE  OnceInv'
  <2>1. PICK g \in groupIDs[s] :
          /\ groupID' = [groupID EXCEPT ![s] = g]
          /\ counts' = [counts EXCEPT ![s] =
               [i \in Increment |-> IF Key(i) = <<g, c[s]>> THEN hash[i] ELSE 0]]
    BY <1>9 DEF ReadCounts
  <2>2. /\ step' = [step EXCEPT ![s] = "commit"]
        /\ UNCHANGED <<progress, period, hincr, sentIncrements, hash, c,
                       finalBefore, billed>>
    BY <1>9 DEF ReadCounts, timeVars, bufferVars, redisVars, dbVars
  <2>3. /\ \A t \in Server \ {s} : /\ step'[t] = step[t]
                                    /\ groupID'[t] = groupID[t]
                                    /\ counts'[t] = counts[t]
        /\ step'[s] = "commit" /\ groupID'[s] = g
        /\ \A i \in Increment :
             \/ counts'[s][i] = 0
             \/ counts'[s][i] = hash[i] /\ GroupOf[i] = g /\ period[i] = c[s]
    BY <2>1, <2>2 DEF TypeOK, Key
  <2>4. Waiting' /\ AtMostOnce'
    BY <2>2, <2>3 DEF Waiting, Unsent, AtMostOnce
  <2>5. Snapshot'
    BY <2>2, <2>3 DEF Snapshot
  <2> QED
    BY <2>2, <2>4, <2>5 DEF Placed, Final, UsagePeriod
<1>10. ASSUME NEW s \in Server, flushCounts(s)
       PROVE  OnceInv'
  <2> DEFINE g == groupID[s]
             u == UsagePeriod(c[s])
  <2>1. /\ UNCHANGED <<progress, period, hincr, sentIncrements, hash, c, groupID>>
        /\ \A t \in Server \ {s} : step'[t] = step[t] /\ counts'[t] = counts[t]
        /\ \A i \in Increment : counts'[s][i] = 0
    BY <1>10 DEF flushCounts, NoCounts, TypeOK, timeVars, bufferVars, redisVars
  <2>2. g \in Group /\ u \in Period /\ c[s] \in Nat
    BY UsagePeriodType, UsageConstantsOK DEF TypeOK, Period
  <2>3. \A t \in Server, i \in Increment :
          counts'[t][i] = counts[t][i] \/ counts'[t][i] = 0
    BY <2>1
  <2>4. Snapshot'
    BY <2>1 DEF Snapshot
  <2>5. CASE UNCHANGED dbVars
    BY <2>1, <2>3, <2>4, <2>5
       DEF Placed, Waiting, Unsent, AtMostOnce, Final, UsagePeriod, dbVars
  <2>6. CASE /\ finalBefore[g][u] = 0 \/ finalBefore[g][u] <= c[s]
             /\ finalBefore' = [finalBefore EXCEPT ![g][u] = c[s] + 1]
             /\ billed' = [i \in Increment |-> billed[i] + counts[s][i]]
    <3>1. \A i \in Increment : /\ billed'[i] = billed[i] + counts[s][i]
                               /\ billed[i] \in Nat /\ counts[s][i] \in Nat
      BY <2>6 DEF TypeOK
    <3>2. \A i \in Increment : counts[s][i] > 0 =>
            /\ GroupOf[i] = g /\ UsagePeriod(period[i]) = u /\ period[i] = c[s]
            /\ billed[i] = 0
      <4> SUFFICES ASSUME NEW i \in Increment, counts[s][i] > 0
                   PROVE  /\ GroupOf[i] = g /\ UsagePeriod(period[i]) = u
                          /\ period[i] = c[s] /\ billed[i] = 0
        OBVIOUS
      <4>1. GroupOf[i] = g /\ period[i] = c[s]
        BY DEF Snapshot
      <4>2. finalBefore[g][u] <= c[s]
        BY <2>2, <2>6
      <4>3. ~(billed[i] > 0)
        BY <2>2, <4>1, <4>2 DEF Final, TypeOK
      <4> QED
        BY <3>1, <4>1, <4>3
    <3>3. AtMostOnce'
      BY <2>1, <2>3, <3>1, <3>2 DEF AtMostOnce
    <3>4. Waiting'
      BY <2>1, <2>3, <3>1 DEF Waiting, Unsent
    <3>5. \A h \in Group, v \in Period :
            IF h = g /\ v = u THEN finalBefore'[h][v] = c[s] + 1
                             ELSE finalBefore'[h][v] = finalBefore[h][v]
      BY <2>2, <2>6 DEF TypeOK
    <3>6. Final'
      <4> SUFFICES ASSUME NEW i \in Increment, billed'[i] > 0
                   PROVE  finalBefore'[GroupOf[i]][UsagePeriod(period[i])] > period[i]
        BY <2>1 DEF Final, UsagePeriod
      <4>1. GroupOf[i] \in Group /\ UsagePeriod(period[i]) \in Period
        BY UsagePeriodType, UsageConstantsOK DEF TypeOK
      <4>2. CASE counts[s][i] > 0
        BY <2>2, <3>2, <3>5, <4>1, <4>2
      <4>3. CASE ~(counts[s][i] > 0)
        <5>1. billed[i] > 0
          BY <3>1, <4>3
        <5>2. finalBefore[GroupOf[i]][UsagePeriod(period[i])] > period[i]
          BY <5>1 DEF Final
        <5>3. period[i] \in Nat /\ finalBefore[GroupOf[i]][UsagePeriod(period[i])] \in Nat
          BY <4>1, UsageConstantsOK DEF TypeOK, Period
        <5> QED
          BY <2>2, <2>6, <3>5, <4>1, <5>2, <5>3
      <4> QED
        BY <4>2, <4>3
    <3> QED
      BY <2>1, <2>4, <3>3, <3>4, <3>6 DEF Placed
  <2> QED
    BY <1>10, <2>5, <2>6 DEF flushCounts
<1>11. ASSUME NEW s \in Server, Exec(s)
       PROVE  OnceInv'
  BY <1>4, <1>5, <1>11 DEF Exec
<1> QED
  BY <1>1, <1>2, <1>2f, <1>3, <1>5, <1>6, <1>7, <1>8, <1>9, <1>10, <1>11 DEF Next

(* Whatever comes late, is lost or crashes, and however many servers flush *)
(* the same period at the same time, no increment is billed twice.         *)
THEOREM NoDoubleBilling == Spec => []NoOvercount
<1>1. OnceInv => NoOvercount
  BY DEF OnceInv, AtMostOnce, NoOvercount
<1> QED
  BY <1>1, UsageTypes, OnceInit, OnceStep, PTL DEF Spec

-----------------------------------------------------------------------------
(* Nothing is left out.                                                    *)

Live(i) == progress[i] # "new" /\ ~Excused(i)

(* The counts of p are in Redis, or excused; or too old to be there. *)
Ripe(p) == now >= End(p) + ArrivalTime

Past(p) == Ripe(p) \/ Outlived(p)

(* The two halves of an increment are kept until it is billed ... *)
CountKept ==
  \A i \in Increment : Live(i) => \/ billed[i] > 0
                                  \/ CountOnItsWay(i)
                                  \/ hash[i] > 0

KeyKept ==
  \A i \in Increment : Live(i) =>
    \/ billed[i] > 0 \/ Key(i) \in members
    \/ \E s \in Server : Key(i) \in sadd[s] \union sentMembers[s]

(* ... and are in Redis in time. *)
Arrived ==
  \A i \in Increment : Live(i) /\ Ripe(period[i]) =>
    ~CountOnItsWay(i) /\ (billed[i] > 0 \/ Key(i) \in members)

(* A flush bills all groups of its period: those not left to do are billed *)
(* or are being billed.                                                    *)
FlushedAt(s) ==
  step[s] \in {"groups", "commit", "delete"} =>
    /\ Ripe(c[s])
    /\ step[s] # "groups" => groupID[s] \notin groupIDs[s]
    /\ \A i \in Increment : Live(i) /\ period[i] = c[s] =>
         \/ billed[i] > 0
         \/ GroupOf[i] \in groupIDs[s]
         \/ step[s] = "commit" /\ groupID[s] = GroupOf[i] /\ counts[s][i] > 0

(* It goes from the oldest period on, in order. *)
InOrderAt(s) ==
  step[s] # "idle" =>
    /\ \A p \in Period : p < c[s] => Past(p)
    /\ \A i \in Increment : Live(i) /\ period[i] < c[s] => billed[i] > 0

Flushed == \A s \in Server : FlushedAt(s) /\ InOrderAt(s)

(* No row is final for a period that can still get counts. *)
FinalIsPast ==
  \A g \in Group, p \in Period : finalBefore[g][UsagePeriod(p)] > p => Past(p)

KeptInv == CountKept /\ KeyKept /\ Arrived

DueInv == KeptInv /\ Flushed /\ FinalIsPast /\ FinalIsComplete

(* Times and periods. *)
LEMMA DivBounds ==
  ASSUME NEW t \in Int, NEW d \in Nat \ {0}
  PROVE  /\ t \div d \in Int
         /\ (t \div d) * d <= t
         /\ t < (t \div d) * d + d
OBVIOUS

LEMMA TimesMonotonic ==
  ASSUME NEW a \in Int, NEW b \in Int, NEW d \in Nat, a <= b
  PROVE  a * d <= b * d /\ a * d \in Int /\ b * d \in Int
OBVIOUS

LEMMA TimesOf ==
  ASSUME TypeOK, NEW p \in Nat
  PROVE  /\ now \in Nat /\ Start(p) \in Nat /\ End(p) \in Nat
         /\ Start(p) = p * PeriodDuration /\ End(p) = Start(p) + PeriodDuration
         /\ PeriodDuration \in Nat \ {0} /\ SettlingTime \in Nat /\ KeyTTL \in Nat
         /\ ArrivalTime \in Nat /\ Skew \in Nat
         /\ ArrivalTime + Skew <= SettlingTime
<1>1. p * PeriodDuration \in Nat
  BY UsageConstantsOK
<1> QED
  BY <1>1, UsageConstantsOK, SettlesInTime DEF TypeOK, Start, End

(* A settled period is ripe: that is what the settling time is for. *)
LEMMA SettledIsRipe ==
  ASSUME TypeOK, NEW p \in Nat, NEW t \in Clock, isSettled(p, t)
  PROVE  Ripe(p)
<1> DEFINE q == t - (PeriodDuration + SettlingTime)
           e == q \div PeriodDuration
<1>1. t \in Nat /\ t <= now + Skew
  BY UsageConstantsOK DEF Clock, TypeOK
<1>2. q \in Int /\ p <= e
  BY <1>1, UsageConstantsOK DEF isSettled, collectionPeriodStartingAt
<1>3. e \in Int /\ e * PeriodDuration <= q
  BY <1>2, DivBounds, UsageConstantsOK
<1>4. p * PeriodDuration <= e * PeriodDuration /\ e * PeriodDuration \in Int
  <2> HIDE DEF e
  <2> QED
    BY <1>2, <1>3, TimesMonotonic, UsageConstantsOK
<1> DEFINE ed == e * PeriodDuration
<1>5. Start(p) <= ed /\ ed <= q /\ ed \in Int
  BY <1>3, <1>4, TimesOf
<1> HIDE DEF ed
<1>6. Start(p) <= t - (PeriodDuration + SettlingTime)
  BY <1>1, <1>2, <1>5, TimesOf
<1> HIDE DEF e, q
<1> QED
  BY <1>1, <1>6, TimesOf DEF Ripe

(* The period of a new increment is not ripe. *)
LEMMA NewIsNotRipe ==
  ASSUME TypeOK, NEW t \in Clock, NEW p \in Nat, p = collectionPeriodStartingAt(t)
  PROVE  ~Ripe(p)
<1>1. t \in Nat /\ now <= t
  BY UsageConstantsOK DEF Clock, TypeOK
<1>2. t < p * PeriodDuration + PeriodDuration
  BY <1>1, DivBounds, UsageConstantsOK DEF collectionPeriodStartingAt
<1> QED
  BY <1>1, <1>2, TimesOf DEF Ripe

(* What is before the first period of a flush has outlived its keys. *)
LEMMA BeforeFlushIsOutlived ==
  ASSUME TypeOK, NEW t \in Clock, ~(t < KeyTTL), NEW p \in Nat,
         p < collectionPeriodStartingAt(t - KeyTTL)
  PROVE  Outlived(p)
<1> DEFINE q == t - KeyTTL
           e == q \div PeriodDuration
<1>1. t \in Nat /\ t <= now + Skew /\ q \in Int
  BY UsageConstantsOK DEF Clock, TypeOK
<1>2. p < e
  BY DEF collectionPeriodStartingAt
<1>3. e \in Int /\ e * PeriodDuration <= q
  BY <1>1, DivBounds, UsageConstantsOK
<1>4. p * PeriodDuration <= e * PeriodDuration /\ e * PeriodDuration \in Int
  <2> HIDE DEF e
  <2> QED
    BY <1>2, <1>3, TimesMonotonic, UsageConstantsOK
<1> DEFINE ed == e * PeriodDuration
<1>5. Start(p) <= ed /\ ed <= q /\ ed \in Int
  BY <1>3, <1>4, TimesOf
<1> HIDE DEF ed
<1>6. Start(p) <= t - KeyTTL
  BY <1>1, <1>5, TimesOf
<1> HIDE DEF e, q
<1> QED
  BY <1>1, <1>6, TimesOf DEF Outlived

(* What every step but a new increment leaves as it is or makes older.     *)
Aged ==
  /\ period' = period
  /\ now' \in Nat /\ now <= now'
  /\ excused \subseteq excused'
  /\ \A i \in Increment : progress'[i] # "new" => progress[i] # "new"
  /\ \A i \in Increment : billed[i] > 0 => billed'[i] > 0

LEMMA Aging ==
  ASSUME TypeOK, Aged
  PROVE  /\ \A p \in Period : (Ripe(p) => Ripe(p)') /\ (Past(p) => Past(p)')
         /\ \A i \in Increment : period[i] \in Period /\ (Live(i)' => Live(i))
<1>1. ASSUME NEW p \in Period
      PROVE  (Ripe(p) => Ripe(p)') /\ (Outlived(p) => Outlived(p)')
  <2>1. p \in Nat
    BY <1>1, UsageConstantsOK DEF Period
  <2>2. /\ now \in Nat /\ now' \in Nat /\ now <= now'
        /\ Start(p) \in Nat /\ End(p) \in Nat
        /\ ArrivalTime \in Nat /\ Skew \in Nat /\ KeyTTL \in Nat
    BY <2>1, TimesOf DEF Aged
  <2>3. Ripe(p) => Ripe(p)'
    BY <2>2 DEF Ripe
  <2>4. Outlived(p) => Outlived(p)'
    BY <2>2 DEF Outlived
  <2> QED
    BY <2>3, <2>4
<1>2. \A i \in Increment : period[i] \in Period
  BY DEF TypeOK
<1>3. ASSUME NEW i \in Increment, Live(i)'
      PROVE  Live(i)
  <2>1. progress'[i] # "new" /\ i \notin excused' /\ ~Outlived(period[i])'
    BY <1>3 DEF Live, Excused, Aged
  <2> QED
    BY <1>1, <1>2, <2>1 DEF Live, Excused, Aged
<1> QED
  BY <1>1, <1>2, <1>3 DEF Past

LEMMA FlushKeeps ==
  ASSUME TypeOK, Aged, NEW s \in Server, FlushedAt(s), InOrderAt(s),
         step'[s] = step[s], c'[s] = c[s], groupIDs'[s] = groupIDs[s],
         groupID'[s] = groupID[s], counts'[s] = counts[s]
  PROVE  FlushedAt(s)' /\ InOrderAt(s)'
<1>1. c[s] \in Period
  BY DEF TypeOK
<1>2. FlushedAt(s)'
  BY <1>1, Aging DEF FlushedAt, Aged
<1>3. InOrderAt(s)'
  BY <1>1, Aging DEF InOrderAt, Aged
<1> QED
  BY <1>2, <1>3

LEMMA FinalKeeps ==
  ASSUME TypeOK, Aged, FinalIsPast, FinalIsComplete, finalBefore' = finalBefore
  PROVE  FinalIsPast' /\ FinalIsComplete'
<1>1. FinalIsPast'
  BY Aging DEF FinalIsPast
<1>2. FinalIsComplete'
  <2> SUFFICES ASSUME NEW i \in Increment, Live(i)',
                      finalBefore[GroupOf[i]][UsagePeriod(period[i])] > period[i]
               PROVE  billed'[i] > 0
    BY DEF FinalIsComplete, Live, Aged
  <2>1. Live(i)
    BY Aging
  <2>2. billed[i] > 0
    BY <2>1 DEF Live, FinalIsComplete
  <2> QED
    BY <2>2 DEF Aged
<1> QED
  BY <1>1, <1>2


KeyBuffered(i) == \E s \in Server : Key(i) \in sadd[s] \union sentMembers[s]

(* What has to be shown of a step that only moves commands and counts.     *)
LEMMA KeptAging ==
  ASSUME TypeOK, Aged, KeptInv,
         \A i \in Increment : Live(i)' =>
           /\ CountOnItsWay(i) => CountOnItsWay(i)' \/ hash'[i] > 0
           /\ hash[i] > 0 => hash'[i] > 0 \/ billed'[i] > 0
           /\ Key(i) \in members => Key(i) \in members' \/ billed'[i] > 0
           /\ KeyBuffered(i) => KeyBuffered(i)' \/ Key(i) \in members'
  PROVE  /\ CountKept' /\ KeyKept'
         /\ (/\ now' = now
             /\ \A i \in Increment : CountOnItsWay(i)' => CountOnItsWay(i))
              => Arrived'
<1> USE DEF KeptInv
<1>1. \A i \in Increment : Key(i)' = Key(i)
  BY DEF Key, Aged
<1>2. CountKept'
  <2> SUFFICES ASSUME NEW i \in Increment, Live(i)'
               PROVE  billed'[i] > 0 \/ CountOnItsWay(i)' \/ hash'[i] > 0
    BY DEF CountKept
  <2>1. billed[i] > 0 \/ CountOnItsWay(i) \/ hash[i] > 0
    BY Aging DEF CountKept
  <2> QED
    BY <2>1 DEF Aged
<1>3. KeyKept'
  <2> SUFFICES ASSUME NEW i \in Increment, Live(i)'
               PROVE  billed'[i] > 0 \/ Key(i)' \in members' \/ KeyBuffered(i)'
    BY DEF KeyKept, KeyBuffered
  <2>1. billed[i] > 0 \/ Key(i) \in members \/ KeyBuffered(i)
    BY Aging DEF KeyKept, KeyBuffered
  <2> QED
    BY <1>1, <2>1 DEF Aged
<1>4. ASSUME now' = now,
             \A i \in Increment : CountOnItsWay(i)' => CountOnItsWay(i)
      PROVE  Arrived'
  <2> SUFFICES ASSUME NEW i \in Increment, Live(i)', Ripe(period[i])'
               PROVE  ~CountOnItsWay(i)' /\ (billed'[i] > 0 \/ Key(i)' \in members')
    BY DEF Arrived, Aged
  <2>1. Ripe(period[i])
    BY <1>4 DEF Ripe, Aged
  <2>2. Live(i)
    BY Aging
  <2>3. ~CountOnItsWay(i) /\ (billed[i] > 0 \/ Key(i) \in members)
    BY <2>1, <2>2 DEF Arrived
  <2> QED
    BY <1>1, <1>4, <2>3 DEF Aged
<1> QED
  BY <1>2, <1>3, <1>4

(* A new increment.  Its period is not ripe, so that no flush has come to  *)
(* it, unless its keys have outlived their time already.                   *)
LEMMA SetDue ==
  ASSUME TypeOK, DueInv, NEW i \in Increment, IncrementSet(i), TypeOK'
  PROVE  DueInv'
<1> USE DEF DueInv, KeptInv
<1>1. /\ progress[i] = "new" /\ progress' = [progress EXCEPT ![i] = "added"]
      /\ SAdd(HomeOf[i], Key(i)')
      /\ UNCHANGED <<now, excused, hincr, sentIncrements, sentMembers, hash>>
      /\ UNCHANGED <<step, c, groupIDs, groupID, counts, finalBefore, billed>>
  BY DEF IncrementSet, flushVars, dbVars
<1>2. PICK t \in Clock :
        period' = [period EXCEPT ![i] = collectionPeriodStartingAt(t)]
  BY DEF IncrementSet
<1>3. /\ progress'[i] = "added" /\ \A j \in Increment \ {i} : progress'[j] = progress[j]
      /\ period'[i] = collectionPeriodStartingAt(t) /\ period'[i] \in Period
      /\ \A j \in Increment \ {i} : period'[j] = period[j]
  BY <1>1, <1>2 DEF TypeOK
<1>4. ~Ripe(period'[i])
  BY <1>3, NewIsNotRipe, UsageConstantsOK DEF Period
<1>5. \A p : (Ripe(p)' <=> Ripe(p)) /\ (Outlived(p)' <=> Outlived(p))
             /\ (Past(p)' <=> Past(p))
  BY <1>1 DEF Ripe, Outlived, Past
<1>6. \A j \in Increment \ {i} :
        /\ Live(j)' <=> Live(j)
        /\ Key(j)' = Key(j)
        /\ CountOnItsWay(j)' <=> CountOnItsWay(j)
  BY <1>1, <1>3, <1>5 DEF Live, Excused, Key, CountOnItsWay
<1>7. Live(i)' => ~Past(period'[i])
  BY <1>4, <1>5 DEF Live, Excused, Past
<1>8. /\ members \subseteq members'
      /\ \A s \in Server : sadd[s] \subseteq sadd'[s]
      /\ Key(i)' \in members' \union sadd'[HomeOf[i]]
      /\ HomeOf[i] \in Server
  <2>1. HomeOf[i] \in Server /\ sadd \in [Server -> SUBSET Member]
    BY UsageConstantsOK DEF TypeOK, BufferTypeOK
  <2> HIDE DEF DueInv, KeptInv
  <2> DEFINE m == Key(i)'
             h == HomeOf[i]
  <2>2. SAdd(h, m)
    BY <1>1
  <2> HIDE DEF m, h
  <2>3. CASE isShuttingDown[h]
    <3>1. members' = members \union {m} /\ sadd' = sadd
      BY <2>2, <2>3 DEF SAdd
    <3> QED
      BY <2>1, <3>1 DEF m, h
  <2>4. CASE ~isShuttingDown[h]
    <3>1. sadd' = [sadd EXCEPT ![h] = @ \union {m}] /\ members' = members
      BY <2>2, <2>4 DEF SAdd
    <3>2. \A s \in Server : sadd'[s] = IF s = h THEN sadd[s] \union {m} ELSE sadd[s]
      BY <2>1, <3>1
    <3> QED
      BY <2>1, <3>1, <3>2 DEF m, h
  <2> QED
    BY <2>3, <2>4
<1>9. CountKept'
  <2>1. CountOnItsWay(i)'
    BY <1>3 DEF CountOnItsWay
  <2> QED
    BY <1>1, <1>6, <2>1 DEF CountKept
<1>10. KeyKept'
  <2> SUFFICES ASSUME NEW j \in Increment, Live(j)'
               PROVE  \/ billed'[j] > 0 \/ Key(j)' \in members'
                      \/ \E s \in Server : Key(j)' \in sadd'[s] \union sentMembers'[s]
    BY DEF KeyKept
  <2>1. CASE j = i
    BY <1>8, <2>1
  <2>2. CASE j # i
    <3>1. \/ billed[j] > 0 \/ Key(j) \in members
          \/ \E s \in Server : Key(j) \in sadd[s] \union sentMembers[s]
      BY <1>6, <2>2 DEF KeyKept
    <3> QED
      BY <1>1, <1>6, <1>8, <2>2, <3>1
  <2> QED
    BY <2>1, <2>2
<1>11. Arrived'
  <2> SUFFICES ASSUME NEW j \in Increment, Live(j)', NEW p, p = period'[j],
                      now' >= End(p) + ArrivalTime
               PROVE  ~CountOnItsWay(j)' /\ (billed'[j] > 0 \/ Key(j)' \in members')
    BY DEF Arrived, Ripe
  <2>1. Ripe(p)
    BY <1>1 DEF Ripe
  <2>2. j # i
    BY <1>4, <2>1
  <2>3. Live(j) /\ period[j] = p
    BY <1>3, <1>6, <2>2
  <2>4. ~CountOnItsWay(j) /\ (billed[j] > 0 \/ Key(j) \in members)
    BY <2>1, <2>3 DEF Arrived
  <2> QED
    BY <1>1, <1>6, <1>8, <2>2, <2>4
<1>12. ASSUME NEW s \in Server
       PROVE  FlushedAt(s)' /\ InOrderAt(s)'
  <2>1. FlushedAt(s) /\ InOrderAt(s) /\ c[s] \in Period
    BY DEF Flushed, TypeOK
  <2>2. FlushedAt(s)'
    <3> SUFFICES ASSUME step[s] \in {"groups", "commit", "delete"}
                 PROVE  /\ Ripe(c[s])'
                        /\ step[s] # "groups" => groupID[s] \notin groupIDs[s]
                        /\ \A j \in Increment : Live(j)' /\ period'[j] = c[s] =>
                             \/ billed[j] > 0
                             \/ GroupOf[j] \in groupIDs[s]
                             \/ /\ step[s] = "commit" /\ groupID[s] = GroupOf[j]
                                /\ counts[s][j] > 0
      BY <1>1 DEF FlushedAt
    <3>1. Ripe(c[s]) /\ period'[i] # c[s]
      BY <1>4, <2>1 DEF FlushedAt
    <3>2. Ripe(c[s])'
      BY <1>1, <3>1 DEF Ripe
    <3>3. step[s] # "groups" => groupID[s] \notin groupIDs[s]
      BY <2>1 DEF FlushedAt
    <3>4. ASSUME NEW j \in Increment, Live(j)', period'[j] = c[s]
          PROVE  \/ billed[j] > 0
                 \/ GroupOf[j] \in groupIDs[s]
                 \/ /\ step[s] = "commit" /\ groupID[s] = GroupOf[j]
                    /\ counts[s][j] > 0
      <4>1. j # i
        BY <3>1, <3>4
      <4>2. Live(j) /\ period[j] = c[s]
        BY <1>3, <1>6, <3>4, <4>1
      <4> QED
        BY <2>1, <4>2 DEF FlushedAt
    <3> QED
      BY <3>2, <3>3, <3>4
  <2>3. InOrderAt(s)'
    <3> SUFFICES ASSUME step[s] # "idle"
                 PROVE  /\ \A p \in Period : p < c[s] => Past(p)'
                        /\ \A j \in Increment : Live(j)' /\ period'[j] < c[s] => billed[j] > 0
      BY <1>1 DEF InOrderAt
    <3>1. \A p \in Period : p < c[s] => Past(p)
      BY <2>1 DEF InOrderAt
    <3> QED
      BY <1>3, <1>5, <1>6, <1>7, <2>1, <3>1 DEF InOrderAt
  <2> QED
    BY <2>2, <2>3
<1>13. FinalIsPast'
  BY <1>1, <1>5 DEF FinalIsPast
<1>14. FinalIsComplete'
  <2> SUFFICES ASSUME NEW j \in Increment, Live(j)',
                      finalBefore[GroupOf[j]][UsagePeriod(period'[j])] > period'[j]
               PROVE  billed[j] > 0
    BY <1>1 DEF FinalIsComplete, Live
  <2>1. GroupOf[j] \in Group
    BY UsageConstantsOK
  <2>2. j # i
    BY <1>3, <1>7, <2>1 DEF FinalIsPast
  <2> QED
    BY <1>3, <1>6, <2>2 DEF FinalIsComplete, Live
<1> QED
  BY <1>9, <1>10, <1>11, <1>12, <1>13, <1>14 DEF Flushed


LEMMA SameFlush ==
  ASSUME TypeOK, Aged, DueInv, UNCHANGED flushVars, UNCHANGED finalBefore
  PROVE  Flushed' /\ FinalIsPast' /\ FinalIsComplete'
<1>1. ASSUME NEW s \in Server
      PROVE  FlushedAt(s)' /\ InOrderAt(s)'
  <2>1. FlushedAt(s) /\ InOrderAt(s)
    BY DEF DueInv, Flushed
  <2> QED
    BY <2>1, FlushKeeps DEF flushVars
<1> QED
  BY <1>1, FinalKeeps DEF DueInv, Flushed

(* The second half of an increment. *)
LEMMA CountsDue ==
  ASSUME TypeOK, DueInv, NEW i \in Increment,
         IncrementCounts(i) \/ IncrementFails(i)
  PROVE  DueInv'
<1>1. /\ progress[i] = "added" /\ progress' = [progress EXCEPT ![i] = "done"]
      /\ UNCHANGED <<now, period, sadd, sentIncrements, sentMembers, members>>
      /\ UNCHANGED flushVars /\ UNCHANGED <<finalBefore, billed>>
      /\ excused \subseteq excused'
      /\ \/ hincr' = hincr /\ hash' = hash /\ i \in excused'
         \/ HIncrBy(HomeOf[i], i)
  BY DEF IncrementCounts, IncrementFails, dbVars, bufferVars, redisVars
<1>2. /\ progress'[i] = "done" /\ \A j \in Increment \ {i} : progress'[j] = progress[j]
      /\ HomeOf[i] \in Server
  BY <1>1, UsageConstantsOK DEF TypeOK
<1>3. Aged
  BY <1>1, <1>2 DEF Aged, TypeOK
<1>4. /\ \A s \in Server : hincr[s] \subseteq hincr'[s] /\ hincr'[s] \subseteq hincr[s] \union {i}
      /\ \A j \in Increment : hash[j] > 0 => hash'[j] > 0
      /\ i \in excused' \/ hash'[i] > 0 \/ i \in hincr'[HomeOf[i]]
  <2> DEFINE h == HomeOf[i]
  <2>1. hincr \in [Server -> SUBSET Increment] /\ hash \in [Increment -> Nat]
    BY DEF TypeOK, BufferTypeOK
  <2>2. h \in Server
    BY <1>2
  <2>3. (hincr' = hincr /\ hash' = hash /\ i \in excused') \/ HIncrBy(h, i)
    BY <1>1
  <2> HIDE DEF h
  <2>4. CASE hincr' = hincr /\ hash' = hash /\ i \in excused'
    BY <2>4
  <2>5. CASE isShuttingDown[h] /\ HIncrBy(h, i)
    <3>1. hash' = [hash EXCEPT ![i] = @ + 1] /\ hincr' = hincr
      BY <2>5 DEF HIncrBy
    <3>2. \A j \in Increment : hash'[j] = (IF j = i THEN hash[i] + 1 ELSE hash[j]) /\ hash[j] \in Nat
      BY <2>1, <3>1
    <3> QED
      BY <3>1, <3>2
  <2>6. CASE ~isShuttingDown[h] /\ HIncrBy(h, i)
    <3>1. hincr' = [hincr EXCEPT ![h] = @ \union {i}] /\ hash' = hash
      BY <2>6 DEF HIncrBy
    <3>2. \A s \in Server : hincr'[s] = IF s = h THEN hincr[s] \union {i} ELSE hincr[s]
      BY <2>1, <3>1
    <3> QED
      BY <2>2, <3>1, <3>2 DEF h
  <2> QED
    BY <2>3, <2>4, <2>5, <2>6
<1>5. \A j \in Increment : Key(j)' = Key(j) /\ (KeyBuffered(j) => KeyBuffered(j)')
  BY <1>1 DEF Key, KeyBuffered
<1>6. ASSUME NEW j \in Increment, CountOnItsWay(j)'
      PROVE  CountOnItsWay(j)
  <2>1. CASE j = i
    BY <1>1, <2>1 DEF CountOnItsWay
  <2>2. CASE j # i
    BY <1>1, <1>2, <1>4, <1>6, <2>2 DEF CountOnItsWay
  <2> QED
    BY <2>1, <2>2
<1>7. ASSUME NEW j \in Increment, Live(j)', CountOnItsWay(j)
      PROVE  CountOnItsWay(j)' \/ hash'[j] > 0
  <2>1. CASE j = i
    <3>1. i \notin excused'
      BY <1>7, <2>1 DEF Live, Excused
    <3> QED
      BY <1>2, <1>4, <2>1, <3>1 DEF CountOnItsWay
  <2>2. CASE j # i
    BY <1>1, <1>2, <1>4, <1>7, <2>2 DEF CountOnItsWay
  <2> QED
    BY <2>1, <2>2
<1>8. CountKept' /\ KeyKept' /\ Arrived'
  BY <1>1, <1>3, <1>4, <1>5, <1>6, <1>7, KeptAging DEF DueInv
<1> QED
  BY <1>1, <1>3, <1>8, SameFlush DEF DueInv, KeptInv

(* The buffers. *)
LEMMA BufferDue ==
  ASSUME TypeOK, DueInv, NEW s \in Server,
         \/ FlushBuffer(s) \/ StopBuffer(s) \/ Exec(s) \/ BufferFails(s)
  PROVE  DueInv'
<1>1. /\ UNCHANGED <<now, progress, period>> /\ UNCHANGED flushVars
      /\ UNCHANGED <<finalBefore, billed>>
      /\ excused \subseteq excused'
  BY DEF FlushBuffer, StopBuffer, Exec, BufferFails, timeVars, dbVars
<1>2. Aged
  BY <1>1 DEF Aged, TypeOK
<1>t. /\ hincr \in [Server -> SUBSET Increment] /\ sadd \in [Server -> SUBSET Member]
      /\ sentIncrements \in [Server -> SUBSET Increment]
      /\ sentMembers \in [Server -> SUBSET Member] /\ hash \in [Increment -> Nat]
  BY DEF TypeOK, BufferTypeOK
<1>k. \A i \in Increment : Key(i)' = Key(i)
  BY <1>1 DEF Key
<1> SUFFICES \A i \in Increment :
      /\ CountOnItsWay(i)' => CountOnItsWay(i)
      /\ Live(i)' =>
           /\ CountOnItsWay(i) => CountOnItsWay(i)' \/ hash'[i] > 0
           /\ hash[i] > 0 => hash'[i] > 0
           /\ Key(i) \in members => Key(i) \in members'
           /\ KeyBuffered(i) => KeyBuffered(i)' \/ Key(i) \in members'
  <2>1. CountKept' /\ KeyKept' /\ Arrived'
    BY <1>1, <1>2, KeptAging DEF DueInv
  <2> QED
    BY <1>1, <1>2, <2>1, SameFlush DEF DueInv, KeptInv
<1> TAKE i \in Increment
<1>3. CASE FlushBuffer(s)
  <2>1. /\ sentIncrements[s] = {} /\ sentMembers[s] = {}
        /\ \A t \in Server : /\ hincr'[t] = IF t = s THEN {} ELSE hincr[t]
                             /\ sadd'[t] = IF t = s THEN {} ELSE sadd[t]
                             /\ sentIncrements'[t] = IF t = s THEN hincr[s] ELSE sentIncrements[t]
                             /\ sentMembers'[t] = IF t = s THEN sadd[s] ELSE sentMembers[t]
        /\ hash' = hash /\ members' = members
    BY <1>3, <1>t DEF FlushBuffer, Flush, Flushing, redisVars
  <2>2. \A t \in Server : /\ hincr'[t] \union sentIncrements'[t] = hincr[t] \union sentIncrements[t]
                          /\ sadd'[t] \union sentMembers'[t] = sadd[t] \union sentMembers[t]
    BY <2>1
  <2>3. CountOnItsWay(i)' <=> CountOnItsWay(i)
    BY <1>1, <2>2 DEF CountOnItsWay
  <2>4. KeyBuffered(i) => KeyBuffered(i)'
    BY <1>k, <2>2 DEF KeyBuffered
  <2> QED
    BY <2>1, <2>3, <2>4
<1>4. CASE StopBuffer(s)
  BY <1>1, <1>4, <1>k DEF StopBuffer, StopPeriodicFlush, redisVars, CountOnItsWay,
                          KeyBuffered
<1>5. ASSUME NEW k \in Member,
             ExecHIncrBy(s, {j \in sentIncrements[s] : Key(j) = k})
      PROVE  /\ CountOnItsWay(i)' => CountOnItsWay(i)
             /\ CountOnItsWay(i) => CountOnItsWay(i)' \/ hash'[i] > 0
             /\ hash[i] > 0 => hash'[i] > 0
             /\ members' = members
             /\ KeyBuffered(i) => KeyBuffered(i)'
  <2> DEFINE incs == {j \in sentIncrements[s] : Key(j) = k}
  <2>1. ExecHIncrBy(s, incs)
    BY <1>5
  <2> HIDE DEF incs
  <2>2. /\ incs \subseteq sentIncrements[s]
        /\ hash'[i] = IF i \in incs THEN hash[i] + 1 ELSE hash[i]
        /\ hash[i] \in Nat
        /\ \A t \in Server : sentIncrements'[t] = IF t = s THEN sentIncrements[t] \ incs
                                                  ELSE sentIncrements[t]
        /\ UNCHANGED <<hincr, sadd, sentMembers, members>>
    BY <1>t, <2>1 DEF ExecHIncrBy
  <2>3. hash[i] > 0 => hash'[i] > 0
    BY <2>2
  <2>4. i \in incs => hash'[i] > 0
    BY <2>2
  <2>5. CountOnItsWay(i)' => CountOnItsWay(i)
    BY <1>1, <2>2 DEF CountOnItsWay
  <2>6. CountOnItsWay(i) => CountOnItsWay(i)' \/ i \in incs
    BY <1>1, <2>2 DEF CountOnItsWay
  <2>7. KeyBuffered(i) => KeyBuffered(i)'
    BY <1>k, <2>2 DEF KeyBuffered
  <2> QED
    BY <2>2, <2>3, <2>4, <2>5, <2>6, <2>7
<1>6. ASSUME NEW k \in Member, ExecSAdd(s, k)
      PROVE  /\ CountOnItsWay(i)' <=> CountOnItsWay(i)
             /\ hash' = hash
             /\ Key(i) \in members => Key(i) \in members'
             /\ KeyBuffered(i) => KeyBuffered(i)' \/ Key(i) \in members'
  <2>1. /\ members' = members \union {k}
        /\ \A t \in Server : sentMembers'[t] = IF t = s THEN sentMembers[t] \ {k}
                                               ELSE sentMembers[t]
        /\ UNCHANGED <<hincr, sadd, sentIncrements, hash>>
    BY <1>t, <1>6 DEF ExecSAdd
  <2>2. CountOnItsWay(i)' <=> CountOnItsWay(i)
    BY <1>1, <2>1 DEF CountOnItsWay
  <2>3. KeyBuffered(i) => KeyBuffered(i)' \/ Key(i) = k
    BY <1>k, <2>1 DEF KeyBuffered
  <2> QED
    BY <2>1, <2>2, <2>3
<1>7. CASE BufferFails(s)
  <2>1. /\ \A t \in Server : /\ sentIncrements'[t] = IF t = s THEN {} ELSE sentIncrements[t]
                             /\ sentMembers'[t] = IF t = s THEN {} ELSE sentMembers[t]
        /\ UNCHANGED <<hincr, sadd, hash, members>>
        /\ excused' = excused \union Carried(s, sentIncrements[s], sentMembers[s])
    BY <1>7, <1>t DEF BufferFails, FlushFails, redisVars
  <2>2. CountOnItsWay(i)' => CountOnItsWay(i)
    BY <1>1, <2>1 DEF CountOnItsWay
  <2>3. ASSUME Live(i)'
        PROVE  progress[i] # "new" /\ i \notin sentIncrements[s] /\ Key(i) \notin sentMembers[s]
    BY <1>1, <2>1, <2>3 DEF Live, Excused, Carried
  <2>4. Live(i)' => (CountOnItsWay(i) => CountOnItsWay(i)')
    BY <1>1, <2>1, <2>3 DEF CountOnItsWay
  <2>5. Live(i)' => (KeyBuffered(i) => KeyBuffered(i)')
    BY <1>k, <2>1, <2>3 DEF KeyBuffered
  <2> QED
    BY <2>1, <2>2, <2>4, <2>5
<1> QED
  BY <1>3, <1>4, <1>5, <1>6, <1>7 DEF Exec


(* Time passes: what is not in Redis in time is excused. *)
LEMMA TickDue ==
  ASSUME TypeOK, DueInv, Tick
  PROVE  DueInv'
<1>1. /\ now' = now + 1 /\ now \in Nat /\ excused \subseteq excused'
      /\ UNCHANGED <<progress, period, members, sadd, sentMembers>>
      /\ UNCHANGED <<hincr, sentIncrements, hash>>
      /\ UNCHANGED flushVars /\ UNCHANGED <<finalBefore, billed>>
      /\ \A i \in Increment :
           OnItsWay(i) /\ now + 1 >= End(period[i]) + ArrivalTime => i \in excused'
  BY UsageConstantsOK DEF Tick, TypeOK, bufferVars, redisVars, dbVars
<1>2. Aged
  BY <1>1 DEF Aged
<1>3. /\ \A i \in Increment : Key(i)' = Key(i) /\ (KeyBuffered(i)' <=> KeyBuffered(i))
      /\ \A i \in Increment : CountOnItsWay(i)' <=> CountOnItsWay(i)
  BY <1>1 DEF Key, KeyBuffered, CountOnItsWay
<1>4. CountKept' /\ KeyKept'
  BY <1>1, <1>2, <1>3, KeptAging DEF DueInv
<1>5. Arrived'
  <2> SUFFICES ASSUME NEW i \in Increment, Live(i)', Ripe(period[i])'
               PROVE  ~CountOnItsWay(i)' /\ (billed'[i] > 0 \/ Key(i)' \in members')
    BY <1>1 DEF Arrived
  <2>1. Live(i) /\ i \notin excused'
    BY <1>2, Aging DEF Live, Excused
  <2>2. now + 1 >= End(period[i]) + ArrivalTime
    BY <1>1 DEF Ripe
  <2>3. ~OnItsWay(i)
    BY <1>1, <2>1, <2>2
  <2>4. ~CountOnItsWay(i) /\ (Key(i) \in members \/ ~KeyBuffered(i))
    BY <2>1, <2>3 DEF OnItsWay, KeyOnItsWay, KeyBuffered, Live
  <2>5. billed[i] > 0 \/ Key(i) \in members \/ KeyBuffered(i)
    BY <2>1 DEF DueInv, KeptInv, KeyKept, KeyBuffered
  <2> QED
    BY <1>1, <1>3, <2>4, <2>5
<1> QED
  BY <1>1, <1>2, <1>4, <1>5, SameFlush DEF DueInv, KeptInv

(* Keys outlive their time. *)
LEMMA ExpireDue ==
  ASSUME TypeOK, DueInv,
         (\E k \in Member : ExpireCounts(k)) \/ (\E p \in Period : ExpireGroups(p))
  PROVE  DueInv'
<1>1. /\ UNCHANGED <<now, progress, period, excused, sadd, sentMembers>>
      /\ UNCHANGED <<hincr, sentIncrements>>
      /\ UNCHANGED flushVars /\ UNCHANGED <<finalBefore, billed>>
  BY DEF ExpireCounts, ExpireGroups, timeVars, bufferVars, dbVars
<1>2. Aged
  BY <1>1 DEF Aged, TypeOK
<1>3. /\ \A i \in Increment : Key(i)' = Key(i) /\ (KeyBuffered(i)' <=> KeyBuffered(i))
      /\ \A i \in Increment : CountOnItsWay(i)' <=> CountOnItsWay(i)
  BY <1>1 DEF Key, KeyBuffered, CountOnItsWay
<1>4. ASSUME NEW i \in Increment, Live(i)'
      PROVE  hash'[i] = hash[i] /\ (Key(i) \in members => Key(i) \in members')
  <2>1. ~Outlived(period[i])
    BY <1>2, <1>4, Aging DEF Live, Excused
  <2>2. hash \in [Increment -> Nat]
    BY DEF TypeOK, BufferTypeOK
  <2>3. CASE \E k \in Member : ExpireCounts(k)
    <3>1. PICK k \in Member : ExpireCounts(k)
      BY <2>3
    <3>2. Key(i) # k
      BY <2>1, <3>1 DEF ExpireCounts, Key
    <3> QED
      BY <2>2, <3>1, <3>2 DEF ExpireCounts
  <2>4. CASE \E p \in Period : ExpireGroups(p)
    <3>1. PICK p \in Period : ExpireGroups(p)
      BY <2>4
    <3>2. Key(i)[2] # p
      BY <2>1, <3>1 DEF ExpireGroups, Key
    <3> QED
      BY <3>1, <3>2 DEF ExpireGroups
  <2> QED
    BY <2>3, <2>4
<1>5. CountKept' /\ KeyKept' /\ Arrived'
  BY <1>1, <1>2, <1>3, <1>4, KeptAging DEF DueInv
<1> QED
  BY <1>1, <1>2, <1>5, SameFlush DEF DueInv, KeptInv

(* A flush that ends in the middle leaves no obligations. *)
LEMMA ReturnKeeps ==
  ASSUME TypeOK, Aged, DueInv, NEW s \in Server, Return(s)
  PROVE  Flushed'
<1>1. ASSUME NEW t \in Server
      PROVE  FlushedAt(t)' /\ InOrderAt(t)'
  <2>1. CASE t = s
    <3>1. step'[t] = "idle"
      BY <2>1 DEF Return, TypeOK
    <3> QED
      BY <3>1 DEF FlushedAt, InOrderAt
  <2>2. CASE t # s
    <3>1. /\ step'[t] = step[t] /\ c'[t] = c[t] /\ groupIDs'[t] = groupIDs[t]
          /\ groupID'[t] = groupID[t] /\ counts'[t] = counts[t]
      BY <2>2 DEF Return, TypeOK
    <3>2. FlushedAt(t) /\ InOrderAt(t)
      BY DEF DueInv, Flushed
    <3> QED
      BY <3>1, <3>2, FlushKeeps
  <2> QED
    BY <2>1, <2>2
<1> QED
  BY <1>1 DEF Flushed

LEMMA CrashDue ==
  ASSUME TypeOK, DueInv, NEW s \in Server, Crash(s)
  PROVE  DueInv'
<1> DEFINE cut == {i \in Increment : progress[i] = "added" /\ HomeOf[i] = s}
           carried == Carried(s, hincr[s] \union sentIncrements[s],
                              sadd[s] \union sentMembers[s])
<1>1. /\ progress' = [i \in Increment |-> IF i \in cut THEN "done" ELSE progress[i]]
      /\ excused' = excused \union cut \union carried
      /\ Lose(s) /\ Return(s)
      /\ UNCHANGED <<now, period, finalBefore, billed, hash, members>>
  BY DEF Crash, Lose, redisVars, dbVars
<1>2. \A t \in Server : /\ hincr'[t] = IF t = s THEN {} ELSE hincr[t]
                        /\ sadd'[t] = IF t = s THEN {} ELSE sadd[t]
                        /\ sentIncrements'[t] = IF t = s THEN {} ELSE sentIncrements[t]
                        /\ sentMembers'[t] = IF t = s THEN {} ELSE sentMembers[t]
  BY <1>1 DEF Lose, TypeOK, BufferTypeOK
<1>3. \A i \in Increment : progress'[i] = IF i \in cut THEN "done" ELSE progress[i]
  BY <1>1
<1>4. Aged
  BY <1>1, <1>3 DEF Aged, TypeOK
<1>5. \A i \in Increment : Key(i)' = Key(i)
  BY <1>1 DEF Key
<1>6. ASSUME NEW i \in Increment, CountOnItsWay(i)'
      PROVE  CountOnItsWay(i)
  BY <1>2, <1>3, <1>6 DEF CountOnItsWay
<1>7. ASSUME NEW i \in Increment, Live(i)'
      PROVE  /\ CountOnItsWay(i) => CountOnItsWay(i)'
             /\ KeyBuffered(i) => KeyBuffered(i)'
  <2>1. progress[i] # "new" /\ i \notin cut /\ i \notin carried
    BY <1>1, <1>4, <1>7, Aging DEF Live, Excused
  <2>2. i \notin hincr[s] \union sentIncrements[s] /\ Key(i) \notin sadd[s] \union sentMembers[s]
    BY <2>1 DEF Carried
  <2>3. progress'[i] = progress[i]
    BY <1>3, <2>1
  <2> HIDE DEF cut, carried
  <2>4. CountOnItsWay(i) => CountOnItsWay(i)'
    BY <1>2, <2>2, <2>3 DEF CountOnItsWay
  <2>5. KeyBuffered(i) => KeyBuffered(i)'
    BY <1>2, <1>5, <2>2 DEF KeyBuffered
  <2> QED
    BY <2>4, <2>5
<1> HIDE DEF cut, carried
<1>8. CountKept' /\ KeyKept' /\ Arrived'
  BY <1>1, <1>4, <1>6, <1>7, KeptAging DEF DueInv
<1>9. FinalIsPast' /\ FinalIsComplete'
  BY <1>1, <1>4, FinalKeeps DEF DueInv
<1> QED
  BY <1>1, <1>4, <1>8, <1>9, ReturnKeeps DEF DueInv, KeptInv


(* Steps of flushToDB leave time and buffers alone, and drop only what is  *)
(* billed.                                                                 *)
LEMMA FlushSteps ==
  ASSUME TypeOK, DueInv, UNCHANGED timeVars, UNCHANGED bufferVars,
         \A i \in Increment : billed[i] > 0 => billed'[i] > 0,
         \A i \in Increment : Live(i) =>
           /\ hash[i] > 0 => hash'[i] > 0 \/ billed[i] > 0
           /\ Key(i) \in members => Key(i) \in members' \/ billed[i] > 0
  PROVE  /\ Aged /\ KeptInv'
         /\ \A i : (Live(i)' <=> Live(i)) /\ period'[i] = period[i]
         /\ \A p : (Ripe(p)' <=> Ripe(p)) /\ (Past(p)' <=> Past(p))
<1>1. UNCHANGED <<now, progress, period, excused>>
  BY DEF timeVars
<1>2. Aged
  BY <1>1 DEF Aged, TypeOK
<1>3. \A i : (Live(i)' <=> Live(i)) /\ period'[i] = period[i]
  BY <1>1 DEF Live, Excused, Outlived
<1>4. \A p : (Ripe(p)' <=> Ripe(p)) /\ (Past(p)' <=> Past(p))
  BY <1>1 DEF Ripe, Past, Outlived
<1>5. \A i \in Increment : /\ CountOnItsWay(i)' <=> CountOnItsWay(i)
                           /\ KeyBuffered(i)' <=> KeyBuffered(i)
  BY <1>1 DEF CountOnItsWay, KeyBuffered, Key, bufferVars
<1>6. CountKept' /\ KeyKept' /\ Arrived'
  BY <1>1, <1>2, <1>3, <1>5, KeptAging DEF DueInv
<1> QED
  BY <1>2, <1>3, <1>4, <1>6 DEF KeptInv

LEMMA OthersFlush ==
  ASSUME TypeOK, DueInv, Aged, NEW s \in Server,
         \A t \in Server \ {s} :
           /\ step'[t] = step[t] /\ c'[t] = c[t] /\ groupIDs'[t] = groupIDs[t]
           /\ groupID'[t] = groupID[t] /\ counts'[t] = counts[t],
         FlushedAt(s)' /\ InOrderAt(s)'
  PROVE  Flushed'
<1>1. ASSUME NEW t \in Server, t # s
      PROVE  FlushedAt(t)' /\ InOrderAt(t)'
  <2>1. FlushedAt(t) /\ InOrderAt(t)
    BY DEF DueInv, Flushed
  <2> QED
    BY <1>1, <2>1, FlushKeeps
<1> QED
  BY <1>1 DEF Flushed

LEMMA StartDue ==
  ASSUME TypeOK, DueInv, NEW s \in Server, StartFlush(s)
  PROVE  DueInv'
<1>1. /\ UNCHANGED timeVars /\ UNCHANGED bufferVars
      /\ UNCHANGED <<hash, members, finalBefore, billed, groupIDs, groupID, counts>>
      /\ step' = [step EXCEPT ![s] = "period"]
  BY DEF StartFlush, redisVars, dbVars
<1>2. PICK t \in Clock :
        c' = [c EXCEPT ![s] = IF t < KeyTTL THEN 0
                              ELSE collectionPeriodStartingAt(t - KeyTTL)]
  BY DEF StartFlush
<1>3. /\ Aged /\ KeptInv'
      /\ \A i : (Live(i)' <=> Live(i)) /\ period'[i] = period[i]
      /\ \A p : (Ripe(p)' <=> Ripe(p)) /\ (Past(p)' <=> Past(p))
  BY <1>1, FlushSteps
<1>4. /\ step'[s] = "period"
      /\ c'[s] = IF t < KeyTTL THEN 0 ELSE collectionPeriodStartingAt(t - KeyTTL)
      /\ \A u \in Server \ {s} : step'[u] = step[u] /\ c'[u] = c[u]
  BY <1>1, <1>2 DEF TypeOK
<1>5. ASSUME NEW p \in Period, p < c'[s]
      PROVE  Outlived(p)
  <2>1. p \in Nat
    BY UsageConstantsOK DEF Period
  <2>2. ~(t < KeyTTL)
    BY <1>4, <1>5, <2>1
  <2> QED
    BY <1>4, <1>5, <2>1, <2>2, BeforeFlushIsOutlived
<1>6. InOrderAt(s)'
  <2>1. \A p \in Period : p < c'[s] => Past(p)'
    BY <1>3, <1>5 DEF Past
  <2>2. ASSUME NEW i \in Increment, Live(i)', period'[i] < c'[s]
        PROVE  billed'[i] > 0
    <3>1. Live(i) /\ period[i] \in Period /\ period[i] < c'[s]
      BY <1>3, <2>2 DEF TypeOK
    <3> QED
      BY <1>5, <3>1 DEF Live, Excused
  <2> QED
    BY <2>1, <2>2 DEF InOrderAt
<1>7. FlushedAt(s)'
  BY <1>4 DEF FlushedAt
<1>8. Flushed'
  BY <1>1, <1>3, <1>4, <1>6, <1>7, OthersFlush
<1>9. FinalIsPast' /\ FinalIsComplete'
  BY <1>1, <1>3, FinalKeeps DEF DueInv
<1> QED
  BY <1>3, <1>8, <1>9 DEF DueInv

LEMMA ReadGroupsDue ==
  ASSUME TypeOK, DueInv, NEW s \in Server, ReadGroups(s) \/ FlushToDBFails(s)
  PROVE  DueInv'
<1>1. /\ UNCHANGED timeVars /\ UNCHANGED bufferVars
      /\ UNCHANGED <<hash, members, finalBefore, billed>>
  BY DEF ReadGroups, FlushToDBFails, redisVars, dbVars
<1>2. /\ Aged /\ KeptInv'
      /\ \A i : (Live(i)' <=> Live(i)) /\ period'[i] = period[i]
      /\ \A p : (Ripe(p)' <=> Ripe(p)) /\ (Past(p)' <=> Past(p))
  BY <1>1, FlushSteps
<1>3. FinalIsPast' /\ FinalIsComplete'
  BY <1>1, <1>2, FinalKeeps DEF DueInv
<1>4. CASE Return(s)
  BY <1>2, <1>3, <1>4, ReturnKeeps DEF DueInv
<1>5. ASSUME NEW t \in Clock, isSettled(c[s], t), step[s] = "period",
             groupIDs' = [groupIDs EXCEPT ![s] =
                            {g \in Group : <<g, c[s]>> \in members}],
             step' = [step EXCEPT ![s] = "groups"],
             UNCHANGED <<c, groupID, counts>>
      PROVE  DueInv'
  <2>1. c[s] \in Nat /\ step \in [Server -> {"idle", "period", "groups", "commit", "delete"}]
    BY UsageConstantsOK DEF TypeOK, Period
  <2>2. Ripe(c[s])
    BY <1>5, <2>1, SettledIsRipe
  <2>3. /\ step'[s] = "groups"
        /\ groupIDs'[s] = {g \in Group : <<g, c[s]>> \in members}
        /\ \A u \in Server \ {s} : step'[u] = step[u] /\ groupIDs'[u] = groupIDs[u]
    BY <1>5 DEF TypeOK
  <2>4. Ripe(c[s])'
    BY <1>1, <1>5, <2>2 DEF Ripe, timeVars
  <2>5. ASSUME NEW i \in Increment, Live(i)', period'[i] = c[s]
        PROVE  billed'[i] > 0 \/ GroupOf[i] \in groupIDs'[s]
    <3>1. Live(i) /\ period[i] = c[s] /\ Ripe(period[i])
      BY <1>2, <2>2, <2>5
    <3>2. billed[i] > 0 \/ Key(i) \in members
      BY <3>1 DEF DueInv, KeptInv, Arrived
    <3>3. GroupOf[i] \in Group
      BY UsageConstantsOK
    <3> QED
      BY <1>1, <2>3, <3>1, <3>2, <3>3 DEF Key
  <2>6. FlushedAt(s)'
    BY <1>5, <2>3, <2>4, <2>5 DEF FlushedAt
  <2>7. InOrderAt(s)'
    <3>1. /\ \A p \in Period : p < c[s] => Past(p)
          /\ \A i \in Increment : Live(i) /\ period[i] < c[s] => billed[i] > 0
      BY <1>5 DEF DueInv, Flushed, InOrderAt
    <3> QED
      BY <1>1, <1>2, <1>5, <3>1 DEF InOrderAt
  <2>8. Flushed'
    BY <1>2, <1>5, <2>3, <2>6, <2>7, OthersFlush
  <2> QED
    BY <1>2, <1>3, <2>8 DEF DueInv
<1> QED
  BY <1>4, <1>5 DEF ReadGroups, FlushToDBFails

(* What a flush reads of a group that has counts is more than nothing. *)
LEMMA ReadCountsDue ==
  ASSUME TypeOK, DueInv, NEW s \in Server, ReadCounts(s)
  PROVE  DueInv'
<1>1. /\ UNCHANGED timeVars /\ UNCHANGED bufferVars
      /\ UNCHANGED <<hash, members, finalBefore, billed, c>>
      /\ step[s] = "groups" /\ step' = [step EXCEPT ![s] = "commit"]
  BY DEF ReadCounts, redisVars, dbVars
<1>2. PICK g \in groupIDs[s] :
        /\ groupID' = [groupID EXCEPT ![s] = g]
        /\ groupIDs' = [groupIDs EXCEPT ![s] = @ \ {g}]
        /\ counts' = [counts EXCEPT ![s] =
             [i \in Increment |-> IF Key(i) = <<g, c[s]>> THEN hash[i] ELSE 0]]
  BY DEF ReadCounts
<1>3. /\ Aged /\ KeptInv'
      /\ \A i : (Live(i)' <=> Live(i)) /\ period'[i] = period[i]
      /\ \A p : (Ripe(p)' <=> Ripe(p)) /\ (Past(p)' <=> Past(p))
  BY <1>1, FlushSteps
<1>4. /\ step'[s] = "commit" /\ groupID'[s] = g /\ groupIDs'[s] = groupIDs[s] \ {g}
      /\ \A i \in Increment :
           counts'[s][i] = IF Key(i) = <<g, c[s]>> THEN hash[i] ELSE 0
      /\ \A t \in Server \ {s} :
           /\ step'[t] = step[t] /\ groupIDs'[t] = groupIDs[t]
           /\ groupID'[t] = groupID[t] /\ counts'[t] = counts[t]
  BY <1>1, <1>2 DEF TypeOK
<1>5. FlushedAt(s) /\ InOrderAt(s)
  BY DEF DueInv, Flushed
<1>6. Ripe(c[s]) /\ Ripe(c[s])'
  BY <1>1, <1>5 DEF FlushedAt, Ripe, timeVars
<1>7. ASSUME NEW i \in Increment, Live(i)', period'[i] = c[s]
      PROVE  \/ billed'[i] > 0
             \/ GroupOf[i] \in groupIDs'[s]
             \/ groupID'[s] = GroupOf[i] /\ counts'[s][i] > 0
  <2>1. Live(i) /\ period[i] = c[s] /\ Ripe(period[i])
    BY <1>3, <1>6, <1>7
  <2>2. billed[i] > 0 \/ GroupOf[i] \in groupIDs[s]
    BY <1>1, <1>5, <2>1 DEF FlushedAt
  <2>3. billed[i] > 0 \/ hash[i] > 0
    BY <2>1 DEF DueInv, KeptInv, CountKept, Arrived
  <2>4. GroupOf[i] = g => Key(i) = <<g, c[s]>>
    BY <2>1 DEF Key
  <2> QED
    BY <1>1, <1>4, <2>2, <2>3, <2>4
<1>8. FlushedAt(s)'
  BY <1>1, <1>4, <1>6, <1>7 DEF FlushedAt
<1>9. InOrderAt(s)'
  BY <1>1, <1>3, <1>5 DEF InOrderAt
<1>10. Flushed'
  BY <1>1, <1>3, <1>4, <1>8, <1>9, OthersFlush
<1>11. FinalIsPast' /\ FinalIsComplete'
  BY <1>1, <1>3, FinalKeeps DEF DueInv
<1> QED
  BY <1>3, <1>10, <1>11 DEF DueInv


LEMMA UpTo == \A p, n \in Nat : n + 1 > p => p < n \/ p = n
OBVIOUS

(* The transaction: either the row is final for the period already, and    *)
(* then everything of it is billed, or what was read is billed now.        *)
LEMMA CommitDue ==
  ASSUME TypeOK, DueInv, NEW s \in Server, flushCounts(s)
  PROVE  DueInv'
<1> DEFINE g == groupID[s]
           u == UsagePeriod(c[s])
<1>1. /\ UNCHANGED timeVars /\ UNCHANGED bufferVars
      /\ UNCHANGED <<hash, members, c, groupIDs, groupID>>
      /\ step[s] = "commit" /\ step' = [step EXCEPT ![s] = "delete"]
      /\ counts' = [counts EXCEPT ![s] = NoCounts]
  BY DEF flushCounts, redisVars
<1>2. \/ /\ finalBefore[g][u] = 0 \/ finalBefore[g][u] <= c[s]
         /\ finalBefore' = [finalBefore EXCEPT ![g][u] = c[s] + 1]
         /\ billed' = [i \in Increment |-> billed[i] + counts[s][i]]
      \/ /\ ~(finalBefore[g][u] = 0 \/ finalBefore[g][u] <= c[s])
         /\ UNCHANGED <<finalBefore, billed>>
  BY DEF flushCounts, dbVars
<1>3. /\ g \in Group /\ c[s] \in Period /\ c[s] \in Nat /\ u \in Period
      /\ finalBefore \in [Group -> [Period -> Nat]]
      /\ billed \in [Increment -> Nat] /\ counts[s] \in [Increment -> Nat]
      /\ \A i \in Increment : GroupOf[i] \in Group /\ period[i] \in Period /\ period[i] \in Nat
  <2>1. /\ g \in Group /\ c[s] \in Period
        /\ finalBefore \in [Group -> [Period -> Nat]]
        /\ billed \in [Increment -> Nat] /\ counts[s] \in [Increment -> Nat]
    BY DEF TypeOK
  <2>2. u \in Period /\ \A p \in Period : p \in Nat
    BY <2>1, UsagePeriodType, UsageConstantsOK DEF Period
  <2>3. \A i \in Increment : GroupOf[i] \in Group /\ period[i] \in Period
    BY UsageConstantsOK DEF TypeOK
  <2> QED
    BY <2>1, <2>2, <2>3
<1>4. FlushedAt(s) /\ InOrderAt(s)
  BY DEF DueInv, Flushed
<1>5. /\ Ripe(c[s]) /\ g \notin groupIDs[s]
      /\ \A i \in Increment : Live(i) /\ period[i] = c[s] =>
           \/ billed[i] > 0
           \/ GroupOf[i] \in groupIDs[s]
           \/ g = GroupOf[i] /\ counts[s][i] > 0
      /\ \A p \in Period : p < c[s] => Past(p)
      /\ \A i \in Increment : Live(i) /\ period[i] < c[s] => billed[i] > 0
  BY <1>1, <1>4 DEF FlushedAt, InOrderAt
<1> HIDE DEF g, u
<1>6. \A i \in Increment : /\ billed[i] > 0 => billed'[i] > 0
                           /\ finalBefore' = finalBefore \/ (counts[s][i] > 0 => billed'[i] > 0)
  BY <1>2, <1>3
<1>7. /\ Aged /\ KeptInv'
      /\ \A i : (Live(i)' <=> Live(i)) /\ period'[i] = period[i]
      /\ \A p : (Ripe(p)' <=> Ripe(p)) /\ (Past(p)' <=> Past(p))
  BY <1>1, <1>6, FlushSteps
<1>8. \A i \in Increment : Live(i) /\ period[i] = c[s] =>
        billed'[i] > 0 \/ GroupOf[i] \in groupIDs[s]
  <2> SUFFICES ASSUME NEW i \in Increment, Live(i), period[i] = c[s],
                      GroupOf[i] \notin groupIDs[s], ~(billed[i] > 0)
               PROVE  billed'[i] > 0
    BY <1>6
  <2>1. g = GroupOf[i] /\ counts[s][i] > 0
    BY <1>5
  <2>2. CASE finalBefore' = finalBefore
    <3>1. ~(finalBefore[g][u] <= c[s]) \/ finalBefore[g][u] = c[s] + 1
      BY <1>2, <1>3, <2>2
    <3>2. finalBefore[g][u] \in Nat
      BY <1>3
    <3>3. finalBefore[GroupOf[i]][UsagePeriod(period[i])] > period[i]
      BY <1>3, <2>1, <3>1, <3>2 DEF u
    <3> QED
      BY <3>3 DEF DueInv, FinalIsComplete, Live
  <2>3. CASE finalBefore' # finalBefore
    BY <1>6, <2>1, <2>3
  <2> QED
    BY <2>2, <2>3
<1>9. FlushedAt(s)'
  <2>1. step'[s] = "delete"
    BY <1>1 DEF TypeOK
  <2>2. Ripe(c[s])'
    BY <1>1, <1>5 DEF Ripe, timeVars
  <2> QED
    BY <1>1, <1>5, <1>7, <1>8, <2>1, <2>2 DEF FlushedAt, g
<1>10. InOrderAt(s)'
  BY <1>1, <1>5, <1>6, <1>7 DEF InOrderAt
<1>11. Flushed'
  <2>1. \A t \in Server \ {s} : step'[t] = step[t] /\ counts'[t] = counts[t]
    BY <1>1 DEF TypeOK
  <2> QED
    BY <1>1, <1>7, <1>9, <1>10, <2>1, OthersFlush
<1>12. CASE UNCHANGED finalBefore
  BY <1>7, <1>11, <1>12, FinalKeeps DEF DueInv
<1>13. CASE finalBefore' = [finalBefore EXCEPT ![g][u] = c[s] + 1]
  <2>1. \A h \in Group, v \in Period :
          finalBefore'[h][v] = IF h = g /\ v = u THEN c[s] + 1 ELSE finalBefore[h][v]
    BY <1>3, <1>13
  <2>2. FinalIsPast'
    <3> SUFFICES ASSUME NEW h \in Group, NEW p \in Period,
                        finalBefore'[h][UsagePeriod(p)] > p
                 PROVE  Past(p)
      BY <1>7 DEF FinalIsPast
    <3>1. UsagePeriod(p) \in Period /\ p \in Nat
      BY UsagePeriodType, UsageConstantsOK DEF Period
    <3>2. CASE h = g /\ UsagePeriod(p) = u
      <4>0. c[s] + 1 > p
        BY <2>1, <3>1, <3>2
      <4>1. p < c[s] \/ p = c[s]
        BY <1>3, <3>1, <4>0, UpTo
      <4> QED
        BY <1>5, <4>1 DEF Past
    <3>3. CASE ~(h = g /\ UsagePeriod(p) = u)
      BY <2>1, <3>1, <3>3 DEF DueInv, FinalIsPast
    <3> QED
      BY <3>2, <3>3
  <2>3. FinalIsComplete'
    <3> SUFFICES ASSUME NEW i \in Increment, Live(i),
                        finalBefore'[GroupOf[i]][UsagePeriod(period[i])] > period[i]
                 PROVE  billed'[i] > 0
      <4>1. \A i \in Increment : progress'[i] # "new" /\ ~Excused(i)' => Live(i)
        BY <1>7 DEF Live
      <4>2. \A p : UsagePeriod(p)' = UsagePeriod(p)
        BY DEF UsagePeriod
      <4> QED
        BY <1>7, <4>1 DEF FinalIsComplete, Aged
    <3>1. UsagePeriod(period[i]) \in Period
      BY <1>3, UsagePeriodType
    <3>2. CASE GroupOf[i] = g /\ UsagePeriod(period[i]) = u
      <4>0. c[s] + 1 > period[i]
        BY <1>3, <2>1, <3>1, <3>2
      <4>1. period[i] < c[s] \/ period[i] = c[s]
        BY <1>3, <4>0, UpTo
      <4> QED
        BY <1>5, <1>6, <1>8, <3>2, <4>1
    <3>3. CASE ~(GroupOf[i] = g /\ UsagePeriod(period[i]) = u)
      <4>1. finalBefore[GroupOf[i]][UsagePeriod(period[i])] > period[i]
        BY <1>3, <2>1, <3>1, <3>3
      <4> QED
        BY <1>6, <4>1 DEF DueInv, FinalIsComplete, Live
    <3> QED
      BY <3>2, <3>3
  <2> QED
    BY <1>7, <1>11, <2>2, <2>3 DEF DueInv
<1> QED
  BY <1>2, <1>12, <1>13

(* What is deleted is billed. *)
LEMMA DeleteDue ==
  ASSUME TypeOK, DueInv, NEW s \in Server, DeleteCounts(s) \/ DeleteGroups(s)
  PROVE  DueInv'
<1>1. /\ UNCHANGED timeVars /\ UNCHANGED bufferVars
      /\ UNCHANGED <<finalBefore, billed, groupIDs, counts>>
  BY DEF DeleteCounts, DeleteGroups, dbVars
<1>2. FlushedAt(s) /\ InOrderAt(s)
  BY DEF DueInv, Flushed
<1>3. /\ hash \in [Increment -> Nat] /\ c[s] \in Period /\ c[s] \in Nat
      /\ \A i \in Increment : period[i] \in Period /\ period[i] \in Nat
  BY UsageConstantsOK DEF TypeOK, BufferTypeOK, Period
<1>4. CASE DeleteCounts(s)
  <2>1. /\ step[s] = "delete" /\ step' = [step EXCEPT ![s] = "groups"]
        /\ groupID' = [groupID EXCEPT ![s] = AnyGroup]
        /\ UNCHANGED <<members, c>>
        /\ \A i \in Increment :
             hash'[i] = IF Key(i) = <<groupID[s], c[s]>> THEN 0 ELSE hash[i]
    BY <1>4 DEF DeleteCounts
  <2>2. \A i \in Increment : Live(i) /\ Key(i) = <<groupID[s], c[s]>> => billed[i] > 0
    BY <1>2, <2>1 DEF FlushedAt, Key
  <2>3. /\ Aged /\ KeptInv'
        /\ \A i : (Live(i)' <=> Live(i)) /\ period'[i] = period[i]
        /\ \A p : (Ripe(p)' <=> Ripe(p)) /\ (Past(p)' <=> Past(p))
    BY <1>1, <2>1, <2>2, FlushSteps
  <2>4. /\ step'[s] = "groups"
        /\ \A t \in Server \ {s} : step'[t] = step[t] /\ groupID'[t] = groupID[t]
    BY <2>1 DEF TypeOK
  <2>5. FlushedAt(s)'
    <3>1. Ripe(c[s])'
      BY <1>1, <1>2, <2>1 DEF FlushedAt, Ripe, timeVars
    <3>2. \A i \in Increment : Live(i) /\ period[i] = c[s] =>
            billed[i] > 0 \/ GroupOf[i] \in groupIDs[s]
      BY <1>2, <2>1 DEF FlushedAt
    <3> QED
      BY <1>1, <2>1, <2>3, <2>4, <3>1, <3>2 DEF FlushedAt
  <2>6. InOrderAt(s)'
    BY <1>1, <1>2, <2>1, <2>3 DEF InOrderAt
  <2>7. Flushed'
    BY <1>1, <2>1, <2>3, <2>4, <2>5, <2>6, OthersFlush
  <2> QED
    BY <1>1, <2>3, <2>7, FinalKeeps DEF DueInv
<1>5. CASE DeleteGroups(s)
  <2>1. /\ step[s] = "groups" /\ groupIDs[s] = {}
        /\ step' = [step EXCEPT ![s] = "period"]
        /\ c' = [c EXCEPT ![s] = @ + 1]
        /\ members' = {k \in members : k[2] # c[s]}
        /\ UNCHANGED <<hash, groupID>>
    BY <1>5 DEF DeleteGroups
  <2>2. \A i \in Increment : Live(i) /\ period[i] = c[s] => billed[i] > 0
    BY <1>2, <2>1 DEF FlushedAt
  <2>3. \A i \in Increment : Live(i) /\ Key(i) \in members =>
          Key(i) \in members' \/ billed[i] > 0
    BY <2>1, <2>2 DEF Key
  <2>4. /\ Aged /\ KeptInv'
        /\ \A i : (Live(i)' <=> Live(i)) /\ period'[i] = period[i]
        /\ \A p : (Ripe(p)' <=> Ripe(p)) /\ (Past(p)' <=> Past(p))
    BY <1>1, <2>1, <2>3, FlushSteps
  <2>5. /\ step'[s] = "period" /\ c'[s] = c[s] + 1
        /\ \A t \in Server \ {s} : step'[t] = step[t] /\ c'[t] = c[t]
    BY <2>1 DEF TypeOK
  <2>6. InOrderAt(s)'
    <3>1. /\ \A p \in Period : p < c[s] => Past(p)
          /\ \A i \in Increment : Live(i) /\ period[i] < c[s] => billed[i] > 0
      BY <1>2, <2>1 DEF InOrderAt
    <3>2. Past(c[s])
      BY <1>2, <2>1 DEF FlushedAt, Past
    <3>3. \A p \in Period : p < c[s] + 1 => Past(p)'
      <4>1. \A p \in Period : p < c[s] + 1 => p < c[s] \/ p = c[s]
        BY <1>3, UsageConstantsOK DEF Period
      <4> QED
        BY <2>4, <3>1, <3>2, <4>1
    <3>4. \A i \in Increment : Live(i) /\ period[i] < c[s] + 1 => billed[i] > 0
      <4>1. \A i \in Increment : period[i] < c[s] + 1 => period[i] < c[s] \/ period[i] = c[s]
        BY <1>3
      <4> QED
        BY <2>2, <3>1, <4>1
    <3> QED
      BY <1>1, <2>4, <2>5, <3>3, <3>4 DEF InOrderAt
  <2>7. FlushedAt(s)'
    BY <2>5 DEF FlushedAt
  <2>8. Flushed'
    BY <1>1, <2>1, <2>4, <2>5, <2>6, <2>7, OthersFlush
  <2> QED
    BY <1>1, <2>4, <2>8, FinalKeeps DEF DueInv
<1> QED
  BY <1>4, <1>5

LEMMA DueInit == Init => DueInv
<1> SUFFICES ASSUME Init PROVE DueInv
  OBVIOUS
<1>1. \A i \in Increment : ~Live(i)
  BY DEF Init, Live
<1>2. KeptInv
  BY <1>1 DEF KeptInv, CountKept, KeyKept, Arrived
<1>3. Flushed
  BY DEF Flushed, FlushedAt, InOrderAt, Init
<1>4. FinalIsPast
  <2> SUFFICES ASSUME NEW g \in Group, NEW p \in Period,
                      finalBefore[g][UsagePeriod(p)] > p
               PROVE  FALSE
    BY DEF FinalIsPast
  <2>1. UsagePeriod(p) \in Period /\ p \in Nat
    BY UsagePeriodType, UsageConstantsOK DEF Period
  <2>2. finalBefore[g][UsagePeriod(p)] = 0
    BY <2>1 DEF Init
  <2> QED
    BY <2>1, <2>2
<1>5. FinalIsComplete
  BY <1>1 DEF FinalIsComplete, Live
<1> QED
  BY <1>2, <1>3, <1>4, <1>5 DEF DueInv

LEMMA DueStep ==
  ASSUME TypeOK, TypeOK', DueInv, [Next]_vars
  PROVE  DueInv'
<1>1. CASE UNCHANGED vars
  <2>1. UNCHANGED timeVars /\ UNCHANGED bufferVars /\ UNCHANGED flushVars
        /\ UNCHANGED <<hash, members, finalBefore, billed>>
    BY <1>1 DEF vars, redisVars, dbVars
  <2>2. Aged /\ KeptInv'
    BY <2>1, FlushSteps
  <2> QED
    BY <2>1, <2>2, SameFlush DEF DueInv
<1>2. CASE Next
  BY <1>2, SetDue, CountsDue, BufferDue, TickDue, ExpireDue, CrashDue, StartDue,
     ReadGroupsDue, ReadCountsDue, CommitDue, DeleteDue
     DEF Next
<1> QED
  BY <1>1, <1>2

LEMMA AlwaysDue == Spec => []DueInv
BY UsageTypes, DueInit, DueStep, PTL DEF Spec

(* Every increment that no fault has hit is billed, or on its way to Redis *)
(* or there, where a flush will find it: no flush deletes what it, or      *)
(* another one, has not billed.                                            *)
THEOREM AllAccounted == Spec => []Accounted
<1>1. DueInv => Accounted
  <2> SUFFICES ASSUME DueInv, NEW i \in Increment, Live(i), ~(billed[i] > 0)
               PROVE  OnItsWay(i) \/ (hash[i] > 0 /\ Key(i) \in members)
    BY DEF Accounted, Live
  <2>1. CountOnItsWay(i) \/ hash[i] > 0
    BY DEF DueInv, KeptInv, CountKept
  <2>2. Key(i) \in members \/ KeyBuffered(i)
    BY DEF DueInv, KeptInv, KeyKept, KeyBuffered
  <2> QED
    BY <2>1, <2>2 DEF OnItsWay, KeyOnItsWay, KeyBuffered, Live
<1> QED
  BY <1>1, AlwaysDue, PTL

(* A row that is final for a period misses nothing of it.                  *)
THEOREM FinalRowsComplete == Spec => []FinalIsComplete
BY AlwaysDue, PTL DEF DueInv
=============================================================================
