---------------------------- MODULE UsageTracker ----------------------------
(***************************************************************************)
(* The usage tracker: counts of what groups use are collected in Redis by  *)
(* collection period (a minute) and moved to the database by usage period  *)
(* (an hour), by any server, whenever a collection period is settled.      *)
(*                                                                         *)
(* The lock that the servers try to get before they flush is left out: it  *)
(* can expire, and it is there to reduce load only.                        *)
(***************************************************************************)
EXTENDS CommandBuffer

CONSTANTS
  Group,
  GroupOf,          \* the group of each increment
  HomeOf,           \* the server where each increment happens
  PeriodDuration,   \* collectionPeriodDuration, in ticks
  SettlingTime,     \* collectionPeriodSettlingTime
  KeyTTL,           \* redisKeyTTL
  UsageDuration,    \* collection periods in a usage period
  ArrivalTime,      \* a period's counts are in Redis that long after its end
  Skew,             \* how far clocks may be ahead
  MaxTime,          \* bound for the clock
  LastPeriod,       \* bound for the periods with usage
  Faults            \* "late", "flush", "crash"

ASSUME UsageConstantsOK ==
  /\ Group # {}
  /\ PeriodDuration \in Nat \ {0} /\ UsageDuration \in Nat \ {0}
  /\ SettlingTime \in Nat /\ KeyTTL \in Nat
  /\ ArrivalTime \in Nat /\ Skew \in Nat
  /\ MaxTime \in Nat /\ LastPeriod \in Nat
  /\ GroupOf \in [Increment -> Group]
  /\ HomeOf \in [Increment -> Server]

(* What the settling time accounts for, according to its comment. *)
ASSUME SettlesInTime == ArrivalTime + Skew <= SettlingTime

VARIABLES
  now,
  progress,         \* of an increment: "new", "added" to the set, "done"
  period,           \* its collection period
  excused,          \* the increments hit by a fault (not in the code)
  step,             \* step[s]: where flushToDB is, "idle" if it is not running
  c,                \* c[s]: its collection period
  groupIDs,         \* groupIDs[s]: the groups left to do
  groupID,          \* groupID[s]: the group whose counts it has read
  counts,           \* counts[s]: these counts
  finalBefore,      \* finalBefore[g][u]: of the row of g and u, 0 without one
  billed            \* billed[i]: how many times i is counted in its row

Period == 0..(MaxTime + Skew)

Member == Group \X Period

timeVars == <<now, progress, period, excused>>
flushVars == <<step, c, groupIDs, groupID, counts>>
dbVars == <<finalBefore, billed>>
vars == <<timeVars, bufferVars, redisVars, flushVars, dbVars>>

TypeOK ==
  /\ now \in 0..MaxTime
  /\ progress \in [Increment -> {"new", "added", "done"}]
  /\ period \in [Increment -> Period]
  /\ excused \in SUBSET Increment
  /\ BufferTypeOK(Member)
  /\ step \in [Server -> {"idle", "period", "groups", "commit", "delete"}]
  /\ c \in [Server -> Period]
  /\ groupIDs \in [Server -> SUBSET Group]
  /\ groupID \in [Server -> Group]
  /\ counts \in [Server -> [Increment -> Nat]]
  /\ finalBefore \in [Group -> [Period -> Nat]]
  /\ billed \in [Increment -> Nat]

NoCounts == [i \in Increment |-> 0]

AnyGroup == CHOOSE g \in Group : TRUE

Init ==
  /\ now = 0
  /\ progress = [i \in Increment |-> "new"]
  /\ period = [i \in Increment |-> 0]
  /\ excused = {}
  /\ BufferInit
  /\ step = [s \in Server |-> "idle"]
  /\ c = [s \in Server |-> 0]
  /\ groupIDs = [s \in Server |-> {}]
  /\ groupID = [s \in Server |-> AnyGroup]
  /\ counts = [s \in Server |-> NoCounts]
  /\ finalBefore = [g \in Group |-> [u \in Period |-> 0]]
  /\ billed = NoCounts

(* Times on the clock of some server. *)
Clock == now..(now + Skew)

collectionPeriodStartingAt(t) == t \div PeriodDuration

(* The usage period of a collection period, by its start. *)
UsagePeriod(p) == p - (p % UsageDuration)

Key(i) == <<GroupOf[i], period[i]>>

-----------------------------------------------------------------------------
(* Increments on their way to Redis.                                       *)

IncrementSet(i) ==
  /\ progress[i] = "new"
  /\ \E t \in Clock :
       /\ collectionPeriodStartingAt(t) <= LastPeriod
       /\ period' = [period EXCEPT ![i] = collectionPeriodStartingAt(t)]
  /\ progress' = [progress EXCEPT ![i] = "added"]
  /\ SAdd(HomeOf[i], Key(i)')
  /\ UNCHANGED <<now, excused, hincr, sentIncrements, sentMembers, isShuttingDown,
                 hash, flushVars, dbVars>>

IncrementCounts(i) ==
  /\ progress[i] = "added"
  /\ progress' = [progress EXCEPT ![i] = "done"]
  /\ HIncrBy(HomeOf[i], i)
  /\ UNCHANGED <<now, period, excused, sadd, sentIncrements, sentMembers,
                 isShuttingDown, members, flushVars, dbVars>>

(* A command that is not buffered may fail; the first half leaves nothing. *)
IncrementFails(i) ==
  /\ "flush" \in Faults
  /\ progress[i] = "added" /\ isShuttingDown[HomeOf[i]]
  /\ progress' = [progress EXCEPT ![i] = "done"]
  /\ excused' = excused \union {i}
  /\ UNCHANGED <<now, period, bufferVars, redisVars, flushVars, dbVars>>

FlushBuffer(s) ==
  /\ Flush(s)
  /\ UNCHANGED <<timeVars, flushVars, dbVars>>

Exec(s) ==
  /\ \/ \E k \in Member :
          ExecHIncrBy(s, {i \in sentIncrements[s] : Key(i) = k})
     \/ \E k \in Member : ExecSAdd(s, k)
  /\ UNCHANGED <<timeVars, flushVars, dbVars>>

StopBuffer(s) ==
  /\ StopPeriodicFlush(s)
  /\ UNCHANGED <<timeVars, flushVars, dbVars>>

(* What still has to arrive in Redis before i can be billed. *)
CountOnItsWay(i) ==
  \/ progress[i] = "added"
  \/ \E s \in Server : i \in hincr[s] \union sentIncrements[s]

KeyOnItsWay(i) ==
  /\ progress[i] # "new" /\ Key(i) \notin members
  /\ \E s \in Server : Key(i) \in sadd[s] \union sentMembers[s]

OnItsWay(i) == CountOnItsWay(i) \/ KeyOnItsWay(i)

(* Increments that lose something when the server dies or a flush fails.   *)
Carried(s, incs, keys) ==
  {i \in Increment : i \in incs \/ (progress[i] # "new" /\ Key(i) \in keys)}

BufferFails(s) ==
  /\ "flush" \in Faults
  /\ FlushFails(s)
  /\ excused' = excused \union Carried(s, sentIncrements[s], sentMembers[s])
  /\ UNCHANGED <<now, progress, period, flushVars, dbVars>>

(* flushToDB returns; its variables are gone. *)
Return(s) ==
  /\ step' = [step EXCEPT ![s] = "idle"]
  /\ c' = [c EXCEPT ![s] = 0]
  /\ groupIDs' = [groupIDs EXCEPT ![s] = {}]
  /\ groupID' = [groupID EXCEPT ![s] = AnyGroup]
  /\ counts' = [counts EXCEPT ![s] = NoCounts]

(* An increment dies in its server between its two halves, too. *)
Crash(s) ==
  /\ "crash" \in Faults
  /\ Lose(s)
  /\ LET cut == {i \in Increment : progress[i] = "added" /\ HomeOf[i] = s}
     IN /\ progress' = [i \in Increment |->
                          IF i \in cut THEN "done" ELSE progress[i]]
        /\ excused' = excused \union cut \union
                        Carried(s, hincr[s] \union sentIncrements[s],
                                sadd[s] \union sentMembers[s])
  /\ Return(s)
  /\ UNCHANGED <<now, period, dbVars>>

Start(p) == p * PeriodDuration

End(p) == Start(p) + PeriodDuration

(* Time passes.  Without the fault, counts arrive in time. *)
Tick ==
  /\ now < MaxTime
  /\ now' = now + 1
  /\ LET late == {i \in Increment :
                    OnItsWay(i) /\ now + 1 >= End(period[i]) + ArrivalTime}
     IN /\ late = {} \/ "late" \in Faults
        /\ excused' = excused \union late
  /\ UNCHANGED <<progress, period, bufferVars, redisVars, flushVars, dbVars>>

(* Redis drops a key. *)
Outlived(p) == now + Skew >= Start(p) + KeyTTL

ExpireCounts(k) ==
  /\ Outlived(k[2])
  /\ \E i \in Increment : Key(i) = k /\ hash[i] > 0
  /\ hash' = [i \in Increment |-> IF Key(i) = k THEN 0 ELSE hash[i]]
  /\ UNCHANGED <<timeVars, bufferVars, members, flushVars, dbVars>>

ExpireGroups(p) ==
  /\ Outlived(p)
  /\ \E g \in Group : <<g, p>> \in members
  /\ members' = {k \in members : k[2] # p}
  /\ UNCHANGED <<timeVars, bufferVars, hash, flushVars, dbVars>>

-----------------------------------------------------------------------------
(* flushToDB.                                                              *)

(* Mutant of isSettled: a period is settled when it is over. *)
settledAtEnd(p, t) == p < collectionPeriodStartingAt(t)

(* Mutant of isSettled: every period is settled. *)
settledAlways(p, t) == TRUE

isSettled(p, t) ==
  p <= collectionPeriodStartingAt(t - (PeriodDuration + SettlingTime))

(* The oldest period that may be in Redis; before the first one there is   *)
(* nothing.                                                                *)
StartFlush(s) ==
  /\ step[s] = "idle"
  /\ \E t \in Clock :
       c' = [c EXCEPT ![s] =
               IF t < KeyTTL THEN 0 ELSE collectionPeriodStartingAt(t - KeyTTL)]
  /\ step' = [step EXCEPT ![s] = "period"]
  /\ UNCHANGED <<timeVars, bufferVars, redisVars, groupIDs, groupID, counts,
                 dbVars>>

ReadGroups(s) ==
  /\ step[s] = "period"
  /\ \E t \in Clock :
       IF isSettled(c[s], t)
       THEN /\ groupIDs' = [groupIDs EXCEPT ![s] =
                              {g \in Group : <<g, c[s]>> \in members}]
            /\ step' = [step EXCEPT ![s] = "groups"]
            /\ UNCHANGED <<c, groupID, counts>>
       ELSE Return(s)
  /\ UNCHANGED <<timeVars, bufferVars, redisVars, dbVars>>

(* Mutant of ReadCounts: the counts are deleted when they are read. *)
ReadAndDelete(s) ==
  /\ step[s] = "groups"
  /\ \E g \in groupIDs[s] :
       LET read == {i \in Increment : Key(i) = <<g, c[s]>>}
       IN /\ groupID' = [groupID EXCEPT ![s] = g]
          /\ groupIDs' = [groupIDs EXCEPT ![s] = @ \ {g}]
          /\ counts' = [counts EXCEPT ![s] =
               [i \in Increment |-> IF i \in read THEN hash[i] ELSE 0]]
          /\ hash' = [i \in Increment |-> IF i \in read THEN 0 ELSE hash[i]]
  /\ step' = [step EXCEPT ![s] = "commit"]
  /\ UNCHANGED <<timeVars, bufferVars, members, c, dbVars>>

ReadCounts(s) ==
  /\ step[s] = "groups"
  /\ \E g \in groupIDs[s] :
       /\ groupID' = [groupID EXCEPT ![s] = g]
       /\ groupIDs' = [groupIDs EXCEPT ![s] = @ \ {g}]
       /\ counts' = [counts EXCEPT ![s] =
            [i \in Increment |-> IF Key(i) = <<g, c[s]>> THEN hash[i] ELSE 0]]
  /\ step' = [step EXCEPT ![s] = "commit"]
  /\ UNCHANGED <<timeVars, bufferVars, redisVars, c, dbVars>>

(* Mutant of flushCounts: the update has no condition. *)
flushCountsAgain(s) ==
  /\ step[s] = "commit"
  /\ finalBefore' = [finalBefore EXCEPT
                       ![groupID[s]][UsagePeriod(c[s])] = c[s] + 1]
  /\ billed' = [i \in Increment |-> billed[i] + counts[s][i]]
  /\ step' = [step EXCEPT ![s] = "delete"]
  /\ counts' = [counts EXCEPT ![s] = NoCounts]
  /\ UNCHANGED <<timeVars, bufferVars, redisVars, c, groupIDs, groupID>>

(* The transaction of flushCounts: a new row, or an update of the row if   *)
(* it is not final for this period.                                        *)
flushCounts(s) ==
  LET g == groupID[s]
      u == UsagePeriod(c[s])
  IN /\ step[s] = "commit"
     /\ IF finalBefore[g][u] = 0 \/ finalBefore[g][u] <= c[s]
        THEN /\ finalBefore' = [finalBefore EXCEPT ![g][u] = c[s] + 1]
             /\ billed' = [i \in Increment |-> billed[i] + counts[s][i]]
        ELSE UNCHANGED dbVars
     /\ step' = [step EXCEPT ![s] = "delete"]
     /\ counts' = [counts EXCEPT ![s] = NoCounts]
     /\ UNCHANGED <<timeVars, bufferVars, redisVars, c, groupIDs, groupID>>

DeleteCounts(s) ==
  /\ step[s] = "delete"
  /\ hash' = [i \in Increment |->
                IF Key(i) = <<groupID[s], c[s]>> THEN 0 ELSE hash[i]]
  /\ step' = [step EXCEPT ![s] = "groups"]
  /\ groupID' = [groupID EXCEPT ![s] = AnyGroup]
  /\ UNCHANGED <<timeVars, bufferVars, members, c, groupIDs, counts, dbVars>>

DeleteGroups(s) ==
  /\ step[s] = "groups" /\ groupIDs[s] = {}
  /\ members' = {k \in members : k[2] # c[s]}
  /\ c' = [c EXCEPT ![s] = @ + 1]
  /\ step' = [step EXCEPT ![s] = "period"]
  /\ UNCHANGED <<timeVars, bufferVars, hash, groupIDs, groupID, counts, dbVars>>

(* Redis or the database return an error, or the time for a flush is over: *)
(* after a commit this is as if the server had died.                       *)
FlushToDBFails(s) ==
  /\ step[s] # "idle"
  /\ Return(s)
  /\ UNCHANGED <<timeVars, bufferVars, redisVars, dbVars>>

Next ==
  \/ Tick
  \/ \E i \in Increment : IncrementSet(i) \/ IncrementCounts(i) \/ IncrementFails(i)
  \/ \E k \in Member : ExpireCounts(k)
  \/ \E p \in Period : ExpireGroups(p)
  \/ \E s \in Server :
       \/ FlushBuffer(s) \/ Exec(s) \/ BufferFails(s)
       \/ StopBuffer(s) \/ Crash(s)
       \/ StartFlush(s) \/ ReadGroups(s) \/ ReadCounts(s) \/ flushCounts(s)
       \/ DeleteCounts(s) \/ DeleteGroups(s) \/ FlushToDBFails(s)

Spec == Init /\ [][Next]_vars

-----------------------------------------------------------------------------
(* Properties.                                                             *)

(* No increment is billed twice, whatever servers flush at the same time   *)
(* and wherever they stop.                                                 *)
NoOvercount == \A i \in Increment : billed[i] <= 1

Excused(i) == i \in excused \/ Outlived(period[i])

(* Every increment has been billed or is on its way there: on its way to   *)
(* Redis, or in Redis where a flush will find it.                          *)
Accounted ==
  \A i \in Increment : progress[i] # "new" /\ ~Excused(i) =>
    \/ billed[i] > 0
    \/ OnItsWay(i)
    \/ hash[i] > 0 /\ Key(i) \in members

(* A row is final for what is before its final_before: nothing of it is    *)
(* missing there.                                                          *)
FinalIsComplete ==
  \A i \in Increment : progress[i] # "new" /\ ~Excused(i) =>
    (finalBefore[GroupOf[i]][UsagePeriod(period[i])] > period[i]
       => billed[i] > 0)
=============================================================================
