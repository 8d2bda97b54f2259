-------------------------- MODULE ShardCfgProofs --------------------------
(***************************************************************************)
(* Join and Leave leave a balanced configuration and move no shard without *)
(* need, for any number of shards, groups and operations.                  *)
(***************************************************************************)
EXTENDS ShardCfg, FiniteSetTheorems, WellFoundedInduction, TLAPS

-----------------------------------------------------------------------------
(* Counting shards.                                                         *)

\* A set of numbers that is not empty has a smallest one.
LEMMA Smallest ==
    ASSUME NEW T, T \subseteq Nat, T # {}
    PROVE  \E x \in T : \A y \in T : x <= y
<1>1. PICK x \in T : \A y \in T : ~(<<y, x>> \in OpToRel(<, Nat))
  BY NatLessThanWellFounded, WFMin
<1>2. \A y \in T : ~(y < x)
  BY <1>1 DEF OpToRel
<1> QED
  BY <1>2

LEMMA Constants == NShards \in Nat \ {0} /\ Gids \subseteq Nat \ {0} /\ 0 \notin Gids
  BY ShardAssumption DEF ShardAssumption

\* The shards of group g under an assignment a.
Of(a, g) == {s \in Shards : a[s] = g}

LEMMA CountType ==
    ASSUME NEW a, NEW g
    PROVE  IsFiniteSet(Of(a, g)) /\ Cardinality(Of(a, g)) \in 0 .. NShards
<1>1. IsFiniteSet(Shards) /\ Cardinality(Shards) = NShards
  BY Constants, FS_Interval DEF Shards
<1>2. Of(a, g) \subseteq Shards
  BY DEF Of
<1> QED
  BY <1>1, <1>2, FS_Subset, FS_CardinalityType

\* Giving shard s to group lg changes the loads of its old and its new group by one.
LEMMA CountMoved ==
    ASSUME NEW a, a = [s \in Shards |-> a[s]], NEW s \in Shards, NEW lg, NEW mg,
           a[s] = mg, mg # lg, NEW b, b = [a EXCEPT ![s] = lg]
    PROVE  /\ Cardinality(Of(b, lg)) = Cardinality(Of(a, lg)) + 1
           /\ Cardinality(Of(b, mg)) = Cardinality(Of(a, mg)) - 1
           /\ \A g : g \notin {lg, mg} => Cardinality(Of(b, g)) = Cardinality(Of(a, g))
<1>1. Of(b, lg) = Of(a, lg) \union {s} /\ s \notin Of(a, lg)
  BY DEF Of
<1>2. Of(b, mg) = Of(a, mg) \ {s} /\ s \in Of(a, mg)
  BY DEF Of
<1>3. \A g : g \notin {lg, mg} => Of(b, g) = Of(a, g)
  BY DEF Of
<1>4. Cardinality(Of(b, lg)) = Cardinality(Of(a, lg)) + 1
  BY <1>1, CountType, FS_AddElement
<1>5. Cardinality(Of(b, mg)) = Cardinality(Of(a, mg)) - 1
  BY <1>2, CountType, FS_RemoveElement
<1> QED
  BY <1>3, <1>4, <1>5

LEMMA Loads == \A g : Count(g) \in 0 .. NShards
  BY CountType DEF Count, Of

LEMMA LoadStep ==
    ASSUME shards \in [Shards -> Gids \union {0}], NEW s \in Shards, NEW lg, NEW mg,
           shards[s] = mg, mg # lg, shards' = [shards EXCEPT ![s] = lg]
    PROVE  /\ Count(lg)' = Count(lg) + 1
           /\ Count(mg)' = Count(mg) - 1
           /\ \A g : g \notin {lg, mg} => Count(g)' = Count(g)
<1>1. shards = [r \in Shards |-> shards[r]]
  OBVIOUS
<1>2. \A g : Count(g) = Cardinality(Of(shards, g)) /\ Count(g)' = Cardinality(Of(shards', g))
  BY DEF Count, Of
<1>3. /\ Cardinality(Of(shards', lg)) = Cardinality(Of(shards, lg)) + 1
      /\ Cardinality(Of(shards', mg)) = Cardinality(Of(shards, mg)) - 1
      /\ \A g : g \notin {lg, mg} => Cardinality(Of(shards', g)) = Cardinality(Of(shards, g))
  BY <1>1, CountMoved
<1> QED
  BY <1>2, <1>3

\* Among the groups there is a least and a most loaded one.
LEMMA Extremes ==
    ASSUME groups \subseteq Gids, groups # {}
    PROVE  (\E g \in groups : LeastLoaded(g)) /\ (\E g \in groups : MostLoaded(g))
<1>1. \E g \in groups : LeastLoaded(g)
  <2> DEFINE T == {n \in Nat : \E g \in groups : n = Count(g)}
  <2>1. T \subseteq Nat /\ \A g \in groups : Count(g) \in T
    BY Loads, Constants
  <2>2. PICK n \in T : \A m \in T : n <= m
    <3>1. T # {}
      BY <2>1
    <3> HIDE DEF T
    <3> QED
      BY <2>1, <3>1, Smallest
  <2>3. PICK g \in groups : \A h \in groups : Count(g) <= Count(h)
    BY <2>1, <2>2
  <2> DEFINE U == {h \in groups : Count(h) = Count(g)}
  <2>4. U \subseteq Nat /\ U # {}
    BY Constants
  <2>5. PICK l \in U : \A h \in U : l <= h
    BY <2>4, Smallest
  <2> QED
    BY <2>3, <2>5, Loads, Constants DEF LeastLoaded
<1>2. \E g \in groups : MostLoaded(g)
  <2> DEFINE T == {n \in Nat : \E g \in groups : n = NShards - Count(g)}
  <2>1. T \subseteq Nat /\ \A g \in groups : NShards - Count(g) \in T
    BY Loads, Constants
  <2>2. PICK n \in T : \A m \in T : n <= m
    <3>1. T # {}
      BY <2>1
    <3> HIDE DEF T
    <3> QED
      BY <2>1, <3>1, Smallest
  <2>3. PICK g \in groups : \A h \in groups : Count(h) <= Count(g)
    BY <2>1, <2>2, Loads, Constants
  <2> DEFINE U == {h \in groups : Count(h) = Count(g)}
  <2>4. U \subseteq Nat /\ U # {}
    BY Constants
  <2>5. PICK l \in U : \A h \in U : l <= h
    BY <2>4, Smallest
  <2> QED
    BY <2>3, <2>5, Loads, Constants DEF MostLoaded
<1> QED
  BY <1>1, <1>2

-----------------------------------------------------------------------------
(* The inductive invariant.                                                 *)

\* How far Rebalance has come.
LoopsDone ==
    /\ pc # "idle" => groups # {}
    /\ pc = "assign" => \A s \in Shards : s < next => shards[s] \in groups
    /\ pc = "move" => \A s \in Shards : shards[s] \in groups

\* Shards that have been moved had to be.
Needed(s) ==
    \/ shards[s] = old.shards[s]
    \/ shards[s] \notin old.groups
    \/ old.shards[s] \notin groups

\* While Rebalance works on what was a balanced configuration, the groups that were
\* there before stay balanced among themselves, and none that joined has two shards
\* more than any other group.
StayBalanced ==
    (pc # "idle" /\ old.balanced /\ old.groups # {}) =>
      /\ \A g, h \in groups : Count(g) <= Count(h) + 1 \/ (g \in old.groups /\ h \notin old.groups)
      /\ \A s \in Shards : Needed(s)
      /\ pc = "assign" => \A s \in Shards : s >= next => shards[s] = old.shards[s]

ShardInv == TypeOK /\ LoopsDone /\ StayBalanced /\ SuccessIsBalanced /\ OnlyNeededMoves

LEMMA InitShard == Init => ShardInv
  BY Constants, ShardAssumption
  DEF Init, ShardInv, TypeOK, LoopsDone, StayBalanced, SuccessIsBalanced, Balanced, OnlyNeededMoves,
      ShardAssumption

\* An operation that fails half way only changes the groups.
LEMMA FailStep ==
    ASSUME ShardInv, pc = "idle", old' = Before, next' = 0, ok' = FALSE, groups' \subseteq Gids,
           UNCHANGED <<num, shards, pc>>
    PROVE  ShardInv'
<1>0. ok' \in BOOLEAN /\ next' \in 0 .. NShards
  <2>1. ok' \in BOOLEAN
    BY Zenon
  <2>2. next' \in 0 .. NShards
    BY Constants
  <2> QED
    BY <2>1, <2>2
<1>1. TypeOK'
  BY <1>0, Zenon DEF ShardInv, TypeOK
<1>2. pc' = "idle" /\ ~ok'
  OBVIOUS
<1> QED
  BY <1>1, <1>2 DEF ShardInv, LoopsDone, StayBalanced, SuccessIsBalanced, OnlyNeededMoves

\* Groups are added to a configuration or taken away, and Rebalance begins.
LEMMA BeginStep ==
    ASSUME ShardInv, pc = "idle", old' = Before, next' = 0, ok' = TRUE, num' \in 0 .. MaxNum,
           groups' \subseteq Gids, groups \subseteq groups' \/ groups' \subseteq groups,
           StartRebalance
    PROVE  ShardInv'
<1>1. CASE groups' = {}
  <2>1. pc' = "idle" /\ shards' = [s \in Shards |-> 0]
    BY <1>1 DEF StartRebalance
  <2> QED
    BY <1>1, <2>1, Constants
    DEF ShardInv, TypeOK, LoopsDone, StayBalanced, SuccessIsBalanced, Balanced, OnlyNeededMoves
<1>2. CASE groups' # {}
  <2>1. pc' = "assign" /\ shards' = shards
    BY <1>2 DEF StartRebalance
  <2>2. TypeOK' /\ LoopsDone' /\ SuccessIsBalanced' /\ OnlyNeededMoves'
    BY <1>2, <2>1, Constants
    DEF ShardInv, TypeOK, LoopsDone, SuccessIsBalanced, OnlyNeededMoves, Shards
  <2>3. old'.shards = shards /\ old'.groups = groups /\ old'.balanced = Balanced
    BY DEF Before
  <2>4. ASSUME Balanced, groups # {}, NEW g \in groups', NEW h \in groups',
               ~(g \in groups /\ h \notin groups)
        PROVE  Count(g) <= Count(h) + 1
    <3>1. CASE g \in groups
      BY <2>4, <3>1 DEF Balanced
    <3>2. CASE g \notin groups
      <4>1. Of(shards, g) = {}
        BY <2>4, <3>2 DEF Balanced, Of
      <4>2. Count(g) = 0
        BY <4>1, FS_EmptySet DEF Count, Of
      <4> QED
        BY <4>2, Loads
    <3> QED
      BY <3>1, <3>2
  <2>5. \A g : Count(g)' = Count(g)
    BY <2>1 DEF Count
  <2>6. StayBalanced'
    BY <2>1, <2>3, <2>4, <2>5 DEF StayBalanced, Needed
  <2> QED
    BY <2>2, <2>6 DEF ShardInv
<1> QED
  BY <1>1, <1>2

LEMMA JoinStep ==
    ASSUME ShardInv, NEW joining \in SUBSET Gids, JoinBalance(joining)
    PROVE  ShardInv'
<1>1. CASE joining \intersect groups = {}
  <2>1. groups' = groups \union joining /\ num' = num + 1 /\ ok' = TRUE /\ StartRebalance
    BY <1>1 DEF JoinBalance
  <2>2. groups' \subseteq Gids /\ groups \subseteq groups' /\ num' \in 0 .. MaxNum
    BY <2>1, ShardAssumption DEF JoinBalance, ShardInv, TypeOK, ShardAssumption
  <2> QED
    BY <2>1, <2>2, BeginStep DEF JoinBalance
<1>2. CASE joining \intersect groups # {}
  <2>1. groups' \subseteq Gids
    BY <1>2 DEF JoinBalance, ShardInv, TypeOK
  <2> QED
    BY <1>2, <2>1, FailStep DEF JoinBalance
<1> QED
  BY <1>1, <1>2

LEMMA LeaveStep ==
    ASSUME ShardInv, NEW gids, LeaveBalance(gids)
    PROVE  ShardInv'
<1> DEFINE n == Removable(gids)
<1>1. /\ pc = "idle" /\ num < MaxNum /\ old' = Before /\ next' = 0
      /\ groups' = groups \ {gids[k] : k \in 1 .. n}
      /\ IF n = Len(gids)
         THEN num' = num + 1 /\ ok' = TRUE /\ StartRebalance
         ELSE ok' = FALSE /\ UNCHANGED <<num, shards, pc>>
  BY DEF LeaveBalance
<1> HIDE DEF n
<1>2. groups' \subseteq groups /\ groups' \subseteq Gids
  BY <1>1 DEF ShardInv, TypeOK
<1>3. CASE n = Len(gids)
  <2>1. num' \in 0 .. MaxNum
    BY <1>1, <1>3, ShardAssumption DEF ShardInv, TypeOK, ShardAssumption
  <2> QED
    BY <1>1, <1>2, <1>3, <2>1, BeginStep
<1>4. CASE n # Len(gids)
  BY <1>1, <1>2, <1>4, FailStep
<1> QED
  BY <1>3, <1>4

\* The first loop gives a shard without a group to the least loaded one.
LEMMA AssignStep ==
    ASSUME ShardInv, AssignShard
    PROVE  ShardInv'
<1>1. /\ pc = "assign" /\ groups # {} /\ groups \subseteq Gids
      /\ shards \in [Shards -> Gids \union {0}] /\ next \in 0 .. NShards
      /\ \A s \in Shards : s < next => shards[s] \in groups
      /\ UNCHANGED <<num, groups, ok, old>>
  BY DEF ShardInv, TypeOK, LoopsDone, AssignShard
<1>2. CASE next = NShards
  <2>1. pc' = "move" /\ UNCHANGED <<shards, next>>
    BY <1>2 DEF AssignShard
  <2>2. \A g : Count(g)' = Count(g)
    BY <2>1 DEF Count
  <2>3. TypeOK' /\ LoopsDone' /\ SuccessIsBalanced' /\ OnlyNeededMoves'
    BY <1>1, <1>2, <2>1, Constants
    DEF ShardInv, TypeOK, LoopsDone, SuccessIsBalanced, OnlyNeededMoves, Shards
  <2>4. StayBalanced'
    BY <1>1, <2>1, <2>2 DEF ShardInv, StayBalanced, Needed
  <2> QED
    BY <2>3, <2>4 DEF ShardInv
<1>3. CASE next # NShards
  <2>1. next \in Shards /\ next' = next + 1 /\ pc' = "assign" /\ next' \in 0 .. NShards
    BY <1>1, <1>3, Constants DEF AssignShard, Shards
  <2>2. CASE shards[next] \in groups
    <3>1. shards' = shards
      BY <1>3, <2>2 DEF AssignShard
    <3>2. \A g : Count(g)' = Count(g)
      BY <3>1 DEF Count
    <3>3. TypeOK' /\ SuccessIsBalanced' /\ OnlyNeededMoves'
      BY <1>1, <2>1, <3>1 DEF ShardInv, TypeOK, SuccessIsBalanced, OnlyNeededMoves
    <3>4. LoopsDone'
      BY <1>1, <2>1, <2>2, <3>1 DEF LoopsDone, Shards
    <3>5. StayBalanced'
      BY <1>1, <2>1, <3>1, <3>2 DEF ShardInv, StayBalanced, Needed, Shards
    <3> QED
      BY <3>3, <3>4, <3>5 DEF ShardInv
  <2>3. CASE shards[next] \notin groups
    <3>1. PICK lg \in groups : LeastLoaded(lg) /\ shards' = [shards EXCEPT ![next] = lg]
      BY <1>3, <2>3 DEF AssignShard
    <3>2. /\ Count(lg)' = Count(lg) + 1
          /\ \A g \in groups : g # lg => Count(g)' = Count(g)
      <4>1. PICK k \in Shards, m \in Gids \union {0} : m = shards[next] /\ k = next
        BY <1>1, <2>1
      <4>2. shards[k] = m /\ m # lg /\ m \notin groups /\ shards' = [shards EXCEPT ![k] = lg]
        BY <2>3, <3>1, <4>1
      <4>3. shards \in [Shards -> Gids \union {0}]
        BY <1>1
      <4>4. /\ Count(lg)' = Count(lg) + 1
            /\ Count(m)' = Count(m) - 1
            /\ \A g : g \notin {lg, m} => Count(g)' = Count(g)
        BY <4>2, <4>3, LoadStep
      <4> QED
        BY <4>2, <4>4
    <3>3. TypeOK' /\ SuccessIsBalanced' /\ OnlyNeededMoves'
      BY <1>1, <2>1, <3>1 DEF ShardInv, TypeOK, SuccessIsBalanced, OnlyNeededMoves
    <3>4. LoopsDone'
      BY <1>1, <2>1, <2>3, <3>1 DEF LoopsDone, Shards
    <3>5. ASSUME old.balanced, old.groups # {} PROVE StayBalanced'
      <4>1. /\ \A g, h \in groups : Count(g) <= Count(h) + 1 \/ (g \in old.groups /\ h \notin old.groups)
            /\ \A s \in Shards : Needed(s)
            /\ \A s \in Shards : s >= next => shards[s] = old.shards[s]
        BY <1>1, <3>5, Zenon DEF ShardInv, StayBalanced
      <4>2. \A h \in groups : Count(lg) <= Count(h)
        BY <3>1, Loads DEF LeastLoaded
      <4>3. ASSUME NEW g \in groups, NEW h \in groups, ~(g \in old.groups /\ h \notin old.groups)
            PROVE  Count(g)' <= Count(h)' + 1
        <5>1. Count(g) <= Count(h) + 1 /\ Count(lg) <= Count(h)
          BY <4>1, <4>2, <4>3
        <5>2. Count(g) \in Nat /\ Count(h) \in Nat /\ Count(lg) \in Nat
          BY Loads, Constants
        <5> QED
          BY <3>2, <5>1, <5>2
      <4>4. old.shards[next] \notin groups
        BY <2>1, <2>3, <4>1 DEF Shards
      <4>5. \A s \in Shards : Needed(s)'
        BY <1>1, <2>1, <3>1, <4>1, <4>4 DEF Needed
      <4>6. \A s \in Shards : s >= next' => shards'[s] = old.shards[s]
        BY <1>1, <2>1, <3>1, <4>1 DEF Shards
      <4> QED
        BY <1>1, <4>3, <4>5, <4>6 DEF StayBalanced
    <3>6. StayBalanced'
      BY <1>1, <3>5 DEF StayBalanced
    <3> QED
      BY <3>3, <3>4, <3>6 DEF ShardInv
  <2> QED
    BY <2>2, <2>3
<1> QED
  BY <1>2, <1>3

\* The second loop ends in a balanced configuration, and takes from a group that was
\* there before for one that joined.
LEMMA MoveStep ==
    ASSUME ShardInv, MoveShard
    PROVE  ShardInv'
<1>1. /\ pc = "move" /\ groups # {} /\ groups \subseteq Gids
      /\ shards \in [Shards -> Gids \union {0}]
      /\ \A s \in Shards : shards[s] \in groups
      /\ UNCHANGED <<num, groups, next, ok, old>>
  BY DEF ShardInv, TypeOK, LoopsDone, MoveShard
<1>2. CASE ~Uneven
  <2>1. pc' = "idle" /\ shards' = shards
    BY <1>2 DEF MoveShard
  <2>2. Balanced
    <3>1. PICK mg \in groups, lg \in groups : MostLoaded(mg) /\ LeastLoaded(lg)
      BY <1>1, Extremes
    <3>2. ~(Count(mg) >= Count(lg) + 2)
      BY <1>2, <3>1 DEF Uneven
    <3>3. \A g \in groups : Count(g) <= Count(mg) /\ Count(lg) <= Count(g)
      BY <3>1, Loads DEF MostLoaded, LeastLoaded
    <3> QED
      BY <1>1, <3>2, <3>3, Loads, Constants DEF Balanced
  <2>3. \A g : Count(g)' = Count(g)
    BY <2>1 DEF Count
  <2>4. TypeOK' /\ LoopsDone' /\ StayBalanced'
    BY <1>1, <2>1 DEF ShardInv, TypeOK, LoopsDone, StayBalanced
  <2>5. SuccessIsBalanced'
    BY <1>1, <2>1, <2>2, <2>3 DEF SuccessIsBalanced, Balanced
  <2>6. OnlyNeededMoves'
    <3>1. CASE old.groups = {}
      BY <1>1, <2>1, <3>1 DEF OnlyNeededMoves
    <3>2. CASE old.groups # {} /\ old.balanced
      <4>1. \A s \in Shards : Needed(s)
        BY <1>1, <3>2, Zenon DEF ShardInv, StayBalanced
      <4> QED
        BY <1>1, <2>1, <4>1 DEF OnlyNeededMoves, Needed
    <3>3. CASE ~old.balanced
      BY <1>1, <3>3 DEF OnlyNeededMoves
    <3> QED
      BY <3>1, <3>2, <3>3
  <2> QED
    BY <2>4, <2>5, <2>6 DEF ShardInv
<1>3. CASE Uneven
  <2>1. PICK mg \in groups, lg \in groups, s \in Shards :
          /\ MostLoaded(mg) /\ LeastLoaded(lg)
          /\ shards[s] = mg
          /\ shards' = [shards EXCEPT ![s] = lg]
    BY <1>3 DEF MoveShard
  <2>2. pc' = "move"
    BY <1>1, <1>3 DEF MoveShard
  <2>3. \A g \in groups : Count(g) <= Count(mg) /\ Count(lg) <= Count(g)
    BY <2>1, Loads DEF MostLoaded, LeastLoaded
  <2>4. Count(mg) >= Count(lg) + 2
    <3>1. PICK m \in groups, l \in groups : MostLoaded(m) /\ LeastLoaded(l) /\ Count(m) >= Count(l) + 2
      BY <1>3 DEF Uneven
    <3>2. Count(m) <= Count(mg) /\ Count(lg) <= Count(l)
      BY <2>3
    <3> QED
      BY <3>1, <3>2, Loads, Constants
  <2>5. mg # lg
    BY <2>4, Loads, Constants
  <2>6. /\ Count(lg)' = Count(lg) + 1
        /\ Count(mg)' = Count(mg) - 1
        /\ \A g : g \notin {lg, mg} => Count(g)' = Count(g)
    BY <1>1, <2>1, <2>5, LoadStep
  <2>7. TypeOK' /\ LoopsDone' /\ SuccessIsBalanced' /\ OnlyNeededMoves'
    BY <1>1, <2>1, <2>2 DEF ShardInv, TypeOK, LoopsDone, SuccessIsBalanced, OnlyNeededMoves
  <2>8. ASSUME old.balanced, old.groups # {} PROVE StayBalanced'
    <3>1. /\ \A g, h \in groups : Count(g) <= Count(h) + 1 \/ (g \in old.groups /\ h \notin old.groups)
          /\ \A r \in Shards : Needed(r)
      BY <1>1, <2>8, Zenon DEF ShardInv, StayBalanced
    <3>2. mg \in old.groups /\ lg \notin old.groups
      BY <2>4, <3>1, Loads, Constants
    <3>3. ASSUME NEW g \in groups, NEW h \in groups, ~(g \in old.groups /\ h \notin old.groups)
          PROVE  Count(g)' <= Count(h)' + 1
      <4>1. /\ Count(g) <= Count(h) + 1
            /\ Count(lg) <= Count(h) /\ Count(g) <= Count(mg)
            /\ g = lg \/ g \in old.groups \/ Count(g) <= Count(lg) + 1
        BY <2>3, <3>1, <3>3
      <4>2. Count(g) \in Nat /\ Count(h) \in Nat /\ Count(lg) \in Nat /\ Count(mg) \in Nat
        BY Loads, Constants
      <4>3. g # mg => Count(g)' = IF g = lg THEN Count(g) + 1 ELSE Count(g)
        BY <2>6
      <4>4. h # mg => Count(h)' = IF h = lg THEN Count(h) + 1 ELSE Count(h)
        BY <2>6
      <4> QED
        BY <2>4, <2>5, <2>6, <4>1, <4>2, <4>3, <4>4
    <3>4. \A r \in Shards : Needed(r)'
      BY <1>1, <2>1, <3>1, <3>2 DEF Needed
    <3> QED
      BY <1>1, <2>2, <3>3, <3>4 DEF StayBalanced
  <2>9. StayBalanced'
    BY <1>1, <2>8 DEF StayBalanced
  <2> QED
    BY <2>7, <2>9 DEF ShardInv
<1> QED
  BY <1>2, <1>3

-----------------------------------------------------------------------------
(* The theorems.                                                            *)

LEMMA ShardInvariant == Spec => []ShardInv
<1>1. ShardInv /\ [Next]_vars => ShardInv'
  <2> SUFFICES ASSUME ShardInv, [Next]_vars PROVE ShardInv'
    OBVIOUS
  <2>1. CASE UNCHANGED vars
    BY <2>1
    DEF vars, ShardInv, TypeOK, LoopsDone, StayBalanced, Needed, SuccessIsBalanced, Balanced, Count,
        OnlyNeededMoves
  <2> QED
    BY <2>1, JoinStep, LeaveStep, AssignStep, MoveStep DEF Next
<1> QED
  BY <1>1, InitShard, PTL DEF Spec

\* After every Join or Leave that succeeds each shard has a group of the configuration
\* and no group has two shards more than another, also when an operation that failed
\* half way came before (Rebalance, CheckConfig in shardcfg.go).
THEOREM RebalanceBalances == Spec => []SuccessIsBalanced
<1>1. ShardInv => SuccessIsBalanced
  BY DEF ShardInv
<1> QED
  BY <1>1, ShardInvariant, PTL

\* Rebalance moves a shard of a balanced configuration only to a group that joined or
\* away from one that left.
THEOREM RebalanceIsFrugal == Spec => []OnlyNeededMoves
<1>1. ShardInv => OnlyNeededMoves
  BY DEF ShardInv
<1> QED
  BY <1>1, ShardInvariant, PTL
=============================================================================
