------------------------------ MODULE ShardCfg ------------------------------
(***************************************************************************)
(* Shard configurations (shardkv1/shardcfg/shardcfg.go): Join and Leave    *)
(* change the set of groups, Rebalance then gives every shard a group.     *)
(* Rebalance is two loops; an action is one iteration of one of them.      *)
(* Of a group only its gid is kept: a Join that puts one server in two     *)
(* groups ends the program (log.Fatalf).                                   *)
(***************************************************************************)
EXTENDS Integers, Sequences, FiniteSets, SequencesExt

CONSTANTS
    NShards,   \* number of shards
    Gids,      \* the group ids in use; 0 is no group
    MaxNum     \* bound: configurations made in a behaviour

ASSUME ShardAssumption ==
    /\ NShards \in Nat \ {0} /\ MaxNum \in Nat
    /\ IsFiniteSet(Gids) /\ Gids \subseteq Nat \ {0}

VARIABLES
    num,     \* cfg.Num
    shards,  \* cfg.Shards
    groups,  \* the keys of cfg.Groups
    pc,      \* "idle", or the loop of Rebalance: "assign", "move"
    next,    \* the shard the first loop is at
    ok,      \* what the last operation returned
    old      \* history: the configuration before it, and whether that was balanced

vars == <<num, shards, groups, pc, next, ok, old>>

Shards == 0 .. NShards - 1

\* The types: a shard's group is a gid or 0.
TypeOK ==
    /\ num \in 0 .. MaxNum
    /\ shards \in [Shards -> Gids \union {0}]
    /\ groups \subseteq Gids
    /\ pc \in {"idle", "assign", "move"}
    /\ next \in 0 .. NShards
    /\ ok \in BOOLEAN

Init ==
    /\ num = 0
    /\ shards = [s \in Shards |-> 0]
    /\ groups = {}
    /\ pc = "idle" /\ next = 0
    /\ ok = TRUE
    /\ old = [shards |-> shards, groups |-> {}, balanced |-> TRUE]

-----------------------------------------------------------------------------
(* analyze.                                                                 *)

Count(g) == Cardinality({s \in Shards : shards[s] = g})

\* The groups are looked at in the order of their gids: the first one wins a tie.
MostLoaded(g) ==
    g \in groups /\ \A h \in groups : Count(h) < Count(g) \/ (Count(h) = Count(g) /\ g <= h)

LeastLoaded(g) ==
    g \in groups /\ \A h \in groups : Count(h) > Count(g) \/ (Count(h) = Count(g) /\ g <= h)

\* The second loop goes on: mn >= ln + 2.
Uneven == \E mg, lg \in groups :
    MostLoaded(mg) /\ LeastLoaded(lg) /\ Count(mg) >= Count(lg) + 2

\* What CheckConfig asks for: each shard has a group of the configuration, if it
\* has any, and no group has two shards more than another.
Balanced ==
    /\ groups # {} => \A s \in Shards : shards[s] \in groups
    /\ \A g, h \in groups : Count(g) <= Count(h) + 1

-----------------------------------------------------------------------------
(* The operations.                                                          *)

Before == [shards |-> shards, groups |-> groups, balanced |-> Balanced]

\* Rebalance begins; without groups it takes all shards away at once.
StartRebalance ==
    IF groups' = {}
    THEN pc' = "idle" /\ shards' = [s \in Shards |-> 0]
    ELSE pc' = "assign" /\ UNCHANGED shards

\* JoinBalance with the groups in joining, which are visited in any order: when one
\* is already present, those visited before it have been added.
JoinBalance(joining) ==
    /\ pc = "idle" /\ num < MaxNum /\ joining # {}
    /\ old' = Before /\ next' = 0
    /\ \/ /\ joining \intersect groups = {}
          /\ groups' = groups \union joining
          /\ num' = num + 1 /\ ok' = TRUE
          /\ StartRebalance
       \/ /\ joining \intersect groups # {}
          /\ \E added \in SUBSET (joining \ groups) : groups' = groups \union added
          /\ ok' = FALSE
          /\ UNCHANGED <<num, shards, pc>>

\* How many groups of the list are removed before one is missing.
Removable(gids) ==
    CHOOSE n \in 0 .. Len(gids) :
      /\ \A k \in 1 .. n : gids[k] \in groups /\ \A j \in 1 .. k - 1 : gids[j] # gids[k]
      /\ n < Len(gids) => \/ gids[n + 1] \notin groups
                          \/ \E j \in 1 .. n : gids[j] = gids[n + 1]

LeaveBalance(gids) ==
    LET n == Removable(gids)
    IN /\ pc = "idle" /\ num < MaxNum /\ gids # << >>
       /\ old' = Before /\ next' = 0
       /\ groups' = groups \ {gids[k] : k \in 1 .. n}
       /\ IF n = Len(gids)
          THEN num' = num + 1 /\ ok' = TRUE /\ StartRebalance
          ELSE ok' = FALSE /\ UNCHANGED <<num, shards, pc>>

\* Mutant: the first loop stops one shard early.
AssignShardsButLast ==
    /\ pc = "assign"
    /\ IF next >= NShards - 1
       THEN pc' = "move" /\ UNCHANGED <<shards, next>>
       ELSE /\ IF shards[next] \in groups THEN UNCHANGED shards
               ELSE \E lg \in groups :
                      LeastLoaded(lg) /\ shards' = [shards EXCEPT ![next] = lg]
            /\ next' = next + 1 /\ UNCHANGED pc
    /\ UNCHANGED <<num, groups, ok, old>>

\* Mutant: every shard is given out anew.
AssignShardAnew ==
    /\ pc = "assign"
    /\ IF next = NShards
       THEN pc' = "move" /\ UNCHANGED <<shards, next>>
       ELSE /\ \E lg \in groups :
                 LeastLoaded(lg) /\ shards' = [shards EXCEPT ![next] = lg]
            /\ next' = next + 1 /\ UNCHANGED pc
    /\ UNCHANGED <<num, groups, ok, old>>

\* An iteration of the first loop: a shard whose group is gone gets the least loaded.
AssignShard ==
    /\ pc = "assign"
    /\ IF next = NShards
       THEN pc' = "move" /\ UNCHANGED <<shards, next>>
       ELSE /\ IF shards[next] \in groups THEN UNCHANGED shards
               ELSE \E lg \in groups :
                      LeastLoaded(lg) /\ shards' = [shards EXCEPT ![next] = lg]
            /\ next' = next + 1 /\ UNCHANGED pc
    /\ UNCHANGED <<num, groups, ok, old>>

\* Mutant: the loop stops only when all groups have the same load.
MoveShardForever ==
    /\ pc = "move"
    /\ \E mg, lg \in groups : MostLoaded(mg) /\ LeastLoaded(lg)
         /\ IF Count(mg) = Count(lg) THEN pc' = "idle" /\ UNCHANGED shards
            ELSE /\ \E s \in Shards :
                      /\ shards[s] = mg /\ \A r \in 0 .. s - 1 : shards[r] # mg
                      /\ shards' = [shards EXCEPT ![s] = lg]
                 /\ UNCHANGED pc
    /\ UNCHANGED <<num, groups, next, ok, old>>

\* An iteration of the second: the first shard of the most loaded group goes to the
\* least loaded one.
MoveShard ==
    /\ pc = "move"
    /\ IF ~Uneven THEN pc' = "idle" /\ UNCHANGED shards
       ELSE /\ \E mg, lg \in groups, s \in Shards :
                 /\ MostLoaded(mg) /\ LeastLoaded(lg)
                 /\ shards[s] = mg /\ \A r \in 0 .. s - 1 : shards[r] # mg
                 /\ shards' = [shards EXCEPT ![s] = lg]
            /\ UNCHANGED pc
    /\ UNCHANGED <<num, groups, next, ok, old>>

Next ==
    \/ \E joining \in SUBSET Gids : JoinBalance(joining)
    \/ \E gids \in SeqOf(Gids, 2) : LeaveBalance(gids)
    \/ AssignShard \/ MoveShard

\* Rebalance runs to its end once called.
Spec == Init /\ [][Next]_vars /\ WF_vars(AssignShard \/ MoveShard)

-----------------------------------------------------------------------------
(* Properties.                                                              *)

\* CheckConfig holds after every operation that succeeded, also after one that
\* failed half way had left groups added or removed without a Rebalance.
SuccessIsBalanced == pc = "idle" /\ ok => Balanced

\* From a balanced configuration a Join moves shards only to the groups that joined,
\* and a Leave only the shards of the groups that left: nothing moves without need.
OnlyNeededMoves ==
    (pc = "idle" /\ ok /\ old.balanced /\ groups # {}) =>
      \A s \in Shards : \/ shards[s] = old.shards[s]
                        \/ shards[s] \notin old.groups
                        \/ old.shards[s] \notin groups

\* Rebalance terminates: no shard is moved to and fro for ever.
RebalanceEnds == pc # "idle" ~> pc = "idle"
=============================================================================
