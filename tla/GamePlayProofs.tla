--------------------------- MODULE GamePlayProofs ---------------------------
(***************************************************************************)
(* Proofs about GamePlay for pools, hit points and explosions of any size. *)
(*                                                                         *)
(* The safety of the collision pass is a property of each slot by itself,  *)
(* SlotOK, so the proof goes slot by slot: the operations on a slot keep   *)
(* it (lemmas 1 to 5), and every action replaces each slot by the result   *)
(* of one of them.  The loop index is needed only to know that it stays    *)
(* inside the pool.                                                        *)
(*                                                                         *)
(* What no step of a round may do is proved in the second part: each step  *)
(* is compared slot by slot with the state before it; what a slot may turn *)
(* into is stated once (lemmas SlotSteps), and StepInv adds to IInv what   *)
(* the comparison needs to know of the past.                               *)
(***************************************************************************)
EXTENDS GamePlay, FiniteSetTheorems, WellFoundedInduction, TLAPS

(* What holds of slot p when it contains s, in a round of mode m.          *)
SlotOK(p, s, m) ==
  /\ s \in Slot
  /\ Live(s) => s.hp > 0
  /\ Exploding(s) => s.tick < Ticks(p)
  /\ Live(s) /\ s.type = Friend => p \in Slots(m)

PoolOK == planes \in [Planes -> Slot] /\ \A p \in Planes : SlotOK(p, planes[p], mode)

(* Inside the two inner loops the outer index is a slot.                   *)
CursorOK == pc \in {"planes", "bullets"} => ci < NPlanes

(* The inductive invariant.                                                *)
IInv == TypeOK /\ PoolOK /\ CursorOK

-----------------------------------------------------------------------------
(* Lemmas 1 to 5: the operations on a slot.                                *)

(* sprites_deallocate leaves a slot about which nothing is claimed.        *)
LEMMA FreedOK ==
  ASSUME NEW p \in Planes, NEW s \in Slot, NEW m, NEW t \in {Friend, Foe, Explosion}
  PROVE  /\ SlotOK(p, Freed(s), m)
         /\ SlotOK(p, [Freed(s) EXCEPT !.type = t], m)
BY DEF SlotOK, Freed, Slot, Live, Exploding

(* An explosion starts at picture 0.                                       *)
LEMMA ExplodedOK ==
  ASSUME NEW p \in Planes, NEW s \in Slot, NEW m
  PROVE  SlotOK(p, Exploded(s), m)
<1>1. Ticks(p) > 0
  BY TicksAssumption DEF Ticks
<1> QED
  BY <1>1 DEF SlotOK, Exploded, Slot, Live, Exploding, Explosion

(* A hit costs a point and explodes the plane exactly at zero.             *)
LEMMA DamagedOK ==
  ASSUME NEW p \in Planes, NEW s, NEW m, SlotOK(p, s, m)
  PROVE  SlotOK(p, Damaged(s), m)
<1> DEFINE hurt == [s EXCEPT !.hp = @ - 1]
<1>1. hurt \in Slot /\ hurt.hp = s.hp - 1 /\ hurt.used = s.used
      /\ hurt.type = s.type /\ hurt.tick = s.tick
  BY DEF SlotOK, Slot
<1>2. CASE hurt.hp = 0
  BY <1>1, <1>2, ExplodedOK DEF Damaged
<1>3. CASE hurt.hp # 0
  <2>1. s \in Slot /\ s.hp \in Int
    BY DEF SlotOK, Slot
  <2> QED
    BY <1>1, <1>3, <2>1 DEF SlotOK, Damaged, Live, Exploding
<1> QED
  BY <1>2, <1>3

(* The cheat heals.                                                        *)
LEMMA HealedOK ==
  ASSUME NEW p \in Planes, NEW s, NEW m, SlotOK(p, s, m)
  PROVE  SlotOK(p, Healed(s), m)
BY HPAssumption DEF SlotOK, Healed, Slot, Live, Exploding

(* One tick of a slot.                                                     *)
LEMMA TickedOK ==
  ASSUME NEW p \in Planes, NEW off, NEW m, SlotOK(p, planes[p], m)
  PROVE  SlotOK(p, Ticked(p, off), m)
<1> DEFINE s == planes[p]
<1>1. s \in Slot /\ s.tick \in Nat
  BY DEF SlotOK, Slot
<1>2. Ticks(p) \in Nat
  BY TicksAssumption DEF Ticks
<1>3. CASE Ticked(p, off) = s
  BY <1>3
<1>4. CASE Ticked(p, off) = Freed(s)
  BY <1>1, <1>4, FreedOK
<1>5. CASE /\ Ticked(p, off) = [s EXCEPT !.tick = @ + 1]
           /\ Exploding(s) /\ s.tick + 1 # Ticks(p)
  BY <1>1, <1>2, <1>5 DEF SlotOK, Slot, Live, Exploding
<1> QED
  BY <1>3, <1>4, <1>5 DEF Ticked, Exploding

-----------------------------------------------------------------------------
(* The invariant                                                           *)

LEMMA InitOK == Init => IInv
<1> SUFFICES ASSUME Init PROVE IInv
  OBVIOUS
<1>1. TypeOK
  <2>1. planes \in [Planes -> Slot] /\ prev \in [Modes -> [hp : Int, score : Nat]]
    BY DEF Init, Slot
  <2>2. hp_all \in Int /\ ci \in 0 .. NPlanes
    BY NPlanesAssumption, HPAssumption DEF Init
  <2> QED
    BY <2>1, <2>2 DEF Init, TypeOK, States, Steps, Modes, Tables
<1>2. \A p \in Planes : SlotOK(p, planes[p], mode)
  BY <1>1 DEF Init, TypeOK, SlotOK, Live, Exploding
<1>3. CursorOK
  BY DEF Init, CursorOK
<1>4. PoolOK
  BY <1>1, <1>2 DEF PoolOK, TypeOK
<1> QED
  BY <1>1, <1>3, <1>4 DEF IInv

(* A pool in which every slot is in order has the right type.              *)
LEMMA PoolFromSlots ==
  ASSUME NEW f, \A p \in Planes : SlotOK(p, f[p], mode'),
         planes' = [p \in Planes |-> f[p]]
  PROVE  PoolOK'
BY DEF PoolOK, SlotOK

(* Steps that leave the planes and the mode alone.                         *)
LEMMA PoolUnchanged ==
  ASSUME PoolOK, UNCHANGED <<planes, mode>>
  PROVE  PoolOK'
BY DEF PoolOK, SlotOK, Live, Exploding, Ticks, Slots

(* Bullet slots hold bullets.                                              *)
LEMMA FillType ==
  ASSUME NEW n, NEW team \in {Friend, Foe}, bullets \in [Bullets -> {Free, Friend, Foe}]
  PROVE  Fill(n, team) \in [Bullets -> {Free, Friend, Foe}]
BY DEF Fill

(* count_score leaves a table.                                             *)
LEMMA CountScoreType ==
  ASSUME NEW t \in Tables, NEW p \in Nat
  PROVE  CountScore(t, p) \in Tables
<1>1. ASSUME NEW k \in Entries, Stopped(t, p, k), k > 0 PROVE k - 1 \in Entries
  BY <1>1, NScoresAssumption DEF Entries
<1> QED
  BY <1>1 DEF CountScore, Tables

LEMMA StartsOK ==
  ASSUME IInv
  PROVE  /\ \A m \in RoundModes : Prepare(m) => IInv'
         /\ Quit => IInv'
         /\ GameOver => IInv'
<1> USE DEF IInv
<1>1. ASSUME NEW m \in RoundModes, Prepare(m) PROVE IInv'
  <2> DEFINE f == [p \in Planes |->
        IF p \in Slots(m)
          THEN [used |-> TRUE, type |-> Friend, hp |-> PlayerHP, tick |-> 0]
          ELSE [Freed(planes[p]) EXCEPT !.type = Friend]]
  <2>1. m \in Modes
    BY ModesAssumption DEF Modes
  <2>2. ASSUME NEW p \in Planes PROVE SlotOK(p, f[p], mode')
    <3>1. CASE p \in Slots(m)
      BY <1>1, <3>1, HPAssumption DEF Prepare, SlotOK, Slot, Live, Exploding, Friend, Explosion
    <3>2. CASE p \notin Slots(m)
      BY <1>1, <3>2, FreedOK DEF Prepare, TypeOK
    <3> QED BY <3>1, <3>2
  <2>3. PoolOK'
    BY <1>1, <2>2, PoolFromSlots DEF Prepare
  <2>4. TypeOK'
    BY <1>1, <2>1, <2>3 DEF Prepare, TypeOK, PoolOK, States, cursor
  <2> QED
    BY <1>1, <2>3, <2>4 DEF Prepare, CursorOK, cursor
<1>2. Quit => IInv'
  BY PoolUnchanged DEF Quit, TypeOK, CursorOK, States, pools, cursor
<1>3. GameOver => IInv'
  <2> SUFFICES ASSUME GameOver PROVE IInv'
    OBVIOUS
  <2> DEFINE f == [p \in Planes |-> [Freed(planes[p]) EXCEPT !.type = Friend]]
  <2>1. ASSUME NEW p \in Planes PROVE SlotOK(p, f[p], mode')
    BY FreedOK DEF TypeOK
  <2>2. PoolOK'
    BY <2>1, PoolFromSlots DEF GameOver
  <2>3. player_scores' \in Tables
    BY CountScoreType DEF GameOver, TypeOK
  <2> QED
    BY <2>2, <2>3 DEF GameOver, TypeOK, CursorOK, PoolOK, States, cursor
<1> QED
  BY <1>1, <1>2, <1>3

LEMMA FrameStartOK ==
  ASSUME IInv, NEW cheat \in BOOLEAN, FrameStart(cheat)
  PROVE  IInv'
<1> USE DEF IInv
<1> DEFINE cheated == [p \in Planes |->
      IF cheat /\ p \in Slots(mode) THEN Healed(planes[p]) ELSE planes[p]]
<1>1. ASSUME NEW p \in Planes PROVE SlotOK(p, cheated[p], mode')
  BY HealedOK DEF PoolOK, FrameStart
<1>2. PoolOK'
  BY <1>1, PoolFromSlots DEF FrameStart
<1>3. P1 \in Planes /\ P2 \in Planes
  BY NPlanesAssumption DEF P1, P2, Planes
<1>4. Health(cheated, mode) \in Int
  BY <1>1, <1>3 DEF Health, SlotOK, Slot
<1>5. FullHP(mode) \in Int
  BY HPAssumption DEF FullHP
<1>6. Penalty(score) \in Nat
  BY ScoreAssumption DEF Penalty, TypeOK
<1> DEFINE points == IF cheat THEN Penalty(score) ELSE score
<1> DEFINE hp     == Health(cheated, mode)
<1>7. points \in Nat
  BY <1>6 DEF TypeOK
<1>8. hp_all' \in Int
  <2>1. hp_all' = FullHP(mode) - hp \/ hp_all' = hp_all
    BY DEF FrameStart
  <2> QED
    BY <1>4, <1>5, <2>1 DEF TypeOK
<1>9. prev' \in [Modes -> [hp : Int, score : Nat]]
  <2>1. prev' = [prev EXCEPT ![mode] = [hp |-> hp, score |-> points]]
    BY DEF FrameStart
  <2> HIDE DEF hp, points
  <2> QED
    BY <1>4, <1>7, <2>1 DEF TypeOK, hp
<1>10. score' \in Nat /\ due' \in BOOLEAN /\ pc' = "shoot"
  <2>1. score' = points /\ due' \in {due, TRUE} /\ pc' = "shoot"
    BY DEF FrameStart
  <2> QED
    BY <1>7, <2>1 DEF TypeOK
<1>11. UNCHANGED <<game_state, mode, bullets, player_scores, ci, cj, pass>>
  BY DEF FrameStart, cursor
<1> HIDE DEF cheated, points, hp
<1> QED
  BY <1>2, <1>8, <1>9, <1>10, <1>11 DEF TypeOK, CursorOK, PoolOK, Steps

LEMMA SpawnEnemyOK ==
  ASSUME IInv, NEW hp \in EnemyHPs, SpawnEnemy(hp), mode' = mode
  PROVE  PoolOK' /\ due' \in BOOLEAN
<1> DEFINE enemy == [used |-> TRUE, type |-> Foe, hp |-> hp, tick |-> 0]
<1>1. CASE UNCHANGED <<planes, due>>
  BY <1>1, PoolUnchanged DEF IInv, TypeOK
<1>2. CASE planes' = NewEnemy(LowestFree, hp) /\ due' = FALSE
  <2> DEFINE f == [p \in Planes |-> IF p = LowestFree THEN enemy ELSE planes[p]]
  <2>1. planes' = f
    BY <1>2 DEF NewEnemy, IInv, TypeOK
  <2>2. ASSUME NEW p \in Planes PROVE SlotOK(p, enemy, mode)
    BY HPAssumption DEF SlotOK, Slot, Live, Exploding, Friend, Foe, Explosion
  <2>3. ASSUME NEW p \in Planes PROVE SlotOK(p, f[p], mode')
    BY <2>2 DEF IInv, PoolOK
  <2> QED
    BY <1>2, <2>1, <2>3, PoolFromSlots
<1> QED
  BY <1>1, <1>2 DEF SpawnEnemy

LEMMA TickStepOK ==
  ASSUME IInv, NEW off \in SUBSET Planes, NEW gone \in SUBSET Bullets, Tick(off, gone)
  PROVE  IInv'
<1> USE DEF IInv
<1>1. ASSUME NEW p \in Planes PROVE SlotOK(p, Ticked(p, off), mode')
  BY TickedOK DEF PoolOK, Tick
<1>2. PoolOK'
  <2> DEFINE f == [p \in Planes |-> Ticked(p, off)]
  <2> QED BY <1>1, PoolFromSlots DEF Tick
<1>3. game_state' \in States
  BY DEF Tick, TypeOK, States, Modes
<1>4. bullets' \in [Bullets -> {Free, Friend, Foe}]
  BY DEF Tick, TypeOK
<1> QED
  BY <1>2, <1>3, <1>4 DEF Tick, TypeOK, CursorOK, PoolOK, Steps, cursor

(* The other calls of a frame.                                             *)
LEMMA CallsOK ==
  ASSUME IInv
  PROVE  /\ \A volley \in BOOLEAN : Shoot(volley) => IInv'
         /\ \A hp \in EnemyHPs : Spawn(hp) \/ SpawnDouble(hp) => IInv'
         /\ \A firing \in SUBSET Planes : EnemyFire(firing) => IInv'
<1> USE DEF IInv
<1>1. ASSUME NEW volley \in BOOLEAN, Shoot(volley) PROVE IInv'
  <2>1. bullets' \in [Bullets -> {Free, Friend, Foe}]
    BY <1>1, FillType DEF Shoot, TypeOK
  <2> QED
    BY <1>1, <2>1, PoolUnchanged DEF Shoot, TypeOK, CursorOK, Steps, cursor
<1>2. ASSUME NEW hp \in EnemyHPs, Spawn(hp) \/ SpawnDouble(hp) PROVE IInv'
  <2>1. SpawnEnemy(hp) /\ mode' = mode
    BY <1>2 DEF Spawn, SpawnDouble
  <2>2. PoolOK' /\ due' \in BOOLEAN
    BY <2>1, SpawnEnemyOK
  <2> QED
    BY <1>2, <2>2 DEF Spawn, SpawnDouble, TypeOK, CursorOK, PoolOK, Steps, cursor
<1>3. ASSUME NEW firing \in SUBSET Planes, EnemyFire(firing) PROVE IInv'
  <2>1. bullets' \in [Bullets -> {Free, Friend, Foe}]
    BY <1>3, FillType DEF EnemyFire, TypeOK
  <2> QED
    BY <1>3, <2>1, PoolUnchanged DEF EnemyFire, TypeOK, CursorOK, Steps, cursor
<1> QED
  BY <1>1, <1>2, <1>3

(* Steps of the collision pass that only move its indices.                 *)
LEMMA ScanOK ==
  ASSUME IInv,
         SkipPlane \/ EnterPlane \/ NoCrash \/ PlanesDone \/ NoHit \/ BulletsDone \/ PassDone
  PROVE  IInv'
<1> USE DEF IInv
<1>1. PoolOK' /\ UNCHANGED <<game_state, mode, bullets, score, player_scores, hp_all, prev, due>>
  BY PoolUnchanged
     DEF SkipPlane, EnterPlane, NoCrash, PlanesDone, NoHit, BulletsDone, PassDone, pools
<1>2. /\ ci' \in 0 .. NPlanes /\ cj' \in Nat /\ pass' \in {1, 2} /\ pc' \in Steps
      /\ CursorOK'
  BY NPlanesAssumption, NBulletsAssumption
     DEF SkipPlane, EnterPlane, NoCrash, PlanesDone, NoHit, BulletsDone, PassDone,
         TypeOK, CursorOK, Steps
<1> QED
  BY <1>1, <1>2 DEF TypeOK, PoolOK

(* A crash: one plane explodes, the other loses a hit point.               *)
LEMMA CrashOK == ASSUME IInv, Crash PROVE IInv'
<1> USE DEF IInv
<1> DEFINE friendly == IF planes[ci].type = Friend THEN ci ELSE cj
           removed  == IF planes[ci].type = Friend THEN cj ELSE ci
           f == [p \in Planes |-> IF p = friendly THEN Damaged(planes[p])
                                  ELSE IF p = removed THEN Exploded(planes[p])
                                  ELSE planes[p]]
<1>1. ci # cj
  BY DEF Crash, Opposed
<1>2. planes' = f
  BY <1>1 DEF Crash, TypeOK
<1>3. ASSUME NEW p \in Planes PROVE SlotOK(p, f[p], mode')
  <2>1. mode' = mode /\ SlotOK(p, planes[p], mode) /\ planes[p] \in Slot
    BY DEF Crash, PoolOK
  <2>2. SlotOK(p, Damaged(planes[p]), mode) /\ SlotOK(p, Exploded(planes[p]), mode)
    BY <2>1, DamagedOK, ExplodedOK
  <2> QED
    BY <2>1, <2>2
<1>4. PoolOK'
  <2> HIDE DEF friendly, removed
  <2> QED BY <1>2, <1>3, PoolFromSlots
<1>5. score' \in Nat
  BY ScoreAssumption DEF Crash, Cap, TypeOK
<1> QED
  BY <1>4, <1>5 DEF Crash, TypeOK, CursorOK, PoolOK

(* A bullet hits: its plane loses a hit point, the bullet's slot is freed. *)
LEMMA HitOK == ASSUME IInv, Hit PROVE IInv'
<1> USE DEF IInv
<1> DEFINE f == [p \in Planes |-> IF p = ci THEN Damaged(planes[p]) ELSE planes[p]]
<1>1. planes' = f
  BY DEF Hit, TypeOK
<1>2. ASSUME NEW p \in Planes PROVE SlotOK(p, f[p], mode')
  BY DamagedOK DEF Hit, PoolOK
<1>3. PoolOK'
  BY <1>1, <1>2, PoolFromSlots
<1>4. score' \in Nat
  <2>1. HitPoints(planes[ci]) \in Nat
    BY ScoreAssumption DEF HitPoints
  <2>2. score' = Cap(score + HitPoints(planes[ci]))
    BY DEF Hit
  <2> QED
    BY <2>1, <2>2, ScoreAssumption DEF Cap, TypeOK
<1>5. bullets' \in [Bullets -> {Free, Friend, Foe}]
  BY DEF Hit, BulletSpent, TypeOK
<1> QED
  BY <1>3, <1>4, <1>5 DEF Hit, TypeOK, CursorOK, PoolOK

(* IInv is inductive.                                                      *)
LEMMA StepOK == IInv /\ [Next]_vars => IInv'
<1> SUFFICES ASSUME IInv, [Next]_vars PROVE IInv'
  OBVIOUS
<1>1. CASE (\E m \in RoundModes : Prepare(m)) \/ Quit \/ GameOver
  BY <1>1, StartsOK
<1>2. CASE \E cheat \in BOOLEAN : FrameStart(cheat)
  BY <1>2, FrameStartOK
<1>3. CASE \/ \E volley \in BOOLEAN : Shoot(volley)
           \/ \E hp \in EnemyHPs : Spawn(hp) \/ SpawnDouble(hp)
           \/ \E firing \in SUBSET Planes : EnemyFire(firing)
  BY <1>3, CallsOK
<1>4. CASE \E off \in SUBSET Planes, gone \in SUBSET Bullets : Tick(off, gone)
  BY <1>4, TickStepOK
<1>5. CASE SkipPlane \/ EnterPlane \/ NoCrash \/ PlanesDone \/ NoHit \/ BulletsDone \/ PassDone
  BY <1>5, ScanOK
<1>6. CASE Crash
  BY <1>6, CrashOK
<1>7. CASE Hit
  BY <1>7, HitOK
<1>8. CASE UNCHANGED vars
  BY <1>8, PoolUnchanged DEF vars, IInv, TypeOK, CursorOK
<1> QED
  BY <1>1, <1>2, <1>3, <1>4, <1>5, <1>6, <1>7, <1>8 DEF Next, Frame

LEMMA Invariance == Spec => []IInv
BY InitOK, StepOK, PTL DEF Spec

-----------------------------------------------------------------------------
(* The theorems                                                            *)

(* Every state of a round is well typed, for pools of any size.            *)
THEOREM TypeCorrect == Spec => []TypeOK
<1>1. IInv => TypeOK
  BY DEF IInv
<1> QED
  BY <1>1, Invariance, PTL

(* A plane that is not exploding always has a hit point left: the test     *)
(* --hp == 0 of the collision pass never steps over zero.                  *)
THEOREM LivePlanesHaveHp == Spec => []LiveHasHp
<1>1. IInv => LiveHasHp
  BY DEF IInv, PoolOK, SlotOK, LiveHasHp
<1> QED
  BY <1>1, Invariance, PTL

(* No explosion is ever shown past the end of its pictures.                *)
THEOREM ExplosionsInBounds == Spec => []ExplosionInBounds
<1>1. IInv => ExplosionInBounds
  BY DEF IInv, PoolOK, SlotOK, ExplosionInBounds
<1> QED
  BY <1>1, Invariance, PTL

(* No enemy in a dead player's slot ever counts as a player's plane.       *)
THEOREM FriendsSitInPlayerSlots == Spec => []FriendsInPlayerSlots
<1>1. IInv => FriendsInPlayerSlots
  BY DEF IInv, PoolOK, SlotOK, FriendsInPlayerSlots
<1> QED
  BY <1>1, Invariance, PTL

-----------------------------------------------------------------------------
(* The action properties *)

(* A player's plane, alive                                                 *)
Player(s) == Live(s) /\ s.type = Friend
Enemy(s)  == Live(s) /\ s.type = Foe

(* Between rounds no frame is running and every slot is free.              *)
MenuEmpty == game_state = "MENU" => pc = "loop" /\ \A p \in Planes : ~ planes[p].used

(* After the first spawn handler no enemy is due, or there is no slot.     *)
SpawnSettled == pc = "spawn2" => (~ due \/ FreePlanes = {})

(* Inside the inner loops plane i is in use, and plane j comes after it;   *)
(* if plane i has become an explosion, the loop is past both players.      *)
InnerLoop ==
  /\ pc \in {"planes", "bullets"} => planes[ci].used
  /\ pc = "planes" => (ci < cj /\ (planes[ci].type = Explosion => cj >= 2))

(* The table is in order.                                                  *)
Ordered(t) == \A i, k \in Entries : i <= k => t[i] >= t[k]

StepInv == IInv /\ MenuEmpty /\ SpawnSettled /\ InnerLoop /\ Ordered(player_scores)

-----------------------------------------------------------------------------
(* The operations on one slot, compared with the slot before               *)

LEMMA FreedStep ==
  ASSUME NEW s \in Slot
  PROVE  /\ ~ Freed(s).used
         /\ ~ [Freed(s) EXCEPT !.type = Friend].used
         /\ Freed(s).hp = s.hp
BY DEF Slot, Freed

LEMMA HealedStep ==
  ASSUME NEW s \in Slot
  PROVE  Healed(s).used = s.used /\ Healed(s).type = s.type
BY DEF Slot, Healed

LEMMA ExplodedStep ==
  ASSUME NEW s \in Slot
  PROVE  /\ Exploded(s).used = s.used /\ Exploded(s).type = Explosion
         /\ Exploded(s).hp = s.hp
BY DEF Slot, Exploded

LEMMA DamagedStep ==
  ASSUME NEW s \in Slot
  PROVE  /\ Damaged(s).used = s.used /\ Damaged(s).hp = s.hp - 1
         /\ Damaged(s).type \in {s.type, Explosion}
<1> DEFINE hurt == [s EXCEPT !.hp = @ - 1]
<1>1. hurt \in Slot /\ hurt.hp = s.hp - 1 /\ hurt.used = s.used /\ hurt.type = s.type
  BY DEF Slot
<1>2. Damaged(s) = Exploded(hurt) \/ Damaged(s) = hurt
  BY DEF Damaged
<1> HIDE DEF hurt
<1> QED
  BY <1>1, <1>2, ExplodedStep

LEMMA TickedStep ==
  ASSUME NEW p \in Planes, NEW off, planes[p] \in Slot
  PROVE  /\ Ticked(p, off).hp = planes[p].hp
         /\ Ticked(p, off).used => (planes[p].used /\ Ticked(p, off).type = planes[p].type)
         /\ (Player(planes[p]) /\ p \notin off) => Ticked(p, off).used
<1> DEFINE s == planes[p]
<1>1. [s EXCEPT !.tick = @ + 1].hp = s.hp /\ [s EXCEPT !.tick = @ + 1].used = s.used
      /\ [s EXCEPT !.tick = @ + 1].type = s.type
  BY DEF Slot
<1>2. Freed(s).hp = s.hp /\ ~ Freed(s).used
  BY FreedStep
<1> QED
  BY <1>1, <1>2 DEF Ticked, Player, Live

(* What a crash and a hit do to the pool                                   *)
LEMMA CrashStep ==
  ASSUME IInv, Crash
  PROVE  /\ ci \in Planes /\ cj \in Planes /\ ci # cj /\ Live(planes[cj])
         /\ \A p \in Planes : planes'[p].used = planes[p].used
         /\ \A p \in Planes : planes'[p].type \in {planes[p].type, Explosion}
         /\ planes[ci].type = Friend =>
              planes'[cj].type = Explosion /\ planes'[ci].hp < planes[ci].hp
         /\ planes[ci].type # Friend =>
              planes'[ci].type = Explosion /\ planes'[cj].hp < planes[cj].hp
<1> DEFINE friendly == IF planes[ci].type = Friend THEN ci ELSE cj
           removed  == IF planes[ci].type = Friend THEN cj ELSE ci
<1>1. ci \in Planes /\ cj \in Planes /\ ci # cj /\ Live(planes[cj])
  BY NPlanesAssumption DEF IInv, TypeOK, CursorOK, Crash, Opposed, Planes
<1>2. friendly \in Planes /\ removed \in Planes /\ friendly # removed
  BY <1>1
<1>3. planes \in [Planes -> Slot]
  BY DEF IInv, TypeOK
<1>4. planes' = [planes EXCEPT ![removed] = Exploded(@), ![friendly] = Damaged(@)]
  BY DEF Crash
<1> HIDE DEF friendly, removed
<1>5. /\ planes'[removed] = Exploded(planes[removed])
      /\ planes'[friendly] = Damaged(planes[friendly])
      /\ \A p \in Planes \ {removed, friendly} : planes'[p] = planes[p]
  BY <1>2, <1>3, <1>4
<1>6. /\ planes'[removed].used = planes[removed].used
      /\ planes'[removed].type = Explosion
  BY <1>2, <1>3, <1>5, ExplodedStep
<1>7. /\ planes'[friendly].used = planes[friendly].used
      /\ planes'[friendly].type \in {planes[friendly].type, Explosion}
      /\ planes'[friendly].hp = planes[friendly].hp - 1
      /\ planes[friendly].hp \in Int
  BY <1>2, <1>3, <1>5, DamagedStep DEF Slot
<1>8. planes'[friendly].hp < planes[friendly].hp
  BY <1>7
<1>9. /\ \A p \in Planes : planes'[p].used = planes[p].used
      /\ \A p \in Planes : planes'[p].type \in {planes[p].type, Explosion}
  BY <1>5, <1>6, <1>7
<1> QED
  BY <1>1, <1>6, <1>8, <1>9 DEF friendly, removed

LEMMA HitStep ==
  ASSUME IInv, Hit
  PROVE  /\ ci \in Planes /\ cj \in Bullets
         /\ \A p \in Planes : planes'[p].used = planes[p].used
         /\ \A p \in Planes : planes'[p].type \in {planes[p].type, Explosion}
         /\ planes'[ci].hp = planes[ci].hp - 1
         /\ \A p \in Planes \ {ci} : planes'[p] = planes[p]
<1>1. ci \in Planes /\ cj \in Bullets
  BY NPlanesAssumption, NBulletsAssumption DEF IInv, TypeOK, CursorOK, Hit, Planes, Bullets
<1>2. planes \in [Planes -> Slot]
  BY DEF IInv, TypeOK
<1>3. /\ planes'[ci] = Damaged(planes[ci])
      /\ \A p \in Planes \ {ci} : planes'[p] = planes[p]
  BY <1>1, <1>2 DEF Hit
<1>4. /\ planes'[ci].used = planes[ci].used
      /\ planes'[ci].type \in {planes[ci].type, Explosion}
      /\ planes'[ci].hp = planes[ci].hp - 1
  BY <1>1, <1>2, <1>3, DamagedStep
<1> QED
  BY <1>1, <1>3, <1>4

-----------------------------------------------------------------------------
(* count_score                                                             *)

(* The entries of t that reach v, and the places one further down          *)
Reachers(t, v) == {k \in Entries : t[k] >= v}
Shifted(A) == {0} \cup {k + 1 : k \in A}

LEMMA StoppedAt ==
  ASSUME NEW t \in Tables, Ordered(t), NEW p \in Nat, NEW k \in Entries
  PROVE  Stopped(t, p, k) <=> p >= t[k]
<1>1. \A i \in 0 .. k : i \in Entries /\ i <= k
  BY NScoresAssumption DEF Entries
<1>2. k \in 0 .. k
  BY NScoresAssumption DEF Entries
<1>3. ASSUME NEW i \in 0 .. k, p >= t[i] PROVE p >= t[k]
  <2>1. t[i] >= t[k] /\ t[i] \in Nat /\ t[k] \in Nat
    BY <1>1 DEF Ordered, Tables
  <2> QED
    BY <1>3, <2>1
<1> QED
  BY <1>2, <1>3 DEF Stopped

(* On a table in order count_score is an insertion.                        *)
LEMMA Inserted ==
  ASSUME NEW t \in Tables, Ordered(t), NEW p \in Nat, NEW k \in Entries
  PROVE  CountScore(t, p)[k] =
           IF p < t[k] THEN t[k]
           ELSE IF k > 0 /\ p >= t[k - 1] THEN t[k - 1] ELSE p
<1>1. k > 0 => k - 1 \in Entries
  BY NScoresAssumption DEF Entries
<1>2. Stopped(t, p, k) <=> p >= t[k]
  BY StoppedAt
<1>3. k > 0 => (Stopped(t, p, k - 1) <=> p >= t[k - 1])
  BY <1>1, StoppedAt
<1>4. t[k] \in Nat
  BY DEF Tables
<1> QED
  BY <1>2, <1>3, <1>4 DEF CountScore

LEMMA CountOrdered ==
  ASSUME NEW t \in Tables, Ordered(t), NEW p \in Nat
  PROVE  Ordered(CountScore(t, p))
<1> DEFINE u == CountScore(t, p)
<1> SUFFICES ASSUME NEW i \in Entries, NEW k \in Entries, i <= k
             PROVE  u[i] >= u[k]
  BY DEF Ordered
<1>1. /\ i \in Nat /\ k \in Nat
      /\ k > 0 => k - 1 \in Entries
      /\ i > 0 => i - 1 \in Entries
  BY NScoresAssumption DEF Entries
<1>2. /\ t[i] \in Nat /\ t[k] \in Nat /\ t[i] >= t[k]
      /\ k > 0 => t[k - 1] \in Nat /\ t[k - 1] >= t[k]
      /\ i > 0 => t[i - 1] \in Nat /\ t[i - 1] >= t[i]
      /\ (i < k) => (t[i] >= t[k - 1])
      /\ (i > 0 /\ k > 0) => (t[i - 1] >= t[k - 1])
  BY <1>1 DEF Ordered, Tables
<1>3. u[i] = IF p < t[i] THEN t[i]
             ELSE IF i > 0 /\ p >= t[i - 1] THEN t[i - 1] ELSE p
  BY Inserted
<1>4. u[k] = IF p < t[k] THEN t[k]
             ELSE IF k > 0 /\ p >= t[k - 1] THEN t[k - 1] ELSE p
  BY Inserted
<1> HIDE DEF u
<1> QED
  BY <1>1, <1>2, <1>3, <1>4

(* A score that reaches v moves those that reach it one place down.        *)
LEMMA ReachersShift ==
  ASSUME NEW t \in Tables, Ordered(t), NEW p \in Nat, NEW v \in Nat
  PROVE  Reachers(CountScore(t, p), v) =
           IF p >= v THEN Shifted(Reachers(t, v)) \cap Entries ELSE Reachers(t, v)
<1> DEFINE u == CountScore(t, p)
<1>1. ASSUME NEW k \in Entries
      PROVE  u[k] >= v <=> IF p >= v THEN k \in Shifted(Reachers(t, v))
                                     ELSE k \in Reachers(t, v)
  <2>1. k \in Nat /\ (k > 0 => k - 1 \in Entries)
    BY NScoresAssumption DEF Entries
  <2>2. /\ t[k] \in Nat
        /\ k > 0 => t[k - 1] \in Nat /\ t[k - 1] >= t[k]
    BY <2>1 DEF Ordered, Tables
  <2>3. u[k] = IF p < t[k] THEN t[k]
               ELSE IF k > 0 /\ p >= t[k - 1] THEN t[k - 1] ELSE p
    BY Inserted
  <2>4. k \in Shifted(Reachers(t, v)) <=> (k = 0 \/ (k > 0 /\ t[k - 1] >= v))
    <3>1. ASSUME k > 0, k \in Shifted(Reachers(t, v)) PROVE t[k - 1] >= v
      <4>1. PICK j \in Reachers(t, v) : k = j + 1
        BY <3>1 DEF Shifted
      <4>2. j = k - 1
        BY <4>1, <2>1 DEF Reachers, Entries
      <4> QED
        BY <4>2 DEF Reachers
    <3>2. ASSUME k > 0, t[k - 1] >= v PROVE k \in Shifted(Reachers(t, v))
      <4>1. k - 1 \in Reachers(t, v) /\ k = (k - 1) + 1
        BY <2>1, <3>2 DEF Reachers
      <4> QED
        BY <4>1 DEF Shifted
    <3>3. 0 \in Shifted(Reachers(t, v))
      BY DEF Shifted
    <3> QED
      BY <2>1, <3>1, <3>2, <3>3
  <2>5. k \in Reachers(t, v) <=> t[k] >= v
    BY DEF Reachers
  <2> HIDE DEF u
  <2> QED
    BY <2>1, <2>2, <2>3, <2>4, <2>5
<1>2. Reachers(t, v) \subseteq Entries
  BY DEF Reachers
<1> QED
  BY <1>1, <1>2 DEF Reachers

LEMMA EntriesFinite ==
  ASSUME NEW A \in SUBSET Entries
  PROVE  /\ IsFiniteSet(A) /\ Cardinality(A) \in Nat /\ Cardinality(A) <= NScores
         /\ Cardinality(Entries) = NScores
         /\ Cardinality(A) = NScores => A = Entries
<1>1. IsFiniteSet(Entries) /\ Cardinality(Entries) = NScores
  <2>1. 0 \in Int /\ NScores - 1 \in Int
    BY NScoresAssumption
  <2>2. IsFiniteSet(0 .. NScores - 1)
        /\ Cardinality(0 .. NScores - 1) =
             IF 0 > NScores - 1 THEN 0 ELSE (NScores - 1) - 0 + 1
    BY <2>1, FS_Interval
  <2> QED
    BY <2>2, NScoresAssumption DEF Entries
<1>2. IsFiniteSet(A) /\ Cardinality(A) <= NScores
      /\ (Cardinality(A) = NScores => A = Entries)
  BY <1>1, FS_Subset
<1>3. Cardinality(A) \in Nat
  BY <1>2, FS_CardinalityType
<1> QED
  BY <1>1, <1>2, <1>3

(* The places further down are one more than the places.                   *)
LEMMA ShiftedSize ==
  ASSUME NEW A \in SUBSET Entries
  PROVE  IsFiniteSet(Shifted(A)) /\ Cardinality(Shifted(A)) = Cardinality(A) + 1
<1> DEFINE B == {k + 1 : k \in A}
           f == [k \in A |-> k + 1]
<1>1. A \subseteq Nat
  BY NScoresAssumption DEF Entries
<1>2. f \in Bijection(A, B)
  <2>1. f \in Injection(A, B)
    <3>1. f \in [A -> B]
      OBVIOUS
    <3>2. ASSUME NEW a \in A, NEW b \in A, f[a] = f[b] PROVE a = b
      BY <1>1, <3>2
    <3> QED
      BY <3>1, <3>2 DEF Injection, IsInjective
  <2>2. f \in Surjection(A, B)
    BY DEF Surjection
  <2> QED
    BY <2>1, <2>2 DEF Bijection
<1>3. IsFiniteSet(A) /\ Cardinality(A) \in Nat
  BY EntriesFinite
<1>4. IsFiniteSet(B) /\ Cardinality(B) = Cardinality(A)
  BY <1>2, <1>3, FS_Bijection DEF ExistsBijection
<1>5. 0 \notin B
  BY <1>1
<1>6. Shifted(A) = B \cup {0}
  BY DEF Shifted
<1> HIDE DEF B
<1> QED
  BY <1>4, <1>5, <1>6, FS_AddElement

(* How many scores reach v: one more if p does, but never more than fit.   *)
LEMMA ReachingCount ==
  ASSUME NEW t \in Tables, Ordered(t), NEW p \in Nat, NEW v \in Nat
  PROVE  Reaching(CountScore(t, p), v) =
           LET n == Reaching(t, v) + (IF p >= v THEN 1 ELSE 0) IN
           IF n > NScores THEN NScores ELSE n
<1> DEFINE A == Reachers(t, v)
           C == Reachers(CountScore(t, p), v)
<1>1. Reaching(t, v) = Cardinality(A) /\ Reaching(CountScore(t, p), v) = Cardinality(C)
  BY DEF Reaching, Reachers
<1>2. A \in SUBSET Entries
  BY DEF Reachers
<1>3. Cardinality(A) \in Nat /\ Cardinality(A) <= NScores
  BY <1>2, EntriesFinite
<1>4. C = IF p >= v THEN Shifted(A) \cap Entries ELSE A
  BY ReachersShift
<1>5. IsFiniteSet(Shifted(A)) /\ Cardinality(Shifted(A)) = Cardinality(A) + 1
  BY <1>2, ShiftedSize
<1>6. CASE p < v
  BY <1>1, <1>3, <1>4, <1>6, NScoresAssumption
<1>7. CASE p >= v /\ NScores - 1 \in A
  <2>1. A = Entries
    <3>1. ASSUME NEW k \in Entries PROVE k \in A
      <4>1. NScores - 1 \in Entries /\ k <= NScores - 1
        BY NScoresAssumption DEF Entries
      <4>2. t[k] >= t[NScores - 1] /\ t[NScores - 1] >= v
        BY <1>7, <4>1 DEF Ordered, Reachers
      <4>3. t[k] \in Nat /\ t[NScores - 1] \in Nat
        BY <4>1 DEF Tables
      <4> QED
        BY <4>2, <4>3 DEF Reachers
    <3> QED
      BY <1>2, <3>1
  <2>2. C = Entries
    <3>1. ASSUME NEW k \in Entries PROVE k \in Shifted(A)
      <4>1. CASE k = 0
        BY <4>1 DEF Shifted
      <4>2. CASE k # 0
        <5>1. k - 1 \in A /\ k = (k - 1) + 1
          BY <2>1, <4>2, NScoresAssumption DEF Entries
        <5> QED
          BY <5>1 DEF Shifted
      <4> QED
        BY <4>1, <4>2
    <3> QED
      BY <1>4, <1>7, <3>1
  <2>3. Cardinality(Entries) = NScores
    BY <1>2, EntriesFinite
  <2> HIDE DEF A, C
  <2> QED
    BY <1>1, <1>7, <2>1, <2>2, <2>3, NScoresAssumption
<1>8. CASE p >= v /\ NScores - 1 \notin A
  <2>1. Shifted(A) \subseteq Entries
    <3>1. 0 \in Entries
      BY NScoresAssumption DEF Entries
    <3>2. ASSUME NEW k \in A PROVE k + 1 \in Entries
      BY <1>2, <1>8, NScoresAssumption DEF Entries
    <3> HIDE DEF A
    <3> QED
      BY <3>1, <3>2 DEF Shifted
  <2>2. Cardinality(C) = Cardinality(A) + 1 /\ C \in SUBSET Entries
    <3> HIDE DEF A
    <3> QED
      BY <1>4, <1>5, <1>8, <2>1
  <2>3. Cardinality(C) <= NScores
    BY <2>2, EntriesFinite
  <2> HIDE DEF A, C
  <2> QED
    BY <1>1, <1>3, <1>8, <2>2, <2>3, NScoresAssumption
<1>9. p < v \/ p >= v
  OBVIOUS
<1> QED
  BY <1>6, <1>7, <1>8, <1>9

LEMMA CountBest ==
  ASSUME NEW t \in Tables, Ordered(t), NEW p \in Nat
  PROVE  BestOf(CountScore(t, p), t, p)
<1> DEFINE u == CountScore(t, p)
<1>1. u \in Tables /\ Ordered(u)
  BY CountScoreType, CountOrdered
<1>2. ASSUME NEW k \in Entries, k > 0 PROVE u[k - 1] >= u[k]
  <2>1. k - 1 \in Entries /\ k - 1 <= k
    BY <1>2, NScoresAssumption DEF Entries
  <2> QED
    BY <1>1, <2>1 DEF Ordered
<1>3. {p} \cup {t[k] : k \in Entries} \cup {u[k] : k \in Entries} \subseteq Nat
  BY <1>1 DEF Tables
<1>4. \A v \in Nat :
        LET n == Reaching(t, v) + (IF p >= v THEN 1 ELSE 0) IN
        Reaching(u, v) = IF n > NScores THEN NScores ELSE n
  BY ReachingCount
<1> HIDE DEF u
<1> QED
  BY <1>2, <1>3, <1>4 DEF BestOf, u

-----------------------------------------------------------------------------
(* What a step of a frame can make of a slot                               *)

(* A frame makes no plane a player's, and keeps the slot of every player's *)
(* plane in use.                                                           *)
Kept(p) ==
  /\ Player(planes'[p]) => Player(planes[p])
  /\ Player(planes[p]) => planes'[p].used

LEMMA SlotSteps == ASSUME IInv, Frame PROVE \A p \in Planes : Kept(p)
<1> SUFFICES ASSUME NEW p \in Planes PROVE Kept(p)
  OBVIOUS
<1>1. planes \in [Planes -> Slot] /\ planes[p] \in Slot
  BY DEF IInv, TypeOK
<1>2. ASSUME planes'[p] = planes[p] PROVE Kept(p)
  BY <1>2 DEF Kept, Player, Live
<1>3. ASSUME NEW cheat \in BOOLEAN, FrameStart(cheat) PROVE Kept(p)
  <2>1. planes'[p] = Healed(planes[p]) \/ planes'[p] = planes[p]
    BY <1>3 DEF FrameStart
  <2> QED
    BY <1>1, <2>1, HealedStep DEF Kept, Player, Live
<1>4. ASSUME NEW hp \in EnemyHPs, Spawn(hp) \/ SpawnDouble(hp) PROVE Kept(p)
  <2>1. planes' = planes \/ planes' = NewEnemy(LowestFree, hp)
    BY <1>4 DEF Spawn, SpawnDouble, SpawnEnemy
  <2>2. \/ planes'[p] = planes[p]
        \/ planes'[p] = [used |-> TRUE, type |-> Foe, hp |-> hp, tick |-> 0]
    BY <1>1, <2>1 DEF NewEnemy
  <2> QED
    BY <1>2, <2>2 DEF Kept, Player, Live, Friend, Foe
<1>5. ASSUME NEW off \in SUBSET Planes, NEW gone \in SUBSET Bullets, Tick(off, gone)
      PROVE  Kept(p)
  <2>1. planes'[p] = Ticked(p, off)
    BY <1>5 DEF Tick
  <2>2. Player(planes[p]) => p \notin off
    BY <1>5 DEF Tick, MayLeave, Player
  <2> QED
    BY <1>1, <2>1, <2>2, TickedStep DEF Kept, Player, Live
<1>6. CASE Crash
  <2>1. /\ planes'[p].used = planes[p].used
        /\ planes'[p].type \in {planes[p].type, Explosion}
    BY <1>6, CrashStep
  <2> QED
    BY <2>1 DEF Kept, Player, Live
<1>7. CASE Hit
  <2>1. /\ planes'[p].used = planes[p].used
        /\ planes'[p].type \in {planes[p].type, Explosion}
    BY <1>7, HitStep
  <2> QED
    BY <2>1 DEF Kept, Player, Live
<1>8. CASE \/ \E volley \in BOOLEAN : Shoot(volley)
           \/ \E firing \in SUBSET Planes : EnemyFire(firing)
           \/ SkipPlane \/ EnterPlane \/ NoCrash \/ PlanesDone
           \/ NoHit \/ BulletsDone \/ PassDone
  BY <1>2, <1>8 DEF Shoot, EnemyFire, SkipPlane, EnterPlane, NoCrash, PlanesDone,
                    NoHit, BulletsDone, PassDone, pools
<1> QED
  BY <1>3, <1>4, <1>5, <1>6, <1>7, <1>8 DEF Frame

-----------------------------------------------------------------------------
(* StepInv is inductive                                                    *)

LEMMA StepInit == Init => StepInv
<1> SUFFICES ASSUME Init PROVE StepInv
  OBVIOUS
<1>1. IInv
  BY InitOK
<1>2. MenuEmpty /\ SpawnSettled /\ InnerLoop
  BY DEF Init, MenuEmpty, SpawnSettled, InnerLoop
<1>3. Ordered(player_scores)
  BY DEF Init, Ordered
<1> QED
  BY <1>1, <1>2, <1>3 DEF StepInv

(* A frame runs only in a round, and stays in it or ends it.               *)
LEMMA FrameNotMenu ==
  ASSUME StepInv, Frame
  PROVE  game_state # "MENU" /\ game_state' # "MENU"
<1>1. game_state # "MENU"
  <2>1. pc # "loop" \/ game_state = InGame(mode)
    BY DEF Frame, FrameStart, Shoot, Spawn, SpawnDouble, EnemyFire, Tick, SkipPlane,
           EnterPlane, Crash, NoCrash, PlanesDone, Hit, NoHit, BulletsDone, PassDone
  <2> QED
    BY <2>1 DEF StepInv, MenuEmpty, InGame
<1>2. game_state' = game_state \/ game_state' = Over("double")
  BY DEF Frame, FrameStart, Shoot, Spawn, SpawnDouble, EnemyFire, Tick, SkipPlane,
         EnterPlane, Crash, NoCrash, PlanesDone, Hit, NoHit, BulletsDone, PassDone
<1> QED
  BY <1>1, <1>2 DEF Over

LEMMA MenuStep == ASSUME StepInv, [Next]_vars PROVE MenuEmpty'
<1>1. CASE Frame
  BY <1>1, FrameNotMenu DEF MenuEmpty
<1>2. ASSUME NEW m \in RoundModes, Prepare(m) PROVE MenuEmpty'
  BY <1>2 DEF Prepare, MenuEmpty, InGame
<1>3. CASE Quit
  BY <1>3 DEF Quit, MenuEmpty, Over
<1>4. CASE GameOver
  <2>1. pc' = "loop"
    BY <1>4 DEF GameOver
  <2>2. ASSUME NEW p \in Planes PROVE ~ planes'[p].used
    BY <1>4, FreedStep DEF GameOver, StepInv, IInv, TypeOK
  <2> QED
    BY <2>1, <2>2 DEF MenuEmpty
<1>5. CASE UNCHANGED vars
  BY <1>5 DEF StepInv, MenuEmpty, vars
<1> QED
  BY <1>1, <1>2, <1>3, <1>4, <1>5 DEF Next

LEMMA SpawnStep == ASSUME StepInv, [Next]_vars PROVE SpawnSettled'
<1>1. ASSUME NEW hp \in EnemyHPs, Spawn(hp) PROVE SpawnSettled'
  <2>1. CASE due /\ FreePlanes # {}
    BY <1>1, <2>1 DEF Spawn, SpawnEnemy, SpawnSettled
  <2>2. CASE ~ (due /\ FreePlanes # {})
    BY <1>1, <2>2 DEF Spawn, SpawnEnemy, SpawnSettled, FreePlanes, StepInv, IInv, TypeOK
  <2> QED
    BY <2>1, <2>2
<1>2. CASE (\E m \in RoundModes : Prepare(m)) \/ Quit \/ GameOver
  BY <1>2 DEF Prepare, Quit, GameOver, SpawnSettled
<1>3. CASE \/ \E cheat \in BOOLEAN : FrameStart(cheat)
           \/ \E volley \in BOOLEAN : Shoot(volley)
           \/ \E hp \in EnemyHPs : SpawnDouble(hp)
           \/ \E firing \in SUBSET Planes : EnemyFire(firing)
           \/ \E off \in SUBSET Planes, gone \in SUBSET Bullets : Tick(off, gone)
           \/ SkipPlane \/ EnterPlane \/ Crash \/ NoCrash \/ PlanesDone
           \/ Hit \/ NoHit \/ BulletsDone \/ PassDone
  BY <1>3 DEF FrameStart, Shoot, SpawnDouble, EnemyFire, Tick, SkipPlane, EnterPlane, Crash,
              NoCrash, PlanesDone, Hit, NoHit, BulletsDone, PassDone, SpawnSettled
<1>4. CASE UNCHANGED vars
  BY <1>4 DEF StepInv, SpawnSettled, FreePlanes, vars
<1> QED
  BY <1>1, <1>2, <1>3, <1>4 DEF Next, Frame

LEMMA InnerStep == ASSUME StepInv, [Next]_vars PROVE InnerLoop'
<1>1. ci \in 0 .. NPlanes /\ NPlanes \in Nat /\ cj \in Nat
  BY NPlanesAssumption DEF StepInv, IInv, TypeOK
<1>2. CASE EnterPlane
  BY <1>1, <1>2 DEF EnterPlane, InnerLoop, Scanned, Live, pools
<1>3. CASE NoCrash \/ PlanesDone \/ NoHit
  BY <1>1, <1>3 DEF NoCrash, PlanesDone, NoHit, InnerLoop, StepInv, pools
<1>4. CASE Crash
  <2>1. ci \in Planes /\ planes'[ci].used = planes[ci].used
    BY <1>4, CrashStep DEF StepInv
  <2>2. ci < cj /\ planes[ci].used /\ cj' = cj + 1 /\ ci' = ci /\ pc' = pc /\ pc = "planes"
    BY <1>4 DEF Crash, StepInv, InnerLoop
  <2>3. cj' >= 2 /\ ci' < cj'
    BY <1>1, <2>2
  <2>4. planes'[ci'].used
    BY <2>1, <2>2
  <2> QED
    BY <2>2, <2>3, <2>4 DEF InnerLoop
<1>5. CASE Hit
  <2>1. ci \in Planes /\ planes'[ci].used = planes[ci].used
    BY <1>5, HitStep DEF StepInv
  <2>2. planes[ci].used /\ ci' = ci /\ pc' = "bullets"
    BY <1>5 DEF Hit, StepInv, InnerLoop
  <2>3. planes'[ci'].used
    BY <2>1, <2>2
  <2> QED
    BY <2>2, <2>3 DEF InnerLoop
<1>6. CASE (\E m \in RoundModes : Prepare(m)) \/ Quit \/ GameOver
  BY <1>6 DEF Prepare, Quit, GameOver, InnerLoop
<1>7. CASE \/ \E cheat \in BOOLEAN : FrameStart(cheat)
           \/ \E volley \in BOOLEAN : Shoot(volley)
           \/ \E hp \in EnemyHPs : Spawn(hp) \/ SpawnDouble(hp)
           \/ \E firing \in SUBSET Planes : EnemyFire(firing)
           \/ \E off \in SUBSET Planes, gone \in SUBSET Bullets : Tick(off, gone)
           \/ SkipPlane \/ BulletsDone \/ PassDone
  BY <1>7 DEF FrameStart, Shoot, Spawn, SpawnDouble, EnemyFire, Tick, SkipPlane,
              BulletsDone, PassDone, InnerLoop
<1>8. CASE UNCHANGED vars
  BY <1>8 DEF StepInv, InnerLoop, vars
<1> QED
  BY <1>2, <1>3, <1>4, <1>5, <1>6, <1>7, <1>8 DEF Next, Frame

LEMMA TableStep ==
  ASSUME StepInv, [Next]_vars
  PROVE  Ordered(player_scores') /\ (Counted => BestOf(player_scores', player_scores, score))
<1>1. player_scores \in Tables /\ score \in Nat /\ Ordered(player_scores)
  BY DEF StepInv, IInv, TypeOK
<1>2. CASE GameOver
  <2>1. player_scores' = CountScore(player_scores, score)
    BY <1>2 DEF GameOver
  <2> QED
    BY <1>1, <2>1, CountOrdered, CountBest
<1>3. CASE Frame
  <2>1. player_scores' = player_scores
    BY <1>3 DEF Frame, FrameStart, Shoot, Spawn, SpawnDouble, EnemyFire, Tick, SkipPlane,
           EnterPlane, Crash, NoCrash, PlanesDone, Hit, NoHit, BulletsDone, PassDone
  <2>2. ~ Counted
    BY <1>3, FrameNotMenu DEF Counted
  <2> QED
    BY <1>1, <2>1, <2>2
<1>4. CASE (\E m \in RoundModes : Prepare(m)) \/ Quit
  BY <1>1, <1>4 DEF Prepare, Quit, InGame, Over, Counted
<1>5. CASE UNCHANGED vars
  BY <1>1, <1>5 DEF vars, Counted, Over
<1> QED
  BY <1>2, <1>3, <1>4, <1>5 DEF Next

LEMMA StepInvariance == Spec => []StepInv
<1>1. StepInv /\ [Next]_vars => StepInv'
  BY StepOK, MenuStep, SpawnStep, InnerStep, TableStep DEF StepInv
<1> QED
  BY StepInit, <1>1, PTL DEF Spec

-----------------------------------------------------------------------------
(* The theorems                                                            *)

(* Within a round the dead stay dead, whatever the cheat, the spawn        *)
(* handlers and the collisions do to the slot (gamelogic.c:110).           *)
THEOREM DeadStayDead == Spec => NoRevival
<1>1. ASSUME StepInv, [Next]_vars, NEW p \in Planes,
             ~ Player(planes[p]), Player(planes'[p])
      PROVE  game_state = "MENU"
  <2>1. CASE Frame
    BY <1>1, <2>1, SlotSteps DEF StepInv, Kept
  <2>2. CASE \E m \in RoundModes : Prepare(m)
    BY <2>2 DEF Prepare
  <2>3. CASE Quit
    BY <1>1, <2>3 DEF Quit, pools
  <2>4. CASE GameOver
    <3>1. planes[p] \in Slot /\ planes'[p] = [Freed(planes[p]) EXCEPT !.type = Friend]
      BY <1>1, <2>4 DEF GameOver, StepInv, IInv, TypeOK
    <3>2. ~ planes'[p].used
      BY <3>1, FreedStep
    <3> QED
      BY <1>1, <3>2 DEF Player, Live
  <2>5. CASE UNCHANGED vars
    BY <1>1, <2>5 DEF vars, Player, Live
  <2> QED
    BY <1>1, <2>1, <2>2, <2>3, <2>4, <2>5 DEF Next
<1>2. StepInv /\ [Next]_vars =>
        [\A p \in Planes :
           ~ (Live(planes[p]) /\ planes[p].type = Friend)
           /\ Live(planes'[p]) /\ planes'[p].type = Friend
             => game_state = "MENU"]_vars
  BY <1>1 DEF Player
<1> QED
  BY StepInvariance, <1>2, PTL DEF Spec, NoRevival

(* A player's plane is lost to an explosion, or when the round is wound up,*)
(* and never to the off-screen rule (sprites.c:237-243).                   *)
THEOREM PlayersExplodeFirst == Spec => PlayerLostOnlyByExplosion
<1>1. ASSUME StepInv, [Next]_vars, NEW p \in Planes,
             Player(planes[p]), ~ planes'[p].used
      PROVE  game_state' = "MENU"
  <2>1. CASE Frame
    BY <1>1, <2>1, SlotSteps DEF StepInv, Kept
  <2>2. CASE \E m \in RoundModes : Prepare(m)
    BY <1>1, <2>2 DEF Prepare, StepInv, MenuEmpty, Player, Live
  <2>3. CASE Quit
    BY <1>1, <2>3 DEF Quit, pools, Player, Live
  <2>4. CASE GameOver
    BY <2>4 DEF GameOver
  <2>5. CASE UNCHANGED vars
    BY <1>1, <2>5 DEF vars, Player, Live
  <2> QED
    BY <1>1, <2>1, <2>2, <2>3, <2>4, <2>5 DEF Next
<1>2. StepInv /\ [Next]_vars =>
        [\A p \in Planes :
           Live(planes[p]) /\ planes[p].type = Friend /\ ~ planes'[p].used
             => game_state' = "MENU"]_vars
  BY <1>1 DEF Player
<1> QED
  BY StepInvariance, <1>2, PTL DEF Spec, PlayerLostOnlyByExplosion

(* What the plane hurt by a step is, when the score rises                  *)
Earned(p) ==
  /\ Live(planes[p]) /\ planes[p].type = Foe
  /\ planes'[p].hp < planes[p].hp \/ Exploding(planes'[p])

LEMMA CrashEarns == ASSUME StepInv, Crash PROVE \E p \in Planes : Earned(p)
<1>1. /\ ci \in Planes /\ cj \in Planes /\ Live(planes[cj])
      /\ \A p \in Planes : planes'[p].used = planes[p].used
      /\ planes[ci].type = Friend => planes'[cj].type = Explosion
      /\ planes[ci].type # Friend =>
           planes'[ci].type = Explosion /\ planes'[cj].hp < planes[cj].hp
  BY CrashStep DEF StepInv
<1>2. planes[ci] \in Slot /\ planes[cj] \in Slot
  BY <1>1 DEF StepInv, IInv, TypeOK
<1>3. planes[ci].used /\ planes[cj].type # planes[ci].type
  BY DEF Crash, Opposed, StepInv, InnerLoop
<1>4. CASE planes[ci].type = Friend
  <2>1. planes[cj].type = Foe
    BY <1>1, <1>2, <1>3, <1>4 DEF Live, Slot
  <2> QED
    BY <1>1, <1>4, <2>1 DEF Earned, Live, Exploding
<1>5. CASE planes[ci].type = Foe
  <2>1. Live(planes[ci]) /\ Exploding(planes'[ci])
    BY <1>1, <1>3, <1>5 DEF Live, Exploding, Friend, Foe, Explosion
  <2> QED
    BY <1>1, <1>5, <2>1 DEF Earned
<1>6. CASE planes[ci].type = Explosion
  <2>1. cj >= 2
    BY <1>6 DEF Crash, StepInv, InnerLoop
  <2>2. planes[cj].type # Friend
    <3>1. planes[cj].type = Friend => cj \in Slots(mode)
      BY <1>1 DEF StepInv, IInv, PoolOK, SlotOK
    <3> QED
      BY <2>1, <3>1 DEF Slots, P1, P2
  <2>3. planes[cj].type = Foe
    BY <1>1, <1>2, <2>2 DEF Live, Slot
  <2> QED
    BY <1>1, <1>6, <2>3 DEF Earned, Friend, Explosion
<1> QED
  BY <1>2, <1>4, <1>5, <1>6 DEF Slot

LEMMA HitEarns ==
  ASSUME StepInv, Hit, score' > score
  PROVE  \E p \in Planes : Earned(p)
<1>1. ci \in Planes /\ planes'[ci].hp = planes[ci].hp - 1
  BY HitStep DEF StepInv
<1>2. planes[ci].hp \in Int /\ score \in Nat
  BY <1>1 DEF StepInv, IInv, TypeOK, Slot
<1>3. planes[ci].used
  BY DEF Hit, StepInv, InnerLoop
<1>4. planes[ci].type = Foe
  <2>1. score' = Cap(score + HitPoints(planes[ci]))
    BY DEF Hit
  <2>2. SUFFICES ASSUME HitPoints(planes[ci]) = 0 PROVE FALSE
    BY DEF HitPoints
  <2> QED
    BY <1>2, <2>1, <2>2, ScoreAssumption DEF Cap
<1> QED
  BY <1>1, <1>2, <1>3, <1>4 DEF Earned, Live, Foe, Explosion

(* Points come from enemies only: also when plane i has exploded earlier   *)
(* in the same inner loop, what it goes on crashing with is an enemy,      *)
(* because the players sit in the two lowest slots (sprites.c:316).        *)
THEOREM PointsAreEarned == Spec => ScoreEarned
<1>1. ASSUME StepInv, [Next]_vars, score' > score PROVE \E p \in Planes : Earned(p)
  <2>1. score \in Nat
    BY <1>1 DEF StepInv, IInv, TypeOK
  <2>2. CASE Crash
    BY <1>1, <2>2, CrashEarns
  <2>3. CASE Hit
    BY <1>1, <2>3, HitEarns
  <2>4. CASE \E m \in RoundModes : Prepare(m)
    BY <1>1, <2>1, <2>4 DEF Prepare
  <2>5. CASE \E cheat \in BOOLEAN : FrameStart(cheat)
    BY <1>1, <2>1, <2>5, ScoreAssumption DEF FrameStart, Penalty
  <2>6. CASE \/ Quit \/ GameOver
             \/ \E volley \in BOOLEAN : Shoot(volley)
             \/ \E hp \in EnemyHPs : Spawn(hp) \/ SpawnDouble(hp)
             \/ \E firing \in SUBSET Planes : EnemyFire(firing)
             \/ \E off \in SUBSET Planes, gone \in SUBSET Bullets : Tick(off, gone)
             \/ SkipPlane \/ EnterPlane \/ NoCrash \/ PlanesDone
             \/ NoHit \/ BulletsDone \/ PassDone \/ UNCHANGED vars
    <3>1. score' = score
      BY <2>6 DEF Quit, GameOver, Shoot, Spawn, SpawnDouble, EnemyFire, Tick, SkipPlane,
                  EnterPlane, NoCrash, PlanesDone, NoHit, BulletsDone, PassDone, vars
    <3> QED
      BY <1>1, <2>1, <3>1
  <2> QED
    BY <1>1, <2>2, <2>3, <2>4, <2>5, <2>6 DEF Next, Frame
<1>2. StepInv /\ [Next]_vars =>
        [score' > score =>
           \E p \in Planes :
             /\ Live(planes[p]) /\ planes[p].type = Foe
             /\ planes'[p].hp < planes[p].hp \/ Exploding(planes'[p])]_vars
  BY <1>1 DEF Earned
<1> QED
  BY StepInvariance, <1>2, PTL DEF Spec, ScoreEarned

(* A hit point that a bullet takes costs that bullet: the second pass of a *)
(* two-player frame cannot take another with it (gamelogic.c:634-635).     *)
THEOREM BulletsHitOnce == Spec => OneBulletOnePoint
<1>1. ASSUME StepInv, [Next]_vars, pc = "bullets", NEW p \in Planes,
             planes'[p].hp < planes[p].hp
      PROVE  /\ planes'[p].hp = planes[p].hp - 1
             /\ \E b \in Bullets : bullets[b] # Free /\ bullets'[b] = Free
  <2>1. planes[p].hp \in Int
    BY <1>1 DEF StepInv, IInv, TypeOK, Slot
  <2>2. Hit \/ UNCHANGED planes
    BY <1>1 DEF Next, Frame, Prepare, Quit, GameOver, FrameStart, Shoot, Spawn, SpawnDouble,
           EnemyFire, Tick, SkipPlane, EnterPlane, Crash, NoCrash, PlanesDone, NoHit,
           BulletsDone, PassDone, pools, vars
  <2>3. Hit
    BY <1>1, <2>1, <2>2
  <2>4. /\ ci \in Planes /\ cj \in Bullets
        /\ planes'[ci].hp = planes[ci].hp - 1
        /\ \A q \in Planes \ {ci} : planes'[q] = planes[q]
    BY <1>1, <2>3, HitStep DEF StepInv
  <2>5. p = ci
    BY <1>1, <2>1, <2>4
  <2>6. bullets[cj] # Free /\ bullets'[cj] = Free
    BY <1>1, <2>3, <2>4 DEF Hit, BulletSpent, StepInv, IInv, TypeOK
  <2> QED
    BY <2>4, <2>5, <2>6
<1>2. StepInv /\ [Next]_vars =>
        [pc = "bullets" => \A p \in Planes :
           planes'[p].hp < planes[p].hp =>
             /\ planes'[p].hp = planes[p].hp - 1
             /\ \E b \in Bullets : bullets[b] # Free /\ bullets'[b] = Free]_vars
  BY <1>1
<1> QED
  BY StepInvariance, <1>2, PTL DEF Spec, OneBulletOnePoint

(* Two spawn handlers, one enemy: the second finds nothing due or no slot  *)
(* (gamelogic.c:623-624).                                                  *)
THEOREM OneSpawnPerFrame == Spec => OneEnemyPerFrame
<1>1. ASSUME StepInv, [Next]_vars, pc = "spawn2" PROVE UNCHANGED planes
  <2>1. ~ (due /\ FreePlanes # {})
    BY <1>1 DEF StepInv, SpawnSettled
  <2> QED
    BY <1>1, <2>1 DEF Next, Frame, Prepare, Quit, GameOver, FrameStart, Shoot, Spawn,
         SpawnDouble, SpawnEnemy, EnemyFire, Tick, SkipPlane, EnterPlane, Crash, NoCrash,
         PlanesDone, Hit, NoHit, BulletsDone, PassDone, pools, vars
<1>2. StepInv /\ [Next]_vars => [pc = "spawn2" => UNCHANGED planes]_vars
  BY <1>1
<1> QED
  BY StepInvariance, <1>2, PTL DEF Spec, OneEnemyPerFrame

(* For a table of any size: what count_score leaves are the best of all    *)
(* the scores ever reached, in order (gamelogic.c:417-436).                *)
THEOREM TableIsBest == Spec => TableKeepsBest
<1>1. StepInv /\ [Next]_vars
        => [Counted => BestOf(player_scores', player_scores, score)]_vars
  BY TableStep
<1> QED
  BY StepInvariance, <1>1, PTL DEF Spec, TableKeepsBest

-----------------------------------------------------------------------------
(* Crashes                                                                 *)

LEMMA DamagedZero ==
  ASSUME NEW s \in Slot, Live(s), Exploding(Damaged(s))
  PROVE  Damaged(s).hp = 0
<1> DEFINE hurt == [s EXCEPT !.hp = @ - 1]
<1>1. hurt \in Slot /\ hurt.type = s.type
  BY DEF Slot
<1>2. Exploded(hurt).hp = hurt.hp
  BY <1>1, ExplodedStep
<1>3. Damaged(s) = IF hurt.hp = 0 THEN Exploded(hurt) ELSE hurt
  BY DEF Damaged
<1> HIDE DEF hurt
<1> QED
  BY <1>1, <1>2, <1>3 DEF Live, Exploding

(* The plane removed, r, is never on the players' side; the other, f, loses*)
(* a hit point.                                                            *)
CrashPair(r, f) ==
  /\ r # f
  /\ planes[r].used /\ planes[r].type # Friend
  /\ \/ f = ci /\ r = cj /\ planes[f].type = Friend /\ Live(planes[r])
     \/ f = cj /\ r = ci /\ Live(planes[f])
  /\ planes'[r] = Exploded(planes[r])
  /\ planes'[f] = Damaged(planes[f])
  /\ \A p \in Planes \ {r, f} : planes'[p] = planes[p]

LEMMA CrashMoves ==
  ASSUME StepInv, Crash
  PROVE  \E r, f \in Planes : CrashPair(r, f)
<1> DEFINE f == IF planes[ci].type = Friend THEN ci ELSE cj
           r == IF planes[ci].type = Friend THEN cj ELSE ci
<1>1. ci \in Planes /\ cj \in Planes /\ ci # cj /\ Live(planes[cj])
  BY CrashStep DEF StepInv
<1>2. planes[ci].used /\ planes[cj].used /\ planes[cj].type # planes[ci].type
  BY DEF Crash, Opposed, StepInv, InnerLoop, Live
<1>3. /\ f \in Planes /\ r \in Planes /\ r # f
      /\ planes[r].used /\ planes[r].type # Friend
      /\ \/ f = ci /\ r = cj /\ planes[f].type = Friend /\ Live(planes[r])
         \/ f = cj /\ r = ci /\ Live(planes[f])
  BY <1>1, <1>2
<1>4. planes' = [planes EXCEPT ![r] = Exploded(@), ![f] = Damaged(@)]
  BY DEF Crash
<1>5. planes \in [Planes -> Slot]
  BY DEF StepInv, IInv, TypeOK
<1> HIDE DEF f, r
<1>6. /\ planes'[r] = Exploded(planes[r])
      /\ planes'[f] = Damaged(planes[f])
      /\ \A p \in Planes \ {r, f} : planes'[p] = planes[p]
  BY <1>3, <1>4, <1>5
<1> QED
  BY <1>3, <1>6 DEF CrashPair

(* A player's plane in the pair met a live enemy: plane i is past both     *)
(* players when it is a wreck.                                             *)
LEMMA PlayerMeetsEnemy ==
  ASSUME StepInv, Crash, NEW r \in Planes, NEW f \in Planes, CrashPair(r, f),
         Player(planes[f])
  PROVE  Enemy(planes[r])
<1>1. planes[r] \in Slot
  BY DEF StepInv, IInv, TypeOK
<1>2. CASE Live(planes[r])
  BY <1>1, <1>2 DEF CrashPair, Slot, Enemy, Live
<1>3. CASE ~ Live(planes[r])
  <2>1. r = ci /\ f = cj /\ planes[ci].type = Explosion
    BY <1>3 DEF CrashPair, Live
  <2>2. cj >= 2
    BY <2>1 DEF Crash, StepInv, InnerLoop
  <2>3. cj \in Slots(mode)
    BY <2>1 DEF StepInv, IInv, PoolOK, SlotOK, Player
  <2> QED
    BY <2>2, <2>3 DEF Slots, P1, P2
<1> QED
  BY <1>2, <1>3

(* In the loop over the planes nothing but a crash changes a plane.        *)
LEMMA PlanesLoop ==
  ASSUME StepInv, [Next]_vars, pc = "planes", planes' # planes
  PROVE  Crash
BY DEF Next, Frame, Prepare, Quit, GameOver, FrameStart, Shoot, Spawn, SpawnDouble,
       EnemyFire, Tick, SkipPlane, EnterPlane, Crash, NoCrash, PlanesDone, Hit, NoHit,
       BulletsDone, PassDone, pools, vars

(* What the two planes of a crash can be when neither is a player's: a     *)
(* wreck and a live enemy (sprites.c:315).                                 *)
THEOREM WrecksGoOnCrashing == Spec => OnlyWrecksCrashFriendless
<1>1. ASSUME StepInv, [Next]_vars, pc = "planes", planes' # planes,
             Friend \notin {planes[ci].type, planes[cj].type}
      PROVE  Exploding(planes[ci]) /\ Live(planes[cj]) /\ planes[cj].type = Foe
  <2>1. Crash
    BY <1>1, PlanesLoop
  <2>2. ci \in Planes /\ cj \in Planes /\ Live(planes[cj])
    BY <1>1, <2>1, CrashStep DEF StepInv
  <2>3. planes[ci] \in Slot /\ planes[cj] \in Slot
    BY <1>1, <2>2 DEF StepInv, IInv, TypeOK
  <2>4. planes[ci].used /\ planes[ci].type # planes[cj].type
    BY <1>1, <2>1 DEF Crash, Opposed, StepInv, InnerLoop
  <2> QED
    BY <1>1, <2>2, <2>3, <2>4 DEF Live, Exploding, Slot
<1>2. StepInv /\ [Next]_vars =>
        [pc = "planes" /\ planes' # planes /\ Friend \notin {planes[ci].type, planes[cj].type}
           => Exploding(planes[ci]) /\ Live(planes[cj]) /\ planes[cj].type = Foe]_vars
  BY <1>1
<1> QED
  BY StepInvariance, <1>2, PTL DEF Spec, OnlyWrecksCrashFriendless

(* The hit point a crash costs a player is paid for by an enemy            *)
(* (sprites.c:325-366).                                                    *)
THEOREM CrashesTakeEnemies == Spec => CrashTakesEnemyAlong
<1>1. ASSUME StepInv, [Next]_vars, pc = "planes", NEW p \in Planes,
             Player(planes[p]), planes'[p].hp < planes[p].hp
      PROVE  \E q \in Planes \ {p} : Enemy(planes[q]) /\ Exploding(planes'[q])
  <2>1. planes[p].hp \in Int
    BY <1>1 DEF StepInv, IInv, TypeOK, Slot
  <2>2. Crash
    <3>1. planes' # planes
      BY <1>1, <2>1
    <3> QED
      BY <1>1, <3>1, PlanesLoop
  <2>3. PICK r \in Planes, f \in Planes : CrashPair(r, f)
    BY <1>1, <2>2, CrashMoves
  <2>4. planes[r] \in Slot
    BY <1>1 DEF StepInv, IInv, TypeOK
  <2>5. p = f
    BY <1>1, <2>1, <2>3 DEF CrashPair, Player
  <2>6. Enemy(planes[r])
    BY <1>1, <2>2, <2>3, <2>5, PlayerMeetsEnemy
  <2>7. Exploding(planes'[r])
    BY <2>3, <2>4, ExplodedStep DEF CrashPair, Exploding
  <2> QED
    BY <2>3, <2>5, <2>6, <2>7 DEF CrashPair
<1>2. StepInv /\ [Next]_vars =>
        [pc = "planes" => \A p \in Planes :
           Live(planes[p]) /\ planes[p].type = Friend /\ planes'[p].hp < planes[p].hp
             => \E q \in Planes \ {p} :
                  Live(planes[q]) /\ planes[q].type = Foe /\ Exploding(planes'[q])]_vars
  BY <1>1 DEF Player, Enemy
<1> QED
  BY StepInvariance, <1>2, PTL DEF Spec, CrashTakesEnemyAlong

LEMMA WreckStep ==
  ASSUME StepInv, [Next]_vars, NEW p \in Planes,
         planes[p].used, Exploding(planes'[p])
  PROVE  /\ Player(planes[p]) => planes'[p].hp = 0
         /\ planes'[p].hp > planes[p].hp => pc = "loop"
<1>1. planes[p] \in Slot /\ planes[p].hp \in Int
  BY DEF StepInv, IInv, TypeOK, Slot
<1>2. ASSUME planes'[p].type = planes[p].type, planes'[p].hp = planes[p].hp
      PROVE  ~ Player(planes[p]) /\ ~ (planes'[p].hp > planes[p].hp)
  BY <1>1, <1>2 DEF Exploding, Player, Live
<1>3. ASSUME planes'[p] = Damaged(planes[p])
      PROVE  /\ Player(planes[p]) => planes'[p].hp = 0
             /\ ~ (planes'[p].hp > planes[p].hp)
  BY <1>1, <1>3, DamagedStep, DamagedZero DEF Player
<1>4. CASE Crash
  <2>1. PICK r \in Planes, f \in Planes : CrashPair(r, f)
    BY <1>4, CrashMoves
  <2>2. CASE p = r
    BY <1>1, <2>1, <2>2, ExplodedStep DEF CrashPair, Player
  <2>3. CASE p = f
    BY <1>3, <2>1, <2>3 DEF CrashPair
  <2>4. CASE p \notin {r, f}
    BY <1>2, <2>1, <2>4 DEF CrashPair
  <2> QED
    BY <2>2, <2>3, <2>4
<1>5. CASE Hit
  <2>1. planes \in [Planes -> Slot]
    BY DEF StepInv, IInv, TypeOK
  <2>2. planes'[p] = Damaged(planes[p]) \/ planes'[p] = planes[p]
    BY <1>5, <2>1 DEF Hit
  <2> QED
    BY <1>2, <1>3, <2>2
<1>6. ASSUME NEW off \in SUBSET Planes, NEW gone \in SUBSET Bullets, Tick(off, gone)
      PROVE  ~ Player(planes[p]) /\ ~ (planes'[p].hp > planes[p].hp)
  <2>1. planes'[p] = Ticked(p, off)
    BY <1>6 DEF Tick
  <2> QED
    BY <1>1, <1>2, <2>1, TickedStep DEF Exploding
<1>7. ASSUME NEW cheat \in BOOLEAN, FrameStart(cheat)
      PROVE  ~ Player(planes[p]) /\ pc = "loop"
  <2>1. planes'[p] = Healed(planes[p]) \/ planes'[p] = planes[p]
    BY <1>7 DEF FrameStart
  <2>2. planes'[p].type = planes[p].type
    BY <1>1, <2>1, HealedStep
  <2> QED
    BY <1>7, <2>2 DEF FrameStart, Exploding, Player, Live
<1>8. ASSUME NEW hp \in EnemyHPs, Spawn(hp) \/ SpawnDouble(hp) PROVE planes'[p] = planes[p]
  <2>1. planes' = planes \/ planes' = NewEnemy(LowestFree, hp)
    BY <1>8 DEF Spawn, SpawnDouble, SpawnEnemy
  <2>2. \/ planes'[p] = planes[p]
        \/ planes'[p] = [used |-> TRUE, type |-> Foe, hp |-> hp, tick |-> 0]
    BY <2>1 DEF NewEnemy, StepInv, IInv, TypeOK
  <2> QED
    BY <2>2 DEF Exploding, Foe, Explosion
<1>9. CASE (\E m \in RoundModes : Prepare(m)) \/ GameOver
  <2> DEFINE ready == [used |-> TRUE, type |-> Friend, hp |-> PlayerHP, tick |-> 0]
             freed == [Freed(planes[p]) EXCEPT !.type = Friend]
  <2>1. planes'[p] = ready \/ planes'[p] = freed
    BY <1>9 DEF Prepare, GameOver
  <2>2. ready.type = Friend /\ ~ freed.used
    BY <1>1, FreedStep
  <2> HIDE DEF ready, freed
  <2> QED
    BY <2>1, <2>2 DEF Exploding, Friend, Explosion
<1>10. CASE \/ Quit
            \/ \E volley \in BOOLEAN : Shoot(volley)
            \/ \E firing \in SUBSET Planes : EnemyFire(firing)
            \/ SkipPlane \/ EnterPlane \/ NoCrash \/ PlanesDone
            \/ NoHit \/ BulletsDone \/ PassDone \/ UNCHANGED vars
  <2>1. planes' = planes
    BY <1>10 DEF Quit, Shoot, EnemyFire, SkipPlane, EnterPlane, NoCrash, PlanesDone,
                 NoHit, BulletsDone, PassDone, pools, vars
  <2> QED
    BY <1>2, <2>1
<1>11. ASSUME planes'[p] = planes[p] PROVE ~ Player(planes[p]) /\ ~ (planes'[p].hp > planes[p].hp)
  BY <1>2, <1>11
<1> QED
  BY <1>4, <1>5, <1>6, <1>7, <1>8, <1>9, <1>10, <1>11 DEF Next, Frame

(* How a wreck can have the hit points that DeathNeedsFullHp asks for:     *)
(* a player's has none when it explodes, and only the cheat gives any.     *)
THEOREM WrecksAreEmpty == Spec => WrecksHaveNoHp
<1>1. StepInv /\ [Next]_vars =>
        [\A p \in Planes : planes[p].used /\ Exploding(planes'[p]) =>
           /\ Live(planes[p]) /\ planes[p].type = Friend => planes'[p].hp = 0
           /\ planes'[p].hp > planes[p].hp => pc = "loop"]_vars
  BY WreckStep DEF Player
<1> QED
  BY StepInvariance, <1>1, PTL DEF Spec, WrecksHaveNoHp

-----------------------------------------------------------------------------
(* The score table                                                         *)

LEMMA CountUnchanged ==
  ASSUME NEW t \in Tables, Ordered(t), NEW p \in Nat, ~ (p >= t[NScores - 1])
  PROVE  CountScore(t, p) = t
<1>1. ASSUME NEW k \in Entries PROVE CountScore(t, p)[k] = t[k]
  <2>1. NScores - 1 \in Entries /\ k <= NScores - 1
    BY NScoresAssumption DEF Entries
  <2>2. t[k] >= t[NScores - 1] /\ t[k] \in Nat /\ t[NScores - 1] \in Nat
    BY <2>1 DEF Ordered, Tables
  <2>3. p < t[k]
    BY <2>2
  <2> QED
    BY <2>3, Inserted
<1>2. DOMAIN CountScore(t, p) = Entries /\ DOMAIN t = Entries
  BY DEF CountScore, Tables
<1> QED
  BY <1>1, <1>2 DEF CountScore, Tables

LEMMA LeastOf ==
  ASSUME NEW A \in SUBSET Nat, A # {}
  PROVE  \E k \in A : \A i \in A : k <= i
<1>1. PICK k \in A : \A i \in A : ~ (<<i, k>> \in OpToRel(<, Nat))
  BY NatLessThanWellFounded, WFMin
<1>2. ASSUME NEW i \in A PROVE ~ (i < k)
  BY <1>1 DEF OpToRel
<1> QED
  BY <1>2

(* The slot sprites_allocate returns is a free one.                        *)
LEMMA LowestIsFree ==
  ASSUME FreePlanes # {}
  PROVE  LowestFree \in FreePlanes
<1>1. FreePlanes \in SUBSET Nat
  BY NPlanesAssumption DEF FreePlanes, Planes
<1>2. \E p \in FreePlanes : \A q \in FreePlanes : p <= q
  BY <1>1, LeastOf
<1> QED
  BY <1>2 DEF LowestFree

LEMMA CountTakes ==
  ASSUME NEW t \in Tables, Ordered(t), NEW p \in Nat, p >= t[NScores - 1]
  PROVE  \E k \in Entries : CountScore(t, p)[k] = p
<1> DEFINE Best == {k \in Entries : p >= t[k]}
<1>1. NScores - 1 \in Best
  BY NScoresAssumption DEF Entries
<1>2. PICK k \in Best : \A i \in Best : k <= i
  <2>1. Best \subseteq Nat /\ Best # {}
    BY <1>1, NScoresAssumption DEF Entries
  <2> QED
    BY <2>1, LeastOf
<1>3. k \in Entries /\ p >= t[k] /\ t[k] \in Nat
  BY DEF Tables
<1>4. ~ (k > 0 /\ p >= t[k - 1])
  <2>1. SUFFICES ASSUME k > 0, p >= t[k - 1] PROVE FALSE
    OBVIOUS
  <2>2. k - 1 \in Best
    BY <1>3, <2>1, NScoresAssumption DEF Entries
  <2> QED
    BY <1>2, <1>3, <2>2, NScoresAssumption DEF Entries
<1>5. ~ (p < t[k])
  BY <1>3
<1> QED
  BY <1>3, <1>4, <1>5, Inserted

(* Only the end of a round changes the table.                              *)
LEMMA CountedByGameOver == ASSUME StepInv, [Next]_vars, Counted PROVE GameOver
<1>1. ~ Frame
  BY FrameNotMenu DEF Counted
<1>2. ~ (\E m \in RoundModes : Prepare(m))
  BY DEF Prepare, Counted, Over
<1>3. ~ Quit /\ ~ UNCHANGED vars
  BY DEF Quit, Counted, Over, vars
<1> QED
  BY <1>1, <1>2, <1>3 DEF Next

(* A score too low for the table, which count_score writes to the element  *)
(* after the last one, never changes an entry; any other score is entered  *)
(* (gamelogic.c:417-430).                                                  *)
THEOREM TableTakesIt == Spec => TableTakesReached
<1>1. ASSUME StepInv, [Next]_vars, Counted
      PROVE  IF score >= player_scores[NScores - 1]
               THEN \E k \in Entries : player_scores'[k] = score
               ELSE UNCHANGED player_scores
  <2>1. player_scores \in Tables /\ score \in Nat /\ Ordered(player_scores)
    BY <1>1 DEF StepInv, IInv, TypeOK
  <2>2. player_scores' = CountScore(player_scores, score)
    BY <1>1, CountedByGameOver DEF GameOver
  <2> QED
    BY <2>1, <2>2, CountTakes, CountUnchanged
<1>2. StepInv /\ [Next]_vars =>
        [Counted =>
           IF score >= player_scores[NScores - 1]
             THEN \E k \in Entries : player_scores'[k] = score
             ELSE UNCHANGED player_scores]_vars
  BY <1>1
<1> QED
  BY StepInvariance, <1>2, PTL DEF Spec, TableTakesReached

-----------------------------------------------------------------------------
(* The round as the main loop sees it                                      *)

(* Up to the tick of the planes a frame is one of a round that goes on.    *)
FrameOfRound ==
  pc \in {"shoot", "spawn", "spawn2", "fire", "tick"} => game_state = InGame(mode)

LEMMA FrameOfRoundStep == ASSUME FrameOfRound, [Next]_vars PROVE FrameOfRound'
<1>1. CASE (\E m \in RoundModes : Prepare(m)) \/ Quit \/ GameOver
  BY <1>1 DEF Prepare, Quit, GameOver, FrameOfRound
<1>2. CASE Frame
  BY <1>2 DEF Frame, FrameStart, Shoot, Spawn, SpawnDouble, EnemyFire, Tick, SkipPlane,
         EnterPlane, Crash, NoCrash, PlanesDone, Hit, NoHit, BulletsDone, PassDone,
         FrameOfRound
<1>3. CASE UNCHANGED vars
  BY <1>3 DEF vars, FrameOfRound
<1> QED
  BY <1>1, <1>2, <1>3 DEF Next

LEMMA FramesOfRounds == Spec => []FrameOfRound
<1>1. Init => FrameOfRound
  BY DEF Init, FrameOfRound
<1>2. FrameOfRound /\ [Next]_vars => FrameOfRound'
  BY FrameOfRoundStep
<1> QED
  BY <1>1, <1>2, PTL DEF Spec

LEMMA ContractStep ==
  ASSUME FrameOfRound, [Next]_vars
  PROVE  [RoundSeen!Next]_game_state
<1>1. ASSUME NEW m \in RoundModes, Prepare(m) PROVE RoundSeen!Begin
  BY <1>1 DEF Prepare, InGame, RoundSeen!Begin, RoundSeen!Playing
<1>2. CASE Quit
  BY <1>2 DEF Quit, InGame, Over, RoundSeen!Quit, RoundSeen!Next
<1>3. CASE GameOver
  BY <1>3 DEF GameOver, Over, RoundSeen!WindUp, RoundSeen!Ended, RoundSeen!Next
<1>4. ASSUME NEW off \in SUBSET Planes, NEW gone \in SUBSET Bullets, Tick(off, gone)
      PROVE  RoundSeen!Lost \/ UNCHANGED game_state
  BY <1>4 DEF Tick, FrameOfRound, InGame, Over, RoundSeen!Lost, RoundSeen!Playing
<1>5. CASE Frame
  <2>1. \/ UNCHANGED game_state
        \/ \E off \in SUBSET Planes, gone \in SUBSET Bullets : Tick(off, gone)
    BY <1>5 DEF Frame, FrameStart, Shoot, Spawn, SpawnDouble, EnemyFire, SkipPlane,
           EnterPlane, Crash, NoCrash, PlanesDone, Hit, NoHit, BulletsDone, PassDone
  <2> QED
    BY <1>4, <2>1 DEF RoundSeen!Next
<1>6. CASE UNCHANGED vars
  BY <1>6 DEF vars
<1> QED
  BY <1>1, <1>2, <1>3, <1>5, <1>6 DEF Next, RoundSeen!Next

(* A round implements the contract that Screens is built on, in either     *)
(* mode and for pools of any size.                                         *)
THEOREM RoundsKeepContract == Spec => RoundContract
<1>1. Init => RoundSeen!Init
  BY DEF Init, RoundSeen!Init
<1>2. FrameOfRound /\ [Next]_vars => [RoundSeen!Next]_game_state
  BY ContractStep
<1> QED
  BY FramesOfRounds, <1>1, <1>2, PTL DEF Spec, RoundContract, RoundSeen!Spec

-----------------------------------------------------------------------------
(* What ends a single player's round                                       *)

(* hp_all is what the status bar last computed, and up to the tick of the  *)
(* planes slot 0 has the hit points it was computed from, unless an enemy  *)
(* has just been put into it.  Before the first frame ever the statics     *)
(* hold zero, which no plane at the start of a round has.                  *)
BarInv ==
  /\ mode = "single"
  /\ \/ hp_all = PlayerHP - prev["single"].hp
     \/ /\ prev["single"].hp = 0
        /\ pc = "loop"
        /\ game_state = InGame("single") => planes[P1].hp = PlayerHP
  /\ pc \in {"shoot", "spawn", "spawn2", "fire", "tick"} =>
       prev["single"].hp = planes[P1].hp \/ ~ Exploding(planes[P1])

LEMMA BarInit == Init => BarInv
BY DEF Init, BarInv, InGame, Modes

LEMMA BarFrameStart ==
  ASSUME IInv, BarInv, NEW cheat \in BOOLEAN, FrameStart(cheat)
  PROVE  BarInv'
<1> DEFINE cheated == [p \in Planes |->
                        IF cheat /\ p \in Slots(mode) THEN Healed(planes[p]) ELSE planes[p]]
           hp == Health(cheated, mode)
<1>1. planes' = cheated /\ mode' = mode /\ pc' = "shoot"
  BY DEF FrameStart
<1>2. /\ \/ hp_all' = FullHP(mode) - hp
         \/ hp = prev[mode].hp /\ hp_all' = hp_all
      /\ \E points : prev' = [prev EXCEPT ![mode] = [hp |-> hp, score |-> points]]
  BY DEF FrameStart
<1>3. P1 \in Planes /\ P1 \in Slots(mode) /\ planes[P1] \in Slot
  BY NPlanesAssumption DEF P1, Planes, Slots, IInv, TypeOK
<1>4. hp = planes'[P1].hp
  BY <1>1 DEF Health, BarInv
<1>5. planes'[P1].hp \in {planes[P1].hp, PlayerHP}
  BY <1>1, <1>3 DEF Healed, Slot
<1> HIDE DEF cheated, hp
<1>6. prev'["single"].hp = hp
  BY <1>2 DEF BarInv, IInv, TypeOK, Modes
<1>7. FullHP(mode) = PlayerHP
  BY DEF FullHP, BarInv
<1>8. hp_all' = PlayerHP - hp
  <2>1. CASE hp_all = PlayerHP - prev["single"].hp
    BY <1>2, <1>7, <2>1 DEF BarInv
  <2>2. CASE hp_all # PlayerHP - prev["single"].hp
    <3>1. planes[P1].hp = PlayerHP /\ prev["single"].hp = 0
      BY <2>2 DEF BarInv, FrameStart
    <3>2. hp # prev[mode].hp
      BY <1>4, <1>5, <3>1, HPAssumption DEF BarInv
    <3> QED
      BY <1>2, <1>7, <3>2
  <2> QED
    BY <2>1, <2>2
<1> QED
  BY <1>1, <1>4, <1>6, <1>8 DEF BarInv

LEMMA BarStep ==
  ASSUME RoundModes = {"single"}, IInv, BarInv, [Next]_vars
  PROVE  BarInv'
<1>1. P1 \in Planes /\ planes \in [Planes -> Slot]
  BY NPlanesAssumption DEF P1, Planes, IInv, TypeOK
<1>2. ASSUME NEW cheat \in BOOLEAN, FrameStart(cheat) PROVE BarInv'
  BY <1>2, BarFrameStart
<1>3. ASSUME NEW m \in RoundModes, Prepare(m) PROVE BarInv'
  <2>1. planes'[P1].hp = PlayerHP
    BY <1>1, <1>3 DEF Prepare, Slots
  <2>2. mode' = "single" /\ pc = "loop" /\ UNCHANGED <<pc, hp_all, prev>>
    BY <1>3 DEF Prepare
  <2> QED
    BY <2>1, <2>2 DEF BarInv
<1>4. CASE Quit \/ GameOver
  <2>1. UNCHANGED <<pc, mode, hp_all, prev>> /\ pc = "loop" /\ game_state' # InGame("single")
    BY <1>4 DEF Quit, GameOver, Over, InGame
  <2> QED
    BY <2>1 DEF BarInv
<1>5. ASSUME NEW hp \in EnemyHPs, Spawn(hp) \/ SpawnDouble(hp) PROVE BarInv'
  <2>1. UNCHANGED <<mode, hp_all, prev>> /\ pc \in {"spawn", "spawn2"}
    BY <1>5 DEF Spawn, SpawnDouble
  <2>2. planes'[P1] = planes[P1] \/ planes'[P1].type = Foe
    <3>1. planes' = planes \/ planes' = NewEnemy(LowestFree, hp)
      BY <1>5 DEF Spawn, SpawnDouble, SpawnEnemy
    <3>2. \/ planes'[P1] = planes[P1]
          \/ planes'[P1] = [used |-> TRUE, type |-> Foe, hp |-> hp, tick |-> 0]
      BY <1>1, <3>1 DEF NewEnemy
    <3> QED
      BY <3>2
  <2> QED
    BY <2>1, <2>2 DEF BarInv, Exploding, Foe, Explosion
<1>6. CASE (\E volley \in BOOLEAN : Shoot(volley))
           \/ (\E firing \in SUBSET Planes : EnemyFire(firing))
  BY <1>6 DEF Shoot, EnemyFire, BarInv
<1>7. CASE \/ \E off \in SUBSET Planes, gone \in SUBSET Bullets : Tick(off, gone)
           \/ SkipPlane \/ EnterPlane \/ Crash \/ NoCrash \/ PlanesDone
           \/ Hit \/ NoHit \/ BulletsDone \/ PassDone
  <2>1. /\ UNCHANGED <<mode, hp_all, prev>>
        /\ pc # "loop" /\ pc' \notin {"shoot", "spawn", "spawn2", "fire", "tick"}
    BY <1>7 DEF Tick, SkipPlane, EnterPlane, Crash, NoCrash, PlanesDone, Hit, NoHit,
                BulletsDone, PassDone
  <2> QED
    BY <2>1 DEF BarInv
<1>8. CASE UNCHANGED vars
  BY <1>8 DEF vars, BarInv
<1> QED
  BY <1>2, <1>3, <1>4, <1>5, <1>6, <1>7, <1>8 DEF Next, Frame

(* Why "Player's plane exploded" is not the end of the round: hp_all is    *)
(* what the slot has lost, and it is zero only for an explosion with all   *)
(* the hit points of a new player (sprites.c:264-270, gamelogic.c:157).    *)
THEOREM DeathRule ==
  ASSUME RoundModes = {"single"}
  PROVE  Spec => DeathNeedsFullHp
<1>1. IInv /\ BarInv /\ [Next]_vars => BarInv'
  BY BarStep
<1>2. Spec => []BarInv
  BY Invariance, BarInit, <1>1, PTL DEF Spec
<1>3. ASSUME IInv, BarInv, FrameOfRound, [Next]_vars, pc = "tick", ExplosionEnds(P1)
      PROVE  UNCHANGED vars \/ (game_state' # game_state <=> planes[P1].hp = PlayerHP)
  <2>1. \/ UNCHANGED vars
        \/ \E off \in SUBSET Planes, gone \in SUBSET Bullets : Tick(off, gone)
    BY <1>3 DEF Next, Frame, Prepare, Quit, GameOver, FrameStart, Shoot, Spawn, SpawnDouble,
           EnemyFire, SkipPlane, EnterPlane, Crash, NoCrash, PlanesDone, Hit, NoHit,
           BulletsDone, PassDone
  <2>2. P1 \in Planes /\ planes[P1].hp \in Int /\ PlayerHP \in Int
    BY <1>3, NPlanesAssumption, HPAssumption DEF P1, Planes, IInv, TypeOK, Slot
  <2>3. hp_all = PlayerHP - planes[P1].hp
    BY <1>3 DEF BarInv, ExplosionEnds
  <2>4. game_state # Over("double")
    BY <1>3 DEF FrameOfRound, InGame, Over
  <2>5. hp_all = 0 <=> planes[P1].hp = PlayerHP
    BY <2>2, <2>3
  <2> QED
    BY <1>3, <2>1, <2>4, <2>5 DEF Tick
<1>4. IInv /\ BarInv /\ FrameOfRound /\ [Next]_vars =>
        [pc = "tick" /\ ExplosionEnds(P1)
           => (game_state' # game_state <=> planes[P1].hp = PlayerHP)]_vars
  BY <1>3
<1> QED
  BY Invariance, FramesOfRounds, <1>2, <1>4, PTL DEF Spec, DeathNeedsFullHp

-----------------------------------------------------------------------------
(* The progress of explosions                                              *)

(* A plane that explodes inside its own inner loops is at the first tick.  *)
FreshWreck ==
  pc \in {"planes", "bullets"} /\ Exploding(planes[ci]) => planes[ci].tick = 0

LEMMA ExplodedTick ==
  ASSUME NEW s \in Slot
  PROVE  Exploded(s).tick = 0
BY DEF Slot, Exploded

LEMMA DamagedTick ==
  ASSUME NEW s \in Slot, Exploding(s) => s.tick = 0, Exploding(Damaged(s))
  PROVE  Damaged(s).tick = 0
<1> DEFINE hurt == [s EXCEPT !.hp = @ - 1]
<1>1. hurt \in Slot /\ hurt.type = s.type /\ hurt.used = s.used /\ hurt.tick = s.tick
  BY DEF Slot
<1>2. Damaged(s) = Exploded(hurt) \/ Damaged(s) = hurt
  BY DEF Damaged
<1> HIDE DEF hurt
<1> QED
  BY <1>1, <1>2, ExplodedTick DEF Exploding

(* What the two collisions do to an explosion                              *)
LEMMA WreckHit ==
  ASSUME StepInv, FreshWreck, Crash \/ Hit, NEW p \in Planes, Exploding(planes'[p])
  PROVE  /\ Exploding(planes[p]) => planes'[p].tick = planes[p].tick
         /\ p = ci => planes'[p].tick = 0
<1>1. planes[p] \in Slot /\ planes \in [Planes -> Slot]
  BY DEF StepInv, IInv, TypeOK
<1>2. pc \in {"planes", "bullets"}
  BY DEF Crash, Hit
<1>3. CASE Crash
  <2>1. PICK r \in Planes, f \in Planes : CrashPair(r, f)
    BY <1>3, CrashMoves
  <2>2. ci \in {r, f}
    BY <2>1 DEF CrashPair
  <2>3. CASE p = r
    BY <1>1, <1>2, <2>1, <2>3, ExplodedTick DEF CrashPair, FreshWreck, Live, Exploding
  <2>4. CASE p = f
    <3>1. ~ Exploding(planes[p])
      BY <2>1, <2>4 DEF CrashPair, Live, Exploding, Friend, Explosion
    <3> QED
      BY <1>1, <2>1, <2>4, <3>1, DamagedTick DEF CrashPair
  <2>5. CASE p \notin {r, f}
    BY <2>1, <2>2, <2>5 DEF CrashPair
  <2> QED
    BY <2>3, <2>4, <2>5
<1>4. CASE Hit
  <2>1. planes'[p] = IF p = ci THEN Damaged(planes[p]) ELSE planes[p]
    BY <1>1, <1>4 DEF Hit
  <2>2. CASE p = ci
    BY <1>1, <1>2, <2>1, <2>2, DamagedTick DEF FreshWreck
  <2>3. CASE p # ci
    BY <2>1, <2>3
  <2> QED
    BY <2>2, <2>3
<1> QED
  BY <1>3, <1>4

LEMMA FreshStep == ASSUME StepInv, FreshWreck, [Next]_vars PROVE FreshWreck'
<1>1. CASE Crash \/ Hit
  <2>1. ci \in Planes /\ ci' = ci
    BY <1>1, CrashStep, HitStep DEF StepInv, Crash, Hit
  <2> QED
    BY <1>1, <2>1, WreckHit DEF FreshWreck
<1>2. CASE EnterPlane
  BY <1>2 DEF EnterPlane, Scanned, Live, Exploding, FreshWreck, pools
<1>3. CASE NoCrash \/ PlanesDone \/ NoHit
  BY <1>3 DEF NoCrash, PlanesDone, NoHit, FreshWreck, pools
<1>4. CASE \/ \E m \in RoundModes : Prepare(m)
           \/ Quit \/ GameOver
           \/ \E cheat \in BOOLEAN : FrameStart(cheat)
           \/ \E volley \in BOOLEAN : Shoot(volley)
           \/ \E hp \in EnemyHPs : Spawn(hp) \/ SpawnDouble(hp)
           \/ \E firing \in SUBSET Planes : EnemyFire(firing)
           \/ \E off \in SUBSET Planes, gone \in SUBSET Bullets : Tick(off, gone)
           \/ SkipPlane \/ BulletsDone \/ PassDone
  BY <1>4 DEF Prepare, Quit, GameOver, FrameStart, Shoot, Spawn, SpawnDouble, EnemyFire,
              Tick, SkipPlane, BulletsDone, PassDone, FreshWreck
<1>5. CASE UNCHANGED vars
  BY <1>5 DEF vars, FreshWreck
<1> QED
  BY <1>1, <1>2, <1>3, <1>4, <1>5 DEF Next, Frame

(* The tick of an explosion, in every step                                 *)
Moved(p) ==
  /\ Exploding(planes'[p])
  /\ planes'[p].tick = planes[p].tick + (IF pc = "tick" THEN 1 ELSE 0)

LEMMA WreckMoves ==
  ASSUME StepInv, FreshWreck, [Next]_vars, NEW p \in Planes,
         Exploding(planes[p]), planes'[p].used
  PROVE  UNCHANGED vars \/ Moved(p)
<1>1. planes[p] \in Slot /\ planes[p].tick \in Nat
  BY DEF StepInv, IInv, TypeOK, Slot
<1>2. ASSUME pc # "tick", planes'[p].type = planes[p].type, planes'[p].tick = planes[p].tick
      PROVE  Moved(p)
  BY <1>1, <1>2 DEF Moved, Exploding
<1>3. CASE Crash \/ Hit
  <2>1. planes'[p].type \in {planes[p].type, Explosion} /\ pc # "tick"
    BY <1>3, CrashStep, HitStep DEF StepInv, Crash, Hit
  <2>2. Exploding(planes'[p])
    BY <2>1 DEF Exploding
  <2> QED
    BY <1>2, <1>3, <2>1, <2>2, WreckHit DEF Exploding
<1>4. ASSUME NEW off \in SUBSET Planes, NEW gone \in SUBSET Bullets, Tick(off, gone)
      PROVE  Moved(p)
  <2> DEFINE on == [planes[p] EXCEPT !.tick = @ + 1]
  <2>1. planes'[p] = Ticked(p, off) /\ pc = "tick"
    BY <1>4 DEF Tick
  <2>2. on.tick = planes[p].tick + 1 /\ on.used = planes[p].used /\ on.type = planes[p].type
    BY <1>1 DEF Slot
  <2>3. ~ Freed(planes[p]).used
    BY <1>1, FreedStep
  <2>4. planes'[p] = Freed(planes[p]) \/ planes'[p] = on
    BY <2>1 DEF Ticked, Exploding
  <2> HIDE DEF on
  <2> QED
    BY <2>1, <2>2, <2>3, <2>4 DEF Moved, Exploding
<1>5. ASSUME NEW cheat \in BOOLEAN, FrameStart(cheat) PROVE Moved(p)
  <2>1. planes'[p] = Healed(planes[p]) \/ planes'[p] = planes[p]
    BY <1>5 DEF FrameStart
  <2>2. planes'[p].type = planes[p].type /\ planes'[p].tick = planes[p].tick
    BY <1>1, <2>1 DEF Healed, Slot
  <2> QED
    BY <1>2, <1>5, <2>2 DEF FrameStart
<1>6. ASSUME NEW hp \in EnemyHPs, Spawn(hp) \/ SpawnDouble(hp) PROVE Moved(p)
  <2>1. planes' = planes \/ (FreePlanes # {} /\ planes' = NewEnemy(LowestFree, hp))
    BY <1>6 DEF Spawn, SpawnDouble, SpawnEnemy
  <2>2. FreePlanes # {} => LowestFree \in FreePlanes
    BY LowestIsFree
  <2>3. planes'[p] = planes[p]
    BY <2>1, <2>2 DEF NewEnemy, FreePlanes, Exploding, StepInv, IInv, TypeOK
  <2> QED
    BY <1>2, <1>6, <2>3 DEF Spawn, SpawnDouble
<1>7. ~ (\E m \in RoundModes : Prepare(m))
  BY DEF Prepare, StepInv, MenuEmpty, Exploding
<1>8. ~ GameOver
  <2>1. GameOver => planes'[p] = [Freed(planes[p]) EXCEPT !.type = Friend]
    BY DEF GameOver
  <2>2. ~ [Freed(planes[p]) EXCEPT !.type = Friend].used
    BY <1>1, FreedStep
  <2> QED
    BY <2>1, <2>2
<1>9. CASE \/ Quit
           \/ \E volley \in BOOLEAN : Shoot(volley)
           \/ \E firing \in SUBSET Planes : EnemyFire(firing)
           \/ SkipPlane \/ EnterPlane \/ NoCrash \/ PlanesDone
           \/ NoHit \/ BulletsDone \/ PassDone
  <2>1. planes' = planes /\ pc # "tick"
    BY <1>9 DEF Quit, Shoot, EnemyFire, SkipPlane, EnterPlane, NoCrash, PlanesDone,
                NoHit, BulletsDone, PassDone, pools
  <2> QED
    BY <1>2, <2>1
<1> QED
  BY <1>3, <1>4, <1>5, <1>6, <1>7, <1>8, <1>9 DEF Next, Frame

(* What ExplosionsEnd rests on, for explosions of any length: every tick   *)
(* of the planes brings an explosion one nearer to its end, and nothing    *)
(* sets it back (sprites.c:252-263).                                       *)
THEOREM ExplosionsMoveOn == Spec => ExplosionsProgress
<1>1. Init => FreshWreck
  BY DEF Init, FreshWreck
<1>2. StepInv /\ FreshWreck /\ [Next]_vars => FreshWreck'
  BY FreshStep
<1>3. Spec => []FreshWreck
  BY StepInvariance, <1>1, <1>2, PTL DEF Spec
<1>4. StepInv /\ FreshWreck /\ [Next]_vars =>
        [\A p \in Planes : Exploding(planes[p]) /\ planes'[p].used =>
           /\ Exploding(planes'[p])
           /\ planes'[p].tick = planes[p].tick + (IF pc = "tick" THEN 1 ELSE 0)]_vars
  BY WreckMoves DEF Moved
<1> QED
  BY StepInvariance, <1>3, <1>4, PTL DEF Spec, ExplosionsProgress
=============================================================================
