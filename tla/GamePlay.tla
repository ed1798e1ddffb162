------------------------------ MODULE GamePlay ------------------------------
(***************************************************************************)
(* One round of the shooter: the sprite pools, the frame pipeline of       *)
(* game_loop() / game_loop_double() and the collision pass                 *)
(* (nios/ECE385_src/gamelogic.c and sprites.c).                            *)
(*                                                                         *)
(* The game CPU is one thread, so `pc' names the call of the frame that    *)
(* runs next; the collision pass is cut into one action per iteration of   *)
(* its loop bodies.  Positions, velocities and pictures are abstracted:    *)
(* whether two sprites overlap, whether one has left the screen, whether   *)
(* the frame counter is at a multiple of a firing interval, and what the   *)
(* random generator draws are choices.  What is kept is who owns which     *)
(* slot, hit points, score, and the order of every update.                 *)
(***************************************************************************)
EXTENDS Integers, FiniteSets, ScoreTable

CONSTANTS
  RoundModes,   \* the modes the menu offers: "single", "double"
  NPlanes,      \* N_PLANES, slots of the plane pool
  NBullets,     \* N_BULLETS, slots of the bullet pool
  PlayerHP,     \* PLAYER_PLANE_HP
  EnemyHPs,     \* the values of ENEMY_PLANE_HP * GAME_DIFFICULTY
  PlayerTicks,  \* frames of a player's explosion: pictures * slowdown ratio
  EnemyTicks,   \* the same for any other slot
  Volley,       \* bullets a player fires at once
  KillScore, HitScore, CrashScore,  \* PLAYER_SCORE_PER_*
  CheatCost,    \* points the HP cheat takes
  MaxScore      \* bound: the model's score saturates here

ASSUME ModesAssumption    == RoundModes \subseteq {"single", "double"}
ASSUME NPlanesAssumption  == NPlanes \in Nat /\ NPlanes >= 2
ASSUME NBulletsAssumption == NBullets \in Nat
ASSUME HPAssumption       == PlayerHP \in Nat \ {0} /\ EnemyHPs \subseteq Nat \ {0}
ASSUME TicksAssumption    == PlayerTicks \in Nat \ {0} /\ EnemyTicks \in Nat \ {0}
ASSUME ScoreAssumption    ==
  /\ KillScore \in Nat /\ HitScore \in Nat /\ CrashScore \in Nat
  /\ CheatCost \in Nat /\ MaxScore \in Nat /\ Volley \in Nat

VARIABLES
  game_state,  \* main.c's game_state; "MENU" stands for all states outside a round
  mode,        \* which of the two loops is running
  pc,          \* the step of the frame that runs next; "loop" between frames
  planes,      \* vga_planes_info
  bullets,     \* vga_bullets_info: Free, or the type of the bullet in the slot
  score,       \* player_score
  player_scores, \* the table of best scores
  hp_all,      \* the global hp_all: hit points lost, as last computed
  prev,        \* the loops' static prev_hp and prev_score
  due,         \* frame_count > next_frame_count: an enemy is due
  ci, cj,      \* the loop indices i and j of sprites_collision_detect
  pass         \* 2 while sprites_collision_detect_2p runs

vars == <<game_state, mode, pc, planes, bullets, score, player_scores, hp_all, prev,
          due, ci, cj, pass>>
pools == <<planes, bullets>>
cursor == <<ci, cj, pass>>

Planes  == 0 .. NPlanes - 1
Bullets == 0 .. NBullets - 1
Modes   == {"single", "double"}

Friend    == 0   \* vga_sprite_info_t.type: player's
Foe       == 1   \* enemy's
Explosion == 2
Free      == -1  \* a bullet slot with used = 0

(* sprites_init has just freed every slot when game_init allocates, and    *)
(* sprites_allocate takes the lowest free one: player_plane_id is always 0 *)
(* and player_plane_id1 always 1.                                          *)
P1 == 0
P2 == 1
Slots(m) == IF m = "double" THEN {P1, P2} ELSE {P1}

InGame(m)  == IF m = "double" THEN "IN_GAME_double" ELSE "IN_GAME"
Over(m)    == IF m = "double" THEN "GAME_OVER_double" ELSE "GAME_OVER"
FullHP(m)  == IF m = "double" THEN 2 * PlayerHP ELSE PlayerHP
Health(ps, m) == IF m = "double" THEN ps[P1].hp + ps[P2].hp ELSE ps[P1].hp

Cap(n) == IF n > MaxScore THEN MaxScore ELSE n
Ticks(p) == IF p = P1 THEN PlayerTicks ELSE EnemyTicks

-----------------------------------------------------------------------------
(* The sprite pools *)

Live(s)      == s.used /\ s.type # Explosion
Exploding(s) == s.used /\ s.type = Explosion

(* sprites_deallocate: type and hp survive in the freed slot.              *)
Freed(s) == [s EXCEPT !.used = FALSE, !.tick = 0]

(* "Set the plane on explosion" *)
Exploded(s) == [s EXCEPT !.type = Explosion, !.tick = 0]

(* --hp, and the explosion when it reaches zero *)
DamagedLate(s) ==   \* mutant: explodes one hit too late
  LET hurt == [s EXCEPT !.hp = @ - 1] IN
  IF hurt.hp < 0 THEN Exploded(hurt) ELSE hurt
Damaged(s) ==
  LET hurt == [s EXCEPT !.hp = @ - 1] IN
  IF hurt.hp = 0 THEN Exploded(hurt) ELSE hurt

(* n calls of sprites_allocate on the bullet pool, the loop breaking when  *)
(* the pool is full.                                                       *)
FreeBullets == {b \in Bullets : bullets[b] = Free}
Fill(n, team) ==
  [b \in Bullets |->
    IF b \in FreeBullets /\ Cardinality({c \in FreeBullets : c < b}) < n
      THEN team ELSE bullets[b]]

FreePlanes == {p \in Planes : ~ planes[p].used}

(* What the HP cheat does to a player's slot, whoever sits in it by now    *)
HealedAlive(s) == [s EXCEPT !.hp = PlayerHP, !.type = Friend]  \* mutant
Healed(s)      == [s EXCEPT !.hp = PlayerHP]

(* and to the score.                                                       *)
PenaltyUnchecked(n) == n - CheatCost  \* mutant
Penalty(n)          == IF n >= CheatCost THEN n - CheatCost ELSE 0

-----------------------------------------------------------------------------
Init ==
  /\ game_state = "MENU"
  /\ mode = "single"
  /\ pc = "loop"
  /\ planes = [p \in Planes |-> [used |-> FALSE, type |-> Friend, hp |-> 0, tick |-> 0]]
  /\ bullets = [b \in Bullets |-> Free]
  /\ score = 0
  /\ player_scores = [k \in Entries |-> 0]
  /\ hp_all = 2 * PlayerHP
  /\ prev = [m \in Modes |-> [hp |-> 0, score |-> 0]]
  /\ due = FALSE
  /\ ci = 0 /\ cj = 0 /\ pass = 1

(* game_init and game_init_double *)
Prepare(m) ==
  /\ pc = "loop"
  /\ game_state = "MENU"
  /\ mode' = m
  /\ planes' = [p \in Planes |->
       IF p \in Slots(m)
         THEN [used |-> TRUE, type |-> Friend, hp |-> PlayerHP, tick |-> 0]
         ELSE [Freed(planes[p]) EXCEPT !.type = Friend]]
  /\ bullets' = [b \in Bullets |-> Free]
  /\ score' = 0
  /\ due' = FALSE
  /\ game_state' = InGame(m)
  /\ UNCHANGED <<pc, player_scores, hp_all, prev, cursor>>

(* Esc in a round *)
Quit ==
  /\ pc = "loop"
  /\ game_state = InGame(mode)
  /\ game_state' = Over(mode)
  /\ UNCHANGED <<mode, pc, pools, score, player_scores, hp_all, prev, due, cursor>>

(* game_over and game_over_double: the score is counted, every sprite is   *)
(* freed.                                                                  *)
GameOver ==
  /\ pc = "loop"
  /\ game_state \in {Over(m) : m \in Modes}
  /\ planes' = [p \in Planes |-> [Freed(planes[p]) EXCEPT !.type = Friend]]
  /\ bullets' = [b \in Bullets |-> Free]
  /\ player_scores' = CountScore(player_scores, score)
  /\ game_state' = "MENU"
  /\ UNCHANGED <<mode, pc, score, hp_all, prev, due, cursor>>

-----------------------------------------------------------------------------
(* The frame *)

(* A rising edge of the vertical sync: the HP cheat when P is held, then   *)
(* the status bar, which recomputes hp_all only when the hit points or the *)
(* score differ from the last frame of this loop.                          *)
FrameStart(cheat) ==
  LET cheated == [p \in Planes |->
                   IF cheat /\ p \in Slots(mode) THEN Healed(planes[p]) ELSE planes[p]]
      points  == IF cheat THEN Penalty(score) ELSE score
      hp      == Health(cheated, mode)
      differs == hp # prev[mode].hp \/ points # prev[mode].score
  IN
  /\ pc = "loop"
  /\ game_state = InGame(mode)
  /\ planes' = cheated
  /\ score' = points
  /\ \/ (differs \/ points = MaxScore) /\ hp_all' = FullHP(mode) - hp
     \/ ~ differs /\ UNCHANGED hp_all
  /\ prev' = [prev EXCEPT ![mode] = [hp |-> hp, score |-> points]]
  /\ due' \in {due, TRUE}
  /\ pc' = "shoot"
  /\ UNCHANGED <<game_state, mode, bullets, player_scores, cursor>>

(* The keyboard handlers of the players alive.  Each fires a volley every  *)
(* PLAYER_BULLET_INTERVAL frames.                                          *)
Shoot(volley) ==
  LET alive == {p \in Slots(mode) : planes[p].type = Friend} IN
  /\ pc = "shoot"
  /\ bullets' = IF volley THEN Fill(Volley * Cardinality(alive), Friend) ELSE bullets
  /\ pc' = "spawn"
  /\ UNCHANGED <<game_state, mode, planes, score, player_scores, hp_all, prev, due, cursor>>

(* An enemy takes the lowest free slot; with the pool full the handler     *)
(* returns and the enemy stays due.                                        *)
NewEnemy(slot, hp) ==
  [planes EXCEPT ![slot] = [used |-> TRUE, type |-> Foe, hp |-> hp, tick |-> 0]]
LowestFree == CHOOSE p \in FreePlanes : \A q \in FreePlanes : p <= q

SpawnUntyped(hp) ==    \* mutant: leaves the type sprites_init has set
  IF due /\ FreePlanes # {}
    THEN planes' = [NewEnemy(LowestFree, hp) EXCEPT ![LowestFree].type = Friend] /\ due' = FALSE
    ELSE UNCHANGED <<planes, due>>
SpawnStillDue(hp) ==   \* mutant: does not reschedule
  IF due /\ FreePlanes # {}
    THEN planes' = NewEnemy(LowestFree, hp) /\ UNCHANGED due
    ELSE UNCHANGED <<planes, due>>
SpawnEnemy(hp) ==
  IF due /\ FreePlanes # {}
    THEN planes' = NewEnemy(LowestFree, hp) /\ due' = FALSE
    ELSE UNCHANGED <<planes, due>>

(* handle_enemy_planes_spawn *)
Spawn(hp) ==
  /\ pc = "spawn"
  /\ SpawnEnemy(hp)
  /\ pc' = IF mode = "double" THEN "spawn2" ELSE "fire"
  /\ UNCHANGED <<game_state, mode, bullets, score, player_scores, hp_all, prev, cursor>>

(* handle_enemy_planes_spawn_double, on the same pool *)
SpawnDouble(hp) ==
  /\ pc = "spawn2"
  /\ SpawnEnemy(hp)
  /\ pc' = "fire"
  /\ UNCHANGED <<game_state, mode, bullets, score, player_scores, hp_all, prev, cursor>>

(* handle_enemy_planes_firing; the _double version runs the loop twice     *)
(* over the same planes and bullets.                                       *)
EnemyFire(firing) ==
  /\ pc = "fire"
  /\ \A p \in firing : planes[p].used /\ planes[p].type = Foe
  /\ bullets' = Fill((IF mode = "double" THEN 2 ELSE 1) * Cardinality(firing), Foe)
  /\ pc' = "tick"
  /\ UNCHANGED <<game_state, mode, planes, score, player_scores, hp_all, prev, due, cursor>>

(* sprites_tick on one plane slot *)
TickedPast(p, off) ==   \* mutant: looks for the end one picture late
  LET s == planes[p] IN
  IF ~ s.used THEN s
  ELSE IF p \in off THEN Freed(s)
  ELSE IF s.type # Explosion THEN s
  ELSE IF s.tick = Ticks(p) THEN Freed(s)
  ELSE [s EXCEPT !.tick = @ + 1]
Ticked(p, off) ==
  LET s == planes[p] IN
  IF ~ s.used THEN s
  ELSE IF p \in off THEN Freed(s)
  ELSE IF s.type # Explosion THEN s
  ELSE IF s.tick + 1 = Ticks(p) THEN Freed(s)
  ELSE [s EXCEPT !.tick = @ + 1]

ExplosionEnds(p) == Exploding(planes[p]) /\ planes[p].tick + 1 = Ticks(p)

(* Planes that can be found off screen: not slot player_plane_id, which is *)
(* exempt, nor a living second player, whom sprites_limit_speed_2p has     *)
(* clamped to the screen in this frame.                                    *)
MayLeaveUnclamped(p) == p # P1 /\ planes[p].used   \* mutant
MayLeave(p)          == p # P1 /\ planes[p].used /\ planes[p].type # Friend

(* sprites_tick on the planes, then on the bullets.                        *)
Tick(off, gone) ==
  /\ pc = "tick"
  /\ \A p \in off : MayLeave(p)
  /\ planes' = [p \in Planes |-> Ticked(p, off)]
  /\ bullets' = [b \in Bullets |-> IF b \in gone THEN Free ELSE bullets[b]]
  /\ game_state' = IF ExplosionEnds(P1) /\ hp_all = 0 THEN Over("double") ELSE game_state
  /\ pc' = "scan"
  /\ UNCHANGED <<mode, score, player_scores, hp_all, prev, due, cursor>>

-----------------------------------------------------------------------------
(* sprites_collision_detect, and sprites_collision_detect_2p (pass 2)      *)

(* The outer loop skips slots that are free or exploding.                  *)
ScannedIfUsed(s) == s.used   \* mutant: explosions collide again
Scanned(s)       == Live(s)

SkipPlane ==
  /\ pc = "scan"
  /\ ci < NPlanes
  /\ ~ Scanned(planes[ci])
  /\ ci' = ci + 1
  /\ UNCHANGED <<game_state, mode, pc, pools, score, player_scores, hp_all, prev, due, cj, pass>>

EnterPlane ==
  /\ pc = "scan"
  /\ ci < NPlanes
  /\ Scanned(planes[ci])
  /\ pc' = "planes"
  /\ cj' = ci + 1
  /\ UNCHANGED <<game_state, mode, pools, score, player_scores, hp_all, prev, due, ci, pass>>

(* The type of plane i is not tested again: it may be an explosion by now. *)
Opposed(i, j) == Live(planes[j]) /\ planes[j].type # planes[i].type

(* Planes i and j overlap.  "First plane is friendly, remove second plane" *)
(* or else "Second plane is friendly, remove first plane".                 *)
Crash ==
  LET friendly == IF planes[ci].type = Friend THEN ci ELSE cj
      removed  == IF planes[ci].type = Friend THEN cj ELSE ci
  IN
  /\ pc = "planes"
  /\ cj < NPlanes
  /\ Opposed(ci, cj)
  /\ planes' = [planes EXCEPT ![removed] = Exploded(@), ![friendly] = Damaged(@)]
  /\ score' = Cap(score + CrashScore)
  /\ cj' = cj + 1
  /\ UNCHANGED <<game_state, mode, pc, bullets, player_scores, hp_all, prev, due, ci, pass>>

(* They do not overlap, or are skipped.                                    *)
NoCrash ==
  /\ pc = "planes"
  /\ cj < NPlanes
  /\ cj' = cj + 1
  /\ UNCHANGED <<game_state, mode, pc, pools, score, player_scores, hp_all, prev, due, ci, pass>>

PlanesDone ==
  /\ pc = "planes"
  /\ cj = NPlanes
  /\ pc' = "bullets"
  /\ cj' = 0
  /\ UNCHANGED <<game_state, mode, pools, score, player_scores, hp_all, prev, due, ci, pass>>

(* The points for a hit: only a live enemy earns any.                      *)
HitPointsAny(s) == IF s.hp = 1 THEN KillScore ELSE HitScore   \* mutant
HitPoints(s) ==
  IF s.type # Foe THEN 0 ELSE IF s.hp = 1 THEN KillScore ELSE HitScore

BulletKept(b)  == bullets   \* mutant: the bullet flies on
BulletSpent(b) == [bullets EXCEPT ![b] = Free]

(* Bullet j is inside plane i: the bullet goes, the plane loses a point.   *)
Hit ==
  LET s == planes[ci] IN
  /\ pc = "bullets"
  /\ cj < NBullets
  /\ bullets[cj] # Free /\ bullets[cj] # s.type
  /\ bullets' = BulletSpent(cj)
  /\ planes' = [planes EXCEPT ![ci] = Damaged(@)]
  /\ score' = Cap(score + HitPoints(s))
  /\ cj' = cj + 1
  /\ UNCHANGED <<game_state, mode, pc, player_scores, hp_all, prev, due, ci, pass>>

NoHit ==
  /\ pc = "bullets"
  /\ cj < NBullets
  /\ cj' = cj + 1
  /\ UNCHANGED <<game_state, mode, pc, pools, score, player_scores, hp_all, prev, due, ci, pass>>

BulletsDone ==
  /\ pc = "bullets"
  /\ cj = NBullets
  /\ pc' = "scan"
  /\ ci' = ci + 1
  /\ cj' = 0
  /\ UNCHANGED <<game_state, mode, pools, score, player_scores, hp_all, prev, due, pass>>

(* Two players: the same detection once more, then the frame is over.      *)
PassDone ==
  /\ pc = "scan"
  /\ ci = NPlanes
  /\ ci' = 0
  /\ IF mode = "double" /\ pass = 1
       THEN pass' = 2 /\ UNCHANGED pc
       ELSE pass' = 1 /\ pc' = "loop"
  /\ UNCHANGED <<game_state, mode, pools, score, player_scores, hp_all, prev, due, cj>>

-----------------------------------------------------------------------------
Frame ==
  \/ \E cheat \in BOOLEAN : FrameStart(cheat)
  \/ \E volley \in BOOLEAN : Shoot(volley)
  \/ \E hp \in EnemyHPs : Spawn(hp) \/ SpawnDouble(hp)
  \/ \E firing \in SUBSET Planes : EnemyFire(firing)
  \/ \E off \in SUBSET Planes, gone \in SUBSET Bullets : Tick(off, gone)
  \/ SkipPlane \/ EnterPlane
  \/ Crash \/ NoCrash \/ PlanesDone
  \/ Hit \/ NoHit \/ BulletsDone
  \/ PassDone

Next ==
  \/ \E m \in RoundModes : Prepare(m)
  \/ Quit \/ GameOver
  \/ Frame

Spec == Init /\ [][Next]_vars

(* The main loop never blocks, and the display raises the vertical sync    *)
(* sixty times a second: frames keep coming while a round runs, and a      *)
(* round that is over is wound up.  Nobody has to press a key.             *)
FairSpec == Spec /\ WF_vars(Frame) /\ WF_vars(GameOver)

-----------------------------------------------------------------------------
(* Correctness *)

Steps == {"loop", "shoot", "spawn", "spawn2", "fire", "tick", "scan", "planes", "bullets"}
States == {"MENU"} \cup {InGame(m) : m \in Modes} \cup {Over(m) : m \in Modes}
Slot == [used : BOOLEAN, type : {Friend, Foe, Explosion}, hp : Int, tick : Nat]

(* The types of the state of a round.                                      *)
TypeOK ==
  /\ game_state \in States
  /\ mode \in Modes
  /\ pc \in Steps
  /\ planes \in [Planes -> Slot]
  /\ bullets \in [Bullets -> {Free, Friend, Foe}]
  /\ score \in Nat
  /\ player_scores \in Tables
  /\ hp_all \in Int
  /\ prev \in [Modes -> [hp : Int, score : Nat]]
  /\ due \in BOOLEAN
  /\ ci \in 0 .. NPlanes
  /\ cj \in Nat
  /\ pass \in {1, 2}

(* The collision pass tests --hp == 0, not <= 0: it is right only if every *)
(* plane that is not exploding still has a hit point, in every slot, after *)
(* any run of hits, crashes and cheats (sprites.c:337, 361, 394).          *)
LiveHasHp == \A p \in Planes : Live(planes[p]) => planes[p].hp > 0

(* The picture index of an explosion never passes the NULL that ends       *)
(* explosion_sequence, although the test is for that one entry only        *)
(* (sprites.c:252-263).                                                    *)
ExplosionInBounds ==
  \A p \in Planes : Exploding(planes[p]) => planes[p].tick < Ticks(p)

(* A plane on the players' side sits in a player's slot: an enemy that     *)
(* took over the slot of a dead player never fights for the players.       *)
FriendsInPlayerSlots ==
  \A p \in Planes : Live(planes[p]) /\ planes[p].type = Friend => p \in Slots(mode)

(* A living player's plane is lost to an explosion or to the end of the    *)
(* round, never to the off-screen rule (sprites.c:237-243).                *)
PlayerLostOnlyByExplosion ==
  [][\A p \in Planes :
       Live(planes[p]) /\ planes[p].type = Friend /\ ~ planes'[p].used
         => game_state' = "MENU"]_vars

(* Within a round the dead stay dead: neither the cheat nor an enemy       *)
(* spawned into the slot makes a player's plane of it again.               *)
NoRevival ==
  [][\A p \in Planes :
       ~ (Live(planes[p]) /\ planes[p].type = Friend)
       /\ Live(planes'[p]) /\ planes'[p].type = Friend
         => game_state = "MENU"]_vars

(* Points are earned from enemies only: whenever the score rises, a plane  *)
(* that was a live enemy lost a hit point or exploded in that step.        *)
ScoreEarned ==
  [][score' > score =>
       \E p \in Planes :
         /\ Live(planes[p]) /\ planes[p].type = Foe
         /\ planes'[p].hp < planes[p].hp \/ Exploding(planes'[p])]_vars

(* Both detections of a two-player frame share one bullet pool: a bullet   *)
(* that takes a hit point is gone with it.                                 *)
OneBulletOnePoint ==
  [][pc = "bullets" => \A p \in Planes :
       planes'[p].hp < planes[p].hp =>
         /\ planes'[p].hp = planes[p].hp - 1
         /\ \E b \in Bullets : bullets[b] # Free /\ bullets'[b] = Free]_vars

(* The second player's spawn handler never adds an enemy: the first has    *)
(* either rescheduled or found the pool full (gamelogic.c:260, 1018).      *)
OneEnemyPerFrame == [][pc = "spawn2" => UNCHANGED planes]_vars

(* The end of a round, and the score it is wound up with *)
Counted == game_state \in {Over(m) : m \in Modes} /\ game_state' = "MENU"

(* The table holds the best scores ever reached, in order, each round      *)
(* counted once with the score it ended with (gamelogic.c:402-436).        *)
TableKeepsBest == [][Counted => BestOf(player_scores', player_scores, score)]_vars

(* A score that does not reach the last entry leaves the table alone; any  *)
(* other is in the table from then on (gamelogic.c:417-430).               *)
TableTakesReached ==
  [][Counted =>
       IF score >= player_scores[NScores - 1]
         THEN \E k \in Entries : player_scores'[k] = score
         ELSE UNCHANGED player_scores]_vars

(* The crashes CrashHasFriend does not expect are these and no others:     *)
(* plane i exploded earlier in its inner loop, and takes on a live enemy.  *)
OnlyWrecksCrashFriendless ==
  [][pc = "planes" /\ planes' # planes /\ Friend \notin {planes[ci].type, planes[cj].type}
       => Exploding(planes[ci]) /\ Live(planes[cj]) /\ planes[cj].type = Foe]_vars

(* A player loses a hit point in a crash only together with a live enemy,  *)
(* which explodes: no crash sets the players against each other, and no    *)
(* wreck costs a player anything (sprites.c:315-366).                      *)
CrashTakesEnemyAlong ==
  [][pc = "planes" => \A p \in Planes :
       Live(planes[p]) /\ planes[p].type = Friend /\ planes'[p].hp < planes[p].hp
         => \E q \in Planes \ {p} :
              Live(planes[q]) /\ planes[q].type = Foe /\ Exploding(planes'[q])]_vars

(* A player's plane explodes with no hit point left, and an explosion gets *)
(* hit points from nothing but the cheat at the start of a frame.          *)
WrecksHaveNoHp ==
  [][\A p \in Planes : planes[p].used /\ Exploding(planes'[p]) =>
       /\ Live(planes[p]) /\ planes[p].type = Friend => planes'[p].hp = 0
       /\ planes'[p].hp > planes[p].hp => pc = "loop"]_vars

(* Where only single rounds are played, the end of slot 0's explosion ends *)
(* the round exactly when the slot has all the hit points of a player, as  *)
(* if none had been lost (sprites.c:264-270, gamelogic.c:110, 157).        *)
DeathNeedsFullHp ==
  [][pc = "tick" /\ ExplosionEnds(P1)
       => (game_state' # game_state <=> planes[P1].hp = PlayerHP)]_vars

(* The main loop may see a round as Round says: no state is skipped, and   *)
(* none comes back (main.c:77-113, sprites.c:264-270).                     *)
RoundSeen == INSTANCE Round WITH state <- game_state
RoundContract == RoundSeen!Spec

(* An explosion is never set back: the collision pass that started it may  *)
(* go on crashing it, which leaves its index at zero, and after that each  *)
(* tick of the planes moves it on by one (sprites.c:252-263, 316, 337).    *)
ExplosionsProgress ==
  [][\A p \in Planes : Exploding(planes[p]) /\ planes'[p].used =>
       /\ Exploding(planes'[p])
       /\ planes'[p].tick = planes[p].tick + (IF pc = "tick" THEN 1 ELSE 0)]_vars

(* Every explosion comes to its end and frees its slot, whatever else      *)
(* collides with it meanwhile.                                             *)
ExplosionsEnd == \A p \in Planes : Exploding(planes[p]) ~> ~ Exploding(planes[p])

-----------------------------------------------------------------------------
(* What comments of the code say, and the code does not do                 *)

(* "Player's plane exploded": the end of the single player's explosion     *)
(* ends the round (sprites.c:264-270).                                     *)
DeathEndsRound ==
  [][pc = "tick" /\ mode = "single" /\ ExplosionEnds(P1)
       => game_state' # InGame("single")]_vars

(* "Avoid friendly fire": of two planes that crash one is on the players'  *)
(* side (sprites.c:315, 325, 349).                                         *)
CrashHasFriend ==
  [][pc = "planes" /\ planes' # planes
       => Friend \in {planes[ci].type, planes[cj].type}]_vars

(* player_scores has five entries (main.h:13): count_score writes one of   *)
(* them (gamelogic.c:417-430).                                             *)
ScoreEntersTable ==
  [][Counted => Stopped(player_scores, score, NScores - 1)]_vars
=============================================================================
