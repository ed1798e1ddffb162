# The DE2-115 VGA shooter, in TLA+

This directory specifies the software of a vertical shooter for the DE2-115
board: a Nios II CPU that runs the game, a second one that reads a USB keyboard
into shared memory, and SystemVerilog for the display, sound and Ethernet. The
models are translated from the C sources under `nios/`; paths below are
relative to `nios/ECE385_src/` unless they say otherwise.

## The system

| part | state | operations | how it interacts |
|---|---|---|---|
| game rounds: `gamelogic.c`, `sprites.c` | pools of planes (8) and bullets, hit points, score, `hp_all`, frame counters, table of five best scores | `game_init`, `game_loop`, `game_over` and their `_double` twins; spawn, fire, tick, two collision passes | called by the main loop; ends a round by writing `game_state`; draws by writing sprite registers; restarts sounds |
| main loop and screens: `main.c`, `main_menu.c`, `scoreboard.c` | `game_state` (18 values), menu option, remembered key codes, `scoreboard_shown` | one `case` per state | reads the key codes; polls the two HTTP requests; calls the rounds |
| HTTP requests: `httpc.c` | `processing`, `error`, `len`, `request_start` | send, poll with timeout, two callbacks | lwIP calls back from `eth_loop()`, on the same thread (`NO_SYS`), between two cases of the main loop |
| USB keyboard CPU: `nios/ECE385_usb_src/main.c` | enumeration state, last report | enumerate, poll, hot plug | stores two key codes, one after the other, into memory the game CPU reads |
| scroll and frame pacing: `vga.c` | framebuffer offset, picture line, an edge detector on the vertical sync | `vga_scroll` | shares the sync with `game_loop`, which has an edge detector of its own |
| audio: `audio.c` | position in the music and in two effects | timer interrupt | preempts the main loop, which resets the effects |
| Ethernet: `ethernet.c` | one receive and one send descriptor and buffer, link state | `eth0_init`, `eth_loop`, `eth0_tx` | reads the PHY over the MDIO master, starts the DMA controllers, feeds lwIP |
| MDIO master: `rtl/lantian_mdio/` | clock divider, frame state, read register | a load or a store, 32 bits long on the wire | holds the CPU with `waitrequest`; shares one line with the PHY |
| display and other hardware: `rtl/` | pixel counters, sprite registers, HPI interface | per clock | the vertical sync; register windows of the CPUs |

What is hard in it is not parallelism (the game is one thread, with one
interrupt and one other CPU) but order and memory of the past: values computed
early in a frame and used late, variables that are static and outlive a round
or a screen, slots that change owner, a request struct shared by attempts that
overlap, two stores that another CPU sees one by one, with two loads, and hardware that goes on between
two loads of the same register. `PROJECT.json` lists these
hazards line by line, each with the properties that cover it or the reason why
none does.

What makes each part correct:

- rounds: hit points, explosions and slots stay consistent; only players own
  players' planes; points are earned from enemies; every explosion ends; the
  table keeps the best scores.
- requests: whoever waits is told in the end, is told of a failure when nothing
  has answered, and never waits for a connection that is gone.
- screens: no screen is left by a key of an earlier visit, and what else is
  remembered of one acts at most once, at the first look of the next; a result is
  always shown; no screen loads forever.
- keyboard: a keyboard that stays is found and polled; what is polled was
  configured; what it reports, and nothing else, reaches the game.
- scroll: every line shown comes from the right line of the picture, and a frame
  is counted once.
- sounds: an effect is never read past its end, and ends.
- network: the PHY has the configuration that was asked for, an access of its
  registers is one atomic access, a frame is handed on once and whole, and the
  receiver goes on after it.

## Modules

| module | what it models |
|---|---|
| `ScoreTable` | `count_score` as a function on tables, and what it should keep (`BestOf`) |
| `GamePlay` | the rounds of both modes, on shared pools; implements `Round` |
| `Round` | the contract of a round: begun, left or lost, wound up |
| `MCGamePlay` | its instances for TLC |
| `HttpRequest` | the contract of one request: an abstract specification of four variables |
| `Httpc` | `httpc.c`, the endings lwIP can produce, and the screen that uploads a score; implements `HttpRequest` |
| `Keyboard` | the contract of the shared key codes: two stores per report, seen one by one |
| `Screens` | the main loop, menu, scoreboard and upload; composes two instances of `HttpRequest` with `Keyboard` and `Round` |
| `MCScreens` | its instances for TLC |
| `UsbHost` | the USB CPU, its controller and a keyboard that comes and goes; implements `Keyboard` |
| `MCUsbHost` | its instance for TLC |
| `RegisterAccess` | the contract of a load or store of a PHY register: one atomic access |
| `Mdio` | the MDIO master, clock by clock, with the CPU's bus and the PHY; implements `RegisterAccess` |
| `Ethernet` | the network driver with two DMA controllers, on top of `Mdio` |
| `MCEthernet` | its instance for TLC |
| `FrameLoop` | background scroll, edge detectors of the sync, audio interrupt, display |
| `GamePlayProofs`, `HttpcProofs`, `ScreensProofs`, `UsbHostProofs`, `MdioProofs`, `EthernetProofs`, `FrameLoopProofs` | proofs about the module they are named after |
| `ConsoleProofs` | the USB CPU and the screens side by side, and proofs about the two together |

Four abstract specifications join the parts. `Screens` uses `HttpRequest`,
`Keyboard` and `Round` where the program has `httpc.c`, the shared memory and
the rounds; `Httpc`, `UsbHost` and `GamePlay` are proved to implement them, and
`Screens` to use them as they allow. `Ethernet` uses the whole of `Mdio`, which is
proved to implement `RegisterAccess`. `ConsoleProofs` puts `UsbHost` in the place
of `Keyboard`.

### GamePlay

`planes` and `bullets` are `vga_planes_info` and `vga_bullets_info`. A plane
slot keeps `used`, `type`, `hp` and, as `tick`, the `frame_created` of an
explosion; `sprites_deallocate` leaves type and hp behind, as the code does. A bullet
slot is `Free` or a bullet of one side. `pc` names the call of the frame that
runs next: `FrameStart` (cheat, status bar), `Shoot`, `Spawn`, `SpawnDouble`,
`EnemyFire`, `Tick`, then one action per loop body of the collision pass
(`SkipPlane` to `BulletsDone`), with `PassDone` starting the second pass of two
players. `Prepare`, `Quit` and `GameOver` are the calls outside a frame.

Choices stand for positions and pictures (which planes and bullets overlap or leave
the screen), the frame counter (which interval has elapsed) and the random
generator. Of geometry one fact is kept: a living player has just been clamped
to the screen. The score saturates at `MaxScore`; at the bound the status bar
may or may not see a difference, and the cheat takes points off the bound. Slots 0 and 1 are the players' because
`sprites_init` frees the pool just before `sprites_allocate` takes the lowest
slot. The element that `count_score` may write after its table is not part of
any variable of the model.

### HttpRequest, Httpc

A request is a struct that every attempt uses again. `Httpc` keeps its
`processing`, `error` (whether it is `ERR_OK`) and `len`, the time since the
send, and for each connection of lwIP whether it is open and how much it has
received. `SendRequest` is `httpc_send_request` with the two fields its callers
clear before it. `Endings` lists the pairs of `httpc_result_t` and `err_t` with which
`httpc_close` is called; `RequestFinish` looks only at the second. `Return` is a screen left by Esc and
entered again, which sends while an older connection is open. `answered` and
`complete` are history for the properties.

`HttpRequest` is what a screen may rely on: a send fails at once or opens a
connection; any open connection may end the wait at any time, with any outcome;
an overdue request is given up when it is looked at.

### Screens

Each action is one iteration of `while(1)` in one state, or, where the state
looks for a key, one load of a key slot: `enter_pressed`, `r_pressed` and
`esc_pressed` load the slots one after the other while the other CPU stores.
`loads` counts those loaded without having met the key; `Sought` and `Slot` are the
code and the slot of the next one. The state that waits for Enter or R loads both slots for
the one and then for the other. The menu and the scoreboard load slot 0 once. `keycode` are slots 0
and 1 of the shared memory (nothing writes the others), and change as
`Keyboard` says: `FirstKey` and `SecondKey` are the two stores of a report. `prev` holds the two static
variables `prev_keycode`; `seen` is history: which commands this visit of the
menu or the scoreboard has read, and whether it has looked at all. A round is `IN_GAME` until Esc or
a frame ends it, as `Round` says; either kind of round may end with
`GAME_OVER_double` (`sprites.c:268`). Time passes at any moment; the network acts
between iterations, as `eth_loop()` does. A key code is a byte; all but those of Enter, R,
Esc, the arrows, D and A mean nothing to a screen.

### Keyboard, UsbHost

`pc` names the place in `main()` of the USB CPU that runs next; every action
whose guard fails goes to `hotplug`, the label `USB_HOT_PLUG`. The nine steps
of the enumeration share one shape (send a list of transfers, wait for the
message flag and resend, wait for the message, look at the control byte, retry)
and one set of actions; `Steps` says what each step asks the keyboard for. The
first differs in two ways the model keeps: it has no retries, and it moves the
keyboard to a new address. Before the step of the configuration a descriptor is
written and its address put into the pointer to the current list
(`main.c:411-419`): the list `info`.

The controller has one list (`td`), one message (`msg`), which a later one
overwrites, the control byte and the word at `0x051e`, where a poll puts the
first two codes and where the lists of the enumeration have a pointer
(`ListWord`). The keyboard is absent, attached, reset, addressed or configured,
may be pulled out or plugged in before any step, and understands only the lists
of its state. A list it does not understand may end with an error, with a
message, or not at all; it is not taken away, so a keyboard plugged in later may
still answer it. `wait` is `wait_cycle`; all counted waits are tested against
`0x100`. `UsbGetRetryCnt` keeps a count of its own, which the model adds to the
one of the caller: both end in one more retry or in giving up.

`enumerated` and `reported` are history: a keyboard has accepted its
configuration, a report of it has been stored, since the last reset.

### RegisterAccess, Mdio

`counter` divides the clock; `mdc` is high in its lower half. `state_current` of the
source is `access` (the kind of frame) and `bit` (its number, from `PREP` = 0
to `DONE`). `Driving` and `mdio_out` follow the state and the bus without a
latch, as in the source. The PHY takes the line when `mdc` rises and hands out
the next bit after it; it is spared the preamble but needs one released bit
before a frame (`idle`). The bus keeps a request until `waitrequest` falls, and
the CPU's next request comes a clock later at the earliest, when the state
machine has left `DONE`: one load or store is one instruction. `NoContention`
speaks of the rises of `mdc`, where both sides sample. After the rise in the
turnaround of a read the PHY may have taken the line while the master still drives
its second bit (`lantian_mdio.sv:390`); of that high half nothing is claimed.

### Ethernet

`pc` names the statement that runs next; a load or a store of a PHY register
starts in one action and ends in another, so the hardware runs on meanwhile.
`|=` is a load and a store. `owned` and `damaged` are the two bits of the
receive descriptor that `alt_avalon_sgdma_check_descriptor_status` looks at; the
controller moves through `waiting`, `writing`, `finishing` (the descriptor is
written back, the busy bit still set) and `idle`. `Start` is
`alt_avalon_sgdma_do_async_transfer`, which does nothing when the controller is
busy; `Send` and `Sent` are the two waits of its synchronous sibling. A frame is
known by what the buffer holds: nothing new, a part of it, a whole one, a
damaged one. `Input` may answer a frame before it returns, as lwIP does with ARP
and TCP; `Link` may send when the link comes up, since `netif_set_link_up`
(`ethernet.c:74`) announces the address and asks for one, before the descriptor
is checked; `Timeouts` may send, too.

### FrameLoop

The main loop load by load. `vga_scroll`, `game_loop` and `game_loop_double`
each load the sync once in the condition and once more after the frame's work
(`Edge`, `Remember`), and the display (`Display`) and the interrupt
(`audio_interrupt`) act between any two actions. `framebuffer` says for each
row which line of which picture was last copied there; `screen` is what the
display shows of it with the offset register (`VGA_RealDrawY`). `Collide` sets
the sounds back as the collision pass does. `seen` is history: who has seen an
edge since the signal rose.

## Runs

| run | question | bounds |
|---|---|---|
| `game_single` | hit points, explosions, score table and the end of explosions, over rounds without end | 3 planes, 1 bullet, player and enemy with 2 hit points, explosions of 3 and 2 frames, a table of 2 |
| `game_double` | slots and ownership, points, both collision passes | the same with 2 players, 1 enemy slot beside them, 2 bullets |
| `game_death`, `game_friendly_fire`, `game_score` | comments the code contradicts: see Findings | as `game_single` |
| `upload` | the contract, no success from silence, no endless wait | 2 connections, a timeout of 2 ticks, 2 pieces of content each |
| `upload_result` | success only for a transfer that succeeded | the same |
| `screens` | commands, results and loading over all states | one connection per request; five reports: nothing, Enter, R, Esc, and Right with Enter beside it |
| `release` | a release that is awaited | the same |
| `usb_host` | the enumeration, the poll and the hot plug, with late and lost messages | the nine steps of the source; waits of 3 looks, one more look for insertion and removal; three reports |
| `ethernet` | configuration, accesses, frames received and sent, the link | a divider of 4, two bits of PHY address, four registers of three bits |
| `frame_loop` | picture, edges and sounds | 3 rows, a picture of 5 lines, music of 2 samples, effects of 1 and 2 |

Why the bounds are enough to matter. Three plane slots hold two crashes of one
plane in one inner loop, a player's slot taken over by an enemy, and a full
pool; two hit points give a hit that hurts and one that destroys. One bullet
fills its pool; with two a plane is hit twice in a pass. A table of two shows
insertion, shift and drop. Two connections are an attempt and the late end of
the one before; a third only repeats this, since the struct cannot tell them
apart. Two ticks let an answer come before, at and after the timeout. Every
screen looks for one code in either slot, or at slot 0, so one report for each command
reaches every transition; the pair, with Enter alone before or after it, moves
Enter from slot to slot in both directions, before, between and after the loads.
A wait of three looks can end before, at and after a message and a removal. Four
registers are the ones the driver uses; three bits hold the bit it sets, one
that must survive and the link; with a divider of 4 a request can fall into
each phase of `mdc`. Three rows and five lines wrap at different times and come
round to the same phase only after fifteen scrolls, all of which are reached. An effect
of two samples can be reset before, between and after them. What the small
sizes leave open the proofs close: they hold for every size.

### Fairness

`game_single`: `WF(Frame)` and `WF(GameOver)`. The main loop never blocks and
the display raises the sync sixty times a second. No key press is assumed.
`upload`: `WF` of the two states of the main loop that poll and report, and of
the clock. `screens`: `WF` of the main loop and of the clock. Nothing is assumed
of the network or the player in any run, so the liveness properties hold with a
server that is silent; `WaitEnds` says explicitly that a player who leaves and
re-enters the screen forever starts the wait over forever.

`usb_host`: `WF(Host)`, as the CPU runs alone and never blocks, and `WF` of the
two ways the controller finishes a list the keyboard understands. That a list
fails, or that anybody plugs in or pulls out a keyboard, is not assumed.
`KeyboardFound` and `ReportArrives` therefore allow for a CPU that gives up
again and again: the code has no fairness of its own that rules out a controller
which answers too late each time.
`ethernet`: `WF` of the program, the clock, the bus, and of what hardware
finishes once it has begun (a transfer, the reset of the PHY). A reset that
never ends would hold the program at `ethernet.c:141`, before the main loop: the
code has no limit there, and the data sheet is what promises its end. Frames and the link are not promised.
`frame_loop`: `WF(audio_interrupt)`: the timer is periodic and nothing masks it.

Deadlock is checked in every run: the main loop can always go on.

## Proofs

All theorems hold for all values of the constants under the named assumptions
of the modules (pool sizes, hit points, explosion lengths, timeout and so on
are positive or natural numbers; at least two plane slots).

`GamePlayProofs`: `TypeCorrect`, `LivePlanesHaveHp`, `ExplosionsInBounds`,
`FriendsSitInPlayerSlots`. The inductive invariant is
`IInv == TypeOK /\ PoolOK /\ CursorOK`. `LiveHasHp` alone is not inductive in a
useful way because the same action disturbs hit points, type and picture of one
slot at once: `PoolOK` states all three slot by slot (`SlotOK`), so that each
operation on a slot (free, explode, damage, heal, tick) needs one lemma, and
each action of `Next` applies these lemmas to the slots it touches. `CursorOK` says that
inside the inner loops the outer index is a slot, without which a hit could
write outside the pool. The key fact of `DamagedOK` is that a positive number
less one is positive or zero, so the test for zero is exact; for a plane that
is exploding already nothing is claimed of `hp`, which the code indeed lets
fall below zero.

What a step of `GamePlay` may never do is proved in the same module: `DeadStayDead`,
`PlayersExplodeFirst`, `PointsAreEarned`, `BulletsHitOnce`, `OneSpawnPerFrame`,
and for the score table `TableIsBest`. The invariant is `StepInv == IInv /\
MenuEmpty /\ SpawnSettled /\ InnerLoop /\ Ordered(player_scores)`. Outside a
round the pools are empty (`MenuEmpty`), otherwise a round could begin with
planes of the last one; after the first spawn handler of a frame no enemy is due
any more, unless there is no slot for one (`SpawnSettled`); in the inner loops
plane *i* is in use, and if it has become an explosion the loop is past both
players (`InnerLoop`); the table is in order, which is why inserting by shifting
keeps the best scores.

Five more theorems say exactly what happens where a comment of the code is
wrong, so that the three findings of the rounds are more than one
counterexample each. `DeathRule`: where only single rounds are played, the end of
the explosion in the player's slot ends the round exactly when that slot has
all the hit points of a player. Its invariant `BarInv` says that `hp_all` is
what the slot had lost at the last status bar. How a wreck comes to have them,
`WrecksAreEmpty` says: a player's plane explodes with none, and only the cheat
gives any to an explosion. `WrecksGoOnCrashing`: a
crash without a friendly plane is one of plane *i* after it has exploded in the same
inner loop, with a live enemy. `CrashesTakeEnemies`: even so, a player pays for
a crash only when an enemy explodes with it. `TableTakesIt`: a score that
reaches the last entry is in the table, any other leaves it alone.
`RoundsKeepContract`: both kinds of rounds are rounds in the sense of `Round`.
`ExplosionsMoveOn` is the half of `ExplosionsEnd` that holds step by step: no
collision sets an explosion back and each tick moves it on. It needs that an
explosion a collision has begun in this pass is at its first picture
(`FreshWreck`).

`HttpcProofs`: `BusyRequestsHaveConnections`, `SilenceIsFailure`,
`RequestKeepsContract`. The inductive invariant is
`IInv == TypeOK /\ BusyHasConnection /\ Settled`; `Settled` says that a request that is
over without an error has been answered, and that a screen about to report has
a request that is over. The last is why an answer between the poll and the
report cannot produce a success from silence. `RequestKeepsContract` maps
`failed` to `error`, `overdue` to `elapsed >= Timeout` and `open` to the set of
open connections: every step of `Httpc` is a step of `HttpRequest` or leaves
its variables alone.

`ScreensProofs`: `ScreensTyped`, `CommandsOfThisVisit`. The inductive invariant adds
to the types that the menu can only remember Enter, and the scoreboard Esc, while
it is shown and after having seen that key (`MenuRemembers`, `BoardRemembers`). A
Right, a Left or an R is different: the code does carry it over, if it was held
when the visit before ended, and it acts when the next visit finds another code. What
`CommandsGiven` says of these is that this happens in the first look or not at
all; from then on what is remembered has been read in this visit (`MenuCarries`,
`BoardCarries`).
`ContractsUsed`: every step of the screens is a step of each contract or leaves
its variables alone. `OnlyReportedKeysAct` needs that each slot holds a code
some report has in that slot (`SlotsReported`), although the pair may be no
report at all. `ReleaseMissedOnlyByMove` says when the finding `release` can happen: the
last iteration of the wait has found no Enter in slot 0, and Enter either is
on its way to slot 1, which is not written yet, or has come to slot 0 after
that load. It rests on the slots being the report outside the two stores
(`SlotsFollow`). `EnterIsHeld` is the other side: while the keyboard goes on reporting the
same keys, Enter among them and both stored, the wait does not end.
`ShownBoardsAreOver`: on no visit is the scoreboard
shown as loaded while its request is waited for.

`UsbHostProofs`: `TypeCorrect`, `PolledKeyboards`, `PhantomsEnd`,
`CodesKeepContract`. A message may belong to any list that was sent before, so
that a keyboard was configured cannot follow from the message. It follows from
the control byte: between sending a list and judging it the controller has that
list or none (`ListOwned`), and sending makes the byte `active`, so an `ok`
speaks of the current step (`ConfiguredOK`). `PhaseOK` says which part of the
code runs in which step, `ReportedOK` that after a report the buffer of the poll
holds reports only.

`ConsoleProofs`: `ConsoleKeepsBoth`, `PhantomsCommandNothing`,
`ReleaseMissedInMotion`, `EnterIsHeldEndToEnd`, `ConsoleShows`. A step of the console is a step of the USB
CPU and its surroundings, or one of the game CPU and its. The screens are
instantiated with the reports the USB CPU can store, words of a transfer list
among them, and with `half` for "between the two stores, and the second changes
something". `ConsoleKeepsBoth` is the step-by-step argument that neither leaves its
specification, after which all theorems of both apply; the others draw
conclusions that need both: a word taken from a transfer list reaches the
screens but is never a command.

`MdioProofs`: `AccessesAtomic`, `LineAgreed`, `FramesKeptApart`, for every
divider and width. `LockStep` ties the PHY to the master: within a frame the
PHY has heard one bit fewer than the master's state until `mdc` rises, and then
as many. `HeadHeard` and `DataHeard` say that these bits are the kind, the
address and the data on the bus, `Captured` that the bits already captured are
those of the word the PHY sends. The access takes effect at the rise that completes
the address (read) or the data (write). `Released`: the PHY has seen a
released bit by the time `mdc` is high before the first bit of a frame.

`EthernetProofs`: `DriverTypes`, `DriverConfigures`, `FramesKept`,
`DamageEndsReception`, and `DriverUsesBus`: every step of the driver is a step
of `MdioSpec` or leaves the bus alone, so the theorems of `MdioProofs` hold for
it and are used: `DriverConfigures` needs that a load returned the word of the
register and a store wrote it. Its invariant follows the registers of the PHY
through the three read-modify-writes and the reset. `FramesKept` rests on who
holds the receive buffer (`BufferInv`): the controller while it owns the
descriptor, the frame in it until it is taken, then the program until it
starts the receiver again.

`FrameLoopProofs`: `FrameTypes`, `PictureKept`, `PicturesUpright`, `EdgesOnce`. The
invariant of the picture (`RoundInv`) says that the rows of the screen are
lines of the background that follow each other but for at most one seam, and
that the next line to copy belongs above the first row, or is that row's own as
long as there is no seam: so the one seam is the first line of a round, shown
twice. `PaintInv` keeps the other pictures at row 0. `EdgeInv`: who has seen the
edge of this frame remembers the signal as high, or has not come to its second
load, or the signal is low by now.

### Liveness

The prover does no ENABLED, and temporal reasoning only by propositional logic
over the steps. Some liveness is proved all the same, from fairness with the
enabling condition written out: "either the action happens again and again, or
it is again and again in a state where it is not due". The states in which it is
due are predicates beside the proofs (`LoopDue` and `ClockDue` in `Served`,
`AtFlag` in `HostServed`, `ProgramDue` in `Running`, `Answerable` in the `Served` of
`HttpcProofs`), each chosen inside the enabled states, which TLC confirmed on
the instances of the runs. So `FairSpec` implies these hypotheses, with two exceptions, both
about a clock. That no access of the MDIO bus goes on for ever (the third
conjunct of `Running`) follows only by counting up to the length of a frame,
that the time since a send reaches the timeout (the second conjunct in
`HttpcProofs`) only by counting up to it. TLC does these counts.

- `ResultsShown`: `ResultShown` under `Served`. The upload moves from state to
  state; while it waits, either the answer or the timeout is in time.
- `WaitsEnd`: `WaitEnds` of `Httpc`, for any number of connections that end late.
- `BoardsLoad`: `BoardLoads` under `Served`, or else the player asks again for
  ever, each time a connection is opened, and none is ever closed. With lwIP's
  finitely many connections that is impossible, but the prover cannot count
  them; TLC does (`screens`).
- `PollAnswerComes`: the poll's wait without limit ends, or the keyboard stays
  away for good. `Host` and the keyboard alternate over resent lists, and an
  answer stays until the wait sees it.
- `DriverRuns`, `InitialisationEnds`, `LoopComesRound`: no wait of the network
  driver is a dead end. `ReceiverComesBack` and `LinkIsFollowed` rest on them: a good frame
  is followed through the loop body to the restart of the receiver, and a
  link that stays is loaded, compared and told to the stack.

Every safety property of a passing run is proved for all values of the
constants; `ResultShown`, `WaitEnds`, `ReceiverRestarts` and `LinkFollows` under
the hypotheses above. Model-checked only is what needs counting under fairness:
that an explosion or a sound with pictures or samples left comes to its end
(`ExplosionsEnd`, `SoundsEnd`), that a counted wait is exhausted
(`KeyboardFound`, `ReportArrives`, the rest of `PollWaitEnds`), that a clock
reaches its limit, and the last step of `BoardLoads`.

## Findings

- `game_death`: the end of the player's explosion does not end a single-player
  round unless `hp_all` happens to be 0, a value of the start of an earlier
  frame that counts hit points lost (`DeathRule`).
- `game_friendly_fire`: after a crash has turned plane *i* into an explosion,
  the inner loop goes on crashing it with enemies, and pays for it; there is no
  other cause (`WrecksGoOnCrashing`).
- `game_score`: a score below all entries is written after the end of the table,
  and nothing else is lost by it (`TableTakesIt`).
- `upload_result`: a failed transfer that lwIP closes without an error of its
  own is shown as a successful upload.
- `release`: a key that moves from one slot to the other while the slots are looked
  at looks like the release of a held key: a report that moves Enter to slot 1
  is half written, or Enter comes to slot 0 after this was passed. No other
  order of loads and stores ends the wait early (`ReleaseMissedInMotion`), and an Enter
  that stays where it is, is not missed (`EnterIsHeldEndToEnd`).

Three more facts came up in the models of the hardware's side; no line of the
repository says otherwise, so they are stated as what the code does.

- A damaged frame ends the reception for good (`DamageIsFinal`):
  `ethernet.c:81` takes the error for a descriptor that is not done yet, and
  nothing else starts the receiver.
- A receiver that is still busy when it is started again refuses, and nobody
  looks at the answer (`ethernet.c:163`). `ReceiverRestarts` allows for it. The
  controller writes the descriptor back a few clocks before it clears its busy
  bit, and the program needs longer than this to copy a frame; the model has no
  clock that could say so.
- A frame can be missed: when the first of the two loads of the sync finds it
  low and the second high, the edge is remembered without having been seen; and
  the signal is low for two lines only, 64 microseconds in all, which may pass
  between two turns of the loop. Scroll and game may miss different frames. What
  holds is that none is counted twice (`OncePerFrame`).

## Not modelled, and why

Most of the repository's lines are not its own program. Of some 138 000 lines
the game, the USB CPU, the network driver and the MDIO master have about 6 500;
the rest is the lwIP stack, Cypress and Altera headers and drivers, the
generated BSPs and system (`system.h`, `ip/`), the vendored Ethernet core and
arrays of pictures, sounds and glyphs (`resources/`, 20 905 lines of `chinese.c`
alone). The share of all lines that the models stand for is therefore small and
stays small; of the program's own files with state, each is modelled.

- Drawing, fonts and colours; positions and speeds, which the runs replace by
  choices; the red LEDs (`gamelogic.c:164`).
- The 4096-byte buffer of an answer and lwIP's memory pools, whose
  overflow depends on sizes and not on the order of events.
- The data toggle of the poll (`main.c:559` of the USB CPU, flipped for each poll
  and not for each answer): what a keyboard does with a wrong toggle is the
  keyboard's, and the model lets it answer or not.
- `eth_init`'s calls of lwIP, the registration of the interrupt and
  `alt_avalon_sgdma_open`: set-up that runs once, without a state the program
  returns to.
- Between the offset register and the copied line (`pc = "copy"`), the top row
  still shows the old bottom line for the microseconds the copy takes; the first
  line of a round appears twice. `OnePicture` says where.
- The SRAM multiplexer, the HPI interface, the audio codec and the top level are
  registers, wires and fixed sequences; the pixel priorities of the display are
  combinational.
- lwIP (but for the endings of its HTTP client), the Nios II HAL (but for the
  SGDMA calls) and the Ethernet core are third-party.

Hardware memory ordering between the CPUs is taken as it is: uncached accesses,
one store at a time.

## Plan

1. Done: `ScoreTable`, `GamePlay`, `HttpRequest`, `Httpc`, `Screens` with their
   runs; proofs of the rounds' invariants, of silence and of the refinement.
2. Done: `Keyboard` and `UsbHost`; `RegisterAccess`, `Mdio` and `Ethernet`;
   `FrameLoop`; proofs of every safety property of these, of `Screens` and of
   the action properties of `GamePlay`.
3. Done: `Round`; proofs that the parts keep each other's contracts and of the
   two CPUs together, of the exact causes of the findings, and of liveness from
   written-out fairness.
4. Left: the buffer of an HTTP answer with the content of two attempts in it
   (`httpc.c:20-27`), together with lwIP's pbuf pool; positions of planes,
   enough to say which of them can collide.
