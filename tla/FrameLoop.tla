------------------------------ MODULE FrameLoop -----------------------------
(***************************************************************************)
(* What happens frame by frame beside the rules of the game: the           *)
(* background that scrolls (nios/ECE385_src/vga.c), the edges of the       *)
(* display's sync signal that pace it and the game (vga.c, gamelogic.c),   *)
(* and the interrupt that plays the sounds the game restarts (audio.c).    *)
(*                                                                         *)
(* The main loop runs load by load and store by store; between any two the *)
(* display (rtl/vga/VGA_controller.sv, rtl/project_top.sv) and the         *)
(* interrupt go on.  The menus are one picture each (see Screens), and of  *)
(* a frame's work only the sounds it starts are left (see GamePlay).       *)
(***************************************************************************)
EXTENDS Integers

CONSTANTS
  VGA_HEIGHT,                                \* rows that scroll: 464
  BackgroundHeight,                          \* lines of the background: 1125
  MUSIC_LEN, SOUND_HIT_LEN, EXPLOSION_LEN    \* the sounds' lengths in bytes

ASSUME HeightAssumption ==
  {VGA_HEIGHT, BackgroundHeight} \subseteq Nat /\ 1 < VGA_HEIGHT /\ VGA_HEIGHT < BackgroundHeight
ASSUME LengthAssumption ==
  {MUSIC_LEN, SOUND_HIT_LEN, EXPLOSION_LEN} \subseteq Nat /\ MUSIC_LEN >= 2

VARIABLES
  sync,                     \* *io_vga_sync
  register, framebuffer,    \* *io_vga_background_offset; what each row shows
  bg_offset, bg_scanline,
  prev,                     \* the three functions' static io_vga_sync_prev
  seen,                     \* history: those that have seen an edge since sync rose
  pc, players,              \* where main() is; 1 or 2
  audio_len, audio_src,     \* in samples; FALSE for NULL
  audio_pos, explosion_pos, sound_hit_pos

picture == <<register, framebuffer>>
scroll == <<bg_offset, bg_scanline>>
edges == <<prev, seen>>
music == <<audio_len, audio_src>>
sounds == <<explosion_pos, sound_hit_pos>>
vars == <<sync, picture, scroll, edges, pc, players, music, audio_pos, sounds>>

Rows == 0 .. VGA_HEIGHT - 1
Detectors == {"vga_scroll", "game_loop", "game_loop_double"}
game_loop == IF players = 1 THEN "game_loop" ELSE "game_loop_double"

Line(of, n) == [of |-> of, line |-> n]
Painted(of) == [r \in Rows |-> Line(of, r)]

(* The row of the framebuffer the display draws in row y of the screen.    *)
VGA_RealDrawY(y) ==
  IF y + register >= VGA_HEIGHT THEN y + register - VGA_HEIGHT ELSE y + register
screen == [y \in Rows |-> framebuffer[VGA_RealDrawY(y)]]

Goto(label) == pc' = label

------------------------------------------------------------------------------
(* The start, the menus, and the two ends of a round.                      *)

StartMusic ==
  /\ \/ pc = "audio_len" /\ audio_len' = MUSIC_LEN \div 2 /\ UNCHANGED audio_src
        /\ Goto("audio_src")
     \/ pc = "audio_src" /\ audio_src' = TRUE /\ UNCHANGED audio_len
        /\ Goto("MAIN_MENU_PREPARE")
  /\ UNCHANGED <<sync, picture, scroll, edges, players, audio_pos, sounds>>

(* A full picture is drawn after the offset is taken back.                 *)
Show(of) == register' = 0 /\ framebuffer' = Painted(of)

Menu ==
  /\ \/ pc = "MAIN_MENU_PREPARE" /\ Show("main_menu_bg") /\ Goto("MAIN_MENU")
     \/ pc = "SCOREBOARD_PREPARE" /\ Show("scoreboard_bg") /\ Goto("SCOREBOARD")
     \/ pc = "MAIN_MENU" /\ Goto("SCOREBOARD_PREPARE") /\ UNCHANGED picture
     \/ pc = "SCOREBOARD" /\ Goto("MAIN_MENU_PREPARE") /\ UNCHANGED picture
     \/ pc = "UPLOAD" /\ pc' \in {"MAIN_MENU_PREPARE", "SCOREBOARD_PREPARE"}
        /\ UNCHANGED picture
  /\ UNCHANGED <<sync, scroll, edges, players, music, audio_pos, sounds>>

(* vga_scroll_init and game_init or game_init_double.                      *)
PrepareGame ==
  /\ pc = "MAIN_MENU"
  /\ players' \in {1, 2}
  /\ bg_offset' = 0 /\ bg_scanline' = 0
  /\ framebuffer' = Painted("background")
  /\ Goto("vga_scroll")
  /\ UNCHANGED <<sync, register, edges, music, audio_pos, sounds>>

(* A bug to compare with: the offset of the round stays.                   *)
GameOverScrolled ==
  /\ pc = "GAME_OVER"
  /\ framebuffer' = Painted("scoreboard_bg")
  /\ Goto("UPLOAD")
  /\ UNCHANGED <<sync, register, scroll, edges, players, music, audio_pos, sounds>>

(* game_over or game_over_double.                                          *)
GameOver ==
  /\ pc = "GAME_OVER" /\ Show("scoreboard_bg")
  /\ Goto("UPLOAD")
  /\ UNCHANGED <<sync, scroll, edges, players, music, audio_pos, sounds>>

------------------------------------------------------------------------------
(* An edge of sync: it is loaded once for the condition and once more for  *)
(* the static variable, after the frame's work.                            *)

Edge(d) == ~ prev[d] /\ sync
Saw(d) == seen' = seen \cup {d}

(* A bug to compare with: the static variable follows only a low signal.   *)
RememberLow(d) == prev' = [prev EXCEPT ![d] = @ /\ sync]

Remember(d) == prev' = [prev EXCEPT ![d] = sync]

(* vga_scroll.                                                             *)
Up(n, height) == IF n = 0 THEN height - 1 ELSE n - 1

ScrollUp ==
  /\ pc = "vga_scroll" /\ Edge("vga_scroll") /\ Saw("vga_scroll")
  /\ bg_offset' = Up(bg_offset, VGA_HEIGHT)
  /\ register' = bg_offset'
  /\ Goto("copy")
  /\ UNCHANGED <<sync, framebuffer, bg_scanline, prev, players, music, audio_pos, sounds>>

(* A bug to compare with: the lines wrap with the rows.                    *)
ScrollCopyRows ==
  /\ pc = "copy"
  /\ framebuffer' = [framebuffer EXCEPT ![bg_offset] = Line("background", bg_scanline)]
  /\ bg_scanline' = Up(bg_scanline, VGA_HEIGHT)
  /\ Goto("scrolled")
  /\ UNCHANGED <<sync, register, bg_offset, edges, players, music, audio_pos, sounds>>

(* memcpy_dma waits for the end of its transfer.                           *)
ScrollCopy ==
  /\ pc = "copy"
  /\ framebuffer' = [framebuffer EXCEPT ![bg_offset] = Line("background", bg_scanline)]
  /\ bg_scanline' = Up(bg_scanline, BackgroundHeight)
  /\ Goto("scrolled")
  /\ UNCHANGED <<sync, register, bg_offset, edges, players, music, audio_pos, sounds>>

ScrollNot ==
  /\ pc = "vga_scroll" /\ ~ Edge("vga_scroll")
  /\ Goto("scrolled")
  /\ UNCHANGED <<sync, picture, scroll, edges, players, music, audio_pos, sounds>>

ScrollEnd ==
  /\ pc = "scrolled" /\ Remember("vga_scroll")
  /\ Goto("game_loop")
  /\ UNCHANGED <<sync, picture, scroll, seen, players, music, audio_pos, sounds>>

(* game_loop or game_loop_double; with Esc it returns before its edge.     *)
Quit ==
  /\ pc = "game_loop"
  /\ Goto("GAME_OVER")
  /\ UNCHANGED <<sync, picture, scroll, edges, players, music, audio_pos, sounds>>

Frame ==
  /\ pc = "game_loop" /\ Edge(game_loop) /\ Saw(game_loop)
  /\ Goto("frame")
  /\ UNCHANGED <<sync, picture, scroll, prev, players, music, audio_pos, sounds>>

FrameNot ==
  /\ pc = "game_loop" /\ ~ Edge(game_loop)
  /\ Goto("framed")
  /\ UNCHANGED <<sync, picture, scroll, edges, players, music, audio_pos, sounds>>

(* sprites_collision_detect: a plane is shot down, the player is hit, or   *)
(* two planes crash, which is both.                                        *)
Collide ==
  /\ \/ pc = "frame" /\ explosion_pos' = 0 /\ UNCHANGED sound_hit_pos
        /\ pc' \in {"frame", "crash"}
     \/ pc \in {"frame", "crash"} /\ sound_hit_pos' = 0 /\ UNCHANGED explosion_pos
        /\ Goto("frame")
  /\ UNCHANGED <<sync, picture, scroll, edges, players, music, audio_pos>>

FrameEnd ==
  /\ pc = "frame"
  /\ pc' \in {"framed", "lost"}
  /\ UNCHANGED <<sync, picture, scroll, edges, players, music, audio_pos, sounds>>

LoopEnd ==
  /\ pc \in {"framed", "lost"} /\ Remember(game_loop)
  /\ Goto(IF pc = "lost" THEN "GAME_OVER" ELSE "vga_scroll")
  /\ UNCHANGED <<sync, picture, scroll, seen, players, music, audio_pos, sounds>>

Main ==
  \/ StartMusic \/ Menu \/ PrepareGame \/ GameOver
  \/ ScrollUp \/ ScrollCopy \/ ScrollNot \/ ScrollEnd
  \/ Quit \/ Frame \/ FrameNot \/ Collide \/ FrameEnd \/ LoopEnd

------------------------------------------------------------------------------
(* The interrupt and the display.                                          *)

(* A bug to compare with: the explosion stays where it is.                 *)
PlayStuck ==
  IF sound_hit_pos < SOUND_HIT_LEN \div 2
  THEN sound_hit_pos' = sound_hit_pos + 1 /\ UNCHANGED explosion_pos
  ELSE UNCHANGED sounds

(* A hit goes before an explosion, which waits for it.                     *)
Play ==
  IF sound_hit_pos < SOUND_HIT_LEN \div 2
  THEN sound_hit_pos' = sound_hit_pos + 1 /\ UNCHANGED explosion_pos
  ELSE /\ explosion_pos' = IF explosion_pos < EXPLOSION_LEN \div 2
                           THEN explosion_pos + 1 ELSE explosion_pos
       /\ UNCHANGED sound_hit_pos

(* A bug to compare with: the music goes one sample too far.               *)
NextSampleLate ==
  audio_pos' = IF audio_pos + 1 > audio_len THEN 0 ELSE audio_pos + 1

NextSample ==
  audio_pos' = IF audio_pos + 1 >= audio_len THEN 0 ELSE audio_pos + 1

audio_interrupt ==
  /\ audio_src
  /\ NextSample /\ Play
  /\ UNCHANGED <<sync, picture, scroll, edges, pc, players, music>>

Display ==
  /\ sync' = ~ sync
  /\ seen' = IF sync' THEN {} ELSE seen
  /\ UNCHANGED <<picture, scroll, prev, pc, players, music, audio_pos, sounds>>

Init ==
  /\ sync \in BOOLEAN /\ seen = {} /\ prev = [d \in Detectors |-> FALSE]
  /\ register = 0 /\ framebuffer = [r \in Rows |-> Line("none", 0)]
  /\ bg_offset = 0 /\ bg_scanline = 0
  /\ pc = "audio_len" /\ players = 1
  /\ audio_len = 0 /\ audio_src = FALSE /\ audio_pos = 0
  /\ explosion_pos = EXPLOSION_LEN \div 2 /\ sound_hit_pos = SOUND_HIT_LEN \div 2

Next == Main \/ audio_interrupt \/ Display

Spec == Init /\ [][Next]_vars

(* The timer goes on.                                                      *)
FairSpec == Spec /\ WF_vars(audio_interrupt)

------------------------------------------------------------------------------
(* Properties.                                                             *)

InRound ==
  pc \in {"vga_scroll", "copy", "scrolled", "game_loop", "frame", "crash", "framed", "lost",
          "GAME_OVER"}
Labels ==
  {"audio_len", "audio_src", "MAIN_MENU_PREPARE", "MAIN_MENU", "SCOREBOARD_PREPARE",
   "SCOREBOARD", "UPLOAD", "vga_scroll", "copy", "scrolled", "game_loop", "frame", "crash",
   "framed", "lost", "GAME_OVER"}
Lines == [of : {"none", "main_menu_bg", "scoreboard_bg", "background"},
          line : 0 .. BackgroundHeight - 1]

(* The types; the interrupt never reads a sample behind the end of a sound *)
(* and the scroll never a line or a row that is not there.                 *)
TypeOK ==
  /\ sync \in BOOLEAN /\ seen \subseteq Detectors /\ prev \in [Detectors -> BOOLEAN]
  /\ register \in Rows /\ framebuffer \in [Rows -> Lines]
  /\ bg_offset \in Rows /\ bg_scanline \in 0 .. BackgroundHeight - 1
  /\ pc \in Labels /\ players \in {1, 2}
  /\ audio_len \in {0, MUSIC_LEN \div 2} /\ audio_src \in BOOLEAN
  /\ audio_src => audio_len = MUSIC_LEN \div 2
  /\ audio_pos \in 0 .. MUSIC_LEN \div 2 - 1
  /\ explosion_pos \in 0 .. EXPLOSION_LEN \div 2
  /\ sound_hit_pos \in 0 .. SOUND_HIT_LEN \div 2

(* What the player sees in a round is one piece of the background, line by *)
(* line, however often it has scrolled; only the first line of a round     *)
(* appears twice, because the first scroll copies it again (vga.c line     *)
(* 64).  While a line is copied the top row still shows the old bottom.    *)
Follows(upper, lower) ==
  lower.line = IF upper.line = BackgroundHeight - 1 THEN 0 ELSE upper.line + 1
Seam(y) == ~ Follows(screen[y], screen[y + 1])
Above == 0 .. VGA_HEIGHT - 2   \* the rows with a row below them

OnePicture ==
  InRound /\ pc # "copy" =>
    /\ \A y \in Rows : screen[y].of = "background"
    /\ \A y \in Above : Seam(y) => screen[y].line = screen[y + 1].line
    /\ \A y, z \in Above : Seam(y) /\ Seam(z) => y = z

(* The menu, the scoreboard and the end of a round are drawn upright, so   *)
(* that what is written over them stands where it belongs.                 *)
Upright ==
  /\ pc = "MAIN_MENU" => \A y \in Rows : screen[y] = Line("main_menu_bg", y)
  /\ pc \in {"SCOREBOARD", "UPLOAD"} => \A y \in Rows : screen[y] = Line("scoreboard_bg", y)

(* No frame is counted twice, neither by the scroll nor by the game, in    *)
(* one round or in two, however the two loads of the signal fall.  (That a *)
(* frame is never missed does not hold: see the README.)                   *)
OncePerFrame ==
  [][/\ bg_offset' # bg_offset /\ pc = "vga_scroll" => "vga_scroll" \notin seen
     /\ pc = "game_loop" /\ pc' = "frame" => game_loop \notin seen]_vars

(* When nothing collides any more the sounds end: an explosion that waited *)
(* for a hit is played to its end.                                         *)
SoundsEnd ==
  <>[][explosion_pos' >= explosion_pos /\ sound_hit_pos' >= sound_hit_pos]_vars =>
    <>[](explosion_pos = EXPLOSION_LEN \div 2 /\ sound_hit_pos = SOUND_HIT_LEN \div 2)
=============================================================================
