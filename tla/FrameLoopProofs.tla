-------------------------- MODULE FrameLoopProofs ---------------------------
(***************************************************************************)
(* For every height of the screen and of the background, and every length  *)
(* of the sounds: the rows and samples that are used exist, the player     *)
(* sees one piece of the background, the other pictures stand upright, and *)
(* no frame is counted twice.                                              *)
(***************************************************************************)
EXTENDS FrameLoop, TLAPS

(* Who has seen the edge of this frame remembers the signal as high, or    *)
(* has not come to its second load, or the signal is low by now.           *)
InCall(d) ==
  \/ d = "vga_scroll" /\ pc \in {"copy", "scrolled"}
  \/ d = game_loop /\ pc \in {"frame", "crash", "framed", "lost"}

EdgeInv == \A d \in seen : prev[d] \/ ~ sync \/ InCall(d)

(* The screen is whole from its first row that is not being copied; the    *)
(* next line to copy belongs above that row, or at the start is its line.  *)
First == IF pc = "copy" THEN 1 ELSE 0
Down(n) == IF n = BackgroundHeight - 1 THEN 0 ELSE n + 1

Whole ==
  /\ \A y \in Rows : y >= First => screen[y].of = "background"
  /\ \A y \in Above : y >= First /\ Seam(y) => screen[y].line = screen[y + 1].line
  /\ \A y, z \in Above : y >= First /\ z >= First /\ Seam(y) /\ Seam(z) => y = z

NextLine ==
  \/ screen[First].line = Down(bg_scanline)
  \/ /\ screen[First].line = bg_scanline
     /\ \A y \in Above : y >= First => ~ Seam(y)

RoundInv == InRound => register = bg_offset /\ Whole /\ NextLine

(* The full pictures are painted and shown from row 0.                     *)
PaintInv ==
  /\ pc = "MAIN_MENU" => register = 0 /\ framebuffer = Painted("main_menu_bg")
  /\ pc \in {"SCOREBOARD", "UPLOAD"} => register = 0 /\ framebuffer = Painted("scoreboard_bg")

(* The length of the music is set before its first sample is played.       *)
StartInv == pc # "audio_len" => audio_len = MUSIC_LEN \div 2

IInv == TypeOK /\ StartInv /\ EdgeInv /\ RoundInv /\ PaintInv

------------------------------------------------------------------------------
(* Types.                                                                  *)

LEMMA Heights ==
  /\ VGA_HEIGHT \in Nat /\ BackgroundHeight \in Nat
  /\ 1 < VGA_HEIGHT /\ VGA_HEIGHT < BackgroundHeight
  /\ Rows = 0 .. VGA_HEIGHT - 1 /\ 0 \in Rows
  BY HeightAssumption DEF Rows

LEMMA Lengths ==
  /\ MUSIC_LEN \div 2 \in Nat /\ MUSIC_LEN \div 2 >= 1
  /\ SOUND_HIT_LEN \div 2 \in Nat /\ EXPLOSION_LEN \div 2 \in Nat
  BY LengthAssumption

LEMMA PaintedTypes ==
  ASSUME NEW of \in {"main_menu_bg", "scoreboard_bg", "background"}
  PROVE  Painted(of) \in [Rows -> Lines]
  BY Heights DEF Painted, Line, Lines

LEMMA UpTypes ==
  /\ \A n \in Rows : Up(n, VGA_HEIGHT) \in Rows
  /\ \A n \in 0 .. BackgroundHeight - 1 : Up(n, BackgroundHeight) \in 0 .. BackgroundHeight - 1
  BY Heights DEF Up

LEMMA TypeStarts ==
  ASSUME Init
  PROVE  TypeOK
<1>1. [r \in Rows |-> Line("none", 0)] \in [Rows -> Lines]
  BY Heights DEF Line, Lines
<1>2. audio_pos \in 0 .. MUSIC_LEN \div 2 - 1 /\ explosion_pos \in 0 .. EXPLOSION_LEN \div 2
      /\ sound_hit_pos \in 0 .. SOUND_HIT_LEN \div 2 /\ bg_scanline \in 0 .. BackgroundHeight - 1
  BY Heights, Lengths DEF Init
<1>3. seen \subseteq Detectors /\ prev \in [Detectors -> BOOLEAN]
  BY DEF Init
<1> QED BY <1>1, <1>2, <1>3, Heights DEF Init, TypeOK, Labels

LEMMA PictureTypes ==
  ASSUME TypeOK, [Next]_vars
  PROVE  /\ register' \in Rows /\ framebuffer' \in [Rows -> Lines]
         /\ bg_offset' \in Rows /\ bg_scanline' \in 0 .. BackgroundHeight - 1
<1>1. /\ register \in Rows /\ framebuffer \in [Rows -> Lines]
      /\ bg_offset \in Rows /\ bg_scanline \in 0 .. BackgroundHeight - 1
  BY DEF TypeOK
<1>2. CASE Menu \/ GameOver \/ PrepareGame
  BY <1>1, <1>2, Heights, PaintedTypes DEF Menu, GameOver, PrepareGame, Show, picture, scroll
<1>3. CASE ScrollUp
  BY <1>1, <1>3, UpTypes DEF ScrollUp
<1>4. CASE ScrollCopy
  <2>1. Line("background", bg_scanline) \in Lines
    BY <1>1 DEF Line, Lines
  <2> QED BY <1>1, <1>4, <2>1, UpTypes DEF ScrollCopy
<1>5. CASE ~ (Menu \/ GameOver \/ PrepareGame \/ ScrollUp \/ ScrollCopy)
  <2>1. UNCHANGED <<picture, scroll>>
    BY <1>5 DEF Next, Main, StartMusic, ScrollNot, ScrollEnd, Quit, Frame, FrameNot, Collide,
       FrameEnd, LoopEnd, audio_interrupt, Display, vars
  <2> QED BY <1>1, <2>1 DEF picture, scroll
<1> QED BY <1>2, <1>3, <1>4, <1>5

LEMMA SoundTypes ==
  ASSUME TypeOK, StartInv, [Next]_vars
  PROVE  /\ StartInv'
         /\ audio_len' \in {0, MUSIC_LEN \div 2} /\ audio_src' \in BOOLEAN
         /\ audio_src' => audio_len' = MUSIC_LEN \div 2
         /\ audio_pos' \in 0 .. MUSIC_LEN \div 2 - 1
         /\ explosion_pos' \in 0 .. EXPLOSION_LEN \div 2
         /\ sound_hit_pos' \in 0 .. SOUND_HIT_LEN \div 2
<1>1. /\ audio_len \in {0, MUSIC_LEN \div 2} /\ audio_src \in BOOLEAN
      /\ audio_src => audio_len = MUSIC_LEN \div 2
      /\ audio_pos \in 0 .. MUSIC_LEN \div 2 - 1
      /\ explosion_pos \in 0 .. EXPLOSION_LEN \div 2
      /\ sound_hit_pos \in 0 .. SOUND_HIT_LEN \div 2
  BY DEF TypeOK
<1>2. CASE StartMusic
  <2>1. audio_len' = MUSIC_LEN \div 2 /\ audio_src' \in BOOLEAN
    BY <1>1, <1>2 DEF StartMusic, StartInv
  <2>2. UNCHANGED <<audio_pos, explosion_pos, sound_hit_pos>>
    BY <1>2 DEF StartMusic, sounds
  <2> QED BY <1>1, <2>1, <2>2 DEF StartInv
<1>3. CASE audio_interrupt
  <2>1. UNCHANGED <<audio_len, audio_src>> /\ audio_pos' \in 0 .. MUSIC_LEN \div 2 - 1
    BY <1>1, <1>3, Lengths DEF audio_interrupt, music, NextSample
  <2>2. /\ explosion_pos' \in 0 .. EXPLOSION_LEN \div 2
        /\ sound_hit_pos' \in 0 .. SOUND_HIT_LEN \div 2
    BY <1>1, <1>3, Lengths DEF audio_interrupt, Play
  <2>3. pc' = pc
    BY <1>3 DEF audio_interrupt
  <2> QED BY <1>1, <2>1, <2>2, <2>3 DEF StartInv
<1>4. CASE Collide
  BY <1>1, <1>4, Lengths DEF Collide, music, StartInv
<1>5. CASE ~ (StartMusic \/ audio_interrupt \/ Collide)
  <2>1. UNCHANGED <<music, audio_pos, sounds>>
    BY <1>5 DEF Next, Main, Menu, PrepareGame, GameOver, ScrollUp, ScrollCopy, ScrollNot,
       ScrollEnd, Quit, Frame, FrameNot, FrameEnd, LoopEnd, Display, vars
  <2>2. pc' = pc \/ pc # "audio_len"
    BY <1>5 DEF Next, Main, Menu, PrepareGame, GameOver, ScrollUp, ScrollCopy, ScrollNot,
       ScrollEnd, Quit, Frame, FrameNot, FrameEnd, LoopEnd, Display, vars
  <2> QED BY <1>1, <2>1, <2>2 DEF music, sounds, StartInv
<1> QED BY <1>2, <1>3, <1>4, <1>5

LEMMA ControlTypes ==
  ASSUME TypeOK, [Next]_vars
  PROVE  pc' \in Labels /\ players' \in {1, 2}
<1>1. pc \in Labels /\ players \in {1, 2}
  BY DEF TypeOK
<1>2. CASE StartMusic \/ Menu \/ PrepareGame \/ GameOver
  BY <1>1, <1>2 DEF StartMusic, Menu, PrepareGame, GameOver, Goto, Labels
<1>3. CASE ScrollUp \/ ScrollCopy \/ ScrollNot \/ ScrollEnd \/ Quit \/ Frame \/ FrameNot
  BY <1>1, <1>3 DEF ScrollUp, ScrollCopy, ScrollNot, ScrollEnd, Quit, Frame, FrameNot, Goto,
     Labels
<1>4. CASE Collide \/ FrameEnd \/ LoopEnd
  BY <1>1, <1>4 DEF Collide, FrameEnd, LoopEnd, Goto, Labels
<1>5. CASE audio_interrupt \/ Display \/ UNCHANGED vars
  BY <1>1, <1>5 DEF audio_interrupt, Display, vars
<1> QED BY <1>2, <1>3, <1>4, <1>5 DEF Next, Main

LEMMA EdgeTypes ==
  ASSUME TypeOK, [Next]_vars
  PROVE  sync' \in BOOLEAN /\ seen' \subseteq Detectors /\ prev' \in [Detectors -> BOOLEAN]
<1>1. sync \in BOOLEAN /\ seen \subseteq Detectors /\ prev \in [Detectors -> BOOLEAN]
  BY DEF TypeOK
<1>2. "vga_scroll" \in Detectors /\ game_loop \in Detectors
  BY DEF Detectors, game_loop
<1>3. CASE ScrollUp \/ Frame
  BY <1>1, <1>2, <1>3 DEF ScrollUp, Frame, Saw
<1>4. CASE ScrollEnd
  BY <1>1, <1>4 DEF ScrollEnd, Remember
<1>5. CASE LoopEnd
  BY <1>1, <1>5 DEF LoopEnd, Remember
<1>6. CASE Display
  BY <1>1, <1>6 DEF Display
<1>7. CASE ~ (ScrollUp \/ Frame \/ ScrollEnd \/ LoopEnd \/ Display)
  <2>1. UNCHANGED <<sync, edges>>
    BY <1>7 DEF Next, Main, StartMusic, Menu, PrepareGame, GameOver, ScrollCopy, ScrollNot,
       Quit, FrameNot, Collide, FrameEnd, audio_interrupt, vars
  <2> QED BY <1>1, <2>1 DEF edges
<1> QED BY <1>3, <1>4, <1>5, <1>6, <1>7

LEMMA Types ==
  ASSUME TypeOK, StartInv, [Next]_vars
  PROVE  TypeOK' /\ StartInv'
  BY PictureTypes, SoundTypes, ControlTypes, EdgeTypes DEF TypeOK

------------------------------------------------------------------------------
(* Edges.                                                                  *)

LEMMA Edges ==
  ASSUME TypeOK, EdgeInv, [Next]_vars
  PROVE  EdgeInv'
<1>1. /\ sync \in BOOLEAN /\ seen \subseteq Detectors /\ prev \in [Detectors -> BOOLEAN]
      /\ game_loop # "vga_scroll"
  BY DEF TypeOK, game_loop
<1>2. CASE ScrollUp
  BY <1>1, <1>2 DEF ScrollUp, Saw, EdgeInv, InCall, Goto, game_loop
<1>3. CASE Frame
  BY <1>1, <1>3 DEF Frame, Saw, EdgeInv, InCall, Goto, game_loop
<1>4. CASE ScrollEnd
  BY <1>1, <1>4 DEF ScrollEnd, Remember, EdgeInv, InCall, Goto, game_loop, TypeOK
<1>5. CASE LoopEnd
  BY <1>1, <1>5 DEF LoopEnd, Remember, EdgeInv, InCall, Goto, game_loop, TypeOK
<1>6. CASE Display
  BY <1>1, <1>6 DEF Display, EdgeInv
<1>7. CASE \/ StartMusic \/ Menu \/ PrepareGame \/ GameOver \/ ScrollCopy \/ ScrollNot
           \/ Quit \/ FrameNot \/ Collide \/ FrameEnd \/ audio_interrupt \/ UNCHANGED vars
  <2>1. UNCHANGED <<sync, prev, seen>>
    BY <1>7 DEF StartMusic, Menu, PrepareGame, GameOver, ScrollCopy, ScrollNot, Quit, FrameNot,
       Collide, FrameEnd, audio_interrupt, vars, edges
  <2>2. \A d : InCall(d) => InCall(d)'
    BY <1>7 DEF StartMusic, Menu, PrepareGame, GameOver, ScrollCopy, ScrollNot, Quit, FrameNot,
       Collide, FrameEnd, audio_interrupt, vars, Goto, InCall, game_loop
  <2> QED BY <2>1, <2>2 DEF EdgeInv
<1> QED BY <1>2, <1>3, <1>4, <1>5, <1>6, <1>7 DEF Next, Main

------------------------------------------------------------------------------
(* The picture.                                                            *)

LEMMA Mirror ==
  ASSUME TypeOK, NEW y \in Rows
  PROVE  /\ VGA_RealDrawY(y) \in Rows
         /\ VGA_RealDrawY(y) = register <=> y = 0
         /\ screen[y] = framebuffer[VGA_RealDrawY(y)]
  BY Heights DEF VGA_RealDrawY, screen, TypeOK

LEMMA Painting ==
  ASSUME TypeOK, register = 0, NEW of, framebuffer = Painted(of), NEW y \in Rows
  PROVE  screen[y] = Line(of, y)
<1>1. VGA_RealDrawY(y) = y
  BY Heights DEF VGA_RealDrawY
<1> QED BY <1>1, Mirror DEF Painted

LEMMA Shifted ==
  ASSUME TypeOK, TypeOK', ScrollUp, register = bg_offset, NEW y \in Above
  PROVE  screen'[y + 1] = screen[y]
<1>1. y \in Rows /\ y + 1 \in Rows /\ y \in Nat /\ register \in Rows
  BY Heights DEF Above, TypeOK
<1>2. register' = IF register = 0 THEN VGA_HEIGHT - 1 ELSE register - 1
  BY DEF ScrollUp, Up
<1>3. VGA_RealDrawY(y + 1)' = VGA_RealDrawY(y)
  BY <1>1, <1>2, Heights DEF VGA_RealDrawY
<1>4. screen'[y + 1] = framebuffer'[VGA_RealDrawY(y + 1)']
  BY <1>1 DEF screen
<1> QED BY <1>1, <1>3, <1>4, Mirror DEF ScrollUp

LEMMA Copied ==
  ASSUME TypeOK, ScrollCopy, register = bg_offset
  PROVE  /\ screen'[0] = Line("background", bg_scanline)
         /\ \A y \in Rows : y # 0 => screen'[y] = screen[y]
<1>1. /\ framebuffer \in [Rows -> Lines] /\ register \in Rows /\ register' = register
      /\ framebuffer' = [framebuffer EXCEPT ![register] = Line("background", bg_scanline)]
  BY DEF TypeOK, ScrollCopy
<1>2. ASSUME NEW y \in Rows
      PROVE  screen'[y] = framebuffer'[VGA_RealDrawY(y)]
  BY <1>1, <1>2 DEF screen, VGA_RealDrawY
<1> QED BY <1>1, <1>2, Mirror, Heights

(* A new round.                                                            *)
LEMMA RoundStarts ==
  ASSUME IInv, PrepareGame, TypeOK'
  PROVE  RoundInv'
<1>1. register' = 0 /\ bg_offset' = 0 /\ bg_scanline' = 0 /\ pc' = "vga_scroll"
  BY DEF PrepareGame, IInv, PaintInv, Goto
<1>2. ASSUME NEW y \in Rows
      PROVE  screen'[y].of = "background" /\ screen'[y].line = y
  <2>1. VGA_RealDrawY(y)' = y
    BY <1>1, Heights DEF VGA_RealDrawY
  <2>2. screen'[y] = framebuffer'[VGA_RealDrawY(y)']
    BY DEF screen
  <2>3. screen'[y] = Line("background", y)
    BY <2>1, <2>2 DEF PrepareGame, Painted
  <2> QED BY <2>3 DEF Line
<1>3. ASSUME NEW y \in Above
      PROVE  ~ Seam(y)'
  <2>1. y \in Rows /\ y + 1 \in Rows /\ y # BackgroundHeight - 1
    BY Heights DEF Above
  <2>2. screen'[y].line = y /\ screen'[y + 1].line = y + 1
    BY <1>2, <2>1
  <2> QED BY <2>1, <2>2 DEF Seam, Follows
<1>4. First' = 0
  BY <1>1 DEF First
<1>5. Whole'
  BY <1>2, <1>3, <1>4 DEF Whole
<1>6. NextLine'
  BY <1>1, <1>2, <1>3, <1>4, Heights DEF NextLine
<1> QED BY <1>1, <1>5, <1>6 DEF RoundInv

(* The rows move down by one; nothing is known of the top one.             *)
LEMMA RoundMoves ==
  ASSUME IInv, ScrollUp, TypeOK'
  PROVE  RoundInv'
<1>1. TypeOK /\ pc = "vga_scroll" /\ pc' = "copy" /\ bg_scanline' = bg_scanline
  BY DEF IInv, ScrollUp, Goto
<1>2. register = bg_offset /\ Whole /\ NextLine /\ First = 0 /\ First' = 1
  BY <1>1 DEF IInv, RoundInv, InRound, First
<1>3. \A y \in Above : screen'[y + 1] = screen[y]
  BY <1>1, <1>2, Shifted
<1>4. ASSUME NEW y \in Above, y >= 1
      PROVE  y - 1 \in Above /\ screen'[y] = screen[y - 1] /\ screen'[y + 1] = screen[y]
             /\ (Seam(y)' <=> Seam(y - 1)) /\ y - 1 >= 0
  <2>1. y - 1 \in Above /\ (y - 1) + 1 = y
    BY <1>4, Heights DEF Above
  <2>2. screen'[y] = screen[y - 1] /\ screen'[y + 1] = screen[y]
    BY <1>3, <2>1
  <2> QED BY <2>1, <2>2, Heights DEF Seam, Follows, Above
<1>5. 0 \in Above /\ screen'[1] = screen[0]
  BY <1>3, Heights DEF Above
<1>6. Whole'
  <2>1. ASSUME NEW y \in Rows, y >= 1
        PROVE  screen'[y].of = "background"
    <3>1. y - 1 \in Above /\ y - 1 \in Rows /\ (y - 1) + 1 = y /\ y - 1 >= 0
      BY <2>1, Heights DEF Above
    <3> QED BY <1>2, <1>3, <3>1 DEF Whole
  <2>2. ASSUME NEW y \in Above, y >= 1, Seam(y)'
        PROVE  screen'[y].line = screen'[y + 1].line
    <3>1. (y - 1) + 1 = y
      BY <2>2, Heights DEF Above
    <3> QED BY <1>2, <1>4, <2>2, <3>1 DEF Whole
  <2>3. ASSUME NEW y \in Above, NEW z \in Above, y >= 1, z >= 1, Seam(y)', Seam(z)'
        PROVE  y = z
    <3>1. y - 1 = z - 1
      BY <1>2, <1>4, <2>3 DEF Whole
    <3> QED BY <3>1, Heights DEF Above
  <2> QED BY <1>2, <2>1, <2>2, <2>3 DEF Whole
<1>7. NextLine'
  <2>1. CASE screen[0].line = Down(bg_scanline)
    BY <1>1, <1>2, <1>5, <2>1 DEF NextLine, Down
  <2>2. CASE screen[0].line = bg_scanline /\ \A y \in Above : y >= 0 => ~ Seam(y)
    <3>1. \A y \in Above : y >= 1 => ~ Seam(y)'
      BY <1>4, <2>2
    <3> QED BY <1>1, <1>2, <1>5, <2>2, <3>1 DEF NextLine
  <2> QED BY <1>2, <2>1, <2>2 DEF NextLine
<1>8. register' = bg_offset'
  BY DEF ScrollUp
<1> QED BY <1>6, <1>7, <1>8 DEF RoundInv

(* The top row gets its line, and makes one picture with those below it.   *)
LEMMA RoundCopies ==
  ASSUME IInv, ScrollCopy, TypeOK'
  PROVE  RoundInv'
<1>1. /\ TypeOK /\ pc = "copy" /\ pc' = "scrolled" /\ bg_scanline \in 0 .. BackgroundHeight - 1
      /\ register = bg_offset /\ Whole /\ NextLine /\ First = 1 /\ First' = 0
      /\ register' = bg_offset' /\ bg_scanline' = Up(bg_scanline, BackgroundHeight)
  BY DEF IInv, TypeOK, ScrollCopy, Goto, RoundInv, InRound, First
<1>2. /\ screen'[0].of = "background" /\ screen'[0].line = bg_scanline
      /\ \A y \in Rows : y # 0 => screen'[y] = screen[y]
  BY <1>1, Copied DEF Line
<1>3. NextLine'
  BY <1>1, <1>2, Heights DEF NextLine, Down, Up
<1>4. /\ 0 \in Above /\ screen'[1] = screen[1]
      /\ Seam(0)' <=> screen[1].line # Down(bg_scanline)
  <2>1. 0 \in Above /\ 1 \in Rows
    BY Heights DEF Above
  <2>2. screen'[1] = screen[1]
    BY <1>2, <2>1
  <2> QED BY <1>2, <2>1, <2>2 DEF Seam, Follows, Down
<1>5. ASSUME NEW y \in Above, y # 0
      PROVE  /\ y >= 1 /\ screen'[y] = screen[y] /\ screen'[y + 1] = screen[y + 1]
             /\ Seam(y)' <=> Seam(y)
  <2>1. y >= 1 /\ y \in Rows /\ y + 1 \in Rows /\ y + 1 # 0
    BY <1>5, Heights DEF Above
  <2>2. screen'[y] = screen[y] /\ screen'[y + 1] = screen[y + 1]
    BY <1>2, <1>5, <2>1
  <2> QED BY <2>1, <2>2 DEF Seam, Follows
<1>6. Whole'
  <2>1. ASSUME NEW y \in Rows
        PROVE  screen'[y].of = "background"
    <3>1. y = 0 \/ y >= 1
      BY Heights
    <3> QED BY <1>1, <1>2, <3>1 DEF Whole
  <2>2. CASE screen[1].line = Down(bg_scanline)
    <3>1. \A y \in Above : Seam(y)' => y # 0
      BY <1>4, <2>2
    <3> QED BY <1>1, <1>5, <2>1, <3>1 DEF Whole
  <2>3. CASE screen[1].line = bg_scanline /\ \A y \in Above : y >= 1 => ~ Seam(y)
    <3>1. \A y \in Above : Seam(y)' => y = 0
      BY <1>5, <2>3
    <3>2. screen'[0].line = screen'[0 + 1].line
      BY <1>2, <1>4, <2>3
    <3> QED BY <1>1, <2>1, <3>1, <3>2 DEF Whole
  <2> QED BY <1>1, <2>2, <2>3 DEF NextLine
<1> QED BY <1>1, <1>3, <1>6 DEF RoundInv

LEMMA RoundRests ==
  ASSUME RoundInv, UNCHANGED <<picture, scroll>>, InRound' => InRound /\ First' = First
  PROVE  RoundInv'
<1>1. UNCHANGED screen
  BY DEF screen, VGA_RealDrawY, picture
<1>2. \A y \in Above : Seam(y)' <=> Seam(y)
  BY <1>1 DEF Seam, Follows
<1>3. ASSUME InRound'
      PROVE  Whole' /\ NextLine' /\ register' = bg_offset'
  <2>1. First' = First /\ Whole /\ NextLine /\ register = bg_offset
    BY <1>3 DEF RoundInv
  <2>2. Whole'
    BY <1>1, <1>2, <2>1 DEF Whole
  <2>3. NextLine'
    BY <1>1, <1>2, <2>1 DEF NextLine, scroll, Down
  <2> QED BY <2>1, <2>2, <2>3 DEF picture, scroll
<1> QED BY <1>3 DEF RoundInv

LEMMA Rounds ==
  ASSUME IInv, [Next]_vars, TypeOK'
  PROVE  RoundInv'
<1>1. CASE PrepareGame \/ ScrollUp \/ ScrollCopy
  BY <1>1, RoundStarts, RoundMoves, RoundCopies
<1>2. CASE Menu \/ GameOver \/ StartMusic
  <2>1. ~ InRound'
    BY <1>2 DEF Menu, GameOver, StartMusic, Goto, InRound
  <2> QED BY <2>1 DEF RoundInv
<1>3. CASE ScrollNot \/ ScrollEnd \/ Quit \/ Frame \/ FrameNot \/ Collide \/ FrameEnd \/ LoopEnd
  <2>1. UNCHANGED <<picture, scroll>>
    BY <1>3 DEF ScrollNot, ScrollEnd, Quit, Frame, FrameNot, Collide, FrameEnd, LoopEnd
  <2>2. InRound /\ First' = First
    BY <1>3 DEF ScrollNot, ScrollEnd, Quit, Frame, FrameNot, Collide, FrameEnd, LoopEnd, Goto,
       InRound, First
  <2> QED BY <2>1, <2>2, RoundRests DEF IInv
<1>4. CASE audio_interrupt \/ Display \/ UNCHANGED vars
  <2>1. UNCHANGED <<picture, scroll, pc>>
    BY <1>4 DEF audio_interrupt, Display, vars
  <2> QED BY <2>1, RoundRests DEF IInv, InRound, First
<1> QED BY <1>1, <1>2, <1>3, <1>4 DEF Next, Main

LEMMA Paints ==
  ASSUME IInv, [Next]_vars
  PROVE  PaintInv'
<1>1. PaintInv
  BY DEF IInv
<1>2. CASE Menu
  BY <1>2 DEF Menu, Show, Goto, PaintInv
<1>3. CASE GameOver
  BY <1>3 DEF GameOver, Show, Goto, PaintInv
<1>4. CASE StartMusic \/ PrepareGame \/ ScrollUp \/ ScrollCopy \/ ScrollNot \/ ScrollEnd \/ Quit
           \/ Frame \/ FrameNot \/ Collide \/ FrameEnd \/ LoopEnd
  <2>1. pc' \notin {"MAIN_MENU", "SCOREBOARD", "UPLOAD"}
    BY <1>4 DEF StartMusic, PrepareGame, ScrollUp, ScrollCopy, ScrollNot, ScrollEnd, Quit, Frame,
       FrameNot, Collide, FrameEnd, LoopEnd, Goto
  <2> QED BY <2>1 DEF PaintInv
<1>5. CASE audio_interrupt \/ Display \/ UNCHANGED vars
  <2>1. UNCHANGED <<register, framebuffer, pc>>
    BY <1>5 DEF audio_interrupt, Display, vars, picture
  <2> QED BY <1>1, <2>1 DEF PaintInv, Painted, Line
<1> QED BY <1>2, <1>3, <1>4, <1>5 DEF Next, Main

------------------------------------------------------------------------------
(* The theorems.                                                           *)

THEOREM FrameInvariance == Spec => []IInv
<1>1. Init => IInv
  <2>1. ASSUME Init
        PROVE  StartInv /\ EdgeInv /\ RoundInv /\ PaintInv
    BY <2>1 DEF Init, StartInv, EdgeInv, RoundInv, PaintInv, InRound
  <2> QED BY <2>1, TypeStarts DEF IInv
<1>2. IInv /\ [Next]_vars => IInv'
  BY Types, Edges, Rounds, Paints DEF IInv
<1> QED BY <1>1, <1>2, PTL DEF Spec

(* Every variable keeps its type: no sample, row or line is used that does *)
(* not exist.                                                              *)
THEOREM FrameTypes == Spec => []TypeOK
<1>1. IInv => TypeOK
  BY DEF IInv
<1> QED BY <1>1, FrameInvariance, PTL

(* In a round the player sees one piece of the background.                 *)
THEOREM PictureKept == Spec => []OnePicture
<1>1. ASSUME IInv
      PROVE  OnePicture
  <2>1. SUFFICES ASSUME InRound, pc # "copy"
                 PROVE  /\ \A y \in Rows : screen[y].of = "background"
                        /\ \A y \in Above : Seam(y) => screen[y].line = screen[y + 1].line
                        /\ \A y, z \in Above : Seam(y) /\ Seam(z) => y = z
    BY DEF OnePicture
  <2>2. Whole /\ First = 0
    BY <1>1, <2>1 DEF IInv, RoundInv, First
  <2>3. \A y \in Rows \cup Above : y >= 0
    BY Heights DEF Above
  <2> QED BY <2>2, <2>3 DEF Whole
<1> QED BY <1>1, FrameInvariance, PTL

(* The other pictures are drawn upright.                                   *)
THEOREM PicturesUpright == Spec => []Upright
<1>1. ASSUME IInv
      PROVE  Upright
  <2>1. TypeOK /\ PaintInv
    BY <1>1 DEF IInv
  <2> QED BY <2>1, Painting DEF PaintInv, Upright
<1> QED BY <1>1, FrameInvariance, PTL

(* No detector counts a frame twice.                                       *)
THEOREM EdgesOnce == Spec => OncePerFrame
<1> DEFINE Once ==
      /\ bg_offset' # bg_offset /\ pc = "vga_scroll" => "vga_scroll" \notin seen
      /\ pc = "game_loop" /\ pc' = "frame" => game_loop \notin seen
<1>1. ASSUME IInv, [Next]_vars
      PROVE  Once
  <2>1. EdgeInv /\ game_loop # "vga_scroll"
    BY <1>1 DEF IInv, game_loop
  <2>2. CASE ScrollUp
    BY <2>1, <2>2 DEF ScrollUp, Edge, EdgeInv, InCall, Goto
  <2>3. CASE Frame
    BY <2>1, <2>3 DEF Frame, Edge, EdgeInv, InCall, scroll
  <2>4. CASE ~ (ScrollUp \/ Frame)
    <3>1. ~ (bg_offset' # bg_offset /\ pc = "vga_scroll")
      BY <1>1, <2>4 DEF Next, Main, StartMusic, Menu, PrepareGame, GameOver, ScrollCopy,
         ScrollNot, ScrollEnd, Quit, FrameNot, Collide, FrameEnd, LoopEnd, audio_interrupt,
         Display, vars, scroll
    <3>2. ~ (pc = "game_loop" /\ pc' = "frame")
      BY <1>1, <2>4 DEF Next, Main, StartMusic, Menu, PrepareGame, GameOver, ScrollCopy,
         ScrollNot, ScrollEnd, Quit, FrameNot, Collide, FrameEnd, LoopEnd, audio_interrupt,
         Display, vars, Goto
    <3> QED BY <3>1, <3>2
  <2> QED BY <2>2, <2>3, <2>4
<1>2. IInv /\ [Next]_vars => [Once]_vars
  BY <1>1
<1> QED BY <1>2, FrameInvariance, PTL DEF Spec, OncePerFrame
=============================================================================
