---------------------------- MODULE ScreensProofs ---------------------------
(***************************************************************************)
(* Proofs about Screens for any keyboard that reports keys of Codes and    *)
(* any number of connections: its types, and that no screen is left by a   *)
(* key of an earlier visit.                                                *)
(***************************************************************************)
EXTENDS Screens, TLAPS

(* What the static variables can still hold: outside its screen neither    *)
(* holds the key that leaves it, and inside the screen has read that key.  *)
MenuRemembers == prev.menu = Enter => (game_state = "MAIN_MENU" /\ Enter \in seen)
BoardRemembers == prev.board = Esc => (game_state = "SCOREBOARD" /\ Esc \in seen)

(* The other commands may be left from an earlier visit until this one has *)
(* looked for the first time.                                              *)
MenuCarries ==
  game_state = "MAIN_MENU" =>
    seen = {} \/ (prev.menu \in Right \cup Left => prev.menu \in seen)
BoardCarries == game_state = "SCOREBOARD" => seen = {} \/ (prev.board = R => R \in seen)
Memories == MenuRemembers /\ BoardRemembers /\ MenuCarries /\ BoardCarries

(* The inductive invariant.                                                *)
IInv == TypeOK /\ Memories

UpType ==
  /\ upProcessing \in BOOLEAN /\ upFailed \in BOOLEAN /\ upOverdue \in BOOLEAN
  /\ upOpen \subseteq Conns
SbType ==
  /\ sbProcessing \in BOOLEAN /\ sbFailed \in BOOLEAN /\ sbOverdue \in BOOLEAN
  /\ sbOpen \subseteq Conns
KeyType == keycode \in Codes \X Codes /\ report \in Codes \X Codes /\ half \in BOOLEAN
ScreenType ==
  /\ menu_current_option \in {MENU_PLAY, MENU_SCOREBOARD, MENU_DOUBLEPLAY}
  /\ prev \in [menu : Codes, board : Codes]
  /\ scoreboard_shown \in BOOLEAN
  /\ seen \subseteq Codes

LoadType == loads \in 0 .. LastLoad

LEMMA TypeParts ==
  TypeOK <=> game_state \in States /\ LoadType /\ KeyType /\ ScreenType /\ UpType /\ SbType
BY DEF TypeOK, LoadType, KeyType, ScreenType, UpType, SbType

-----------------------------------------------------------------------------
(* The two requests                                                        *)

LEMMA UploadStep ==
  ASSUME UpType, Upload!Send \/ Upload!Check \/ Upload!TimePasses
                 \/ \E c \in Conns : Upload!Ended(c)
  PROVE  UpType'
<1>1. upProcessing' \in BOOLEAN
  BY DEF UpType, Upload!Send, Upload!Refused, Upload!Sent, Upload!Check,
         Upload!TimePasses, Upload!Ended
<1>2. upFailed' \in BOOLEAN
  BY DEF UpType, Upload!Send, Upload!Refused, Upload!Sent, Upload!Check,
         Upload!TimePasses, Upload!Ended
<1>3. upOverdue' \in BOOLEAN
  BY DEF UpType, Upload!Send, Upload!Refused, Upload!Sent, Upload!Check,
         Upload!TimePasses, Upload!Ended
<1>4. upOpen' \subseteq Conns
  BY DEF UpType, Upload!Send, Upload!Refused, Upload!Sent, Upload!Check,
         Upload!TimePasses, Upload!Ended
<1> QED
  BY <1>1, <1>2, <1>3, <1>4 DEF UpType

LEMMA BoardStep ==
  ASSUME SbType, Board!Send \/ Board!Check \/ Board!TimePasses
                 \/ \E c \in Conns : Board!Ended(c)
  PROVE  SbType'
<1>1. sbProcessing' \in BOOLEAN
  BY DEF SbType, Board!Send, Board!Refused, Board!Sent, Board!Check,
         Board!TimePasses, Board!Ended
<1>2. sbFailed' \in BOOLEAN
  BY DEF SbType, Board!Send, Board!Refused, Board!Sent, Board!Check,
         Board!TimePasses, Board!Ended
<1>3. sbOverdue' \in BOOLEAN
  BY DEF SbType, Board!Send, Board!Refused, Board!Sent, Board!Check,
         Board!TimePasses, Board!Ended
<1>4. sbOpen' \subseteq Conns
  BY DEF SbType, Board!Send, Board!Refused, Board!Sent, Board!Check,
         Board!TimePasses, Board!Ended
<1> QED
  BY <1>1, <1>2, <1>3, <1>4 DEF SbType

LEMMA UploadRests == UpType /\ UNCHANGED upload => UpType'
BY DEF UpType, upload
LEMMA BoardRests == SbType /\ UNCHANGED board => SbType'
BY DEF SbType, board
LEMMA KeysRest == KeyType /\ UNCHANGED keyboard => KeyType'
BY DEF KeyType, keyboard
LEMMA ScreensRest == ScreenType /\ UNCHANGED screens => ScreenType'
BY DEF ScreenType, screens

(* Only one state has four loads, and it is left when they are made.       *)
LEMMA LoadsRest ==
  ASSUME LoadType, UNCHANGED loads,
         game_state' = game_state \/ game_state # "GAME_OVER_WAIT_ENTER_PRESS_OR_R_PRESS"
  PROVE  LoadType'
BY DEF LoadType, LastLoad
LEMMA LoadsGo ==
  ASSUME LoadType, loads' = 0 \/ LookOn
  PROVE  LoadType'
BY DEF LoadType, LookOn, Stay, LastLoad

-----------------------------------------------------------------------------
LEMMA InitOK == Init => IInv
<1> SUFFICES ASSUME Init PROVE IInv
  OBVIOUS
<1> USE DEF Init
<1>1. UpType
  BY DEF Upload!Init, UpType
<1>2. SbType
  BY DEF Board!Init, SbType
<1>3. KeyType
  <2>1. 0 \in Codes
    BY DEF Codes
  <2> QED
    BY <2>1 DEF Keys!Init, KeyType
<1>4. ScreenType
  <2>1. None \in Codes
    BY DEF Codes, None
  <2> QED
    BY <2>1 DEF ScreenType, MENU_PLAY, MENU_SCOREBOARD, MENU_DOUBLEPLAY
<1>5. game_state \in States
  BY DEF States
<1>6. Memories
  BY DEF Memories, MenuRemembers, BoardRemembers, MenuCarries, BoardCarries, None, Enter, Esc
<1>7. LoadType
  BY DEF LoadType, LastLoad
<1> QED
  BY <1>1, <1>2, <1>3, <1>4, <1>5, <1>6, <1>7, TypeParts DEF IInv

(* What a visit keeps while another part of the system moves: the screen   *)
(* that is entered or left is not the one that remembers.                  *)
LEMMA ScreensKept ==
  ASSUME Memories, UNCHANGED screens,
         \/ game_state' = game_state
         \/ /\ game_state \notin {"MAIN_MENU", "SCOREBOARD"}
            /\ game_state' \notin {"MAIN_MENU", "SCOREBOARD"}
  PROVE  Memories'
BY DEF Memories, MenuRemembers, BoardRemembers, MenuCarries, BoardCarries, screens

-----------------------------------------------------------------------------
(* One lemma for each action that changes what a screen keeps              *)

LEMMA MenuPrepareOK == ASSUME IInv, MenuPrepare PROVE IInv'
<1>1. ScreenType'
  BY DEF IInv, TypeOK, ScreenType, MenuPrepare, MENU_PLAY, MENU_SCOREBOARD, MENU_DOUBLEPLAY
<1>2. KeyType' /\ UpType' /\ SbType'
  BY UploadRests, BoardRests, KeysRest, TypeParts DEF IInv, MenuPrepare
<1>3. game_state' \in States
  BY DEF MenuPrepare, Goto, States
<1>4. Memories'
  BY DEF IInv, Memories, MenuRemembers, BoardRemembers, MenuCarries, BoardCarries, MenuPrepare, Goto
<1>5. LoadType'
  BY LoadsRest, TypeParts DEF IInv, MenuPrepare
<1> QED
  BY <1>1, <1>2, <1>3, <1>4, <1>5
     DEF IInv, TypeOK, LoadType, KeyType, ScreenType, UpType, SbType

LEMMA MenuOK ==
  ASSUME IInv, Menu
  PROVE  /\ IInv'
         /\ game_state' # "MAIN_MENU" => Enter \in seen
         /\ menu_current_option' # menu_current_option
              => seen = {} \/ seen \cap (Right \cup Left) # {}
<1> DEFINE code == keycode[1]
           key == IF code # prev.menu THEN prev.menu ELSE None
<1>1. code \in Codes /\ prev \in [menu : Codes, board : Codes]
  BY DEF IInv, TypeOK
<1>2. /\ game_state = "MAIN_MENU"
      /\ menu_current_option' = Moved(menu_current_option, key)
      /\ IF key = Enter THEN game_state' = Choice(menu_current_option)
                        ELSE game_state' = game_state
      /\ prev' = [prev EXCEPT !.menu = code]
      /\ seen' = IF game_state' = game_state THEN Noted(code, MenuCommands) ELSE {}
  BY DEF Menu, Goto, Stay, Remembered
<1>3. game_state' \in States /\ (game_state' = game_state <=> key # Enter)
  BY <1>2 DEF Choice, States
<1>4. menu_current_option' \in {MENU_PLAY, MENU_SCOREBOARD, MENU_DOUBLEPLAY}
  BY <1>2 DEF IInv, TypeOK, Moved, MENU_PLAY, MENU_SCOREBOARD, MENU_DOUBLEPLAY
<1>5. seen' \subseteq Codes
  <2>1. None \in Codes
    BY DEF None, Codes
  <2> QED
    BY <1>1, <1>2, <2>1 DEF IInv, TypeOK, Noted
<1>6. ScreenType'
  BY <1>1, <1>2, <1>4, <1>5 DEF ScreenType, Menu, IInv, TypeOK
<1>7. KeyType' /\ UpType' /\ SbType'
  BY UploadRests, BoardRests, KeysRest, TypeParts DEF IInv, Menu
<1>8. prev'.menu = code /\ prev'.board = prev.board
  BY <1>1, <1>2
<1>9. MenuRemembers'
  <2> SUFFICES ASSUME code = Enter PROVE game_state' = "MAIN_MENU" /\ Enter \in seen'
    BY <1>8 DEF MenuRemembers
  <2>1. key # Enter
    BY DEF None, Enter
  <2> QED
    BY <1>2, <1>3, <2>1 DEF Noted, MenuCommands
<1>10. BoardRemembers' /\ BoardCarries'
  BY <1>2, <1>3, <1>8 DEF IInv, Memories, BoardRemembers, BoardCarries, Choice
<1>11. game_state' # "MAIN_MENU" => Enter \in seen
  BY <1>2, <1>3 DEF IInv, Memories, MenuRemembers, None, Enter
<1>12. MenuCarries'
  BY <1>2, <1>8 DEF MenuCarries, Noted, MenuCommands
<1>13. menu_current_option' # menu_current_option
         => seen = {} \/ seen \cap (Right \cup Left) # {}
  <2>1. menu_current_option' # menu_current_option => key \in Right \cup Left
    BY <1>2 DEF Moved
  <2>2. key \in Right \cup Left => prev.menu = key
    BY DEF None, Right, Left
  <2> QED
    BY <1>2, <2>1, <2>2 DEF IInv, Memories, MenuCarries
<1>14. LoadType'
  BY <1>2, LoadsRest, TypeParts DEF IInv, Menu
<1> QED
  BY <1>3, <1>6, <1>7, <1>9, <1>10, <1>11, <1>12, <1>13, <1>14
     DEF IInv, Memories, TypeOK, LoadType, KeyType, ScreenType, UpType, SbType

LEMMA BoardPrepareOK == ASSUME IInv, BoardPrepare PROVE IInv'
<1>1. ScreenType'
  BY DEF IInv, TypeOK, ScreenType, BoardPrepare
<1>2. KeyType' /\ UpType' /\ SbType'
  BY UploadRests, BoardStep, KeysRest, TypeParts DEF IInv, BoardPrepare
<1>3. game_state' \in States
  BY DEF BoardPrepare, Goto, States
<1>4. Memories'
  BY DEF IInv, Memories, MenuRemembers, BoardRemembers, MenuCarries, BoardCarries,
         BoardPrepare, Goto
<1>5. LoadType'
  BY LoadsRest, TypeParts DEF IInv, BoardPrepare
<1> QED
  BY <1>1, <1>2, <1>3, <1>4, <1>5
     DEF IInv, TypeOK, LoadType, KeyType, ScreenType, UpType, SbType

LEMMA ScoreboardLoopOK ==
  ASSUME IInv, ScoreboardLoop
  PROVE  /\ IInv'
         /\ game_state' # "SCOREBOARD" => Esc \in seen
         /\ ~ (sbOpen' \subseteq sbOpen) => seen = {} \/ R \in seen
<1> DEFINE code == keycode[1]
           key == IF code # prev.board THEN prev.board ELSE None
<1>1. code \in Codes /\ prev \in [menu : Codes, board : Codes]
  BY DEF IInv, TypeOK
<1>2. /\ game_state = "SCOREBOARD"
      /\ IF key = Esc THEN game_state' = "MAIN_MENU_PREPARE"
                      ELSE game_state' = game_state
      /\ prev' = [prev EXCEPT !.board = code]
      /\ seen' = IF game_state' = game_state THEN Noted(code, BoardCommands) ELSE {}
  BY DEF ScoreboardLoop, Goto, Stay, Remembered
<1>3. game_state' \in States /\ (game_state' = game_state <=> key # Esc)
  BY <1>2 DEF States
<1>4. SbType'
  <2>1. CASE key = R /\ ~ StillLoading
    BY <2>1, BoardStep, TypeParts DEF ScoreboardLoop, IInv
  <2>2. CASE ~ (key = R /\ ~ StillLoading)
    BY <2>2, BoardStep, BoardRests, TypeParts DEF ScoreboardLoop, BoardCheck, IInv
  <2> QED
    BY <2>1, <2>2
<1>5. scoreboard_shown' \in BOOLEAN
  BY DEF ScoreboardLoop, IInv, TypeOK
<1>6. seen' \subseteq Codes
  <2>1. None \in Codes
    BY DEF None, Codes
  <2> QED
    BY <1>1, <1>2, <2>1 DEF IInv, TypeOK, Noted
<1>7. ScreenType'
  BY <1>1, <1>2, <1>5, <1>6 DEF ScreenType, ScoreboardLoop, IInv, TypeOK
<1>8. KeyType' /\ UpType'
  BY UploadRests, KeysRest, TypeParts DEF IInv, ScoreboardLoop
<1>9. prev'.board = code /\ prev'.menu = prev.menu
  BY <1>1, <1>2
<1>10. BoardRemembers'
  <2> SUFFICES ASSUME code = Esc PROVE game_state' = "SCOREBOARD" /\ Esc \in seen'
    BY <1>9 DEF BoardRemembers
  <2>1. key # Esc
    BY DEF None, Esc
  <2> QED
    BY <1>2, <1>3, <2>1 DEF Noted, BoardCommands
<1>11. MenuRemembers' /\ MenuCarries'
  BY <1>2, <1>3, <1>9 DEF IInv, Memories, MenuRemembers, MenuCarries
<1>12. game_state' # "SCOREBOARD" => Esc \in seen
  BY <1>2, <1>3 DEF IInv, Memories, BoardRemembers, None, Esc
<1>13. BoardCarries'
  BY <1>2, <1>9 DEF BoardCarries, Noted, BoardCommands
<1>14. ~ (sbOpen' \subseteq sbOpen) => seen = {} \/ R \in seen
  <2>1. ~ (sbOpen' \subseteq sbOpen) => key = R
    BY DEF ScoreboardLoop, BoardCheck, Board!Check, board
  <2>2. key = R => prev.board = R
    BY DEF None, R
  <2> QED
    BY <1>2, <2>1, <2>2 DEF IInv, Memories, BoardCarries
<1>15. LoadType'
  BY <1>2, LoadsRest, TypeParts DEF IInv, ScoreboardLoop
<1> QED
  BY <1>3, <1>4, <1>7, <1>8, <1>10, <1>11, <1>12, <1>13, <1>14, <1>15
     DEF IInv, Memories, TypeOK, LoadType, KeyType, ScreenType, UpType, SbType

(* The states between the screens: they remember nothing.                  *)
Between ==
  GamePrepare \/ InGame \/ GameOver \/ UploadBegin \/ UploadProcessing \/ UploadFinish \/ KeyWaits

(* An iteration that looks for keys                                        *)
LookStates == Playing \cup PressWaits \cup ReleaseWaits
LEMMA LooksOK ==
  ASSUME IInv, InGame \/ KeyWaits
  PROVE  /\ game_state \in LookStates /\ game_state' \in States
         /\ {game_state, game_state'} \cap {"MAIN_MENU", "SCOREBOARD"} = {}
         /\ loads' = 0 \/ LookOn
<1> USE DEF LookStates, Playing, PressWaits, ReleaseWaits, EnterReleaseWaits, Found, NotFound,
            Goto, Stay, States
<1>1. CASE InGame
  BY <1>1 DEF InGame, LookOn
<1>2. CASE KeyWaits
  BY <1>2 DEF KeyWaits, LookOn
<1> QED
  BY <1>1, <1>2

LEMMA BetweenOK ==
  ASSUME IInv, Between
  PROVE  IInv' /\ game_state \notin {"MAIN_MENU", "SCOREBOARD"}
<1> DEFINE Looks == InGame \/ KeyWaits
           Passes == GamePrepare \/ GameOver \/ UploadBegin \/ UploadProcessing \/ UploadFinish
<1>1. /\ game_state' \in States
      /\ game_state \notin {"MAIN_MENU", "SCOREBOARD"}
      /\ game_state' \notin {"MAIN_MENU", "SCOREBOARD"}
  <2>1. CASE Looks
    BY <2>1, LooksOK
  <2>2. CASE Passes
    BY <2>2 DEF IInv, TypeOK, GamePrepare, GameOver, UploadBegin, UploadProcessing,
           UploadFinish, Goto, Stay, States
  <2> QED
    BY <2>1, <2>2 DEF Between
<1>2. UNCHANGED <<keyboard, screens, board>>
  BY DEF Between, GamePrepare, InGame, GameOver, UploadBegin, UploadProcessing,
         UploadFinish, KeyWaits
<1>3. Upload!Send \/ Upload!Check \/ UNCHANGED upload
  BY DEF Between, GamePrepare, InGame, GameOver, UploadBegin, UploadProcessing,
         UploadFinish, KeyWaits
<1>4. UpType' /\ SbType' /\ KeyType' /\ ScreenType'
  BY <1>2, <1>3, UploadStep, UploadRests, BoardRests, KeysRest, ScreensRest, TypeParts DEF IInv
<1>5. Memories'
  BY <1>1, <1>2, ScreensKept DEF IInv
<1>6. LoadType'
  <2>1. CASE Looks
    BY <2>1, LooksOK, LoadsGo, TypeParts DEF IInv
  <2>2. CASE Passes
    <3>1. UNCHANGED loads /\ game_state # "GAME_OVER_WAIT_ENTER_PRESS_OR_R_PRESS"
      BY <2>2 DEF GamePrepare, GameOver, UploadBegin, UploadProcessing, UploadFinish
    <3> QED
      BY <3>1, LoadsRest, TypeParts DEF IInv
  <2> QED
    BY <2>1, <2>2 DEF Between
<1> QED
  BY <1>1, <1>4, <1>5, <1>6 DEF IInv, TypeOK, LoadType, KeyType, ScreenType, UpType, SbType

LEMMA KeyboardOK ==
  ASSUME IInv, SecondKey \/ \E r \in Reports : FirstKey(r)
  PROVE  IInv' /\ game_state' = game_state
<1>1. UNCHANGED <<game_state, loads, screens, upload, board>>
  BY DEF SecondKey, FirstKey, game
<1>2. KeyType'
  <2>1. KeyType
    BY TypeParts DEF IInv
  <2>2. ASSUME NEW r \in Reports, FirstKey(r) PROVE KeyType'
    <3>1. r \in Codes \X Codes
      BY ReportsAssumption
    <3>2. report' = r /\ keycode' = [keycode EXCEPT ![1] = r[1]]
      BY <2>2 DEF FirstKey, Keys!FirstKey
    <3>3. keycode' \in Codes \X Codes
      BY <2>1, <3>1, <3>2 DEF KeyType
    <3>4. half' \in BOOLEAN
      BY <2>2 DEF FirstKey, Keys!FirstKey
    <3> QED
      BY <3>1, <3>2, <3>3, <3>4 DEF KeyType
  <2>3. ASSUME SecondKey PROVE KeyType'
    <3>1. keycode' = [keycode EXCEPT ![2] = report[2]] /\ half' = FALSE /\ report' = report
      BY <2>3 DEF SecondKey, Keys!SecondKey
    <3>2. report[2] \in Codes
      BY <2>1 DEF KeyType
    <3>3. keycode' \in Codes \X Codes
      BY <2>1, <3>1, <3>2 DEF KeyType
    <3> QED
      BY <2>1, <3>1, <3>3 DEF KeyType
  <2> QED
    BY <2>2, <2>3
<1>3. UpType' /\ SbType' /\ ScreenType'
  BY <1>1, UploadRests, BoardRests, ScreensRest, TypeParts DEF IInv
<1>4. Memories' /\ LoadType'
  BY <1>1, ScreensKept, LoadsRest, TypeParts DEF IInv
<1> QED
  BY <1>1, <1>2, <1>3, <1>4 DEF IInv, TypeOK, LoadType, KeyType, ScreenType, UpType, SbType

LEMMA OutsideOK ==
  ASSUME IInv, Time \/ Network
  PROVE  IInv' /\ game_state' = game_state
<1>1. UNCHANGED <<game_state, loads, keyboard, screens>>
  BY DEF Time, Network
<1>2. UpType'
  BY UploadStep, UploadRests, TypeParts DEF IInv, Time, Network
<1>3. SbType'
  BY BoardStep, BoardRests, TypeParts DEF IInv, Time, Network
<1>4. KeyType' /\ ScreenType'
  BY <1>1, KeysRest, ScreensRest, TypeParts DEF IInv
<1>5. Memories' /\ LoadType'
  BY <1>1, ScreensKept, LoadsRest, TypeParts DEF IInv
<1> QED
  BY <1>1, <1>2, <1>3, <1>4, <1>5
     DEF IInv, TypeOK, LoadType, KeyType, ScreenType, UpType, SbType

LEMMA StutterOK == ASSUME IInv, UNCHANGED vars PROVE IInv'
<1>1. UNCHANGED <<game_state, loads, keyboard, screens, upload, board>>
  BY DEF vars
<1>2. UpType' /\ SbType' /\ KeyType' /\ ScreenType'
  BY <1>1, UploadRests, BoardRests, KeysRest, ScreensRest, TypeParts DEF IInv
<1>3. Memories' /\ LoadType'
  BY <1>1, ScreensKept, LoadsRest, TypeParts DEF IInv
<1> QED
  BY <1>1, <1>2, <1>3 DEF IInv, TypeOK, LoadType, KeyType, ScreenType, UpType, SbType

-----------------------------------------------------------------------------
(* A step of the system keeps the invariant, and does what a key commands  *)
(* only for a key that the visit has read, or in its first look.           *)
Given ==
  /\ (game_state = "MAIN_MENU" /\ game_state' # "MAIN_MENU") => Enter \in seen
  /\ (game_state = "SCOREBOARD" /\ game_state' # "SCOREBOARD") => Esc \in seen
  /\ (game_state = "MAIN_MENU" /\ menu_current_option' # menu_current_option)
       => seen = {} \/ seen \cap (Right \cup Left) # {}
  /\ (game_state = "SCOREBOARD" /\ ~ (sbOpen' \subseteq sbOpen)) => seen = {} \/ R \in seen

LEMMA StepOK == IInv /\ [Next]_vars => IInv' /\ Given
<1> SUFFICES ASSUME IInv, [Next]_vars PROVE IInv' /\ Given
  OBVIOUS
<1>1. CASE MenuPrepare
  BY <1>1, MenuPrepareOK DEF Given, MenuPrepare
<1>2. CASE Menu
  BY <1>2, MenuOK DEF Given, Menu
<1>3. CASE BoardPrepare
  BY <1>3, BoardPrepareOK DEF Given, BoardPrepare
<1>4. CASE ScoreboardLoop
  BY <1>4, ScoreboardLoopOK DEF Given, ScoreboardLoop
<1>5. CASE Between
  BY <1>5, BetweenOK DEF Given
<1>6. CASE SecondKey \/ \E r \in Reports : FirstKey(r)
  BY <1>6, KeyboardOK DEF Given, SecondKey, FirstKey, game, screens, board
<1>7. CASE Time \/ Network
  BY <1>7, OutsideOK DEF Given, Time, Network, Board!TimePasses, Board!Ended, screens, board
<1>8. CASE UNCHANGED vars
  BY <1>8, StutterOK DEF Given, vars, screens, board
<1> QED
  BY <1>1, <1>2, <1>3, <1>4, <1>5, <1>6, <1>7, <1>8 DEF Next, GameCPU, MainLoop, Between

(* The inductive invariant holds: what the screens remember of a key is    *)
(* tied to the visit in which it was read (main_menu.c:67, scoreboard.c:49).*)
THEOREM ScreensInvariance == Spec => []IInv
<1>1. IInv /\ [Next]_vars => IInv'
  BY StepOK
<1> QED
  BY InitOK, <1>1, PTL DEF Spec

(* The menu option, the key codes and the requests keep their types in     *)
(* every one of the eighteen states.                                       *)
THEOREM ScreensTyped == Spec => []TypeOK
<1>1. IInv => TypeOK
  BY DEF IInv
<1> QED
  BY ScreensInvariance, <1>1, PTL

(* The static key codes survive a visit, the commands hardly do: the menu  *)
(* is left only for an Enter and the scoreboard only for an Esc of this    *)
(* visit, and what a Right, Left or R of an earlier visit may still do, it *)
(* does in the first look of this one, if at all (main_menu.c:67,          *)
(* scoreboard.c:49).                                                       *)
THEOREM CommandsOfThisVisit == Spec => CommandsGiven
<1>1. IInv /\ [Next]_vars => [Given]_vars
  BY StepOK
<1>2. [][Given]_vars => CommandsGiven
  BY PTL DEF Given, CommandsGiven
<1> QED
  BY ScreensInvariance, <1>1, <1>2, PTL DEF Spec

-----------------------------------------------------------------------------
(* The contracts: a step of the system is, for the keyboard, each request  *)
(* and the round, a step that its contract allows.                         *)

LEMMA LoopUses ==
  ASSUME MainLoop
  PROVE  /\ UNCHANGED keyboard
         /\ Upload!Send \/ Upload!Check \/ UNCHANGED upload
         /\ Board!Send \/ Board!Check \/ UNCHANGED board
<1>1. CASE MenuPrepare \/ Menu
  BY <1>1 DEF MenuPrepare, Menu
<1>2. CASE BoardPrepare
  BY <1>2 DEF BoardPrepare
<1>3. CASE ScoreboardLoop
  BY <1>3 DEF ScoreboardLoop, BoardCheck
<1>4. CASE Between
  BY <1>4 DEF Between, GamePrepare, InGame, GameOver, UploadBegin, UploadProcessing,
              UploadFinish, KeyWaits
<1> QED
  BY <1>1, <1>2, <1>3, <1>4 DEF MainLoop, Between

LEMMA KeysStep == [Next]_vars => [Keys!Next]_(Keys!vars)
<1>1. CASE GameCPU
  BY <1>1, LoopUses DEF GameCPU, Time, Network, keyboard, Keys!vars
<1>2. CASE SecondKey \/ \E r \in Reports : FirstKey(r)
  BY <1>2 DEF SecondKey, FirstKey, Keys!Next
<1>3. CASE UNCHANGED vars
  BY <1>3 DEF vars, keyboard, Keys!vars
<1> QED
  BY <1>1, <1>2, <1>3 DEF Next

LEMMA UploadUsed == [Next]_vars => [Upload!Next]_(Upload!vars)
<1>1. CASE MainLoop
  BY <1>1, LoopUses DEF Upload!Next, upload, Upload!vars
<1>2. CASE Time \/ Network
  BY <1>2 DEF Time, Network, Upload!Next, upload, Upload!vars
<1>3. CASE SecondKey \/ \E r \in Reports : FirstKey(r)
  BY <1>3 DEF SecondKey, FirstKey, game, upload, Upload!vars
<1>4. CASE UNCHANGED vars
  BY <1>4 DEF vars, upload, Upload!vars
<1> QED
  BY <1>1, <1>2, <1>3, <1>4 DEF Next, GameCPU

LEMMA BoardUsed == [Next]_vars => [Board!Next]_(Board!vars)
<1>1. CASE MainLoop
  BY <1>1, LoopUses DEF Board!Next, board, Board!vars
<1>2. CASE Time \/ Network
  BY <1>2 DEF Time, Network, Board!Next, board, Board!vars
<1>3. CASE SecondKey \/ \E r \in Reports : FirstKey(r)
  BY <1>3 DEF SecondKey, FirstKey, game, board, Board!vars
<1>4. CASE UNCHANGED vars
  BY <1>4 DEF vars, board, Board!vars
<1> QED
  BY <1>1, <1>2, <1>3, <1>4 DEF Next, GameCPU

LEMMA RoundsStep ==
  [Next]_vars => [Rounds!Next]_round
<1> USE DEF round, Rounds!Playing, Rounds!Ended
<1>1. CASE MenuPrepare \/ Menu \/ BoardPrepare \/ ScoreboardLoop
  BY <1>1 DEF MenuPrepare, Menu, BoardPrepare, ScoreboardLoop, Choice, Goto, Stay
<1>2. CASE GamePrepare
  BY <1>2 DEF GamePrepare, Goto, Rounds!Next, Rounds!Begin
<1>3. CASE InGame
  BY <1>3 DEF InGame, LookOn, Found, NotFound, Playing, Goto, Stay, Rounds!Next, Rounds!Quit,
              Rounds!Lost
<1>4. CASE GameOver
  BY <1>4 DEF GameOver, Goto, Rounds!Next, Rounds!WindUp
<1>5. CASE UploadBegin \/ UploadProcessing \/ UploadFinish \/ KeyWaits
  BY <1>5 DEF UploadBegin, UploadProcessing, UploadFinish, KeyWaits, LookOn, PressWaits,
              ReleaseWaits, EnterReleaseWaits, Goto, Stay
<1>6. CASE Time \/ Network \/ SecondKey \/ \E r \in Reports : FirstKey(r)
  BY <1>6 DEF Time, Network, SecondKey, FirstKey, game
<1>7. CASE UNCHANGED vars
  BY <1>7 DEF vars
<1> QED
  BY <1>1, <1>2, <1>3, <1>4, <1>5, <1>6, <1>7 DEF Next, GameCPU, MainLoop

(* The screens use the keyboard, the two requests and the round in no way  *)
(* but the one that the contracts of these allow, on which the proofs of   *)
(* UsbHost, Httpc and GamePlay rest in turn (main.c:72-169).               *)
THEOREM ContractsUsed == Spec => Keys!Spec /\ Upload!Spec /\ Board!Spec /\ Rounds!Spec
<1>1. Init => Keys!Init /\ Upload!Init /\ Board!Init /\ Rounds!Init
  BY DEF Init, Rounds!Init, round
<1> QED
  BY <1>1, KeysStep, UploadUsed, BoardUsed, RoundsStep, PTL
     DEF Spec, Keys!Spec, Upload!Spec, Board!Spec, Rounds!Spec

-----------------------------------------------------------------------------
(* The keyboard's codes, and the keys that act                             *)

Firsts == {r[1] : r \in Reports}
Seconds == {r[2] : r \in Reports}

(* Both slots hold what some report has had there, and so does all that    *)
(* the screens remember.                                                   *)
SlotsReported ==
  /\ keycode[1] \in Firsts /\ keycode[2] \in Seconds /\ report \in Reports
  /\ seen \subseteq Firsts

(* Where the two CPUs are with a report.                                   *)
SlotsFollow == keycode[1] = report[1] /\ (half <=> keycode[2] # report[2])

LEMMA SlotsInit == Init => SlotsReported /\ SlotsFollow
BY ReportsAssumption DEF Init, Keys!Init, SlotsReported, SlotsFollow, Firsts, Seconds, None

LEMMA SlotsStep ==
  ASSUME IInv, SlotsReported, SlotsFollow, [Next]_vars
  PROVE  SlotsReported' /\ SlotsFollow'
<1>1. keycode \in Codes \X Codes /\ report \in Codes \X Codes /\ half \in BOOLEAN
  BY DEF IInv, TypeOK
<1>2. CASE MainLoop
  <2>1. UNCHANGED <<keycode, report, half>>
    BY <1>2, LoopUses DEF keyboard
  <2>2. seen' \subseteq seen \cup {None, keycode[1]}
    BY <1>2 DEF MainLoop, MenuPrepare, Menu, BoardPrepare, ScoreboardLoop, GamePrepare, InGame,
           GameOver, UploadBegin, UploadProcessing, UploadFinish, KeyWaits, Noted, screens
  <2>3. None \in Firsts
    BY ReportsAssumption DEF Firsts
  <2> QED
    BY <2>1, <2>2, <2>3 DEF SlotsReported, SlotsFollow
<1>3. CASE Time \/ Network \/ UNCHANGED vars
  BY <1>3 DEF Time, Network, vars, keyboard, screens, SlotsReported, SlotsFollow
<1>4. ASSUME NEW r \in Reports, FirstKey(r)
      PROVE  SlotsReported' /\ SlotsFollow'
  <2>1. /\ report' = r /\ seen' = seen /\ half' = (keycode[2] # r[2])
        /\ keycode' = [keycode EXCEPT ![1] = r[1]]
    BY <1>4 DEF FirstKey, Keys!FirstKey, game, screens
  <2>2. keycode'[1] = r[1] /\ keycode'[2] = keycode[2]
    BY <1>1, <2>1
  <2>3. r[1] \in Firsts
    BY DEF Firsts
  <2> QED
    BY <2>1, <2>2, <2>3 DEF SlotsReported, SlotsFollow
<1>5. CASE SecondKey
  <2>1. /\ report' = report /\ seen' = seen /\ half' = FALSE
        /\ keycode' = [keycode EXCEPT ![2] = report[2]]
    BY <1>5 DEF SecondKey, Keys!SecondKey, game, screens
  <2>2. keycode'[1] = keycode[1] /\ keycode'[2] = report[2]
    BY <1>1, <2>1
  <2>3. report[2] \in Seconds
    BY DEF SlotsReported, Seconds
  <2> QED
    BY <2>1, <2>2, <2>3 DEF SlotsReported, SlotsFollow
<1> QED
  BY <1>2, <1>3, <1>4, <1>5 DEF Next, GameCPU

LEMMA SlotsInvariance == Spec => [](IInv /\ SlotsReported /\ SlotsFollow)
<1>1. IInv /\ SlotsReported /\ SlotsFollow /\ [Next]_vars => SlotsReported' /\ SlotsFollow'
  BY SlotsStep
<1> QED
  BY SlotsInit, <1>1, ScreensInvariance, PTL DEF Spec

LEMMA KeysOfReports ==
  ASSUME SlotsReported, NEW code \in Codes, Found(code)
  PROVE  \E r \in Reports : code \in {r[1], r[2]}
<1>1. code \in {keycode[1], keycode[2]}
  BY DEF Found, Slot
<1> QED
  BY <1>1 DEF SlotsReported, Firsts, Seconds

(* The game acts on no key but those that the keyboard can report, in the  *)
(* slot where it looks for them, although it may read the first key of one *)
(* report beside the second of another (main.c:28-53, main_menu.c:66-104). *)
THEOREM OnlyReportedKeysAct == Spec => CommandsTyped
<1>1. ASSUME IInv, SlotsReported, Next
      PROVE  /\ game_state = "MAIN_MENU" /\ game_state' # game_state
                  => \E r \in Reports : r[1] = Enter
             /\ game_state = "SCOREBOARD" /\ game_state' # game_state
                  => \E r \in Reports : r[1] = Esc
  BY <1>1, StepOK DEF Given, SlotsReported, Firsts
<1>2. ASSUME SlotsReported, Next
      PROVE  /\ game_state = "IN_GAME" /\ game_state' = "GAME_OVER"
                  => \E r \in Reports : Esc \in {r[1], r[2]}
             /\ game_state = "GAME_OVER_WAIT_ENTER_PRESS" /\ game_state' # game_state
                  => \E r \in Reports : Enter \in {r[1], r[2]}
             /\ game_state = "GAME_OVER_WAIT_ENTER_PRESS_OR_R_PRESS"
                /\ game_state' # game_state
                  => \E r \in Reports : {Enter, R} \cap {r[1], r[2]} # {}
  <2>1. CASE ~ Between
    BY <1>2, <2>1 DEF Next, GameCPU, MainLoop, Between, MenuPrepare, Menu, BoardPrepare,
           ScoreboardLoop, Time, Network, SecondKey, FirstKey, game
  <2>2. CASE Between
    <3>1. game_state = "IN_GAME" /\ game_state' = "GAME_OVER" => Found(Esc)
      BY <2>2 DEF Between, GamePrepare, InGame, GameOver, UploadBegin, UploadProcessing,
             UploadFinish, KeyWaits, Goto, Stay, LookOn, NotFound, Playing, PressWaits,
             ReleaseWaits, EnterReleaseWaits
    <3>2. game_state = "GAME_OVER_WAIT_ENTER_PRESS" /\ game_state' # game_state
            => Found(Enter)
      BY <2>2 DEF Between, GamePrepare, InGame, GameOver, UploadBegin, UploadProcessing,
             UploadFinish, KeyWaits, Goto, Stay, LookOn, NotFound, Playing, PressWaits,
             ReleaseWaits, EnterReleaseWaits
    <3>3. game_state = "GAME_OVER_WAIT_ENTER_PRESS_OR_R_PRESS" /\ game_state' # game_state
            => Found(Enter) \/ Found(R)
      BY <2>2 DEF Between, GamePrepare, InGame, GameOver, UploadBegin, UploadProcessing,
             UploadFinish, KeyWaits, Goto, Stay, LookOn, NotFound, Playing, PressWaits,
             ReleaseWaits, EnterReleaseWaits
    <3>4. Enter \in Codes /\ R \in Codes /\ Esc \in Codes
      BY DEF Codes, Enter, R, Esc
    <3> QED
      BY <1>2, <3>1, <3>2, <3>3, <3>4, KeysOfReports
  <2> QED
    BY <2>1, <2>2
<1> QED
  BY <1>1, <1>2, SlotsInvariance, PTL DEF Spec, CommandsTyped

(* The wait for the release of Enter is over too early only when the key   *)
(* moves from slot to slot under the loads: in a report whose slot 1 is not*)
(* written yet, or into slot 0 after this was passed (main.c:28-35,        *)
(* 153-169, and main.c:612-619 of the USB CPU).                            *)
THEOREM ReleaseMissedOnlyByMove == Spec => ReleaseMissedByMove
<1>1. ASSUME SlotsFollow, IInv, Next, game_state \in EnterReleaseWaits
      PROVE  /\ loads = 0 /\ loads' = 1 => report[1] # Enter
             /\ game_state' # game_state /\ Enter \in {report[1], report[2]}
                  => \/ half /\ report[2] = Enter /\ report[1] # Enter
                     \/ report[1] = Enter /\ loads = 1
  <2>1. CASE KeyWaits
    <3>1. Sought = Enter /\ LastLoad = 1 /\ loads \in 0 .. 1
      BY <1>1 DEF Sought, LastLoad, EnterReleaseWaits, Playing, IInv, TypeOK
    <3>2. loads = 0 /\ loads' = 1 => keycode[1] # Enter
      BY <2>1, <3>1 DEF KeyWaits, Found, NotFound, LookOn, Slot
    <3>3. game_state' # game_state => NotFound
      BY <1>1, <2>1 DEF KeyWaits, LookOn, Stay, EnterReleaseWaits, PressWaits
    <3>4. game_state' # game_state => loads = 1 /\ keycode[2] # Enter
      BY <3>1, <3>3 DEF NotFound, Slot
    <3> QED
      BY <1>1, <3>2, <3>4 DEF SlotsFollow
  <2>2. CASE ~ KeyWaits
    BY <1>1, <2>2 DEF EnterReleaseWaits, Next, GameCPU, MainLoop, MenuPrepare, Menu, BoardPrepare,
           ScoreboardLoop, GamePrepare, InGame, Playing, GameOver, UploadBegin, UploadProcessing,
           UploadFinish, Time, Network, SecondKey, FirstKey, game
  <2> QED
    BY <2>1, <2>2
<1> QED
  BY <1>1, SlotsInvariance, PTL DEF Spec, ReleaseMissedByMove

(* What the wait relies on while the report stays.                         *)
EnterStays ==
  /\ game_state \in EnterReleaseWaits
  /\ ~ half /\ Enter \in {report[1], report[2]}
  /\ loads = 0 \/ (loads = 1 /\ report[1] # Enter)

(* A player who holds Enter, and presses and releases nothing else, does   *)
(* not slip through the wait: one pass over the slots always meets the key *)
(* (main.c:28-35, 153-169).                                                *)
THEOREM EnterIsHeld == Spec => HeldEnterSeen
<1>1. ASSUME IInv, SlotsFollow, EnterStays, [Next]_vars, UNCHANGED report
      PROVE  EnterStays'
  <2>1. CASE KeyWaits
    <3>1. Sought = Enter /\ LastLoad = 1
      BY <1>1 DEF EnterStays, Sought, LastLoad, EnterReleaseWaits, Playing
    <3>2. ~ NotFound
      BY <1>1, <3>1 DEF EnterStays, SlotsFollow, NotFound, Slot
    <3>3. loads' = 0 \/ (loads = 0 /\ loads' = 1 /\ report[1] # Enter)
      BY <1>1, <2>1, <3>1 DEF KeyWaits, Found, NotFound, LookOn, Slot, EnterStays, SlotsFollow
    <3>4. game_state' = game_state
      BY <1>1, <2>1, <3>2 DEF KeyWaits, LookOn, Stay, EnterStays, EnterReleaseWaits, PressWaits
    <3>5. UNCHANGED half
      BY <2>1 DEF KeyWaits, keyboard
    <3> QED
      BY <1>1, <3>3, <3>4, <3>5 DEF EnterStays
  <2>2. CASE SecondKey
    BY <1>1, <2>2 DEF EnterStays, SecondKey, Keys!SecondKey
  <2>3. ASSUME NEW r \in Reports, FirstKey(r) PROVE EnterStays'
    BY <1>1, <2>3 DEF EnterStays, SlotsFollow, FirstKey, Keys!FirstKey, game
  <2>4. CASE Time \/ Network \/ UNCHANGED vars
    BY <1>1, <2>4 DEF EnterStays, Time, Network, vars, keyboard
  <2>5. CASE MainLoop /\ ~ KeyWaits
    BY <1>1, <2>5 DEF EnterStays, EnterReleaseWaits, MainLoop, MenuPrepare, Menu, BoardPrepare,
           ScoreboardLoop, GamePrepare, InGame, Playing, GameOver, UploadBegin, UploadProcessing,
           UploadFinish
  <2> QED
    BY <1>1, <2>1, <2>2, <2>3, <2>4, <2>5 DEF Next, GameCPU
<1>2. EnterHeld => EnterStays
  BY DEF EnterHeld, EnterStays
<1>3. EnterStays => game_state \in EnterReleaseWaits
  BY DEF EnterStays
<1>4. UNCHANGED vars => UNCHANGED report
  BY DEF vars, keyboard
<1> QED
  BY <1>1, <1>2, <1>3, <1>4, SlotsInvariance, PTL DEF Spec, HeldEnterSeen

-----------------------------------------------------------------------------
(* What is shown, and that it is shown                                     *)

LEMMA ShownStep == TypeOK /\ ShownIsOver /\ [Next]_vars => ShownIsOver'
<1> SUFFICES ASSUME TypeOK, ShownIsOver, [Next]_vars, scoreboard_shown' PROVE ~ sbProcessing'
  BY DEF ShownIsOver
<1>1. CASE MenuPrepare \/ Menu \/ Between
  BY <1>1 DEF MenuPrepare, Menu, Between, GamePrepare, InGame, GameOver, UploadBegin,
         UploadProcessing, UploadFinish, KeyWaits, screens, board, ShownIsOver
<1>2. CASE BoardPrepare
  BY <1>2 DEF BoardPrepare
<1>3. CASE ScoreboardLoop
  BY <1>3 DEF ScoreboardLoop, BoardCheck, board, ShownIsOver, TypeOK
<1>4. CASE Time \/ Network
  BY <1>4 DEF Time, Network, Board!TimePasses, Board!Ended, screens, board, ShownIsOver
<1>5. CASE (SecondKey \/ \E r \in Reports : FirstKey(r)) \/ UNCHANGED vars
  BY <1>5 DEF SecondKey, FirstKey, game, vars, screens, board, ShownIsOver
<1> QED
  BY <1>1, <1>2, <1>3, <1>4, <1>5 DEF Next, GameCPU, MainLoop, Between

(* The scoreboard never says "loaded" while its request is waited for, on  *)
(* whichever visit and after whatever refresh (scoreboard.c:32-47).        *)
THEOREM ShownBoardsAreOver == Spec => []ShownIsOver
<1>1. Init => ShownIsOver
  BY DEF Init, ShownIsOver
<1> QED
  BY <1>1, ShownStep, ScreensTyped, PTL DEF Spec

-----------------------------------------------------------------------------
(* Liveness.  Weak fairness of an action says that the action happens again *)
(* and again unless it is disabled again and again.  In the states LoopDue *)
(* an iteration of the main loop is enabled, and so is the clock while a   *)
(* request is not overdue: FairSpec implies Served.  With the enabling     *)
(* conditions written out the prover needs no ENABLED.                     *)

LoopDue ==
  \/ game_state \in {"GAME_OVER", "GAME_OVER_double", "GAME_OVER_UPLOAD_SCORE_BEGIN",
                     "GAME_OVER_UPLOAD_SCORE_FINISH"}
  \/ game_state = "GAME_OVER_UPLOAD_SCORE_PROCESSING" /\ (upOverdue \/ ~ upProcessing)
  \/ game_state = "SCOREBOARD" /\ ~ scoreboard_shown /\ sbProcessing /\ sbOverdue
ClockDue == ~ upOverdue \/ ~ sbOverdue

Served ==
  /\ []<>(~ LoopDue) \/ []<><<MainLoop>>_vars
  /\ []<>(~ ClockDue) \/ []<><<Time>>_vars

(* The way from the end of a round to a result                             *)
RoundOver == game_state \in {"GAME_OVER", "GAME_OVER_double"}
Beginning == game_state = "GAME_OVER_UPLOAD_SCORE_BEGIN"
Uploading == game_state = "GAME_OVER_UPLOAD_SCORE_PROCESSING"
Finishing == game_state = "GAME_OVER_UPLOAD_SCORE_FINISH"
ResultUp == game_state \in Results

TooEarly == Uploading /\ upProcessing /\ ~ upOverdue
Over == Uploading /\ (~ upProcessing \/ upOverdue)

LEMMA UploadPath ==
  ASSUME TypeOK, [Next]_vars
  PROVE  /\ RoundOver => RoundOver' \/ Beginning'
         /\ Beginning => Beginning' \/ Uploading'
         /\ TooEarly => TooEarly' \/ Over'
         /\ TooEarly /\ sbOverdue => sbOverdue' \/ Over'
         /\ Over => Over' \/ Finishing'
         /\ Finishing => Finishing' \/ ResultUp'
<1> USE DEF RoundOver, Beginning, Uploading, Finishing, ResultUp, Results, TooEarly, Over
<1>1. CASE MenuPrepare \/ Menu \/ BoardPrepare \/ ScoreboardLoop \/ GamePrepare \/ InGame
            \/ KeyWaits
  BY <1>1 DEF MenuPrepare, Menu, BoardPrepare, ScoreboardLoop, GamePrepare, InGame, KeyWaits,
         Playing, PressWaits, ReleaseWaits, EnterReleaseWaits
<1>2. CASE GameOver \/ UploadBegin
  BY <1>2 DEF GameOver, UploadBegin, Goto, TypeOK
<1>3. CASE UploadProcessing \/ UploadFinish
  BY <1>3 DEF UploadProcessing, UploadFinish, Goto, Stay, Upload!Check, board, upload, TypeOK
<1>4. CASE Time
  BY <1>4 DEF Time, Upload!TimePasses, Board!TimePasses, upload, board, TypeOK
<1>5. CASE Network
  BY <1>5 DEF Network, Upload!Ended, Board!Ended, upload, board, TypeOK
<1>6. CASE (SecondKey \/ \E r \in Reports : FirstKey(r)) \/ UNCHANGED vars
  BY <1>6 DEF SecondKey, FirstKey, game, vars, upload, board, TypeOK
<1> QED
  BY <1>1, <1>2, <1>3, <1>4, <1>5, <1>6 DEF Next, GameCPU, MainLoop

LEMMA UploadMoves ==
  ASSUME TypeOK, MainLoop
  PROVE  /\ RoundOver => Beginning'
         /\ Beginning => Uploading'
         /\ Over => Finishing'
         /\ Finishing => ResultUp'
<1> USE DEF RoundOver, Beginning, Uploading, Finishing, ResultUp, Results, Over, Goto
<1>1. CASE MenuPrepare \/ Menu \/ BoardPrepare \/ ScoreboardLoop \/ GamePrepare \/ InGame
            \/ KeyWaits
  BY <1>1 DEF MenuPrepare, Menu, BoardPrepare, ScoreboardLoop, GamePrepare, InGame, KeyWaits,
         Playing, PressWaits, ReleaseWaits, EnterReleaseWaits
<1>2. CASE GameOver \/ UploadBegin \/ UploadFinish
  BY <1>2 DEF GameOver, UploadBegin, UploadFinish
<1>3. CASE UploadProcessing
  BY <1>3 DEF UploadProcessing, Upload!Check, TypeOK
<1> QED
  BY <1>1, <1>2, <1>3 DEF MainLoop

LEMMA ClockMoves ==
  ASSUME TypeOK, TooEarly, <<Time>>_vars
  PROVE  Over' \/ (~ sbOverdue /\ sbOverdue')
BY DEF TooEarly, Over, Uploading, Time, Upload!TimePasses, Board!TimePasses, TypeOK,
       vars, keyboard, screens, upload, board

(* A round that is over comes to its result, and so does an upload that is *)
(* tried again, with a server that is silent and answers of old attempts   *)
(* that come late (main.c:110-142, httpc.c:64-75).                         *)
THEOREM ResultsShown == Spec /\ Served => ResultShown
<1>1. TypeOK /\ [Next]_vars
        => /\ RoundOver => RoundOver' \/ Beginning'
           /\ Beginning => Beginning' \/ Uploading'
           /\ TooEarly => TooEarly' \/ Over'
           /\ TooEarly /\ sbOverdue => sbOverdue' \/ Over'
           /\ Over => Over' \/ Finishing'
           /\ Finishing => Finishing' \/ ResultUp'
  BY UploadPath
<1>2. TypeOK /\ <<MainLoop>>_vars
        => /\ RoundOver => Beginning'
           /\ Beginning => Uploading'
           /\ Over => Finishing'
           /\ Finishing => ResultUp'
  BY UploadMoves
<1>3. TypeOK /\ <<Time>>_vars => (TooEarly => Over' \/ (~ sbOverdue /\ sbOverdue'))
  BY ClockMoves
<1>4. RoundOver \/ Beginning \/ Over \/ Finishing => LoopDue
  BY DEF RoundOver, Beginning, Uploading, Over, Finishing, LoopDue
<1>5. TooEarly => ClockDue
  BY DEF TooEarly, ClockDue
<1>6. Uploading => TooEarly \/ Over
  BY DEF TooEarly, Over
<1>7. game_state \in {"GAME_OVER", "GAME_OVER_double", "GAME_OVER_UPLOAD_SCORE_BEGIN"}
        => RoundOver \/ Beginning
  BY DEF RoundOver, Beginning
<1>8. ResultUp => game_state \in Results
  BY DEF ResultUp
<1>9. Spec /\ Served => (Finishing ~> ResultUp)
  BY <1>1, <1>2, <1>4, ScreensTyped, PTL DEF Spec, Served
<1>10. Spec /\ Served => (Over ~> Finishing)
  BY <1>1, <1>2, <1>4, ScreensTyped, PTL DEF Spec, Served
<1>11. Spec /\ Served => (TooEarly ~> Over)
  BY <1>1, <1>3, <1>5, ScreensTyped, PTL DEF Spec, Served
<1>12. Spec /\ Served => (Beginning ~> Uploading)
  BY <1>1, <1>2, <1>4, ScreensTyped, PTL DEF Spec, Served
<1>13. Spec /\ Served => (RoundOver ~> Beginning)
  BY <1>1, <1>2, <1>4, ScreensTyped, PTL DEF Spec, Served
<1> QED
  BY <1>6, <1>7, <1>8, <1>9, <1>10, <1>11, <1>12, <1>13, PTL DEF ResultShown

(* The scoreboard: what may go on forever is only that R is pressed again  *)
(* just when the request is overdue.                                       *)
Loading == game_state = "SCOREBOARD" /\ sbProcessing
AskedAgain == \E c \in Conns : Board!Sent(c)

LEMMA BoardClock ==
  ASSUME TypeOK, [Next]_vars, Loading', ~ AskedAgain, Loading
  PROVE  sbOverdue => sbOverdue'
<1> USE DEF Loading, Playing, PressWaits, ReleaseWaits, EnterReleaseWaits
<1>1. CASE MenuPrepare \/ Menu \/ Between \/ BoardPrepare
  BY <1>1 DEF MenuPrepare, Menu, BoardPrepare, Between, GamePrepare, InGame, GameOver,
         UploadBegin, UploadProcessing, UploadFinish, KeyWaits
<1>2. CASE ScoreboardLoop
  BY <1>2 DEF ScoreboardLoop, AskedAgain, Board!Send, Board!Refused, BoardCheck, Board!Check,
         board, TypeOK
<1>3. CASE Time \/ Network
  BY <1>3 DEF Time, Network, Board!TimePasses, Board!Ended, board
<1>4. CASE (SecondKey \/ \E r \in Reports : FirstKey(r)) \/ UNCHANGED vars
  BY <1>4 DEF SecondKey, FirstKey, game, vars, board
<1> QED
  BY <1>1, <1>2, <1>3, <1>4 DEF Next, GameCPU, MainLoop, Between

LEMMA BoardGivesUp ==
  ASSUME TypeOK, ShownIsOver, MainLoop, Loading, sbOverdue, ~ AskedAgain
  PROVE  ~ Loading'
<1> USE DEF Loading, Playing, PressWaits, ReleaseWaits, EnterReleaseWaits
<1>1. ScoreboardLoop
  BY DEF MainLoop, MenuPrepare, Menu, BoardPrepare, GamePrepare, InGame, GameOver,
         UploadBegin, UploadProcessing, UploadFinish, KeyWaits
<1> QED
  BY <1>1 DEF ScoreboardLoop, AskedAgain, Board!Send, Board!Refused, BoardCheck, Board!Check,
         ShownIsOver, TypeOK

LEMMA BoardClockMoves ==
  ASSUME TypeOK, Loading, <<Time>>_vars, ~ sbOverdue
  PROVE  sbOverdue' \/ (~ upOverdue /\ upOverdue')
BY DEF Loading, Time, Upload!TimePasses, Board!TimePasses, TypeOK, vars, keyboard, screens,
       upload, board

LEMMA UploadClockKept ==
  ASSUME TypeOK, [Next]_vars, Loading
  PROVE  upOverdue => upOverdue'
<1> USE DEF Loading, Playing, PressWaits, ReleaseWaits, EnterReleaseWaits
<1>1. CASE MenuPrepare \/ Menu \/ Between \/ BoardPrepare \/ ScoreboardLoop
  BY <1>1 DEF MenuPrepare, Menu, BoardPrepare, ScoreboardLoop, Between, GamePrepare, InGame,
         GameOver, UploadBegin, UploadProcessing, UploadFinish, KeyWaits, upload
<1>2. CASE Time \/ Network
  BY <1>2 DEF Time, Network, Upload!TimePasses, Upload!Ended, upload
<1>3. CASE (SecondKey \/ \E r \in Reports : FirstKey(r)) \/ UNCHANGED vars
  BY <1>3 DEF SecondKey, FirstKey, game, vars, upload
<1> QED
  BY <1>1, <1>2, <1>3 DEF Next, GameCPU, MainLoop, Between

(* What the network closes ends the wait, so the connections of a board    *)
(* that keeps loading only accumulate.                                     *)
LEMMA ConnsKept ==
  ASSUME TypeOK, [Next]_vars, Loading, Loading'
  PROVE  sbOpen \subseteq sbOpen'
<1> USE DEF Loading, Playing, PressWaits, ReleaseWaits, EnterReleaseWaits
<1>1. CASE MenuPrepare \/ Menu \/ Between \/ BoardPrepare
  BY <1>1 DEF MenuPrepare, Menu, BoardPrepare, Between, GamePrepare, InGame, GameOver,
         UploadBegin, UploadProcessing, UploadFinish, KeyWaits
<1>2. CASE ScoreboardLoop
  BY <1>2 DEF ScoreboardLoop, Board!Send, Board!Sent, Board!Refused, BoardCheck, Board!Check,
         board, TypeOK
<1>3. CASE Time \/ Network
  BY <1>3 DEF Time, Network, Board!TimePasses, Board!Ended, board
<1>4. CASE (SecondKey \/ \E r \in Reports : FirstKey(r)) \/ UNCHANGED vars
  BY <1>4 DEF SecondKey, FirstKey, game, vars, board
<1> QED
  BY <1>1, <1>2, <1>3, <1>4 DEF Next, GameCPU, MainLoop, Between

(* A scoreboard could load forever only if the player asked for it again   *)
(* and again and every time another connection was opened, of which none   *)
(* is ever closed: lwIP has no such number of them (scoreboard.c:31-60,    *)
(* httpc.c:64-75).                                                         *)
THEOREM BoardsLoad ==
  Spec /\ Served =>
    \/ BoardLoads
    \/ []<><<AskedAgain>>_vars /\ <>[][sbOpen \subseteq sbOpen']_vars
<1>1. TypeOK /\ [Next]_vars /\ Loading /\ Loading' /\ sbOverdue /\ ~ AskedAgain => sbOverdue'
  BY BoardClock
<1>2. TypeOK /\ ShownIsOver /\ <<MainLoop>>_vars /\ Loading /\ sbOverdue /\ ~ AskedAgain
        => ~ Loading'
  BY BoardGivesUp
<1>3. TypeOK /\ <<Time>>_vars /\ Loading /\ ~ sbOverdue
        => sbOverdue' \/ (~ upOverdue /\ upOverdue')
  BY BoardClockMoves
<1>4. TypeOK /\ [Next]_vars /\ Loading /\ upOverdue => upOverdue'
  BY UploadClockKept
<1>5. Loading /\ sbOverdue /\ ShownIsOver /\ TypeOK => LoopDue
  BY DEF Loading, LoopDue, ShownIsOver, TypeOK
<1>6. ~ sbOverdue => ClockDue
  BY DEF ClockDue
<1>7. AskedAgain /\ TypeOK => <<AskedAgain>>_vars
  <2>1. AskedAgain => sbOpen' # sbOpen
    BY DEF AskedAgain, Board!Sent
  <2> QED
    BY <2>1 DEF vars, board
<1>8. ~ Loading => ~ sbProcessing \/ game_state # "SCOREBOARD"
  BY DEF Loading
<1>9. Spec /\ Served => []<>(~ Loading) \/ []<><<AskedAgain>>_vars
  BY <1>1, <1>2, <1>3, <1>4, <1>5, <1>6, <1>7, ScreensTyped, ShownBoardsAreOver, PTL
     DEF Spec, Served
<1>10. TypeOK /\ [Next]_vars /\ Loading /\ Loading' => [sbOpen \subseteq sbOpen']_vars
  BY ConnsKept
<1>11. Spec => ([]<>(~ Loading) \/ <>[][sbOpen \subseteq sbOpen']_vars)
  BY <1>10, ScreensTyped, PTL DEF Spec
<1> QED
  BY <1>8, <1>9, <1>11, PTL DEF BoardLoads
=============================================================================
