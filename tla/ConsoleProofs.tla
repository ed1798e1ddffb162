--------------------------- MODULE ConsoleProofs ----------------------------
(***************************************************************************)
(* The two CPUs side by side: UsbHost, which reads the keyboard, and the   *)
(* screens of the game, over the key codes in the memory they share        *)
(* (nios/ECE385_usb_src/main.c, nios/ECE385_src/main.c).                   *)
(*                                                                         *)
(* A step of the whole is a step of one CPU and what belongs to it.  What  *)
(* is proved of each by itself is shown to hold of the two together: the   *)
(* screens run on the key codes that UsbHost stores, those among them that *)
(* no keyboard has sent included.                                          *)
(***************************************************************************)
EXTENDS UsbHostProofs

CONSTANT Conns   \* as in Screens

VARIABLES   \* of the game CPU; keycode and report are those of UsbHost
  game_state, loads, menu_current_option, prev, scoreboard_shown,
  upProcessing, upFailed, upOverdue, upOpen,
  sbProcessing, sbFailed, sbOverdue, sbOpen,
  seen

Halfway == pc = "second" /\ keycode[2] # report[2]

Game == INSTANCE ScreensProofs WITH Reports <- Words, half <- Halfway

game ==
  <<game_state, loads, menu_current_option, prev, scoreboard_shown,
    upProcessing, upFailed, upOverdue, upOpen,
    sbProcessing, sbFailed, sbOverdue, sbOpen, seen>>
consoleVars == <<vars, game>>

ConsoleInit == Init /\ Game!Init

ConsoleNext ==
  \/ Next /\ UNCHANGED game
  \/ UNCHANGED vars /\ Game!GameCPU

ConsoleSpec == ConsoleInit /\ [][ConsoleNext]_consoleVars

-----------------------------------------------------------------------------
(* Both specifications at once                                             *)

LEMMA WordsAreCodes ==
  Words \subseteq Game!Codes \X Game!Codes /\ <<Game!None, Game!None>> \in Words
BY WordsTyped, ReportsAssumption DEF Words, Bytes, Game!Codes, Game!None

LEMMA GameKept == UNCHANGED game => UNCHANGED Game!game
BY DEF game, Game!game, Game!screens, Game!upload, Game!board

LEMMA GameVars ==
  UNCHANGED game /\ UNCHANGED <<keycode, report, Halfway>> => UNCHANGED Game!vars
BY DEF game, Game!vars, Game!keyboard, Game!screens, Game!upload, Game!board

LEMMA HostAlone == [ConsoleNext]_consoleVars => [Next]_vars
BY DEF ConsoleNext, consoleVars

(* A store of a key code is a step of the keyboard the screens know; what  *)
(* else the USB CPU does, they do not see.                                 *)
LEMMA HostSeen ==
  ASSUME TypeOK, Next, UNCHANGED game
  PROVE  [Game!Next]_(Game!vars)
<1>1. CASE StoreFirst \/ StoreSecond
  <2>1. Codes!Next \/ UNCHANGED Codes!vars
    BY <1>1, StoresRefine
  <2>2. CASE \E r \in Words : Codes!FirstKey(r)
    BY <2>2, GameKept DEF Codes!FirstKey, Game!FirstKey, Game!Keys!FirstKey, Game!Next, Halfway
  <2>3. CASE Codes!SecondKey
    BY <2>3, GameKept DEF Codes!SecondKey, Game!SecondKey, Game!Keys!SecondKey, Game!Next, Halfway
  <2>4. CASE UNCHANGED Codes!vars
    BY <2>4, GameVars DEF Codes!vars, Halfway
  <2> QED
    BY <2>1, <2>2, <2>3, <2>4 DEF Codes!Next
<1>2. CASE ~ StoreFirst /\ ~ StoreSecond
  <2>1. UNCHANGED Codes!vars
    BY <1>2, OthersStutter
  <2> QED
    BY <2>1, GameVars DEF Codes!vars, Halfway
<1> QED
  BY <1>1, <1>2

LEMMA ScreensSeen == TypeOK /\ [ConsoleNext]_consoleVars => [Game!Next]_(Game!vars)
<1>1. CASE Game!GameCPU
  BY <1>1 DEF Game!Next
<1>2. CASE UNCHANGED consoleVars
  BY <1>2, GameVars DEF consoleVars, vars, shared, Halfway
<1> QED
  BY <1>1, <1>2, HostSeen DEF ConsoleNext

(* What was proved of the USB CPU with any keyboard, and of the screens    *)
(* with any key codes that keep the contract, holds of the two together:   *)
(* neither leaves the other's specification (comm.h, main.c:612-619).      *)
THEOREM ConsoleKeepsBoth == ConsoleSpec => Spec /\ Game!Spec
<1>1. ConsoleInit => Init /\ Game!Init
  BY DEF ConsoleInit
<1>2. ConsoleSpec => Spec
  BY <1>1, HostAlone, PTL DEF ConsoleSpec, Spec
<1>3. ConsoleSpec => []TypeOK
  BY <1>2, TypeCorrect, PTL
<1>4. ConsoleSpec => Game!Spec
  BY <1>1, <1>3, ScreensSeen, PTL DEF ConsoleSpec, Game!Spec
<1> QED
  BY <1>2, <1>4, PTL

-----------------------------------------------------------------------------
(* What holds from the keyboard to the screen                              *)

(* Commands come from the keyboard: Game!CommandsTyped for its reports     *)
(* alone, without the words of a transfer list.                            *)
CommandsReported ==
  [][/\ game_state = "MAIN_MENU" /\ game_state' # game_state
          => \E r \in Reports : r[1] = Game!Enter
     /\ game_state = "SCOREBOARD" /\ game_state' # game_state
          => \E r \in Reports : r[1] = Game!Esc
     /\ game_state = "IN_GAME" /\ game_state' = "GAME_OVER"
          => \E r \in Reports : Game!Esc \in {r[1], r[2]}
     /\ game_state = "GAME_OVER_WAIT_ENTER_PRESS" /\ game_state' # game_state
          => \E r \in Reports : Game!Enter \in {r[1], r[2]}
     /\ game_state = "GAME_OVER_WAIT_ENTER_PRESS_OR_R_PRESS" /\ game_state' # game_state
          => \E r \in Reports : {Game!Enter, Game!R} \cap {r[1], r[2]} # {}]_game

(* The words of a transfer list hold no command.                           *)
LEMMA ListCommandsNothing ==
  ASSUME NEW r \in Words, {Game!Enter, Game!R, Game!Esc} \cap {r[1], r[2]} # {}
  PROVE  r \in Reports
BY DEF Words, ListWord, Game!Enter, Game!R, Game!Esc

(* The key codes that the USB CPU takes from a transfer list, before the   *)
(* first report of a keyboard, reach the screens but leave none of them:   *)
(* what acts is a key of a report (main.c:612 of the USB CPU, main.c:28-53 *)
(* of the game).                                                           *)
THEOREM PhantomsCommandNothing == ConsoleSpec => CommandsReported
<1> DEFINE
      Commands(K) ==
        /\ game_state = "MAIN_MENU" /\ game_state' # game_state
             => \E r \in K : r[1] = Game!Enter
        /\ game_state = "SCOREBOARD" /\ game_state' # game_state
             => \E r \in K : r[1] = Game!Esc
        /\ game_state = "IN_GAME" /\ game_state' = "GAME_OVER"
             => \E r \in K : Game!Esc \in {r[1], r[2]}
        /\ game_state = "GAME_OVER_WAIT_ENTER_PRESS" /\ game_state' # game_state
             => \E r \in K : Game!Enter \in {r[1], r[2]}
        /\ game_state = "GAME_OVER_WAIT_ENTER_PRESS_OR_R_PRESS" /\ game_state' # game_state
             => \E r \in K : {Game!Enter, Game!R} \cap {r[1], r[2]} # {}
<1>1. ConsoleSpec => Game!CommandsTyped
  BY WordsAreCodes, Game!OnlyReportedKeysAct, ConsoleKeepsBoth, PTL
<1>2. Commands(Words) => Commands(Reports)
  BY ListCommandsNothing
<1>3. UNCHANGED Game!vars => UNCHANGED game
  BY DEF game, Game!vars, Game!screens, Game!upload, Game!board
<1>4. [Commands(Words)]_(Game!vars) => [Commands(Reports)]_game
  BY <1>2, <1>3
<1>5. Game!CommandsTyped => [][Commands(Words)]_(Game!vars)
  BY PTL DEF Game!CommandsTyped
<1>6. [][Commands(Reports)]_game => CommandsReported
  BY PTL DEF CommandsReported
<1> HIDE DEF Commands
<1> QED
  BY <1>1, <1>4, <1>5, <1>6, PTL

(* With the real keyboard CPU beside the game, too, a release of Enter is  *)
(* taken for real too early only when the USB CPU moves Enter between the  *)
(* slots under the loads of the game: it is between its two stores, or it  *)
(* has stored slot 0 after the game has passed it (main.c:612-619 of the   *)
(* USB CPU, main.c:28-35 and 153-169 of the game).                         *)
THEOREM ReleaseMissedInMotion ==
  ConsoleSpec =>
    [][/\ game_state \in Game!EnterReleaseWaits /\ game_state' # game_state
       /\ Game!Enter \in {report[1], report[2]}
       => \/ pc = "second" /\ report[2] = Game!Enter /\ keycode[2] # Game!Enter
          \/ report[1] = Game!Enter /\ loads = 1]_game
<1> DEFINE
      Over == game_state \in Game!EnterReleaseWaits /\ game_state' # game_state
      Reported == Game!Enter \in {report[1], report[2]}
      Passed == game_state \in Game!EnterReleaseWaits /\ loads = 0 /\ loads' = 1
                  => report[1] # Game!Enter
      AtHalf == Halfway /\ report[2] = Game!Enter /\ report[1] # Game!Enter
      AtSecond == pc = "second" /\ report[2] = Game!Enter /\ keycode[2] # Game!Enter
      Came == report[1] = Game!Enter /\ loads = 1
<1>1. ConsoleSpec => Game!ReleaseMissedByMove
  BY WordsAreCodes, Game!ReleaseMissedOnlyByMove, ConsoleKeepsBoth, PTL
<1>2. UNCHANGED Game!vars => UNCHANGED game
  BY DEF game, Game!vars, Game!screens, Game!upload, Game!board
<1>3. [Passed /\ (Over /\ Reported => AtHalf \/ Came)]_(Game!vars)
        => [Over /\ Reported => AtSecond \/ Came]_game
  BY <1>2 DEF Halfway
<1>4. Game!ReleaseMissedByMove
        => [][Passed /\ (Over /\ Reported => AtHalf \/ Came)]_(Game!vars)
  BY PTL DEF Game!ReleaseMissedByMove
<1> QED
  BY <1>1, <1>3, <1>4, PTL

(* And a player who holds Enter while the keyboard reports nothing else is *)
(* not missed, from the report in the buffer of the USB CPU to the screen. *)
THEOREM EnterIsHeldEndToEnd == ConsoleSpec => Game!HeldEnterSeen
BY WordsAreCodes, Game!EnterIsHeld, ConsoleKeepsBoth, PTL

(* A round ends in a result on the screen, and what the scoreboard shows is*)
(* loaded, also with the real keyboard CPU beside the game.                *)
THEOREM ConsoleShows ==
  ConsoleSpec => [](Game!ShownIsOver) /\ (Game!Served => Game!ResultShown)
<1>1. ConsoleSpec => Game!Spec
  BY ConsoleKeepsBoth, PTL
<1> QED
  BY <1>1, WordsAreCodes, Game!ShownBoardsAreOver, Game!ResultsShown, PTL
=============================================================================
