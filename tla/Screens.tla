------------------------------- MODULE Screens ------------------------------
(***************************************************************************)
(* The main loop of the game CPU (nios/ECE385_src/main.c) with its menu,   *)
(* its scoreboard, the upload of a score, and the keyboard codes that the  *)
(* USB CPU writes into shared memory (ECE385_usb_src/main.c).              *)
(*                                                                         *)
(* One action is one iteration of the loop: the case of game_state, or one *)
(* load of a key slot where the case looks for a key.  The USB CPU runs    *)
(* beside it and writes a report slot by slot; the callbacks of the network*)
(* run in eth_loop, between two cases.  A round is GamePlay, of which the  *)
(* main loop sees only how it ends; the key codes behave as Keyboard says, *)
(* which UsbHost implements, and the two HTTP requests as HttpRequest says,*)
(* which Httpc implements.                                                 *)
(***************************************************************************)
EXTENDS Integers

CONSTANTS
  Conns,    \* connections lwIP can have open for one request
  Reports   \* the keyboard reports that occur: <<first key, second key>>

(* USB usage codes: a byte each.  All but these mean nothing to a screen.  *)
Codes == 0 .. 255
None == 0
Enter == 40   \* 0x28
R == 21       \* 0x15
Esc == 41     \* 0x29
Right == {79, 7}   \* 0x4F, D
Left == {80, 4}    \* 0x50, A

ASSUME ReportsAssumption == Reports \subseteq Codes \X Codes /\ <<None, None>> \in Reports

VARIABLES
  game_state,
  keycode,     \* keycode_comm->keycode[0] and [1]; the other four stay 0
  report,      \* the report the USB CPU has read last
  half,        \* it has written slot 0 of it, and slot 1 is still to change
  loads,       \* key slots loaded in this iteration, none with the key; 0 between two
  menu_current_option,
  prev,        \* the static prev_keycode of main_menu_loop and scoreboard_loop
  scoreboard_shown,
  upProcessing, upFailed, upOverdue, upOpen,   \* http_score_upload
  sbProcessing, sbFailed, sbOverdue, sbOpen,   \* scoreboard_request
  seen         \* history: {} if this visit of the menu, or of the scoreboard, has
               \* read no code yet, and else None and the commands that it has read

keyboard == <<keycode, report, half>>
upload == <<upProcessing, upFailed, upOverdue, upOpen>>
board == <<sbProcessing, sbFailed, sbOverdue, sbOpen>>
screens == <<menu_current_option, prev, scoreboard_shown, seen>>
game == <<game_state, loads, screens, upload, board>>
vars == <<game_state, loads, keyboard, screens, upload, board>>

Keys == INSTANCE Keyboard
Upload == INSTANCE HttpRequest WITH
  processing <- upProcessing, failed <- upFailed, overdue <- upOverdue, open <- upOpen
Board == INSTANCE HttpRequest WITH
  processing <- sbProcessing, failed <- sbFailed, overdue <- sbOverdue, open <- sbOpen

MENU_PLAY == 0
MENU_SCOREBOARD == 1
MENU_DOUBLEPLAY == 2

Init ==
  /\ game_state = "MAIN_MENU_PREPARE"
  /\ Keys!Init
  /\ loads = 0
  /\ menu_current_option = MENU_PLAY
  /\ prev = [menu |-> None, board |-> None]
  /\ scoreboard_shown = FALSE
  /\ seen = {}
  /\ Upload!Init /\ Board!Init

(* What a round is to the screens: all other states look the same.         *)
round ==
  IF game_state \in {"IN_GAME", "IN_GAME_double", "GAME_OVER", "GAME_OVER_double"}
    THEN game_state ELSE "MENU"
Rounds == INSTANCE Round WITH state <- round

Goto(state) == game_state' = state
Stay == UNCHANGED game_state

Noted(code, commands) == seen \cup {None} \cup ({code} \cap commands)

-----------------------------------------------------------------------------
(* enter_pressed, r_pressed and esc_pressed load the slots one after the   *)
(* other, while the other CPU stores: a load is a step.                    *)

Playing == {"IN_GAME", "IN_GAME_double"}
PressWaits == {"GAME_OVER_WAIT_ENTER_PRESS", "GAME_OVER_WAIT_ENTER_PRESS_OR_R_PRESS"}
EnterReleaseWaits == {"GAME_OVER_WAIT_ENTER_RELEASE_TO_SCOREBOARD",
                      "GAME_OVER_WAIT_ENTER_RELEASE_TO_MENU"}
ReleaseWaits == EnterReleaseWaits \cup {"GAME_OVER_WAIT_R_RELEASE"}

(* Where two keys are looked for, the slots are loaded for Enter, then for *)
(* R.                                                                      *)
Sought ==
  IF game_state \in Playing THEN Esc
  ELSE IF game_state = "GAME_OVER_WAIT_R_RELEASE" \/ loads \in {2, 3} THEN R
  ELSE Enter
Slot == IF loads \in {0, 2} THEN 1 ELSE 2
LastLoad == IF game_state = "GAME_OVER_WAIT_ENTER_PRESS_OR_R_PRESS" THEN 3 ELSE 1

Found(code) == Sought = code /\ keycode[Slot] = code /\ loads' = 0
NotFound == loads = LastLoad /\ keycode[Slot] # Sought /\ loads' = 0
LookOn == loads < LastLoad /\ keycode[Slot] # Sought /\ loads' = loads + 1 /\ Stay

-----------------------------------------------------------------------------
(* The menu: the keys of slot 0 act when they are released, or replaced.   *)

MenuCommands == {Enter} \cup Right \cup Left
BoardCommands == {Esc, R}

RememberedLate(old, code) == IF old \in {Enter, Esc} THEN old ELSE code   \* mutant
Remembered(old, code)     == code

MovedUnclamped(option, key) ==   \* mutant: runs off the end of the menu
  IF key \in Right THEN option + 1 ELSE IF key \in Left THEN option - 1 ELSE option
Moved(option, key) ==
  IF key \in Right /\ option < MENU_DOUBLEPLAY THEN option + 1
  ELSE IF key \in Left /\ option > MENU_PLAY THEN option - 1
  ELSE option

Choice(option) ==
  IF option = MENU_PLAY THEN "PREPARE_GAME"
  ELSE IF option = MENU_SCOREBOARD THEN "SCOREBOARD_PREPARE"
  ELSE "PREPARE_GAME_DOUBLE"

(* main_menu_init *)
MenuPrepare ==
  /\ game_state = "MAIN_MENU_PREPARE"
  /\ menu_current_option' = MENU_PLAY
  /\ seen' = {}
  /\ Goto("MAIN_MENU")
  /\ UNCHANGED <<loads, keyboard, prev, scoreboard_shown, upload, board>>

(* main_menu_loop *)
Menu ==
  LET code == keycode[1]
      key == IF code # prev.menu THEN prev.menu ELSE None
  IN
  /\ game_state = "MAIN_MENU"
  /\ menu_current_option' = Moved(menu_current_option, key)
  /\ IF key = Enter THEN Goto(Choice(menu_current_option)) ELSE Stay
  /\ prev' = [prev EXCEPT !.menu = Remembered(@, code)]
  /\ seen' = IF game_state' = game_state THEN Noted(code, MenuCommands) ELSE {}
  /\ UNCHANGED <<loads, keyboard, scoreboard_shown, upload, board>>

-----------------------------------------------------------------------------
(* The scoreboard *)

(* scoreboard_init *)
BoardPrepare ==
  /\ game_state = "SCOREBOARD_PREPARE"
  /\ Board!Send
  /\ scoreboard_shown' = FALSE
  /\ seen' = {}
  /\ Goto("SCOREBOARD")
  /\ UNCHANGED <<loads, keyboard, menu_current_option, prev, upload>>

(* "!scoreboard_shown && !httpc_processing": a board that is shown does    *)
(* not look at the clock.                                                  *)
BoardPeeks == UNCHANGED board   \* mutant: reads the flag only
BoardCheck == IF scoreboard_shown THEN UNCHANGED board ELSE Board!Check
StillLoading == sbProcessing /\ (scoreboard_shown \/ ~ sbOverdue)

(* scoreboard_loop *)
ScoreboardLoop ==
  LET code == keycode[1]
      key == IF code # prev.board THEN prev.board ELSE None
  IN
  /\ game_state = "SCOREBOARD"
  /\ IF key = R /\ ~ StillLoading
       THEN Board!Send /\ scoreboard_shown' = FALSE
       ELSE BoardCheck /\ scoreboard_shown' = (scoreboard_shown \/ ~ sbProcessing')
  /\ IF key = Esc THEN Goto("MAIN_MENU_PREPARE") ELSE Stay
  /\ prev' = [prev EXCEPT !.board = Remembered(@, code)]
  /\ seen' = IF game_state' = game_state THEN Noted(code, BoardCommands) ELSE {}
  /\ UNCHANGED <<loads, keyboard, menu_current_option, upload>>

-----------------------------------------------------------------------------
(* A round, as the main loop sees it                                       *)

(* game_init and game_init_double *)
GamePrepare ==
  /\ \/ game_state = "PREPARE_GAME" /\ Goto("IN_GAME")
     \/ game_state = "PREPARE_GAME_DOUBLE" /\ Goto("IN_GAME_double")
  /\ UNCHANGED <<loads, keyboard, screens, upload, board>>

(* game_loop and game_loop_double: Esc quits, and the frame can end either *)
(* kind of round with GAME_OVER_double (sprites.c:268).                    *)
InGame ==
  /\ game_state \in Playing
  /\ \/ LookOn
     \/ /\ Found(Esc)
        /\ Goto(IF game_state = "IN_GAME" THEN "GAME_OVER" ELSE "GAME_OVER_double")
     \/ NotFound /\ game_state' \in {game_state, "GAME_OVER_double"}
  /\ UNCHANGED <<keyboard, screens, upload, board>>

GameOver ==
  /\ game_state \in {"GAME_OVER", "GAME_OVER_double"}
  /\ Goto("GAME_OVER_UPLOAD_SCORE_BEGIN")
  /\ UNCHANGED <<loads, keyboard, screens, upload, board>>

-----------------------------------------------------------------------------
(* The upload of the score                                                 *)

UploadBegin ==
  /\ game_state = "GAME_OVER_UPLOAD_SCORE_BEGIN"
  /\ Upload!Send
  /\ Goto("GAME_OVER_UPLOAD_SCORE_PROCESSING")
  /\ UNCHANGED <<loads, keyboard, screens, board>>

UploadProcessing ==
  /\ game_state = "GAME_OVER_UPLOAD_SCORE_PROCESSING"
  /\ Upload!Check
  /\ IF upProcessing' THEN Stay ELSE Goto("GAME_OVER_UPLOAD_SCORE_FINISH")
  /\ UNCHANGED <<loads, keyboard, screens, board>>

UploadFinish ==
  /\ game_state = "GAME_OVER_UPLOAD_SCORE_FINISH"
  /\ Goto(IF upFailed THEN "GAME_OVER_WAIT_ENTER_PRESS_OR_R_PRESS"
                      ELSE "GAME_OVER_WAIT_ENTER_PRESS")
  /\ UNCHANGED <<loads, keyboard, screens, upload, board>>

(* The key that is waited for, and where it leads.                         *)
KeyWaits ==
  /\ \/ game_state \in PressWaits \cup ReleaseWaits /\ LookOn
     \/ /\ game_state = "GAME_OVER_WAIT_ENTER_PRESS"
        /\ Found(Enter)
        /\ Goto("GAME_OVER_WAIT_ENTER_RELEASE_TO_SCOREBOARD")
     \/ /\ game_state = "GAME_OVER_WAIT_ENTER_PRESS_OR_R_PRESS"
        /\ \/ Found(Enter) /\ Goto("GAME_OVER_WAIT_ENTER_RELEASE_TO_MENU")
           \/ Found(R) /\ Goto("GAME_OVER_WAIT_R_RELEASE")
     \/ game_state \in PressWaits /\ NotFound /\ Stay
     \/ game_state \in ReleaseWaits /\ (Found(Enter) \/ Found(R)) /\ Stay
     \/ /\ game_state = "GAME_OVER_WAIT_ENTER_RELEASE_TO_SCOREBOARD"
        /\ NotFound
        /\ Goto("SCOREBOARD_PREPARE")
     \/ /\ game_state = "GAME_OVER_WAIT_ENTER_RELEASE_TO_MENU"
        /\ NotFound
        /\ Goto("MAIN_MENU_PREPARE")
     \/ /\ game_state = "GAME_OVER_WAIT_R_RELEASE"
        /\ NotFound
        /\ Goto("GAME_OVER_UPLOAD_SCORE_BEGIN")
  /\ UNCHANGED <<keyboard, screens, upload, board>>

MainLoop ==
  \/ MenuPrepare \/ Menu \/ BoardPrepare \/ ScoreboardLoop
  \/ GamePrepare \/ InGame \/ GameOver
  \/ UploadBegin \/ UploadProcessing \/ UploadFinish \/ KeyWaits

-----------------------------------------------------------------------------
(* The USB CPU: the two codes of a report are two stores.                  *)

FirstKey(r) == Keys!FirstKey(r) /\ UNCHANGED game
SecondKey == Keys!SecondKey /\ UNCHANGED game

(* The network and the clock                                               *)
Time ==
  /\ \/ Upload!TimePasses /\ UNCHANGED board
     \/ Board!TimePasses /\ UNCHANGED upload
  /\ UNCHANGED <<game_state, loads, keyboard, screens>>

Network ==
  /\ loads = 0
  /\ \/ \E c \in Conns : Upload!Ended(c) /\ UNCHANGED board
     \/ \E c \in Conns : Board!Ended(c) /\ UNCHANGED upload
  /\ UNCHANGED <<game_state, loads, keyboard, screens>>

GameCPU == MainLoop \/ Time \/ Network

Next == GameCPU \/ SecondKey \/ \E r \in Reports : FirstKey(r)

Spec == Init /\ [][Next]_vars

(* The main loop and the clock go on.  No key is ever pressed, and no      *)
(* server ever answers, for sure.                                          *)
FairSpec == Spec /\ WF_vars(MainLoop) /\ WF_vars(Time)

-----------------------------------------------------------------------------
(* Correctness *)

States ==
  {"PREPARE_GAME", "IN_GAME", "GAME_OVER",
   "PREPARE_GAME_DOUBLE", "IN_GAME_double", "GAME_OVER_double",
   "GAME_OVER_UPLOAD_SCORE_BEGIN", "GAME_OVER_UPLOAD_SCORE_PROCESSING",
   "GAME_OVER_UPLOAD_SCORE_FINISH", "GAME_OVER_WAIT_ENTER_PRESS",
   "GAME_OVER_WAIT_ENTER_PRESS_OR_R_PRESS",
   "GAME_OVER_WAIT_ENTER_RELEASE_TO_SCOREBOARD",
   "GAME_OVER_WAIT_ENTER_RELEASE_TO_MENU", "GAME_OVER_WAIT_R_RELEASE",
   "MAIN_MENU_PREPARE", "MAIN_MENU", "SCOREBOARD_PREPARE", "SCOREBOARD"}

(* The types: the menu stays on one of its three options.                  *)
TypeOK ==
  /\ game_state \in States
  /\ keycode \in Codes \X Codes /\ report \in Codes \X Codes /\ half \in BOOLEAN
  /\ loads \in 0 .. LastLoad
  /\ menu_current_option \in {MENU_PLAY, MENU_SCOREBOARD, MENU_DOUBLEPLAY}
  /\ prev \in [menu : Codes, board : Codes]
  /\ scoreboard_shown \in BOOLEAN
  /\ seen \subseteq Codes
  /\ upProcessing \in BOOLEAN /\ upFailed \in BOOLEAN /\ upOverdue \in BOOLEAN
  /\ sbProcessing \in BOOLEAN /\ sbFailed \in BOOLEAN /\ sbOverdue \in BOOLEAN
  /\ upOpen \subseteq Conns /\ sbOpen \subseteq Conns

(* The two loops remember the last code in a static variable, which is not *)
(* cleared between visits.  Still, no screen is left by a key of an        *)
(* earlier visit: the menu only for an Enter, the scoreboard only for an   *)
(* Esc, that it has read itself.  A Right, Left or R that was held when an *)
(* earlier visit ended can act, but only in the first look of the next one:*)
(* later ones act on keys of their own visit (main_menu.c:66-104,          *)
(* scoreboard.c:49-63).                                                    *)
CommandsGiven ==
  [][/\ (game_state = "MAIN_MENU" /\ game_state' # "MAIN_MENU") => Enter \in seen
     /\ (game_state = "SCOREBOARD" /\ game_state' # "SCOREBOARD") => Esc \in seen
     /\ (game_state = "MAIN_MENU" /\ menu_current_option' # menu_current_option)
          => seen = {} \/ seen \cap (Right \cup Left) # {}
     /\ (game_state = "SCOREBOARD" /\ ~ (sbOpen' \subseteq sbOpen))
          => seen = {} \/ R \in seen]_vars

Results == {"GAME_OVER_WAIT_ENTER_PRESS", "GAME_OVER_WAIT_ENTER_PRESS_OR_R_PRESS"}

(* A round that is over, and an upload tried again, come to a result, even *)
(* if no server answers and answers of old attempts come late.             *)
ResultShown ==
  game_state \in {"GAME_OVER", "GAME_OVER_double", "GAME_OVER_UPLOAD_SCORE_BEGIN"}
    ~> game_state \in Results

(* A player who stays on the scoreboard does not see it load forever.      *)
BoardLoads == []<>(~ sbProcessing) \/ []<>(game_state # "SCOREBOARD")

(* The scoreboard says that it is loaded only when its request is over     *)
(* (scoreboard.c:32-47).                                                   *)
ShownIsOver == scoreboard_shown => ~ sbProcessing

(* Every command is a key that the keyboard can report: slot 0 for the     *)
(* menu and the scoreboard, either slot elsewhere, and not a mixture of    *)
(* two reports that nobody has typed (main.c:28-53, main_menu.c:66-104).   *)
CommandsTyped ==
  [][/\ game_state = "MAIN_MENU" /\ game_state' # game_state
          => \E r \in Reports : r[1] = Enter
     /\ game_state = "SCOREBOARD" /\ game_state' # game_state
          => \E r \in Reports : r[1] = Esc
     /\ game_state = "IN_GAME" /\ game_state' = "GAME_OVER"
          => \E r \in Reports : Esc \in {r[1], r[2]}
     /\ game_state = "GAME_OVER_WAIT_ENTER_PRESS" /\ game_state' # game_state
          => \E r \in Reports : Enter \in {r[1], r[2]}
     /\ game_state = "GAME_OVER_WAIT_ENTER_PRESS_OR_R_PRESS" /\ game_state' # game_state
          => \E r \in Reports : {Enter, R} \cap {r[1], r[2]} # {}]_vars

(* "Wait for the user to release Enter" (main.c:203-204): the wait is over *)
(* only when the keyboard no longer reports the key.                       *)
ReleaseAwaited ==
  [][game_state' # game_state
     /\ game_state \in {"GAME_OVER_WAIT_ENTER_RELEASE_TO_SCOREBOARD",
                       "GAME_OVER_WAIT_ENTER_RELEASE_TO_MENU"}
       => Enter \notin {report[1], report[2]}]_vars

(* When it is not: Enter moves between the slots while they are looked at. *)
(* Slot 0 is passed over only for an Enter that is in the second slot, and *)
(* the iteration that ends the wait has either met an Enter on its way to  *)
(* slot 1, of which only slot 0 is written yet, or has passed slot 0 before*)
(* Enter came there.                                                       *)
ReleaseMissedByMove ==
  [][/\ game_state \in EnterReleaseWaits /\ loads = 0 /\ loads' = 1
          => report[1] # Enter
     /\ game_state \in EnterReleaseWaits /\ game_state' # game_state
        /\ Enter \in {report[1], report[2]}
          => \/ half /\ report[2] = Enter /\ report[1] # Enter
             \/ report[1] = Enter /\ loads = 1]_vars

(* As long as the keyboard goes on reporting the same keys, Enter among    *)
(* them, and both are stored, the wait goes on.                            *)
EnterHeld ==
  /\ game_state \in EnterReleaseWaits /\ loads = 0
  /\ ~ half /\ Enter \in {report[1], report[2]}
HeldEnterSeen ==
  [](EnterHeld /\ [][UNCHANGED report]_vars => [](game_state \in EnterReleaseWaits))
=============================================================================
