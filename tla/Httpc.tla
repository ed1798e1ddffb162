-------------------------------- MODULE Httpc -------------------------------
(***************************************************************************)
(* The request of nios/ECE385_src/httpc.c, its connections in lwIP's HTTP  *)
(* client, and the screen that uploads the score with it (main.c).         *)
(*                                                                         *)
(* lwIP is compiled with NO_SYS: its callbacks run in eth_loop, on the     *)
(* thread of the main loop, between two steps of the screen.  The struct   *)
(* is used again for every attempt, and nothing in it or in the callbacks  *)
(* says which attempt a connection belongs to.                             *)
(***************************************************************************)
EXTENDS Integers

CONSTANTS
  Conns,     \* TCP connections
  Timeout,   \* HTTPC_TIMEOUT, in ticks of the model's clock
  Chunks,    \* bound: pieces of content one connection receives
  Returns    \* the screen can be left and entered again while it waits

ASSUME TimeoutAssumption == Timeout \in Nat \ {0}
ASSUME ChunksAssumption  == Chunks \in Nat
ASSUME ReturnsAssumption == Returns \in BOOLEAN

VARIABLES
  processing, error, len,   \* the fields of httpc_request
  elapsed,                  \* clock() - request_start, saturating at Timeout
  conns,                    \* lwIP's httpc_state_t: whether open, rx_content_len
  screen,                   \* the screen's step: "rest", "wait", "finish"
  shown,                    \* what it has told the player last
  answered, complete        \* history: since the last send a connection has
                            \* ended with ERR_OK; with HTTPC_RESULT_OK

vars == <<processing, error, len, elapsed, conns, screen, shown, answered, complete>>
request == <<processing, error, len>>

Closed == [open |-> FALSE, rx |-> 0]
OpenConns == {c \in Conns : conns[c].open}

Init ==
  /\ processing = FALSE /\ error = FALSE /\ len = 0
  /\ elapsed = Timeout
  /\ conns = [c \in Conns |-> Closed]
  /\ screen = "rest" /\ shown = "none"
  /\ answered = FALSE /\ complete = FALSE

-----------------------------------------------------------------------------
(* httpc_send_request, after its caller has cleared processing and error.  *)

(* No address, or httpc_get_file_dns has failed.                           *)
FailsStillBusy ==   \* mutant: processing is left as the last attempt left it
  /\ UNCHANGED processing /\ error' = TRUE
  /\ UNCHANGED conns
SendFails ==
  /\ processing' = FALSE /\ error' = TRUE
  /\ UNCHANGED conns

SendGoesOut ==
  \E c \in Conns \ OpenConns :
    /\ conns' = [conns EXCEPT ![c] = [open |-> TRUE, rx |-> 0]]
    /\ processing' = TRUE /\ error' = FALSE

SendRequest ==
  /\ SendFails \/ SendGoesOut
  /\ len' = 0
  /\ elapsed' = 0
  /\ answered' = FALSE /\ complete' = FALSE

(* GAME_OVER_UPLOAD_SCORE_BEGIN, after a round or after R                  *)
Begin ==
  /\ screen = "rest"
  /\ SendRequest
  /\ screen' = "wait"
  /\ UNCHANGED shown

(* scoreboard_init: Esc has left the screen, which is entered again.       *)
Return ==
  /\ Returns
  /\ screen = "wait"
  /\ SendRequest
  /\ UNCHANGED <<screen, shown>>

(* httpc_processing *)
TimedOut == elapsed >= Timeout
ProcessingForever == UNCHANGED <<processing, error>>   \* mutant: no timeout
ProcessingSilent ==    \* mutant: forgets to set error
  IF TimedOut THEN processing' = FALSE /\ UNCHANGED error
              ELSE UNCHANGED <<processing, error>>
Processing ==
  IF TimedOut THEN processing' = FALSE /\ error' = TRUE
              ELSE UNCHANGED <<processing, error>>

(* GAME_OVER_UPLOAD_SCORE_PROCESSING *)
Wait ==
  /\ screen = "wait"
  /\ Processing
  /\ screen' = IF processing' THEN "wait" ELSE "finish"
  /\ UNCHANGED <<len, elapsed, conns, shown, answered, complete>>

(* GAME_OVER_UPLOAD_SCORE_FINISH: a later iteration of the main loop, with *)
(* an eth_loop in between.                                                 *)
Finish ==
  /\ screen = "finish"
  /\ shown' = IF error THEN "failure" ELSE "success"
  /\ screen' = "rest"
  /\ UNCHANGED <<request, elapsed, conns, answered, complete>>

-----------------------------------------------------------------------------
(* lwIP, in eth_loop                                                       *)

Clock ==
  /\ elapsed < Timeout
  /\ elapsed' = elapsed + 1
  /\ UNCHANGED <<request, conns, screen, shown, answered, complete>>

(* httpc_callback *)
Callback(c) ==
  /\ conns[c].open
  /\ conns[c].rx < Chunks
  /\ conns' = [conns EXCEPT ![c].rx = @ + 1]
  /\ len' = len + 1
  /\ UNCHANGED <<processing, error, elapsed, screen, shown, answered, complete>>

(* How httpc_close can be called: httpc_result_t and err.  A close by the  *)
(* server and the client's own timeout come with ERR_OK.                   *)
Endings(rx) ==
  {[result |-> "OK", err |-> "ERR_OK"],
   [result |-> "ERR_CONTENT_LEN", err |-> "ERR_OK"],
   [result |-> "ERR_TIMEOUT", err |-> "ERR_OK"],
   [result |-> "ERR_CLOSED", err |-> "ERR"]}
  \cup IF rx = 0
         THEN {[result |-> "ERR_CLOSED", err |-> "ERR_OK"],
               [result |-> "ERR_HOSTNAME", err |-> "ERR"],
               [result |-> "ERR_CONNECT", err |-> "ERR"]}
         ELSE {}

(* httpc_request_finish: httpc_result is not looked at.                    *)
FinishStillBusy(rx, err) ==   \* mutant: leaves the screen waiting
  /\ UNCHANGED processing
  /\ error' = (rx # len \/ err # "ERR_OK")
RequestFinish(rx, err) ==
  /\ processing' = FALSE
  /\ error' = (rx # len \/ err # "ERR_OK")

Close(c, ending) ==
  /\ conns[c].open
  /\ RequestFinish(conns[c].rx, ending.err)
  /\ conns' = [conns EXCEPT ![c] = Closed]
  /\ answered' = (answered \/ ending.err = "ERR_OK")
  /\ complete' = (complete \/ ending.result = "OK")
  /\ UNCHANGED <<len, elapsed, screen, shown>>

Network == \E c \in Conns :
  \/ Callback(c)
  \/ \E ending \in Endings(conns[c].rx) : Close(c, ending)

Next == Begin \/ Return \/ Wait \/ Finish \/ Clock \/ Network

Spec == Init /\ [][Next]_vars

(* The main loop runs forever and time passes.  Nothing is assumed of the  *)
(* network: no server has to answer, no connection has to end.             *)
FairSpec == Spec /\ WF_vars(Wait) /\ WF_vars(Finish) /\ WF_vars(Clock)

-----------------------------------------------------------------------------
(* Correctness *)

(* The types of the request and its connections.                           *)
TypeOK ==
  /\ processing \in BOOLEAN /\ error \in BOOLEAN
  /\ len \in Nat
  /\ elapsed \in 0 .. Timeout
  /\ conns \in [Conns -> [open : BOOLEAN, rx : 0 .. Chunks]]
  /\ screen \in {"rest", "wait", "finish"}
  /\ shown \in {"none", "success", "failure"}
  /\ answered \in BOOLEAN /\ complete \in BOOLEAN

(* While the screen waits a connection is open that can still end the      *)
(* wait: late ends of earlier attempts never leave it waiting for nobody.  *)
BusyHasConnection == processing => OpenConns # {}

(* The screen that waits goes on in the end, whatever the network does,    *)
(* unless the player leaves and enters it again forever, which starts the  *)
(* wait over (httpc.c:64-71, main.c:124-128, scoreboard.c:21-32).          *)
WaitEnds == []<>(screen # "wait") \/ []<><<Return>>_vars

(* Silence is never a success: the player is told so only if a connection  *)
(* has ended without error since the request was sent, even when an end    *)
(* and the timeout meet (httpc.c:30-40, 64-75, main.c:129-142).            *)
NoSuccessFromSilence ==
  [][screen = "finish" /\ shown' = "success" /\ screen' = "rest" => answered]_vars

(* httpc.c implements the contract of a request: the screens built on the  *)
(* contract need to know no more of it.                                    *)
Request == INSTANCE HttpRequest
  WITH failed <- error, overdue <- TimedOut, open <- OpenConns
Contract == Request!Spec

(* What lwIP says and httpc.c does not do: err "must not necessarily be    *)
(* != ERR_OK", the result of the transfer is httpc_result                  *)
(* (http_client.h:104-108).  The player is told of a success only if a     *)
(* transfer has succeeded.                                                 *)
SuccessIsTransfer ==
  [][screen = "finish" /\ shown' = "success" /\ screen' = "rest" => complete]_vars
=============================================================================
