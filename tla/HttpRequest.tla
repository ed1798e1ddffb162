----------------------------- MODULE HttpRequest ----------------------------
(***************************************************************************)
(* What one request of httpc.c promises the screen that owns it, whatever  *)
(* the server and the network do: the screen sees `processing' and whether *)
(* `error' is ERR_OK.  Httpc implements it; Screens is built on it.        *)
(***************************************************************************)
CONSTANT Conns   \* the connections lwIP can have open for it

VARIABLES
  processing,  \* the request is waited for
  failed,      \* error # ERR_OK
  overdue,     \* HTTPC_TIMEOUT seconds have passed since it was sent
  open         \* its connections, those of earlier attempts included

vars == <<processing, failed, overdue, open>>

Init == processing = FALSE /\ failed = FALSE /\ overdue = TRUE /\ open = {}

(* The request is sent: a connection is opened for it.                     *)
Sent(c) ==
  /\ c \notin open
  /\ open' = open \cup {c}
  /\ processing' = TRUE /\ failed' = FALSE /\ overdue' = FALSE

(* No address yet, or lwIP refuses.                                        *)
Refused ==
  /\ processing' = FALSE /\ failed' = TRUE /\ overdue' = FALSE
  /\ UNCHANGED open

Send == Refused \/ \E c \in Conns : Sent(c)

(* Any of its connections ends, not only the last one opened, in time or   *)
(* not: whoever waits is told, with the outcome of that connection.        *)
Ended(c) ==
  /\ c \in open
  /\ open' = open \ {c}
  /\ processing' = FALSE
  /\ failed' \in BOOLEAN
  /\ UNCHANGED overdue

TimePasses ==
  /\ overdue' = TRUE
  /\ UNCHANGED <<processing, failed, open>>

CheckForever == UNCHANGED vars   \* mutant: no timeout

(* httpc_processing gives up on an overdue request; its connection stays.  *)
Check ==
  /\ IF overdue THEN processing' = FALSE /\ failed' = TRUE
                ELSE UNCHANGED <<processing, failed>>
  /\ UNCHANGED <<overdue, open>>

Next == Send \/ (\E c \in Conns : Ended(c)) \/ TimePasses \/ Check

Spec == Init /\ [][Next]_vars

(* A request is waited for only while a connection can still answer it.    *)
BusyHasConnection == processing => open # {}
=============================================================================
