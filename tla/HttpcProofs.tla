----------------------------- MODULE HttpcProofs ----------------------------
(***************************************************************************)
(* Proofs about Httpc for any number of connections, any timeout and       *)
(* answers of any length: the request keeps the contract of HttpRequest,   *)
(* and silence is never reported as a success.                             *)
(***************************************************************************)
EXTENDS Httpc, TLAPS

(* A settled request without an error has been answered; a screen that is  *)
(* about to report has a settled request.                                  *)
Settled ==
  /\ screen # "rest" /\ ~ processing /\ ~ error => answered
  /\ screen = "finish" => ~ processing

(* The inductive invariant.                                                *)
IInv == TypeOK /\ BusyHasConnection /\ Settled

-----------------------------------------------------------------------------
LEMMA InitOK == Init => IInv
<1> SUFFICES ASSUME Init PROVE IInv
  OBVIOUS
<1>1. conns \in [Conns -> [open : BOOLEAN, rx : 0 .. Chunks]]
  BY ChunksAssumption DEF Init, Closed
<1>2. elapsed \in 0 .. Timeout /\ len \in Nat
  BY TimeoutAssumption DEF Init
<1>3. TypeOK
  BY <1>1, <1>2 DEF Init, TypeOK
<1>4. BusyHasConnection /\ Settled
  BY DEF Init, BusyHasConnection, Settled
<1> QED
  BY <1>3, <1>4 DEF IInv

(* What a send does to the connections.                                    *)
LEMMA OpenAfterSend ==
  ASSUME TypeOK, SendRequest
  PROVE  /\ conns' \in [Conns -> [open : BOOLEAN, rx : 0 .. Chunks]]
         /\ \/ processing' = FALSE /\ error' = TRUE /\ OpenConns' = OpenConns
            \/ /\ processing' = TRUE /\ error' = FALSE
               /\ \E c \in Conns \ OpenConns : OpenConns' = OpenConns \cup {c}
<1>1. CASE SendFails
  BY <1>1 DEF SendFails, TypeOK, OpenConns
<1>2. CASE SendGoesOut
  <2>1. PICK c \in Conns \ OpenConns :
          /\ conns' = [conns EXCEPT ![c] = [open |-> TRUE, rx |-> 0]]
          /\ processing' = TRUE /\ error' = FALSE
    BY <1>2 DEF SendGoesOut
  <2>2. conns' \in [Conns -> [open : BOOLEAN, rx : 0 .. Chunks]]
    BY <2>1, ChunksAssumption DEF TypeOK
  <2>3. OpenConns' = OpenConns \cup {c}
    BY <2>1 DEF OpenConns, TypeOK
  <2> QED
    BY <2>1, <2>2, <2>3
<1> QED
  BY <1>1, <1>2 DEF SendRequest

(* A piece of content opens and closes nothing.                            *)
LEMMA OpenAfterCallback ==
  ASSUME TypeOK, NEW c \in Conns, Callback(c)
  PROVE  /\ conns' \in [Conns -> [open : BOOLEAN, rx : 0 .. Chunks]]
         /\ OpenConns' = OpenConns
<1> DEFINE r == [conns[c] EXCEPT !.rx = @ + 1]
<1>1. conns[c] \in [open : BOOLEAN, rx : 0 .. Chunks]
  BY DEF TypeOK
<1>2. r.rx \in 0 .. Chunks
  BY <1>1, ChunksAssumption DEF Callback
<1>3. r \in [open : BOOLEAN, rx : 0 .. Chunks] /\ r.open = conns[c].open
  BY <1>1, <1>2
<1>4. conns' = [conns EXCEPT ![c] = r]
  BY DEF Callback
<1> HIDE DEF r
<1> QED
  BY <1>3, <1>4 DEF TypeOK, OpenConns

(* An end closes one connection and settles the request.                   *)
LEMMA OpenAfterClose ==
  ASSUME TypeOK, NEW c \in Conns, NEW e \in Endings(conns[c].rx), Close(c, e)
  PROVE  /\ conns' \in [Conns -> [open : BOOLEAN, rx : 0 .. Chunks]]
         /\ c \in OpenConns /\ OpenConns' = OpenConns \ {c}
         /\ processing' = FALSE /\ error' \in BOOLEAN
         /\ answered' \in BOOLEAN /\ complete' \in BOOLEAN
         /\ ~ error' => answered'
<1>1. conns' \in [Conns -> [open : BOOLEAN, rx : 0 .. Chunks]]
  BY ChunksAssumption DEF TypeOK, Close, Closed
<1>2. c \in OpenConns /\ OpenConns' = OpenConns \ {c}
  BY DEF TypeOK, Close, Closed, OpenConns
<1>3. processing' = FALSE /\ error' = (conns[c].rx # len \/ e.err # "ERR_OK")
  BY DEF Close, RequestFinish
<1>4. answered' = (answered \/ e.err = "ERR_OK") /\ complete' = (complete \/ e.result = "OK")
  BY DEF Close
<1> QED
  BY <1>1, <1>2, <1>3, <1>4 DEF TypeOK

LEMMA StepOK == IInv /\ [Next]_vars => IInv'
<1> SUFFICES ASSUME IInv, [Next]_vars PROVE IInv'
  OBVIOUS
<1> USE DEF IInv
<1>1. CASE Begin \/ Return
  <2>1. SendRequest /\ screen' = "wait" /\ shown' = shown
    BY <1>1 DEF Begin, Return
  <2>2. /\ conns' \in [Conns -> [open : BOOLEAN, rx : 0 .. Chunks]]
        /\ processing' \in BOOLEAN /\ error' = ~ processing'
        /\ processing' => OpenConns' # {}
    <3>1. CASE processing' = FALSE /\ error' = TRUE /\ OpenConns' = OpenConns
      BY <2>1, <3>1, OpenAfterSend
    <3>2. CASE /\ processing' = TRUE /\ error' = FALSE
               /\ \E c \in Conns \ OpenConns : OpenConns' = OpenConns \cup {c}
      BY <2>1, <3>2, OpenAfterSend
    <3> QED
      BY <2>1, <3>1, <3>2, OpenAfterSend
  <2>3. len' = 0 /\ elapsed' = 0 /\ answered' = FALSE /\ complete' = FALSE
    BY <2>1 DEF SendRequest
  <2>4. elapsed' \in 0 .. Timeout /\ len' \in Nat
    BY <2>3, TimeoutAssumption
  <2>5. TypeOK'
    BY <2>1, <2>2, <2>3, <2>4 DEF TypeOK
  <2>6. BusyHasConnection' /\ Settled'
    BY <2>1, <2>2 DEF BusyHasConnection, Settled
  <2> QED
    BY <2>5, <2>6
<1>2. CASE Wait
  <2>1. OpenConns' = OpenConns
    BY <1>2 DEF Wait, OpenConns
  <2> QED
    BY <1>2, <2>1 DEF Wait, Processing, TypeOK, BusyHasConnection, Settled
<1>3. CASE Finish
  BY <1>3 DEF Finish, request, TypeOK, BusyHasConnection, OpenConns, Settled
<1>4. CASE Clock
  <2>1. elapsed' \in 0 .. Timeout
    BY <1>4, TimeoutAssumption DEF Clock, TypeOK
  <2>2. TypeOK'
    BY <1>4, <2>1 DEF Clock, request, TypeOK
  <2> QED
    BY <1>4, <2>2 DEF Clock, request, BusyHasConnection, OpenConns, Settled
<1>5. ASSUME NEW c \in Conns, Callback(c) PROVE IInv'
  <2>1. /\ conns' \in [Conns -> [open : BOOLEAN, rx : 0 .. Chunks]]
        /\ OpenConns' = OpenConns
    BY <1>5, OpenAfterCallback
  <2>2. /\ len' = len + 1
        /\ UNCHANGED <<processing, error, elapsed, screen, shown, answered, complete>>
    BY <1>5 DEF Callback
  <2>3. len' \in Nat
    BY <2>2 DEF TypeOK
  <2> QED
    BY <2>1, <2>2, <2>3 DEF TypeOK, BusyHasConnection, Settled
<1>6. ASSUME NEW c \in Conns, NEW e \in Endings(conns[c].rx), Close(c, e) PROVE IInv'
  BY <1>6, OpenAfterClose DEF Close, TypeOK, BusyHasConnection, Settled
<1>7. CASE UNCHANGED vars
  BY <1>7 DEF vars, TypeOK, BusyHasConnection, OpenConns, Settled
<1> QED
  BY <1>1, <1>2, <1>3, <1>4, <1>5, <1>6, <1>7 DEF Next, Network

LEMMA Invariance == Spec => []IInv
BY InitOK, StepOK, PTL DEF Spec

-----------------------------------------------------------------------------
(* The theorems                                                            *)

(* A request that is waited for always has a connection that can end it.   *)
THEOREM BusyRequestsHaveConnections == Spec => []BusyHasConnection
<1>1. IInv => BusyHasConnection
  BY DEF IInv
<1> QED
  BY <1>1, Invariance, PTL

(* A success is reported only after a connection has ended without error.  *)
THEOREM SilenceIsFailure == Spec => NoSuccessFromSilence
<1>1. IInv /\ [Next]_vars
        => [screen = "finish" /\ shown' = "success" /\ screen' = "rest" => answered]_vars
  <2> SUFFICES ASSUME IInv, Next, screen = "finish", shown' = "success", screen' = "rest"
               PROVE  answered
    OBVIOUS
  <2>1. Finish
    BY DEF Next, Begin, Return, Wait, Clock, Network, Callback, Close
  <2>2. ~ error
    BY <2>1 DEF Finish
  <2> QED
    BY <2>2 DEF IInv, Settled
<1> QED
  BY <1>1, Invariance, PTL DEF Spec, NoSuccessFromSilence

-----------------------------------------------------------------------------
(* httpc.c implements the contract.                                        *)

LEMMA InitMaps == Init => Request!Init
<1> SUFFICES ASSUME Init PROVE Request!Init
  OBVIOUS
<1>1. OpenConns = {}
  BY DEF Init, OpenConns, Closed
<1>2. TimedOut = TRUE
  BY TimeoutAssumption DEF Init, TimedOut
<1> QED
  BY <1>1, <1>2 DEF Init, Request!Init

LEMMA StepMaps == IInv /\ [Next]_vars => [Request!Next]_(Request!vars)
<1> SUFFICES ASSUME IInv, [Next]_vars
             PROVE  Request!Next \/ UNCHANGED Request!vars
  OBVIOUS
<1> USE DEF IInv, Request!vars
<1>1. CASE Begin \/ Return
  <2>1. SendRequest /\ ~ TimedOut'
    BY <1>1, TimeoutAssumption DEF Begin, Return, SendRequest, TimedOut
  <2>2. TimedOut' = FALSE
    BY <2>1 DEF TimedOut
  <2>3. CASE processing' = FALSE /\ error' = TRUE /\ OpenConns' = OpenConns
    BY <2>2, <2>3 DEF Request!Next, Request!Send, Request!Refused
  <2>4. CASE /\ processing' = TRUE /\ error' = FALSE
             /\ \E c \in Conns \ OpenConns : OpenConns' = OpenConns \cup {c}
    BY <2>2, <2>4 DEF Request!Next, Request!Send, Request!Sent
  <2> QED
    BY <2>1, <2>3, <2>4, OpenAfterSend
<1>2. CASE Wait
  <2>1. OpenConns' = OpenConns /\ TimedOut' = TimedOut
    BY <1>2 DEF Wait, OpenConns, TimedOut
  <2> QED
    BY <1>2, <2>1 DEF Wait, Processing, Request!Next, Request!Check
<1>3. CASE Finish
  BY <1>3 DEF Finish, request, OpenConns, TimedOut
<1>4. CASE Clock
  <2>1. OpenConns' = OpenConns /\ TimedOut = FALSE /\ TimedOut' \in BOOLEAN
    BY <1>4, TimeoutAssumption DEF Clock, OpenConns, TimedOut, TypeOK
  <2> QED
    BY <1>4, <2>1 DEF Clock, request, Request!Next, Request!TimePasses
<1>5. ASSUME NEW c \in Conns, Callback(c) PROVE UNCHANGED Request!vars
  BY <1>5, OpenAfterCallback DEF Callback, TimedOut
<1>6. ASSUME NEW c \in Conns, NEW e \in Endings(conns[c].rx), Close(c, e)
      PROVE  Request!Ended(c)
  BY <1>6, OpenAfterClose DEF Close, TimedOut, Request!Ended
<1>7. CASE UNCHANGED vars
  BY <1>7 DEF vars, OpenConns, TimedOut
<1> QED
  BY <1>1, <1>2, <1>3, <1>4, <1>5, <1>6, <1>7 DEF Next, Network, Request!Next

(* Every behaviour of the request is one the contract allows: what Screens *)
(* concludes from the contract holds of httpc.c.                           *)
THEOREM RequestKeepsContract == Spec => Contract
BY InitMaps, StepMaps, Invariance, PTL DEF Spec, Contract, Request!Spec

-----------------------------------------------------------------------------
(* Liveness                                                                *)

Waits == screen = "wait"
Answerable == Waits /\ (TimedOut \/ ~ processing)
Sends == Begin \/ Return

(* The main loop runs, written without ENABLED: in the states Answerable   *)
(* the screen goes on.  The clock comes to the timeout unless it is set    *)
(* back again and again; for this FairSpec counts ticks, which is TLC's.   *)
Served ==
  /\ []<>(~ Answerable) \/ []<><<Wait>>_vars
  /\ []<>TimedOut \/ []<><<Sends>>_vars

(* The screen that waits goes on, whatever lwIP does and however many      *)
(* connections of earlier attempts end late: no answer sets the clock back *)
(* or makes the request busy again (httpc.c:30-40, 64-75, main.c:124-128). *)
THEOREM WaitsEnd == Spec /\ Served => WaitEnds
<1>1. IInv /\ [Next]_vars /\ Waits => (<<Sends>>_vars => <<Return>>_vars)
  BY DEF Waits, Sends, Begin
<1>2. IInv /\ [Next]_vars /\ TimedOut => TimedOut' \/ <<Sends>>_vars
  <2> SUFFICES ASSUME IInv, [Next]_vars, TimedOut, ~ TimedOut' PROVE <<Sends>>_vars
    OBVIOUS
  <2>1. vars' # vars
    BY DEF vars, TimedOut
  <2>2. ~ Wait /\ ~ Finish /\ ~ Clock /\ ~ Network
    BY TimeoutAssumption DEF Wait, Finish, Clock, Network, Callback, Close, TimedOut, IInv, TypeOK
  <2> QED
    BY <2>1, <2>2 DEF Next, Sends
<1>3. <<Wait>>_vars /\ TimedOut => ~ Waits'
  BY DEF Wait, Waits, Processing
<1>4. Waits /\ TimedOut => Answerable
  BY DEF Answerable
<1>5. ~ Waits => screen # "wait"
  BY DEF Waits
<1> QED
  BY Invariance, <1>1, <1>2, <1>3, <1>4, <1>5, PTL DEF Spec, Served, WaitEnds
=============================================================================
