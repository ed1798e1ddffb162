--------------------------- MODULE UsbHostProofs ----------------------------
(***************************************************************************)
(* Proofs about UsbHost, for enumerations of any number of steps, any      *)
(* limits and any reports.                                                 *)
(*                                                                         *)
(* What has to be carried from step to step is which list an answer can    *)
(* belong to: between sending a list and judging it the controller has     *)
(* that list or none, so a control byte that says "ok" speaks of the       *)
(* current step, whatever has become of the messages.                      *)
(***************************************************************************)
EXTENDS UsbHost, TLAPS

(* A list has been sent and is not judged yet.                             *)
Working == {"flag", "resend", "message", "clear", "control", "retry", "another"}

ListOwned == pc \in Working => td \in {"none", CurrentList}

(* Where the code of the enumeration, and that of the poll, can be.        *)
PhaseOK ==
  /\ pc \in {"control", "retry", "another"} => ~ Polling
  /\ pc \in {"store", "second", "check", "removed"} => Polling
  /\ pc \in {"init", "busreset", "look", "insert"} => step = 1
  /\ present => Polling

ConfiguredBefore(i) == \E j \in 1 .. i - 1 : Steps[j] = "configure"

ConfiguredOK ==
  /\ ConfiguredBefore(step) => enumerated
  /\ pc \in Working /\ ~ Polling /\ CurrentList = "configure" /\ ctl = "ok" => enumerated

(* Once a report has been stored, the buffer holds reports only.           *)
ReportedOK == reported => Polling /\ buffer \in Reports

(* The inductive invariant.                                                *)
IInv == TypeOK /\ ListOwned /\ PhaseOK /\ ConfiguredOK /\ ReportedOK

-----------------------------------------------------------------------------
LEMMA StepsTyped == N \in Nat /\ \A i \in 1 .. N : Steps[i] \in Kinds
BY StepsAssumption DEF N

LEMMA CurrentListTyped ==
  ASSUME step \in 1 .. N + 1
  PROVE  CurrentList \in Kinds \cup {"poll"} /\ (Polling <=> CurrentList = "poll")
BY StepsTyped DEF CurrentList, Polling, Kinds

LEMMA InitOK == Init => IInv
<1> SUFFICES ASSUME Init PROVE IInv
  OBVIOUS
<1>1. 1 \in 1 .. N + 1
  BY StepsTyped
<1>2. 0 \in 0 .. WaitLimit - 1
  BY LimitsAssumption
<1>3. TypeOK
  BY <1>1, <1>2, ReportsAssumption DEF Init, TypeOK, Labels, Messages, Words, Kinds, Bytes
<1>4. ListOwned /\ ReportedOK
  BY DEF Init, ListOwned, Working, ReportedOK
<1>5. PhaseOK
  BY DEF Init, PhaseOK
<1>6. ConfiguredOK
  BY DEF Init, ConfiguredOK, ConfiguredBefore, Working
<1> QED
  BY <1>3, <1>4, <1>5, <1>6 DEF IInv

-----------------------------------------------------------------------------
(* Types                                                                   *)

LEMMA WordsTyped == Words \subseteq Bytes \X Bytes
BY ReportsAssumption DEF Words, ListWord, Bytes

LEMMA WaitTyped ==
  ASSUME wait \in 0 .. WaitLimit - 1, ~ LimitReached
  PROVE  wait + 1 \in 0 .. WaitLimit - 1
BY LimitsAssumption DEF LimitReached

LEMMA ZeroWait == 0 \in 0 .. WaitLimit - 1
BY LimitsAssumption

LEMMA HostTypes == TypeOK /\ PhaseOK /\ Host => TypeOK'
<1> SUFFICES ASSUME TypeOK, PhaseOK, Host PROVE TypeOK'
  OBVIOUS
<1> USE WaitTyped, ZeroWait, StepsTyped
    DEF TypeOK, Labels, Messages, Goto, HotPlug, shared, local, chip, ghosts
<1>1. CASE Reset
  <2>1. 1 \in 1 .. N + 1
    OBVIOUS
  <2> QED
    BY <1>1, <2>1 DEF Reset
<1>2. CASE StartSIE1
  BY <1>2 DEF StartSIE1, WaitOn
<1>3. CASE BusReset
  BY <1>3 DEF BusReset
<1>4. CASE Look
  BY <1>4 DEF Look
<1>5. CASE AwaitInsertion
  BY <1>5 DEF AwaitInsertion, WaitOn
<1>6. CASE Send
  BY <1>6, CurrentListTyped DEF Send, Submit, Words
<1>7. CASE Flag
  BY <1>7 DEF Flag
<1>8. CASE Resend
  BY <1>8, CurrentListTyped DEF Resend, Submit, Words
<1>9. CASE ReadMessage
  BY <1>9 DEF ReadMessage
<1>10. CASE ClearMessage
  BY <1>10 DEF ClearMessage
<1>11. CASE Control
  <2>1. step \in 1 .. N
    BY <1>11 DEF Control, PhaseOK, Polling
  <2>2. CASE Advance
    BY <1>11, <2>1, <2>2 DEF Control, Advance
  <2>3. CASE ~ ListOk
    BY <1>11, <2>3 DEF Control, Advance
  <2> QED
    BY <1>11, <2>2, <2>3 DEF Control, Advance
<1>12. CASE Retry
  BY <1>12 DEF Retry
<1>13. CASE Another
  BY <1>13 DEF Another
<1>14. CASE StoreFirst
  BY <1>14, WordsTyped DEF StoreFirst
<1>15. CASE StoreSecond
  BY <1>15, WordsTyped DEF StoreSecond, SecondCode
<1>16. CASE Check
  BY <1>16 DEF Check
<1>17. CASE AwaitReinsertion
  BY <1>17 DEF AwaitReinsertion, Reinserted
<1> QED
  BY <1>1, <1>2, <1>3, <1>4, <1>5, <1>6, <1>7, <1>8, <1>9, <1>10, <1>11, <1>12, <1>13,
     <1>14, <1>15, <1>16, <1>17 DEF Host

LEMMA ChipTypes ==
  ASSUME TypeOK, Transfer \/ PollAnswered \/ TransferFails \/ InfoDone \/ Plug \/ Unplug
  PROVE  TypeOK'
<1> USE DEF TypeOK, Messages, Words, shared, local, ghosts
<1>1. CASE Transfer
  BY <1>1 DEF Transfer, After
<1>2. CASE PollAnswered
  BY <1>2 DEF PollAnswered
<1>3. CASE TransferFails
  BY <1>3 DEF TransferFails
<1>4. CASE InfoDone
  BY <1>4 DEF InfoDone
<1>5. CASE Plug \/ Unplug
  BY <1>5 DEF Plug, Unplug, Told
<1> QED
  BY <1>1, <1>2, <1>3, <1>4, <1>5

-----------------------------------------------------------------------------
(* The rest of the invariant                                               *)

LEMMA HostLists == TypeOK /\ ListOwned /\ Host => ListOwned'
<1> SUFFICES ASSUME TypeOK, ListOwned, Host PROVE ListOwned'
  OBVIOUS
<1> USE DEF ListOwned, Working, CurrentList, Polling, Goto, HotPlug, shared, local, chip, ghosts
<1>1. CASE Reset \/ StartSIE1 \/ BusReset \/ Look \/ AwaitInsertion
  BY <1>1 DEF TypeOK, Labels, Reset, StartSIE1, WaitOn, BusReset, Look, AwaitInsertion
<1>2. CASE Send \/ Resend
  BY <1>2 DEF Send, Resend, Submit
<1>3. CASE Flag \/ ReadMessage \/ ClearMessage \/ Retry \/ Another
  BY <1>3 DEF Flag, ReadMessage, ClearMessage, Retry, Another
<1>4. CASE Control
  BY <1>4 DEF Control, Advance
<1>5. CASE StoreFirst \/ StoreSecond \/ Check \/ AwaitReinsertion
  BY <1>5 DEF StoreFirst, StoreSecond, Check, AwaitReinsertion, Reinserted
<1> QED
  BY <1>1, <1>2, <1>3, <1>4, <1>5 DEF Host

LEMMA HostPhases == TypeOK /\ PhaseOK /\ Host => PhaseOK'
<1> SUFFICES ASSUME TypeOK, PhaseOK, Host PROVE PhaseOK'
  OBVIOUS
<1> USE StepsTyped DEF PhaseOK, Polling, Goto, HotPlug, shared, local, chip, ghosts
<1>1. CASE Reset \/ StartSIE1 \/ BusReset \/ Look \/ AwaitInsertion
  BY <1>1 DEF TypeOK, Reset, StartSIE1, WaitOn, BusReset, Look, AwaitInsertion
<1>2. CASE Send \/ Resend \/ Flag \/ ReadMessage \/ ClearMessage
  BY <1>2 DEF Send, Resend, Submit, Flag, ReadMessage, ClearMessage
<1>3. CASE Control
  <2>1. pc = "control"
    BY <1>3 DEF Control
  <2>2. step \in 1 .. N /\ ~ present
    BY <2>1 DEF TypeOK
  <2>3. CASE Advance
    <3>1. step' = step + 1 /\ pc' = "send"
      BY <2>3 DEF Advance
    <3>2. present' => step = N
      BY <2>2, <2>3 DEF Advance
    <3> QED
      BY <2>2, <3>1, <3>2
  <2>4. CASE ~ ListOk
    BY <1>3, <2>2, <2>4 DEF Control, Advance
  <2> QED
    BY <1>3, <2>3, <2>4 DEF Control, Advance
<1>4. CASE Retry \/ Another
  BY <1>4 DEF Retry, Another
<1>5. CASE StoreFirst \/ StoreSecond \/ Check \/ AwaitReinsertion
  BY <1>5 DEF StoreFirst, StoreSecond, Check, AwaitReinsertion, Reinserted
<1> QED
  BY <1>1, <1>2, <1>3, <1>4, <1>5 DEF Host

LEMMA HostConfigures ==
  TypeOK /\ PhaseOK /\ ConfiguredOK /\ Host => ConfiguredOK'
<1> SUFFICES ASSUME TypeOK, PhaseOK, ConfiguredOK, Host PROVE ConfiguredOK'
  OBVIOUS
<1> USE DEF ConfiguredOK, ConfiguredBefore, CurrentList, Working, Polling,
            Goto, HotPlug, shared, local, chip, ghosts
<1>1. CASE Reset
  BY <1>1 DEF Reset
<1>2. CASE StartSIE1 \/ BusReset \/ Look \/ AwaitInsertion
  BY <1>2 DEF StartSIE1, WaitOn, BusReset, Look, AwaitInsertion
<1>3. CASE Send \/ Resend
  BY <1>3 DEF Send, Resend, Submit
<1>4. CASE Flag \/ ReadMessage \/ ClearMessage \/ Retry \/ Another
  BY <1>4 DEF Flag, ReadMessage, ClearMessage, Retry, Another
<1>5. CASE Control
  <2>1. CASE Advance
    <3>1. step' = step + 1 /\ pc' = "send" /\ enumerated' = enumerated /\ pc = "control"
      BY <1>5, <2>1 DEF Control, Advance
    <3>2. step \in 1 .. N
      BY <3>1, StepsTyped DEF PhaseOK, TypeOK
    <3>4. Steps[step] = "configure" => enumerated
      BY <2>1, <3>1, <3>2, StepsTyped DEF Advance, ListOk
    <3>3. (\E j \in 1 .. step : Steps[j] = "configure") => enumerated
      BY <3>2, <3>4, StepsTyped
    <3> QED
      BY <3>1, <3>2, <3>3, StepsTyped
  <2>2. CASE ~ ListOk
    BY <1>5, <2>2 DEF Control, Advance
  <2> QED
    BY <1>5, <2>1, <2>2 DEF Control, Advance
<1>6. CASE StoreFirst \/ StoreSecond \/ Check \/ AwaitReinsertion
  BY <1>6 DEF StoreFirst, StoreSecond, Check, AwaitReinsertion, Reinserted
<1> QED
  BY <1>1, <1>2, <1>3, <1>4, <1>5, <1>6 DEF Host

LEMMA HostReports ==
  TypeOK /\ PhaseOK /\ ReportedOK /\ Host => ReportedOK'
<1> SUFFICES ASSUME TypeOK, PhaseOK, ReportedOK, Host PROVE ReportedOK'
  OBVIOUS
<1> USE DEF ReportedOK, Polling, Goto, HotPlug, shared, local, chip, ghosts
<1>1. CASE Reset
  BY <1>1 DEF Reset
<1>2. CASE StartSIE1 \/ BusReset \/ Look \/ AwaitInsertion
  BY <1>2 DEF StartSIE1, BusReset, Look, AwaitInsertion
<1>3. CASE Send \/ Resend
  BY <1>3 DEF Send, Resend, Submit
<1>4. CASE Flag \/ ReadMessage \/ ClearMessage \/ Retry \/ Another
  BY <1>4 DEF Flag, ReadMessage, ClearMessage, Retry, Another
<1>5. CASE Control
  BY <1>5 DEF Control, PhaseOK
<1>6. CASE StoreFirst \/ StoreSecond \/ Check \/ AwaitReinsertion
  BY <1>6 DEF StoreFirst, StoreSecond, Check, AwaitReinsertion, PhaseOK
<1> QED
  BY <1>1, <1>2, <1>3, <1>4, <1>5, <1>6 DEF Host

(* The controller and the keyboard: only Transfer has something to show,   *)
(* namely that the list it finishes is the one the CPU waits for.          *)
LEMMA ChipSafe ==
  ASSUME IInv, Transfer \/ PollAnswered \/ TransferFails \/ InfoDone \/ Plug \/ Unplug
  PROVE  IInv'
<1> USE DEF IInv, ListOwned, PhaseOK, ConfiguredOK, ConfiguredBefore, ReportedOK,
            CurrentList, Polling, shared, local, ghosts
<1>1. TypeOK'
  BY ChipTypes
<1>2. CASE Transfer
  BY <1>1, <1>2 DEF Transfer, Kinds
<1>3. CASE PollAnswered
  <2>1. pc \in Working => Polling
    <3>1. SUFFICES ASSUME pc \in Working, ~ Polling PROVE FALSE
      OBVIOUS
    <3>2. step \in 1 .. N + 1 /\ td = CurrentList
      BY <1>3, <3>1 DEF PollAnswered, TypeOK
    <3> QED
      BY <1>3, <3>1, <3>2, CurrentListTyped DEF PollAnswered
  <2> QED
    BY <1>1, <1>3, <2>1 DEF PollAnswered
<1>4. CASE TransferFails \/ InfoDone
  BY <1>1, <1>4 DEF TransferFails, InfoDone, Working, Kinds
<1>5. CASE Plug \/ Unplug
  BY <1>1, <1>5 DEF Plug, Unplug
<1> QED
  BY <1>2, <1>3, <1>4, <1>5

LEMMA NextOK == IInv /\ [Next]_vars => IInv'
<1> SUFFICES ASSUME IInv, [Next]_vars PROVE IInv'
  OBVIOUS
<1>1. CASE Host
  BY <1>1, HostTypes, HostLists, HostPhases, HostConfigures, HostReports DEF IInv
<1>2. CASE Transfer \/ PollAnswered \/ TransferFails \/ InfoDone \/ Plug \/ Unplug
  BY <1>2, ChipSafe
<1>3. CASE UNCHANGED vars
  BY <1>3 DEF vars, shared, local, chip, ghosts, IInv, TypeOK, ListOwned, PhaseOK, ConfiguredOK,
              ConfiguredBefore, ReportedOK, CurrentList, Polling
<1> QED
  BY <1>1, <1>2, <1>3 DEF Next

THEOREM Invariance == Spec => []IInv
<1>1. Init => IInv
  BY InitOK
<1>2. IInv /\ [Next]_vars => IInv'
  BY NextOK
<1> QED
  BY <1>1, <1>2, PTL DEF Spec

(* The types of the USB CPU, its controller and the shared memory: no wait *)
(* that is counted passes its limit (main.c:106-555, usb.c:527-571).       *)
THEOREM TypeCorrect == Spec => []TypeOK
<1>1. IInv => TypeOK
  BY DEF IInv
<1> QED
  BY <1>1, Invariance, PTL

(* Only a keyboard that has accepted its configuration since the last      *)
(* reset is polled, whatever happens to the messages (main.c:211-555).     *)
THEOREM PolledKeyboards == Spec => []PolledWasConfigured
<1>1. IInv => PolledWasConfigured
  <2> SUFFICES ASSUME IInv, present PROVE enumerated
    BY DEF PolledWasConfigured
  <2>1. step = N + 1
    BY StepsTyped DEF IInv, TypeOK, PhaseOK, Polling
  <2>2. ConfiguredBefore(step)
    BY <2>1, ConfigureAssumption, StepsTyped DEF ConfiguredBefore, N
  <2> QED
    BY <2>2 DEF IInv, ConfiguredOK
<1> QED
  BY <1>1, Invariance, PTL

(* After its first report no words of a transfer list are taken for keys   *)
(* of a keyboard (main.c:609-619).                                         *)
THEOREM PhantomsEnd == Spec => NoPhantomKeys
<1>1. IInv /\ [Next]_vars =>
        [pc = "store" /\ report' = ListWord /\ pc' = "second" => ~ reported]_vars
  <2> SUFFICES ASSUME IInv, Next, pc = "store", report' = ListWord, pc' = "second", reported
               PROVE  FALSE
    BY DEF vars
  <2>1. StoreFirst
    BY DEF Next, Host, Reset, StartSIE1, BusReset, Look, AwaitInsertion, Send, Flag, Resend,
           ReadMessage, ClearMessage, Control, Retry, Another, StoreSecond, Check,
           AwaitReinsertion, Transfer, PollAnswered, TransferFails, InfoDone, Plug, Unplug
  <2>2. buffer \in Reports /\ report' = buffer
    BY <2>1 DEF IInv, ReportedOK, StoreFirst
  <2> QED
    BY <2>2, ListWordAssumption
<1> QED
  BY <1>1, Invariance, PTL DEF Spec, NoPhantomKeys

-----------------------------------------------------------------------------
(* The refinement                                                          *)

LEMMA StoresRefine ==
  ASSUME TypeOK, StoreFirst \/ StoreSecond
  PROVE  Codes!Next \/ UNCHANGED Codes!vars
<1> DEFINE halfStored == pc = "second" /\ keycode[2] # report[2]
<1>1. keycode \in Bytes \X Bytes /\ buffer \in Words /\ buffer \in Bytes \X Bytes
  BY WordsTyped DEF TypeOK
<1>2. CASE StoreFirst
  <2>1. /\ ~ halfStored /\ report' = buffer /\ pc' = "second"
        /\ keycode' = [keycode EXCEPT ![1] = buffer[1]]
    BY <1>2 DEF StoreFirst, Goto
  <2>2. keycode'[2] = keycode[2]
    BY <1>1, <2>1
  <2>3. Codes!FirstKey(buffer)
    BY <2>1, <2>2 DEF Codes!FirstKey
  <2> QED
    BY <1>1, <2>3 DEF Codes!Next
<1>3. CASE StoreSecond
  <2>1. /\ pc = "second" /\ report' = report /\ pc' = "check"
        /\ keycode' = [keycode EXCEPT ![2] = report[2]]
    BY <1>3 DEF StoreSecond, Goto, SecondCode
  <2>2. CASE keycode[2] # report[2]
    BY <2>1, <2>2 DEF Codes!SecondKey, Codes!Next
  <2>3. CASE keycode[2] = report[2]
    <3>1. keycode' = keycode
      BY <1>1, <2>1, <2>3
    <3> QED
      BY <2>1, <2>3, <3>1 DEF Codes!vars
  <2> QED
    BY <2>2, <2>3
<1> QED
  BY <1>2, <1>3

LEMMA OthersStutter ==
  ASSUME Next, ~ StoreFirst, ~ StoreSecond
  PROVE  UNCHANGED Codes!vars
<1>1. keycode' = keycode /\ report' = report
  BY DEF Next, Host, Reset, StartSIE1, BusReset, Look, AwaitInsertion, Send, Flag, Resend,
         ReadMessage, ClearMessage, Control, Retry, Another, Check, AwaitReinsertion,
         Transfer, PollAnswered, TransferFails, InfoDone, Plug, Unplug, shared
<1>2. pc' = pc \/ (pc # "second" /\ pc' # "second")
  BY DEF Next, Host, Reset, StartSIE1, WaitOn, BusReset, Look, AwaitInsertion, Send, Flag,
         Resend, ReadMessage, ClearMessage, Control, Advance, Retry, Another, Check,
         AwaitReinsertion, Reinserted, Goto, HotPlug,
         Transfer, PollAnswered, TransferFails, InfoDone, Plug, Unplug
<1> QED
  BY <1>1, <1>2 DEF Codes!vars

(* The shared memory behaves as Keyboard says: all that the screens of the *)
(* game rely on (main.c:612-619).                                          *)
THEOREM CodesKeepContract == Spec => SharedCodes
<1>1. Init => Codes!Init
  BY DEF Init, Codes!Init
<1>2. IInv /\ [Next]_vars => [Codes!Next]_(Codes!vars)
  <2>1. CASE StoreFirst \/ StoreSecond
    BY <2>1, StoresRefine DEF IInv
  <2>2. CASE UNCHANGED vars
    BY <2>2 DEF vars, shared, Codes!vars
  <2>3. CASE Next /\ ~ StoreFirst /\ ~ StoreSecond
    BY <2>3, OthersStutter
  <2> QED
    BY <2>1, <2>2, <2>3
<1> QED
  BY <1>1, <1>2, Invariance, PTL DEF Spec, SharedCodes, Codes!Spec

-----------------------------------------------------------------------------
(* Liveness: the one wait that has no limit                                *)

AtFlag == pc \in {"flag", "resend"}
AwaitingPoll == Polling /\ AtFlag
Plugged == device = "configured"
Polled == td = "poll"
Answered == msg # "none"
Flagged == pc = "flag"

(* Weak fairness of the CPU and of the keyboard's answer, with the states  *)
(* written out in which the two are enabled: whenever pc is at the wait,   *)
(* and whenever a configured keyboard has a poll to work on.               *)
HostServed ==
  /\ []<>(~ AtFlag) \/ []<><<Host>>_vars
  /\ []<>(~ (Polled /\ Plugged)) \/ []<><<PollAnswered>>_vars

LEMMA WaitStep ==
  ASSUME IInv, AwaitingPoll, AwaitingPoll', Next
  PROVE  /\ ~ Plugged => ~ Plugged'
         /\ \/ Host /\ pc = "flag" /\ msg = "none" /\ pc' = "resend" /\ UNCHANGED chip
            \/ Host /\ pc = "resend" /\ pc' = "flag" /\ td' = "poll" /\ UNCHANGED msg
            \/ ~ Host /\ PollAnswered /\ msg' = "done" /\ UNCHANGED pc
            \/ ~ Host /\ UNCHANGED <<pc, td>> /\ (msg # "none" => msg' # "none")
<1> USE DEF AwaitingPoll, AtFlag
<1>1. td \in {"none", "poll"}
  BY DEF IInv, ListOwned, Working, CurrentList
<1>2. CASE Host
  <2>1. Flag \/ Resend
    BY <1>2 DEF Host, Reset, StartSIE1, BusReset, Look, AwaitInsertion, Send, ReadMessage,
           ClearMessage, Control, Retry, Another, StoreFirst, StoreSecond, Check,
           AwaitReinsertion
  <2>2. CASE Flag
    BY <1>2, <2>2 DEF Flag, Goto, HotPlug, MessageFlag, chip, Plugged
  <2>3. CASE Resend
    BY <1>2, <2>3 DEF Resend, Submit, CurrentList, Goto, Plugged
  <2> QED
    BY <2>1, <2>2, <2>3
<1>3. CASE ~ Host /\ PollAnswered
  BY <1>3 DEF PollAnswered, Plugged
<1>4. CASE ~ Host /\ (Transfer \/ TransferFails \/ InfoDone \/ Plug \/ Unplug)
  BY <1>1, <1>4 DEF Transfer, TransferFails, InfoDone, Plug, Unplug, Told, Kinds, Plugged
<1> QED
  BY <1>2, <1>3, <1>4 DEF Next

(* A poll is waited for without limit; still the wait for its answer ends, *)
(* unless the keyboard is gone for good or replaced meanwhile: a list that *)
(* is sent again is answered like the first, and no answer is missed       *)
(* (main.c:583-608).                                                       *)
THEOREM PollAnswerComes ==
  Spec /\ HostServed => []<>(~ AwaitingPoll) \/ <>[](~ Plugged)
<1> DEFINE Within == AwaitingPoll /\ AwaitingPoll'
<1> USE DEF Answered, Polled, Flagged
<1>1. IInv /\ [Next]_vars /\ Within /\ ~ Plugged => ~ Plugged'
  BY WaitStep DEF vars, chip, Plugged
<1>2. IInv /\ [Next]_vars /\ Within /\ Answered => Answered'
  BY WaitStep DEF vars, chip
<1>3. IInv /\ [Next]_vars /\ Within /\ Polled => Polled' \/ Answered'
  BY WaitStep DEF vars, chip
<1>4. IInv /\ [Next]_vars /\ Within /\ <<PollAnswered>>_vars => Answered'
  BY DEF PollAnswered
<1>5. IInv /\ [Next]_vars /\ Within /\ <<Host>>_vars /\ Flagged => ~ Flagged' /\ ~ Answered
  BY WaitStep
<1>6. IInv /\ [Next]_vars /\ Within /\ <<Host>>_vars /\ ~ Flagged => Flagged' /\ Polled'
  BY WaitStep DEF AwaitingPoll, AtFlag
<1>7. IInv /\ [Next]_vars /\ Within => <<Host>>_vars \/ (Flagged' <=> Flagged)
  BY WaitStep DEF vars
<1>8. AwaitingPoll => AtFlag
  BY DEF AwaitingPoll
<1> HIDE DEF Answered, Polled, Flagged
<1> QED
  BY Invariance, <1>1, <1>2, <1>3, <1>4, <1>5, <1>6, <1>7, <1>8, PTL DEF Spec, HostServed
=============================================================================
