------------------------------ MODULE UsbHost -------------------------------
(***************************************************************************)
(* The CPU that reads the keyboard (nios/ECE385_usb_src/main.c and usb.c): *)
(* it resets the CY7C67200, enumerates a keyboard with a list of transfers *)
(* per step, polls it for reports and copies their first two codes into    *)
(* the memory it shares with the game CPU.  Every failure is a goto to the *)
(* label USB_HOT_PLUG.                                                     *)
(*                                                                         *)
(* The controller and the keyboard run beside it.  They are external: all  *)
(* that is assumed of them is what the code reads back.  A message that is *)
(* written before the last one was read replaces it.                       *)
(***************************************************************************)
EXTENDS Integers, Sequences

CONSTANTS
  Steps,        \* the steps of the enumeration: what each asks the keyboard for
  InfoStep,     \* the step before which the endpoint's descriptor is rewritten
  Reports,      \* the reports a keyboard sends: <<first code, second code>>
  WaitLimit,    \* 0x100, the bound of every counted wait
  InsertLooks,  \* 5 more looks for a keyboard before it counts as absent
  RemoveLooks   \* 7 before it counts as removed

Kinds == {"address", "descriptor", "configure"}
ASSUME StepsAssumption == Steps \in Seq(Kinds)
ASSUME ConfigureAssumption == \E i \in 1 .. Len(Steps) : Steps[i] = "configure"
ASSUME InfoAssumption == InfoStep \in 1 .. Len(Steps)
Bytes == 0 .. 255
ASSUME ReportsAssumption == Reports \subseteq Bytes \X Bytes /\ <<0, 0>> \in Reports
ASSUME LimitsAssumption ==
  WaitLimit \in Nat \ {0} /\ InsertLooks \in Nat /\ RemoveLooks \in Nat

VARIABLES
  pc, step,      \* where main() is; the step of the enumeration
  wait, looks,   \* wait_cycle; hot_plug_count
  got,           \* the message UsbWaitTDListDone has read
  present, keycode, report,   \* keyboard_present, the codes, the local keycode
  td,            \* the transfer list the controller works on
  msg,           \* HPI_SIE1_MSG
  ctl,           \* the control byte of the list, at 0x0508
  buffer,        \* the word at 0x051e
  device,        \* the keyboard
  enumerated,    \* history: since the last reset a keyboard was configured
  reported       \* history: a report of it has been stored

shared == <<present, keycode, report>>
local  == <<wait, looks, got>>
chip   == <<td, msg, ctl, buffer, device>>
ghosts == <<enumerated, reported>>
vars   == <<pc, step, local, shared, chip, ghosts>>

N == Len(Steps)
Polling == step > N

(* What the lists of the enumeration leave at 0x051e, between the buffer   *)
(* of the poll and its end: a pointer, 0x0520 in the last of them.         *)
ListWord == <<32, 5>>
ASSUME ListWordAssumption == ListWord \notin Reports

Goto(label) == pc' = label
HotPlug     == Goto("hotplug")

-----------------------------------------------------------------------------
(* Reset and the search for a keyboard                                     *)

Init ==
  /\ pc = "hotplug" /\ step = 1
  /\ wait = 0 /\ looks = 0 /\ got = "none"
  /\ present = FALSE /\ keycode = <<0, 0>> /\ report = <<0, 0>>
  /\ td = "none" /\ msg = "none" /\ ctl = "ok" /\ buffer = <<0, 0>>
  /\ device \in {"absent", "attached"}
  /\ enumerated = FALSE /\ reported = FALSE

(* USB_HOT_PLUG: UsbSoftReset, and the start of SIE1.                      *)
Reset ==
  /\ pc = "hotplug"
  /\ present' = FALSE
  /\ step' = 1
  /\ td' = "none" /\ msg' = "none"
  /\ enumerated' = FALSE /\ reported' = FALSE
  /\ wait' = 0
  /\ Goto("init")
  /\ UNCHANGED <<looks, got, keycode, report, ctl, buffer, device>>

LimitPassed == wait + 1 > WaitLimit   \* mutant: one too many
LimitReached == wait + 1 >= WaitLimit

(* The controller has not answered yet: wait on, or give up.               *)
WaitOn ==
  IF LimitReached THEN HotPlug /\ UNCHANGED wait
                  ELSE wait' = wait + 1 /\ UNCHANGED pc

(* The mailbox says COMM_ACK, or anything else, or nothing yet.            *)
StartSIE1 ==
  /\ pc = "init"
  /\ \/ WaitOn
     \/ (Goto("busreset") \/ HotPlug) /\ UNCHANGED wait
  /\ UNCHANGED <<step, looks, got, shared, chip, ghosts>>

(* STEP 2: the mailbox is read at once.  The bus reset brings a keyboard   *)
(* that is there to its default state.                                     *)
BusReset ==
  /\ pc = "busreset"
  /\ \/ HotPlug /\ UNCHANGED device
     \/ Goto("look") /\ device' = IF device = "absent" THEN "absent" ELSE "default"
  /\ looks' = 0
  /\ UNCHANGED <<step, wait, got, shared, td, msg, ctl, buffer, ghosts>>

(* The control register is read again and again; a keyboard that shows up  *)
(* in time is enumerated, without another bus reset.                       *)
Look ==
  /\ pc = "look"
  /\ IF device # "absent" THEN Goto("send") /\ UNCHANGED <<looks, wait>>
     ELSE IF looks < InsertLooks THEN looks' = looks + 1 /\ UNCHANGED <<pc, wait>>
     ELSE Goto("insert") /\ wait' = 0 /\ UNCHANGED looks
  /\ UNCHANGED <<step, got, shared, chip, ghosts>>

(* "please insert a USB keyboard": ends in USB_HOT_PLUG either way.        *)
AwaitInsertion ==
  /\ pc = "insert"
  /\ IF device # "absent" THEN HotPlug /\ UNCHANGED wait ELSE WaitOn
  /\ UNCHANGED <<step, looks, got, shared, chip, ghosts>>

-----------------------------------------------------------------------------
(* One transfer list: of a step, or of a poll                              *)

CurrentListKept == IF Polling THEN td ELSE Steps[step]   \* mutant: no poll is handed over
CurrentList == IF Polling THEN "poll" ELSE Steps[step]

SubmitEmptied ==   \* mutant: the poll's list is put where its data goes
  /\ td' = CurrentList
  /\ ctl' = "active"
  /\ buffer' = ListWord
Submit ==
  /\ td' = CurrentList
  /\ ctl' = "active"
  /\ buffer' = IF Polling THEN buffer ELSE ListWord

Send ==
  /\ pc = "send"
  /\ Submit
  /\ wait' = 0
  /\ Goto("flag")
  /\ UNCHANGED <<step, looks, got, shared, msg, device, ghosts>>

MessageFlag == msg # "none"

(* HPI_STATUS: the flag of SIE1's message.  The wait of a poll is endless. *)
Flag ==
  /\ pc = "flag"
  /\ \/ MessageFlag /\ Goto("message") /\ wait' = 0
     \/ ~ MessageFlag /\ Polling /\ Goto("resend") /\ UNCHANGED wait
     \/ ~ MessageFlag /\ ~ Polling /\ LimitReached /\ HotPlug /\ UNCHANGED wait
     \/ ~ MessageFlag /\ ~ Polling /\ ~ LimitReached /\ Goto("resend") /\ wait' = wait + 1
  /\ UNCHANGED <<step, looks, got, shared, chip, ghosts>>

Resend ==
  /\ pc = "resend"
  /\ Submit
  /\ Goto("flag")
  /\ UNCHANGED <<step, local, shared, msg, device, ghosts>>

(* UsbWaitTDListDone: the message is read, and then cleared.               *)
ReadMessage ==
  /\ pc = "message"
  /\ got' = msg
  /\ Goto("clear")
  /\ UNCHANGED <<step, wait, looks, shared, chip, ghosts>>

ClearMessage ==
  /\ pc = "clear"
  /\ msg' = "none"
  /\ \/ got = "done" /\ Goto(IF Polling THEN "store" ELSE "control") /\ wait' = 0
     \/ got # "done" /\ LimitReached /\ HotPlug /\ UNCHANGED wait
     \/ got # "done" /\ ~ LimitReached /\ Goto("message") /\ wait' = wait + 1
  /\ UNCHANGED <<step, looks, got, shared, td, ctl, buffer, device, ghosts>>

NotRefused == ctl # "failed"   \* mutant: a list that is still active counts
ListOk == ctl = "ok"

(* The next step; before InfoStep a descriptor is written to the memory,   *)
(* and its address into the pointer to the current list.  After the last   *)
(* step the keyboard counts as present.                                    *)
Advance ==
  /\ ListOk
  /\ step' = step + 1
  /\ present' = (present \/ step = N)
  /\ td' = IF step + 1 = InfoStep THEN "info" ELSE td
  /\ Goto("send")
  /\ UNCHANGED wait

(* The control byte: 0x03 after a transfer without retries.  The address   *)
(* must be accepted at once; other steps read again, through               *)
(* UsbGetRetryCnt.                                                         *)
Control ==
  /\ pc = "control"
  /\ \/ Advance
     \/ /\ ~ ListOk
        /\ \/ Steps[step] = "address" /\ HotPlug /\ UNCHANGED wait
           \/ Steps[step] # "address" /\ LimitReached /\ HotPlug /\ UNCHANGED wait
           \/ Steps[step] # "address" /\ ~ LimitReached /\ Goto("retry") /\ wait' = wait + 1
        /\ UNCHANGED <<step, present, td>>
  /\ UNCHANGED <<looks, got, keycode, report, msg, ctl, buffer, device, ghosts>>

(* UsbGetRetryCnt: a message that is there is taken, and another awaited.  *)
Retry ==
  /\ pc = "retry"
  /\ IF msg = "done" THEN msg' = "none" /\ Goto("another")
                     ELSE UNCHANGED msg /\ Goto("control")
  /\ UNCHANGED <<step, local, shared, td, ctl, buffer, device, ghosts>>

(* Its own count is not kept: while no message comes it may run out, and   *)
(* 0xffff, which is not 0x03, counts as one more retry.                    *)
Another ==
  /\ pc = "another"
  /\ \/ MessageFlag /\ Goto("control") /\ UNCHANGED wait
     \/ ~ MessageFlag /\ LimitReached /\ HotPlug /\ UNCHANGED wait
     \/ ~ MessageFlag /\ ~ LimitReached /\ Goto("retry") /\ wait' = wait + 1
  /\ UNCHANGED <<step, looks, got, shared, chip, ghosts>>

-----------------------------------------------------------------------------
(* A report that has been polled, and the keyboard's removal               *)

SecondCodeLow(r) == r[1]   \* mutant: the low byte twice
SecondCode(r) == r[2]

(* The word at 0x051e is taken for a report, whatever the list has done.   *)
StoreFirst ==
  /\ pc = "store"
  /\ report' = buffer
  /\ keycode' = [keycode EXCEPT ![1] = buffer[1]]
  /\ reported' = (reported \/ buffer \in Reports)
  /\ Goto("second")
  /\ UNCHANGED <<step, local, present, chip, enumerated>>

StoreSecond ==
  /\ pc = "second"
  /\ keycode' = [keycode EXCEPT ![2] = SecondCode(report)]
  /\ looks' = 0
  /\ Goto("check")
  /\ UNCHANGED <<step, wait, got, present, report, chip, ghosts>>

Check ==
  /\ pc = "check"
  /\ IF device # "absent" THEN Goto("send") /\ UNCHANGED looks
     ELSE IF looks < RemoveLooks THEN looks' = looks + 1 /\ UNCHANGED pc
     ELSE Goto("removed") /\ UNCHANGED looks
  /\ UNCHANGED <<step, wait, got, shared, chip, ghosts>>

BackAgain == "removed"   \* mutant: stays in the loop
Reinserted == "hotplug"

(* "the keyboard has been removed": the codes and the flag stay.           *)
AwaitReinsertion ==
  /\ pc = "removed"
  /\ device # "absent"
  /\ Goto(Reinserted)
  /\ UNCHANGED <<step, local, shared, chip, ghosts>>

Host ==
  \/ Reset \/ StartSIE1 \/ BusReset \/ Look \/ AwaitInsertion
  \/ Send \/ Flag \/ Resend \/ ReadMessage \/ ClearMessage
  \/ Control \/ Retry \/ Another
  \/ StoreFirst \/ StoreSecond \/ Check \/ AwaitReinsertion

-----------------------------------------------------------------------------
(* External: the keyboard and the controller                               *)

Understands(list) ==
  CASE list = "address" -> device = "default"
    [] list = "poll" -> device = "configured"
    [] OTHER -> device \in {"addressed", "configured"}

After(list) ==
  CASE list = "address" -> "addressed"
    [] list = "configure" -> "configured"
    [] OTHER -> device

(* The keyboard has done what the list asks for.                           *)
Transfer ==
  /\ td \in Kinds
  /\ Understands(td)
  /\ device' = After(td)
  /\ enumerated' = (enumerated \/ td = "configure")
  /\ td' = "none" /\ msg' = "done" /\ ctl' = "ok"
  /\ UNCHANGED <<pc, step, local, shared, buffer, reported>>

(* It answers a poll with a report, or has nothing to say (NAK).           *)
PollAnswered ==
  /\ td = "poll"
  /\ Understands("poll")
  /\ td' = "none" /\ msg' = "done" /\ ctl' = "ok"
  /\ buffer' \in Reports \cup {buffer}
  /\ UNCHANGED <<pc, step, local, shared, device, ghosts>>

(* Nobody answers: the list may end with an error, and be tried again.     *)
TransferFails ==
  /\ td \in Kinds \cup {"poll"}
  /\ ~ Understands(td)
  /\ msg' = "done" /\ ctl' = "failed"
  /\ UNCHANGED <<pc, step, local, shared, td, buffer, device, ghosts>>

(* The descriptor at 0x0576 taken for a list: over at once, with a message.*)
InfoDone ==
  /\ td = "info"
  /\ td' = "none" /\ msg' = "done"
  /\ UNCHANGED <<pc, step, local, shared, ctl, buffer, device, ghosts>>

(* HUSB_AINS and HUSB_ARMV, the messages of insertion and removal.         *)
Told == msg' \in {msg, "other"}

Plug ==
  /\ device = "absent"
  /\ device' = "attached"
  /\ Told
  /\ UNCHANGED <<pc, step, local, shared, td, ctl, buffer, ghosts>>

Unplug ==
  /\ device # "absent"
  /\ device' = "absent"
  /\ Told
  /\ UNCHANGED <<pc, step, local, shared, td, ctl, buffer, ghosts>>

Next ==
  Host \/ Transfer \/ PollAnswered \/ TransferFails \/ InfoDone \/ Plug \/ Unplug

Spec == Init /\ [][Next]_vars

(* The CPU runs, and the controller works through a list that its keyboard *)
(* understands.  Nobody has to plug in or pull out anything.               *)
FairSpec == Spec /\ WF_vars(Host) /\ WF_vars(Transfer) /\ WF_vars(PollAnswered)

-----------------------------------------------------------------------------
(* Correctness *)

Labels ==
  {"hotplug", "init", "busreset", "look", "insert", "send", "flag", "resend", "message",
   "clear", "control", "retry", "another", "store", "second", "check", "removed"}
Messages == {"none", "done", "other"}
Words == Reports \cup {ListWord}

(* The types: counted waits stay below the limit they are tested against,  *)
(* and the enumeration within its steps.                                   *)
TypeOK ==
  /\ pc \in Labels /\ step \in 1 .. N + 1
  /\ wait \in 0 .. WaitLimit - 1 /\ looks \in Nat /\ got \in Messages
  /\ present \in BOOLEAN /\ keycode \in Bytes \X Bytes /\ report \in Words
  /\ td \in Kinds \cup {"none", "poll", "info"} /\ msg \in Messages
  /\ ctl \in {"ok", "active", "failed"} /\ buffer \in Words
  /\ device \in {"absent", "attached", "default", "addressed", "configured"}
  /\ enumerated \in BOOLEAN /\ reported \in BOOLEAN

(* Messages that are late, left over from a list sent twice or overwritten *)
(* never make the CPU poll a keyboard that has not accepted its            *)
(* configuration since the last reset (main.c:211-555, usb.c:527-571).     *)
PolledWasConfigured == present => enumerated

(* The words of a transfer list may be taken for keys nobody has pressed,  *)
(* because 0x051e is read whatever the poll has brought (main.c:612); but  *)
(* not after the first report of the keyboard (main.c:609-619).            *)
NoPhantomKeys ==
  [][pc = "store" /\ report' = ListWord /\ pc' = "second" => ~ reported]_vars

(* The shared memory holds the codes of one report after the other: what   *)
(* the screens of the game rely on (main.c:612-619).                       *)
Codes == INSTANCE Keyboard WITH
  Reports <- Words,
  half <- pc = "second" /\ keycode[2] # report[2]
SharedCodes == Codes!Spec

(* The wait for the answer to a poll has no limit (main.c:583): it lasts   *)
(* forever only with a keyboard that was pulled out or replaced during it. *)
PollWaitEnds ==
  []<>(pc \notin {"flag", "resend"}) \/ <>[](device # "configured")

GivesUp == pc # "hotplug" /\ pc' = "hotplug"

(* A keyboard that stays plugged in is found and polled, unless the CPU    *)
(* gives up again and again (main.c:59-555, 622-658).                      *)
KeyboardFound ==
  <>[](device # "absent") => []<><<GivesUp>>_vars \/ <>[](present /\ pc # "removed")

(* What a keyboard has reported reaches the shared memory, however the     *)
(* polls, their resends and late messages fall (main.c:557-619).           *)
ReportArrives ==
  \A r \in Reports :
    <>[](buffer = r /\ device = "configured")
      => []<><<GivesUp>>_vars \/ <>[](keycode = r)
=============================================================================
