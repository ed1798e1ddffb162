------------------------------ MODULE Keyboard ------------------------------
(***************************************************************************)
(* The key codes in the memory the two CPUs share (comm.h), as the game    *)
(* CPU may rely on them: the codes of one report after the other, each     *)
(* written slot by slot.  UsbHost implements it; Screens is built on it.   *)
(***************************************************************************)
CONSTANT Reports   \* <<first code, second code>>

VARIABLES
  keycode,  \* keycode_comm->keycode[0] and [1]; nothing writes the other four
  report,   \* the report the USB CPU has read last
  half      \* slot 0 of it is written, and slot 1 is still to change

vars == <<keycode, report, half>>

Init == keycode = <<0, 0>> /\ report = <<0, 0>> /\ half = FALSE

FirstKey(r) ==
  /\ ~ half
  /\ report' = r
  /\ keycode' = [keycode EXCEPT ![1] = r[1]]
  /\ half' = (keycode[2] # r[2])   \* a store of the same code changes nothing

SecondKey ==
  /\ half
  /\ keycode' = [keycode EXCEPT ![2] = report[2]]
  /\ half' = FALSE
  /\ UNCHANGED report

Next == SecondKey \/ \E r \in Reports : FirstKey(r)

Spec == Init /\ [][Next]_vars
=============================================================================
