--------------------------- MODULE RegisterAccess ---------------------------
(***************************************************************************)
(* What a load from or a store to a register of the PHY promises the       *)
(* program: it acts on the register at one moment between the request and  *)
(* its end, on no other register, and a load returns what was there at     *)
(* that moment.  Mdio implements it bit by bit.                            *)
(***************************************************************************)
CONSTANTS Registers, Words, NoAnswer

VARIABLES
  op, address, writedata,  \* the access the program waits for
  answer,                  \* what the register gave or took, until the end
  result,                  \* what the last load returned
  registers                \* the registers of the PHY

request == <<op, address, writedata>>
vars == <<request, answer, result, registers>>

Init ==
  /\ op = "none" /\ address \in Registers /\ writedata \in Words
  /\ answer = NoAnswer /\ result \in Words
  /\ registers \in [Registers -> Words]

Ask ==
  /\ op = "none"
  /\ op' \in {"read", "write"} /\ address' \in Registers /\ writedata' \in Words
  /\ UNCHANGED <<answer, result, registers>>

Perform ==
  /\ op # "none" /\ answer = NoAnswer
  /\ \/ /\ op = "read"
        /\ answer' = registers[address]
        /\ UNCHANGED registers
     \/ /\ op = "write"
        /\ answer' = writedata
        /\ registers' = [registers EXCEPT ![address] = writedata]
  /\ UNCHANGED <<request, result>>

End ==
  /\ answer # NoAnswer
  /\ result' = IF op = "read" THEN answer ELSE result
  /\ op' = "none" /\ answer' = NoAnswer
  /\ UNCHANGED <<address, writedata, registers>>

(* The PHY changes a register by itself: the link, the end of a reset.     *)
Change ==
  /\ \E r \in Registers, w \in Words : registers' = [registers EXCEPT ![r] = w]
  /\ UNCHANGED <<request, answer, result>>

Next == Ask \/ Perform \/ End \/ Change

Spec == Init /\ [][Next]_vars
=============================================================================
