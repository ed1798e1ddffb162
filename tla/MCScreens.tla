------------------------------ MODULE MCScreens -----------------------------
(* Small instances of Screens for TLC.                                     *)
EXTENDS Screens

(* Every command, and two keys held at a time: Enter beside a key that the *)
(* keyboard reports before it.                                             *)
SomeReports ==
  {<<None, None>>, <<Enter, None>>, <<R, None>>, <<Esc, None>>, <<79, Enter>>}
=============================================================================
