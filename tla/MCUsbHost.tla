------------------------------ MODULE MCUsbHost -----------------------------
(* A small instance of UsbHost for TLC.                                    *)
EXTENDS UsbHost

(* The nine steps of main.c.                                               *)
NineSteps ==
  <<"address", "descriptor", "descriptor", "descriptor", "descriptor",
    "configure", "descriptor", "descriptor", "descriptor">>

SomeReports == {<<0, 0>>, <<40, 0>>, <<79, 40>>}
=============================================================================
