----------------------------- MODULE MCGamePlay -----------------------------
(* Small instances of GamePlay for TLC.                                    *)
EXTENDS GamePlay

Both == {"single", "double"}
Single == {"single"}
Double == {"double"}
=============================================================================
