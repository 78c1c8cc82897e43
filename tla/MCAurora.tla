------------------------------ MODULE MCAurora ------------------------------
(* The device alone, small enough for TLC: two RAM cells, then the bus     *)
(* addresses of two of the device's own registers.                         *)
EXTENDS Aurora, TLC

CONSTANTS MCReg2, MCReg3   (* the registers mapped at bus addresses 2 and 3 *)

MCSelfBar == (2 :> MCReg2) @@ (3 :> MCReg3)

(* Descriptors: every bus address, both ends of the window and one address *)
(* past it, no cell, one or two, every command and an unknown one.         *)
MCDescriptors ==
  [r \in BarRegs |->
     CASE r = "src" -> {0, 1, 2} [] r = "dst" -> {1, 2, 3}
       [] r = "len" -> {1, 2}    [] r = "cmd" -> {0, 1, 2}
       [] r \in {"reg1", "reg2", "reg3"} -> {}
       [] OTHER -> {2}]

MCMsixOnly == {<<TRUE, FALSE>>}
=============================================================================
