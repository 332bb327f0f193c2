---------------------------- MODULE MCDlmsServer ----------------------------
(* Instance of DlmsServer: a file of 10 rows of 2 bytes, 8 bytes a block,   *)
(* 7 when it is ciphered.                                                   *)
EXTENDS DlmsServer

(* The whole profile in two portions and three blocks; an interval that     *)
(* ends before the file does; the last seven rows, whose data is one byte   *)
(* too long for an ordinary reply.                                          *)
MCReads ==
  [c \in Channels |->
    IF c = "tcp" THEN {<<0, 10>>, <<0, 9>>, <<3, 10>>} ELSE {<<0, 10>>}]
==============================================================================
