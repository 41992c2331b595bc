----------------------------- MODULE MCFtpUpload ----------------------------
(***************************************************************************)
(* An instance of FtpUpload for TLC: a local file of three different bytes *)
(* and, before it, a shorter and a longer file of other bytes.  Three      *)
(* different bytes tell a lost, a repeated and a displaced part apart.     *)
(***************************************************************************)
EXTENDS FtpUpload

MCBytes == 0..3
MCLocal == <<1, 2, 3>>
MCBefore == {<<0>>, <<0, 0, 0, 0>>}
=============================================================================
