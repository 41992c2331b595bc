---------------------------- MODULE MCFtpDownload ---------------------------
(***************************************************************************)
(* An instance of FtpDownload for TLC: a remote file of four different     *)
(* bytes and, under the local name, nothing or an older file that is       *)
(* shorter, as long, or longer.                                            *)
(***************************************************************************)
EXTENDS FtpDownload

MCBytes == 0..4
MCRemote == <<1, 2, 3, 4>>
MCBefore == {<<0>>, <<0, 0, 0, 0>>, <<0, 0, 0, 0, 0>>}
=============================================================================
