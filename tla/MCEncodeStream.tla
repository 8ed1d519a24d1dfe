---------------------------- MODULE MCEncodeStream ---------------------------
(***************************************************************************)
(* A small instance of EncodeStream: a frame is made of four bytes of PCM  *)
(* and coded in three; the client has three frames.                        *)
(***************************************************************************)
EXTENDS EncodeStream

MCSrcSizes == {0, 1, 3, 4, 9, 12}
MCDstSizes == {0, 1, 2, 3, 7, 20}
==============================================================================
