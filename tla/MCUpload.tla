------------------------------ MODULE MCUpload ------------------------------
(* Base-4 bytes and fields of two bytes; images of full and minimal length. *)
EXTENDS Upload

MCMagic == <<3, 1, 2>>
MCImages == {<<3, 1, 2>>, <<2>>}
=============================================================================
