--------------------------- MODULE MCSerialClient ---------------------------
(* Small instance of SerialClient, in units of half a second: the wake-up and *)
(* the settling as in the code, a read timeout of one and a half seconds, and *)
(* replies that may take longer than either.                                  *)
EXTENDS SerialClient
=============================================================================
