----------------------------- MODULE MCWsStream -----------------------------
(***************************************************************************)
(* A small instance of WsStream for TLC. A length field of two bits stands *)
(* for the one of 32.                                                      *)
(***************************************************************************)
EXTENDS WsStream

SomePayloads == {1, LenLimit}
=============================================================================
