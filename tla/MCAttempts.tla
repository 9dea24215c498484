------------------------------- MODULE MCAttempts ------------------------------
(***************************************************************************)
(* An instance of Attempts for TLC: two attempts of two processes that have *)
(* one number, in at most two seconds.                                     *)
(***************************************************************************)
EXTENDS Attempts

SomeChunks == {<<"x">>, <<"x", "nl">>, <<"nl", "y", "nl">>, <<"y", "z">>}
================================================================================
