-------------------------- MODULE MCKeyboardWorker --------------------------
(* Model-checking instances of KeyboardWorker: batches of three keystrokes, *)
(* of which the KERNAL buffer takes two.                                   *)
EXTENDS KeyboardWorker
=============================================================================
