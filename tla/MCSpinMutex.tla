---------------------------- MODULE MCSpinMutex ----------------------------
(* Three threads, two calls each, and loops short enough that a thread     *)
(* runs through all three of them and yields.                              *)
EXTENDS SpinMutex

IterationsValue == <<1, 2, 2>>
=============================================================================
