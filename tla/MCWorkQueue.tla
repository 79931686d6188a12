---------------------------- MODULE MCWorkQueue ----------------------------
(***************************************************************************)
(* A small instance of WorkQueue: fewer workers than connections, and a    *)
(* buffer that wraps and fills up.                                         *)
(***************************************************************************)
EXTENDS WorkQueue

MCFds == 3..6
=============================================================================
