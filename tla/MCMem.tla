--------------------------------- MODULE MCMem ---------------------------------
(***************************************************************************)
(* A small instance of Mem: every pair of areas of five bytes.             *)
(***************************************************************************)
EXTENDS Mem

\* A negative argument of memset, and one past a byte.
MCChar == {-1, 2}
=============================================================================
