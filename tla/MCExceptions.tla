----------------------------- MODULE MCExceptions -----------------------------
(***************************************************************************)
(* Small instances of Exceptions.                                          *)
(***************************************************************************)
EXTENDS Exceptions

\* Every vector, within its dump an NMI, which nothing masks, or a page fault, and
\* from there on page faults until the stack is used up.
Nested == <<0 .. 31, {2, 14}, {14}>>
=============================================================================
