------------------------------- MODULE MCSerial -------------------------------
(***************************************************************************)
(* Small instances of Serial.                                              *)
(***************************************************************************)
EXTENDS Serial, SequencesExt, FiniteSets

\* "a\nb", and a line of one character.
MCTexts == {<<97, NL, 98>>, <<99>>}
MCBauds == {0, 1, 2, 9600, 115200, 230400}
MCOneBaud == {115200}
MCPeer == {120, 121}

\* What putc is to put on the line for the characters it is given.
Lines(cs) == FlattenSeq([i \in DOMAIN cs |-> IF cs[i] = NL THEN <<CR, NL>> ELSE <<cs[i]>>])

\* What is left of s when only the positions in keep are kept.
Kept(s, keep) ==
    LET numbered == SelectSeq([i \in DOMAIN s |-> <<i, s[i]>>], LAMBDA p : p[1] \in keep)
    IN  [i \in DOMAIN numbered |-> numbered[i][2]]

\* putc gives the device every character in order, a carriage return before each
\* newline, and leaves out exactly the ones whose wait was in vain: a carriage
\* return can be lost and its newline not, or the other way round, but never more
\* characters than waits.
LostOnlyToTimeouts ==
    initialized /\ pc \in {"idle", "putc"} =>
        LET all == Lines(said) IN
        /\ late <= Len(all)
        /\ \E keep \in kSubset(Len(all) - late, DOMAIN all) : sent = Kept(all, keep)
=============================================================================
