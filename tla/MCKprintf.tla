------------------------------ MODULE MCKprintf ------------------------------
(***************************************************************************)
(* Calls of Kprintf.  A format is put together from tokens, and its        *)
(* meaning from theirs: the scanner has to find the tokens again.          *)
(***************************************************************************)
EXTENDS Kprintf

MCIntBits == 4
MCLongBits == 8
MCCharOf == [code \in {37} |-> "%"]
MCStringAt == [address \in {1} |-> <<"%", "d">>]

\* The numeral of n, defined from its highest digit down.
RECURSIVE Numeral(_, _)
Numeral(n, b) ==
    IF n < b THEN <<Digit(n)>> ELSE Numeral(n \div b, b) \o <<Digit(n % b)>>

SignedOf(v, bits) == IF v < 2^(bits - 1) THEN v ELSE v - 2^bits
Decimal(v) == IF v < 0 THEN <<"-">> \o Numeral(-v, 10) ELSE Numeral(v, 10)

\* Every digit of a pointer: the numeral of a number with one digit more, without it.
Padded(v) == Tail(Numeral(16^(MCLongBits \div 4) + v, 16))

Token(f, as, text) == [fmt |-> f, args |-> as, means |-> text]
LowInt(v) == v % 2^MCIntBits

Number(v) ==
    {Token(<<"%", "d">>, <<v>>, Decimal(SignedOf(LowInt(v), MCIntBits))),
     Token(<<"%", "l", "d">>, <<v>>, Decimal(SignedOf(v, MCLongBits))),
     Token(<<"%", "u">>, <<v>>, Numeral(LowInt(v), 10)),
     Token(<<"%", "l", "u">>, <<v>>, Numeral(v, 10)),
     Token(<<"%", "x">>, <<v>>, Numeral(LowInt(v), 16)),
     Token(<<"%", "l", "x">>, <<v>>, Numeral(v, 16)),
     Token(<<"%", "p">>, <<v>>, <<"0", "x">> \o Padded(v))}

Text ==
    {Token(<<"l">>, <<>>, <<"l">>), Token(<<"d">>, <<>>, <<"d">>),
     Token(<<"%", "%">>, <<>>, <<"%">>),
     Token(<<"%", "q">>, <<>>, <<"%", "q">>),
     Token(<<"%", "l", "l">>, <<>>, <<"%", "l", "l">>),
     Token(<<"%", "c">>, <<37>>, <<"%">>),
     Token(<<"%", "s">>, <<1>>, <<"%", "d">>),
     Token(<<"%", "s">>, <<nullptr>>, <<"(", "n", "u", "l", "l", ")">>)}

\* A call with a null pointer for its format.
Null == [args |-> <<>>, means |-> <<>>]

\* Only at the end of a format.
Lone == Token(<<"%">>, <<>>, <<>>)
Modifier == Token(<<"%", "l">>, <<>>, <<"%", "l">>)

Join(s, t) == Token(s.fmt \o t.fmt, s.args \o t.args, s.means \o t.means)

Some == Text \cup UNION {Number(v) : v \in {0, 8, 128, 255}}
MCInputs ==
    UNION {Number(v) : v \in 0 .. 2^MCLongBits - 1}
    \cup {Join(s, t) : s \in Some, t \in Some \cup {Lone}}
    \cup {Null}

\* Formats that end in a length modifier.
MCModifierInputs == {Join(t, Modifier) : t \in Text}
=============================================================================
