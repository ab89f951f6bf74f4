----------------------------- MODULE MCStartup -----------------------------
(* Command lines for the configurations of Startup.                        *)
EXTENDS Startup

option(letter, n) == [c |-> letter, n |-> n]
flag(letter)      == option(letter, NoNumber)
files(lens)       == [k \in DOMAIN lens |-> option("file", lens[k])]

(* Four warriors of all lengths, with the separation given or computed.    *)
Four == {files(<<2, n, m, 1>>) : n, m \in 0 .. MAXLENGTH}
Separated == {<<option("d", 2), flag("m")>> \o f : f \in Four}

(* Two warriors and cores of all kinds; three that fill core to the last   *)
(* location.                                                               *)
Others ==
    {<<option("s", s), option("p", 3), option("c", 5), option("r", 2)>>
        \o files(<<1, 2>>) : s \in {1, 3, 4, 10, 16}}
    \cup {<<option("s", 9), option("d", 3)>> \o files(<<3, 3, 3>>)}
    \cup {<<option("r", 0)>> \o files(<<1>>), files(<<2>>)}

(* Separations for which there is no space.                                *)
NoSpace ==
    {<<option("s", 10), option("d", 6)>> \o files(<<6, 6>>),
     <<option("s", 10), option("d", 4)>> \o files(<<4, 4, 4>>),
     <<option("d", 3)>> \o files(<<2, 2, 2, 1>>)}

(* Four warriors, and a separation of a quarter of UINT.                   *)
Quarter == {<<option("d", 16)>> \o files(<<2, 2, 2, 1>>)}

(* The product in check_sanity() wraps, or core is larger than a field.    *)
Wrapped ==
    Quarter \cup
    {<<option("s", 6), option("d", 22)>> \o files(<<2, 2, 2>>),
     <<option("s", 31), option("d", 16)>> \o files(<<1, 1, 1, 1>>),
     <<option("s", 20)>> \o files(<<1, 1>>)}

(* Command lines that are refused.                                         *)
Refused ==
    {<<>>, <<flag("k"), flag("b")>>, <<flag("x")>>, <<flag("F")>>,
     <<option("F", 7), option("file", 1), option("s", 0)>>, <<option("p", 0)>>}

AllCommandLines == Four \cup Separated \cup Others \cup NoSpace
                       \cup Wrapped \cup Refused
=============================================================================
