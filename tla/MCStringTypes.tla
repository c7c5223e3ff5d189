--------------------------- MODULE MCStringTypes ----------------------------
\* An instance of StringTypes for TLC: the letter a in both cases, with an
\* acute accent and with a breve, the breve as a combining mark, and the Greek
\* letter alpha; ISO-8859-1 has the first three of these units.
EXTENDS StringTypes

MCLetters  == {65, 97, 225}
MCElements == { [unit |-> 225, letter |-> 97,  accent |-> 2],
                [unit |-> 259, letter |-> 97,  accent |-> 3],
                [unit |-> 774, letter |-> 0,   accent |-> 3],
                [unit |-> 945, letter |-> 945, accent |-> 0] }
MCLimits   == {-1, 1, 2, 4, 5}
=============================================================================
