-------------------------- MODULE MCResponseWriter --------------------------
\* Instances of ResponseWriter for TLC: texts that are empty or, in UCS-2, as
\* long as a block; columns without a typmod, of a small one and of one that
\* WordLimit cuts to the word for NULL.
EXTENDS ResponseWriter

Utf8(b, c) == [bytes |-> b, chars |-> c]

MCTexts == {Utf8(0, 0), Utf8(7, 5)}

MCRowTypes ==
    {[type |-> "varchar", typmod |-> m] : m \in {-1, 12, 31}}
    \cup {[type |-> t, typmod |-> -1] : t \in {"int", "decimal"}}
=============================================================================
