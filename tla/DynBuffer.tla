----------------------------- MODULE DynBuffer -----------------------------
(***************************************************************************)
(* dynbuffer: the memory block in which a response is built.  `held' are   *)
(* the positions that hold what was put there.  make_room doubles the      *)
(* block when an addition does not fit; a child buffer adds behind what    *)
(* its parent counts, and the parent learns of it when the child is        *)
(* finalised.                                                              *)
(***************************************************************************)
EXTENDS Integers

CONSTANT InitialSize  \* bytes of a new block, 1024 in the code

NewBuffer == [size |-> InitialSize, pos |-> 0, held |-> {}]

NoLength == -1

NoChild  == [open |-> FALSE, pos |-> 0, length |-> NoLength]
NewChild == [open |-> TRUE, pos |-> 0, length |-> NoLength]

\* The position where the next addition goes.
At(b, child) == b.pos + child.pos

\* A block of twice the size, with a copy of the whole old one.  Slip: a copy
\* of what the parent has counted so far.
Grown_Counted(b) ==
    [size |-> 2 * b.size, pos |-> b.pos,
     held |-> {p \in b.held : p < b.pos}]

Grown(b) ==
    [size |-> 2 * b.size, pos |-> b.pos,
     held |-> {p \in b.held : p < b.size}]

\* Room for n bytes at position `at': at most one doubling, whatever n is.
\* Slip: the bytes to come are not counted.
MakeRoom_Late(b, at, n) == IF at > b.size THEN Grown(b) ELSE b

MakeRoom(b, at, n) == IF at + n > b.size THEN Grown(b) ELSE b

\* Whether n bytes lie within the block that make_room leaves.  Nothing in the
\* code asks: what does not fit is written behind the block.
Fits(b, at, n) == at + n <= MakeRoom(b, at, n).size

\* n bytes stored at position `at'.  What is stored behind the block is not
\* copied with it, and lost.
Store(b, at, n) ==
    [b EXCEPT !.held = @ \cup {p \in at..(at + n - 1) : p < b.size}]

\* add_u8, add_hu16, add_nu16, add_hu32, add_nu32, add_bytes.
AddBytes(b, at, n) == Store(MakeRoom(b, at, n), at, n)

\* add_cc1_ucs2 (wide = 1) and add_cch2_ucs2 (wide = 2): a count, for which
\* one byte is reserved, and a text of `bytes' bytes in UTF-8, `chars' in
\* UCS-2; the count is stored last.  A converter that cannot be opened, for
\* which the code adds nothing and returns 0, is left out.
AddText(b, at, wide, bytes, chars) ==
    LET counted == MakeRoom(b, at, 1)
        written == IF bytes = 0 THEN counted
                   ELSE Store(MakeRoom(counted, at + wide, 2 * bytes),
                              at + wide, 2 * chars)
    IN Store(written, at, wide)

\* Whether the text lies within the block.
TextFits(b, at, wide, bytes, chars) ==
    bytes # 0 =>
        at + wide + 2 * chars
            <= MakeRoom(MakeRoom(b, at, 1), at + wide, 2 * bytes).size
=============================================================================
