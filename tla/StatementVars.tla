---------------------------- MODULE StatementVars ---------------------------
(***************************************************************************)
(* How the parser binds variables.  The text of a statement is built with  *)
(* a placeholder $k in the place of each variable, and the statement is    *)
(* left with the list of the variables that the placeholders stand for.    *)
(* One list, stmt_vars, serves the statement that is being read; the       *)
(* condition of an IF or a WHILE belongs to a statement that ends long     *)
(* after it, so a rule in the middle of the statement puts its list aside. *)
(*                                                                         *)
(* The input is any sequence of tokens, and the steps are those of the     *)
(* parser: reductions, and the shifts that lead to them.  Of an expression *)
(* or a condition its variables are kept; of the statements that read      *)
(* expressions, that they do.  The defaults in DECLARE and in a parameter  *)
(* of CREATE PROCEDURE are expressions whose text the statement drops;     *)
(* their variables are in its list all the same, and text here has them.   *)
(***************************************************************************)
EXTENDS Naturals, Sequences, SequencesExt

CONSTANTS Names,   \* variables as they are written
          Lower,   \* each name in lower case
          MaxText, \* bound: variables in one expression
          MaxDepth \* bound: statements around a statement

VARIABLES
    state,     \* what is read next, or "ended" or "failed"
    stmt_vars, \* the list for the statement that is being read
    text,      \* its variables so far, and their placeholders
    stack,     \* the statements it is inside of, outermost first
    stmt       \* the statement that was reduced last

vars == <<state, stmt_vars, text, stack, stmt>>

NoStmt == [text |-> << >>, vars |-> << >>]

Init == /\ state = "statement"
        /\ stmt_vars = << >>
        /\ text = << >>
        /\ stack = << >>
        /\ stmt = NoStmt

Top == Last(stack)

Inside(ops) == stack # << >> /\ Top.op \in ops

Pop == stack' = Front(stack)

\* A rule of `statement': the list goes to the statement and is cleared.
Reduce(written, list) ==
    /\ stmt' = [text |-> written, vars |-> list]
    /\ stmt_vars' = << >>
    /\ state' = "reduced"

----------------------------------------------------------------------------
(* Expressions *)

\* Where a variable is in the list, or else is going to be.
Place(list, v) == CHOOSE i \in 1 .. Len(list) + 1 :
                     /\ i <= Len(list) => list[i] = v
                     /\ \A j \in 1 .. i - 1 : list[j] # v

\* A statement with an expression, and an IF or a WHILE.
StartStatement(op) ==
    /\ state = "statement"
    /\ state' = op
    /\ UNCHANGED <<stmt_vars, text, stack, stmt>>

Start == \E op \in {"leaf", "if", "while"} :
            /\ op # "leaf" => Len(stack) < MaxDepth
            /\ StartStatement(op)

Var(name) ==
    /\ state \in {"leaf", "if", "while"}
    /\ Len(text) < MaxText
    /\ LET v == Lower[name]
           i == Place(stmt_vars, v)
       IN  /\ stmt_vars' = IF i > Len(stmt_vars) THEN Append(stmt_vars, v)
                           ELSE stmt_vars
           /\ text' = Append(text, [name |-> name, at |-> i])
    /\ UNCHANGED <<state, stack, stmt>>

\* SET, PRINT, EXEC (...), a query: the whole of the statement is read.
LeafEnd ==
    /\ state = "leaf"
    /\ Reduce(text, stmt_vars)
    /\ text' = << >>
    /\ UNCHANGED stack

\* Slip: the list is put aside and goes on being used.
ConditionEnd_KeepsList ==
    /\ state \in {"if", "while"}
    /\ stack' = Append(stack, [op |-> state, text |-> text,
                               saved |-> stmt_vars])
    /\ state' = "statement"
    /\ text' = << >>
    /\ UNCHANGED <<stmt_vars, stmt>>

\* The rule after a condition: the list is put aside and cleared.
ConditionEnd ==
    /\ state \in {"if", "while"}
    /\ stack' = Append(stack, [op |-> state, text |-> text,
                               saved |-> stmt_vars])
    /\ stmt_vars' = << >>
    /\ state' = "statement"
    /\ text' = << >>
    /\ UNCHANGED stmt

----------------------------------------------------------------------------
(* Statements that contain statements *)

BlockStart ==
    /\ state = "statement"
    /\ Len(stack) < MaxDepth
    /\ stack' = Append(stack, [op |-> "block", text |-> << >>,
                               saved |-> << >>])
    /\ UNCHANGED <<state, stmt_vars, text, stmt>>

\* Another statement of a block, or of the program.
AnotherStatement ==
    /\ state = "reduced"
    /\ stack = << >> \/ Inside({"block"})
    /\ state' = "statement"
    /\ UNCHANGED <<stmt_vars, text, stack, stmt>>

BlockEnd ==
    /\ state = "reduced"
    /\ Inside({"block"})
    /\ Reduce(<< >>, stmt_vars)
    /\ Pop
    /\ UNCHANGED text

\* An ELSE belongs to the IF that was read last: the parser shifts it.
Else ==
    /\ state = "reduced"
    /\ Inside({"if"})
    /\ stack' = Append(Front(stack), [Top EXCEPT !.op = "else"])
    /\ state' = "statement"
    /\ UNCHANGED <<stmt_vars, text, stmt>>

\* Slip: the list is not brought back.
OuterEnd_DropsList ==
    /\ state = "reduced"
    /\ Inside({"if", "else", "while"})
    /\ Reduce(Top.text, stmt_vars)
    /\ Pop
    /\ UNCHANGED text

\* The end of an IF, with an ELSE or without, and of a WHILE: the list that
\* was put aside becomes stmt_vars again, and goes to the statement.
OuterEnd ==
    /\ state = "reduced"
    /\ Inside({"if", "else", "while"})
    /\ Reduce(Top.text, Top.saved)
    /\ Pop
    /\ UNCHANGED text

\* The end of the text.
ProgramEnd ==
    /\ state = "reduced"
    /\ stack = << >>
    /\ state' = "ended"
    /\ UNCHANGED <<stmt_vars, text, stack, stmt>>

\* A token that fits nowhere: the program is given up with what it has.
SyntaxError ==
    /\ state \notin {"ended", "failed"}
    /\ state' = "failed"
    /\ UNCHANGED <<stmt_vars, text, stack, stmt>>

Next ==
    \/ Start
    \/ \E name \in Names : Var(name)
    \/ LeafEnd \/ ConditionEnd
    \/ BlockStart \/ AnotherStatement \/ BlockEnd
    \/ Else \/ OuterEnd
    \/ ProgramEnd \/ SyntaxError

Spec == Init /\ [][Next]_vars

----------------------------------------------------------------------------
(* Properties *)

\* A variable in a text, and the number of its placeholder.
Uses == [name : Names, at : Nat \ {0}]

\* Variables as they are in lists.
Lowered == {Lower[n] : n \in Names}

TypeOK ==
    /\ state \in {"statement", "leaf", "if", "while", "reduced", "ended",
                  "failed"}
    /\ stmt_vars \in Seq(Lowered)
    /\ text \in Seq(Uses)
    /\ stack \in Seq([op : {"block", "if", "else", "while"},
                      text : Seq(Uses), saved : Seq(Lowered)])
    /\ stmt \in [text : Seq(Uses), vars : Seq(Lowered)]

\* Every placeholder of a statement stands for the variable that is written
\* in its place, in lower case, also when the statement is the IF or WHILE of
\* a condition with other statements, and their variables, read since.
Bound == \A i \in DOMAIN stmt.text :
            LET p == stmt.text[i]
            IN  /\ p.at \in DOMAIN stmt.vars
                /\ stmt.vars[p.at] = Lower[p.name]

\* A statement is executed with its own variables, each once, and with no
\* other's: one that has no value yet is an ERROR to PostgreSQL even where no
\* placeholder asks for it.
OnlyItsOwn == /\ IsInjective(stmt.vars)
              /\ ToSet(stmt.vars) = {Lower[stmt.text[i].name] :
                                        i \in DOMAIN stmt.text}
=============================================================================
