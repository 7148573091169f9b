----------------------------- MODULE Calculator -----------------------------
(***************************************************************************)
(* The calculator that answers sums (calculator.c): a lexer that enters    *)
(* every name it meets into a table, a yacc parser whose reductions build  *)
(* expressions and assign variables while the question is still being      *)
(* read, and eval, which follows the variables of an expression through    *)
(* the table.  Table and definitions outlive the question and are shared   *)
(* by all humans.  An expression is reduced to the places in the table of  *)
(* the variables it mentions; which sentence is read is left open, so any  *)
(* reduction the stack allows may come next.                               *)
(***************************************************************************)
EXTENDS Integers, Sequences

CONSTANTS
  Names,       \* names a human may use for a variable
  MAXVAR,      \* size of the table of variables (1000)
  YYMAXDEPTH   \* operands the parser's stack has room for (150 entries)

Places == 1 .. MAXVAR

\* An expression is the variables it mentions; a variable has a definition or
\* the null pointer.
Exprs == SUBSET Places
ENULL == [defined |-> FALSE, uses |-> {}]
Definition(e) == [defined |-> TRUE, uses |-> e]

ASSUME TableAssumption == MAXVAR \in Nat \ {0}

VARIABLES
  pc,        \* "idle" between two questions, "parsing", or "exited"
  Varname,   \* the names met so far: the place of a name is its position
  Variable,  \* the definition of each place, or ENULL
  stack,     \* yyv: operands, and names that may still turn out as targets
  res,       \* the reply: the names it shows, and how the value came out
  typed      \* history: the names of the question being read or just read

sum_vars == <<pc, Varname, Variable, stack, res, typed>>

Nvar == Len(Varname)

\* A stack entry is an expression, or (name # 0) a VARIABLE token.
Operand(e) == [name |-> 0, uses |-> e]
Token(i) == [name |-> i, uses |-> {}]
IsOperand(item) == item.name = 0

Top == stack[Len(stack)]
Below == stack[Len(stack) - 1]
Drop(k) == SubSeq(stack, 1, Len(stack) - k)

Nothing == [shown |-> {}, value |-> "none"]

SumInit ==
  /\ pc = "idle"
  /\ Varname = <<>>
  /\ Variable = [i \in Places |-> ENULL]
  /\ stack = <<>>
  /\ res = Nothing
  /\ typed = {}
-----------------------------------------------------------------------------
(* What eval and checkrecursion see when they follow definitions: the      *)
(* least set of variables that contains those of e and of every definition *)
(* in it.  It is stated with closed sets, V being the definitions.         *)
Closed(V, C) == \A i \in C : V[i].uses \subseteq C

Reaches(V, e, i) ==
  \A C \in SUBSET Places : e \subseteq C /\ Closed(V, C) => i \in C

\* (Mutant: only the expression itself is searched.)
checkrecursionFlat(varno, expr) == varno \in expr
checkrecursion(varno, expr) == Reaches(Variable, expr, varno)

\* eval has a number only when every variable it comes by is defined; a
\* division by zero, the logarithm of 0 and the like leave it UNDEFINED too.
eval(e) ==
  IF \E i \in Places : Reaches(Variable, e, i) /\ ~Variable[i].defined
  THEN {"UNDEFINED"} ELSE {"UNDEFINED", "number"}

\* The reply repeats the expression, its variables by name.
ptree(e) == {Varname[i] : i \in e}
-----------------------------------------------------------------------------
(* call_process_expression finds no digit, operator or parenthesis in the  *)
(* sentence, or nothing but a question mark: it is no sum.                 *)
NotASum ==
  /\ pc = "idle"
  /\ res' = Nothing /\ typed' = {}
  /\ UNCHANGED <<pc, Varname, Variable, stack>>

(* process_expression calls yyparse, with an empty stack.                  *)
Ask ==
  /\ pc = "idle"
  /\ pc' = "parsing" /\ stack' = <<>>
  /\ res' = Nothing /\ typed' = {}
  /\ UNCHANGED <<Varname, Variable>>

(* The driver pushes a state and a value, if there is room for them.       *)
Shift(item) ==
  /\ Len(stack) < YYMAXDEPTH
  /\ stack' = Append(stack, item)

(* yylex meets name n: it is entered unless it is there, whatever becomes  *)
(* of the sentence; filling the table ends the program.                    *)
\* (Mutant: one more name is taken.)
FullLate(names) == Len(names) > MAXVAR
Full(names) == Len(names) = MAXVAR

Enter(n) == IF \E i \in DOMAIN Varname : Varname[i] = n THEN Varname
            ELSE Append(Varname, n)

PlaceOf(names, n) == CHOOSE i \in DOMAIN names : names[i] = n

LexVariable(n) ==
  /\ pc = "parsing"
  /\ Varname' = Enter(n)
  /\ typed' = typed \cup {n}
  /\ IF Full(Varname')
     THEN pc' = "exited" /\ stack' = stack
     ELSE pc' = pc /\ Shift(Token(PlaceOf(Varname', n)))
  /\ UNCHANGED <<Variable, res>>

(* A constant, or $, the last answer: both are a NUMBER node.              *)
LexNumber ==
  /\ pc = "parsing"
  /\ Shift(Operand({}))
  /\ UNCHANGED <<pc, Varname, Variable, res, typed>>

(* Reductions.  Rule 34: a VARIABLE that no = follows.                     *)
\* (Mutant: the node takes the count of names for the place.)
VariableNodeLast(item) == Operand({Nvar})
VariableNode(item) == Operand({item.name})

ReduceVariable ==
  /\ pc = "parsing"
  /\ stack # <<>> /\ ~IsOperand(Top)
  /\ stack' = Append(Drop(1), VariableNode(Top))
  /\ UNCHANGED <<pc, Varname, Variable, res, typed>>

(* Rules 5 to 33: a node over its one, two or three operands.              *)
Operation(k) ==
  /\ pc = "parsing"
  /\ k <= Len(stack)
  /\ \A j \in Len(stack) - k + 1 .. Len(stack) : IsOperand(stack[j])
  /\ stack' = Append(Drop(k),
       Operand(UNION {stack[j].uses : j \in Len(stack) - k + 1 .. Len(stack)}))
  /\ UNCHANGED <<pc, Varname, Variable, res, typed>>

(* Rule 4: # replaces its operand by the value it has now.                 *)
Constant ==
  /\ pc = "parsing"
  /\ stack # <<>> /\ IsOperand(Top)
  /\ stack' = Append(Drop(1), Operand({}))
  /\ UNCHANGED <<pc, Varname, Variable, res, typed>>

(* Rule 3: an assignment takes effect when it is reduced; a definition     *)
(* that would lead back to the variable is refused and undefines it.       *)
Assign ==
  /\ pc = "parsing"
  /\ Len(stack) >= 2 /\ IsOperand(Top) /\ ~IsOperand(Below)
  /\ Variable' = [Variable EXCEPT ![Below.name] =
                    IF checkrecursion(Below.name, Top.uses) THEN ENULL
                    ELSE Definition(Top.uses)]
  /\ stack' = Append(Drop(2), Top)
  /\ UNCHANGED <<pc, Varname, res, typed>>

(* yyparse gives up, wherever it is: no rule of the grammar recovers, the  *)
(* stack is popped to its end, and what was reduced before stays.          *)
SyntaxError ==
  /\ pc = "parsing"
  /\ pc' = "idle" /\ stack' = <<>>
  /\ res' = [shown |-> {}, value |-> "error"]
  /\ UNCHANGED <<Varname, Variable, typed>>

(* Rule 1 and the rest of process_expression.                              *)
Accept ==
  /\ pc = "parsing"
  /\ Len(stack) = 1 /\ IsOperand(Top)
  /\ pc' = "idle" /\ stack' = <<>>
  /\ \E v \in eval(Top.uses) : res' = [shown |-> ptree(Top.uses), value |-> v]
  /\ UNCHANGED <<Varname, Variable, typed>>

(* do-www-grumpy starts the program again.                                 *)
SumRestart ==
  /\ pc = "exited"
  /\ pc' = "idle"
  /\ Varname' = <<>> /\ Variable' = [i \in Places |-> ENULL]
  /\ stack' = <<>> /\ res' = Nothing /\ typed' = {}

SumNext ==
  \/ NotASum \/ Ask
  \/ (\E n \in Names : LexVariable(n)) \/ LexNumber
  \/ ReduceVariable \/ (\E k \in 1 .. 3 : Operation(k)) \/ Constant \/ Assign
  \/ SyntaxError \/ Accept
  \/ SumRestart

SumSpec == SumInit /\ [][SumNext]_sum_vars
-----------------------------------------------------------------------------
Items == [name : Places \cup {0}, uses : Exprs]

Values == {"none", "error", "UNDEFINED", "number"}

(* The types of the variables.                                             *)
SumTypeOK ==
  /\ pc \in {"idle", "parsing", "exited"}
  /\ Varname \in Seq(Names)
  /\ Variable \in [Places -> [defined : BOOLEAN, uses : Exprs]]
  /\ stack \in Seq(Items)
  /\ res \in [shown : SUBSET Names, value : Values]
  /\ typed \in SUBSET Names

\* Of any variables, one is defined without the others.
Acyclic(V) ==
  \A S \in SUBSET Places : S # {} => \E i \in S : V[i].uses \cap S = {}

(* No variable is defined by way of itself, however many questions, of     *)
(* however many humans, made up the definitions.  Otherwise eval and       *)
(* checkrecursion never return (calculator.c:349, 419).                    *)
NoCircle == Acyclic(Variable)

(* The table (calculator.c:200-208): a name has one place, the last place  *)
(* is never used by a running program, and nothing on the stack or in a    *)
(* definition points past the names.                                       *)
TableSound ==
  pc # "exited" =>
    /\ Nvar < MAXVAR
    /\ \A i, j \in DOMAIN Varname : Varname[i] = Varname[j] => i = j
    /\ \A i \in Places : Variable[i].uses \subseteq 1 .. Nvar
    /\ \A k \in DOMAIN stack :
         stack[k].name <= Nvar /\ stack[k].uses \subseteq 1 .. Nvar

(* A reply shows names of the question it answers: places and names do not *)
(* get out of step while questions that fail leave names behind.           *)
ShownWasTyped == res.shown \subseteq typed

(* The inductive invariant: besides the properties above, that what is on  *)
(* the stack was typed in this question, and gone with it.                 *)
CalculatorInv ==
  /\ SumTypeOK
  /\ NoCircle
  /\ TableSound
  /\ ShownWasTyped
  /\ pc = "idle" => stack = <<>>
  /\ pc # "exited" =>
       \A k \in DOMAIN stack :
         \A i \in stack[k].uses \cup ({stack[k].name} \ {0}) : Varname[i] \in typed
=============================================================================
