------------------------------- MODULE Infix --------------------------------
(***************************************************************************)
(* From a line of words to expression trees: the minus sign in runparse    *)
(* (parse.c) and the parser of expressions with infix operators and        *)
(* parentheses (paren.c).                                                  *)
(*                                                                         *)
(* A word is a sequence of tokens with no space between them.  Tokens are  *)
(* numbers (a, 0), operators, parentheses and names: Procs gives the least,*)
(* usual and greatest number of inputs of those that are defined (a        *)
(* greatest number below 0 is unlimited); names that begin with SET may be *)
(* variables to set; other names are unknown, and that is found out when   *)
(* they are run.  An error ends the parse: make_tree keeps no tree then.   *)
(* The warning of IF with three inputs is not modelled.                    *)
(***************************************************************************)
EXTENDS Integers, SequencesExt

CONSTANTS
    Numbers, Operators, \* tokens; "-" is an operator
    Priority(_),        \* of an operator: at least 1
    Procs,              \* function from names to <<least, usual, greatest>>
    Setters             \* undefined names that begin with SET

PREFIX_PRIORITY == 0

ASSUME InfixAssumption ==
    /\ "-" \in Operators /\ \A op \in Operators : Priority(op) > PREFIX_PRIORITY
    /\ \A p \in DOMAIN Procs : Procs[p][1] <= Procs[p][2]

---------------------------------------------------------------------------
(* runparse_node: a minus sign at the start of a longer word is unary.     *)
RunParseWord(word) ==
    IF Len(word) > 1 /\ Head(word) = "-" THEN <<"0", "--">> \o Tail(word) ELSE word
RunParse(line) == FlattenSeq([i \in DOMAIN line |-> RunParseWord(line[i])])

Pri(token) == IF token = "--" THEN PREFIX_PRIORITY + 4 ELSE IF token \in Operators THEN Priority(token) ELSE 0

Expr(fun, inputs) == [fun |-> fun, inputs |-> inputs]
Leaf(token) == Expr(token, <<>>)
NotEnough == Leaf("not enough")

Ok(tree, rest) == [tree |-> tree, rest |-> rest, err |-> FALSE]
Err == [tree |-> Leaf("error"), rest |-> <<>>, err |-> TRUE]
AtEnd(rest) == rest = <<>> \/ Head(rest) = ")"
AtInfix(rest) == rest # <<>> /\ Head(rest) \in Operators \cup {"--"}

RECURSIVE ParenExpr(_, _), ParenInfix(_, _, _, _), Gather(_, _, _, _)

(* An expression and the operators after it, as inputs and parentheses     *)
(* have it.                                                                *)
Whole(rest, first, inparen) ==
    LET e == ParenExpr(rest, first) IN IF e.err THEN Err ELSE ParenInfix(e.tree, e.rest, -1, inparen)

Parenthesized(rest) ==
    LET e == Whole(rest, TRUE, TRUE)
    IN IF e.err \/ e.rest = <<>> \/ Head(e.rest) # ")" THEN Err ELSE Ok(e.tree, Tail(e.rest))

Negative(rest, inparen) == ParenInfix(Leaf("0"), <<"--">> \o rest, -1, inparen)

Bounds(name, inparen) ==
    IF inparen THEN <<Procs[name][1], Procs[name][3]>> ELSE <<Procs[name][2], Procs[name][2]>>

Called(name, rest, inparen) ==
    LET n == IF name \in DOMAIN Procs THEN Bounds(name, inparen) ELSE IF name \in Setters THEN <<0, 1>> ELSE <<0, 0>>
        g == Gather(n[1], n[2], rest, inparen)
    IN IF g.err THEN Err ELSE Ok(Expr(name, g.tree), g.rest)

ParenExpr(expr, inparen) ==
    IF expr = <<>> THEN IF inparen THEN Err ELSE Ok(Leaf("nothing"), <<>>)
    ELSE LET first == Head(expr)
             rest == Tail(expr)
         IN CASE first \in Numbers -> Ok(Leaf(first), rest)
              [] first = "(" -> Parenthesized(rest)
              [] first = ")" -> Err
              [] first = "-" -> Negative(rest, inparen)
              [] first \in (Operators \cup {"--"}) \ {"-"} -> Err
              [] OTHER -> Called(first, rest, inparen)

(* gather_some_args: from least to most inputs; without parentheses around *)
(* it an input takes its usual number.                                     *)
Input(rest, inparen) == Whole(rest, FALSE, inparen)

Gather(least, most, rest, inparen) ==
    IF AtEnd(rest) \/ AtInfix(rest) THEN Ok(IF least > 0 THEN <<NotEnough>> ELSE <<>>, rest)
    ELSE IF most = 0 THEN Ok(<<>>, rest)
    ELSE LET e == Input(rest, inparen)
             g == Gather(least - 1, (IF most < 0 THEN 0 ELSE most) - 1, e.rest, inparen)
         IN IF e.err \/ g.err THEN Err ELSE Ok(<<e.tree>> \o g.tree, g.rest)

(* Mutant: an operator of the same priority goes to the right.             *)
BindsRight(token, old_pri) == Pri(token) # 0 /\ Pri(token) >= old_pri
Binds(token, old_pri) == Pri(token) # 0 /\ Pri(token) > old_pri

ParenInfix(left_arg, rest, old_pri, inparen) ==
    IF rest = <<>> \/ ~Binds(Head(rest), old_pri) THEN Ok(left_arg, rest)
    ELSE LET infix_proc == Head(rest)
             e == ParenExpr(Tail(rest), inparen)
             right == ParenInfix(e.tree, e.rest, Pri(infix_proc), inparen)
         IN IF e.err \/ right.err THEN Err
            ELSE ParenInfix(Expr(infix_proc, <<left_arg, right.tree>>), right.rest, old_pri, inparen)

RECURSIVE ParenLine(_)
ParenLine(line) ==
    IF line = <<>> THEN Ok(<<>>, <<>>)
    ELSE LET e == Whole(line, FALSE, FALSE)
             more == ParenLine(e.rest)
         IN IF e.err \/ more.err THEN Err ELSE Ok(<<e.tree>> \o more.tree, <<>>)

---------------------------------------------------------------------------
(* Trees, and the least parenthesized line for one: an operand is put in   *)
(* parentheses if its operator binds less than the one it is an operand of *)
(* (as much, on the right), or if it is a call, which would take the       *)
(* operators after it; a negative number may be one word.  (A negative     *)
(* number after a unary minus must be in parentheses: - -a is read as      *)
(* (0 -- 0) -- a, minus a.)                                                *)
IsBin(t) == t.fun \in Operators
IsNeg(t) == t.fun = "--"
NegLeaf(t) == IsNeg(t) /\ t.inputs[2].inputs = <<>>

RECURSIVE Shown(_), Operand(_, _)
InParens(words) == <<<<"(">>>> \o words \o <<<<")">>>>
Operand(t, least) ==
    IF (t.inputs = <<>> /\ t.fun \in Numbers) \/ NegLeaf(t) \/ (IsBin(t) /\ Pri(t.fun) >= least)
      THEN Shown(t) ELSE InParens(Shown(t))
Input1(t) ==
    IF IsNeg(t) \/ (t.fun \in DOMAIN Procs /\ Len(t.inputs) # Procs[t.fun][2]) THEN Operand(t, 1) ELSE Shown(t)
Shown(t) ==
    IF IsBin(t) THEN Operand(t.inputs[1], Pri(t.fun)) \o <<<<t.fun>>>> \o Operand(t.inputs[2], Pri(t.fun) + 1)
    ELSE IF NegLeaf(t) THEN <<<<"-", t.inputs[2].fun>>>>
    ELSE IF IsNeg(t)
      THEN <<<<"-">>>> \o IF NegLeaf(t.inputs[2]) THEN InParens(Shown(t.inputs[2])) ELSE Operand(t.inputs[2], 5)
    ELSE <<<<t.fun>>>> \o FlattenSeq([i \in DOMAIN t.inputs |-> Input1(t.inputs[i])])

Grown(S, T) ==
    {Expr(op, <<l, r>>) : op \in Operators, l \in S, r \in T} \cup {Expr("--", <<Leaf("0"), x>>) : x \in T}
    \cup UNION {{Expr(f, inputs) : inputs \in {<<l>> : l \in T} \cup {<<l, r>> : l \in S, r \in T}} : f \in DOMAIN Procs}
Fits(t) ==
    t.fun \in DOMAIN Procs =>
        LET b == Procs[t.fun] IN Len(t.inputs) >= b[1] /\ (b[3] < 0 \/ Len(t.inputs) <= b[3])
Trees1 == {t \in Grown({Leaf("a")}, {Leaf("a")}) : Fits(t)} \cup {Leaf("a")}
Trees2 == {t \in Grown(Trees1, Trees1) : Fits(t)} \cup Trees1
Trees3 == {t \in Grown(Trees2, Trees1) \cup Grown(Trees1, Trees2) : Fits(t)}

(* Every expression can be written without more parentheses than the       *)
(* priorities ask for, and is read back as it was (docs/ucblogo.texi:2886  *)
(* on the binding strength of the minus sign; paren.c:467-480).            *)
ReadsBack(t) ==
    LET words == IF t.fun \in DOMAIN Procs /\ Len(t.inputs) # Procs[t.fun][2] THEN InParens(Shown(t)) ELSE Shown(t)
        got == ParenLine(RunParse(words))
    IN ~got.err /\ got.tree = <<t>>
TreesComeBack == \A t \in Trees2 \cup Trees3 : ReadsBack(t)

(* Whatever the tokens of a line, if it is accepted each of them is in the *)
(* trees once and in its place, but for parentheses.                       *)
RECURSIVE Yield(_)
Yields(trees) == FlattenSeq([i \in DOMAIN trees |-> Yield(trees[i])])
Yield(t) ==
    IF IsBin(t) \/ IsNeg(t) THEN Yield(t.inputs[1]) \o <<IF IsNeg(t) THEN "-" ELSE t.fun>> \o Yield(t.inputs[2])
    ELSE (IF t \in {NotEnough, Leaf("nothing"), Leaf("0")} THEN <<>> ELSE <<t.fun>>) \o Yields(t.inputs)
Tokens == {"a", "-", "*", "(", ")", "unknown"} \cup DOMAIN Procs \cup Setters
NothingLost(length) ==
    \A line \in [1 .. length -> Tokens] :
        LET got == ParenLine(line)
        IN ~got.err => Yields(got.tree) = SelectSeq(line, LAMBDA token : token \notin {"(", ")"})
=============================================================================
