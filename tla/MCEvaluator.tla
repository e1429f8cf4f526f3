------------------------------ MODULE MCEvaluator ------------------------------
(***************************************************************************)
(* Small programs for TLC: a line calls f, f calls g or the macro m, and g *)
(* calls nobody.                                                           *)
(***************************************************************************)
EXTENDS EvalMeaning

\* Instructions.
print(n) == [op |-> "print", args |-> <<Const(Word(n))>>]
printOf(e) == [op |-> "print", args |-> <<e>>]
output(e) == [op |-> "output", args |-> <<e>>]
maybeoutput(e) == [op |-> ".maybeoutput", args |-> <<e>>]
throw(tag) == [op |-> "throw", args |-> <<Const(Word(tag))>>]
throwValue(tag) == [op |-> "throw", args |-> <<Const(Word(tag)), Const(Word("3"))>>]
call(f) == [op |-> f, args |-> <<>>]
L(l) == Const(ListOf(l))
run(l) == [op |-> "run", args |-> <<L(l)>>]
runresult(l) == [op |-> "runresult", args |-> <<L(l)>>]
repeat(l) == [op |-> "repeat", args |-> <<L(l)>>]
catch(tag, l) == [op |-> "catch", args |-> <<Const(Word(tag)), L(l)>>]
apply(l) == [op |-> "apply", args |-> <<L(l)>>]
applyName(f) == [op |-> "apply", args |-> <<Const(Word(f))>>]
stop == call("stop")
g == call("g")
m == call("m")
four == Const(Word("4"))

UpTo2(s) == {<<>>} \cup {<<a>> : a \in s} \cup {<<a, b>> : a \in s, b \in s}
Prog(line, fBody, gBody, mBody) ==
    [line |-> line, body |-> [f |-> fBody, g |-> gBody, m |-> mBody]]

f == call("f")
Lines == {<<f>>, <<printOf(f)>>, <<run(<<f>>), print("0")>>}
Result == <<printOf(runresult(<<f>>))>>
GBodies == {<<>>, <<print("6")>>, <<output(four)>>, <<print("6"), stop>>, <<throwValue("t")>>}
After == {<<>>, <<print("9")>>, <<stop>>}
Ends == {print("1"), output(four), throw("t"), throw("error")}
Plain == Ends \cup {four}

\* One construct around a list, in the body of f.
Around(l) == {repeat(l), catch("t", l), catch("error", l), apply(l), printOf(catch("t", l)),
              printOf(runresult(l))}
Spliced(l) == {run(l), printOf(run(l)), printOf(runresult(l))}
CallsG == UpTo2(Plain \cup {g}) \ UpTo2(Plain)
Nested ==
    {Prog(line, <<n>> \o a, <<>>, <<>>) : line \in Lines, a \in After,
        n \in UNION {Around(l) : l \in UpTo2(Plain)}
                \cup UNION {Spliced(l) : l \in UpTo2(Plain \cup {stop})}}
    \cup {Prog(line, <<n>> \o a, b, <<>>) : line \in Lines, a \in After, b \in GBodies,
        n \in UNION {Around(l) \cup Spliced(l) : l \in CallsG}}
    \cup {Prog(Result, <<n>> \o a, <<>>, <<>>) : a \in After,
        n \in UNION {Around(l) : l \in UpTo2(Ends)}}

\* A construct in a construct.
Twice ==
    {Prog(line, <<n>> \o a, <<output(four)>>, <<>>) : line \in Lines, a \in {<<>>, <<print("9")>>},
        n \in UNION {Around(<<i>>) \cup Spliced(<<i>>) : i \in
                  UNION {Around(<<e>>) \cup Spliced(<<e>>) : e \in Plain \cup {g}}}}

\* Macros, and procedures that are applied.
MBodies == {<<print("7")>>, <<stop>>, <<throw("t")>>, <<output(four)>>}
               \cup {<<output(L(l))>> : l \in UpTo2({print("1"), output(four), g})}
MStops == {<<output(L(l))>> : l \in {<<stop>>, <<print("1"), stop>>, <<g, stop>>}}
Macros ==
    {Prog(line, b \o a, gBody, mBody) :
        line \in Lines, gBody \in {<<>>, <<output(four)>>}, mBody \in MBodies \cup MStops, a \in After,
        b \in {<<m>>, <<print("8"), m>>, <<printOf(m)>>, <<applyName("m")>>, <<applyName("g")>>,
               <<printOf(applyName("g"))>>}}
    \cup {Prog(line, <<n>> \o a, <<output(four)>>, mBody) :
        line \in Lines, mBody \in MBodies, a \in {<<>>, <<print("9")>>},
        n \in {repeat(<<m>>), catch("t", <<m>>)}}

\* The input of OUTPUT and .MAYBEOUTPUT.
Inputs ==
    {Prog(line, <<maybeoutput(e)>> \o a, gBody, <<>>) : line \in Lines \cup {Result}, a \in After,
        gBody \in GBodies, e \in {four, g, print("1"), run(<<g>>)}}
    \cup {Prog(line, <<g>> \o a, <<maybeoutput(e)>>, <<>>) : line \in Lines, a \in After,
        e \in {four, print("1")}}
    \cup {Prog(line, <<n>>, gBody, <<>>) : line \in Lines, gBody \in {<<print("6")>>, <<throwValue("t")>>},
        n \in {apply(<<maybeoutput(g)>>), catch("t", <<maybeoutput(g)>>), repeat(<<maybeoutput(g)>>)}}
    \cup {Prog(line, <<output(e)>> \o a, gBody, <<>>) : line \in Lines, a \in After,
        gBody \in GBodies, e \in {g, catch("t", <<g>>), applyName("g")}}

Small == Nested \cup Twice \cup Macros \cup Inputs

\* STOP inside a REPEAT, that is the last instruction or not; or of a procedure that
\* is called last in the list of another.
StopInRepeat ==
    {Prog(line, <<repeat(l)>> \o a, <<repeat(<<stop>>)>>, <<>>) : line \in Lines, a \in After,
        l \in {<<stop>>, <<print("1"), stop>>, <<print("1"), g>>}}
=============================================================================
