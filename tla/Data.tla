-------------------------------- MODULE Data --------------------------------
(***************************************************************************)
(* Lists, arrays and property lists (lists.c, and logodata.c from getprop  *)
(* on): which primitives copy and which share, the check that keeps arrays *)
(* from containing themselves, and what .SETFIRST, .SETBF and .SETITEM may *)
(* do to the rest.                                                         *)
(*                                                                         *)
(* Words have more than one letter and are not taken apart.  A call with   *)
(* inputs that the primitive refuses changes nothing and is left out, and  *)
(* so is one that goes round a circle for ever.                            *)
(***************************************************************************)
EXTENDS Integers, SequencesExt

CONSTANTS
    NODE,       \* the nodes of the heap
    Word, Lower(_), \* words, and what they are in lower case
    Nil,
    Var,        \* variables
    MaxOps      \* bound on the calls

ASSUME DataAssumption ==
    /\ IsFiniteSet(NODE) /\ MaxOps \in Nat
    /\ Nil \notin NODE \cup Word /\ NODE \cap Word = {} /\ \A w \in Word : Lower(w) \in Word

Value == NODE \cup Word \cup {Nil}

VARIABLES
    heap,       \* [t |-> "free"], [t |-> "cons", car, cdr] or [t |-> "array", items]
    val,        \* the variables
    plist,      \* the property list of one symbol
    caseignored,
    dotted,     \* the last call was of a primitive with a dot
    ops

data_vars == <<heap, val, plist, caseignored, dotted, ops>>

Free == [t |-> "free"]
Pair(a, d) == [t |-> "cons", car |-> a, cdr |-> d]
Array(items) == [t |-> "array", items |-> items]

IsCons(h, v) == v \in NODE /\ h[v].t = "cons"
IsArray(h, v) == v \in NODE /\ h[v].t = "array"
IsList(h, v) == v = Nil \/ IsCons(h, v)
Car(h, v) == h[v].car
Cdr(h, v) == h[v].cdr

DataInit ==
    /\ heap = [n \in NODE |-> Free]
    /\ val = [v \in Var |-> Nil] /\ plist = Nil
    /\ caseignored = TRUE /\ dotted = FALSE /\ ops = 0

---------------------------------------------------------------------------
(* The conses of a list, as a loop over its cdrs meets them; a longer one  *)
(* than the heap goes round.                                               *)
Conses(h, v) ==
    LET met[k \in 0 .. Cardinality(NODE) + 1] ==
            IF k = 0 THEN <<>>
            ELSE LET c == met[k - 1]
                     next == IF c = <<>> THEN v ELSE Cdr(h, Last(c))
                 IN IF IsCons(h, next) THEN Append(c, next) ELSE c
    IN met[Cardinality(NODE) + 1]
Ends(h, v) == Len(Conses(h, v)) <= Cardinality(NODE) /\ IsList(h, v)
                 /\ (v # Nil => Cdr(h, Last(Conses(h, v))) = Nil)
Elements(h, v) == LET c == Conses(h, v) IN [i \in DOMAIN c |-> Car(h, c[i])]

(* The nodes that are found from some values: the least set that has the   *)
(* nodes among the values and all that its members point to.               *)
Parts(h, v) ==
    IF IsCons(h, v) THEN {Car(h, v), Cdr(h, v)} ELSE IF IsArray(h, v) THEN ToSet(h[v].items) ELSE {}
Closed(h, T) == \A n \in T : Parts(h, n) \cap NODE \subseteq T
Found(h, S) ==
    LET roots == S \cap NODE
        closed == {T \in SUBSET (NODE \ roots) : Closed(h, roots \cup T)}
    IN {n \in NODE : n \in roots \/ \A T \in closed : n \in T}

(* No way from them leads round a circle.                                  *)
AllStraight(h, S) == \A n \in Found(h, S) : n \notin Found(h, Parts(h, n))
Straight(h, v) == AllStraight(h, {v})

Room(k) == Cardinality({n \in NODE : heap[n] = Free}) >= k
New(h) == CHOOSE n \in NODE : h[n] = Free

(* A result: the heap after it, and the value.                             *)
Result(h, v) == [h |-> h, v |-> v]
Make(h, cell) == LET n == New(h) IN Result([h EXCEPT ![n] = cell], n)

(* Fresh conses for the elements of a sequence, before a tail.             *)
Copied(h, s, tail) ==
    LET copied[k \in 0 .. Len(s)] ==
            IF k = 0 THEN Result(h, tail)
            ELSE LET r == copied[k - 1] IN Make(r.h, Pair(s[Len(s) - k + 1], r.v))
    IN copied[Len(s)]

---------------------------------------------------------------------------
(* The operations that output something.                                   *)

Fput(h, a, l) == Make(h, Pair(a, l))
Lput(h, a, l) == Copied(h, Append(Elements(h, l), a), Nil)
First(h, l) == Car(h, l)
ButFirst(h, l) == Cdr(h, l)
LastOf(h, l) == Last(Elements(h, l))
ButLast(h, l) == Copied(h, Front(Elements(h, l)), Nil)
ListOf(h, a, b) == Copied(h, <<a, b>>, Nil)
NewArray(h, len) == Make(h, Array([i \in 1 .. len |-> Nil]))
Item(h, i, v) == IF IsArray(h, v) THEN h[v].items[i] ELSE Elements(h, v)[i]

(* SENTENCE copies every input but the last one, whose conses it shares.   *)
Words(h, a) == IF IsList(h, a) THEN Elements(h, a) ELSE <<a>>
(* Mutant: the last cons of the first input is made to point at the last.  *)
SentenceInPlace(h, a, b) ==
    IF IsCons(h, a) THEN Result([h EXCEPT ![Last(Conses(h, a))].cdr = b], a)
    ELSE Copied(h, Words(h, a), IF IsList(h, b) THEN b ELSE Nil)
Sentence(h, a, b) ==
    IF IsList(h, b) THEN Copied(h, Words(h, a), b) ELSE Copied(h, Append(Words(h, a), b), Nil)

Firsts(h, l) == LET e == Elements(h, l) IN Copied(h, [i \in DOMAIN e |-> First(h, e[i])], Nil)
ButFirsts(h, l) == LET e == Elements(h, l) IN Copied(h, [i \in DOMAIN e |-> ButFirst(h, e[i])], Nil)
ListToArray(h, l) == Make(h, Array(Elements(h, l)))
ArrayToList(h, a) == Copied(h, h[a].items, Nil)

SameWord(a, b) == a = b \/ (caseignored /\ Lower(a) = Lower(b))

(* Mutant: equalp_help forgets that one list may be longer.                *)
EqualpPrefix(h, a, b) ==
    LET equal[k \in 0 .. Cardinality(NODE)] ==
            {p \in Value \X Value :
                IF IsList(h, p[1]) /\ IsList(h, p[2])
                  THEN \/ Nil \in {p[1], p[2]}
                       \/ /\ k > 0 /\ <<Car(h, p[1]), Car(h, p[2])>> \in equal[k - 1]
                          /\ <<Cdr(h, p[1]), Cdr(h, p[2])>> \in equal[k - 1]
                  ELSE IF {p[1], p[2]} \subseteq Word THEN SameWord(p[1], p[2]) ELSE p[1] = p[2]}
    IN <<a, b>> \in equal[Cardinality(NODE)]

(* equal[k] are the pairs that are equal after at most k nested calls of   *)
(* equalp_help; on values that do not go round there are no more than nodes*)
Equalp(h, a, b) ==
    LET equal[k \in 0 .. Cardinality(NODE)] ==
            {p \in Value \X Value :
                IF IsCons(h, p[1]) /\ IsCons(h, p[2])
                  THEN /\ k > 0 /\ <<Car(h, p[1]), Car(h, p[2])>> \in equal[k - 1]
                       /\ <<Cdr(h, p[1]), Cdr(h, p[2])>> \in equal[k - 1]
                  ELSE IF {p[1], p[2]} \subseteq Word THEN SameWord(p[1], p[2]) ELSE p[1] = p[2]}
    IN <<a, b>> \in equal[Cardinality(NODE)]

(* MEMBER: the rest of the list from the first equal element on.           *)
Member(h, a, l) ==
    LET c == Conses(h, l)
        at == {i \in DOMAIN c : Equalp(h, a, Car(h, c[i]))}
    IN IF at = {} THEN Nil ELSE c[CHOOSE i \in at : \A j \in at : i <= j]

(* Mutant: only the members of a list are looked at, not theirs.           *)
CircularShallow(h, arr, v) ==
    v = arr \/ (IsList(h, v) /\ arr \in ToSet(Elements(h, v)))
(* circular: is the array the new value or found in it?  (Its recursion    *)
(* does not end on a circle.)                                              *)
Circular(h, arr, v) == arr \in Found(h, {v})

---------------------------------------------------------------------------
(* Property lists: name, value, name, value ...                            *)

(* The cons with the first such name, or the one of the name before it.    *)
GetProp(h, p, name, before) ==
    LET c == Conses(h, p)
        at == {i \in DOMAIN c : i % 2 = 1 /\ SameWord(name, Car(h, c[i]))}
        i == CHOOSE i \in at : \A j \in at : i <= j
    IN IF at = {} THEN Nil ELSE IF ~before THEN c[i] ELSE IF i = 1 THEN Nil ELSE c[i - 2]

Property(h, p, name) ==
    LET at == GetProp(h, p, name, FALSE) IN IF at = Nil THEN Nil ELSE Car(h, Cdr(h, at))
Gprop(name) == Property(heap, plist, name)

---------------------------------------------------------------------------
Values == {val[v] : v \in Var} \cup Word \cup {Nil}

(* Nodes that nothing leads to are free again.                             *)
Swept(h, x, p) ==
    LET live == Found(h, {x[v] : v \in Var} \cup {p}) IN [n \in NODE |-> IF n \in live THEN h[n] ELSE Free]
Call == ops < MaxOps /\ ops' = ops + 1
Outputs(x, r) ==
    /\ val' = [val EXCEPT ![x] = r.v]
    /\ heap' = Swept(r.h, val', plist)
    /\ UNCHANGED <<plist, caseignored>>

Build(x) ==
    \E a, b \in Values :
        \/ IsList(heap, b) /\ Room(1) /\ Outputs(x, Fput(heap, a, b))
        \/ Ends(heap, b) /\ Room(Len(Conses(heap, b)) + 1) /\ Outputs(x, Lput(heap, a, b))
        \/ Room(2) /\ Outputs(x, ListOf(heap, a, b))
        \/ /\ \A v \in {a, b} : ~IsArray(heap, v)
           /\ IsList(heap, a) => Ends(heap, a)
           /\ Room(Len(Words(heap, a)) + IF IsList(heap, b) THEN 0 ELSE 1)
           /\ Outputs(x, Sentence(heap, a, b))

MakeArray(x) == \E len \in 1 .. 2 : Room(1) /\ Outputs(x, NewArray(heap, len))

Choose(x) ==
    \E a \in Values :
        \/ IsCons(heap, a) /\ Outputs(x, Result(heap, First(heap, a)))
        \/ IsCons(heap, a) /\ Outputs(x, Result(heap, ButFirst(heap, a)))
        \/ IsCons(heap, a) /\ Ends(heap, a) /\ Outputs(x, Result(heap, LastOf(heap, a)))
        \/ IsCons(heap, a) /\ Ends(heap, a) /\ Room(Len(Conses(heap, a))) /\ Outputs(x, ButLast(heap, a))
        \/ IsArray(heap, a) /\ \E i \in DOMAIN heap[a].items : Outputs(x, Result(heap, Item(heap, i, a)))
        \/ /\ IsList(heap, a) /\ Straight(heap, a)
           /\ \E b \in Values : Straight(heap, b) /\ Outputs(x, Result(heap, Member(heap, b, a)))

Convert(x) ==
    \E a \in Values :
        \/ Ends(heap, a) /\ Room(1) /\ Outputs(x, ListToArray(heap, a))
        \/ IsArray(heap, a) /\ Room(Len(heap[a].items)) /\ Outputs(x, ArrayToList(heap, a))
        \/ /\ IsCons(heap, a) /\ Ends(heap, a) /\ Room(Len(Conses(heap, a)))
           /\ \A e \in ToSet(Elements(heap, a)) : IsCons(heap, e)
           /\ (Outputs(x, Firsts(heap, a)) \/ Outputs(x, ButFirsts(heap, a)))

Changed(h) == heap' = Swept(h, val, plist) /\ UNCHANGED <<val, plist, caseignored>>

SetItem ==
    \E a, v \in Values :
        /\ IsArray(heap, a) /\ Straight(heap, v) /\ ~Circular(heap, a, v)
        /\ \E i \in DOMAIN heap[a].items : Changed([heap EXCEPT ![a].items[i] = v])

(* .SETITEM, .SETFIRST and .SETBF.  (.SETBF may be given a word: what then *)
(* happens to the loops over cdrs is not modelled.)                        *)
Dotted ==
    \E a, v \in Values :
        \/ IsArray(heap, a) /\ \E i \in DOMAIN heap[a].items : Changed([heap EXCEPT ![a].items[i] = v])
        \/ IsCons(heap, a) /\ Changed([heap EXCEPT ![a].car = v])
        \/ IsCons(heap, a) /\ IsList(heap, v) /\ Changed([heap EXCEPT ![a].cdr = v])

Pprop(name, v) ==
    LET at == GetProp(heap, plist, name, FALSE)
        front == Copied(heap, <<name, v>>, plist)
    IN /\ IF at # Nil
            THEN UNCHANGED plist /\ heap' = Swept([heap EXCEPT ![Cdr(heap, at)].car = v], val, plist)
            ELSE Room(2) /\ plist' = front.v /\ heap' = Swept(front.h, val, plist')
       /\ UNCHANGED <<val, caseignored>>

Remprop(name) ==
    /\ plist # Nil
    /\ LET before == GetProp(heap, plist, name, TRUE)
           value == Cdr(heap, before)
       IN IF SameWord(Car(heap, plist), name)
            THEN plist' = Cdr(heap, Cdr(heap, plist)) /\ heap' = Swept(heap, val, plist')
            ELSE /\ before # Nil /\ UNCHANGED plist
                 /\ heap' = Swept([heap EXCEPT ![value].cdr = Cdr(heap, Cdr(heap, Cdr(heap, value)))], val, plist)
    /\ UNCHANGED <<val, caseignored>>

Plist(h, p) == Copied(h, Elements(h, p), Nil)

CaseIgnored == caseignored' = ~caseignored /\ UNCHANGED <<heap, val, plist>>

SafeCall ==
    /\ Call /\ dotted' = FALSE
    /\ \/ \E x \in Var : Build(x) \/ MakeArray(x) \/ Choose(x) \/ Convert(x)
       \/ \E x \in Var : Room(Len(Conses(heap, plist))) /\ Outputs(x, Plist(heap, plist))
       \/ \E n \in Word, v \in Values : Pprop(n, v)
       \/ \E n \in Word : Remprop(n)
       \/ SetItem \/ CaseIgnored

DataNext == SafeCall \/ (Call /\ dotted' = TRUE /\ Dotted)

DataSpec == DataInit /\ [][DataNext]_data_vars

---------------------------------------------------------------------------
(* What a value is, when lists are values and arrays are places.           *)
(* Its words are in lower case when two of them that differ in case only   *)
(* are to count as one.  shape[k] goes k lists deep.                       *)
Shape(h, v, lower) ==
    LET shape[k \in 0 .. Cardinality(NODE)] ==
            [u \in Value |->
                IF IsList(h, u)
                  THEN LET e == Elements(h, u)
                       IN <<"list", IF k = 0 THEN <<>> ELSE [i \in DOMAIN e |-> shape[k - 1][e[i]]]>>
                ELSE IF IsArray(h, u) THEN <<"array", u>>
                ELSE <<"word", IF lower THEN Lower(u) ELSE u>>]
    IN shape[Cardinality(NODE)][v]
Tree(h, v) == Shape(h, v, FALSE)
Members(h, v) == Tree(h, v)[2]

Plain == AllStraight(heap, Values \cup {plist})

Cell ==
    {Free} \cup [t : {"cons"}, car : Value, cdr : NODE \cup {Nil}] \cup [t : {"array"}, items : Seq(Value)]

(* The nodes that a value or the property list leads to are the ones that  *)
(* are not free, lists are lists to their end, and the property list has a *)
(* name for every value (lremprop, lists.c).                               *)
DataTypeOK ==
    /\ heap \in [NODE -> Cell] /\ val \in [Var -> Value] /\ plist \in NODE \cup {Nil}
    /\ dotted \in BOOLEAN /\ caseignored \in BOOLEAN /\ ops \in 0 .. MaxOps
    /\ \A n \in NODE : n \in Found(heap, Values \cup {plist}) <=> heap[n] # Free
    /\ \A n \in NODE : IsCons(heap, n) => IsList(heap, Cdr(heap, n))
    /\ Ends(heap, plist) /\ Len(Elements(heap, plist)) % 2 = 0
    /\ \A i \in DOMAIN Elements(heap, plist) : i % 2 = 1 => Elements(heap, plist)[i] \in Word

(* No value, and no property, leads to a cons of the property list itself: *)
(* PLIST copies them (lists.c, logodata.c:578-605), and nothing a program  *)
(* does with its lists, not even .SETBF, gets at the names.                *)
PlistIsPrivate ==
    ToSet(Conses(heap, plist)) \cap Found(heap, Values \cup ToSet(Elements(heap, plist))) = {}

(* Every primitive outputs the list it is meant to, however its inputs     *)
(* share conses with each other and with what it builds (lists.c:72-700).  *)
OpsAreMeant ==
    Plain =>
    \A a \in Values :
        LET T(r) == Tree(r.h, r.v)
            els == Members(heap, a)
            list(s) == <<"list", s>>
        IN /\ IsList(heap, a) =>
                /\ Room(Len(els) + 1) => \A b \in Values :
                      /\ T(Lput(heap, b, a)) = list(Append(els, Tree(heap, b)))
                      /\ T(Fput(heap, b, a)) = list(<<Tree(heap, b)>> \o els)
                      /\ ~IsArray(heap, b) =>
                            T(Sentence(heap, a, b)) =
                              list(els \o IF IsList(heap, b) THEN Members(heap, b) ELSE <<Tree(heap, b)>>)
                /\ Room(Len(els)) /\ a # Nil => T(ButLast(heap, a)) = list(Front(els))
           /\ IsCons(heap, a) =>
                /\ Tree(heap, First(heap, a)) = Head(els) /\ Tree(heap, LastOf(heap, a)) = Last(els)
                /\ Tree(heap, ButFirst(heap, a)) = list(Tail(els))
           /\ IsArray(heap, a) /\ Room(Len(heap[a].items)) =>
                LET back == ArrayToList(heap, a)
                IN Room(Len(heap[a].items) + 1) => ListToArray(back.h, back.v).h[New(back.h)].items = heap[a].items

(* Only a primitive with a dot, or an assignment to the variable, changes  *)
(* the list a variable holds: what is shared is never written              *)
(* (docs/ucblogo.texi:1006-1010, lists.c:368-402).                         *)
ListsAreValues ==
    [][~dotted' /\ Plain =>
         \A v \in Var : val'[v] = val[v] => Tree(heap', val[v]) = Tree(heap, val[v])]_data_vars

(* Without a primitive with a dot no value comes to contain itself: SETITEM*)
(* looks for the array in all of the new member (lists.c:582-600).         *)
SafeIsAcyclic == [][~dotted' /\ Plain => AllStraight(heap', Values' \cup {plist'})]_data_vars

(* A property changes by PPROP and REMPROP of that name and in no other    *)
(* way, not even by primitives with a dot on what PLIST output; a property *)
(* that was removed is gone, unless its name was given in two cases while  *)
(* CASEIGNOREDP was FALSE (logodata.c:493-605).                            *)
OneOfEach ==
    LET e == Elements(heap, plist)
    IN \A i, j \in DOMAIN e : i % 2 = 1 /\ j % 2 = 1 /\ SameWord(e[i], e[j]) => i = j
PropsAreKept ==
    [][\A n \in Word :
         LET prop == Property(heap', plist', n) IN
         \/ caseignored' # caseignored
         \/ prop = Gprop(n)
         \/ \E m \in Word, v \in Values : SameWord(m, n) /\ Pprop(m, v) /\ prop = v
         \/ \E m \in Word : SameWord(m, n) /\ Remprop(m) /\ (OneOfEach => prop = Nil)]_data_vars

(* EQUALP holds of two values exactly when they have the same members, and *)
(* MEMBER finds the first of them (math.c:700-723, lists.c:423-440).       *)
EqualpIsEquality ==
    Plain =>
    \A a, b \in Values :
        LET of(v) == Shape(heap, v, caseignored)
        IN /\ Equalp(heap, a, b) <=> of(a) = of(b)
           /\ IsList(heap, b) =>
                LET rest == of(Member(heap, a, b))[2]
                    all == of(b)[2]
                    first == Len(all) - Len(rest) + 1
                IN /\ \A i \in 1 .. first - 1 : of(a) # all[i]
                   /\ rest # <<>> => of(a) = all[first] /\ rest = SubSeq(all, first, Len(all))

(* The types; every primitive outputs what it means, and EQUALP is         *)
(* equality, on whatever shared and changed structure (lists.c).           *)
DataInv == DataTypeOK /\ PlistIsPrivate /\ OpsAreMeant /\ EqualpIsEquality

(* Lists and property lists change by the primitives made for that only.   *)
ValuesStay == ListsAreValues /\ PropsAreKept
=============================================================================
