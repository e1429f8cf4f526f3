------------------------------ MODULE Workspace ------------------------------
(***************************************************************************)
(* The workspace as its commands see it (wrksp.c): definitions of three    *)
(* kinds, the flags of BURY, TRACE and STEP, contents lists, erasing,      *)
(* printing definitions as text, SAVE, LOAD and EDIT (with files.c), and   *)
(* procedures loaded from the library when they are named (paren.c).       *)
(*                                                                         *)
(* A text is a sequence of instructions [op, name, what]; how one is       *)
(* spelled, and how LOAD nests, is left to other modules.  At the top      *)
(* level, with the editor that the environment names, all values global.   *)
(* Not modelled: macros, PRINTWIDTHLIMIT's effect on what is printed,      *)
(* texts that cannot be written or read, and that contents_map loads the   *)
(* library's procedure for a name that has none.                           *)
(***************************************************************************)
EXTENDS Integers, SequencesExt

CONSTANTS
    Proc, Var, Plist,       \* names that are used for each kind
    Primitive,              \* the procedures that Logo begins with
    Redefp, UnburyOnEdit,   \* the two variables that matter here
    Body, Value, Prop,      \* what a program writes; Prop are pairs <<property, value>>
    True, Empty,            \* a value; the body TO ... END of EDIT
    PRIM, UNDEFINED, UNBOUND,
    LibBody,                \* what a library file defines,
    Library,                \* and the names that have one
    Args,                   \* lists of names that commands are given
    MaxOps

ASSUME WorkspaceAssumption ==
    /\ Primitive \cup Library \subseteq Proc /\ Primitive \cap Library = {}
    /\ {Redefp, UnburyOnEdit} \subseteq Var /\ True \in Value
    /\ PRIM # UNDEFINED /\ {PRIM, UNDEFINED} \cap (Body \cup {Empty, LibBody}) = {} /\ UNBOUND \notin Value
    /\ IsFiniteSet(Proc) /\ IsFiniteSet(Var) /\ IsFiniteSet(Plist) /\ MaxOps \in Nat
    /\ \A args \in Args : args.proc \subseteq Proc /\ args.val \subseteq Var /\ args.plist \subseteq Plist

Kind == {"proc", "val", "plist"}
Names == [proc |-> Proc, val |-> Var, plist |-> Plist]
Thing == {t \in Kind \X (Proc \cup Var \cup Plist) : t[2] \in Names[t[1]]}
Flag == {"BURIED", "TRACED", "STEPPED"}

VARIABLES
    ws,         \* the workspace: [proc, val, plist, flags, err], err an error on the way
    file,       \* what SAVE wrote
    hidden,     \* history: procedures that were buried, by BURY or by their library file
    shown,      \* history: library procedures that were edited, unburied or written by the program
    ops

vars == <<ws, file, hidden, shown, ops>>

Fresh ==
    [proc |-> [n \in Proc |-> IF n \in Primitive THEN PRIM ELSE UNDEFINED],
     val |-> [n \in Var |-> IF n = UnburyOnEdit THEN True ELSE UNBOUND],
     plist |-> [n \in Plist |-> <<>>],
     flags |-> [f \in Flag |-> IF f = "BURIED" THEN {<<"val", UnburyOnEdit>>} ELSE {}],
     err |-> FALSE]
Init == ws = Fresh /\ file = <<>> /\ hidden = {} /\ shown = {} /\ ops = 0

Fail(w) == [w EXCEPT !.err = TRUE]
IsPrim(w, n) == w.proc[n] = PRIM
VarTrue(w, v) == w.val[v] = True
Set(w, f, things) == [w EXCEPT !.flags[f] = @ \cup things]
Clear(w, f, things) == [w EXCEPT !.flags[f] = @ \ things]

---------------------------------------------------------------------------
(* The instructions of a text.  TO from the keyboard defines nothing that  *)
(* is defined already; from a file it unburies.                            *)
Unburies(w, source) == source = "file" /\ VarTrue(w, UnburyOnEdit)
To(w, n, b, source) ==
    IF IsPrim(w, n) \/ (source = "keyboard" /\ w.proc[n] # UNDEFINED) THEN Fail(w)
    ELSE LET done == [w EXCEPT !.proc[n] = b]
         IN IF Unburies(w, source) THEN Clear(done, "BURIED", {<<"proc", n>>}) ELSE done
Make(w, n, v) == [w EXCEPT !.val[n] = v]
(* A new property comes first.                                             *)
Pprop(w, n, p) ==
    [w EXCEPT !.plist[n] =
        IF \E i \in DOMAIN @ : @[i][1] = p[1] THEN [i \in DOMAIN @ |-> IF @[i][1] = p[1] THEN p ELSE @[i]]
        ELSE <<p>> \o @]

Run(w, i, source) ==
    CASE w.err -> w
      [] ~w.err /\ i.op = "to" -> To(w, i.name, i.what, source)
      [] ~w.err /\ i.op = "make" -> Make(w, i.name, i.what)
      [] ~w.err /\ i.op = "pprop" -> Pprop(w, i.name, i.what)
      [] ~w.err /\ i.op = "bury" -> Set(w, "BURIED", {<<"proc", i.name>>})
(* The one element of a set.  TLC computes the elements of a set once.     *)
The(S) == CHOOSE x \in S : TRUE
LoadText(w, text) ==
    LET load[i \in 0 .. Len(text)] ==
            IF i = 0 THEN w ELSE The({Run(r, text[i], "file") : r \in {load[i - 1]}})
    IN load[Len(text)]

(* A name that is not defined is looked for in the library.                *)
Item(op, n, what) == [op |-> op, name |-> n, what |-> what]
(* Mutant: the file buries before it defines.                              *)
LibTextShown(n) == <<Item("bury", n, {}), Item("to", n, LibBody)>>
LibText(n) == <<Item("to", n, LibBody), Item("bury", n, {})>>
CheckLibrary(w, n) == IF w.proc[n] = UNDEFINED /\ n \in Library THEN LoadText(w, LibText(n)) ELSE w

---------------------------------------------------------------------------
(* Contents lists: what is there and not buried, or has the flag.          *)
IsThere(w, k, n) ==
    CASE k = "proc" -> w.proc[n] \notin {UNDEFINED, PRIM}
      [] k = "val" -> w.val[n] # UNBOUND
      [] k = "plist" -> w.plist[n] # <<>>
(* Mutant: the flag of procedures is looked at for every kind.             *)
ContentsByProc(w) == [k \in Kind |-> {n \in Names[k] : IsThere(w, k, n) /\ <<"proc", n>> \notin w.flags["BURIED"]}]
Contents(w) == [k \in Kind |-> {n \in Names[k] : IsThere(w, k, n) /\ <<k, n>> \notin w.flags["BURIED"]}]
(* TRACED shows primitives too.                                            *)
Flagged(w, f) ==
    [k \in Kind |-> {n \in Names[k] : <<k, n>> \in w.flags[f]
                                      /\ (IsThere(w, k, n) \/ (f = "TRACED" /\ k = "proc" /\ IsPrim(w, n)))}]
Things(args) == {t \in Thing : t[2] \in args[t[1]]}

(* Contents lists are sorted: the words are put in lists of one, then each *)
(* list is merged with the next one until there is one list.               *)
MergeStep(m) ==
    IF m.a = <<>> \/ m.b = <<>> THEN m
    ELSE IF Head(m.a) < Head(m.b) THEN [m EXCEPT !.a = Tail(@), !.ret = Append(@, Head(m.a))]
    ELSE [m EXCEPT !.b = Tail(@), !.ret = Append(@, Head(m.b))]
Merge(a, b) ==
    LET merge[i \in 0 .. Len(a) + Len(b)] ==
            IF i = 0 THEN [a |-> a, b |-> b, ret |-> <<>>] ELSE The({MergeStep(m) : m \in {merge[i - 1]}})
        end == merge[Len(a) + Len(b)]
    IN end.ret \o (end.a \o end.b)
MergePairs(ls) ==
    [i \in 1 .. (Len(ls) + 1) \div 2 |-> IF 2 * i > Len(ls) THEN ls[2 * i - 1] ELSE Merge(ls[2 * i - 1], ls[2 * i])]
MergeRounds(ls) ==
    LET round[i \in 0 .. Len(ls)] ==
            IF i = 0 THEN ls ELSE The({IF Len(r) <= 1 THEN r ELSE MergePairs(r) : r \in {round[i - 1]}})
    IN round[Len(ls)]
MergeSort(words) == IF words = <<>> THEN <<>> ELSE MergeRounds([i \in DOMAIN words |-> <<words[i]>>])[1]

(* The text of definitions; an unknown procedure is an empty one for EDIT  *)
(* and an error else, and nothing is printed after an error.               *)
(* Mutant: EDIT does not look in the library.                              *)
PoProcHere(r, n, edit) ==
    IF r.w.err THEN r
    ELSE IF r.w.proc[n] = UNDEFINED /\ edit THEN [r EXCEPT !.text = Append(@, Item("to", n, Empty))]
    ELSE IF r.w.proc[n] \in {PRIM, UNDEFINED} THEN [r EXCEPT !.w = Fail(@)]
    ELSE [r EXCEPT !.text = Append(@, Item("to", n, r.w.proc[n]))]
PoProc(r, n, edit) ==
    IF r.w.err THEN r
    ELSE LET w == CheckLibrary(r.w, n)
         IN CASE w.proc[n] = UNDEFINED /\ edit -> [w |-> w, text |-> Append(r.text, Item("to", n, Empty))]
              [] w.proc[n] = PRIM \/ (w.proc[n] = UNDEFINED /\ ~edit) -> [w |-> Fail(w), text |-> r.text]
              [] OTHER -> [w |-> w, text |-> Append(r.text, Item("to", n, w.proc[n]))]
PoVar(r, n, edit) ==
    IF r.w.err THEN r
    ELSE IF r.w.val[n] = UNBOUND THEN IF edit THEN r ELSE [r EXCEPT !.w = Fail(@)]
    ELSE [r EXCEPT !.text = Append(@, Item("make", n, r.w.val[n]))]
PoPlist(r, n) ==
    IF r.w.err THEN r ELSE [r EXCEPT !.text = @ \o [i \in DOMAIN r.w.plist[n] |-> Item("pprop", n, r.w.plist[n][i])]]
PoProcs(r, names, edit) ==
    LET po[i \in 0 .. Len(names)] == IF i = 0 THEN r ELSE The({PoProc(s, names[i], edit) : s \in {po[i - 1]}})
    IN po[Len(names)]
PoVars(r, names, edit) ==
    LET po[i \in 0 .. Len(names)] == IF i = 0 THEN r ELSE The({PoVar(s, names[i], edit) : s \in {po[i - 1]}})
    IN po[Len(names)]
PoPlists(r, names) ==
    LET po[i \in 0 .. Len(names)] == IF i = 0 THEN r ELSE The({PoPlist(s, names[i]) : s \in {po[i - 1]}})
    IN po[Len(names)]
Po(w, args, edit) ==
    LET procs == PoProcs([w |-> w, text |-> <<>>], SetToSeq(args.proc), edit)
        names == PoVars(procs, SetToSeq(args.val), edit)
    IN PoPlists(names, SetToSeq(args.plist))

(* SAVE: the definitions of CONTENTS.                                      *)
Saved(w) == Po(w, Contents(w), FALSE)

(* EDIT prints to a file, gives it to the editor, and loads what it finds. *)
EditText(w, args) == Po(w, args, TRUE)
(* What an editor makes of a text: another body for some procedures, or    *)
(* the text without them.                                                  *)
Changed(text, S, b) == [i \in DOMAIN text |-> IF text[i].op = "to" /\ text[i].name \in S THEN [text[i] EXCEPT !.what = b] ELSE text[i]]
Without(text, S) ==
    LET rest[i \in 0 .. Len(text)] ==
            IF i = 0 THEN <<>> ELSE IF text[i].name \in S THEN rest[i - 1] ELSE Append(rest[i - 1], text[i])
    IN rest[Len(text)]

---------------------------------------------------------------------------
(* ERASE: a primitive is an error, with what came before it erased; the    *)
(* names are in one list, the procedures first.                            *)
EraseProc(w, n, redef) ==
    IF w.err THEN w ELSE IF IsPrim(w, n) /\ ~redef THEN Fail(w) ELSE [w EXCEPT !.proc[n] = UNDEFINED]
EraseProcs(w, names, redef) ==
    LET erase[i \in 0 .. Len(names)] == IF i = 0 THEN w ELSE The({EraseProc(r, names[i], redef) : r \in {erase[i - 1]}})
    IN erase[Len(names)]
Erase(w, args) ==
    LET done == EraseProcs(w, SetToSeq(args.proc), VarTrue(w, Redefp))
    IN IF done.err THEN done
       ELSE [done EXCEPT !.val = [n \in Var |-> IF n \in args.val THEN UNBOUND ELSE @[n]],
                         !.plist = [n \in Plist |-> IF n \in args.plist THEN <<>> ELSE @[n]]]
(* ERALL, ERPS, ERNS, ERPLS                                                *)
Erasable(w, k, n) == <<k, n>> \notin w.flags["BURIED"] /\ (k = "proc" => ~IsPrim(w, n) \/ VarTrue(w, Redefp))
Erall(w, kinds) ==
    [w EXCEPT !.proc = [n \in Proc |-> IF "proc" \in kinds /\ Erasable(w, "proc", n) THEN UNDEFINED ELSE @[n]],
              !.val = [n \in Var |-> IF "val" \in kinds /\ Erasable(w, "val", n) THEN UNBOUND ELSE @[n]],
              !.plist = [n \in Plist |-> IF "plist" \in kinds /\ Erasable(w, "plist", n) THEN <<>> ELSE @[n]]]

Define(w, n, b) == IF IsPrim(w, n) /\ ~VarTrue(w, Redefp) THEN Fail(w) ELSE [w EXCEPT !.proc[n] = b]
CopyDef(w, n, old) ==
    LET v == CheckLibrary(w, old)
    IN IF v.proc[old] = UNDEFINED \/ (IsPrim(v, n) /\ ~VarTrue(v, Redefp)) THEN Fail(v)
       ELSE [v EXCEPT !.proc[n] = v.proc[old]]

---------------------------------------------------------------------------
Procs(args) == {t[2] : t \in {u \in Things(args) : u[1] = "proc"}}
Autoloaded(w) == {n \in Library : ws.proc[n] = UNDEFINED /\ <<"proc", n>> \in w.flags["BURIED"]}
(* An error goes back to the prompt.  S are the procedures the program     *)
(* writes in this step, U those that it unburies.                          *)
Becomes(w, S, U) ==
    /\ ws' = [w EXCEPT !.err = FALSE]
    /\ hidden' = (hidden \cup Autoloaded(w)) \ U
    /\ shown' = (shown \ Autoloaded(w)) \cup S \cup U

lto(n, b) == Becomes(To(ws, n, b, "keyboard"), {n}, {}) /\ UNCHANGED file
ldefine(n, b) == Becomes(Define(ws, n, b), {n}, {}) /\ UNCHANGED file
lcopydef(n, old) == Becomes(CopyDef(ws, n, old), {n}, {}) /\ UNCHANGED file
lmake(n, v) == Becomes(Make(ws, n, v), {}, {}) /\ UNCHANGED file
lpprop(n, p) == Becomes(Pprop(ws, n, p), {}, {}) /\ UNCHANGED file
lerase(args) == Becomes(Erase(ws, args), {}, {}) /\ UNCHANGED file
lerall(kinds) == Becomes(Erall(ws, kinds), {}, {}) /\ UNCHANGED file
lpo(args) == Becomes(Po(ws, args, FALSE).w, {}, {}) /\ UNCHANGED file
lbury(args) == ws' = Set(ws, "BURIED", Things(args)) /\ hidden' = hidden \cup Procs(args) /\ UNCHANGED <<file, shown>>
lunbury(args) == Becomes(Clear(ws, "BURIED", Things(args)), {}, Procs(args)) /\ UNCHANGED file
ltrace(f, args) == Becomes(Set(ws, f, Things(args)), {}, {}) /\ UNCHANGED file
luntrace(f, args) == Becomes(Clear(ws, f, Things(args)), {}, {}) /\ UNCHANGED file
lsave == Becomes(Saved(ws).w, {}, {}) /\ file' = Saved(ws).text

(* What a text defines, up to an error.                                    *)
Defined(text, w) == {text[i].name : i \in {j \in DOMAIN text : text[j].op = "to" /\ ~LoadText(w, SubSeq(text, 1, j)).err}}
Loads(w, text) ==
    LET S == Defined(text, w)
    IN Becomes(LoadText(w, text), S, IF VarTrue(w, UnburyOnEdit) THEN S ELSE {}) /\ UNCHANGED file
lload == Loads(ws, file)
ledit(args) ==
    LET e == EditText(ws, args)
    IN IF e.w.err THEN Becomes(e.w, {}, {}) /\ UNCHANGED file
       ELSE \E text \in {e.text} \cup {Changed(e.text, args.proc, b) : b \in Body} \cup {Without(e.text, args.proc)} :
                Loads(e.w, text)

(* Lists of names are written by hand or come from CONTENTS, BURIED, ...   *)
Lists == Args \cup {Contents(ws)} \cup {Flagged(ws, f) : f \in Flag}
Next ==
    /\ ops < MaxOps /\ ops' = ops + 1
    /\ \/ \E n \in Proc, b \in Body : lto(n, b) \/ ldefine(n, b)
       \/ \E n, old \in Proc : lcopydef(n, old)
       \/ \E n \in Var, v \in Value : lmake(n, v)
       \/ \E n \in Plist, p \in Prop : lpprop(n, p)
       \/ \E args \in Lists : lerase(args) \/ lpo(args) \/ lbury(args) \/ lunbury(args) \/ ledit(args)
                             \/ \E f \in {"TRACED", "STEPPED"} : ltrace(f, args) \/ luntrace(f, args)
       \/ \E kinds \in {Kind, {"proc"}, {"val"}, {"plist"}} : lerall(kinds)
       \/ lsave \/ lload

Spec == Init /\ [][Next]_vars

---------------------------------------------------------------------------
Bodies == Body \cup {Empty, LibBody, PRIM, UNDEFINED}
TypeOK ==
    /\ \A n \in Proc : ws.proc[n] \in Bodies
    /\ \A n \in Var : ws.val[n] \in Value \cup {UNBOUND}
    /\ \A n \in Plist : \A i, j \in DOMAIN ws.plist[n] : ws.plist[n][i] \in Prop /\ (ws.plist[n][i][1] = ws.plist[n][j][1] => i = j)
    /\ \A f \in Flag : ws.flags[f] \subseteq Thing
    /\ ws.err = FALSE

(* What SAVE writes, loaded into a Logo that has just been started, gives  *)
(* every definition that is not buried back, property lists in the reverse *)
(* order, and nothing else; but for a workspace in which a primitive has   *)
(* another definition (docs/ucblogo.texi:5891; files.c:396-417,            *)
(* wrksp.c:848-957, 1233-1337).                                            *)
Redefined == \E n \in Primitive : IsThere(ws, "proc", n)
SaveRestores ==
    LET saved == [k \in Kind |-> {n \in Names[k] : IsThere(ws, k, n) /\ <<k, n>> \notin ws.flags["BURIED"]}]
        back == LoadText(Fresh, Saved(ws).text)
    IN ~Redefined =>
        /\ ~back.err
        /\ back.proc = [n \in Proc |-> IF n \in saved.proc THEN ws.proc[n] ELSE Fresh.proc[n]]
        /\ back.val = [n \in Var |-> IF n \in saved.val THEN ws.val[n] ELSE Fresh.val[n]]
        /\ back.plist = [n \in Plist |-> IF n \in saved.plist THEN Reverse(ws.plist[n]) ELSE <<>>]

(* EDIT of anything, left as it is in the editor, changes no definition    *)
(* that there was, nor the order of a property list; procedures that are   *)
(* not known are those of the library, or empty (wrksp.c:1586-1669).       *)
EditKeeps ==
    \A args \in Lists :
        LET e == EditText(ws, args)
            back == IF e.w.err THEN e.w ELSE LoadText(e.w, e.text)
        IN /\ back.val = ws.val /\ back.plist = ws.plist
           /\ \A n \in Proc : back.proc[n] \in {ws.proc[n]} \cup
                (IF ws.proc[n] # UNDEFINED THEN {} ELSE IF n \in Library THEN {LibBody} ELSE {Empty})

(* ERALL, ERPS, ERNS and ERPLS do what ERASE of the same part of CONTENTS  *)
(* does (docs/ucblogo.texi:5456), as long as REDEFP is not TRUE            *)
(* (wrksp.c:1347-1413).                                                    *)
Part(kinds, args) == [k \in Kind |-> IF k \in kinds THEN args[k] ELSE {}]
ErallIsErase ==
    ~VarTrue(ws, Redefp) => \A kinds \in SUBSET Kind : Erall(ws, kinds) = Erase(ws, Part(kinds, Contents(ws)))

(* A procedure that Logo took from its library by itself is in no contents *)
(* list and in no saved file, until the program unburies, edits or writes  *)
(* it (paren.c:37-47, wrksp.c:515; docs/ucblogo.texi:7847).                *)
LibraryIsHidden ==
    \A n \in Library : ws.proc[n] = LibBody /\ n \notin shown =>
        n \notin Contents(ws).proc /\ \A i \in DOMAIN Saved(ws).text : Saved(ws).text[i].name # n \/ Saved(ws).text[i].op # "to"

(* A procedure that the program wrote is saved, unless its name was buried *)
(* by the program or by the library and, since then, not unburied nor      *)
(* defined in a file or the editor (docs/ucblogo.texi:7847).               *)
WorkIsSaved ==
    \A n \in Proc : ws.proc[n] \in Body /\ n \notin hidden =>
        Item("to", n, ws.proc[n]) \in {Saved(ws).text[i] : i \in DOMAIN Saved(ws).text}

(* A contents list has its words in order, each as often as they were      *)
(* found (wrksp.c:892-948).                                                *)
Occurs(s, v) == Cardinality({i \in DOMAIN s : s[i] = v})
Sorts(s, words) ==
    /\ Len(s) = Len(words) /\ \A i \in 1 .. Len(s) - 1 : s[i] <= s[i + 1]
    /\ \A v \in ToSet(s) \cup ToSet(words) : Occurs(s, v) = Occurs(words, v)
ContentsAreSorted ==
    ops = 0 => \A n \in 0 .. 5 : \A words \in [1 .. n -> 1 .. n] : Sorts(MergeSort(words), words)

(* The types; the library's procedures stay out of the way of the          *)
(* program's, which are all saved; ERALL and the sorted contents lists are *)
(* what the manual says they are.                                          *)
WorkspaceInv == TypeOK /\ LibraryIsHidden /\ WorkIsSaved /\ ErallIsErase /\ ContentsAreSorted
=============================================================================
