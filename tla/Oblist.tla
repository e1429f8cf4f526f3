-------------------------------- MODULE Oblist --------------------------------
(***************************************************************************)
(* The symbol table: intern.c, and the GCTWA phase of gc() in mem.c that   *)
(* takes unused symbols out of it.                                         *)
(*                                                                         *)
(* A symbol is an object, which holds the value, procedure and property    *)
(* list of a name, and for every spelling (upper and lower case letters)   *)
(* that was ever read a caseobj that points to it.  Programs hold          *)
(* caseobjs.  intern() allocates between looking a word up and entering    *)
(* what it makes, and any allocation may start a garbage collection.       *)
(***************************************************************************)
EXTENDS FiniteSets

CONSTANTS
    Obj,          \* the nodes that can be objects
    Spelling,     \* words as they are spelled
    Lower(_),     \* a word in lower case letters, its canonical form
    Permanent,    \* canonical words of Logo's own symbols
    NoWord        \* the word of a node that is no object

Word == {Lower(s) : s \in Spelling}

ASSUME PermanentAssumption == Permanent \subseteq Word
ASSUME LowerAssumption == \A w \in Word \cap Spelling : Lower(w) = w
ASSUME NoWordAssumption == NoWord \notin Word

CaseObj == Obj \X Spelling

VARIABLES
    hash_table,  \* the objects in the table
    word,        \* the canonical word of every object, NoWord if it is free
    caselist,    \* the spellings of every object
    valued,      \* objects with a value, a procedure or properties
    held,        \* caseobjs that data, the stack or a register points to
    pc,          \* where intern() is
    reg,         \* intern's local variables: the object and the spelling
    unlinked     \* a history variable: objects that left the table inside make_case

oblist_vars == <<hash_table, word, caselist, valued, held, pc, reg, unlinked>>

Free == {o \in Obj : word[o] = NoWord}

OblistInit ==
    /\ \E f \in [Permanent -> Obj] :
           /\ \A v, w \in Permanent : f[v] = f[w] => v = w
           /\ hash_table = {f[w] : w \in Permanent}
           /\ word = [o \in Obj |-> IF \E w \in Permanent : f[w] = o
                                    THEN CHOOSE w \in Permanent : f[w] = o ELSE NoWord]
    /\ caselist = [o \in Obj |-> IF word[o] = NoWord THEN {}
                                 ELSE {s \in Spelling : s = word[o]}]
    /\ valued = {}
    /\ held = {}
    /\ pc = "idle"
    /\ reg = <<>>
    /\ unlinked = {}

-----------------------------------------------------------------------------
(* intern *)

\* find_instance: the object for the word that s spells.
FindInstance(s) == {o \in hash_table : word[o] = Lower(s)}

\* intern() up to its first allocation.  Mutant: find_instance compares spellings.
Intern_CaseSensitive(s) ==
    /\ pc = "idle"
    /\ LET found == {o \in hash_table : s \in caselist[o]}
       IN  IF found = {}
           THEN pc' = "make_object" /\ reg' = <<s>> /\ UNCHANGED held
           ELSE \E o \in found : held' = held \cup {<<o, s>>} /\ UNCHANGED <<pc, reg>>
    /\ UNCHANGED <<hash_table, word, caselist, valued, unlinked>>
Intern(s) ==
    /\ pc = "idle"
    /\ IF FindInstance(s) = {}
       THEN pc' = "make_object" /\ reg' = <<s>> /\ UNCHANGED held
       ELSE \E o \in FindInstance(s) :
                IF s \in caselist[o]
                THEN held' = held \cup {<<o, s>>} /\ UNCHANGED <<pc, reg>>
                ELSE pc' = "make_case" /\ reg' = <<s, o>> /\ UNCHANGED held
    /\ UNCHANGED <<hash_table, word, caselist, valued, unlinked>>

\* make_case: the object has one more spelling.
MakeCase ==
    /\ pc = "make_case"
    /\ caselist' = [caselist EXCEPT ![reg[2]] = @ \cup {reg[1]}]
    /\ held' = held \cup {<<reg[2], reg[1]>>}
    /\ pc' = "idle"
    /\ reg' = <<>>
    /\ UNCHANGED <<hash_table, word, valued, unlinked>>

\* make_object: a new object, which only a local variable points to.
MakeObject ==
    /\ pc = "make_object"
    /\ \E o \in Free :
           /\ word' = [word EXCEPT ![o] = Lower(reg[1])]
           /\ caselist' = [caselist EXCEPT ![o] = {reg[1]}]
           /\ reg' = <<reg[1], o>>
    /\ pc' = "push"
    /\ UNCHANGED <<hash_table, valued, held, unlinked>>

\* make_instance: push(obj, hash_table[hashind]).
Push ==
    /\ pc = "push"
    /\ hash_table' = hash_table \cup {reg[2]}
    /\ held' = held \cup {<<reg[2], reg[1]>>}
    /\ pc' = "idle"
    /\ reg' = <<>>
    /\ UNCHANGED <<word, caselist, valued, unlinked>>

-----------------------------------------------------------------------------
(* What programs do with symbols. *)

\* MAKE, DEFINE, PPROP
SetValue(c) ==
    /\ pc = "idle" /\ c \in held
    /\ valued' = valued \cup {c[1]}
    /\ UNCHANGED <<hash_table, word, caselist, held, pc, reg, unlinked>>

\* ERASE, or the last local variable of the name ends
Unset(c) ==
    /\ pc = "idle" /\ c \in held
    /\ valued' = valued \ {c[1]}
    /\ UNCHANGED <<hash_table, word, caselist, held, pc, reg, unlinked>>

\* ERALL
UnsetAll ==
    /\ pc = "idle"
    /\ valued' = {}
    /\ UNCHANGED <<hash_table, word, caselist, held, pc, reg, unlinked>>

\* The last pointer to a caseobj from data goes.
Drop(c) ==
    /\ pc = "idle" /\ c \in held
    /\ held' = held \ {c}
    /\ UNCHANGED <<hash_table, word, caselist, valued, pc, reg, unlinked>>

-----------------------------------------------------------------------------
(* gc with GCTWA. *)

\* A caseobj is visited once through the table; one that is visited again from
\* elsewhere is marked.  A pointer to the object itself, as in intern's local
\* variables, does not visit its caseobjs a second time.
\* Mutants: no caseobj is ever found marked; the values are not looked at.
Worthless_Unmarked(o) == o \notin valued /\ word[o] \notin Permanent
Worthless_Valued(o) == word[o] \notin Permanent /\ \A s \in caselist[o] : <<o, s>> \notin held
Worthless(o) ==
    /\ o \notin valued
    /\ word[o] \notin Permanent
    /\ \A s \in caselist[o] : <<o, s>> \notin held

\* The C stack is scanned: intern's local variables keep their object.
InReg == IF pc \in {"make_case", "push"} THEN {reg[2]} ELSE {}
InCase == IF pc = "make_case" THEN {reg[2]} ELSE {}

\* Also in the middle of make_case, whose object may have no value and no other
\* caseobj that is held: it leaves the table and still gets its new caseobj.
Gc ==
    /\ hash_table' = {o \in hash_table : ~Worthless(o)}
    /\ LET kept == hash_table' \cup InReg \cup {c[1] : c \in held}
       IN  /\ word' = [o \in Obj |-> IF o \in kept THEN word[o] ELSE NoWord]
           /\ caselist' = [o \in Obj |-> IF o \in kept THEN caselist[o] ELSE {}]
           /\ valued' = valued \cap kept
           /\ unlinked' = ((unlinked \cup InCase) \ hash_table') \cap kept
    /\ UNCHANGED <<held, pc, reg>>

-----------------------------------------------------------------------------
OblistNext ==
    \/ \E s \in Spelling : Intern(s)
    \/ MakeCase \/ MakeObject \/ Push
    \/ \E c \in held : SetValue(c) \/ Unset(c) \/ Drop(c)
    \/ UnsetAll
    \/ Gc

OblistSpec == OblistInit /\ [][OblistNext]_oblist_vars

-----------------------------------------------------------------------------
(* Properties. *)

\* Types, and every caseobj that is held is in the caselist of a live object.
OblistTypeOK ==
    /\ hash_table \subseteq Obj \ Free
    /\ word \in [Obj -> Word \cup {NoWord}]
    /\ caselist \in [Obj -> SUBSET Spelling]
    /\ valued \subseteq Obj \ Free
    /\ held \subseteq {c \in CaseObj : word[c[1]] # NoWord /\ c[2] \in caselist[c[1]]}
    /\ pc \in {"idle", "make_case", "make_object", "push"}
    /\ pc \in {"make_case", "push"} => reg \in Spelling \X Obj /\ word[reg[2]] = Lower(reg[1])
    /\ unlinked \subseteq Obj \ (Free \cup hash_table)

\* Names are case-insensitive: all spellings of a word that a program holds, read
\* at whatever time, before and after whatever collections, are one symbol.  The
\* one way to a second symbol is a collection in the middle of make_case, and then
\* one of the two is the object it was at (intern.c:60).
OneSymbol == \A c, d \in held :
    Lower(c[2]) = Lower(d[2]) => c[1] = d[1] \/ {c[1], d[1]} \cap unlinked # {}

\* A name with a value is in the table, so that intern() finds it, or is one that
\* make_case lost.
ValuesAreFound == valued \subseteq hash_table \cup unlinked

\* Only ERASE and ERALL take a value away, a collection does not, but for values of
\* objects that make_case lost, which end when nothing points to them.
GcKeepsValues ==
    [][hash_table' # hash_table => valued' \subseteq valued /\ valued \ unlinked \subseteq valued']_oblist_vars

\* The types, and no value out of reach.
OblistInv == OblistTypeOK /\ ValuesAreFound
=============================================================================
