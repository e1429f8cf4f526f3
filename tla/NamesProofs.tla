------------------------------ MODULE NamesProofs ------------------------------
(***************************************************************************)
(* Names: the symbol table that makes one symbol of a word, and the        *)
(* workspace, which is what the symbols stand for.                         *)
(*                                                                         *)
(* One word is one symbol, for any number of words, spellings and objects. *)
(* The collector may run at any allocation.  Between finding an object and *)
(* giving it one more caseobj, make_case has nothing but a local variable  *)
(* that points to it, and a collection there takes it out of the table:    *)
(* what is proved is that a second symbol for a word and the loss of a     *)
(* value come from this and from nothing else.                             *)
(*                                                                         *)
(* The workspace is proved about for any finite sets of names and any      *)
(* number of commands.  Sound, the inductive invariant, says which         *)
(* procedures are buried and what a file can hold.  The rest is about      *)
(* functions on the number of instructions or names: what a text does when *)
(* it is loaded, what EDIT and SAVE print, what ERASE leaves.  Each is     *)
(* proved to be the outcome of its steps one after the other               *)
(* (LoadFollows, PoProcsFollows and so on), and then by induction on their *)
(* number.                                                                 *)
(***************************************************************************)
EXTENDS Oblist, Workspace, FiniteSetTheorems, SequenceTheorems, WellFoundedInduction, TLAPS

-----------------------------------------------------------------------------
(* Types. *)

\* Between its steps intern() knows the spelling alone, then the new object too,
\* whose one caseobj has that spelling already.
RegForm ==
    /\ pc = "make_object" => reg \in [1 .. 1 -> Spelling]
    /\ pc = "push" => reg[1] \in caselist[reg[2]] /\ reg[2] \notin unlinked

TypeInv == OblistTypeOK /\ RegForm

LEMMA RegLookup ==
  ASSUME TypeInv
  PROVE  /\ pc \in {"make_case", "push"} =>
                reg[1] \in Spelling /\ reg[2] \in Obj /\ reg = <<reg[1], reg[2]>>
         /\ pc = "make_object" => reg[1] \in Spelling
  BY DEF TypeInv, OblistTypeOK, RegForm

LEMMA LowerType == \A s \in Spelling : Lower(s) \in Word /\ Lower(s) # NoWord
  BY NoWordAssumption DEF Word

\* Words of objects: one at most, NoWord otherwise.
LEMMA TypeInit == OblistInit => TypeInv
<1> SUFFICES ASSUME OblistInit PROVE TypeInv
  OBVIOUS
<1>1. PICK f \in [Permanent -> Obj] :
          /\ \A v, w \in Permanent : f[v] = f[w] => v = w
          /\ hash_table = {f[w] : w \in Permanent}
          /\ word = [o \in Obj |-> IF \E w \in Permanent : f[w] = o
                                   THEN CHOOSE w \in Permanent : f[w] = o ELSE NoWord]
  BY DEF OblistInit
<1>2. ASSUME NEW w \in Permanent PROVE word[f[w]] = w
  <2>1. \E u \in Permanent : f[u] = f[w]
    OBVIOUS
  <2>2. word[f[w]] = CHOOSE u \in Permanent : f[u] = f[w]
    BY <1>1, <2>1
  <2> QED
    BY <1>1, <2>1, <2>2
<1>3. word \in [Obj -> Word \cup {NoWord}]
  <2>1. ASSUME NEW o \in Obj PROVE word[o] \in Word \cup {NoWord}
    <3>1. CASE \E w \in Permanent : f[w] = o
      BY <1>1, <1>2, <3>1, PermanentAssumption
    <3>2. CASE ~\E w \in Permanent : f[w] = o
      BY <1>1, <3>2
    <3> QED
      BY <3>1, <3>2
  <2>2. word = [o \in Obj |-> word[o]]
    BY <1>1
  <2> QED
    BY <2>1, <2>2
<1>4. hash_table \subseteq Obj \ Free
  BY <1>1, <1>2, PermanentAssumption, NoWordAssumption DEF Free
<1>5. caselist \in [Obj -> SUBSET Spelling]
  <2>1. \A o \in Obj :
            (IF word[o] = NoWord THEN {} ELSE {s \in Spelling : s = word[o]}) \in SUBSET Spelling
    OBVIOUS
  <2> QED
    BY <2>1 DEF OblistInit
<1>6. valued = {} /\ held = {} /\ pc = "idle" /\ unlinked = {}
  BY DEF OblistInit
<1> QED
  BY <1>3, <1>4, <1>5, <1>6 DEF TypeInv, OblistTypeOK, RegForm

LEMMA TypeIntern ==
  ASSUME TypeInv, NEW s \in Spelling, Intern(s)
  PROVE  TypeInv'
<1>0. /\ hash_table \subseteq Obj /\ pc = "idle"
      /\ UNCHANGED <<hash_table, word, caselist, valued, unlinked>>
  BY DEF TypeInv, OblistTypeOK, Intern
<1>1. CASE FindInstance(s) = {}
  BY <1>0, <1>1 DEF Intern, TypeInv, OblistTypeOK, RegForm, Free
<1>2. CASE FindInstance(s) # {}
  <2>1. PICK o \in FindInstance(s) :
            IF s \in caselist[o]
            THEN held' = held \cup {<<o, s>>} /\ UNCHANGED <<pc, reg>>
            ELSE pc' = "make_case" /\ reg' = <<s, o>> /\ UNCHANGED held
    BY <1>2 DEF Intern
  <2>2. o \in hash_table /\ word[o] = Lower(s) /\ o \in Obj /\ word[o] # NoWord
    BY <1>0, LowerType DEF FindInstance
  <2>3. CASE s \in caselist[o]
    <3>1. <<o, s>> \in {c \in CaseObj : word[c[1]] # NoWord /\ c[2] \in caselist[c[1]]}
      BY <2>2, <2>3 DEF CaseObj
    <3> QED
      BY <1>0, <2>1, <2>3, <3>1 DEF TypeInv, OblistTypeOK, RegForm, Free
  <2>4. CASE s \notin caselist[o]
    <3>1. reg' \in Spelling \X Obj /\ word[reg'[2]] = Lower(reg'[1])
      BY <2>1, <2>2, <2>4
    <3> QED
      BY <1>0, <2>1, <2>4, <3>1 DEF TypeInv, OblistTypeOK, RegForm, Free
  <2> QED
    BY <2>3, <2>4
<1> QED
  BY <1>1, <1>2

LEMMA TypeMakeCase ==
  ASSUME TypeInv, MakeCase
  PROVE  TypeInv'
<1> DEFINE s == reg[1]
           o == reg[2]
<1>1. s \in Spelling /\ o \in Obj /\ word[o] = Lower(s)
  BY RegLookup DEF MakeCase, TypeInv, OblistTypeOK
<1>2. caselist' \in [Obj -> SUBSET Spelling]
  BY <1>1 DEF MakeCase, TypeInv, OblistTypeOK
<1>3. /\ \A p \in Obj : caselist[p] \subseteq caselist'[p]
      /\ s \in caselist'[o]
  BY <1>1 DEF MakeCase, TypeInv, OblistTypeOK
<1>4. <<o, s>> \in {c \in CaseObj : word[c[1]] # NoWord /\ c[2] \in caselist'[c[1]]}
  BY <1>1, <1>3, LowerType DEF CaseObj
<1>5. held' \subseteq {c \in CaseObj : word[c[1]] # NoWord /\ c[2] \in caselist'[c[1]]}
  <2>1. held' = held \cup {<<o, s>>}
    BY DEF MakeCase
  <2>2. ASSUME NEW c \in held PROVE c \in CaseObj /\ word[c[1]] # NoWord /\ c[2] \in caselist'[c[1]]
    BY <1>3 DEF TypeInv, OblistTypeOK, CaseObj
  <2> QED
    BY <1>4, <2>1, <2>2
<1> QED
  BY <1>2, <1>5 DEF MakeCase, TypeInv, OblistTypeOK, RegForm, Free

LEMMA TypeMakeObject ==
  ASSUME TypeInv, MakeObject
  PROVE  TypeInv'
<1>1. PICK o \in Free : /\ word' = [word EXCEPT ![o] = Lower(reg[1])]
                        /\ caselist' = [caselist EXCEPT ![o] = {reg[1]}]
                        /\ reg' = <<reg[1], o>>
  BY DEF MakeObject
<1>2. reg[1] \in Spelling /\ o \in Obj /\ word[o] = NoWord
  BY RegLookup DEF MakeObject, Free
<1>3. word' \in [Obj -> Word \cup {NoWord}] /\ caselist' \in [Obj -> SUBSET Spelling]
  BY <1>1, <1>2, LowerType DEF TypeInv, OblistTypeOK
<1>4. \A p \in Obj : p # o => word'[p] = word[p] /\ caselist'[p] = caselist[p]
  BY <1>1, <1>2 DEF TypeInv, OblistTypeOK
<1>5. word'[o] = Lower(reg[1])
  BY <1>1, <1>2 DEF TypeInv, OblistTypeOK
<1>6. UNCHANGED <<hash_table, valued, held, unlinked>> /\ pc' = "push"
  BY DEF MakeObject
<1>7. /\ hash_table \subseteq Obj \ Free' /\ valued \subseteq Obj \ Free'
      /\ unlinked \subseteq Obj \ (Free' \cup hash_table) /\ o \notin unlinked
  BY <1>2, <1>4 DEF TypeInv, OblistTypeOK, Free
<1>8. held \subseteq {c \in CaseObj : word'[c[1]] # NoWord /\ c[2] \in caselist'[c[1]]}
  <2>1. ASSUME NEW c \in held PROVE c \in CaseObj /\ word'[c[1]] # NoWord /\ c[2] \in caselist'[c[1]]
    BY <1>2, <1>4 DEF TypeInv, OblistTypeOK, CaseObj
  <2> QED
    BY <2>1
<1>9. reg' \in Spelling \X Obj /\ word'[reg'[2]] = Lower(reg'[1])
  BY <1>1, <1>2, <1>5
<1>10. reg'[1] \in caselist'[reg'[2]] /\ reg'[2] \notin unlinked
  BY <1>1, <1>2, <1>7 DEF TypeInv, OblistTypeOK
<1> QED
  BY <1>3, <1>10, <1>6, <1>7, <1>8, <1>9 DEF TypeInv, OblistTypeOK, RegForm

LEMMA TypePush ==
  ASSUME TypeInv, Push
  PROVE  TypeInv'
<1> DEFINE s == reg[1]
           o == reg[2]
<1>1. /\ s \in Spelling /\ o \in Obj /\ word[o] = Lower(s) /\ word[o] # NoWord
      /\ s \in caselist[o] /\ o \notin unlinked
  BY RegLookup, LowerType DEF Push, TypeInv, OblistTypeOK, RegForm
<1>2. o \in Obj \ Free /\ o \notin unlinked /\ <<o, s>> \in {c \in CaseObj : word[c[1]] # NoWord /\ c[2] \in caselist[c[1]]}
  BY <1>1 DEF Free, CaseObj
<1> HIDE DEF s, o
<1>3. hash_table' = hash_table \cup {o} /\ held' = held \cup {<<o, s>>}
  BY DEF Push, s, o
<1> QED
  BY <1>2, <1>3 DEF Push, TypeInv, OblistTypeOK, RegForm, Free

LEMMA TypeGc ==
  ASSUME TypeInv, Gc
  PROVE  TypeInv'
<1> DEFINE kept == hash_table' \cup InReg \cup {c[1] : c \in held}
<1>1. /\ hash_table' = {o \in hash_table : ~Worthless(o)}
      /\ word' = [o \in Obj |-> IF o \in kept THEN word[o] ELSE NoWord]
      /\ caselist' = [o \in Obj |-> IF o \in kept THEN caselist[o] ELSE {}]
      /\ valued' = valued \cap kept
      /\ unlinked' = ((unlinked \cup InCase) \ hash_table') \cap kept
      /\ UNCHANGED <<held, pc, reg>>
  BY DEF Gc
<1>2. ASSUME NEW o \in Obj, o \in kept, word[o] # NoWord
      PROVE  word'[o] = word[o] /\ caselist'[o] = caselist[o] /\ o \in Obj \ Free'
  BY <1>1, <1>2 DEF Free
<1>3. word' \in [Obj -> Word \cup {NoWord}] /\ caselist' \in [Obj -> SUBSET Spelling]
  <2> HIDE DEF kept
  <2> QED
    BY <1>1 DEF TypeInv, OblistTypeOK
<1>4. hash_table' \subseteq Obj \ Free'
  <2>1. hash_table' \subseteq hash_table /\ hash_table' \subseteq kept
    BY <1>1
  <2>2. \A o \in hash_table : o \in Obj /\ word[o] # NoWord
    BY DEF TypeInv, OblistTypeOK, Free
  <2> HIDE DEF kept
  <2> QED
    BY <1>2, <2>1, <2>2
<1>5. valued' \subseteq Obj \ Free'
  <2>1. \A o \in valued : o \in Obj /\ word[o] # NoWord
    BY DEF TypeInv, OblistTypeOK, Free
  <2> HIDE DEF kept
  <2> QED
    BY <1>1, <1>2, <2>1
<1>6. held' \subseteq {c \in CaseObj : word'[c[1]] # NoWord /\ c[2] \in caselist'[c[1]]}
  <2>1. ASSUME NEW c \in held
        PROVE  c \in CaseObj /\ word'[c[1]] # NoWord /\ c[2] \in caselist'[c[1]]
    <3>1. /\ c \in CaseObj /\ word[c[1]] # NoWord /\ c[2] \in caselist[c[1]]
          /\ c[1] \in Obj /\ c[1] \in kept
      BY DEF TypeInv, OblistTypeOK, CaseObj
    <3> HIDE DEF kept
    <3> QED
      BY <1>2, <3>1
  <2> QED
    BY <1>1, <2>1
<1>9. unlinked' \subseteq Obj \ (Free' \cup hash_table')
  <2>1. \A o \in unlinked \cup InCase : o \in Obj /\ word[o] # NoWord
    BY RegLookup, LowerType DEF TypeInv, OblistTypeOK, Free, InCase
  <2> HIDE DEF kept
  <2> QED
    BY <1>1, <1>2, <2>1
<1>10. pc = "push" => unlinked' \subseteq unlinked
  BY <1>1 DEF InCase
<1>7. ASSUME pc \in {"make_case", "push"}
      PROVE  /\ reg \in Spelling \X Obj
             /\ word'[reg[2]] = Lower(reg[1])
             /\ caselist'[reg[2]] = caselist[reg[2]]
  <2>1. reg \in Spelling \X Obj /\ word[reg[2]] = Lower(reg[1]) /\ reg[2] \in kept
    BY <1>7 DEF TypeInv, OblistTypeOK, InReg
  <2>2. reg[2] \in Obj /\ word[reg[2]] # NoWord
    BY <2>1, LowerType
  <2> HIDE DEF kept
  <2> QED
    BY <1>2, <2>1, <2>2
<1>8. pc' = pc /\ reg' = reg
  BY <1>1
<1> QED
  BY <1>3, <1>4, <1>5, <1>6, <1>7, <1>8, <1>9, <1>10 DEF TypeInv, OblistTypeOK, RegForm

\* MAKE, ERASE, ERALL and the loss of a pointer.
LEMMA TypePrograms ==
  ASSUME TypeInv, UnsetAll \/ \E c \in held : SetValue(c) \/ Unset(c) \/ Drop(c)
  PROVE  TypeInv'
<1>1. UNCHANGED <<hash_table, word, caselist, pc, reg, unlinked>> /\ held' \subseteq held
  BY DEF UnsetAll, SetValue, Unset, Drop
<1>2. valued' \subseteq valued \cup {c[1] : c \in held}
  BY DEF UnsetAll, SetValue, Unset, Drop
<1>3. {c[1] : c \in held} \subseteq Obj \ Free
  BY DEF TypeInv, OblistTypeOK, CaseObj, Free
<1>4. valued' \subseteq Obj \ Free'
  <2>1. valued \subseteq Obj \ Free
    BY DEF TypeInv, OblistTypeOK
  <2> QED
    BY <1>1, <1>2, <1>3, <2>1 DEF Free
<1>5. UNCHANGED Free
  BY <1>1 DEF Free
<1> QED
  BY <1>1, <1>4, <1>5 DEF TypeInv, OblistTypeOK, RegForm

LEMMA TypeNext ==
  ASSUME TypeInv, [OblistNext]_oblist_vars
  PROVE  TypeInv'
<1>1. CASE UNCHANGED oblist_vars
  BY <1>1 DEF oblist_vars, TypeInv, OblistTypeOK, RegForm, Free
<1>2. CASE \E s \in Spelling : Intern(s)
  BY <1>2, TypeIntern
<1>3. CASE MakeCase \/ MakeObject \/ Push
  BY <1>3, TypeMakeCase, TypeMakeObject, TypePush
<1>4. CASE UnsetAll \/ \E c \in held : SetValue(c) \/ Unset(c) \/ Drop(c)
  BY <1>4, TypePrograms
<1>5. CASE Gc
  BY <1>5, TypeGc
<1> QED
  BY <1>1, <1>2, <1>3, <1>4, <1>5 DEF OblistNext

\* Every caseobj a program holds is in the list of an object that is still there,
\* wherever in intern() the collector runs.
THEOREM TypeCorrect == OblistSpec => []OblistTypeOK
<1>1. OblistInit => TypeInv
  BY TypeInit
<1>2. TypeInv /\ [OblistNext]_oblist_vars => TypeInv'
  BY TypeNext
<1>3. TypeInv => OblistTypeOK
  BY DEF TypeInv
<1> QED
  BY <1>1, <1>2, <1>3, PTL DEF OblistSpec

-----------------------------------------------------------------------------
(* One object for a word. *)

\* The spellings in the list of an object spell its word.
CasesOfTheWord == \A o \in Obj : \A s \in caselist[o] : Lower(s) = word[o]

\* No two objects in the table have the same word.
Unique == \A o, p \in hash_table : word[o] = word[p] => o = p

\* What a program holds, and what make_case is about to extend, is in the table or
\* was taken out of it inside make_case.
HeldIsInTable ==
    /\ \A c \in held : c[1] \in hash_table \cup unlinked
    /\ pc = "make_case" => reg[2] \in hash_table \cup unlinked

\* What make_instance is about to enter is not there yet under any spelling.
NewIsNew ==
    /\ pc = "make_object" => FindInstance(reg[1]) = {}
    /\ pc = "push" => FindInstance(reg[1]) = {}

\* Inductive.
SymbolInv == TypeInv /\ CasesOfTheWord /\ Unique /\ HeldIsInTable /\ NewIsNew /\ ValuesAreFound

LEMMA SymbolInit == OblistInit => SymbolInv
<1> SUFFICES ASSUME OblistInit PROVE SymbolInv
  OBVIOUS
<1>1. PICK f \in [Permanent -> Obj] :
          /\ \A v, w \in Permanent : f[v] = f[w] => v = w
          /\ hash_table = {f[w] : w \in Permanent}
          /\ word = [o \in Obj |-> IF \E w \in Permanent : f[w] = o
                                   THEN CHOOSE w \in Permanent : f[w] = o ELSE NoWord]
  BY DEF OblistInit
<1>2. ASSUME NEW w \in Permanent PROVE word[f[w]] = w
  <2>1. \E u \in Permanent : f[u] = f[w]
    OBVIOUS
  <2>2. word[f[w]] = CHOOSE u \in Permanent : f[u] = f[w]
    BY <1>1, <2>1
  <2> QED
    BY <1>1, <2>1, <2>2
<1>3. Unique
  BY <1>1, <1>2 DEF Unique
<1>4. pc = "idle" /\ held = {} /\ valued = {}
  BY DEF OblistInit
<1>5. CasesOfTheWord
  <2>1. ASSUME NEW o \in Obj, NEW s \in caselist[o] PROVE Lower(s) = word[o]
    <3>1. s \in Spelling /\ s = word[o] /\ word[o] # NoWord
      BY DEF OblistInit
    <3>2. PICK w \in Permanent : f[w] = o
      BY <1>1, <3>1
    <3>3. s \in Permanent
      BY <1>2, <3>1, <3>2
    <3> QED
      BY <3>1, <3>3, LowerAssumption, PermanentAssumption
  <2> QED
    BY <2>1 DEF CasesOfTheWord
<1> QED
  BY <1>3, <1>4, <1>5, TypeInit DEF SymbolInv, HeldIsInTable, NewIsNew, ValuesAreFound

LEMMA SymbolIntern ==
  ASSUME SymbolInv, NEW s \in Spelling, Intern(s)
  PROVE  SymbolInv'
<1>0. TypeInv /\ TypeInv' /\ pc = "idle" /\ UNCHANGED <<hash_table, word, caselist, valued, unlinked>>
  BY TypeIntern DEF SymbolInv, Intern
<1>1. CASE FindInstance(s) = {}
  <2>1. pc' = "make_object" /\ reg' = <<s>> /\ held' = held
    BY <1>1 DEF Intern
  <2> QED
    BY <1>0, <1>1, <2>1 DEF SymbolInv, CasesOfTheWord, Unique, HeldIsInTable, NewIsNew,
                            ValuesAreFound, FindInstance
<1>2. CASE FindInstance(s) # {}
  <2>1. PICK o \in FindInstance(s) :
            IF s \in caselist[o]
            THEN held' = held \cup {<<o, s>>} /\ UNCHANGED <<pc, reg>>
            ELSE pc' = "make_case" /\ reg' = <<s, o>> /\ UNCHANGED held
    BY <1>2 DEF Intern
  <2>2. o \in hash_table
    BY DEF FindInstance
  <2>3. HeldIsInTable'
    BY <1>0, <2>1, <2>2 DEF SymbolInv, HeldIsInTable
  <2>4. NewIsNew'
    BY <1>0, <2>1 DEF NewIsNew
  <2> QED
    BY <1>0, <2>3, <2>4 DEF SymbolInv, CasesOfTheWord, Unique, ValuesAreFound
<1> QED
  BY <1>1, <1>2

LEMMA SymbolMakeCase ==
  ASSUME SymbolInv, MakeCase
  PROVE  SymbolInv'
<1> DEFINE s == reg[1]
           o == reg[2]
<1>1. /\ TypeInv /\ TypeInv' /\ UNCHANGED <<hash_table, word, valued, unlinked>>
      /\ pc' = "idle" /\ held' = held \cup {<<o, s>>}
  BY TypeMakeCase DEF SymbolInv, MakeCase
<1>2. s \in Spelling /\ o \in Obj /\ word[o] = Lower(s) /\ o \in hash_table \cup unlinked
  BY <1>1, RegLookup DEF MakeCase, SymbolInv, HeldIsInTable, TypeInv, OblistTypeOK
<1>3. CasesOfTheWord'
  BY <1>1, <1>2 DEF MakeCase, SymbolInv, CasesOfTheWord, TypeInv, OblistTypeOK
<1>4. HeldIsInTable'
  BY <1>1, <1>2 DEF SymbolInv, HeldIsInTable
<1> QED
  BY <1>1, <1>3, <1>4 DEF SymbolInv, Unique, NewIsNew, ValuesAreFound

LEMMA SymbolMakeObject ==
  ASSUME SymbolInv, MakeObject
  PROVE  SymbolInv'
<1>1. /\ TypeInv /\ TypeInv' /\ UNCHANGED <<hash_table, valued, held, unlinked>>
      /\ pc = "make_object" /\ pc' = "push"
  BY TypeMakeObject DEF SymbolInv, MakeObject
<1>2. PICK o \in Free : /\ word' = [word EXCEPT ![o] = Lower(reg[1])]
                        /\ caselist' = [caselist EXCEPT ![o] = {reg[1]}]
                        /\ reg' = <<reg[1], o>>
  BY DEF MakeObject
<1>3. o \in Obj /\ reg'[1] = reg[1]
  BY <1>2 DEF Free
<1>4. \A p \in hash_table : p \in Obj /\ p # o /\ word'[p] = word[p]
  BY <1>1, <1>2 DEF TypeInv, OblistTypeOK, Free
<1>5. CasesOfTheWord'
  BY <1>1, <1>2, <1>3 DEF SymbolInv, CasesOfTheWord, TypeInv, OblistTypeOK
<1>6. Unique'
  BY <1>1, <1>4 DEF SymbolInv, Unique
<1>7. NewIsNew'
  BY <1>1, <1>3, <1>4 DEF SymbolInv, NewIsNew, FindInstance
<1> QED
  BY <1>1, <1>5, <1>6, <1>7 DEF SymbolInv, HeldIsInTable, ValuesAreFound

LEMMA SymbolPush ==
  ASSUME SymbolInv, Push
  PROVE  SymbolInv'
<1> DEFINE s == reg[1]
           o == reg[2]
<1>1. /\ TypeInv /\ TypeInv' /\ UNCHANGED <<word, caselist, valued, unlinked>>
      /\ pc' = "idle" /\ held' = held \cup {<<o, s>>} /\ hash_table' = hash_table \cup {o}
  BY TypePush DEF SymbolInv, Push
<1>2. word[o] = Lower(s) /\ \A p \in hash_table : word[p] # Lower(s)
  BY <1>1 DEF Push, SymbolInv, NewIsNew, FindInstance, TypeInv, OblistTypeOK
<1>3. Unique'
  BY <1>1, <1>2 DEF SymbolInv, Unique
<1>4. HeldIsInTable'
  BY <1>1 DEF SymbolInv, HeldIsInTable
<1> QED
  BY <1>1, <1>3, <1>4 DEF SymbolInv, CasesOfTheWord, NewIsNew, ValuesAreFound

LEMMA SymbolPrograms ==
  ASSUME SymbolInv, UnsetAll \/ \E c \in held : SetValue(c) \/ Unset(c) \/ Drop(c)
  PROVE  SymbolInv'
<1>1. TypeInv'
  BY TypePrograms DEF SymbolInv
<1>2. UNCHANGED <<hash_table, word, caselist, pc, reg, unlinked>> /\ held' \subseteq held
  BY DEF UnsetAll, SetValue, Unset, Drop
<1>3. valued' \subseteq valued \cup {c[1] : c \in held}
  BY DEF UnsetAll, SetValue, Unset, Drop
<1>4. HeldIsInTable' /\ ValuesAreFound'
  BY <1>2, <1>3 DEF SymbolInv, HeldIsInTable, ValuesAreFound
<1> QED
  BY <1>1, <1>2, <1>4 DEF SymbolInv, CasesOfTheWord, Unique, NewIsNew, FindInstance

\* What GCTWA leaves in the table: what has a value and what a program holds, unless
\* it was out of the table before.
LEMMA KeptInTable ==
  ASSUME SymbolInv, Gc
  PROVE  /\ hash_table' \subseteq hash_table
         /\ valued \ unlinked \subseteq hash_table'
         /\ \A c \in held : c[1] \in hash_table' \cup unlinked
<1>1. hash_table' = {o \in hash_table : ~Worthless(o)}
  BY DEF Gc
<1>2. \A o \in valued : o \in hash_table \cup unlinked /\ ~Worthless(o)
  BY DEF SymbolInv, ValuesAreFound, Worthless
<1>3. ASSUME NEW c \in held PROVE c[1] \in hash_table \cup unlinked /\ ~Worthless(c[1])
  <2>1. c = <<c[1], c[2]>> /\ c[2] \in caselist[c[1]]
    BY DEF SymbolInv, TypeInv, OblistTypeOK, CaseObj
  <2> QED
    BY <2>1 DEF SymbolInv, HeldIsInTable, Worthless
<1> QED
  BY <1>1, <1>2, <1>3

LEMMA SymbolGc ==
  ASSUME SymbolInv, Gc
  PROVE  SymbolInv' /\ valued' \subseteq valued /\ valued \ unlinked \subseteq valued'
<1> DEFINE kept == hash_table' \cup InReg \cup {c[1] : c \in held}
<1>1. /\ word' = [o \in Obj |-> IF o \in kept THEN word[o] ELSE NoWord]
      /\ caselist' = [o \in Obj |-> IF o \in kept THEN caselist[o] ELSE {}]
      /\ valued' = valued \cap kept
      /\ unlinked' = ((unlinked \cup InCase) \ hash_table') \cap kept
      /\ UNCHANGED <<held, pc, reg>>
  BY DEF Gc
<1>2. TypeInv /\ TypeInv'
  BY TypeGc DEF SymbolInv
<1>3. valued' \subseteq valued /\ valued \ unlinked \subseteq valued' /\ hash_table' \subseteq kept
  BY <1>1, KeptInTable
<1>4. \A o \in hash_table' : o \in Obj /\ o \in hash_table /\ word'[o] = word[o]
  BY <1>1, <1>2, KeptInTable DEF TypeInv, OblistTypeOK
<1>5. Unique'
  BY <1>4 DEF SymbolInv, Unique
<1>6. HeldIsInTable'
  <2>1. \A c \in held : c[1] \in kept /\ c[1] \in hash_table' \cup unlinked
    BY KeptInTable
  <2>2. pc = "make_case" => reg[2] \in InCase /\ reg[2] \in kept
    BY DEF InCase, InReg
  <2> HIDE DEF kept
  <2> QED
    BY <1>1, <2>1, <2>2 DEF HeldIsInTable
<1>7. NewIsNew'
  BY <1>1, <1>4 DEF SymbolInv, NewIsNew, FindInstance
<1>8. CasesOfTheWord'
  <2> HIDE DEF kept
  <2> QED
    BY <1>1 DEF SymbolInv, CasesOfTheWord
<1>9. ValuesAreFound'
  <2>1. valued \subseteq hash_table' \cup unlinked
    BY KeptInTable
  <2> HIDE DEF kept
  <2> QED
    BY <1>1, <2>1 DEF ValuesAreFound
<1> QED
  BY <1>2, <1>3, <1>5, <1>6, <1>7, <1>8, <1>9 DEF SymbolInv

LEMMA SymbolNext ==
  ASSUME SymbolInv, [OblistNext]_oblist_vars
  PROVE  SymbolInv'
<1>1. CASE UNCHANGED oblist_vars
  <2>1. TypeInv'
    BY <1>1, TypeNext DEF SymbolInv
  <2> QED
    BY <1>1, <2>1 DEF oblist_vars, SymbolInv, CasesOfTheWord, Unique, HeldIsInTable, NewIsNew,
                      ValuesAreFound, FindInstance
<1>2. CASE \E s \in Spelling : Intern(s)
  BY <1>2, SymbolIntern
<1>3. CASE MakeCase \/ MakeObject \/ Push
  BY <1>3, SymbolMakeCase, SymbolMakeObject, SymbolPush
<1>4. CASE UnsetAll \/ \E c \in held : SetValue(c) \/ Unset(c) \/ Drop(c)
  BY <1>4, SymbolPrograms
<1>5. CASE Gc
  BY <1>5, SymbolGc
<1> QED
  BY <1>1, <1>2, <1>3, <1>4, <1>5 DEF OblistNext

LEMMA SymbolAlways == OblistSpec => []SymbolInv
<1>1. OblistInit => SymbolInv
  BY SymbolInit
<1>2. SymbolInv /\ [OblistNext]_oblist_vars => SymbolInv'
  BY SymbolNext
<1> QED
  BY <1>1, <1>2, PTL DEF OblistSpec

\* All spellings of a word that a program holds are one symbol: whatever was
\* interned, dropped and collected in between, there is one object for a word, but
\* for objects that a collection took out of the table inside make_case.
THEOREM OneSymbolForAWord == OblistSpec => []OneSymbol
<1>1. SymbolInv => OneSymbol
  <2> SUFFICES ASSUME SymbolInv, NEW c \in held, NEW d \in held, Lower(c[2]) = Lower(d[2]),
                      c[1] \notin unlinked, d[1] \notin unlinked
               PROVE  c[1] = d[1]
    BY DEF OneSymbol
  <2>1. ASSUME NEW e \in held, e[1] \notin unlinked PROVE e[1] \in hash_table /\ word[e[1]] = Lower(e[2])
    BY <2>1 DEF SymbolInv, HeldIsInTable, CasesOfTheWord, TypeInv, OblistTypeOK, CaseObj
  <2> QED
    BY <2>1 DEF SymbolInv, Unique
<1> QED
  BY <1>1, SymbolAlways, PTL

\* An object with a value, a procedure or properties is in the table, where
\* intern() finds it again after the last caseobj that pointed to it is gone, or
\* is one of those that make_case lost.
THEOREM ValuesStayInTheTable == OblistSpec => []OblistInv
<1>1. SymbolInv => OblistInv
  BY DEF SymbolInv, OblistInv, TypeInv
<1> QED
  BY <1>1, SymbolAlways, PTL

\* A step that takes objects out of the table takes no value away, but from those.
THEOREM CollectionKeepsValues == OblistSpec => GcKeepsValues
<1> DEFINE Keeps == hash_table' # hash_table => valued' \subseteq valued /\ valued \ unlinked \subseteq valued'
<1>1. ASSUME SymbolInv, OblistNext, hash_table' # hash_table
      PROVE  valued' \subseteq valued /\ valued \ unlinked \subseteq valued'
  <2>1. CASE Push
    BY <2>1 DEF Push
  <2>2. CASE Gc
    BY <1>1, <2>2, SymbolGc
  <2>3. CASE ~Push /\ ~Gc
    BY <1>1, <2>3 DEF OblistNext, Intern, MakeCase, MakeObject, SetValue, Unset, Drop, UnsetAll
  <2> QED
    BY <2>1, <2>2, <2>3
<1>2. SymbolInv /\ [OblistNext]_oblist_vars => [Keeps]_oblist_vars
  BY <1>1
<1> QED
  BY <1>2, SymbolAlways, PTL DEF OblistSpec, GcKeepsValues

-----------------------------------------------------------------------------
(* Induction and recursion up to n, from the well-foundedness of < on the naturals. *)

LEMMA Least ==
  ASSUME NEW T \in SUBSET Nat, T # {}
  PROVE  \E n \in T : \A m \in T : n <= m
<1> DEFINE R == OpToRel(<, Nat)
<1>1. IsWellFoundedOn(R, Nat)
  BY NatLessThanWellFounded
<1> HIDE DEF R
<1>2. PICK n \in T : \A m \in T : ~(<<m, n>> \in R)
  BY <1>1, WFMin
<1>3. \A m \in T : ~(m < n)
  BY <1>2 DEF OpToRel, R
<1> QED
  BY <1>3

LEMMA Upward ==
  ASSUME NEW n \in Nat, NEW S, 0 \in S, \A i \in 1 .. n : i - 1 \in S => i \in S
  PROVE  \A i \in 0 .. n : i \in S
<1> DEFINE T == {i \in 0 .. n : i \notin S}
<1> SUFFICES ASSUME T # {} PROVE FALSE
  OBVIOUS
<1>1. PICK m \in T : \A i \in T : m <= i
  <2>1. T \in SUBSET Nat
    OBVIOUS
  <2> HIDE DEF T
  <2> QED
    BY <2>1, Least
<1>2. m \in 1 .. n
  OBVIOUS
<1>3. m - 1 \in 0 .. n /\ m - 1 \notin T
  BY <1>1, <1>2
<1> QED
  BY <1>2, <1>3

\* A function that begins with c and goes on with the steps st.
Follows(f, n, c, st) == \A i \in 0 .. n : f[i] = IF i = 0 THEN c ELSE st[i][f[i - 1]]

LEMMA RecursionExists ==
  ASSUME NEW n \in Nat, NEW S, NEW c \in S, NEW st \in [1 .. n -> [S -> S]]
  PROVE  \E f \in [0 .. n -> S] : Follows(f, n, c, st)
<1> DEFINE Upto(m, f) == \A i \in 0 .. m : f[i] = IF i = 0 THEN c ELSE st[i][f[i - 1]]
           T == {m \in 0 .. n : \E f \in [0 .. m -> S] : Upto(m, f)}
<1>1. 0 \in T
  <2>1. Upto(0, [i \in 0 .. 0 |-> c]) /\ [i \in 0 .. 0 |-> c] \in [0 .. 0 -> S]
    OBVIOUS
  <2> HIDE DEF Upto
  <2> QED
    BY <2>1
<1>2. ASSUME NEW m \in 1 .. n, m - 1 \in T PROVE m \in T
  <2>1. PICK f \in [0 .. m - 1 -> S] : Upto(m - 1, f)
    BY <1>2
  <2> DEFINE g == [i \in 0 .. m |-> IF i = m THEN st[m][f[m - 1]] ELSE f[i]]
  <2>2. g \in [0 .. m -> S]
    OBVIOUS
  <2>3. ASSUME NEW i \in 0 .. m PROVE g[i] = IF i = 0 THEN c ELSE st[i][g[i - 1]]
    <3>1. CASE i = m
      <4>1. g[m - 1] = f[m - 1] /\ g[i] = st[m][f[m - 1]] /\ i # 0
        BY <3>1
      <4> HIDE DEF g
      <4> QED
        BY <3>1, <4>1
    <3>2. CASE i # m
      <4>1. i \in 0 .. m - 1 /\ g[i] = f[i]
        BY <3>2
      <4>2. i # 0 => g[i - 1] = f[i - 1]
        BY <3>2
      <4> HIDE DEF g
      <4> QED
        BY <2>1, <4>1, <4>2
    <3> QED
      BY <3>1, <3>2
  <2>4. Upto(m, g)
    BY <2>3
  <2> HIDE DEF g, Upto
  <2> QED
    BY <2>2, <2>4
<1>3. n \in T
  <2> HIDE DEF T
  <2>1. \A m \in 1 .. n : m - 1 \in T => m \in T
    BY <1>2
  <2>2. \A m \in 0 .. n : m \in T
    BY <1>1, <2>1, Upward
  <2> QED
    BY <2>2
<1>4. PICK f \in [0 .. n -> S] : Upto(n, f)
  <2> HIDE DEF Upto
  <2> QED
    BY <1>3
<1> QED
  BY <1>4 DEF Follows

-----------------------------------------------------------------------------
(* The types. *)

\* What the program wrote, or got from the library or the editor.
Given == Body \cup {Empty, LibBody}
\* A property list has a value for each property.
Plists == {s \in Seq(Prop) : \A i, j \in 1 .. Len(s) : s[i][1] = s[j][1] => i = j}
Workspaces ==
    [proc : [Proc -> Bodies], val : [Var -> Value \cup {UNBOUND}], plist : [Plist -> Plists],
     flags : [Flag -> SUBSET Thing], err : BOOLEAN]

Tos == [op : {"to"}, name : Proc, what : Given]
Makes == [op : {"make"}, name : Var, what : Value]
Pprops == [op : {"pprop"}, name : Plist, what : Prop]
Buries == [op : {"bury"}, name : Proc, what : {{}}]
Printed == Tos \cup Makes \cup Pprops
Instruction == Printed \cup Buries

LEMMA TheOnly == ASSUME NEW x PROVE The({x}) = x
BY DEF The

LEMMA ProcThing == ASSUME NEW n \in Proc PROVE {<<"proc", n>>} \subseteq Thing
BY DEF Thing, Kind, Names

LEMMA InstructionKinds ==
  ASSUME NEW i \in Instruction
  PROVE  /\ i.op \in {"to", "make", "pprop", "bury"}
         /\ i.op = "to" => i.name \in Proc /\ i.what \in Given
         /\ i.op = "make" => i.name \in Var /\ i.what \in Value
         /\ i.op = "pprop" => i.name \in Plist /\ i.what \in Prop
         /\ i.op = "bury" => i.name \in Proc
         /\ i.op # "bury" => i \in Printed
BY DEF Instruction, Printed, Tos, Makes, Pprops, Buries

LEMMA ItemMade ==
  /\ \A n \in Proc : \A b \in Given : Item("to", n, b) \in Tos
  /\ \A n \in Var : \A v \in Value : Item("make", n, v) \in Makes
  /\ \A n \in Plist : \A p \in Prop : Item("pprop", n, p) \in Pprops
  /\ \A n \in Proc : Item("bury", n, {}) \in Buries
BY DEF Item, Tos, Makes, Pprops, Buries

LEMMA ItemIs == ASSUME NEW o, NEW n, NEW v PROVE Item(o, n, v).op = o /\ Item(o, n, v).name = n /\ Item(o, n, v).what = v
BY DEF Item

LEMMA ProcChange ==
  ASSUME NEW w \in Workspaces, NEW n \in Proc, NEW b \in Bodies
  PROVE  LET v == [w EXCEPT !.proc[n] = b]
         IN  /\ v \in Workspaces /\ v.val = w.val /\ v.plist = w.plist /\ v.flags = w.flags /\ v.err = w.err
             /\ v.proc[n] = b /\ \A m \in Proc : m # n => v.proc[m] = w.proc[m]
BY DEF Workspaces

LEMMA FailType ==
  ASSUME NEW w \in Workspaces
  PROVE  /\ Fail(w) \in Workspaces /\ Fail(w).proc = w.proc /\ Fail(w).val = w.val /\ Fail(w).plist = w.plist
         /\ Fail(w).flags = w.flags /\ Fail(w).err
BY DEF Workspaces, Fail

LEMMA ClearType ==
  ASSUME NEW w \in Workspaces, NEW f \in Flag, NEW things
  PROVE  LET v == Clear(w, f, things)
         IN  /\ v \in Workspaces /\ v.proc = w.proc /\ v.val = w.val /\ v.plist = w.plist /\ v.err = w.err
             /\ v.flags[f] = w.flags[f] \ things /\ \A g \in Flag : g # f => v.flags[g] = w.flags[g]
BY DEF Workspaces, Clear

LEMMA SetType ==
  ASSUME NEW w \in Workspaces, NEW f \in Flag, NEW things \in SUBSET Thing
  PROVE  LET v == Set(w, f, things)
         IN  /\ v \in Workspaces /\ v.proc = w.proc /\ v.val = w.val /\ v.plist = w.plist /\ v.err = w.err
             /\ v.flags[f] = w.flags[f] \cup things /\ \A g \in Flag : g # f => v.flags[g] = w.flags[g]
BY DEF Workspaces, Set

LEMMA FreshIs ==
  /\ Fresh \in Workspaces /\ ~Fresh.err
  /\ \A n \in Proc : Fresh.proc[n] = IF n \in Primitive THEN PRIM ELSE UNDEFINED
  /\ \A n \in Plist : Fresh.plist[n] = <<>>
  /\ \A n \in Proc : <<"proc", n>> \notin Fresh.flags["BURIED"]
<1>1. Fresh.proc \in [Proc -> Bodies]
  BY DEF Fresh, Bodies
<1>2. Fresh.val \in [Var -> Value \cup {UNBOUND}]
  BY WorkspaceAssumption DEF Fresh
<1>3. Fresh.plist \in [Plist -> Plists]
  BY DEF Fresh, Plists
<1>4. <<"val", UnburyOnEdit>> \in Thing
  BY WorkspaceAssumption DEF Thing, Kind, Names
<1>5. Fresh.flags \in [Flag -> SUBSET Thing]
  BY <1>4 DEF Fresh
<1>6. Fresh \in Workspaces
  BY <1>1, <1>2, <1>3, <1>5 DEF Fresh, Workspaces
<1>7. \A n \in Proc : <<"proc", n>> \notin Fresh.flags["BURIED"]
  BY DEF Fresh, Flag
<1> QED
  BY <1>6, <1>7 DEF Fresh

-----------------------------------------------------------------------------
(* What an instruction does. *)

LEMMA ToFromFile ==
  ASSUME NEW w \in Workspaces, NEW n \in Proc, NEW b \in Bodies
  PROVE  LET v == To(w, n, b, "file")
         IN  /\ v \in Workspaces /\ v.val = w.val /\ v.plist = w.plist
             /\ \A m \in Proc : m # n => v.proc[m] = w.proc[m]
             /\ w.proc[n] = PRIM => v = Fail(w)
             /\ w.proc[n] # PRIM => v.err = w.err /\ v.proc[n] = b
             /\ w.proc[n] # PRIM /\ VarTrue(w, UnburyOnEdit) => v.flags["BURIED"] = w.flags["BURIED"] \ {<<"proc", n>>}
             /\ ~VarTrue(w, UnburyOnEdit) => v.flags["BURIED"] = w.flags["BURIED"]
<1> DEFINE done == [w EXCEPT !.proc[n] = b]
<1>1. done \in Workspaces /\ done.val = w.val /\ done.plist = w.plist /\ done.flags = w.flags /\ done.err = w.err
      /\ done.proc[n] = b /\ \A m \in Proc : m # n => done.proc[m] = w.proc[m]
  BY ProcChange
<1>2. To(w, n, b, "file") = IF w.proc[n] = PRIM THEN Fail(w)
                            ELSE IF VarTrue(w, UnburyOnEdit) THEN Clear(done, "BURIED", {<<"proc", n>>}) ELSE done
  BY DEF To, IsPrim, Unburies
<1> HIDE DEF done
<1>3. "BURIED" \in Flag
  BY DEF Flag
<1> QED
  BY <1>1, <1>2, <1>3, FailType, ClearType

LEMMA MakeType ==
  ASSUME NEW w \in Workspaces, NEW n \in Var, NEW v \in Value
  PROVE  LET u == Make(w, n, v)
         IN  /\ u \in Workspaces /\ u.proc = w.proc /\ u.plist = w.plist /\ u.flags = w.flags /\ u.err = w.err
             /\ u.val = [w.val EXCEPT ![n] = v]
BY DEF Workspaces, Make

\* The list of properties that PPROP leaves.
Put(s, p) ==
    IF \E i \in DOMAIN s : s[i][1] = p[1] THEN [i \in DOMAIN s |-> IF s[i][1] = p[1] THEN p ELSE s[i]] ELSE <<p>> \o s

LEMMA PutType == ASSUME NEW s \in Plists, NEW p \in Prop PROVE Put(s, p) \in Plists
<1>1. s \in Seq(Prop) /\ DOMAIN s = 1 .. Len(s) /\ Len(s) \in Nat /\ \A i, j \in 1 .. Len(s) : s[i][1] = s[j][1] => i = j
  BY DEF Plists
<1>2. CASE \E i \in DOMAIN s : s[i][1] = p[1]
  <2> DEFINE t == [i \in 1 .. Len(s) |-> IF s[i][1] = p[1] THEN p ELSE s[i]]
  <2>1. Put(s, p) = t
    BY <1>1, <1>2 DEF Put
  <2>2. t \in Seq(Prop) /\ Len(t) = Len(s)
    BY <1>1
  <2>3. \A i \in 1 .. Len(s) : t[i][1] = s[i][1]
    OBVIOUS
  <2> HIDE DEF t
  <2> QED
    BY <1>1, <2>1, <2>2, <2>3 DEF Plists
<1>3. CASE ~\E i \in DOMAIN s : s[i][1] = p[1]
  <2> DEFINE t == <<p>> \o s
  <2>1. Put(s, p) = t
    BY <1>3 DEF Put
  <2>2. t \in Seq(Prop) /\ Len(t) = 1 + Len(s) /\ t[1] = p /\ \A i \in 2 .. Len(t) : t[i] = s[i - 1] /\ i - 1 \in 1 .. Len(s)
    BY <1>1
  <2> HIDE DEF t
  <2>3. ASSUME NEW i \in 1 .. Len(t), NEW j \in 1 .. Len(t), t[i][1] = t[j][1] PROVE i = j
    <3>1. (i = 1 \/ i \in 2 .. Len(t)) /\ (j = 1 \/ j \in 2 .. Len(t))
      BY <1>1, <2>2
    <3>2. ASSUME NEW k \in 2 .. Len(t) PROVE t[k][1] # p[1]
      <4>1. t[k] = s[k - 1] /\ k - 1 \in DOMAIN s
        BY <1>1, <2>2
      <4> QED
        BY <1>3, <4>1
    <3>3. CASE i = 1 \/ j = 1
      BY <2>2, <2>3, <3>1, <3>2, <3>3
    <3>4. CASE i \in 2 .. Len(t) /\ j \in 2 .. Len(t)
      <4>1. i - 1 = j - 1
        BY <1>1, <2>2, <2>3, <3>4
      <4> QED
        BY <4>1, <3>4, <1>1, <2>2
    <3> QED
      BY <3>1, <3>3, <3>4
  <2> QED
    BY <2>1, <2>2, <2>3 DEF Plists
<1> QED
  BY <1>2, <1>3

LEMMA PpropType ==
  ASSUME NEW w \in Workspaces, NEW n \in Plist, NEW p \in Prop
  PROVE  LET u == Pprop(w, n, p)
         IN  /\ u \in Workspaces /\ u.proc = w.proc /\ u.val = w.val /\ u.flags = w.flags /\ u.err = w.err
             /\ u.plist = [w.plist EXCEPT ![n] = Put(w.plist[n], p)]
<1>1. Put(w.plist[n], p) \in Plists
  BY PutType DEF Workspaces
<1>2. Pprop(w, n, p) = [w EXCEPT !.plist[n] = Put(w.plist[n], p)]
  BY DEF Workspaces, Pprop, Put
<1> QED
  BY <1>1, <1>2 DEF Workspaces

LEMMA RunIs ==
  ASSUME NEW w \in Workspaces, NEW i \in Instruction
  PROVE  /\ w.err => Run(w, i, "file") = w
         /\ ~w.err /\ i.op = "to" => Run(w, i, "file") = To(w, i.name, i.what, "file")
         /\ ~w.err /\ i.op = "make" => Run(w, i, "file") = Make(w, i.name, i.what)
         /\ ~w.err /\ i.op = "pprop" => Run(w, i, "file") = Pprop(w, i.name, i.what)
         /\ ~w.err /\ i.op = "bury" => Run(w, i, "file") = Set(w, "BURIED", {<<"proc", i.name>>})
BY DEF Run

LEMMA RunType ==
  ASSUME NEW w \in Workspaces, NEW i \in Instruction
  PROVE  Run(w, i, "file") \in Workspaces
<1>1. Given \subseteq Bodies /\ "BURIED" \in Flag
  BY DEF Given, Bodies, Flag
<1>2. CASE w.err
  BY <1>2, RunIs
<1>3. CASE ~w.err /\ i.op = "to"
  <2>1. i.name \in Proc /\ i.what \in Bodies /\ Run(w, i, "file") = To(w, i.name, i.what, "file")
    BY <1>1, <1>3, RunIs, InstructionKinds
  <2>2. To(w, i.name, i.what, "file") \in Workspaces
    BY <2>1, ToFromFile
  <2> QED
    BY <2>1, <2>2
<1>4. CASE ~w.err /\ i.op = "make"
  <2>1. i.name \in Var /\ i.what \in Value /\ Run(w, i, "file") = Make(w, i.name, i.what)
    BY <1>4, RunIs, InstructionKinds
  <2>2. Make(w, i.name, i.what) \in Workspaces
    BY <2>1, MakeType
  <2> QED
    BY <2>1, <2>2
<1>5. CASE ~w.err /\ i.op = "pprop"
  <2>1. i.name \in Plist /\ i.what \in Prop /\ Run(w, i, "file") = Pprop(w, i.name, i.what)
    BY <1>5, RunIs, InstructionKinds
  <2>2. Pprop(w, i.name, i.what) \in Workspaces
    BY <2>1, PpropType
  <2> QED
    BY <2>1, <2>2
<1>6. CASE ~w.err /\ i.op = "bury"
  <2>1. i.name \in Proc /\ Run(w, i, "file") = Set(w, "BURIED", {<<"proc", i.name>>})
    BY <1>6, RunIs, InstructionKinds
  <2>2. {<<"proc", i.name>>} \subseteq Thing
    BY <2>1, ProcThing
  <2> QED
    BY <1>1, <2>1, <2>2, SetType
<1> QED
  BY <1>2, <1>3, <1>4, <1>5, <1>6, InstructionKinds

-----------------------------------------------------------------------------
(* What a text does. *)

\* LOAD runs the instructions one after the other.
LEMMA LoadFollows ==
  ASSUME NEW w \in Workspaces, NEW text \in Seq(Instruction)
  PROVE  \E f \in [0 .. Len(text) -> Workspaces] :
            f[0] = w /\ (\A i \in 1 .. Len(text) : f[i] = Run(f[i - 1], text[i], "file")) /\ LoadText(w, text) = f[Len(text)]
<1> DEFINE n == Len(text)
           c == w
           Step(i, s) == Run(s, text[i], "file")
           Recursion(f) == f = [i \in 0 .. Len(text) |-> IF i = 0 THEN w ELSE The({Run(r, text[i], "file") : r \in {f[i - 1]}})]
           st == [i \in 1 .. n |-> [s \in Workspaces |-> Step(i, s)]]
           g == CHOOSE f : Recursion(f)
<1>1. n \in Nat /\ c \in Workspaces /\ \A i \in 1 .. n : \A s \in Workspaces : Step(i, s) \in Workspaces
  <2>1. n \in Nat /\ \A i \in 1 .. n : text[i] \in Instruction
    OBVIOUS
  <2> QED
    BY <2>1, RunType
<1>2. PICK f \in [0 .. n -> Workspaces] : Follows(f, n, c, st)
  <2> HIDE DEF Step, n, c
  <2>1. st \in [1 .. n -> [Workspaces -> Workspaces]]
    BY <1>1
  <2> HIDE DEF st
  <2> QED
    BY <1>1, <2>1, RecursionExists
<1>3. \A i \in 0 .. n : f[i] = IF i = 0 THEN c ELSE Step(i, f[i - 1])
  <2> HIDE DEF Step, n, c
  <2>1. \A i \in 1 .. n : i - 1 \in 0 .. n /\ f[i - 1] \in Workspaces
    BY <1>1
  <2>2. \A i \in 1 .. n : st[i][f[i - 1]] = Step(i, f[i - 1])
    BY <2>1
  <2> HIDE DEF st
  <2>3. \A i \in 0 .. n : i = 0 \/ i \in 1 .. n
    BY <1>1
  <2> QED
    BY <1>2, <2>2, <2>3 DEF Follows
<1>4. \E h : Recursion(h)
  <2>1. f = [i \in 0 .. n |-> f[i]]
    OBVIOUS
  <2>2. \A s : The({s}) = s
    BY TheOnly
  <2>3. \A i : The({Run(r, text[i], "file") : r \in {f[i - 1]}}) = Step(i, f[i - 1])
    BY <2>2, Zenon
  <2>4. f = [i \in 0 .. n |-> IF i = 0 THEN c ELSE The({Run(r, text[i], "file") : r \in {f[i - 1]}})]
    BY <1>3, <2>1, <2>3, Zenon
  <2> QED
    BY <2>4, Zenon
<1>5. Recursion(g)
  BY <1>4, Zenon
<1>6. LoadText(w, text) = g[n]
  BY Zenon DEF LoadText
<1> HIDE DEF g
<1>7. g[0] = c /\ \A i \in 1 .. n : g[i] = Step(i, g[i - 1])
  <2>1. \A s : The({s}) = s
    BY TheOnly
  <2>2. \A i : The({Run(r, text[i], "file") : r \in {g[i - 1]}}) = Step(i, g[i - 1])
    BY <2>1, Zenon
  <2>3. \A i \in 0 .. n : g[i] = IF i = 0 THEN c ELSE The({Run(r, text[i], "file") : r \in {g[i - 1]}})
    BY <1>5, Zenon
  <2>4. \A i \in 0 .. n : g[i] = IF i = 0 THEN c ELSE Step(i, g[i - 1])
    BY <2>2, <2>3, Zenon
  <2> HIDE DEF n, c, Step
  <2> QED
    BY <1>1, <2>4
<1>8. g \in [0 .. n -> Workspaces]
  <2> DEFINE T == {j \in 0 .. n : g[j] \in Workspaces}
  <2>1. 0 \in T /\ \A i \in 1 .. n : i - 1 \in T => i \in T
    <3> HIDE DEF Step, n, c
    <3>1. 0 \in 0 .. n /\ \A i \in 1 .. n : i \in 0 .. n
      BY <1>1
    <3>2. g[0] \in Workspaces /\ \A i \in 1 .. n : g[i - 1] \in Workspaces => g[i] \in Workspaces
      BY <1>1, <1>7
    <3> QED
      BY <3>1, <3>2
  <2>2. \A i \in 0 .. n : i \in T
    <3> HIDE DEF Step, n, c, T
    <3> QED
      BY <1>1, <2>1, Upward
  <2>3. g = [i \in 0 .. n |-> g[i]]
    BY <1>5, Zenon
  <2> HIDE DEF Step, n, c
  <2> QED
    BY <2>2, <2>3
<1> QED
  BY <1>6, <1>7, <1>8

LEMMA LoadNothing == ASSUME NEW w \in Workspaces PROVE LoadText(w, <<>>) = w
<1>1. <<>> \in Seq(Instruction) /\ Len(<<>>) = 0
  OBVIOUS
<1>2. PICK f \in [0 .. Len(<<>>) -> Workspaces] :
         f[0] = w /\ (\A k \in 1 .. Len(<<>>) : f[k] = Run(f[k - 1], <<>>[k], "file")) /\ LoadText(w, <<>>) = f[Len(<<>>)]
  BY <1>1, LoadFollows
<1> QED
  BY <1>1, <1>2

LEMMA LoadStep ==
  ASSUME NEW w \in Workspaces, NEW text \in Seq(Instruction), NEW i \in Instruction
  PROVE  /\ LoadText(w, text) \in Workspaces
         /\ LoadText(w, Append(text, i)) = Run(LoadText(w, text), i, "file")
<1> DEFINE n == Len(text)
           longer == Append(text, i)
<1>1. PICK f \in [0 .. n -> Workspaces] :
         f[0] = w /\ (\A k \in 1 .. n : f[k] = Run(f[k - 1], text[k], "file")) /\ LoadText(w, text) = f[n]
  BY LoadFollows
<1>2. longer \in Seq(Instruction) /\ Len(longer) = n + 1 /\ n \in Nat
      /\ (\A k \in 1 .. n : longer[k] = text[k]) /\ longer[n + 1] = i
  OBVIOUS
<1> HIDE DEF n, longer
<1>3. PICK g \in [0 .. n + 1 -> Workspaces] :
         g[0] = w /\ (\A k \in 1 .. n + 1 : g[k] = Run(g[k - 1], longer[k], "file")) /\ LoadText(w, longer) = g[n + 1]
  BY <1>2, LoadFollows
<1> DEFINE T == {k \in 0 .. n : g[k] = f[k]}
<1>4. 0 \in T /\ \A k \in 1 .. n : k - 1 \in T => k \in T
  BY <1>1, <1>2, <1>3
<1>5. \A k \in 0 .. n : k \in T
  <2> HIDE DEF T
  <2> QED
    BY <1>2, <1>4, Upward
<1>6. g[n] = f[n] /\ f[n] \in Workspaces /\ g[n + 1] = Run(g[n], i, "file")
  BY <1>2, <1>3, <1>5
<1> QED
  BY <1>1, <1>3, <1>6 DEF longer

LEMMA LoadOne ==
  ASSUME NEW w \in Workspaces, NEW i \in Instruction
  PROVE  LoadText(w, <<i>>) = Run(w, i, "file")
<1>1. <<>> \in Seq(Instruction) /\ Append(<<>>, i) = <<i>>
  OBVIOUS
<1> QED
  BY <1>1, LoadStep, LoadNothing

\* Each text is loaded up to an instruction, then that instruction is run.
LEMMA LoadPrefix ==
  ASSUME NEW w \in Workspaces, NEW text \in Seq(Instruction), NEW k \in 1 .. Len(text)
  PROVE  /\ LoadText(w, SubSeq(text, 1, k - 1)) \in Workspaces
         /\ LoadText(w, SubSeq(text, 1, k)) = Run(LoadText(w, SubSeq(text, 1, k - 1)), text[k], "file")
<1>1. SubSeq(text, 1, k - 1) \in Seq(Instruction) /\ text[k] \in Instruction
      /\ SubSeq(text, 1, k) = Append(SubSeq(text, 1, k - 1), text[k])
  OBVIOUS
<1> QED
  BY <1>1, LoadStep

-----------------------------------------------------------------------------
(* Loading from the library. *)

LEMMA Pair == ASSUME NEW S, NEW x \in S, NEW y \in S PROVE <<x>> \in Seq(S) /\ Append(<<x>>, y) = <<x, y>>
<1> DEFINE s == Append(<<x>>, y)
           t == <<x, y>>
<1>1. <<x>> \in Seq(S) /\ t \in Seq(S) /\ Len(t) = 2 /\ t[1] = x /\ t[2] = y /\ Len(<<x>>) = 1 /\ <<x>>[1] = x
  OBVIOUS
<1>2. s \in Seq(S) /\ Len(s) = 2 /\ s[1] = x /\ s[2] = y
  BY <1>1, AppendProperties
<1> HIDE DEF s, t
<1>3. \A i \in 1 .. Len(s) : s[i] = t[i]
  BY <1>1, <1>2
<1>4. s = t
  BY <1>1, <1>2, <1>3, SeqEqual
<1> QED
  BY <1>1, <1>4 DEF s, t

LEMMA LibraryItems ==
  ASSUME NEW n \in Proc
  PROVE  Item("to", n, LibBody) \in Instruction /\ Item("bury", n, {}) \in Instruction
BY ItemMade DEF Instruction, Printed, Given

LEMMA CheckLibraryIs ==
  ASSUME NEW w \in Workspaces, ~w.err, NEW n \in Proc
  PROVE  LET v == CheckLibrary(w, n)
         IN  /\ v \in Workspaces /\ v.val = w.val /\ v.plist = w.plist /\ ~v.err
             /\ \A m \in Proc : m # n => v.proc[m] = w.proc[m]
             /\ w.proc[n] = UNDEFINED /\ n \in Library =>
                  v.proc[n] = LibBody /\ v.flags["BURIED"] = w.flags["BURIED"] \cup {<<"proc", n>>}
             /\ ~(w.proc[n] = UNDEFINED /\ n \in Library) => v = w
<1>1. CASE w.proc[n] = UNDEFINED /\ n \in Library
  <2> DEFINE a == Item("to", n, LibBody)
             b == Item("bury", n, {})
             u == To(w, n, LibBody, "file")
             v == Set(u, "BURIED", {<<"proc", n>>})
  <2>1. a \in Instruction /\ b \in Instruction /\ a.op = "to" /\ a.name = n /\ a.what = LibBody /\ b.op = "bury" /\ b.name = n
    BY LibraryItems DEF Item
  <2>2. LibBody \in Bodies /\ w.proc[n] # PRIM /\ LibBody # UNDEFINED /\ "BURIED" \in Flag
    BY <1>1, WorkspaceAssumption DEF Bodies, Flag
  <2>3. /\ u \in Workspaces /\ u.val = w.val /\ u.plist = w.plist /\ u.err = w.err /\ u.proc[n] = LibBody
        /\ \A m \in Proc : m # n => u.proc[m] = w.proc[m]
        /\ u.flags["BURIED"] \cup {<<"proc", n>>} = w.flags["BURIED"] \cup {<<"proc", n>>}
    <3>1. LET t == To(w, n, LibBody, "file")
          IN  /\ t \in Workspaces /\ t.val = w.val /\ t.plist = w.plist
              /\ \A m \in Proc : m # n => t.proc[m] = w.proc[m]
              /\ w.proc[n] = PRIM => t = Fail(w)
              /\ w.proc[n] # PRIM => t.err = w.err /\ t.proc[n] = LibBody
              /\ w.proc[n] # PRIM /\ VarTrue(w, UnburyOnEdit) => t.flags["BURIED"] = w.flags["BURIED"] \ {<<"proc", n>>}
              /\ ~VarTrue(w, UnburyOnEdit) => t.flags["BURIED"] = w.flags["BURIED"]
      BY <2>2, ToFromFile
    <3> HIDE DEF a, b
    <3> QED
      BY <2>2, <3>1
  <2>4. LoadText(w, <<a>>) = u
    <3> HIDE DEF a, b
    <3>1. LoadText(w, <<a>>) = Run(w, a, "file")
      BY <2>1, LoadOne
    <3> QED
      BY <2>1, <3>1, RunIs
  <2>5. LoadText(w, <<a, b>>) = v
    <3> HIDE DEF a, b, u
    <3>1. <<a>> \in Seq(Instruction) /\ Append(<<a>>, b) = <<a, b>>
      BY <2>1, Pair
    <3>2. LoadText(w, <<a, b>>) = Run(u, b, "file")
      BY <2>1, <2>4, <3>1, LoadStep
    <3> QED
      BY <2>1, <2>3, <3>2, RunIs
  <2>6. CheckLibrary(w, n) = v
    BY <1>1, <2>5 DEF CheckLibrary, LibText
  <2>7. /\ v \in Workspaces /\ v.proc = u.proc /\ v.val = u.val /\ v.plist = u.plist /\ v.err = u.err
        /\ v.flags["BURIED"] = u.flags["BURIED"] \cup {<<"proc", n>>}
    <3>1. {<<"proc", n>>} \subseteq Thing
      BY ProcThing
    <3> HIDE DEF u
    <3> QED
      BY <2>2, <2>3, <3>1, SetType
  <2> HIDE DEF u, v, a, b
  <2> QED
    BY <1>1, <2>3, <2>6, <2>7
<1>2. CASE ~(w.proc[n] = UNDEFINED /\ n \in Library)
  BY <1>2 DEF CheckLibrary
<1> QED
  BY <1>1, <1>2

-----------------------------------------------------------------------------
(* The elements of a finite set in a sequence. *)

LEMMA SetToSeqIs ==
  ASSUME NEW S, IsFiniteSet(S)
  PROVE  /\ SetToSeq(S) \in Seq(S) /\ Len(SetToSeq(S)) \in Nat
         /\ \A i, j \in 1 .. Len(SetToSeq(S)) : SetToSeq(S)[i] = SetToSeq(S)[j] => i = j
         /\ \A x \in S : \E i \in 1 .. Len(SetToSeq(S)) : SetToSeq(S)[i] = x
<1> DEFINE n == Cardinality(S)
<1>1. n \in Nat /\ ExistsBijection(1 .. n, S)
  BY FS_CardinalityType
<1>2. PICK f \in Bijection(1 .. n, S) : TRUE
  BY <1>1 DEF ExistsBijection
<1>3. f \in [1 .. n -> S] /\ IsInjective(f)
  BY <1>2 DEF Bijection, Injection, IsInjective
<1> DEFINE s == SetToSeq(S)
<1>4. s \in [1 .. n -> S] /\ IsInjective(s)
  BY <1>3 DEF SetToSeq
<1> HIDE DEF s, n
<1>5. s \in Injection(1 .. n, S)
  BY <1>4 DEF Injection, IsInjective
<1>6. s \in Surjection(1 .. n, S)
  <2>1. IsFiniteSet(1 .. n) /\ Cardinality(1 .. n) = n
    BY <1>1, FS_Interval
  <2> QED
    BY <1>5, <2>1, FS_Injection DEF n
<1>7. s \in Seq(S) /\ Len(s) = n
  BY <1>1, <1>4
<1>8. \A x \in S : \E i \in 1 .. n : s[i] = x
  BY <1>6 DEF Surjection
<1> QED
  BY <1>1, <1>4, <1>7, <1>8 DEF s, IsInjective

-----------------------------------------------------------------------------
(* Texts as files hold them: procedures first, and no BURY. *)

Ordered(text) == \A i, j \in 1 .. Len(text) : i < j /\ text[j].op = "to" => text[i].op = "to"
Texts == {text \in Seq(Printed) : Ordered(text)}
Buried(w, n) == <<"proc", n>> \in w.flags["BURIED"]
Upto(text, k) == SubSeq(text, 1, k)
DefinedBy(text, w, k) == {text[i].name : i \in {j \in 1 .. k : text[j].op = "to" /\ ~LoadText(w, SubSeq(text, 1, j)).err}}

\* What the load of a text does to the procedures, D those that it defines, and to their burying.
Effect(w, u, D) ==
    /\ u \in Workspaces /\ D \subseteq Proc
    /\ \A n \in Proc : n \notin D => u.proc[n] = w.proc[n] /\ (Buried(u, n) <=> Buried(w, n))
    /\ u.flags["BURIED"] \subseteq w.flags["BURIED"]
    /\ VarTrue(w, UnburyOnEdit) => \A n \in D : ~Buried(u, n)
    /\ ~VarTrue(w, UnburyOnEdit) => u.flags["BURIED"] = w.flags["BURIED"]

LEMMA PrintedKinds ==
  ASSUME NEW i \in Printed
  PROVE  i \in Instruction /\ i.op \in {"to", "make", "pprop"}
BY DEF Instruction, Printed, Tos, Makes, Pprops

LEMMA LoadedType ==
  ASSUME NEW w \in Workspaces, NEW text \in Seq(Instruction)
  PROVE  LoadText(w, text) \in Workspaces
BY LoadFollows

LEMMA UptoIs ==
  ASSUME NEW S, NEW text \in Seq(S)
  PROVE  /\ \A k \in 0 .. Len(text) : SubSeq(text, 1, k) \in Seq(S)
         /\ SubSeq(text, 1, 0) = <<>> /\ SubSeq(text, 1, Len(text)) = text /\ Len(text) \in Nat
<1>1. SubSeq(text, 1, Len(text)) = text
  BY SubSeqFull
<1>2. SubSeq(text, 1, 0) = <<>>
  BY SubSeqEmpty
<1> QED
  BY <1>1, <1>2

LEMMA DefinedStep ==
  ASSUME NEW w, NEW text, NEW k \in Nat \ {0}
  PROVE  DefinedBy(text, w, k) = IF text[k].op = "to" /\ ~LoadText(w, SubSeq(text, 1, k)).err
                                 THEN DefinedBy(text, w, k - 1) \cup {text[k].name} ELSE DefinedBy(text, w, k - 1)
<1>1. 1 .. k = (1 .. k - 1) \cup {k}
  OBVIOUS
<1> DEFINE P(j) == text[j].op = "to" /\ ~LoadText(w, SubSeq(text, 1, j)).err
<1>2. {j \in 1 .. k : P(j)} = {j \in 1 .. k - 1 : P(j)} \cup (IF P(k) THEN {k} ELSE {})
  <2> HIDE DEF P
  <2> QED
    BY <1>1
<1>3. /\ DefinedBy(text, w, k) = {text[i].name : i \in {j \in 1 .. k : P(j)}}
      /\ DefinedBy(text, w, k - 1) = {text[i].name : i \in {j \in 1 .. k - 1 : P(j)}}
  BY DEF DefinedBy
<1>4. DefinedBy(text, w, k) = DefinedBy(text, w, k - 1) \cup {text[i].name : i \in IF P(k) THEN {k} ELSE {}}
  <2> HIDE DEF P
  <2> QED
    BY <1>2, <1>3
<1>5. CASE P(k)
  <2>1. DefinedBy(text, w, k) = DefinedBy(text, w, k - 1) \cup {text[k].name}
    <3> HIDE DEF P
    <3> QED
      BY <1>4, <1>5
  <2> QED
    BY <2>1, <1>5
<1>6. CASE ~P(k)
  <2>1. DefinedBy(text, w, k) = DefinedBy(text, w, k - 1)
    <3> HIDE DEF P
    <3> QED
      BY <1>4, <1>6
  <2> QED
    BY <2>1, <1>6
<1> QED
  BY <1>5, <1>6

\* One instruction more.  A value changes what TO does, so the procedures must come first.
LEMMA EffectStep ==
  ASSUME NEW w \in Workspaces, NEW u \in Workspaces, NEW D, NEW i \in Printed, Effect(w, u, D),
         i.op = "to" => u.val = w.val
  PROVE  LET v == Run(u, i, "file")
         IN  /\ Effect(w, v, IF i.op = "to" /\ ~v.err THEN D \cup {i.name} ELSE D)
             /\ i.op = "to" => v.val = w.val
             /\ u.err => v.err
<1> DEFINE v == Run(u, i, "file")
<1>0. i \in Instruction /\ i.op \in {"to", "make", "pprop"}
  BY PrintedKinds
<1>1. CASE u.err
  <2>1. v = u
    BY <1>0, <1>1, RunIs
  <2> HIDE DEF v
  <2> QED
    BY <1>1, <2>1 DEF v
<1>2. CASE ~u.err /\ i.op = "to"
  <2> DEFINE n == i.name
             b == i.what
  <2>1. n \in Proc /\ b \in Bodies /\ v = To(u, n, b, "file")
    BY <1>0, <1>2, RunIs, InstructionKinds DEF Given, Bodies
  <2> HIDE DEF v, n, b
  <2>2. /\ v \in Workspaces /\ v.val = u.val /\ v.plist = u.plist
        /\ \A m \in Proc : m # n => v.proc[m] = u.proc[m]
        /\ u.proc[n] = PRIM => v = Fail(u)
        /\ u.proc[n] # PRIM => v.err = u.err /\ v.proc[n] = b
        /\ u.proc[n] # PRIM /\ VarTrue(u, UnburyOnEdit) => v.flags["BURIED"] = u.flags["BURIED"] \ {<<"proc", n>>}
        /\ ~VarTrue(u, UnburyOnEdit) => v.flags["BURIED"] = u.flags["BURIED"]
    BY <2>1, ToFromFile
  <2>3. CASE u.proc[n] = PRIM
    <3>1. v.err /\ v.proc = u.proc /\ v.flags = u.flags
      BY <2>2, <2>3, FailType
    <3>2. Effect(w, v, D)
      BY <2>2, <3>1 DEF Effect, Buried
    <3> QED
      BY <1>2, <2>2, <3>1, <3>2 DEF v
  <2>4. CASE u.proc[n] # PRIM
    <3>1. ~v.err /\ v.val = w.val
      BY <1>2, <2>2, <2>4
    <3>2. VarTrue(u, UnburyOnEdit) <=> VarTrue(w, UnburyOnEdit)
      BY <1>2 DEF VarTrue
    <3>3. Effect(w, v, D \cup {n})
      BY <2>1, <2>2, <2>4, <3>2 DEF Effect, Buried
    <3> QED
      BY <1>2, <3>1, <3>3 DEF v, n
  <2> QED
    BY <2>3, <2>4
<1>3. CASE ~u.err /\ i.op = "make"
  <2>1. i.name \in Var /\ i.what \in Value /\ v = Make(u, i.name, i.what)
    BY <1>0, <1>3, RunIs, InstructionKinds
  <2> HIDE DEF v
  <2>2. v \in Workspaces /\ v.proc = u.proc /\ v.flags = u.flags
    BY <2>1, MakeType
  <2>3. Effect(w, v, D)
    BY <2>2 DEF Effect, Buried
  <2> QED
    BY <1>3, <2>3 DEF v
<1>4. CASE ~u.err /\ i.op = "pprop"
  <2>1. i.name \in Plist /\ i.what \in Prop /\ v = Pprop(u, i.name, i.what)
    BY <1>0, <1>4, RunIs, InstructionKinds
  <2> HIDE DEF v
  <2>2. v \in Workspaces /\ v.proc = u.proc /\ v.flags = u.flags
    BY <2>1, PpropType
  <2>3. Effect(w, v, D)
    BY <2>2 DEF Effect, Buried
  <2> QED
    BY <1>4, <2>3 DEF v
<1> QED
  BY <1>0, <1>1, <1>2, <1>3, <1>4

LEMMA LoadEffect ==
  ASSUME NEW w \in Workspaces, NEW text \in Texts
  PROVE  Effect(w, LoadText(w, text), Defined(text, w))
<1>0. text \in Seq(Printed) /\ text \in Seq(Instruction) /\ Len(text) \in Nat /\ Ordered(text)
      /\ \A k \in 1 .. Len(text) : text[k] \in Printed
  BY DEF Texts, Instruction
<1> DEFINE L(k) == LoadText(w, SubSeq(text, 1, k))
           D(k) == DefinedBy(text, w, k)
           Holds(k) == Effect(w, L(k), D(k)) /\ ((\A j \in 1 .. k : text[j].op = "to") => L(k).val = w.val)
           T == {k \in 0 .. Len(text) : Holds(k)}
<1>1. \A k \in 0 .. Len(text) : L(k) \in Workspaces
  BY <1>0, UptoIs, LoadedType
<1>2. Holds(0)
  <2>1. L(0) = w
    BY <1>0, UptoIs, LoadNothing
  <2>2. D(0) = {}
    BY DEF DefinedBy
  <2> HIDE DEF L, D
  <2>3. Effect(w, L(0), D(0))
    BY <2>1, <2>2 DEF Effect
  <2> QED
    BY <2>1, <2>3
<1>3. ASSUME NEW k \in 1 .. Len(text), Holds(k - 1) PROVE Holds(k)
  <2>1. L(k) = Run(L(k - 1), text[k], "file")
    BY <1>0, LoadPrefix
  <2>2. text[k].op = "to" => \A j \in 1 .. k - 1 : text[j].op = "to"
    BY <1>0 DEF Ordered
  <2>3. L(k - 1) \in Workspaces /\ text[k] \in Printed
    BY <1>0, <1>1
  <2>4. D(k) = IF text[k].op = "to" /\ ~L(k).err THEN D(k - 1) \cup {text[k].name} ELSE D(k - 1)
    BY DefinedStep
  <2> HIDE DEF L, D
  <2>5. Effect(w, L(k - 1), D(k - 1)) /\ (text[k].op = "to" => L(k - 1).val = w.val)
    BY <1>3, <2>2
  <2>6. LET v == Run(L(k - 1), text[k], "file")
        IN  /\ Effect(w, v, IF text[k].op = "to" /\ ~v.err THEN D(k - 1) \cup {text[k].name} ELSE D(k - 1))
            /\ text[k].op = "to" => v.val = w.val
            /\ L(k - 1).err => v.err
    BY <2>3, <2>5, EffectStep
  <2>7. Effect(w, L(k), D(k)) /\ (text[k].op = "to" => L(k).val = w.val)
    BY <2>1, <2>4, <2>6
  <2>8. (\A j \in 1 .. k : text[j].op = "to") => text[k].op = "to"
    BY <1>0
  <2> QED
    BY <2>7, <2>8
<1>4. Holds(Len(text))
  <2> HIDE DEF Holds
  <2>1. 0 \in T /\ \A k \in 1 .. Len(text) : k - 1 \in T => k \in T
    BY <1>0, <1>2, <1>3
  <2> HIDE DEF T
  <2>2. \A k \in 0 .. Len(text) : k \in T
    BY <1>0, <2>1, Upward
  <2> QED
    BY <1>0, <2>2 DEF T
<1>5. L(Len(text)) = LoadText(w, text)
  BY <1>0, UptoIs
<1>6. D(Len(text)) = Defined(text, w)
  BY <1>0 DEF DefinedBy, Defined
<1> QED
  <2> HIDE DEF L, D
  <2> QED
    BY <1>4, <1>5, <1>6

-----------------------------------------------------------------------------
(* A text that says what is there changes nothing. *)

Says(w, i) ==
    /\ i.op = "to" => i.what = w.proc[i.name] \/ (w.proc[i.name] = UNDEFINED /\ i.name \notin Library /\ i.what = Empty)
    /\ i.op = "make" => i.what = w.val[i.name]
    /\ i.op = "pprop" => \E j \in 1 .. Len(w.plist[i.name]) : w.plist[i.name][j] = i.what
Told(w, text) == \A k \in 1 .. Len(text) : Says(w, text[k])
Kept(w, u) ==
    /\ u \in Workspaces /\ u.val = w.val /\ u.plist = w.plist
    /\ \A n \in Proc : u.proc[n] = w.proc[n] \/ (w.proc[n] = UNDEFINED /\ n \notin Library /\ u.proc[n] = Empty)

LEMMA PutKept ==
  ASSUME NEW s \in Plists, NEW j \in 1 .. Len(s)
  PROVE  Put(s, s[j]) = s
<1>1. s \in Seq(Prop) /\ DOMAIN s = 1 .. Len(s) /\ \A i, k \in 1 .. Len(s) : s[i][1] = s[k][1] => i = k
  BY DEF Plists
<1>2. \E i \in DOMAIN s : s[i][1] = s[j][1]
  BY <1>1
<1>3. Put(s, s[j]) = [i \in 1 .. Len(s) |-> IF s[i][1] = s[j][1] THEN s[j] ELSE s[i]]
  BY <1>1, <1>2 DEF Put
<1>4. \A i \in 1 .. Len(s) : (IF s[i][1] = s[j][1] THEN s[j] ELSE s[i]) = s[i]
  BY <1>1
<1>5. s = [i \in 1 .. Len(s) |-> s[i]]
  BY <1>1
<1> QED
  BY <1>3, <1>4, <1>5, Zenon

LEMMA KeptStep ==
  ASSUME NEW w \in Workspaces, NEW u, Kept(w, u), NEW i \in Printed, Says(w, i)
  PROVE  Kept(w, Run(u, i, "file"))
<1> DEFINE v == Run(u, i, "file")
<1>0. i \in Instruction /\ i.op \in {"to", "make", "pprop"} /\ u \in Workspaces /\ u.val = w.val /\ u.plist = w.plist
  BY PrintedKinds DEF Kept
<1>1. CASE u.err
  BY <1>0, <1>1, RunIs
<1>2. CASE ~u.err /\ i.op = "to"
  <2> DEFINE n == i.name
             b == i.what
  <2>1. n \in Proc /\ b \in Bodies /\ v = To(u, n, b, "file")
    BY <1>0, <1>2, RunIs, InstructionKinds DEF Given, Bodies
  <2>2. b = w.proc[n] \/ (w.proc[n] = UNDEFINED /\ n \notin Library /\ b = Empty)
    BY <1>2 DEF Says
  <2> HIDE DEF v, n, b
  <2>3. /\ v \in Workspaces /\ v.val = u.val /\ v.plist = u.plist
        /\ \A m \in Proc : m # n => v.proc[m] = u.proc[m]
        /\ u.proc[n] = PRIM => v = Fail(u)
        /\ u.proc[n] # PRIM => v.err = u.err /\ v.proc[n] = b
    BY <1>0, <2>1, ToFromFile
  <2>4. Fail(u).proc = u.proc
    BY <1>0, FailType
  <2>5. Kept(w, v)
    BY <1>0, <2>2, <2>3, <2>4 DEF Kept
  <2> QED
    BY <2>5 DEF v
<1>3. CASE ~u.err /\ i.op = "make"
  <2>1. i.name \in Var /\ i.what \in Value /\ v = Make(u, i.name, i.what)
    BY <1>0, <1>3, RunIs, InstructionKinds
  <2>2. i.what = w.val[i.name]
    BY <1>3 DEF Says
  <2>3. v \in Workspaces /\ v.proc = u.proc /\ v.plist = u.plist /\ v.val = [u.val EXCEPT ![i.name] = i.what]
    BY <1>0, <2>1, MakeType
  <2>4. u.val \in [Var -> Value \cup {UNBOUND}]
    BY <1>0 DEF Workspaces
  <2> HIDE DEF v
  <2>5. v.val = w.val
    BY <1>0, <2>1, <2>2, <2>3, <2>4
  <2>6. Kept(w, v)
    BY <1>0, <2>3, <2>5 DEF Kept
  <2> QED
    BY <2>6 DEF v
<1>4. CASE ~u.err /\ i.op = "pprop"
  <2> DEFINE s == w.plist[i.name]
  <2>1. i.name \in Plist /\ i.what \in Prop /\ v = Pprop(u, i.name, i.what)
    BY <1>0, <1>4, RunIs, InstructionKinds
  <2>2. PICK j \in 1 .. Len(s) : s[j] = i.what
    BY <1>4 DEF Says
  <2>3. v \in Workspaces /\ v.proc = u.proc /\ v.val = u.val /\ v.plist = [u.plist EXCEPT ![i.name] = Put(s, i.what)]
    BY <1>0, <2>1, PpropType
  <2>4. u.plist \in [Plist -> Plists] /\ s \in Plists
    BY <1>0, <2>1 DEF Workspaces
  <2>5. Put(s, i.what) = s
    BY <2>2, <2>4, PutKept
  <2> HIDE DEF v
  <2>6. v.plist = w.plist
    BY <1>0, <2>3, <2>4, <2>5
  <2>7. Kept(w, v)
    BY <1>0, <2>3, <2>6 DEF Kept
  <2> QED
    BY <2>7 DEF v
<1> QED
  BY <1>0, <1>1, <1>2, <1>3, <1>4

LEMMA LoadKeeps ==
  ASSUME NEW w \in Workspaces, NEW text \in Seq(Printed), Told(w, text)
  PROVE  Kept(w, LoadText(w, text))
<1>0. text \in Seq(Instruction) /\ Len(text) \in Nat /\ \A k \in 1 .. Len(text) : text[k] \in Printed
  BY DEF Instruction
<1> DEFINE L(k) == LoadText(w, SubSeq(text, 1, k))
           T == {k \in 0 .. Len(text) : Kept(w, L(k))}
<1>1. Kept(w, L(0))
  <2>1. L(0) = w
    BY <1>0, UptoIs, LoadNothing
  <2> HIDE DEF L
  <2> QED
    BY <2>1 DEF Kept
<1>2. ASSUME NEW k \in 1 .. Len(text), Kept(w, L(k - 1)) PROVE Kept(w, L(k))
  <2>1. L(k) = Run(L(k - 1), text[k], "file")
    BY <1>0, LoadPrefix
  <2>2. Says(w, text[k])
    BY DEF Told
  <2> HIDE DEF L
  <2> QED
    BY <1>0, <1>2, <2>1, <2>2, KeptStep
<1>3. L(Len(text)) = LoadText(w, text)
  BY <1>0, UptoIs
<1> HIDE DEF L
<1>4. 0 \in T /\ \A k \in 1 .. Len(text) : k - 1 \in T => k \in T
  BY <1>0, <1>1, <1>2
<1>5. \A k \in 0 .. Len(text) : k \in T
  <2> HIDE DEF T
  <2> QED
    BY <1>0, <1>4, Upward
<1> QED
  BY <1>0, <1>3, <1>5

-----------------------------------------------------------------------------
(* The text of definitions. *)

Prints == [w : Workspaces, text : Seq(Printed)]
AllTo(text) == \A k \in 1 .. Len(text) : text[k].op = "to"

\* How printing changes a workspace: a procedure that is not defined may come from the library, buried.
Autoloads(w, u) ==
    /\ u \in Workspaces /\ u.val = w.val /\ u.plist = w.plist
    /\ \A n \in Proc : \/ u.proc[n] = w.proc[n] /\ (Buried(u, n) <=> Buried(w, n))
                       \/ w.proc[n] = UNDEFINED /\ n \in Library /\ u.proc[n] = LibBody /\ Buried(u, n)
Shown(w, r) == r \in Prints /\ Autoloads(w, r.w) /\ Told(r.w, r.text)
\* What follows the procedures in a text is no procedure.
Continues(text, longer) ==
    /\ Len(text) <= Len(longer) /\ \A k \in 1 .. Len(text) : longer[k] = text[k]
    /\ \A k \in Len(text) + 1 .. Len(longer) : longer[k].op # "to"

LEMMA PrintsAre == ASSUME NEW r \in Prints PROVE r.w \in Workspaces /\ r.text \in Seq(Printed) /\ Len(r.text) \in Nat
BY DEF Prints

LEMMA PrintsMade ==
  ASSUME NEW w \in Workspaces, NEW t \in Seq(Printed)
  PROVE  [w |-> w, text |-> t] \in Prints /\ [w |-> w, text |-> t].w = w /\ [w |-> w, text |-> t].text = t
BY DEF Prints

LEMMA ToldAppend ==
  ASSUME NEW w, NEW t \in Seq(Printed), NEW i \in Printed, Told(w, t), Says(w, i)
  PROVE  Append(t, i) \in Seq(Printed) /\ Told(w, Append(t, i))
<1> DEFINE s == Append(t, i)
<1>1. s \in Seq(Printed) /\ Len(t) \in Nat /\ Len(s) = Len(t) + 1 /\ (\A k \in 1 .. Len(t) : s[k] = t[k]) /\ s[Len(t) + 1] = i
  OBVIOUS
<1> HIDE DEF s
<1>2. Told(w, s)
  BY <1>1 DEF Told
<1> QED
  BY <1>1, <1>2 DEF s

LEMMA AutoloadsFail ==
  ASSUME NEW w, NEW u, Autoloads(w, u)
  PROVE  Autoloads(w, Fail(u))
<1>1. u \in Workspaces
  BY DEF Autoloads
<1>2. Fail(u) \in Workspaces /\ Fail(u).proc = u.proc /\ Fail(u).val = u.val /\ Fail(u).plist = u.plist /\ Fail(u).flags = u.flags
  BY <1>1, FailType
<1> QED
  BY <1>2 DEF Autoloads, Buried

LEMMA ToldSame ==
  ASSUME NEW w, NEW u, NEW t, Told(w, t), u.proc = w.proc, u.val = w.val, u.plist = w.plist
  PROVE  Told(u, t)
BY DEF Told, Says

LEMMA CheckShows ==
  ASSUME NEW w \in Workspaces, NEW u, NEW t \in Seq(Printed), NEW n \in Proc, Autoloads(w, u), ~u.err, Told(u, t)
  PROVE  /\ Autoloads(w, CheckLibrary(u, n)) /\ Told(CheckLibrary(u, n), t)
         /\ CheckLibrary(u, n).proc[n] = UNDEFINED => n \notin Library
<1> DEFINE v == CheckLibrary(u, n)
<1>0. u \in Workspaces
  BY DEF Autoloads
<1>1. /\ v \in Workspaces /\ v.val = u.val /\ v.plist = u.plist /\ ~v.err
      /\ \A m \in Proc : m # n => v.proc[m] = u.proc[m]
      /\ u.proc[n] = UNDEFINED /\ n \in Library =>
           v.proc[n] = LibBody /\ v.flags["BURIED"] = u.flags["BURIED"] \cup {<<"proc", n>>}
      /\ ~(u.proc[n] = UNDEFINED /\ n \in Library) => v = u
  BY <1>0, CheckLibraryIs
<1> HIDE DEF v
<1>2. LibBody # UNDEFINED /\ Empty # UNDEFINED /\ \A b \in Given : b # UNDEFINED
  BY WorkspaceAssumption DEF Given
<1>3. CASE u.proc[n] = UNDEFINED /\ n \in Library
  <2>1. Autoloads(w, v)
    <3>1. u.val = w.val /\ u.plist = w.plist
          /\ \A m \in Proc : \/ u.proc[m] = w.proc[m] /\ (Buried(u, m) <=> Buried(w, m))
                             \/ w.proc[m] = UNDEFINED /\ m \in Library /\ u.proc[m] = LibBody /\ Buried(u, m)
      BY DEF Autoloads
    <3>2. \A m \in Proc : m # n => v.proc[m] = u.proc[m] /\ (Buried(v, m) <=> Buried(u, m))
      BY <1>1, <1>3 DEF Buried
    <3>3. w.proc[n] = UNDEFINED /\ v.proc[n] = LibBody /\ Buried(v, n)
      BY <1>1, <1>2, <1>3, <3>1 DEF Buried
    <3> QED
      BY <1>1, <1>3, <3>1, <3>2, <3>3 DEF Autoloads
  <2>2. ASSUME NEW k \in 1 .. Len(t) PROVE Says(v, t[k])
    <3>1. Says(u, t[k]) /\ t[k] \in Printed
      BY DEF Told
    <3>2. t[k].op = "to" => t[k].name \in Proc /\ t[k].what \in Given
      BY <3>1, PrintedKinds, InstructionKinds
    <3>3. t[k].op = "to" => t[k].name # n
      BY <1>2, <1>3, <3>1, <3>2 DEF Says
    <3> QED
      BY <1>1, <3>1, <3>2, <3>3 DEF Says
  <2> QED
    BY <1>1, <1>2, <1>3, <2>1, <2>2 DEF Told, v
<1>4. CASE ~(u.proc[n] = UNDEFINED /\ n \in Library)
  <2>1. v = u
    BY <1>1, <1>4
  <2> QED
    BY <1>4, <2>1 DEF v
<1> QED
  BY <1>3, <1>4

LEMMA PoProcShows ==
  ASSUME NEW w \in Workspaces, NEW r, NEW n \in Proc, NEW edit \in BOOLEAN, Shown(w, r)
  PROVE  Shown(w, PoProc(r, n, edit)) /\ (AllTo(r.text) => AllTo(PoProc(r, n, edit).text))
<1>0. r \in Prints /\ r.w \in Workspaces /\ r.text \in Seq(Printed) /\ Autoloads(w, r.w) /\ Told(r.w, r.text)
  BY DEF Shown, Prints
<1>1. CASE r.w.err
  BY <1>1 DEF PoProc
<1>2. CASE ~r.w.err
  <2> DEFINE v == CheckLibrary(r.w, n)
             q == PoProc(r, n, edit)
  <2>1. Autoloads(w, v) /\ Told(v, r.text) /\ (v.proc[n] = UNDEFINED => n \notin Library) /\ v \in Workspaces
    BY <1>0, <1>2, CheckShows DEF Autoloads
  <2>2. q = CASE v.proc[n] = UNDEFINED /\ edit -> [w |-> v, text |-> Append(r.text, Item("to", n, Empty))]
              [] v.proc[n] = PRIM \/ (v.proc[n] = UNDEFINED /\ ~edit) -> [w |-> Fail(v), text |-> r.text]
              [] OTHER -> [w |-> v, text |-> Append(r.text, Item("to", n, v.proc[n]))]
    BY <1>2 DEF PoProc
  <2> HIDE DEF v, q
  <2>3. ASSUME NEW b \in Given, Says(v, Item("to", n, b)), q = [w |-> v, text |-> Append(r.text, Item("to", n, b))]
        PROVE  Shown(w, q) /\ (AllTo(r.text) => AllTo(q.text))
    <3> DEFINE i == Item("to", n, b)
               t == Append(r.text, i)
    <3>1. i \in Printed /\ i.op = "to"
      BY ItemMade, ItemIs DEF Printed
    <3>2. t \in Seq(Printed) /\ Told(v, t)
      <4> HIDE DEF i
      <4> QED
        BY <1>0, <2>1, <2>3, <3>1, ToldAppend DEF i
    <3>3. AllTo(r.text) => AllTo(t)
      <4> HIDE DEF i
      <4> QED
        BY <1>0, <3>1 DEF AllTo
    <3>4. q = [w |-> v, text |-> t]
      BY <2>3
    <3> HIDE DEF t
    <3> QED
      BY <2>1, <3>2, <3>3, <3>4, PrintsMade DEF Shown
  <2>4. CASE v.proc[n] = UNDEFINED /\ edit
    <3>1. Says(v, Item("to", n, Empty))
      BY <2>1, <2>4, ItemIs DEF Says
    <3>2. q = [w |-> v, text |-> Append(r.text, Item("to", n, Empty))]
      BY <2>2, <2>4, WorkspaceAssumption
    <3> QED
      BY <2>3, <3>1, <3>2 DEF Given, q
  <2>5. CASE v.proc[n] = PRIM \/ (v.proc[n] = UNDEFINED /\ ~edit)
    <3>1. q = [w |-> Fail(v), text |-> r.text]
      BY <2>2, <2>5, WorkspaceAssumption
    <3>2. Autoloads(w, Fail(v))
      BY <2>1, AutoloadsFail
    <3>3. Told(Fail(v), r.text) /\ Fail(v) \in Workspaces
      BY <2>1, FailType, ToldSame
    <3> QED
      BY <1>0, <3>1, <3>2, <3>3, PrintsMade DEF Shown, q
  <2>6. CASE v.proc[n] \notin {PRIM, UNDEFINED}
    <3>1. q = [w |-> v, text |-> Append(r.text, Item("to", n, v.proc[n]))]
      BY <2>2, <2>6
    <3>2. v.proc[n] \in Given
      BY <2>1, <2>6 DEF Workspaces, Bodies, Given
    <3>3. Says(v, Item("to", n, v.proc[n]))
      BY ItemIs DEF Says
    <3> QED
      BY <2>3, <3>1, <3>2, <3>3 DEF q
  <2> QED
    BY <2>4, <2>5, <2>6
<1> QED
  BY <1>1, <1>2

LEMMA PoVarShows ==
  ASSUME NEW w \in Workspaces, NEW r, NEW n \in Var, NEW edit \in BOOLEAN, Shown(w, r)
  PROVE  /\ Shown(w, PoVar(r, n, edit))
         /\ \A t : Continues(t, r.text) /\ Len(t) \in Nat => Continues(t, PoVar(r, n, edit).text)
<1>0. /\ r \in Prints /\ r.w \in Workspaces /\ r.text \in Seq(Printed) /\ Len(r.text) \in Nat
      /\ Autoloads(w, r.w) /\ Told(r.w, r.text)
  BY DEF Shown, Prints
<1>1. CASE r.w.err \/ (r.w.val[n] = UNBOUND /\ edit)
  BY <1>1 DEF PoVar
<1>2. CASE ~r.w.err /\ r.w.val[n] = UNBOUND /\ ~edit
  <2>1. PoVar(r, n, edit) = [w |-> Fail(r.w), text |-> r.text]
    BY <1>0, <1>2 DEF PoVar, Prints
  <2>2. Autoloads(w, Fail(r.w))
    BY <1>0, AutoloadsFail
  <2>3. Told(Fail(r.w), r.text) /\ Fail(r.w) \in Workspaces
    BY <1>0, FailType, ToldSame
  <2> QED
    BY <1>0, <2>1, <2>2, <2>3, PrintsMade DEF Shown
<1>3. CASE ~r.w.err /\ r.w.val[n] # UNBOUND
  <2> DEFINE i == Item("make", n, r.w.val[n])
             s == Append(r.text, i)
  <2>1. PoVar(r, n, edit) = [w |-> r.w, text |-> s]
    BY <1>0, <1>3 DEF PoVar, Prints
  <2>2. r.w.val[n] \in Value
    BY <1>0, <1>3 DEF Workspaces
  <2>3. i \in Printed /\ i.op = "make" /\ Says(r.w, i)
    BY <2>2, ItemMade, ItemIs DEF Printed, Says
  <2> HIDE DEF i
  <2>4. s \in Seq(Printed) /\ Told(r.w, s)
    BY <1>0, <2>3, ToldAppend
  <2>5. \A t : Continues(t, r.text) /\ Len(t) \in Nat => Continues(t, s)
    <3>1. Len(s) = Len(r.text) + 1 /\ (\A k \in 1 .. Len(r.text) : s[k] = r.text[k]) /\ s[Len(r.text) + 1] = i
      BY <1>0, <2>3
    <3> HIDE DEF s
    <3> QED
      BY <1>0, <2>3, <3>1 DEF Continues
  <2> HIDE DEF s
  <2> QED
    BY <1>0, <2>1, <2>4, <2>5, PrintsMade DEF Shown
<1> QED
  BY <1>1, <1>2, <1>3

\* The instructions that make a property list.
Pairs(n, s) == [k \in 1 .. Len(s) |-> Item("pprop", n, s[k])]

LEMMA PairsAre ==
  ASSUME NEW n \in Plist, NEW s \in Plists
  PROVE  /\ Pairs(n, s) \in Seq(Printed) /\ Len(Pairs(n, s)) = Len(s) /\ Len(s) \in Nat
         /\ \A k \in 1 .. Len(s) : Pairs(n, s)[k] = Item("pprop", n, s[k]) /\ s[k] \in Prop
<1>1. \A k \in 1 .. Len(s) : Item("pprop", n, s[k]) \in Printed /\ s[k] \in Prop
  BY ItemMade DEF Plists, Printed
<1>2. Len(s) \in Nat
  BY DEF Plists
<1> QED
  BY <1>1, <1>2 DEF Pairs

LEMMA PoPlistShows ==
  ASSUME NEW w \in Workspaces, NEW r, NEW n \in Plist, Shown(w, r)
  PROVE  /\ Shown(w, PoPlist(r, n))
         /\ \A t : Continues(t, r.text) /\ Len(t) \in Nat => Continues(t, PoPlist(r, n).text)
         /\ ~r.w.err => PoPlist(r, n) = [w |-> r.w, text |-> r.text \o Pairs(n, r.w.plist[n])]
<1>0. /\ r \in Prints /\ r.w \in Workspaces /\ r.text \in Seq(Printed) /\ Len(r.text) \in Nat
      /\ Autoloads(w, r.w) /\ Told(r.w, r.text)
  BY DEF Shown, Prints
<1>1. CASE r.w.err
  BY <1>1 DEF PoPlist
<1>2. CASE ~r.w.err
  <2> DEFINE s == r.w.plist[n]
             ps == Pairs(n, s)
             u == r.text \o ps
  <2>1. s \in Plists
    BY <1>0 DEF Workspaces
  <2>2. PoPlist(r, n) = [w |-> r.w, text |-> u]
    <3>1. DOMAIN s = 1 .. Len(s)
      BY <2>1 DEF Plists
    <3>2. PoPlist(r, n) = [r EXCEPT !.text = @ \o [k \in DOMAIN s |-> Item("pprop", n, s[k])]]
      BY <1>2 DEF PoPlist
    <3>3. ps = [k \in DOMAIN s |-> Item("pprop", n, s[k])]
      BY <3>1 DEF Pairs
    <3> HIDE DEF s, ps
    <3>4. PoPlist(r, n) = [r EXCEPT !.text = r.text \o ps]
      BY <3>2, <3>3
    <3> QED
      BY <1>0, <3>4 DEF Prints
  <2>3. ps \in Seq(Printed) /\ Len(ps) = Len(s) /\ Len(s) \in Nat /\ \A k \in 1 .. Len(s) : ps[k] = Item("pprop", n, s[k])
    BY <2>1, PairsAre
  <2>4. \A k \in 1 .. Len(s) : Says(r.w, Item("pprop", n, s[k])) /\ Item("pprop", n, s[k]).op = "pprop"
    BY ItemIs DEF Says
  <2>5. /\ u \in Seq(Printed) /\ Len(u) = Len(r.text) + Len(s) /\ \A k \in 1 .. Len(r.text) : u[k] = r.text[k]
        /\ \A k \in Len(r.text) + 1 .. Len(u) : u[k] = ps[k - Len(r.text)] /\ k - Len(r.text) \in 1 .. Len(s)
    <3> HIDE DEF ps, s
    <3> QED
      BY <1>0, <2>3
  <2> HIDE DEF u, ps, s
  <2>6. ASSUME NEW k \in 1 .. Len(u) PROVE Says(r.w, u[k]) /\ (k > Len(r.text) => u[k].op # "to")
    <3>1. CASE k \in 1 .. Len(r.text)
      <4>1. u[k] = r.text[k] /\ Says(r.w, r.text[k]) /\ ~(k > Len(r.text))
        BY <1>0, <2>5, <3>1 DEF Told
      <4> QED
        BY <4>1
    <3>2. CASE k \in Len(r.text) + 1 .. Len(u)
      <4>1. u[k] = Item("pprop", n, s[k - Len(r.text)]) /\ k - Len(r.text) \in 1 .. Len(s)
        BY <2>3, <2>5, <3>2
      <4> QED
        BY <2>4, <4>1
    <3>3. k \in 1 .. Len(r.text) \/ k \in Len(r.text) + 1 .. Len(u)
      BY <1>0, <2>3, <2>5
    <3> QED
      BY <3>1, <3>2, <3>3
  <2>7. Told(r.w, u)
    BY <2>6 DEF Told
  <2>8. ASSUME NEW t, Continues(t, r.text), Len(t) \in Nat PROVE Continues(t, u)
    <3>1. Len(t) <= Len(u) /\ \A k \in 1 .. Len(t) : u[k] = t[k]
      BY <1>0, <2>3, <2>5, <2>8 DEF Continues
    <3>2. \A k \in Len(t) + 1 .. Len(r.text) : u[k].op # "to"
      BY <1>0, <2>3, <2>5, <2>8 DEF Continues
    <3>3. \A k \in Len(t) + 1 .. Len(u) : k \in Len(t) + 1 .. Len(r.text) \/ (k > Len(r.text) /\ k \in 1 .. Len(u))
      BY <1>0, <2>3, <2>5, <2>8
    <3> QED
      BY <2>6, <3>1, <3>2, <3>3 DEF Continues
  <2>9. PoPlist(r, n).w = r.w /\ PoPlist(r, n).text = u /\ PoPlist(r, n) \in Prints
    BY <1>0, <2>2, <2>5, PrintsMade
  <2>10. Shown(w, PoPlist(r, n))
    BY <1>0, <2>7, <2>9 DEF Shown
  <2> QED
    BY <2>2, <2>8, <2>9, <2>10 DEF u, ps, s
<1> QED
  BY <1>1, <1>2


ShownBy(w) == {r \in Prints : Shown(w, r)}

\* The three parts of a text, one name after the other.
LEMMA PoProcsFollows ==
  ASSUME NEW w \in Workspaces, NEW r \in ShownBy(w), NEW names \in Seq(Proc), NEW edit \in BOOLEAN
  PROVE  \E f \in [0 .. Len(names) -> ShownBy(w)] :
            f[0] = r /\ (\A i \in 1 .. Len(names) : f[i] = PoProc(f[i - 1], names[i], edit)) /\ PoProcs(r, names, edit) = f[Len(names)]
<1> DEFINE n == Len(names)
           c == r
           Step(i, s) == PoProc(s, names[i], edit)
           Recursion(f) == f = [i \in 0 .. Len(names) |-> IF i = 0 THEN r ELSE The({PoProc(s, names[i], edit) : s \in {f[i - 1]}})]
           st == [i \in 1 .. n |-> [s \in ShownBy(w) |-> Step(i, s)]]
           g == CHOOSE f : Recursion(f)
<1>1. n \in Nat /\ c \in ShownBy(w) /\ \A i \in 1 .. n : \A s \in ShownBy(w) : Step(i, s) \in ShownBy(w)
  <2>1. n \in Nat /\ \A i \in 1 .. n : names[i] \in Proc
    OBVIOUS
  <2>2. \A q \in ShownBy(w) : \A k \in Proc : PoProc(q, k, edit) \in ShownBy(w)
    BY PoProcShows DEF ShownBy, Shown
  <2> QED
    BY <2>1, <2>2
<1>2. PICK f \in [0 .. n -> ShownBy(w)] : Follows(f, n, c, st)
  <2> HIDE DEF Step, n, c
  <2>1. st \in [1 .. n -> [ShownBy(w) -> ShownBy(w)]]
    BY <1>1
  <2> HIDE DEF st
  <2> QED
    BY <1>1, <2>1, RecursionExists
<1>3. \A i \in 0 .. n : f[i] = IF i = 0 THEN c ELSE Step(i, f[i - 1])
  <2> HIDE DEF Step, n, c
  <2>1. \A i \in 1 .. n : i - 1 \in 0 .. n /\ f[i - 1] \in ShownBy(w)
    BY <1>1
  <2>2. \A i \in 1 .. n : st[i][f[i - 1]] = Step(i, f[i - 1])
    BY <2>1
  <2> HIDE DEF st
  <2>3. \A i \in 0 .. n : i = 0 \/ i \in 1 .. n
    BY <1>1
  <2> QED
    BY <1>2, <2>2, <2>3 DEF Follows
<1>4. \E h : Recursion(h)
  <2>1. f = [i \in 0 .. n |-> f[i]]
    OBVIOUS
  <2>2. \A s : The({s}) = s
    BY TheOnly
  <2>3. \A i : The({PoProc(s, names[i], edit) : s \in {f[i - 1]}}) = Step(i, f[i - 1])
    BY <2>2, Zenon
  <2>4. f = [i \in 0 .. n |-> IF i = 0 THEN c ELSE The({PoProc(s, names[i], edit) : s \in {f[i - 1]}})]
    BY <1>3, <2>1, <2>3, Zenon
  <2> QED
    BY <2>4, Zenon
<1>5. Recursion(g)
  BY <1>4, Zenon
<1>6. PoProcs(r, names, edit) = g[n]
  BY Zenon DEF PoProcs
<1> HIDE DEF g
<1>7. g[0] = c /\ \A i \in 1 .. n : g[i] = Step(i, g[i - 1])
  <2>1. \A s : The({s}) = s
    BY TheOnly
  <2>2. \A i : The({PoProc(s, names[i], edit) : s \in {g[i - 1]}}) = Step(i, g[i - 1])
    BY <2>1, Zenon
  <2>3. \A i \in 0 .. n : g[i] = IF i = 0 THEN c ELSE The({PoProc(s, names[i], edit) : s \in {g[i - 1]}})
    BY <1>5, Zenon
  <2>4. \A i \in 0 .. n : g[i] = IF i = 0 THEN c ELSE Step(i, g[i - 1])
    BY <2>2, <2>3, Zenon
  <2> HIDE DEF n, c, Step
  <2> QED
    BY <1>1, <2>4
<1>8. g \in [0 .. n -> ShownBy(w)]
  <2> DEFINE T == {j \in 0 .. n : g[j] \in ShownBy(w)}
  <2>1. 0 \in T /\ \A i \in 1 .. n : i - 1 \in T => i \in T
    <3> HIDE DEF Step, n, c
    <3>1. 0 \in 0 .. n /\ \A i \in 1 .. n : i \in 0 .. n
      BY <1>1
    <3>2. g[0] \in ShownBy(w) /\ \A i \in 1 .. n : g[i - 1] \in ShownBy(w) => g[i] \in ShownBy(w)
      BY <1>1, <1>7
    <3> QED
      BY <3>1, <3>2
  <2>2. \A i \in 0 .. n : i \in T
    <3> HIDE DEF Step, n, c, T
    <3> QED
      BY <1>1, <2>1, Upward
  <2>3. g = [i \in 0 .. n |-> g[i]]
    BY <1>5, Zenon
  <2> HIDE DEF Step, n, c
  <2> QED
    BY <2>2, <2>3
<1> QED
  BY <1>6, <1>7, <1>8


LEMMA PoVarsFollows ==
  ASSUME NEW w \in Workspaces, NEW r \in ShownBy(w), NEW names \in Seq(Var), NEW edit \in BOOLEAN
  PROVE  \E f \in [0 .. Len(names) -> ShownBy(w)] :
            f[0] = r /\ (\A i \in 1 .. Len(names) : f[i] = PoVar(f[i - 1], names[i], edit)) /\ PoVars(r, names, edit) = f[Len(names)]
<1> DEFINE n == Len(names)
           c == r
           Step(i, s) == PoVar(s, names[i], edit)
           Recursion(f) == f = [i \in 0 .. Len(names) |-> IF i = 0 THEN r ELSE The({PoVar(s, names[i], edit) : s \in {f[i - 1]}})]
           st == [i \in 1 .. n |-> [s \in ShownBy(w) |-> Step(i, s)]]
           g == CHOOSE f : Recursion(f)
<1>1. n \in Nat /\ c \in ShownBy(w) /\ \A i \in 1 .. n : \A s \in ShownBy(w) : Step(i, s) \in ShownBy(w)
  <2>1. n \in Nat /\ \A i \in 1 .. n : names[i] \in Var
    OBVIOUS
  <2>2. \A q \in ShownBy(w) : \A k \in Var : PoVar(q, k, edit) \in ShownBy(w)
    BY PoVarShows DEF ShownBy, Shown
  <2> QED
    BY <2>1, <2>2
<1>2. PICK f \in [0 .. n -> ShownBy(w)] : Follows(f, n, c, st)
  <2> HIDE DEF Step, n, c
  <2>1. st \in [1 .. n -> [ShownBy(w) -> ShownBy(w)]]
    BY <1>1
  <2> HIDE DEF st
  <2> QED
    BY <1>1, <2>1, RecursionExists
<1>3. \A i \in 0 .. n : f[i] = IF i = 0 THEN c ELSE Step(i, f[i - 1])
  <2> HIDE DEF Step, n, c
  <2>1. \A i \in 1 .. n : i - 1 \in 0 .. n /\ f[i - 1] \in ShownBy(w)
    BY <1>1
  <2>2. \A i \in 1 .. n : st[i][f[i - 1]] = Step(i, f[i - 1])
    BY <2>1
  <2> HIDE DEF st
  <2>3. \A i \in 0 .. n : i = 0 \/ i \in 1 .. n
    BY <1>1
  <2> QED
    BY <1>2, <2>2, <2>3 DEF Follows
<1>4. \E h : Recursion(h)
  <2>1. f = [i \in 0 .. n |-> f[i]]
    OBVIOUS
  <2>2. \A s : The({s}) = s
    BY TheOnly
  <2>3. \A i : The({PoVar(s, names[i], edit) : s \in {f[i - 1]}}) = Step(i, f[i - 1])
    BY <2>2, Zenon
  <2>4. f = [i \in 0 .. n |-> IF i = 0 THEN c ELSE The({PoVar(s, names[i], edit) : s \in {f[i - 1]}})]
    BY <1>3, <2>1, <2>3, Zenon
  <2> QED
    BY <2>4, Zenon
<1>5. Recursion(g)
  BY <1>4, Zenon
<1>6. PoVars(r, names, edit) = g[n]
  BY Zenon DEF PoVars
<1> HIDE DEF g
<1>7. g[0] = c /\ \A i \in 1 .. n : g[i] = Step(i, g[i - 1])
  <2>1. \A s : The({s}) = s
    BY TheOnly
  <2>2. \A i : The({PoVar(s, names[i], edit) : s \in {g[i - 1]}}) = Step(i, g[i - 1])
    BY <2>1, Zenon
  <2>3. \A i \in 0 .. n : g[i] = IF i = 0 THEN c ELSE The({PoVar(s, names[i], edit) : s \in {g[i - 1]}})
    BY <1>5, Zenon
  <2>4. \A i \in 0 .. n : g[i] = IF i = 0 THEN c ELSE Step(i, g[i - 1])
    BY <2>2, <2>3, Zenon
  <2> HIDE DEF n, c, Step
  <2> QED
    BY <1>1, <2>4
<1>8. g \in [0 .. n -> ShownBy(w)]
  <2> DEFINE T == {j \in 0 .. n : g[j] \in ShownBy(w)}
  <2>1. 0 \in T /\ \A i \in 1 .. n : i - 1 \in T => i \in T
    <3> HIDE DEF Step, n, c
    <3>1. 0 \in 0 .. n /\ \A i \in 1 .. n : i \in 0 .. n
      BY <1>1
    <3>2. g[0] \in ShownBy(w) /\ \A i \in 1 .. n : g[i - 1] \in ShownBy(w) => g[i] \in ShownBy(w)
      BY <1>1, <1>7
    <3> QED
      BY <3>1, <3>2
  <2>2. \A i \in 0 .. n : i \in T
    <3> HIDE DEF Step, n, c, T
    <3> QED
      BY <1>1, <2>1, Upward
  <2>3. g = [i \in 0 .. n |-> g[i]]
    BY <1>5, Zenon
  <2> HIDE DEF Step, n, c
  <2> QED
    BY <2>2, <2>3
<1> QED
  BY <1>6, <1>7, <1>8


LEMMA PoPlistsFollows ==
  ASSUME NEW w \in Workspaces, NEW r \in ShownBy(w), NEW names \in Seq(Plist)
  PROVE  \E f \in [0 .. Len(names) -> ShownBy(w)] :
            f[0] = r /\ (\A i \in 1 .. Len(names) : f[i] = PoPlist(f[i - 1], names[i])) /\ PoPlists(r, names) = f[Len(names)]
<1> DEFINE n == Len(names)
           c == r
           Step(i, s) == PoPlist(s, names[i])
           Recursion(f) == f = [i \in 0 .. Len(names) |-> IF i = 0 THEN r ELSE The({PoPlist(s, names[i]) : s \in {f[i - 1]}})]
           st == [i \in 1 .. n |-> [s \in ShownBy(w) |-> Step(i, s)]]
           g == CHOOSE f : Recursion(f)
<1>1. n \in Nat /\ c \in ShownBy(w) /\ \A i \in 1 .. n : \A s \in ShownBy(w) : Step(i, s) \in ShownBy(w)
  <2>1. n \in Nat /\ \A i \in 1 .. n : names[i] \in Plist
    OBVIOUS
  <2>2. \A q \in ShownBy(w) : \A k \in Plist : PoPlist(q, k) \in ShownBy(w)
    BY PoPlistShows DEF ShownBy, Shown
  <2> QED
    BY <2>1, <2>2
<1>2. PICK f \in [0 .. n -> ShownBy(w)] : Follows(f, n, c, st)
  <2> HIDE DEF Step, n, c
  <2>1. st \in [1 .. n -> [ShownBy(w) -> ShownBy(w)]]
    BY <1>1
  <2> HIDE DEF st
  <2> QED
    BY <1>1, <2>1, RecursionExists
<1>3. \A i \in 0 .. n : f[i] = IF i = 0 THEN c ELSE Step(i, f[i - 1])
  <2> HIDE DEF Step, n, c
  <2>1. \A i \in 1 .. n : i - 1 \in 0 .. n /\ f[i - 1] \in ShownBy(w)
    BY <1>1
  <2>2. \A i \in 1 .. n : st[i][f[i - 1]] = Step(i, f[i - 1])
    BY <2>1
  <2> HIDE DEF st
  <2>3. \A i \in 0 .. n : i = 0 \/ i \in 1 .. n
    BY <1>1
  <2> QED
    BY <1>2, <2>2, <2>3 DEF Follows
<1>4. \E h : Recursion(h)
  <2>1. f = [i \in 0 .. n |-> f[i]]
    OBVIOUS
  <2>2. \A s : The({s}) = s
    BY TheOnly
  <2>3. \A i : The({PoPlist(s, names[i]) : s \in {f[i - 1]}}) = Step(i, f[i - 1])
    BY <2>2, Zenon
  <2>4. f = [i \in 0 .. n |-> IF i = 0 THEN c ELSE The({PoPlist(s, names[i]) : s \in {f[i - 1]}})]
    BY <1>3, <2>1, <2>3, Zenon
  <2> QED
    BY <2>4, Zenon
<1>5. Recursion(g)
  BY <1>4, Zenon
<1>6. PoPlists(r, names) = g[n]
  BY Zenon DEF PoPlists
<1> HIDE DEF g
<1>7. g[0] = c /\ \A i \in 1 .. n : g[i] = Step(i, g[i - 1])
  <2>1. \A s : The({s}) = s
    BY TheOnly
  <2>2. \A i : The({PoPlist(s, names[i]) : s \in {g[i - 1]}}) = Step(i, g[i - 1])
    BY <2>1, Zenon
  <2>3. \A i \in 0 .. n : g[i] = IF i = 0 THEN c ELSE The({PoPlist(s, names[i]) : s \in {g[i - 1]}})
    BY <1>5, Zenon
  <2>4. \A i \in 0 .. n : g[i] = IF i = 0 THEN c ELSE Step(i, g[i - 1])
    BY <2>2, <2>3, Zenon
  <2> HIDE DEF n, c, Step
  <2> QED
    BY <1>1, <2>4
<1>8. g \in [0 .. n -> ShownBy(w)]
  <2> DEFINE T == {j \in 0 .. n : g[j] \in ShownBy(w)}
  <2>1. 0 \in T /\ \A i \in 1 .. n : i - 1 \in T => i \in T
    <3> HIDE DEF Step, n, c
    <3>1. 0 \in 0 .. n /\ \A i \in 1 .. n : i \in 0 .. n
      BY <1>1
    <3>2. g[0] \in ShownBy(w) /\ \A i \in 1 .. n : g[i - 1] \in ShownBy(w) => g[i] \in ShownBy(w)
      BY <1>1, <1>7
    <3> QED
      BY <3>1, <3>2
  <2>2. \A i \in 0 .. n : i \in T
    <3> HIDE DEF Step, n, c, T
    <3> QED
      BY <1>1, <2>1, Upward
  <2>3. g = [i \in 0 .. n |-> g[i]]
    BY <1>5, Zenon
  <2> HIDE DEF Step, n, c
  <2> QED
    BY <2>2, <2>3
<1> QED
  BY <1>6, <1>7, <1>8

LEMMA PoProcsShow ==
  ASSUME NEW w \in Workspaces, NEW r, Shown(w, r), AllTo(r.text), NEW names \in Seq(Proc), NEW edit \in BOOLEAN
  PROVE  Shown(w, PoProcs(r, names, edit)) /\ AllTo(PoProcs(r, names, edit).text)
<1>1. r \in ShownBy(w)
  BY DEF ShownBy, Shown
<1>2. PICK f \in [0 .. Len(names) -> ShownBy(w)] :
         /\ f[0] = r /\ (\A i \in 1 .. Len(names) : f[i] = PoProc(f[i - 1], names[i], edit))
         /\ PoProcs(r, names, edit) = f[Len(names)]
  BY <1>1, PoProcsFollows
<1> DEFINE T == {i \in 0 .. Len(names) : AllTo(f[i].text)}
<1>3. Len(names) \in Nat /\ \A i \in 1 .. Len(names) : names[i] \in Proc
  OBVIOUS
<1>4. 0 \in T
  BY <1>2, <1>3
<1>5. \A i \in 1 .. Len(names) : i - 1 \in T => i \in T
  <2>1. ASSUME NEW i \in 1 .. Len(names), AllTo(f[i - 1].text) PROVE AllTo(f[i].text)
    <3>1. Shown(w, f[i - 1])
      <4>1. f[i - 1] \in ShownBy(w)
        BY <1>2, <1>3
      <4> QED
        BY <4>1 DEF ShownBy
    <3> QED
      BY <1>2, <1>3, <2>1, <3>1, PoProcShows
  <2> QED
    BY <2>1
<1> HIDE DEF T
<1>6. \A i \in 0 .. Len(names) : i \in T
  BY <1>3, <1>4, <1>5, Upward
<1>7. Len(names) \in T /\ f[Len(names)] \in ShownBy(w)
  BY <1>2, <1>3, <1>6
<1> QED
  BY <1>2, <1>7 DEF T, ShownBy

LEMMA PoVarsShow ==
  ASSUME NEW w \in Workspaces, NEW r, Shown(w, r), NEW t, Len(t) \in Nat, Continues(t, r.text),
         NEW names \in Seq(Var), NEW edit \in BOOLEAN
  PROVE  Shown(w, PoVars(r, names, edit)) /\ Continues(t, PoVars(r, names, edit).text)
<1>1. r \in ShownBy(w)
  BY DEF ShownBy, Shown
<1>2. PICK f \in [0 .. Len(names) -> ShownBy(w)] :
         /\ f[0] = r /\ (\A i \in 1 .. Len(names) : f[i] = PoVar(f[i - 1], names[i], edit))
         /\ PoVars(r, names, edit) = f[Len(names)]
  BY <1>1, PoVarsFollows
<1> DEFINE T == {i \in 0 .. Len(names) : Continues(t, f[i].text)}
<1>3. Len(names) \in Nat /\ \A i \in 1 .. Len(names) : names[i] \in Var
  OBVIOUS
<1>4. 0 \in T
  BY <1>2, <1>3
<1>5. \A i \in 1 .. Len(names) : i - 1 \in T => i \in T
  <2>1. ASSUME NEW i \in 1 .. Len(names), Continues(t, f[i - 1].text) PROVE Continues(t, f[i].text)
    <3>1. Shown(w, f[i - 1])
      <4>1. f[i - 1] \in ShownBy(w)
        BY <1>2, <1>3
      <4> QED
        BY <4>1 DEF ShownBy
    <3> QED
      BY <1>2, <1>3, <2>1, <3>1, PoVarShows
  <2> QED
    BY <2>1
<1> HIDE DEF T
<1>6. \A i \in 0 .. Len(names) : i \in T
  BY <1>3, <1>4, <1>5, Upward
<1>7. Len(names) \in T /\ f[Len(names)] \in ShownBy(w)
  BY <1>2, <1>3, <1>6
<1> QED
  BY <1>2, <1>7 DEF T, ShownBy

LEMMA PoPlistsShow ==
  ASSUME NEW w \in Workspaces, NEW r, Shown(w, r), NEW t, Len(t) \in Nat, Continues(t, r.text), NEW names \in Seq(Plist)
  PROVE  Shown(w, PoPlists(r, names)) /\ Continues(t, PoPlists(r, names).text)
<1>1. r \in ShownBy(w)
  BY DEF ShownBy, Shown
<1>2. PICK f \in [0 .. Len(names) -> ShownBy(w)] :
         /\ f[0] = r /\ (\A i \in 1 .. Len(names) : f[i] = PoPlist(f[i - 1], names[i]))
         /\ PoPlists(r, names) = f[Len(names)]
  BY <1>1, PoPlistsFollows
<1> DEFINE T == {i \in 0 .. Len(names) : Continues(t, f[i].text)}
<1>3. Len(names) \in Nat /\ \A i \in 1 .. Len(names) : names[i] \in Plist
  OBVIOUS
<1>4. 0 \in T
  BY <1>2, <1>3
<1>5. \A i \in 1 .. Len(names) : i - 1 \in T => i \in T
  <2>1. ASSUME NEW i \in 1 .. Len(names), Continues(t, f[i - 1].text) PROVE Continues(t, f[i].text)
    <3>1. Shown(w, f[i - 1])
      <4>1. f[i - 1] \in ShownBy(w)
        BY <1>2, <1>3
      <4> QED
        BY <4>1 DEF ShownBy
    <3> QED
      BY <1>2, <1>3, <2>1, <3>1, PoPlistShows
  <2> QED
    BY <2>1
<1> HIDE DEF T
<1>6. \A i \in 0 .. Len(names) : i \in T
  BY <1>3, <1>4, <1>5, Upward
<1>7. Len(names) \in T /\ f[Len(names)] \in ShownBy(w)
  BY <1>2, <1>3, <1>6
<1> QED
  BY <1>2, <1>7 DEF T, ShownBy

\* The lists of names that a command may be given.
SomeNames(args) == args.proc \subseteq Proc /\ args.val \subseteq Var /\ args.plist \subseteq Plist

LEMMA NamesInSequence ==
  ASSUME NEW args, SomeNames(args)
  PROVE  /\ IsFiniteSet(args.proc) /\ IsFiniteSet(args.val) /\ IsFiniteSet(args.plist)
         /\ SetToSeq(args.proc) \in Seq(Proc) /\ SetToSeq(args.val) \in Seq(Var) /\ SetToSeq(args.plist) \in Seq(Plist)
<1>1. IsFiniteSet(args.proc) /\ IsFiniteSet(args.val) /\ IsFiniteSet(args.plist)
  BY WorkspaceAssumption, FS_Subset DEF SomeNames
<1>2. SetToSeq(args.proc) \in Seq(args.proc) /\ SetToSeq(args.val) \in Seq(args.val) /\ SetToSeq(args.plist) \in Seq(args.plist)
  BY <1>1, SetToSeqIs
<1> QED
  BY <1>1, <1>2, SeqMonotonic DEF SomeNames

LEMMA StartShown ==
  ASSUME NEW w \in Workspaces
  PROVE  Shown(w, [w |-> w, text |-> <<>>]) /\ AllTo(<<>>)
<1>1. <<>> \in Seq(Printed) /\ Len(<<>>) = 0
  OBVIOUS
<1>2. Autoloads(w, w) /\ Told(w, <<>>) /\ AllTo(<<>>)
  BY <1>1 DEF Autoloads, Told, AllTo
<1> QED
  BY <1>1, <1>2, PrintsMade DEF Shown

LEMMA ContinuesSelf == ASSUME NEW t, Len(t) \in Nat PROVE Continues(t, t)
BY DEF Continues

LEMMA PoShows ==
  ASSUME NEW w \in Workspaces, NEW args, SomeNames(args), NEW edit \in BOOLEAN
  PROVE  /\ Shown(w, Po(w, args, edit)) /\ Po(w, args, edit).text \in Texts
         /\ Continues(PoProcs([w |-> w, text |-> <<>>], SetToSeq(args.proc), edit).text, Po(w, args, edit).text)
<1> DEFINE start == [w |-> w, text |-> <<>>]
           procs == PoProcs(start, SetToSeq(args.proc), edit)
           names == PoVars(procs, SetToSeq(args.val), edit)
           end == PoPlists(names, SetToSeq(args.plist))
<1>1. SetToSeq(args.proc) \in Seq(Proc) /\ SetToSeq(args.val) \in Seq(Var) /\ SetToSeq(args.plist) \in Seq(Plist)
  BY NamesInSequence
<1>2. Shown(w, start) /\ AllTo(start.text)
  BY StartShown
<1> HIDE DEF start
<1>3. Shown(w, procs) /\ AllTo(procs.text)
  BY <1>1, <1>2, PoProcsShow
<1> HIDE DEF procs
<1>4. Len(procs.text) \in Nat /\ Continues(procs.text, procs.text)
  BY <1>3, PrintsAre, ContinuesSelf DEF Shown
<1>5. Shown(w, names) /\ Continues(procs.text, names.text)
  BY <1>1, <1>3, <1>4, PoVarsShow
<1> HIDE DEF names
<1>6. Shown(w, end) /\ Continues(procs.text, end.text)
  BY <1>1, <1>4, <1>5, PoPlistsShow
<1>7. Po(w, args, edit) = end
  BY DEF Po, end, names, procs, start
<1> HIDE DEF end
<1>8. end.text \in Seq(Printed) /\ Len(end.text) \in Nat
  BY <1>6, PrintsAre DEF Shown
<1>9. Ordered(end.text)
  <2> SUFFICES ASSUME NEW i \in 1 .. Len(end.text), NEW j \in 1 .. Len(end.text), i < j, end.text[j].op = "to"
               PROVE  end.text[i].op = "to"
    BY DEF Ordered
  <2>1. j \in 1 .. Len(procs.text)
    BY <1>4, <1>6, <1>8 DEF Continues
  <2>2. i \in 1 .. Len(procs.text)
    BY <1>4, <2>1
  <2> QED
    BY <1>3, <1>6, <2>2 DEF AllTo, Continues
<1> QED
  BY <1>6, <1>7, <1>8, <1>9 DEF Texts, procs, start

-----------------------------------------------------------------------------
(* SAVE, and the load of what it wrote. *)

\* The names up to k.
First(names, k) == {names[j] : j \in 1 .. k}

LEMMA FirstIs ==
  ASSUME NEW S, NEW names \in Seq(S)
  PROVE  /\ First(names, 0) = {} /\ \A k \in 0 .. Len(names) : First(names, k) \subseteq S
         /\ \A k \in 1 .. Len(names) : First(names, k) = First(names, k - 1) \cup {names[k]}
<1>1. ASSUME NEW k \in 1 .. Len(names) PROVE First(names, k) = First(names, k - 1) \cup {names[k]}
  <2>1. 1 .. k = (1 .. k - 1) \cup {k}
    OBVIOUS
  <2> QED
    BY <2>1 DEF First
<1> QED
  BY <1>1 DEF First

LEMMA SavedProcs ==
  ASSUME NEW w \in Workspaces, ~w.err, NEW names \in Seq(Proc), NEW edit \in BOOLEAN, ~edit,
         \A k \in 1 .. Len(names) : w.proc[names[k]] \notin {PRIM, UNDEFINED}
  PROVE  LET r == PoProcs([w |-> w, text |-> <<>>], names, edit)
         IN  /\ r.w = w /\ r.text \in Seq(Printed) /\ Len(r.text) = Len(names)
             /\ \A k \in 1 .. Len(names) : r.text[k] = Item("to", names[k], w.proc[names[k]])
<1> DEFINE start == [w |-> w, text |-> <<>>]
           i(k) == Item("to", names[k], w.proc[names[k]])
           Exact(r, m) == r.w = w /\ Len(r.text) = m /\ \A k \in 1 .. m : r.text[k] = i(k)
<1>0. Len(names) \in Nat /\ (\A k \in 1 .. Len(names) : names[k] \in Proc) /\ start.w = w /\ start.text = <<>>
  OBVIOUS
<1>1. start \in ShownBy(w)
  BY StartShown DEF ShownBy, Shown
<1> HIDE DEF start
<1>2. PICK f \in [0 .. Len(names) -> ShownBy(w)] :
         /\ f[0] = start /\ (\A k \in 1 .. Len(names) : f[k] = PoProc(f[k - 1], names[k], edit))
         /\ PoProcs(start, names, edit) = f[Len(names)]
  BY <1>0, <1>1, PoProcsFollows
<1>3. \A k \in 0 .. Len(names) : f[k] \in Prints /\ f[k].w \in Workspaces /\ f[k].text \in Seq(Printed)
  BY <1>2, PrintsAre DEF ShownBy
<1> DEFINE T == {k \in 0 .. Len(names) : Exact(f[k], k)}
<1>4. 0 \in T
  BY <1>0, <1>2
<1>5. ASSUME NEW k \in 1 .. Len(names), Exact(f[k - 1], k - 1) PROVE Exact(f[k], k)
  <2> DEFINE q == f[k - 1]
  <2>1. names[k] \in Proc /\ w.proc[names[k]] \notin {PRIM, UNDEFINED} /\ k - 1 \in 0 .. Len(names)
    BY <1>0
  <2>2. q.w = w /\ q.text \in Seq(Printed)
    BY <1>3, <1>5, <2>1
  <2>3. CheckLibrary(w, names[k]) = w
    BY <2>1 DEF CheckLibrary
  <2> HIDE DEF q, i
  <2>4. f[k] = PoProc(q, names[k], edit)
    BY <1>2 DEF q
  <2>5. f[k] = [w |-> w, text |-> Append(q.text, i(k))]
    BY <2>1, <2>2, <2>3, <2>4 DEF PoProc, i
  <2>6. i(k) \in Printed
    <3>1. w.proc[names[k]] \in Given
      BY <2>1 DEF Workspaces, Bodies, Given
    <3> QED
      BY <2>1, <3>1, ItemMade DEF Printed, i
  <2>7. Len(q.text) = k - 1 /\ \A j \in 1 .. k - 1 : q.text[j] = i(j)
    BY <1>5 DEF q
  <2>8. f[k].w = w /\ f[k].text = Append(q.text, i(k))
    BY <2>5
  <2>9. Len(f[k].text) = k /\ f[k].text[k] = i(k) /\ \A j \in 1 .. k - 1 : f[k].text[j] = q.text[j]
    BY <2>2, <2>6, <2>7, <2>8
  <2>10. \A j \in 1 .. k : j = k \/ j \in 1 .. k - 1
    OBVIOUS
  <2> QED
    BY <2>7, <2>8, <2>9, <2>10
<1> HIDE DEF Exact
<1>6. \A k \in 1 .. Len(names) : k - 1 \in T => k \in T
  BY <1>5
<1> HIDE DEF T
<1>7. \A k \in 0 .. Len(names) : k \in T
  BY <1>0, <1>4, <1>6, Upward
<1>8. Exact(f[Len(names)], Len(names))
  BY <1>0, <1>7 DEF T
<1>9. Len(names) \in 0 .. Len(names)
  BY <1>0
<1>10. f[Len(names)].text \in Seq(Printed)
  BY <1>3, <1>9
<1>11. /\ f[Len(names)].w = w /\ Len(f[Len(names)].text) = Len(names)
       /\ \A k \in 1 .. Len(names) : f[Len(names)].text[k] = Item("to", names[k], w.proc[names[k]])
  BY <1>8 DEF Exact
<1> QED
  BY <1>2, <1>10, <1>11 DEF start

\* Procedures loaded into a Logo that has none of the names as a primitive.
LEMMA ProcsRestored ==
  ASSUME NEW w \in Workspaces, NEW names \in Seq(Proc), NEW text \in Seq(Printed), Len(text) = Len(names),
         \A k \in 1 .. Len(names) : text[k] = Item("to", names[k], w.proc[names[k]]) /\ names[k] \notin Primitive
  PROVE  LET back == LoadText(Fresh, text)
         IN  /\ back \in Workspaces /\ ~back.err /\ back.val = Fresh.val /\ back.plist = Fresh.plist
             /\ \A n \in Proc : back.proc[n] = IF n \in First(names, Len(names)) THEN w.proc[n] ELSE Fresh.proc[n]
<1> DEFINE L(k) == LoadText(Fresh, SubSeq(text, 1, k))
           Back(u, k) == /\ u \in Workspaces /\ ~u.err /\ u.val = Fresh.val /\ u.plist = Fresh.plist
                         /\ \A n \in Proc : u.proc[n] = IF n \in First(names, k) THEN w.proc[n] ELSE Fresh.proc[n]
           T == {k \in 0 .. Len(names) : Back(L(k), k)}
<1>0. /\ text \in Seq(Instruction) /\ Len(names) \in Nat
      /\ \A k \in 1 .. Len(names) : names[k] \in Proc /\ text[k] \in Printed /\ text[k] \in Instruction
  BY DEF Instruction
<1>1. Back(L(0), 0)
  <2>1. L(0) = Fresh
    BY <1>0, FreshIs, UptoIs, LoadNothing
  <2> HIDE DEF L
  <2> QED
    BY <2>1, FreshIs, FirstIs
<1>2. ASSUME NEW k \in 1 .. Len(names), Back(L(k - 1), k - 1) PROVE Back(L(k), k)
  <2> DEFINE u == L(k - 1)
             n == names[k]
             b == w.proc[n]
  <2>1. L(k) = Run(u, text[k], "file")
    BY <1>0, FreshIs, LoadPrefix
  <2>2. text[k].op = "to" /\ text[k].name = n /\ text[k].what = b /\ n \notin Primitive /\ n \in Proc
    BY <1>0, ItemIs
  <2> HIDE DEF L
  <2>3. u \in Workspaces /\ ~u.err
    BY <1>2
  <2>4. b \in Bodies /\ u.proc[n] # PRIM
    <3>1. b \in Given
      BY <1>0, <2>2, PrintedKinds, InstructionKinds
    <3>2. b # PRIM /\ b \in Bodies
      BY <3>1, WorkspaceAssumption DEF Given, Bodies
    <3>3. Fresh.proc[n] # PRIM
      BY <2>2, FreshIs, WorkspaceAssumption
    <3> QED
      BY <1>2, <2>2, <3>2, <3>3
  <2> HIDE DEF u, b, n
  <2>5. L(k) = To(u, n, b, "file")
    BY <1>0, <2>1, <2>2, <2>3, RunIs
  <2>6. /\ L(k) \in Workspaces /\ L(k).val = u.val /\ L(k).plist = u.plist /\ ~L(k).err /\ L(k).proc[n] = b
        /\ \A m \in Proc : m # n => L(k).proc[m] = u.proc[m]
    <3>1. LET v == To(u, n, b, "file")
          IN  /\ v \in Workspaces /\ v.val = u.val /\ v.plist = u.plist
              /\ \A m \in Proc : m # n => v.proc[m] = u.proc[m]
              /\ u.proc[n] = PRIM => v = Fail(u)
              /\ u.proc[n] # PRIM => v.err = u.err /\ v.proc[n] = b
      BY <2>2, <2>3, <2>4, ToFromFile
    <3> QED
      BY <2>3, <2>4, <2>5, <3>1
  <2>7. First(names, k) = First(names, k - 1) \cup {n}
    BY FirstIs DEF n
  <2>8. Back(u, k - 1)
    BY <1>2 DEF u
  <2> QED
    BY <2>2, <2>6, <2>7, <2>8 DEF b
<1>3. L(Len(names)) = LoadText(Fresh, text)
  BY <1>0, UptoIs
<1> HIDE DEF L, Back
<1>4. 0 \in T /\ \A k \in 1 .. Len(names) : k - 1 \in T => k \in T
  BY <1>0, <1>1, <1>2
<1> HIDE DEF T
<1>5. \A k \in 0 .. Len(names) : k \in T
  BY <1>0, <1>4, Upward
<1>6. Back(L(Len(names)), Len(names))
  BY <1>0, <1>5 DEF T
<1> QED
  BY <1>3, <1>6 DEF Back

LEMMA VarsRestored ==
  ASSUME NEW w \in Workspaces, ~w.err, NEW r, Shown(w, r), r.w = w, NEW names \in Seq(Var), NEW edit \in BOOLEAN, ~edit,
         \A k \in 1 .. Len(names) : w.val[names[k]] # UNBOUND, ~LoadText(Fresh, r.text).err
  PROVE  LET q == PoVars(r, names, edit)
             before == LoadText(Fresh, r.text)
             back == LoadText(Fresh, q.text)
         IN  /\ q.w = w /\ ~back.err /\ back.proc = before.proc /\ back.plist = before.plist
             /\ \A n \in Var : back.val[n] = IF n \in First(names, Len(names)) THEN w.val[n] ELSE before.val[n]
<1> DEFINE before == LoadText(Fresh, r.text)
           L(q) == LoadText(Fresh, q.text)
           Back(q, k) == /\ q.w = w /\ ~L(q).err /\ L(q).proc = before.proc /\ L(q).plist = before.plist
                         /\ \A n \in Var : L(q).val[n] = IF n \in First(names, k) THEN w.val[n] ELSE before.val[n]
<1>0. Len(names) \in Nat /\ (\A k \in 1 .. Len(names) : names[k] \in Var) /\ r \in ShownBy(w)
  BY DEF Shown, ShownBy
<1>1. PICK f \in [0 .. Len(names) -> ShownBy(w)] :
         /\ f[0] = r /\ (\A k \in 1 .. Len(names) : f[k] = PoVar(f[k - 1], names[k], edit))
         /\ PoVars(r, names, edit) = f[Len(names)]
  BY <1>0, PoVarsFollows
<1>2. \A k \in 0 .. Len(names) : f[k] \in Prints /\ f[k].w \in Workspaces /\ f[k].text \in Seq(Printed)
  BY <1>1, PrintsAre DEF ShownBy
<1> DEFINE T == {k \in 0 .. Len(names) : Back(f[k], k)}
<1>3. Back(f[0], 0)
  BY <1>1, FirstIs
<1>4. ASSUME NEW k \in 1 .. Len(names), Back(f[k - 1], k - 1) PROVE Back(f[k], k)
  <2> DEFINE q == f[k - 1]
             n == names[k]
             i == Item("make", n, w.val[n])
             u == L(q)
  <2>1. n \in Var /\ w.val[n] \in Value /\ k - 1 \in 0 .. Len(names)
    BY <1>0 DEF Workspaces
  <2>2. q.w = w /\ q.text \in Seq(Printed) /\ q.text \in Seq(Instruction) /\ ~u.err
    BY <1>2, <1>4, <2>1 DEF Instruction
  <2>3. i \in Printed /\ i \in Instruction /\ i.op = "make" /\ i.name = n /\ i.what = w.val[n]
    BY <2>1, ItemMade, ItemIs DEF Printed, Instruction
  <2>4. f[k].w = w /\ f[k].text = Append(q.text, i)
    <3>1. f[k] = PoVar(q, n, edit) /\ w.val[n] # UNBOUND
      BY <1>1
    <3> HIDE DEF q, n, u
    <3>2. PoVar(q, n, edit) = [q EXCEPT !.text = Append(q.text, i)]
      BY <2>2, <3>1 DEF PoVar
    <3>3. q \in Prints
      BY <1>2, <2>1 DEF q
    <3> HIDE DEF i
    <3> QED
      BY <2>2, <3>1, <3>2, <3>3 DEF Prints
  <2>5. u \in Workspaces /\ L(f[k]) = Run(u, i, "file")
    <3>1. LoadText(Fresh, q.text) \in Workspaces /\ LoadText(Fresh, Append(q.text, i)) = Run(LoadText(Fresh, q.text), i, "file")
      <4> HIDE DEF q, i, u
      <4> QED
        BY <2>2, <2>3, FreshIs, LoadStep
    <3> QED
      BY <2>4, <3>1
  <2> HIDE DEF i, u, L
  <2>6. L(f[k]) = Make(u, n, w.val[n])
    BY <2>2, <2>3, <2>5, RunIs
  <2>7. /\ Make(u, n, w.val[n]) \in Workspaces /\ Make(u, n, w.val[n]).proc = u.proc /\ Make(u, n, w.val[n]).plist = u.plist
        /\ Make(u, n, w.val[n]).err = u.err /\ Make(u, n, w.val[n]).val = [u.val EXCEPT ![n] = w.val[n]]
    <3> HIDE DEF n
    <3> QED
      BY <2>1, <2>5, MakeType
  <2>8. First(names, k) = First(names, k - 1) \cup {n}
    BY FirstIs
  <2>9. u.val \in [Var -> Value \cup {UNBOUND}]
    BY <2>5 DEF Workspaces
  <2>10. Back(q, k - 1) /\ u = L(q)
    BY <1>4 DEF u
  <2> HIDE DEF q, n
  <2> QED
    BY <2>1, <2>2, <2>4, <2>6, <2>7, <2>8, <2>9, <2>10
<1> HIDE DEF Back
<1>5. 0 \in T /\ \A k \in 1 .. Len(names) : k - 1 \in T => k \in T
  BY <1>0, <1>3, <1>4
<1> HIDE DEF T
<1>6. \A k \in 0 .. Len(names) : k \in T
  BY <1>0, <1>5, Upward
<1>7. Back(f[Len(names)], Len(names))
  BY <1>0, <1>6 DEF T
<1> QED
  BY <1>1, <1>7 DEF Back

\* A property list up to k, in reverse.
Backwards(s, k) == [j \in 1 .. k |-> s[k + 1 - j]]

LEMMA PutBackwards ==
  ASSUME NEW s \in Plists, NEW k \in 1 .. Len(s)
  PROVE  Backwards(s, k - 1) \in Plists /\ Put(Backwards(s, k - 1), s[k]) = Backwards(s, k)
<1> DEFINE t == Backwards(s, k - 1)
           u == Backwards(s, k)
<1>0. s \in Seq(Prop) /\ Len(s) \in Nat /\ (\A i, j \in 1 .. Len(s) : s[i][1] = s[j][1] => i = j) /\ \A i \in 1 .. Len(s) : s[i] \in Prop
  BY DEF Plists
<1>1. t \in Seq(Prop) /\ Len(t) = k - 1 /\ \A j \in 1 .. k - 1 : t[j] = s[k - j] /\ k - j \in 1 .. k - 1
  BY <1>0 DEF Backwards
<1>2. u \in Seq(Prop) /\ Len(u) = k /\ \A j \in 1 .. k : u[j] = s[k + 1 - j] /\ k + 1 - j \in 1 .. k
  BY <1>0 DEF Backwards
<1> HIDE DEF t, u
<1>3. \A i, j \in 1 .. k - 1 : t[i][1] = t[j][1] => i = j
  <2> SUFFICES ASSUME NEW i \in 1 .. k - 1, NEW j \in 1 .. k - 1, t[i][1] = t[j][1] PROVE i = j
    OBVIOUS
  <2>1. k - i \in 1 .. Len(s) /\ k - j \in 1 .. Len(s)
    BY <1>0
  <2>3. t[i] = s[k - i] /\ t[j] = s[k - j]
    BY <1>1
  <2>4. s[k - i][1] = s[k - j][1]
    BY <2>3
  <2>2. k - i = k - j
    BY <1>0, <2>1, <2>4
  <2> QED
    BY <2>2
<1>4. \A i \in 1 .. k - 1 : t[i][1] # s[k][1]
  <2> SUFFICES ASSUME NEW i \in 1 .. k - 1, t[i][1] = s[k][1] PROVE FALSE
    OBVIOUS
  <2>1. k - i \in 1 .. Len(s) /\ k - i # k /\ s[k - i][1] = s[k][1]
    BY <1>0, <1>1
  <2> QED
    BY <1>0, <2>1
<1>5. Put(t, s[k]) = <<s[k]>> \o t
  <2>1. DOMAIN t = 1 .. k - 1
    BY <1>1
  <2> QED
    BY <1>4, <2>1 DEF Put
<1> DEFINE v == <<s[k]>> \o t
<1>6. v \in Seq(Prop) /\ Len(v) = k /\ v[1] = s[k] /\ \A j \in 2 .. k : v[j] = t[j - 1] /\ j - 1 \in 1 .. k - 1
  BY <1>0, <1>1
<1> HIDE DEF v
<1>7. \A j \in 1 .. k : v[j] = u[j]
  <2> SUFFICES ASSUME NEW j \in 1 .. k PROVE v[j] = u[j]
    OBVIOUS
  <2>1. CASE j = 1
    BY <1>2, <1>6, <2>1
  <2>2. CASE j \in 2 .. k
    <3>1. v[j] = t[j - 1] /\ t[j - 1] = s[k - (j - 1)]
      BY <1>1, <1>6, <2>2
    <3>2. k - (j - 1) = k + 1 - j
      BY <2>2
    <3> QED
      BY <1>2, <3>1, <3>2
  <2> QED
    BY <2>1, <2>2
<1>8. v = u
  BY <1>2, <1>6, <1>7, SeqEqual
<1>9. t \in Plists
  BY <1>1, <1>3 DEF Plists
<1> QED
  BY <1>5, <1>8, <1>9 DEF t, u, v

\* A property list is printed from its first property on, and each one loaded goes to the front.
LEMMA PairsLoaded ==
  ASSUME NEW w \in Workspaces, NEW t \in Seq(Printed), NEW n \in Plist, NEW s \in Plists,
         ~LoadText(w, t).err, LoadText(w, t).plist[n] = <<>>
  PROVE  LET u == LoadText(w, t)
             v == LoadText(w, t \o Pairs(n, s))
         IN  /\ v \in Workspaces /\ ~v.err /\ v.proc = u.proc /\ v.val = u.val
             /\ v.plist[n] = Reverse(s) /\ \A m \in Plist : m # n => v.plist[m] = u.plist[m]
<1> DEFINE ps == Pairs(n, s)
           u == LoadText(w, t)
           L(k) == LoadText(w, t \o SubSeq(ps, 1, k))
           Back(v, k) == /\ v \in Workspaces /\ ~v.err /\ v.proc = u.proc /\ v.val = u.val
                         /\ v.plist[n] = Backwards(s, k) /\ \A m \in Plist : m # n => v.plist[m] = u.plist[m]
           T == {k \in 0 .. Len(s) : Back(L(k), k)}
<1>0. /\ ps \in Seq(Printed) /\ Len(ps) = Len(s) /\ Len(s) \in Nat
      /\ \A k \in 1 .. Len(s) : ps[k] = Item("pprop", n, s[k]) /\ s[k] \in Prop
  BY PairsAre
<1> HIDE DEF ps
<1>1. Back(L(0), 0)
  <2>1. SubSeq(ps, 1, 0) = <<>> /\ t \o <<>> = t
    BY SubSeqEmpty
  <2>2. u \in Workspaces
    BY LoadedType DEF Instruction
  <2>3. L(0) = u
    BY <2>1
  <2>4. Backwards(s, 0) = <<>>
    BY DEF Backwards
  <2> HIDE DEF L, u
  <2> QED
    BY <2>2, <2>3, <2>4 DEF u
<1>2. ASSUME NEW k \in 1 .. Len(s), Back(L(k - 1), k - 1) PROVE Back(L(k), k)
  <2> DEFINE q == t \o SubSeq(ps, 1, k - 1)
             i == Item("pprop", n, s[k])
             x == LoadText(w, q)
  <2>1. i \in Printed /\ i \in Instruction /\ i.op = "pprop" /\ i.name = n /\ i.what = s[k] /\ s[k] \in Prop
    BY <1>0, ItemMade, ItemIs DEF Printed, Instruction
  <2>2. q \in Seq(Printed) /\ q \in Seq(Instruction) /\ t \o SubSeq(ps, 1, k) = Append(q, i)
    <3> DEFINE a == SubSeq(ps, 1, k - 1)
               b == SubSeq(ps, 1, k)
    <3>1. a \in Seq(Printed) /\ Len(a) = k - 1 /\ b = Append(a, i)
      BY <1>0
    <3> HIDE DEF a, b, i
    <3>2. t \o Append(a, i) = Append(t \o a, i)
      BY <2>1, <3>1
    <3>3. t \o a \in Seq(Printed)
      BY <3>1
    <3> QED
      BY <3>1, <3>2, <3>3 DEF a, b, Instruction
  <2>3. x \in Workspaces /\ LoadText(w, Append(q, i)) = Run(x, i, "file")
    <3> HIDE DEF q, i
    <3> QED
      BY <2>1, <2>2, LoadStep
  <2>4. Back(x, k - 1)
    BY <1>2
  <2>5. L(k) = Run(x, i, "file")
    BY <2>2, <2>3
  <2> HIDE DEF L, i, x, q, u
  <2>6. L(k) = Pprop(x, n, s[k])
    BY <2>1, <2>3, <2>4, <2>5, RunIs
  <2>7. /\ L(k) \in Workspaces /\ L(k).proc = x.proc /\ L(k).val = x.val /\ L(k).err = x.err
        /\ L(k).plist = [x.plist EXCEPT ![n] = Put(x.plist[n], s[k])]
    BY <2>1, <2>3, <2>6, PpropType
  <2>8. Put(x.plist[n], s[k]) = Backwards(s, k)
    BY <1>0, <2>4, PutBackwards
  <2>9. x.plist \in [Plist -> Plists]
    BY <2>3 DEF Workspaces
  <2> QED
    BY <2>4, <2>7, <2>8, <2>9
<1>3. L(Len(s)) = LoadText(w, t \o ps)
  BY <1>0, SubSeqFull
<1>4. Backwards(s, Len(s)) = Reverse(s)
  <2>1. \A j \in 1 .. Len(s) : Len(s) + 1 - j = (Len(s) - j) + 1
    BY <1>0
  <2> QED
    BY <1>0, <2>1 DEF Backwards, Reverse
<1> HIDE DEF Back, L
<1>5. 0 \in T /\ \A k \in 1 .. Len(s) : k - 1 \in T => k \in T
  BY <1>0, <1>1, <1>2
<1> HIDE DEF T
<1>6. \A k \in 0 .. Len(s) : k \in T
  BY <1>0, <1>5, Upward
<1>7. Back(L(Len(s)), Len(s))
  BY <1>0, <1>6 DEF T
<1> QED
  BY <1>3, <1>4, <1>7 DEF Back, ps

LEMMA PlistsRestored ==
  ASSUME NEW w \in Workspaces, ~w.err, NEW r, Shown(w, r), r.w = w, NEW names \in Seq(Plist),
         \A j, k \in 1 .. Len(names) : names[j] = names[k] => j = k,
         ~LoadText(Fresh, r.text).err, \A n \in Plist : LoadText(Fresh, r.text).plist[n] = <<>>
  PROVE  LET q == PoPlists(r, names)
             before == LoadText(Fresh, r.text)
             back == LoadText(Fresh, q.text)
         IN  /\ ~back.err /\ back.proc = before.proc /\ back.val = before.val
             /\ \A n \in Plist : back.plist[n] = IF n \in First(names, Len(names)) THEN Reverse(w.plist[n]) ELSE <<>>
<1> DEFINE before == LoadText(Fresh, r.text)
           L(q) == LoadText(Fresh, q.text)
           Back(q, k) == /\ q.w = w /\ ~L(q).err /\ L(q).proc = before.proc /\ L(q).val = before.val
                         /\ \A n \in Plist : L(q).plist[n] = IF n \in First(names, k) THEN Reverse(w.plist[n]) ELSE <<>>
<1>0. Len(names) \in Nat /\ (\A k \in 1 .. Len(names) : names[k] \in Plist) /\ r \in ShownBy(w)
  BY DEF Shown, ShownBy
<1>1. PICK f \in [0 .. Len(names) -> ShownBy(w)] :
         /\ f[0] = r /\ (\A k \in 1 .. Len(names) : f[k] = PoPlist(f[k - 1], names[k]))
         /\ PoPlists(r, names) = f[Len(names)]
  BY <1>0, PoPlistsFollows
<1>2. \A k \in 0 .. Len(names) : Shown(w, f[k]) /\ f[k].w \in Workspaces /\ f[k].text \in Seq(Printed)
  BY <1>1, PrintsAre DEF ShownBy
<1> DEFINE T == {k \in 0 .. Len(names) : Back(f[k], k)}
<1>3. Back(f[0], 0)
  BY <1>1, FirstIs
<1>4. ASSUME NEW k \in 1 .. Len(names), Back(f[k - 1], k - 1) PROVE Back(f[k], k)
  <2> DEFINE q == f[k - 1]
             n == names[k]
             s == w.plist[n]
             u == LoadText(Fresh, q.text)
             v == LoadText(Fresh, q.text \o Pairs(n, s))
  <2>1. n \in Plist /\ s \in Plists /\ k - 1 \in 0 .. Len(names)
    BY <1>0 DEF Workspaces
  <2>2. q.w = w /\ q.text \in Seq(Printed) /\ ~u.err /\ Shown(w, q)
    BY <1>2, <1>4, <2>1
  <2>3. n \notin First(names, k - 1)
    BY <1>0 DEF First
  <2>4. u.plist[n] = <<>>
    BY <1>4, <2>1, <2>3
  <2>5. /\ v \in Workspaces /\ ~v.err /\ v.proc = u.proc /\ v.val = u.val
        /\ v.plist[n] = Reverse(s) /\ \A m \in Plist : m # n => v.plist[m] = u.plist[m]
    <3> HIDE DEF q, n, s
    <3> QED
      BY <2>1, <2>2, <2>4, FreshIs, PairsLoaded
  <2>6. f[k].w = w /\ f[k].text = q.text \o Pairs(n, s)
    <3>1. f[k] = PoPlist(q, n)
      BY <1>1
    <3> HIDE DEF q, n
    <3>2. PoPlist(q, n) = [w |-> q.w, text |-> q.text \o Pairs(n, q.w.plist[n])]
      BY <2>1, <2>2, PoPlistShows
    <3>3. f[k] = [w |-> w, text |-> q.text \o Pairs(n, s)]
      BY <2>2, <3>1, <3>2
    <3> DEFINE longer == q.text \o Pairs(n, s)
    <3>4. f[k] = [w |-> w, text |-> longer]
      BY <3>3
    <3> HIDE DEF longer
    <3>5. f[k].w = w /\ f[k].text = longer
      BY <3>4
    <3> QED
      BY <3>5 DEF longer
  <2>7. First(names, k) = First(names, k - 1) \cup {n}
    BY FirstIs
  <2>8. L(f[k]) = v /\ L(q) = u
    BY <2>6
  <2>9. Back(q, k - 1)
    BY <1>4
  <2> HIDE DEF L, u, v, q, n
  <2> QED
    BY <2>1, <2>5, <2>6, <2>7, <2>8, <2>9
<1> HIDE DEF Back
<1>5. 0 \in T /\ \A k \in 1 .. Len(names) : k - 1 \in T => k \in T
  BY <1>0, <1>3, <1>4
<1> HIDE DEF T
<1>6. \A k \in 0 .. Len(names) : k \in T
  BY <1>0, <1>5, Upward
<1>7. Back(f[Len(names)], Len(names))
  BY <1>0, <1>6 DEF T
<1> QED
  BY <1>1, <1>7 DEF Back

-----------------------------------------------------------------------------
(* What SAVE prints. *)

LEMMA ContentsAre ==
  ASSUME NEW w
  PROVE  /\ SomeNames(Contents(w))
         /\ Contents(w).proc = {n \in Proc : w.proc[n] \notin {UNDEFINED, PRIM} /\ <<"proc", n>> \notin w.flags["BURIED"]}
         /\ Contents(w).val = {n \in Var : w.val[n] # UNBOUND /\ <<"val", n>> \notin w.flags["BURIED"]}
         /\ Contents(w).plist = {n \in Plist : w.plist[n] # <<>> /\ <<"plist", n>> \notin w.flags["BURIED"]}
BY DEF Contents, Kind, Names, IsThere, SomeNames

LEMMA SetSequence ==
  ASSUME NEW S, IsFiniteSet(S)
  PROVE  First(SetToSeq(S), Len(SetToSeq(S))) = S
<1>1. /\ SetToSeq(S) \in Seq(S) /\ Len(SetToSeq(S)) \in Nat
      /\ \A x \in S : \E i \in 1 .. Len(SetToSeq(S)) : SetToSeq(S)[i] = x
  BY SetToSeqIs
<1>2. \A i \in 1 .. Len(SetToSeq(S)) : SetToSeq(S)[i] \in S
  BY <1>1, ElementOfSeq
<1> QED
  BY <1>1, <1>2 DEF First

\* A saved text has a TO for each procedure in the contents list, and no other one.
LEMMA SavedTos ==
  ASSUME NEW w \in Workspaces, ~w.err
  PROVE  /\ \A n \in Contents(w).proc : \E k \in 1 .. Len(Saved(w).text) : Saved(w).text[k] = Item("to", n, w.proc[n])
         /\ \A k \in 1 .. Len(Saved(w).text) : Saved(w).text[k].op = "to" => Saved(w).text[k].name \in Contents(w).proc
         /\ Saved(w).text \in Texts /\ Shown(w, Saved(w))
<1> DEFINE args == Contents(w)
           names == SetToSeq(args.proc)
<1>0. PICK edit : edit = FALSE
  OBVIOUS
<1>1. edit \in BOOLEAN /\ ~edit
  BY <1>0
<1> DEFINE procs == PoProcs([w |-> w, text |-> <<>>], names, edit)
           all == Po(w, args, edit)
<1>2. Saved(w) = all
  BY <1>0 DEF Saved
<1>3. SomeNames(args) /\ \A n \in args.proc : w.proc[n] \notin {PRIM, UNDEFINED}
  BY ContentsAre
<1>4. IsFiniteSet(args.proc) /\ names \in Seq(Proc)
  BY <1>3, NamesInSequence
<1>5. First(names, Len(names)) = args.proc /\ names \in Seq(args.proc) /\ Len(names) \in Nat
  BY <1>4, SetSequence, SetToSeqIs
<1>6. Shown(w, all) /\ all.text \in Texts /\ Continues(procs.text, all.text)
  <2> HIDE DEF args
  <2> QED
    BY <1>1, <1>3, PoShows
<1> HIDE DEF args, names
<1>7. \A k \in 1 .. Len(names) : names[k] \in args.proc
  BY <1>5
<1>8. /\ procs.w = w /\ procs.text \in Seq(Printed) /\ Len(procs.text) = Len(names)
      /\ \A k \in 1 .. Len(names) : procs.text[k] = Item("to", names[k], w.proc[names[k]])
  BY <1>1, <1>3, <1>4, <1>7, SavedProcs
<1> HIDE DEF procs, all
<1>9. \A n \in args.proc : \E k \in 1 .. Len(all.text) : all.text[k] = Item("to", n, w.proc[n])
  <2> SUFFICES ASSUME NEW n \in args.proc PROVE \E k \in 1 .. Len(all.text) : all.text[k] = Item("to", n, w.proc[n])
    OBVIOUS
  <2>1. PICK k \in 1 .. Len(names) : names[k] = n
    BY <1>5 DEF First
  <2>2. all.text[k] = procs.text[k] /\ k \in 1 .. Len(all.text)
    <3>1. Len(all.text) \in Nat
      BY <1>6 DEF Texts
    <3> QED
      BY <1>5, <1>6, <1>8, <2>1, <3>1 DEF Continues
  <2> QED
    BY <1>8, <2>1, <2>2
<1>10. \A k \in 1 .. Len(all.text) : all.text[k].op = "to" => all.text[k].name \in args.proc
  <2> SUFFICES ASSUME NEW k \in 1 .. Len(all.text), all.text[k].op = "to" PROVE all.text[k].name \in args.proc
    OBVIOUS
  <2>1. k \in 1 .. Len(names) /\ all.text[k] = procs.text[k]
    <3>1. Len(all.text) \in Nat
      BY <1>6 DEF Texts
    <3>2. ~(k \in Len(names) + 1 .. Len(all.text))
      BY <1>6, <1>8 DEF Continues
    <3>3. k \in 1 .. Len(names)
      BY <1>5, <3>1, <3>2
    <3> QED
      BY <1>6, <1>8, <3>3 DEF Continues
  <2> QED
    BY <1>7, <1>8, <2>1, ItemIs
<1> QED
  BY <1>2, <1>6, <1>9, <1>10 DEF args

-----------------------------------------------------------------------------
(* SaveRestores and EditKeeps, of every workspace. *)

LEMMA SavedComesBack ==
  ASSUME NEW w \in Workspaces, ~w.err, \A n \in Primitive : w.proc[n] \in {UNDEFINED, PRIM}
  PROVE  LET back == LoadText(Fresh, Saved(w).text)
             saved == Contents(w)
         IN  /\ ~back.err
             /\ back.proc = [n \in Proc |-> IF n \in saved.proc THEN w.proc[n] ELSE Fresh.proc[n]]
             /\ back.val = [n \in Var |-> IF n \in saved.val THEN w.val[n] ELSE Fresh.val[n]]
             /\ back.plist = [n \in Plist |-> IF n \in saved.plist THEN Reverse(w.plist[n]) ELSE <<>>]
<1> DEFINE args == Contents(w)
<1>0. PICK edit : edit = FALSE
  OBVIOUS
<1>1. edit \in BOOLEAN /\ ~edit
  BY <1>0
<1> DEFINE start == [w |-> w, text |-> <<>>]
           ns == SetToSeq(args.proc)
           vs == SetToSeq(args.val)
           ls == SetToSeq(args.plist)
           procs == PoProcs(start, ns, edit)
           names == PoVars(procs, vs, edit)
           all == PoPlists(names, ls)
           L(r) == LoadText(Fresh, r.text)
<1>2. Saved(w) = all
  BY <1>0 DEF Saved, Po
<1>3. /\ SomeNames(args) /\ (\A n \in args.proc : n \in Proc /\ w.proc[n] \notin {PRIM, UNDEFINED})
      /\ \A n \in args.val : n \in Var /\ w.val[n] # UNBOUND
  BY ContentsAre
<1>4. IsFiniteSet(args.proc) /\ IsFiniteSet(args.val) /\ IsFiniteSet(args.plist) /\ ns \in Seq(Proc) /\ vs \in Seq(Var) /\ ls \in Seq(Plist)
  BY <1>3, NamesInSequence
<1>5. /\ First(ns, Len(ns)) = args.proc /\ First(vs, Len(vs)) = args.val /\ First(ls, Len(ls)) = args.plist
      /\ \A j, k \in 1 .. Len(ls) : ls[j] = ls[k] => j = k
  BY <1>4, SetSequence, SetToSeqIs
<1>6. Shown(w, start) /\ AllTo(start.text)
  BY StartShown
<1>7. \A n \in args.proc : n \notin Primitive
  BY <1>3
<1> HIDE DEF args, ns, vs, ls
<1>8. (\A k \in 1 .. Len(ns) : ns[k] \in args.proc) /\ (\A k \in 1 .. Len(vs) : vs[k] \in args.val)
  BY <1>5 DEF First
<1>9. /\ procs.w = w /\ procs.text \in Seq(Printed) /\ Len(procs.text) = Len(ns)
      /\ \A k \in 1 .. Len(ns) : procs.text[k] = Item("to", ns[k], w.proc[ns[k]])
  BY <1>1, <1>3, <1>4, <1>8, SavedProcs
<1>10. Shown(w, procs)
  <2> HIDE DEF start
  <2> QED
    BY <1>1, <1>4, <1>6, PoProcsShow
<1> HIDE DEF procs
<1>11. /\ L(procs) \in Workspaces /\ ~L(procs).err /\ L(procs).val = Fresh.val /\ L(procs).plist = Fresh.plist
       /\ \A n \in Proc : L(procs).proc[n] = IF n \in args.proc THEN w.proc[n] ELSE Fresh.proc[n]
  <2>1. \A k \in 1 .. Len(ns) : procs.text[k] = Item("to", ns[k], w.proc[ns[k]]) /\ ns[k] \notin Primitive
    BY <1>7, <1>8, <1>9
  <2>2. LET back == LoadText(Fresh, procs.text)
        IN  /\ back \in Workspaces /\ ~back.err /\ back.val = Fresh.val /\ back.plist = Fresh.plist
            /\ \A n \in Proc : back.proc[n] = IF n \in First(ns, Len(ns)) THEN w.proc[n] ELSE Fresh.proc[n]
    BY <1>4, <1>9, <2>1, ProcsRestored
  <2> QED
    BY <1>5, <2>2
<1>12. /\ names.w = w /\ ~L(names).err /\ L(names).proc = L(procs).proc /\ L(names).plist = Fresh.plist
       /\ \A n \in Var : L(names).val[n] = IF n \in args.val THEN w.val[n] ELSE Fresh.val[n]
  <2>1. (\A k \in 1 .. Len(vs) : w.val[vs[k]] # UNBOUND) /\ ~LoadText(Fresh, procs.text).err
    BY <1>3, <1>8, <1>11
  <2>2. LET q == PoVars(procs, vs, edit)
            before == LoadText(Fresh, procs.text)
            back == LoadText(Fresh, q.text)
        IN  /\ q.w = w /\ ~back.err /\ back.proc = before.proc /\ back.plist = before.plist
            /\ \A n \in Var : back.val[n] = IF n \in First(vs, Len(vs)) THEN w.val[n] ELSE before.val[n]
    BY <1>1, <1>4, <1>9, <1>10, <2>1, VarsRestored
  <2> QED
    BY <1>5, <1>11, <2>2
<1>13. Shown(w, names) /\ names.text \in Seq(Printed)
  <2>1. Len(procs.text) \in Nat /\ Continues(procs.text, procs.text)
    BY <1>9, ContinuesSelf
  <2> QED
    BY <1>1, <1>4, <1>10, <2>1, PoVarsShow, PrintsAre DEF Shown
<1> HIDE DEF names
<1>14. /\ ~L(all).err /\ L(all).proc = L(names).proc /\ L(all).val = L(names).val
       /\ \A n \in Plist : L(all).plist[n] = IF n \in args.plist THEN Reverse(w.plist[n]) ELSE <<>>
  <2>1. ~LoadText(Fresh, names.text).err /\ \A n \in Plist : LoadText(Fresh, names.text).plist[n] = <<>>
    BY <1>12, FreshIs
  <2>3. Shown(w, names) /\ names.w = w /\ ls \in Seq(Plist) /\ (\A j, k \in 1 .. Len(ls) : ls[j] = ls[k] => j = k)
    BY <1>4, <1>5, <1>12, <1>13
  <2>2. LET q == PoPlists(names, ls)
            before == LoadText(Fresh, names.text)
            back == LoadText(Fresh, q.text)
        IN  /\ ~back.err /\ back.proc = before.proc /\ back.val = before.val
            /\ \A n \in Plist : back.plist[n] = IF n \in First(ls, Len(ls)) THEN Reverse(w.plist[n]) ELSE <<>>
    BY <2>1, <2>3, PlistsRestored
  <2> QED
    BY <1>5, <2>2
<1>15. L(all) \in Workspaces
  <2>1. Continues(names.text, names.text) /\ Len(names.text) \in Nat
    BY <1>13, ContinuesSelf
  <2>2. Shown(w, all)
    BY <1>4, <1>13, <2>1, PoPlistsShow
  <2>3. all.text \in Seq(Printed)
    BY <2>2, PrintsAre DEF Shown
  <2> HIDE DEF all
  <2> QED
    BY <2>3, FreshIs, LoadedType DEF Instruction
<1> HIDE DEF all, L
<1>16. /\ L(all).proc = [n \in Proc |-> L(all).proc[n]] /\ L(all).val = [n \in Var |-> L(all).val[n]]
       /\ L(all).plist = [n \in Plist |-> L(all).plist[n]]
  BY <1>15 DEF Workspaces
<1>17. \A n \in Proc : L(all).proc[n] = IF n \in args.proc THEN w.proc[n] ELSE Fresh.proc[n]
  BY <1>11, <1>12, <1>14
<1>18. \A n \in Var : L(all).val[n] = IF n \in args.val THEN w.val[n] ELSE Fresh.val[n]
  BY <1>12, <1>14
<1>19. /\ ~L(all).err
       /\ L(all).proc = [n \in Proc |-> IF n \in args.proc THEN w.proc[n] ELSE Fresh.proc[n]]
       /\ L(all).val = [n \in Var |-> IF n \in args.val THEN w.val[n] ELSE Fresh.val[n]]
       /\ L(all).plist = [n \in Plist |-> IF n \in args.plist THEN Reverse(w.plist[n]) ELSE <<>>]
  BY <1>14, <1>16, <1>17, <1>18
<1> QED
  BY <1>2, <1>19 DEF L, args

LEMMA EditedComesBack ==
  ASSUME NEW w \in Workspaces, NEW args, SomeNames(args)
  PROVE  LET e == EditText(w, args)
             back == IF e.w.err THEN e.w ELSE LoadText(e.w, e.text)
         IN  /\ back.val = w.val /\ back.plist = w.plist
             /\ \A n \in Proc : back.proc[n] \in {w.proc[n]} \cup
                  (IF w.proc[n] # UNDEFINED THEN {} ELSE IF n \in Library THEN {LibBody} ELSE {Empty})
<1> DEFINE e == EditText(w, args)
<1>1. Shown(w, e)
  <2>1. PICK edit : edit = TRUE
    OBVIOUS
  <2>2. edit \in BOOLEAN /\ EditText(w, args) = Po(w, args, edit)
    BY <2>1 DEF EditText
  <2> QED
    BY <2>2, PoShows
<1> HIDE DEF e
<1>2. Autoloads(w, e.w) /\ Told(e.w, e.text) /\ e.w \in Workspaces /\ e.text \in Seq(Printed)
  BY <1>1, PrintsAre DEF Shown
<1>3. Kept(e.w, LoadText(e.w, e.text))
  BY <1>2, LoadKeeps
<1>4. Kept(e.w, e.w)
  BY <1>2 DEF Kept
<1> DEFINE back == IF e.w.err THEN e.w ELSE LoadText(e.w, e.text)
<1>5. Kept(e.w, back)
  BY <1>3, <1>4
<1> HIDE DEF back
<1>6. LibBody # UNDEFINED
  BY WorkspaceAssumption
<1>7. /\ back.val = w.val /\ back.plist = w.plist
      /\ \A n \in Proc : back.proc[n] \in {w.proc[n]} \cup
           (IF w.proc[n] # UNDEFINED THEN {} ELSE IF n \in Library THEN {LibBody} ELSE {Empty})
  BY <1>2, <1>5, <1>6 DEF Kept, Autoloads
<1> QED
  BY <1>7 DEF back, e

-----------------------------------------------------------------------------
(* Erasing. *)

LEMMA EraseProcType ==
  ASSUME NEW w \in Workspaces, NEW n \in Proc, NEW redef
  PROVE  EraseProc(w, n, redef) \in Workspaces
<1>1. UNDEFINED \in Bodies
  BY DEF Bodies
<1>2. Fail(w) \in Workspaces
  BY FailType
<1>3. [w EXCEPT !.proc[n] = UNDEFINED] \in Workspaces
  BY <1>1, ProcChange
<1> QED
  BY <1>2, <1>3 DEF EraseProc


LEMMA EraseFollows ==
  ASSUME NEW w \in Workspaces, NEW names \in Seq(Proc), NEW redef
  PROVE  \E f \in [0 .. Len(names) -> Workspaces] :
            f[0] = w /\ (\A i \in 1 .. Len(names) : f[i] = EraseProc(f[i - 1], names[i], redef)) /\ EraseProcs(w, names, redef) = f[Len(names)]
<1> DEFINE n == Len(names)
           c == w
           Step(i, s) == EraseProc(s, names[i], redef)
           Recursion(f) == f = [i \in 0 .. Len(names) |-> IF i = 0 THEN w ELSE The({EraseProc(r, names[i], redef) : r \in {f[i - 1]}})]
           st == [i \in 1 .. n |-> [s \in Workspaces |-> Step(i, s)]]
           g == CHOOSE f : Recursion(f)
<1>1. n \in Nat /\ c \in Workspaces /\ \A i \in 1 .. n : \A s \in Workspaces : Step(i, s) \in Workspaces
  <2>1. n \in Nat /\ \A i \in 1 .. n : names[i] \in Proc
    OBVIOUS
  <2> QED
    BY <2>1, EraseProcType
<1>2. PICK f \in [0 .. n -> Workspaces] : Follows(f, n, c, st)
  <2> HIDE DEF Step, n, c
  <2>1. st \in [1 .. n -> [Workspaces -> Workspaces]]
    BY <1>1
  <2> HIDE DEF st
  <2> QED
    BY <1>1, <2>1, RecursionExists
<1>3. \A i \in 0 .. n : f[i] = IF i = 0 THEN c ELSE Step(i, f[i - 1])
  <2> HIDE DEF Step, n, c
  <2>1. \A i \in 1 .. n : i - 1 \in 0 .. n /\ f[i - 1] \in Workspaces
    BY <1>1
  <2>2. \A i \in 1 .. n : st[i][f[i - 1]] = Step(i, f[i - 1])
    BY <2>1
  <2> HIDE DEF st
  <2>3. \A i \in 0 .. n : i = 0 \/ i \in 1 .. n
    BY <1>1
  <2> QED
    BY <1>2, <2>2, <2>3 DEF Follows
<1>4. \E h : Recursion(h)
  <2>1. f = [i \in 0 .. n |-> f[i]]
    OBVIOUS
  <2>2. \A s : The({s}) = s
    BY TheOnly
  <2>3. \A i : The({EraseProc(r, names[i], redef) : r \in {f[i - 1]}}) = Step(i, f[i - 1])
    BY <2>2, Zenon
  <2>4. f = [i \in 0 .. n |-> IF i = 0 THEN c ELSE The({EraseProc(r, names[i], redef) : r \in {f[i - 1]}})]
    BY <1>3, <2>1, <2>3, Zenon
  <2> QED
    BY <2>4, Zenon
<1>5. Recursion(g)
  BY <1>4, Zenon
<1>6. EraseProcs(w, names, redef) = g[n]
  BY Zenon DEF EraseProcs
<1> HIDE DEF g
<1>7. g[0] = c /\ \A i \in 1 .. n : g[i] = Step(i, g[i - 1])
  <2>1. \A s : The({s}) = s
    BY TheOnly
  <2>2. \A i : The({EraseProc(r, names[i], redef) : r \in {g[i - 1]}}) = Step(i, g[i - 1])
    BY <2>1, Zenon
  <2>3. \A i \in 0 .. n : g[i] = IF i = 0 THEN c ELSE The({EraseProc(r, names[i], redef) : r \in {g[i - 1]}})
    BY <1>5, Zenon
  <2>4. \A i \in 0 .. n : g[i] = IF i = 0 THEN c ELSE Step(i, g[i - 1])
    BY <2>2, <2>3, Zenon
  <2> HIDE DEF n, c, Step
  <2> QED
    BY <1>1, <2>4
<1>8. g \in [0 .. n -> Workspaces]
  <2> DEFINE T == {j \in 0 .. n : g[j] \in Workspaces}
  <2>1. 0 \in T /\ \A i \in 1 .. n : i - 1 \in T => i \in T
    <3> HIDE DEF Step, n, c
    <3>1. 0 \in 0 .. n /\ \A i \in 1 .. n : i \in 0 .. n
      BY <1>1
    <3>2. g[0] \in Workspaces /\ \A i \in 1 .. n : g[i - 1] \in Workspaces => g[i] \in Workspaces
      BY <1>1, <1>7
    <3> QED
      BY <3>1, <3>2
  <2>2. \A i \in 0 .. n : i \in T
    <3> HIDE DEF Step, n, c, T
    <3> QED
      BY <1>1, <2>1, Upward
  <2>3. g = [i \in 0 .. n |-> g[i]]
    BY <1>5, Zenon
  <2> HIDE DEF Step, n, c
  <2> QED
    BY <2>2, <2>3
<1> QED
  BY <1>6, <1>7, <1>8

LEMMA EraseProcIs ==
  ASSUME NEW w \in Workspaces, NEW n \in Proc, NEW redef
  PROVE  LET v == EraseProc(w, n, redef)
         IN  /\ v.val = w.val /\ v.plist = w.plist /\ v.flags = w.flags
             /\ \A m \in Proc : m # n => v.proc[m] = w.proc[m]
             /\ v.proc[n] \in {w.proc[n], UNDEFINED}
             /\ ~w.err /\ w.proc[n] # PRIM => ~v.err /\ v.proc[n] = UNDEFINED
<1> DEFINE u == [w EXCEPT !.proc[n] = UNDEFINED]
           v == EraseProc(w, n, redef)
<1>1. UNDEFINED \in Bodies
  BY DEF Bodies
<1>2. u.val = w.val /\ u.plist = w.plist /\ u.flags = w.flags /\ u.err = w.err /\ u.proc[n] = UNDEFINED
      /\ \A m \in Proc : m # n => u.proc[m] = w.proc[m]
  BY <1>1, ProcChange, ZenonT(30)
<1>3. Fail(w).proc = w.proc /\ Fail(w).val = w.val /\ Fail(w).plist = w.plist /\ Fail(w).flags = w.flags
  BY FailType
<1>4. v = IF w.err THEN w ELSE IF w.proc[n] = PRIM /\ ~redef THEN Fail(w) ELSE u
  BY DEF EraseProc, IsPrim
<1> HIDE DEF u, v
<1>5. CASE w.err
  BY <1>4, <1>5 DEF v
<1>6. CASE ~w.err /\ w.proc[n] = PRIM /\ ~redef
  <2>1. v = Fail(w)
    BY <1>4, <1>6
  <2> QED
    BY <1>3, <1>6, <2>1 DEF v
<1>7. CASE ~w.err /\ ~(w.proc[n] = PRIM /\ ~redef)
  <2>1. v = u
    BY <1>4, <1>7
  <2> QED
    BY <1>2, <1>7, <2>1 DEF v
<1> QED
  BY <1>5, <1>6, <1>7

\* Erasing makes procedures undefined, and, without a primitive among them, all of them.
LEMMA EraseProcsIs ==
  ASSUME NEW w \in Workspaces, NEW names \in Seq(Proc), NEW redef
  PROVE  LET v == EraseProcs(w, names, redef)
         IN  /\ v \in Workspaces /\ v.val = w.val /\ v.plist = w.plist /\ v.flags = w.flags
             /\ \A n \in Proc : v.proc[n] \in {w.proc[n], UNDEFINED}
             /\ ~w.err /\ (\A k \in 1 .. Len(names) : w.proc[names[k]] # PRIM) =>
                  /\ ~v.err
                  /\ \A n \in Proc : v.proc[n] = IF n \in First(names, Len(names)) THEN UNDEFINED ELSE w.proc[n]
<1> DEFINE Plain == ~w.err /\ \A k \in 1 .. Len(names) : w.proc[names[k]] # PRIM
           Kind1(v) == /\ v.val = w.val /\ v.plist = w.plist /\ v.flags = w.flags
                       /\ \A n \in Proc : v.proc[n] \in {w.proc[n], UNDEFINED}
           Kind2(v, k) == ~v.err /\ \A n \in Proc : v.proc[n] = IF n \in First(names, k) THEN UNDEFINED ELSE w.proc[n]
<1>0. Len(names) \in Nat /\ \A k \in 1 .. Len(names) : names[k] \in Proc
  OBVIOUS
<1>1. PICK f \in [0 .. Len(names) -> Workspaces] :
         /\ f[0] = w /\ (\A k \in 1 .. Len(names) : f[k] = EraseProc(f[k - 1], names[k], redef))
         /\ EraseProcs(w, names, redef) = f[Len(names)]
  BY EraseFollows
<1> DEFINE T == {k \in 0 .. Len(names) : Kind1(f[k]) /\ (Plain => Kind2(f[k], k))}
<1>2. Kind1(f[0]) /\ (Plain => Kind2(f[0], 0))
  BY <1>1, FirstIs
<1>3. ASSUME NEW k \in 1 .. Len(names), Kind1(f[k - 1]), Plain => Kind2(f[k - 1], k - 1)
      PROVE  Kind1(f[k]) /\ (Plain => Kind2(f[k], k))
  <2> DEFINE u == f[k - 1]
             v == f[k]
             n == names[k]
  <2>1. n \in Proc /\ u \in Workspaces /\ v = EraseProc(u, n, redef)
    BY <1>0, <1>1
  <2> HIDE DEF u, v, n
  <2>2. /\ v.val = u.val /\ v.plist = u.plist /\ v.flags = u.flags
        /\ \A m \in Proc : m # n => v.proc[m] = u.proc[m]
        /\ v.proc[n] \in {u.proc[n], UNDEFINED}
        /\ ~u.err /\ u.proc[n] # PRIM => ~v.err /\ v.proc[n] = UNDEFINED
    BY <2>1, EraseProcIs
  <2>3. Kind1(u) /\ (Plain => Kind2(u, k - 1)) /\ (Plain => w.proc[n] # PRIM)
    BY <1>3 DEF u, n
  <2>4. Kind1(v)
    BY <2>1, <2>2, <2>3
  <2>5. First(names, k) = First(names, k - 1) \cup {n}
    BY FirstIs DEF n
  <2>6. ASSUME Plain PROVE Kind2(v, k)
    <3>1. Kind2(u, k - 1) /\ w.proc[n] # PRIM
      BY <2>3, <2>6
    <3> HIDE DEF Plain
    <3>2. u.proc[n] # PRIM
      BY <2>1, <3>1, WorkspaceAssumption
    <3> QED
      BY <2>1, <2>2, <2>5, <3>1, <3>2
  <2> QED
    BY <2>4, <2>6 DEF v
<1> HIDE DEF Kind1, Kind2, Plain
<1>4. 0 \in T /\ \A k \in 1 .. Len(names) : k - 1 \in T => k \in T
  BY <1>0, <1>2, <1>3
<1> HIDE DEF T
<1>5. \A k \in 0 .. Len(names) : k \in T
  BY <1>0, <1>4, Upward
<1>6. Kind1(f[Len(names)]) /\ (Plain => Kind2(f[Len(names)], Len(names))) /\ f[Len(names)] \in Workspaces
  BY <1>0, <1>1, <1>5 DEF T
<1> QED
  BY <1>1, <1>6 DEF Kind1, Kind2, Plain

Erased(w, args) ==
    [w EXCEPT !.val = [n \in Var |-> IF n \in args.val THEN UNBOUND ELSE @[n]],
              !.plist = [n \in Plist |-> IF n \in args.plist THEN <<>> ELSE @[n]]]

LEMMA ErasedType ==
  ASSUME NEW w \in Workspaces, NEW args
  PROVE  /\ Erased(w, args) \in Workspaces /\ Erased(w, args).proc = w.proc /\ Erased(w, args).flags = w.flags
         /\ Erased(w, args).err = w.err
         /\ Erased(w, args).val = [n \in Var |-> IF n \in args.val THEN UNBOUND ELSE w.val[n]]
         /\ Erased(w, args).plist = [n \in Plist |-> IF n \in args.plist THEN <<>> ELSE w.plist[n]]
<1> DEFINE v == [n \in Var |-> IF n \in args.val THEN UNBOUND ELSE w.val[n]]
           l == [n \in Plist |-> IF n \in args.plist THEN <<>> ELSE w.plist[n]]
<1>1. <<>> \in Plists
  BY DEF Plists
<1>2. v \in [Var -> Value \cup {UNBOUND}] /\ l \in [Plist -> Plists]
  BY <1>1 DEF Workspaces
<1>3. Erased(w, args) = [w EXCEPT !.val = v, !.plist = l]
  BY DEF Erased
<1> HIDE DEF v, l
<1>4. /\ Erased(w, args) \in Workspaces /\ Erased(w, args).proc = w.proc /\ Erased(w, args).flags = w.flags
      /\ Erased(w, args).err = w.err /\ Erased(w, args).val = v /\ Erased(w, args).plist = l
  BY <1>2, <1>3 DEF Workspaces
<1> QED
  BY <1>4 DEF v, l

LEMMA EraseIs ==
  ASSUME NEW w \in Workspaces, NEW args, SomeNames(args)
  PROVE  LET v == Erase(w, args)
         IN  v \in Workspaces /\ v.flags = w.flags /\ \A n \in Proc : v.proc[n] \in {w.proc[n], UNDEFINED}
<1> DEFINE names == SetToSeq(args.proc)
<1>0. PICK redef : redef = VarTrue(w, Redefp)
  OBVIOUS
<1> DEFINE done == EraseProcs(w, names, redef)
<1>1. names \in Seq(Proc)
  BY NamesInSequence
<1>2. Erase(w, args) = IF done.err THEN done ELSE Erased(done, args)
  BY <1>0 DEF Erase, Erased
<1> HIDE DEF names
<1>3. done \in Workspaces /\ done.flags = w.flags /\ \A n \in Proc : done.proc[n] \in {w.proc[n], UNDEFINED}
  BY <1>1, EraseProcsIs
<1> HIDE DEF done
<1>4. Erased(done, args) \in Workspaces /\ Erased(done, args).proc = done.proc /\ Erased(done, args).flags = done.flags
  BY <1>3, ErasedType
<1> QED
  BY <1>2, <1>3, <1>4

LEMMA ErallType ==
  ASSUME NEW w \in Workspaces, NEW kinds
  PROVE  LET v == Erall(w, kinds)
         IN  /\ v \in Workspaces /\ v.flags = w.flags /\ v.err = w.err
             /\ v.proc = [n \in Proc |-> IF "proc" \in kinds /\ Erasable(w, "proc", n) THEN UNDEFINED ELSE w.proc[n]]
             /\ v.val = [n \in Var |-> IF "val" \in kinds /\ Erasable(w, "val", n) THEN UNBOUND ELSE w.val[n]]
             /\ v.plist = [n \in Plist |-> IF "plist" \in kinds /\ Erasable(w, "plist", n) THEN <<>> ELSE w.plist[n]]
<1> DEFINE p == [n \in Proc |-> IF "proc" \in kinds /\ Erasable(w, "proc", n) THEN UNDEFINED ELSE w.proc[n]]
           v == [n \in Var |-> IF "val" \in kinds /\ Erasable(w, "val", n) THEN UNBOUND ELSE w.val[n]]
           l == [n \in Plist |-> IF "plist" \in kinds /\ Erasable(w, "plist", n) THEN <<>> ELSE w.plist[n]]
<1>1. <<>> \in Plists /\ UNDEFINED \in Bodies
  BY DEF Plists, Bodies
<1>2. p \in [Proc -> Bodies] /\ v \in [Var -> Value \cup {UNBOUND}] /\ l \in [Plist -> Plists]
  BY <1>1 DEF Workspaces
<1>3. Erall(w, kinds) = [w EXCEPT !.proc = p, !.val = v, !.plist = l]
  BY DEF Erall
<1> HIDE DEF p, v, l
<1>4. /\ Erall(w, kinds) \in Workspaces /\ Erall(w, kinds).flags = w.flags /\ Erall(w, kinds).err = w.err
      /\ Erall(w, kinds).proc = p /\ Erall(w, kinds).val = v /\ Erall(w, kinds).plist = l
  BY <1>2, <1>3 DEF Workspaces
<1> QED
  BY <1>4 DEF p, v, l

LEMMA SameWorkspace ==
  ASSUME NEW u \in Workspaces, NEW v \in Workspaces, u.proc = v.proc, u.val = v.val, u.plist = v.plist,
         u.flags = v.flags, u.err = v.err
  PROVE  u = v
BY DEF Workspaces

\* ERALL and its like are ERASE of what CONTENTS has of those kinds.
LEMMA ErallErases ==
  ASSUME NEW w \in Workspaces, ~w.err, ~VarTrue(w, Redefp), NEW kinds \in SUBSET Kind
  PROVE  Erall(w, kinds) = Erase(w, Part(kinds, Contents(w)))
<1> DEFINE args == Part(kinds, Contents(w))
           names == SetToSeq(args.proc)
<1>0. PICK redef : redef = VarTrue(w, Redefp)
  OBVIOUS
<1> DEFINE done == EraseProcs(w, names, redef)
<1>1. /\ args.proc = IF "proc" \in kinds THEN Contents(w).proc ELSE {}
      /\ args.val = IF "val" \in kinds THEN Contents(w).val ELSE {}
      /\ args.plist = IF "plist" \in kinds THEN Contents(w).plist ELSE {}
  BY DEF Part, Kind
<1>2. SomeNames(args)
  <2> HIDE DEF args
  <2> QED
    BY <1>1, ContentsAre DEF SomeNames
<1>3. Erase(w, args) = IF done.err THEN done ELSE Erased(done, args)
  BY <1>0 DEF Erase, Erased
<1> HIDE DEF args
<1>4. names \in Seq(Proc) /\ IsFiniteSet(args.proc)
  BY <1>2, NamesInSequence
<1>5. First(names, Len(names)) = args.proc
  BY <1>4, SetSequence
<1> HIDE DEF names
<1>6. \A k \in 1 .. Len(names) : w.proc[names[k]] # PRIM
  <2>1. \A k \in 1 .. Len(names) : names[k] \in args.proc
    BY <1>5 DEF First
  <2> QED
    BY <1>1, <2>1, ContentsAre
<1>7. /\ done \in Workspaces /\ done.val = w.val /\ done.plist = w.plist /\ done.flags = w.flags /\ ~done.err
      /\ \A n \in Proc : done.proc[n] = IF n \in args.proc THEN UNDEFINED ELSE w.proc[n]
  <2>1. LET v == EraseProcs(w, names, redef)
        IN  /\ v \in Workspaces /\ v.val = w.val /\ v.plist = w.plist /\ v.flags = w.flags
            /\ \A n \in Proc : v.proc[n] \in {w.proc[n], UNDEFINED}
            /\ ~w.err /\ (\A k \in 1 .. Len(names) : w.proc[names[k]] # PRIM) =>
                 /\ ~v.err
                 /\ \A n \in Proc : v.proc[n] = IF n \in First(names, Len(names)) THEN UNDEFINED ELSE w.proc[n]
    BY <1>4, EraseProcsIs
  <2> QED
    BY <1>5, <1>6, <2>1
<1> HIDE DEF done
<1> DEFINE e == Erased(done, args)
           a == Erall(w, kinds)
<1>8. /\ e \in Workspaces /\ e.proc = done.proc /\ e.flags = done.flags /\ e.err = done.err
      /\ e.val = [n \in Var |-> IF n \in args.val THEN UNBOUND ELSE done.val[n]]
      /\ e.plist = [n \in Plist |-> IF n \in args.plist THEN <<>> ELSE done.plist[n]]
  BY <1>7, ErasedType
<1>9. /\ a \in Workspaces /\ a.flags = w.flags /\ a.err = w.err
      /\ a.proc = [n \in Proc |-> IF "proc" \in kinds /\ Erasable(w, "proc", n) THEN UNDEFINED ELSE w.proc[n]]
      /\ a.val = [n \in Var |-> IF "val" \in kinds /\ Erasable(w, "val", n) THEN UNBOUND ELSE w.val[n]]
      /\ a.plist = [n \in Plist |-> IF "plist" \in kinds /\ Erasable(w, "plist", n) THEN <<>> ELSE w.plist[n]]
  BY ErallType
<1> HIDE DEF e, a
<1>10. a.proc = e.proc
  <2>1. e.proc = [n \in Proc |-> e.proc[n]]
    BY <1>8 DEF Workspaces
  <2>2. ASSUME NEW n \in Proc
        PROVE  (IF "proc" \in kinds /\ Erasable(w, "proc", n) THEN UNDEFINED ELSE w.proc[n]) = e.proc[n]
    BY <1>1, <1>7, <1>8, ContentsAre DEF Erasable, IsPrim
  <2> QED
    BY <1>9, <2>1, <2>2
<1>11. a.val = e.val
  <2>1. \A n \in Var : (IF "val" \in kinds /\ Erasable(w, "val", n) THEN UNBOUND ELSE w.val[n])
                       = (IF n \in args.val THEN UNBOUND ELSE done.val[n])
    BY <1>1, <1>7, ContentsAre DEF Erasable
  <2> QED
    BY <1>8, <1>9, <2>1
<1>12. a.plist = e.plist
  <2>1. \A n \in Plist : (IF "plist" \in kinds /\ Erasable(w, "plist", n) THEN <<>> ELSE w.plist[n])
                         = (IF n \in args.plist THEN <<>> ELSE done.plist[n])
    BY <1>1, <1>7, ContentsAre DEF Erasable
  <2> QED
    BY <1>8, <1>9, <2>1
<1>13. a.err = e.err
  <2>1. w.err \in BOOLEAN /\ done.err \in BOOLEAN
    BY <1>7 DEF Workspaces
  <2> QED
    BY <1>7, <1>8, <1>9, <2>1
<1>14. a = e
  BY <1>7, <1>8, <1>9, <1>10, <1>11, <1>12, <1>13, SameWorkspace
<1> QED
  BY <1>3, <1>7, <1>14 DEF a, e, args

-----------------------------------------------------------------------------
(* What an editor makes of a text. *)

LEMMA ChangedText ==
  ASSUME NEW text \in Texts, NEW S, NEW b \in Body
  PROVE  Changed(text, S, b) \in Texts
<1> DEFINE c == [i \in 1 .. Len(text) |-> IF text[i].op = "to" /\ text[i].name \in S THEN [text[i] EXCEPT !.what = b] ELSE text[i]]
<1>1. text \in Seq(Printed) /\ Len(text) \in Nat /\ DOMAIN text = 1 .. Len(text) /\ Ordered(text)
  BY DEF Texts
<1>2. Changed(text, S, b) = c
  BY <1>1 DEF Changed
<1>3. ASSUME NEW i \in Printed, i.op = "to" PROVE [i EXCEPT !.what = b] \in Printed /\ [i EXCEPT !.what = b].op = "to"
  BY <1>3 DEF Printed, Tos, Makes, Pprops, Given
<1>4. \A i \in 1 .. Len(text) : c[i] \in Printed /\ (c[i].op = "to" <=> text[i].op = "to")
  <2> SUFFICES ASSUME NEW i \in 1 .. Len(text) PROVE c[i] \in Printed /\ (c[i].op = "to" <=> text[i].op = "to")
    OBVIOUS
  <2>1. text[i] \in Printed
    BY <1>1
  <2> QED
    BY <1>3, <2>1
<1>5. c \in Seq(Printed) /\ Len(c) = Len(text)
  <2>1. c = [i \in 1 .. Len(text) |-> c[i]]
    OBVIOUS
  <2> HIDE DEF c
  <2> QED
    BY <1>1, <1>4, <2>1
<1> HIDE DEF c
<1>6. Ordered(c)
  BY <1>1, <1>4, <1>5 DEF Ordered
<1> QED
  BY <1>2, <1>5, <1>6 DEF Texts

Keep(text, S, i, x) == IF text[i].name \in S THEN x ELSE Append(x, text[i])


LEMMA WithoutFollows ==
  ASSUME NEW text \in Seq(Printed), NEW S
  PROVE  \E f \in [0 .. Len(text) -> Seq(Printed)] :
            f[0] = <<>> /\ (\A i \in 1 .. Len(text) : f[i] = Keep(text, S, i, f[i - 1])) /\ Without(text, S) = f[Len(text)]
<1> DEFINE n == Len(text)
           c == <<>>
           Step(i, s) == Keep(text, S, i, s)
           Recursion(f) == f = [i \in 0 .. Len(text) |-> IF i = 0 THEN <<>> ELSE (IF text[i].name \in S THEN f[i - 1] ELSE Append(f[i - 1], text[i]))]
           st == [i \in 1 .. n |-> [s \in Seq(Printed) |-> Step(i, s)]]
           g == CHOOSE f : Recursion(f)
<1>1. n \in Nat /\ c \in Seq(Printed) /\ \A i \in 1 .. n : \A s \in Seq(Printed) : Step(i, s) \in Seq(Printed)
  <2>1. n \in Nat /\ \A i \in 1 .. n : text[i] \in Printed
    OBVIOUS
  <2>2. <<>> \in Seq(Printed)
    OBVIOUS
  <2>3. \A i \in 1 .. n : \A s \in Seq(Printed) : Append(s, text[i]) \in Seq(Printed)
    BY <2>1, AppendProperties
  <2> QED
    BY <2>1, <2>2, <2>3 DEF Keep
<1>2. PICK f \in [0 .. n -> Seq(Printed)] : Follows(f, n, c, st)
  <2> HIDE DEF Step, n, c
  <2>1. st \in [1 .. n -> [Seq(Printed) -> Seq(Printed)]]
    BY <1>1
  <2> HIDE DEF st
  <2> QED
    BY <1>1, <2>1, RecursionExists
<1>3. \A i \in 0 .. n : f[i] = IF i = 0 THEN c ELSE Step(i, f[i - 1])
  <2> HIDE DEF Step, n, c
  <2>1. \A i \in 1 .. n : i - 1 \in 0 .. n /\ f[i - 1] \in Seq(Printed)
    BY <1>1
  <2>2. \A i \in 1 .. n : st[i][f[i - 1]] = Step(i, f[i - 1])
    BY <2>1
  <2> HIDE DEF st
  <2>3. \A i \in 0 .. n : i = 0 \/ i \in 1 .. n
    BY <1>1
  <2> QED
    BY <1>2, <2>2, <2>3 DEF Follows
<1>4. \E h : Recursion(h)
  <2>1. f = [i \in 0 .. n |-> f[i]]
    OBVIOUS
  <2>3. \A i : (IF text[i].name \in S THEN f[i - 1] ELSE Append(f[i - 1], text[i])) = Step(i, f[i - 1])
    BY DEF Keep
  <2>4. f = [i \in 0 .. n |-> IF i = 0 THEN c ELSE (IF text[i].name \in S THEN f[i - 1] ELSE Append(f[i - 1], text[i]))]
    BY <1>3, <2>1, <2>3, Zenon
  <2> QED
    BY <2>4, Zenon
<1>5. Recursion(g)
  BY <1>4, Zenon
<1>6. Without(text, S) = g[n]
  BY Zenon DEF Without
<1> HIDE DEF g
<1>7. g[0] = c /\ \A i \in 1 .. n : g[i] = Step(i, g[i - 1])
  <2>2. \A i : (IF text[i].name \in S THEN g[i - 1] ELSE Append(g[i - 1], text[i])) = Step(i, g[i - 1])
    BY DEF Keep
  <2>3. \A i \in 0 .. n : g[i] = IF i = 0 THEN c ELSE (IF text[i].name \in S THEN g[i - 1] ELSE Append(g[i - 1], text[i]))
    BY <1>5, Zenon
  <2>4. \A i \in 0 .. n : g[i] = IF i = 0 THEN c ELSE Step(i, g[i - 1])
    BY <2>2, <2>3, Zenon
  <2> HIDE DEF n, c, Step
  <2> QED
    BY <1>1, <2>4
<1>8. g \in [0 .. n -> Seq(Printed)]
  <2> DEFINE T == {j \in 0 .. n : g[j] \in Seq(Printed)}
  <2>1. 0 \in T /\ \A i \in 1 .. n : i - 1 \in T => i \in T
    <3> HIDE DEF Step, n, c
    <3>1. 0 \in 0 .. n /\ \A i \in 1 .. n : i \in 0 .. n
      BY <1>1
    <3>2. g[0] \in Seq(Printed) /\ \A i \in 1 .. n : g[i - 1] \in Seq(Printed) => g[i] \in Seq(Printed)
      BY <1>1, <1>7
    <3> QED
      BY <3>1, <3>2
  <2>2. \A i \in 0 .. n : i \in T
    <3> HIDE DEF Step, n, c, T
    <3> QED
      BY <1>1, <2>1, Upward
  <2>3. g = [i \in 0 .. n |-> g[i]]
    BY <1>5, Zenon
  <2> HIDE DEF Step, n, c
  <2> QED
    BY <2>2, <2>3
<1> QED
  BY <1>6, <1>7, <1>8

LEMMA WithoutText ==
  ASSUME NEW text \in Texts, NEW S
  PROVE  Without(text, S) \in Texts
<1>0. text \in Seq(Printed) /\ Len(text) \in Nat /\ Ordered(text) /\ \A i \in 1 .. Len(text) : text[i] \in Printed
  BY DEF Texts
<1>1. PICK f \in [0 .. Len(text) -> Seq(Printed)] :
         /\ f[0] = <<>> /\ (\A i \in 1 .. Len(text) : f[i] = Keep(text, S, i, f[i - 1]))
         /\ Without(text, S) = f[Len(text)]
  BY <1>0, WithoutFollows
<1> DEFINE From(s, k) == \A j \in 1 .. Len(s) : \E i \in 1 .. k : s[j] = text[i]
           T == {k \in 0 .. Len(text) : From(f[k], k) /\ Ordered(f[k])}
<1>2. From(f[0], 0) /\ Ordered(f[0])
  <2>1. Len(<<>>) = 0
    OBVIOUS
  <2> QED
    BY <1>1, <2>1 DEF Ordered
<1>3. ASSUME NEW k \in 1 .. Len(text), From(f[k - 1], k - 1), Ordered(f[k - 1]) PROVE From(f[k], k) /\ Ordered(f[k])
  <2> DEFINE s == f[k - 1]
             t == f[k]
             i == text[k]
  <2>1. s \in Seq(Printed) /\ i \in Printed /\ Len(s) \in Nat
    BY <1>0, <1>1
  <2>2. t = IF i.name \in S THEN s ELSE Append(s, i)
    BY <1>1 DEF Keep
  <2>3. From(s, k - 1) /\ Ordered(s)
    BY <1>3
  <2> HIDE DEF s, t
  <2>4. CASE t = s
    BY <2>3, <2>4 DEF t
  <2>5. CASE t = Append(s, i)
    <3> HIDE DEF i
    <3>1. Len(t) = Len(s) + 1 /\ (\A j \in 1 .. Len(s) : t[j] = s[j]) /\ t[Len(t)] = i
      BY <2>1, <2>5
    <3>2. \A j \in 1 .. Len(t) : j \in 1 .. Len(s) \/ j = Len(t)
      BY <2>1, <3>1
    <3>3. From(t, k)
      <4> SUFFICES ASSUME NEW j \in 1 .. Len(t) PROVE \E m \in 1 .. k : t[j] = text[m]
        OBVIOUS
      <4>1. CASE j \in 1 .. Len(s)
        <5>1. PICK m \in 1 .. k - 1 : s[j] = text[m]
          BY <2>3, <4>1
        <5> QED
          BY <3>1, <4>1, <5>1
      <4>2. CASE j = Len(t)
        BY <3>1, <4>2 DEF i
      <4> QED
        BY <3>2, <4>1, <4>2
    <3>4. ASSUME i.op = "to" PROVE \A j \in 1 .. Len(s) : s[j].op = "to"
      <4> SUFFICES ASSUME NEW j \in 1 .. Len(s) PROVE s[j].op = "to"
        OBVIOUS
      <4>1. PICK m \in 1 .. k - 1 : s[j] = text[m]
        BY <2>3
      <4>2. m \in 1 .. Len(text) /\ k \in 1 .. Len(text) /\ m < k /\ text[k].op = "to"
        BY <1>0, <3>4 DEF i
      <4>3. text[m].op = "to"
        BY <1>0, <4>2 DEF Ordered
      <4> QED
        BY <4>1, <4>3
    <3>5. Ordered(t)
      <4> SUFFICES ASSUME NEW a \in 1 .. Len(t), NEW b \in 1 .. Len(t), a < b, t[b].op = "to" PROVE t[a].op = "to"
        BY DEF Ordered
      <4>1. a \in 1 .. Len(s) /\ t[a] = s[a]
        BY <2>1, <3>1
      <4>2. CASE b \in 1 .. Len(s)
        <5>1. s[b].op = "to"
          BY <3>1, <4>2
        <5>2. s[a].op = "to"
          BY <2>3, <4>1, <4>2, <5>1 DEF Ordered
        <5> QED
          BY <4>1, <5>2
      <4>3. CASE b = Len(t)
        BY <3>1, <3>4, <4>1, <4>3
      <4> QED
        BY <3>2, <4>2, <4>3
    <3> QED
      BY <3>3, <3>5 DEF t
  <2> QED
    BY <2>2, <2>4, <2>5
<1> HIDE DEF From
<1>4. 0 \in T /\ \A k \in 1 .. Len(text) : k - 1 \in T => k \in T
  BY <1>0, <1>2, <1>3
<1> HIDE DEF T
<1>5. \A k \in 0 .. Len(text) : k \in T
  BY <1>0, <1>4, Upward
<1>6. Ordered(f[Len(text)]) /\ f[Len(text)] \in Seq(Printed)
  BY <1>0, <1>1, <1>5 DEF T
<1> QED
  BY <1>1, <1>6 DEF Texts

-----------------------------------------------------------------------------
(* The inductive invariant. *)

Sound ==
    /\ ws \in Workspaces /\ ~ws.err
    /\ file \in Texts
    /\ \A n \in Proc : Buried(ws, n) => n \in hidden
    /\ \A n \in Library : ws.proc[n] = LibBody /\ n \notin shown => Buried(ws, n)

\* What a command may do to a workspace with the procedures S written and those of U unburied.
Stays(w, S, U) ==
    /\ w \in Workspaces
    /\ \A n \in Proc : Buried(w, n) => n \notin U /\ (Buried(ws, n) \/ n \in Autoloaded(w))
    /\ \A n \in Library : n \notin S /\ n \notin U =>
         n \in Autoloaded(w) \/ ((w.proc[n] = LibBody => ws.proc[n] = LibBody) /\ (Buried(ws, n) => Buried(w, n)))

LEMMA NoError ==
  ASSUME NEW w \in Workspaces
  PROVE  LET v == [w EXCEPT !.err = FALSE]
         IN  v \in Workspaces /\ ~v.err /\ v.proc = w.proc /\ v.val = w.val /\ v.plist = w.plist /\ v.flags = w.flags
BY DEF Workspaces

LEMMA LibraryNames == Library \subseteq Proc
BY WorkspaceAssumption

LEMMA BecomesSound ==
  ASSUME Sound, NEW w, NEW S, NEW U, Stays(w, S, U), Becomes(w, S, U), file' \in Texts
  PROVE  Sound'
<1>1. w \in Workspaces
  BY DEF Stays
<1>2. /\ ws' \in Workspaces /\ ~ws'.err /\ ws'.proc = w.proc /\ ws'.flags = w.flags
  <2>1. ws' = [w EXCEPT !.err = FALSE]
    BY DEF Becomes
  <2> QED
    BY <1>1, <2>1, NoError
<1>3. hidden' = (hidden \cup Autoloaded(w)) \ U /\ shown' = (shown \ Autoloaded(w)) \cup S \cup U
  BY DEF Becomes
<1>4. \A n : Buried(ws', n) <=> Buried(w, n)
  BY <1>2 DEF Buried
<1>5. ASSUME NEW n \in Proc, Buried(ws', n) PROVE n \in hidden'
  <2>1. n \notin U /\ (Buried(ws, n) \/ n \in Autoloaded(w))
    BY <1>4, <1>5 DEF Stays
  <2>2. Buried(ws, n) => n \in hidden
    BY DEF Sound
  <2> QED
    BY <1>3, <2>1, <2>2
<1>6. ASSUME NEW n \in Library, ws'.proc[n] = LibBody, n \notin shown' PROVE Buried(ws', n)
  <2>1. CASE n \in Autoloaded(w)
    BY <1>4, <2>1 DEF Autoloaded, Buried
  <2>2. CASE n \notin Autoloaded(w)
    <3>1. n \notin S /\ n \notin U /\ n \notin shown
      BY <1>3, <1>6, <2>2
    <3>2. ws.proc[n] = LibBody /\ (Buried(ws, n) => Buried(w, n))
      BY <1>2, <1>6, <2>2, <3>1 DEF Stays
    <3>3. Buried(ws, n)
      BY <3>1, <3>2 DEF Sound
    <3> QED
      BY <1>4, <3>2, <3>3
  <2> QED
    BY <2>1, <2>2
<1>7. \A n \in Proc : Buried(ws', n) => n \in hidden'
  BY <1>5
<1>8. \A n \in Library : ws'.proc[n] = LibBody /\ n \notin shown' => Buried(ws', n)
  BY <1>6
<1> QED
  BY <1>2, <1>7, <1>8 DEF Sound, Buried

\* A command that leaves procedures and their burying alone, but for definitions of S and erasures.
LEMMA StaysSame ==
  ASSUME NEW w \in Workspaces, NEW S,
         \A n \in Proc : Buried(w, n) <=> Buried(ws, n),
         \A n \in Proc : n \notin S => w.proc[n] \in {ws.proc[n], UNDEFINED}
  PROVE  Stays(w, S, {})
BY WorkspaceAssumption DEF Stays

LEMMA StaysAutoloads ==
  ASSUME NEW w, Autoloads(ws, w)
  PROVE  Stays(w, {}, {})
<1>1. w \in Workspaces
  BY DEF Autoloads
<1>2. \A n \in Proc : \/ w.proc[n] = ws.proc[n] /\ (Buried(w, n) <=> Buried(ws, n))
                      \/ n \in Autoloaded(w)
  BY DEF Autoloads, Autoloaded, Buried
<1> QED
  BY <1>1, <1>2, LibraryNames DEF Stays

LEMMA ListsNames == ASSUME NEW args \in Lists PROVE SomeNames(args)
<1>1. CASE args \in Args
  BY <1>1, WorkspaceAssumption DEF SomeNames
<1>2. CASE args = Contents(ws)
  BY <1>2, ContentsAre
<1>3. CASE \E f \in Flag : args = Flagged(ws, f)
  BY <1>3 DEF Flagged, Kind, Names, SomeNames
<1> QED
  BY <1>1, <1>2, <1>3 DEF Lists

LEMMA ProcsIs == ASSUME NEW args, NEW n \in Proc PROVE n \in Procs(args) <=> <<"proc", n>> \in Things(args)
<1>1. \A t \in Things(args) : t[1] = "proc" => t = <<"proc", t[2]>>
  BY DEF Things, Thing, Kind
<1> QED
  BY <1>1 DEF Procs

LEMMA ThingsAre == ASSUME NEW args PROVE Things(args) \in SUBSET Thing
BY DEF Things

LEMMA LoadsStays ==
  ASSUME NEW w, Autoloads(ws, w), NEW text \in Texts
  PROVE  LET S == Defined(text, w)
         IN  Stays(LoadText(w, text), S, IF VarTrue(w, UnburyOnEdit) THEN S ELSE {})
<1> DEFINE S == Defined(text, w)
           U == IF VarTrue(w, UnburyOnEdit) THEN S ELSE {}
           v == LoadText(w, text)
<1>1. w \in Workspaces
  BY DEF Autoloads
<1>2. Effect(w, v, S)
  BY <1>1, LoadEffect
<1>3. VarTrue(w, UnburyOnEdit) => U = S
  OBVIOUS
<1>4. ~VarTrue(w, UnburyOnEdit) => U = {}
  OBVIOUS
<1> HIDE DEF S, U, v
<1>5. \A n \in Proc : \/ w.proc[n] = ws.proc[n] /\ (Buried(w, n) <=> Buried(ws, n))
                      \/ n \in Library /\ ws.proc[n] = UNDEFINED /\ Buried(w, n)
  BY DEF Autoloads
<1>6. \A n \in Proc : Buried(v, n) => Buried(w, n) /\ n \notin U
  BY <1>2, <1>3, <1>4 DEF Effect, Buried
<1>7. \A n \in Proc : n \notin S => v.proc[n] = w.proc[n] /\ (Buried(v, n) <=> Buried(w, n))
  BY <1>2 DEF Effect
<1>8. \A n \in Proc : n \in Library /\ ws.proc[n] = UNDEFINED /\ Buried(v, n) => n \in Autoloaded(v)
  BY DEF Autoloaded, Buried
<1>9. \A n \in Proc : Buried(v, n) => n \notin U /\ (Buried(ws, n) \/ n \in Autoloaded(v))
  BY <1>5, <1>6, <1>8
<1>10. \A n \in Library : n \notin S /\ n \notin U =>
         n \in Autoloaded(v) \/ ((v.proc[n] = LibBody => ws.proc[n] = LibBody) /\ (Buried(ws, n) => Buried(v, n)))
  BY <1>5, <1>7, <1>8, LibraryNames
<1>11. v \in Workspaces
  BY <1>2 DEF Effect
<1> QED
  BY <1>9, <1>10, <1>11 DEF Stays, S, U, v

LEMMA SelfAutoloads == ASSUME NEW w \in Workspaces PROVE Autoloads(w, w)
BY DEF Autoloads

LEMMA LoadsSound ==
  ASSUME Sound, NEW w, Autoloads(ws, w), NEW text \in Texts, Loads(w, text)
  PROVE  Sound'
<1> DEFINE S == Defined(text, w)
           U == IF VarTrue(w, UnburyOnEdit) THEN S ELSE {}
           v == LoadText(w, text)
<1>1. Becomes(v, S, U) /\ UNCHANGED file
  BY DEF Loads
<1>2. Stays(v, S, U)
  BY LoadsStays
<1>3. file' \in Texts
  BY <1>1 DEF Sound
<1> HIDE DEF S, U, v
<1> QED
  BY <1>1, <1>2, <1>3, BecomesSound

-----------------------------------------------------------------------------
(* How often a word is in a list. *)

LEMMA OccursAppend ==
  ASSUME NEW s \in Seq(Int), NEW x \in Int, NEW v \in Int
  PROVE  Occurs(s, v) \in Nat /\ Occurs(Append(s, x), v) = Occurs(s, v) + (IF x = v THEN 1 ELSE 0)
<1> DEFINE t == Append(s, x)
           n == Len(s)
           A == {i \in 1 .. n : s[i] = v}
           B == {i \in 1 .. n + 1 : t[i] = v}
<1>1. n \in Nat /\ t \in Seq(Int) /\ Len(t) = n + 1 /\ (\A i \in 1 .. n : t[i] = s[i]) /\ t[n + 1] = x
  BY AppendProperties
<1>2. Occurs(s, v) = Cardinality(A) /\ Occurs(t, v) = Cardinality(B)
  <2>1. DOMAIN s = 1 .. n /\ DOMAIN t = 1 .. n + 1
    BY <1>1
  <2> HIDE DEF t, n
  <2> QED
    BY <2>1 DEF Occurs
<1> HIDE DEF t, n
<1>3. IsFiniteSet(A)
  <2>1. IsFiniteSet(1 .. n)
    BY <1>1, FS_Interval
  <2>2. A \in SUBSET (1 .. n)
    OBVIOUS
  <2> HIDE DEF A
  <2> QED
    BY <2>1, <2>2, FS_Subset
<1>4. \A i \in 1 .. n + 1 : i \in 1 .. n \/ i = n + 1
  BY <1>1
<1>5. CASE x = v
  <2>1. B = A \cup {n + 1} /\ n + 1 \notin A
    BY <1>1, <1>4, <1>5
  <2> HIDE DEF A, B
  <2>2. Cardinality(B) = Cardinality(A) + 1
    BY <1>3, <2>1, FS_AddElement
  <2>3. Cardinality(A) \in Nat
    BY <1>3, FS_CardinalityType
  <2> QED
    BY <1>2, <1>5, <2>2, <2>3 DEF t
<1>6. CASE x # v
  <2>1. B = A
    BY <1>1, <1>4, <1>6
  <2> HIDE DEF A, B
  <2>3. Cardinality(A) \in Nat
    BY <1>3, FS_CardinalityType
  <2> QED
    BY <1>2, <1>6, <2>1, <2>3 DEF t
<1> QED
  BY <1>5, <1>6

LEMMA OccursNone == ASSUME NEW v PROVE Occurs(<<>>, v) = 0
<1>1. {i \in DOMAIN <<>> : <<>>[i] = v} = {}
  OBVIOUS
<1> QED
  BY <1>1, FS_EmptySet DEF Occurs

LEMMA OccursType == ASSUME NEW s \in Seq(Int), NEW v \in Int PROVE Occurs(s, v) \in Nat
<1>1. v \in Int
  OBVIOUS
<1> QED
  BY <1>1, OccursAppend

LEMMA ConcatStep ==
  ASSUME NEW S, NEW a \in Seq(S), NEW b \in Seq(S), NEW k \in 1 .. Len(b)
  PROVE  /\ a \o SubSeq(b, 1, k) = Append(a \o SubSeq(b, 1, k - 1), b[k])
         /\ a \o SubSeq(b, 1, k - 1) \in Seq(S) /\ b[k] \in S
<1> DEFINE c == SubSeq(b, 1, k - 1)
           d == SubSeq(b, 1, k)
<1>1. c \in Seq(S) /\ b[k] \in S /\ d = Append(c, b[k])
  OBVIOUS
<1> HIDE DEF c, d
<1>2. a \o Append(c, b[k]) = Append(a \o c, b[k]) /\ a \o c \in Seq(S)
  BY <1>1
<1> QED
  BY <1>1, <1>2 DEF c, d

LEMMA OccursConcat ==
  ASSUME NEW a \in Seq(Int), NEW b \in Seq(Int), NEW v \in Int
  PROVE  Occurs(a \o b, v) = Occurs(a, v) + Occurs(b, v)
<1> DEFINE P(k) == Occurs(a \o SubSeq(b, 1, k), v) = Occurs(a, v) + Occurs(SubSeq(b, 1, k), v)
           T == {k \in 0 .. Len(b) : P(k)}
<1>0. Len(b) \in Nat
  OBVIOUS
<1>1. P(0)
  <2>1. SubSeq(b, 1, 0) = <<>> /\ a \o <<>> = a
    BY SubSeqEmpty
  <2>2. Occurs(a, v) \in Nat /\ Occurs(<<>>, v) = 0
    BY OccursNone, OccursType
  <2>3. Occurs(a \o SubSeq(b, 1, 0), v) = Occurs(a, v) /\ Occurs(SubSeq(b, 1, 0), v) = 0
    BY <2>1, <2>2
  <2> QED
    BY <2>2, <2>3
<1>2. ASSUME NEW k \in 1 .. Len(b), P(k - 1) PROVE P(k)
  <2> DEFINE c == SubSeq(b, 1, k - 1)
             ac == a \o c
             one == IF b[k] = v THEN 1 ELSE 0
  <2>1. a \o SubSeq(b, 1, k) = Append(ac, b[k]) /\ ac \in Seq(Int) /\ b[k] \in Int
    BY ConcatStep
  <2>2. SubSeq(b, 1, k) = Append(c, b[k]) /\ c \in Seq(Int)
    OBVIOUS
  <2>3. Occurs(ac, v) = Occurs(a, v) + Occurs(c, v)
    BY <1>2
  <2> HIDE DEF c, ac
  <2>4. Occurs(Append(ac, b[k]), v) = Occurs(ac, v) + one
    BY <2>1, OccursAppend
  <2>5. Occurs(Append(c, b[k]), v) = Occurs(c, v) + one
    BY <2>1, <2>2, OccursAppend
  <2>6. Occurs(a, v) \in Nat /\ Occurs(c, v) \in Nat /\ one \in Nat
    BY <2>2, OccursType
  <2> HIDE DEF one
  <2>7. Occurs(Append(ac, b[k]), v) = Occurs(a, v) + Occurs(Append(c, b[k]), v)
    <3> DEFINE x == Occurs(a, v)
               y == Occurs(c, v)
               z == Occurs(ac, v)
               p == Occurs(Append(ac, b[k]), v)
               q == Occurs(Append(c, b[k]), v)
    <3>1. z = x + y /\ p = z + one /\ q = y + one /\ x \in Nat /\ y \in Nat /\ one \in Nat
      BY <2>3, <2>4, <2>5, <2>6
    <3> HIDE DEF x, y, z, p, q
    <3>2. p = x + q
      BY <3>1
    <3> QED
      BY <3>2 DEF x, p, q
  <2> QED
    BY <2>1, <2>2, <2>7
<1> HIDE DEF P
<1>3. 0 \in T /\ \A k \in 1 .. Len(b) : k - 1 \in T => k \in T
  BY <1>0, <1>1, <1>2
<1> HIDE DEF T
<1>4. \A k \in 0 .. Len(b) : k \in T
  BY <1>0, <1>3, Upward
<1>5. P(Len(b))
  BY <1>0, <1>4 DEF T
<1>6. SubSeq(b, 1, Len(b)) = b
  BY SubSeqFull
<1> QED
  BY <1>5, <1>6 DEF P

-----------------------------------------------------------------------------
(* Merging two lists that are in order. *)

Ascends(s) == \A i, j \in 1 .. Len(s) : i <= j => s[i] <= s[j]
Sorted == {s \in Seq(Int) : Ascends(s)}
Below(r, x) == \A j \in 1 .. Len(r) : \A k \in 1 .. Len(x) : r[j] <= x[k]

\* The head of a list that is in order goes to the end of a list that is below it.
LEMMA HeadMoves ==
  ASSUME NEW r \in Sorted, NEW x \in Sorted, x # <<>>, NEW y \in Sorted, Below(r, x), Below(r, y),
         y # <<>> => Head(x) <= Head(y)
  PROVE  LET q == Append(r, Head(x))
             z == Tail(x)
         IN  /\ q \in Sorted /\ z \in Sorted /\ Below(q, z) /\ Below(q, y)
             /\ Len(q) = Len(r) + 1 /\ Len(x) = Len(z) + 1
             /\ \A v \in Int : Occurs(q, v) + Occurs(z, v) = Occurs(r, v) + Occurs(x, v)
<1> DEFINE h == Head(x)
           z == Tail(x)
           q == Append(r, h)
<1>1. /\ r \in Seq(Int) /\ x \in Seq(Int) /\ y \in Seq(Int) /\ Len(r) \in Nat /\ Len(x) \in Nat \ {0} /\ Len(y) \in Nat
      /\ Ascends(r) /\ Ascends(x) /\ Ascends(y)
  BY EmptySeq DEF Sorted
<1>2. h \in Int /\ h = x[1] /\ z \in Seq(Int) /\ Len(z) = Len(x) - 1 /\ \A i \in 1 .. Len(z) : z[i] = x[i + 1]
  BY <1>1, HeadTailProperties
<1>3. q \in Seq(Int) /\ Len(q) = Len(r) + 1 /\ (\A i \in 1 .. Len(r) : q[i] = r[i]) /\ q[Len(r) + 1] = h
  BY <1>1, <1>2, AppendProperties
<1>4. x = <<h>> \o z
  <2>1. <<h>> \in Seq(Int) /\ Len(<<h>>) = 1 /\ <<h>>[1] = h
    BY <1>2
  <2> HIDE DEF h, z
  <2>2. <<h>> \o z \in Seq(Int) /\ Len(<<h>> \o z) = Len(x)
    BY <1>1, <1>2, <2>1, ConcatProperties
  <2>3. \A i \in 1 .. Len(x) : (<<h>> \o z)[i] = x[i]
    BY <1>1, <1>2, <2>1
  <2> QED
    BY <1>1, <2>2, <2>3, SeqEqual
<1>5. y # <<>> => y[1] = Head(y) /\ Len(y) # 0
  BY <1>1
<1> HIDE DEF h, z, q
<1>6. \A i \in 1 .. Len(r) : r[i] \in Int /\ r[i] <= h
  <2>1. 1 \in 1 .. Len(x)
    BY <1>1
  <2>2. \A i \in 1 .. Len(r) : r[i] <= x[1]
    BY <2>1 DEF Below
  <2> QED
    BY <1>1, <1>2, <2>2
<1>7. \A i \in 1 .. Len(x) : x[i] \in Int /\ h <= x[i]
  <2> SUFFICES ASSUME NEW i \in 1 .. Len(x) PROVE x[i] \in Int /\ h <= x[i]
    OBVIOUS
  <2>1. x[i] \in Int /\ 1 \in 1 .. Len(x) /\ 1 <= i
    BY <1>1
  <2>2. x[1] <= x[i]
    BY <1>1, <2>1 DEF Ascends
  <2> QED
    BY <1>2, <2>1, <2>2
<1>8. \A i \in 1 .. Len(y) : y[i] \in Int /\ h <= y[i]
  <2> SUFFICES ASSUME NEW i \in 1 .. Len(y) PROVE y[i] \in Int /\ h <= y[i]
    OBVIOUS
  <2>1. y # <<>> /\ y[1] \in Int /\ y[i] \in Int
    BY <1>1
  <2>2. h <= y[1] /\ y[1] <= y[i]
    BY <1>1, <1>5, <2>1 DEF Ascends, h
  <2> QED
    BY <1>2, <2>1, <2>2
<1>9. \A i \in 1 .. Len(q) : i \in 1 .. Len(r) \/ i = Len(r) + 1
  BY <1>1, <1>3
<1>10. \A i \in 1 .. Len(q) : q[i] \in Int /\ q[i] <= h
  <2> SUFFICES ASSUME NEW i \in 1 .. Len(q) PROVE q[i] \in Int /\ q[i] <= h
    OBVIOUS
  <2>1. CASE i \in 1 .. Len(r)
    <3>1. q[i] = r[i] /\ r[i] \in Int /\ r[i] <= h
      BY <1>3, <1>6, <2>1
    <3> QED
      BY <3>1
  <2>2. CASE i = Len(r) + 1
    <3>1. q[i] = h
      BY <1>3, <2>2
    <3> QED
      BY <1>2, <3>1
  <2> QED
    BY <1>9, <2>1, <2>2
<1>15. Ascends(q)
  <2> SUFFICES ASSUME NEW i \in 1 .. Len(q), NEW j \in 1 .. Len(q), i <= j PROVE q[i] <= q[j]
    BY DEF Ascends
  <2>1. CASE j \in 1 .. Len(r)
    <3>1. i \in 1 .. Len(r)
      BY <1>9, <2>1
    <3> QED
      BY <1>1, <1>3, <2>1, <3>1 DEF Ascends
  <2>2. CASE j = Len(r) + 1
    <3>1. q[j] = h
      BY <1>3, <2>2
    <3>2. q[i] \in Int /\ q[i] <= h
      BY <1>10
    <3> QED
      BY <3>1, <3>2
  <2> QED
    BY <1>9, <2>1, <2>2
<1>11. Ascends(z)
  <2> SUFFICES ASSUME NEW i \in 1 .. Len(z), NEW j \in 1 .. Len(z), i <= j PROVE z[i] <= z[j]
    BY DEF Ascends
  <2>1. z[i] = x[i + 1] /\ z[j] = x[j + 1]
    BY <1>2
  <2>2. i + 1 \in 1 .. Len(x) /\ j + 1 \in 1 .. Len(x) /\ i + 1 <= j + 1
    BY <1>1, <1>2
  <2> QED
    BY <1>1, <2>1, <2>2 DEF Ascends
<1>12. Below(q, z)
  <2>1. \A k \in 1 .. Len(z) : z[k] = x[k + 1] /\ k + 1 \in 1 .. Len(x)
    BY <1>1, <1>2
  <2>2. \A k \in 1 .. Len(z) : z[k] \in Int /\ h <= z[k]
    BY <1>7, <2>1
  <2> QED
    BY <1>2, <1>10, <2>2 DEF Below
<1>13. Below(q, y)
  BY <1>2, <1>8, <1>10 DEF Below
<1>14. ASSUME NEW v \in Int PROVE Occurs(q, v) + Occurs(z, v) = Occurs(r, v) + Occurs(x, v)
  <2> DEFINE one == IF h = v THEN 1 ELSE 0
  <2>1. Occurs(q, v) = Occurs(r, v) + one
    <3>1. r \in Seq(Int) /\ h \in Int
      BY <1>1, <1>2
    <3>2. Occurs(Append(r, h), v) = Occurs(r, v) + one
      BY <3>1, OccursAppend, SMTT(30)
    <3> QED
      BY <3>2 DEF q
  <2>2. Occurs(<<h>>, v) = one
    <3>1. <<>> \in Seq(Int) /\ Append(<<>>, h) = <<h>>
      BY <1>2
    <3>2. Occurs(Append(<<>>, h), v) = Occurs(<<>>, v) + one
      BY <1>2, <3>1, OccursAppend
    <3>3. one \in Nat /\ Occurs(<<>>, v) = 0
      BY OccursNone
    <3> HIDE DEF one
    <3> QED
      BY <3>1, <3>2, <3>3
  <2>3. <<h>> \in Seq(Int)
    BY <1>2
  <2>4. Occurs(x, v) = Occurs(<<h>>, v) + Occurs(z, v)
    <3>1. Occurs(<<h>> \o z, v) = Occurs(<<h>>, v) + Occurs(z, v)
      BY <1>2, <2>3, OccursConcat, Zenon
    <3> QED
      BY <1>4, <3>1
  <2>5. Occurs(r, v) \in Nat /\ Occurs(z, v) \in Nat /\ one \in Nat
    BY <1>1, <1>2, OccursType
  <2> HIDE DEF one
  <2> QED
    BY <2>1, <2>2, <2>4, <2>5
<1> QED
  BY <1>1, <1>2, <1>3, <1>11, <1>12, <1>13, <1>14, <1>15 DEF Sorted, q, z, h

Merges == [a : Sorted, b : Sorted, ret : Sorted]

\* What is in the three lists together.
Holds(m, v) == Occurs(m.ret, v) + (Occurs(m.a, v) + Occurs(m.b, v))
Length(m) == Len(m.ret) + (Len(m.a) + Len(m.b))
Merging(m) == m \in Merges /\ Below(m.ret, m.a) /\ Below(m.ret, m.b)

LEMMA MergeStepIs ==
  ASSUME NEW m, Merging(m)
  PROVE  LET n == MergeStep(m)
         IN  /\ Merging(n) /\ Length(n) = Length(m) /\ \A v \in Int : Holds(n, v) = Holds(m, v)
             /\ \/ n.a = <<>> \/ n.b = <<>>
                \/ m.a # <<>> /\ m.b # <<>> /\ Len(n.ret) = Len(m.ret) + 1
<1> DEFINE n == MergeStep(m)
<1>1. m.a \in Sorted /\ m.b \in Sorted /\ m.ret \in Sorted /\ Below(m.ret, m.a) /\ Below(m.ret, m.b)
      /\ m = [a |-> m.a, b |-> m.b, ret |-> m.ret]
  BY DEF Merging, Merges
<1>2. /\ Len(m.a) \in Nat /\ Len(m.b) \in Nat /\ Len(m.ret) \in Nat
      /\ \A v \in Int : Occurs(m.a, v) \in Nat /\ Occurs(m.b, v) \in Nat /\ Occurs(m.ret, v) \in Nat
  BY <1>1, OccursType DEF Sorted
<1>3. CASE m.a = <<>> \/ m.b = <<>>
  <2>1. n = m
    BY <1>3 DEF MergeStep
  <2> HIDE DEF n
  <2> QED
    BY <1>3, <2>1 DEF n
<1>4. CASE m.a # <<>> /\ m.b # <<>>
  <2>0. Head(m.a) \in Int /\ Head(m.b) \in Int
    BY <1>1, <1>4 DEF Sorted
  <2>1. CASE Head(m.a) < Head(m.b)
    <3> DEFINE q == Append(m.ret, Head(m.a))
               z == Tail(m.a)
    <3>1. Head(m.a) <= Head(m.b)
      BY <2>0, <2>1
    <3>2. n = [a |-> z, b |-> m.b, ret |-> q]
      BY <1>1, <1>4, <2>1 DEF MergeStep
    <3>3. /\ q \in Sorted /\ z \in Sorted /\ Below(q, z) /\ Below(q, m.b)
          /\ Len(q) = Len(m.ret) + 1 /\ Len(m.a) = Len(z) + 1
          /\ \A v \in Int : Occurs(q, v) + Occurs(z, v) = Occurs(m.ret, v) + Occurs(m.a, v)
      BY <1>1, <1>4, <3>1, HeadMoves
    <3> HIDE DEF q, z, n
    <3>4. n.a = z /\ n.b = m.b /\ n.ret = q /\ n \in Merges
      BY <1>1, <3>2, <3>3 DEF Merges
    <3>5. Merging(n)
      BY <3>3, <3>4 DEF Merging
    <3>6. Length(n) = Length(m)
      <4>1. Len(z) \in Nat /\ Len(q) \in Nat
        BY <3>3 DEF Sorted
      <4>2. Length(n) = Len(q) + (Len(z) + Len(m.b))
        BY <3>4 DEF Length
      <4>3. Length(m) = Len(m.ret) + (Len(m.a) + Len(m.b))
        BY DEF Length
      <4> DEFINE x1 == Len(q)
                 x2 == Len(z)
                 x3 == Len(m.a)
                 x4 == Len(m.b)
                 x5 == Len(m.ret)
                 s == Length(n)
                 d == Length(m)
      <4>5. /\ s = x1 + (x2 + x4) /\ d = x5 + (x3 + x4) /\ x1 = x5 + 1 /\ x3 = x2 + 1
            /\ x1 \in Nat /\ x2 \in Nat /\ x3 \in Nat /\ x4 \in Nat /\ x5 \in Nat
        BY <1>2, <3>3, <4>1, <4>2, <4>3
      <4> HIDE DEF x1, x2, x3, x4, x5, s, d
      <4>6. s = d
        BY <4>5
      <4> QED
        BY <4>6 DEF s, d
    <3>7. ASSUME NEW v \in Int PROVE Holds(n, v) = Holds(m, v)
      <4>1. Occurs(z, v) \in Nat /\ Occurs(q, v) \in Nat
        BY <3>3, OccursType DEF Sorted
      <4>2. Holds(n, v) = Occurs(q, v) + (Occurs(z, v) + Occurs(m.b, v))
        BY <3>4 DEF Holds
      <4>3. Holds(m, v) = Occurs(m.ret, v) + (Occurs(m.a, v) + Occurs(m.b, v))
        BY DEF Holds
      <4>4. Occurs(q, v) + Occurs(z, v) = Occurs(m.ret, v) + Occurs(m.a, v)
        BY <3>3
      <4> DEFINE x1 == Occurs(q, v)
                 x2 == Occurs(z, v)
                 x3 == Occurs(m.a, v)
                 x4 == Occurs(m.b, v)
                 x5 == Occurs(m.ret, v)
                 s == Holds(n, v)
                 d == Holds(m, v)
      <4>5. /\ s = x1 + (x2 + x4) /\ d = x5 + (x3 + x4) /\ x1 + x2 = x5 + x3
            /\ x1 \in Nat /\ x2 \in Nat /\ x3 \in Nat /\ x4 \in Nat /\ x5 \in Nat
        BY <1>2, <4>1, <4>2, <4>3, <4>4
      <4> HIDE DEF x1, x2, x3, x4, x5, s, d
      <4>6. s = d
        BY <4>5
      <4> QED
        BY <4>6 DEF s, d
    <3> QED
      BY <1>4, <3>3, <3>4, <3>5, <3>6, <3>7 DEF n
  <2>2. CASE ~(Head(m.a) < Head(m.b))
    <3> DEFINE q == Append(m.ret, Head(m.b))
               z == Tail(m.b)
    <3>1. Head(m.b) <= Head(m.a)
      BY <2>0, <2>2
    <3>2. n = [a |-> m.a, b |-> z, ret |-> q]
      BY <1>1, <1>4, <2>2 DEF MergeStep
    <3>3. /\ q \in Sorted /\ z \in Sorted /\ Below(q, z) /\ Below(q, m.a)
          /\ Len(q) = Len(m.ret) + 1 /\ Len(m.b) = Len(z) + 1
          /\ \A v \in Int : Occurs(q, v) + Occurs(z, v) = Occurs(m.ret, v) + Occurs(m.b, v)
      BY <1>1, <1>4, <3>1, HeadMoves
    <3> HIDE DEF q, z, n
    <3>4. n.a = m.a /\ n.b = z /\ n.ret = q /\ n \in Merges
      BY <1>1, <3>2, <3>3 DEF Merges
    <3>5. Merging(n)
      BY <3>3, <3>4 DEF Merging
    <3>6. Length(n) = Length(m)
      <4>1. Len(z) \in Nat /\ Len(q) \in Nat
        BY <3>3 DEF Sorted
      <4>2. Length(n) = Len(q) + (Len(m.a) + Len(z))
        BY <3>4 DEF Length
      <4>3. Length(m) = Len(m.ret) + (Len(m.a) + Len(m.b))
        BY DEF Length
      <4> DEFINE x1 == Len(q)
                 x2 == Len(z)
                 x3 == Len(m.a)
                 x4 == Len(m.b)
                 x5 == Len(m.ret)
                 s == Length(n)
                 d == Length(m)
      <4>5. /\ s = x1 + (x3 + x2) /\ d = x5 + (x3 + x4) /\ x1 = x5 + 1 /\ x4 = x2 + 1
            /\ x1 \in Nat /\ x2 \in Nat /\ x3 \in Nat /\ x4 \in Nat /\ x5 \in Nat
        BY <1>2, <3>3, <4>1, <4>2, <4>3
      <4> HIDE DEF x1, x2, x3, x4, x5, s, d
      <4>6. s = d
        BY <4>5
      <4> QED
        BY <4>6 DEF s, d
    <3>7. ASSUME NEW v \in Int PROVE Holds(n, v) = Holds(m, v)
      <4>1. Occurs(z, v) \in Nat /\ Occurs(q, v) \in Nat
        BY <3>3, OccursType DEF Sorted
      <4>2. Holds(n, v) = Occurs(q, v) + (Occurs(m.a, v) + Occurs(z, v))
        BY <3>4 DEF Holds
      <4>3. Holds(m, v) = Occurs(m.ret, v) + (Occurs(m.a, v) + Occurs(m.b, v))
        BY DEF Holds
      <4>4. Occurs(q, v) + Occurs(z, v) = Occurs(m.ret, v) + Occurs(m.b, v)
        BY <3>3
      <4> DEFINE x1 == Occurs(q, v)
                 x2 == Occurs(z, v)
                 x3 == Occurs(m.a, v)
                 x4 == Occurs(m.b, v)
                 x5 == Occurs(m.ret, v)
                 s == Holds(n, v)
                 d == Holds(m, v)
      <4>5. /\ s = x1 + (x3 + x2) /\ d = x5 + (x3 + x4) /\ x1 + x2 = x5 + x4
            /\ x1 \in Nat /\ x2 \in Nat /\ x3 \in Nat /\ x4 \in Nat /\ x5 \in Nat
        BY <1>2, <4>1, <4>2, <4>3, <4>4
      <4> HIDE DEF x1, x2, x3, x4, x5, s, d
      <4>6. s = d
        BY <4>5
      <4> QED
        BY <4>6 DEF s, d
    <3> QED
      BY <1>4, <3>3, <3>4, <3>5, <3>6, <3>7 DEF n
  <2> QED
    BY <2>1, <2>2
<1> QED
  BY <1>3, <1>4

AllMerging == {m \in Merges : Merging(m)}
MergeBegins(a, b) == [a |-> a, b |-> b, ret |-> <<>>]

LEMMA MergeBeginsWell ==
  ASSUME NEW a \in Sorted, NEW b \in Sorted
  PROVE  /\ MergeBegins(a, b) \in AllMerging /\ MergeBegins(a, b).a = a /\ MergeBegins(a, b).b = b
         /\ MergeBegins(a, b).ret = <<>> /\ <<>> \in Sorted
<1>1. <<>> \in Sorted
  BY DEF Sorted, Ascends
<1> QED
  BY <1>1 DEF MergeBegins, AllMerging, Merging, Merges, Below


LEMMA MergeFollows ==
  ASSUME NEW a \in Sorted, NEW b \in Sorted
  PROVE  \E f \in [0 .. Len(a) + Len(b) -> AllMerging] :
            f[0] = MergeBegins(a, b) /\ (\A i \in 1 .. Len(a) + Len(b) : f[i] = MergeStep(f[i - 1])) /\ Merge(a, b) = f[Len(a) + Len(b)].ret \o (f[Len(a) + Len(b)].a \o f[Len(a) + Len(b)].b)
<1> DEFINE n == Len(a) + Len(b)
           c == MergeBegins(a, b)
           Step(i, s) == MergeStep(s)
           Recursion(f) == f = [i \in 0 .. Len(a) + Len(b) |-> IF i = 0 THEN MergeBegins(a, b) ELSE The({MergeStep(m) : m \in {f[i - 1]}})]
           st == [i \in 1 .. n |-> [s \in AllMerging |-> Step(i, s)]]
           g == CHOOSE f : Recursion(f)
<1>1. n \in Nat /\ c \in AllMerging /\ \A i \in 1 .. n : \A s \in AllMerging : Step(i, s) \in AllMerging
  <2>1. n \in Nat
    BY DEF Sorted
  <2>2. \A m \in AllMerging : MergeStep(m) \in AllMerging
    BY MergeStepIs DEF AllMerging, Merging
  <2> QED
    BY <2>1, <2>2, MergeBeginsWell
<1>2. PICK f \in [0 .. n -> AllMerging] : Follows(f, n, c, st)
  <2> HIDE DEF Step, n, c
  <2>1. st \in [1 .. n -> [AllMerging -> AllMerging]]
    BY <1>1
  <2> HIDE DEF st
  <2> QED
    BY <1>1, <2>1, RecursionExists
<1>3. \A i \in 0 .. n : f[i] = IF i = 0 THEN c ELSE Step(i, f[i - 1])
  <2> HIDE DEF Step, n, c
  <2>1. \A i \in 1 .. n : i - 1 \in 0 .. n /\ f[i - 1] \in AllMerging
    BY <1>1
  <2>2. \A i \in 1 .. n : st[i][f[i - 1]] = Step(i, f[i - 1])
    BY <2>1
  <2> HIDE DEF st
  <2>3. \A i \in 0 .. n : i = 0 \/ i \in 1 .. n
    BY <1>1
  <2> QED
    BY <1>2, <2>2, <2>3 DEF Follows
<1>4. \E h : Recursion(h)
  <2>1. f = [i \in 0 .. n |-> f[i]]
    OBVIOUS
  <2>2. \A s : The({s}) = s
    BY TheOnly
  <2>3. \A i : The({MergeStep(m) : m \in {f[i - 1]}}) = Step(i, f[i - 1])
    BY <2>2, Zenon
  <2>4. f = [i \in 0 .. n |-> IF i = 0 THEN c ELSE The({MergeStep(m) : m \in {f[i - 1]}})]
    BY <1>3, <2>1, <2>3, Zenon
  <2> QED
    BY <2>4, Zenon
<1>5. Recursion(g)
  BY <1>4, Zenon
<1>6. Merge(a, b) = g[n].ret \o (g[n].a \o g[n].b)
  BY Zenon DEF Merge, MergeBegins
<1> HIDE DEF g
<1>7. g[0] = c /\ \A i \in 1 .. n : g[i] = Step(i, g[i - 1])
  <2>1. \A s : The({s}) = s
    BY TheOnly
  <2>2. \A i : The({MergeStep(m) : m \in {g[i - 1]}}) = Step(i, g[i - 1])
    BY <2>1, Zenon
  <2>3. \A i \in 0 .. n : g[i] = IF i = 0 THEN c ELSE The({MergeStep(m) : m \in {g[i - 1]}})
    BY <1>5, Zenon
  <2>4. \A i \in 0 .. n : g[i] = IF i = 0 THEN c ELSE Step(i, g[i - 1])
    BY <2>2, <2>3, Zenon
  <2> HIDE DEF n, c, Step
  <2> QED
    BY <1>1, <2>4
<1>8. g \in [0 .. n -> AllMerging]
  <2> DEFINE T == {j \in 0 .. n : g[j] \in AllMerging}
  <2>1. 0 \in T /\ \A i \in 1 .. n : i - 1 \in T => i \in T
    <3> HIDE DEF Step, n, c
    <3>1. 0 \in 0 .. n /\ \A i \in 1 .. n : i \in 0 .. n
      BY <1>1
    <3>2. g[0] \in AllMerging /\ \A i \in 1 .. n : g[i - 1] \in AllMerging => g[i] \in AllMerging
      BY <1>1, <1>7
    <3> QED
      BY <3>1, <3>2
  <2>2. \A i \in 0 .. n : i \in T
    <3> HIDE DEF Step, n, c, T
    <3> QED
      BY <1>1, <2>1, Upward
  <2>3. g = [i \in 0 .. n |-> g[i]]
    BY <1>5, Zenon
  <2> HIDE DEF Step, n, c
  <2> QED
    BY <2>2, <2>3
<1> QED
  BY <1>6, <1>7, <1>8

LEMMA AscendsConcat ==
  ASSUME NEW r \in Sorted, NEW x \in Sorted, Below(r, x)
  PROVE  r \o x \in Sorted
<1> DEFINE s == r \o x
<1>1. r \in Seq(Int) /\ x \in Seq(Int) /\ Len(r) \in Nat /\ Len(x) \in Nat /\ Ascends(r) /\ Ascends(x)
  BY DEF Sorted
<1>2. /\ s \in Seq(Int) /\ Len(s) = Len(r) + Len(x) /\ (\A i \in 1 .. Len(r) : s[i] = r[i])
      /\ \A i \in Len(r) + 1 .. Len(s) : s[i] = x[i - Len(r)] /\ i - Len(r) \in 1 .. Len(x)
  BY <1>1
<1> HIDE DEF s
<1>3. Ascends(s)
  <2> SUFFICES ASSUME NEW i \in 1 .. Len(s), NEW j \in 1 .. Len(s), i <= j PROVE s[i] <= s[j]
    BY DEF Ascends
  <2>1. CASE j \in 1 .. Len(r)
    <3>1. i \in 1 .. Len(r)
      BY <1>1, <2>1
    <3>2. s[i] = r[i] /\ s[j] = r[j]
      BY <1>2, <2>1, <3>1
    <3> QED
      BY <1>1, <2>1, <3>1, <3>2 DEF Ascends
  <2>2. CASE i \in Len(r) + 1 .. Len(s)
    <3>1. j \in Len(r) + 1 .. Len(s) /\ i - Len(r) <= j - Len(r)
      BY <1>1, <1>2, <2>2
    <3> QED
      BY <1>1, <1>2, <2>2, <3>1 DEF Ascends
  <2>3. CASE i \in 1 .. Len(r) /\ j \in Len(r) + 1 .. Len(s)
    BY <1>2, <2>3 DEF Below
  <2>4. \A k \in 1 .. Len(s) : k \in 1 .. Len(r) \/ k \in Len(r) + 1 .. Len(s)
    BY <1>1, <1>2
  <2> QED
    BY <2>1, <2>2, <2>3, <2>4
<1> QED
  BY <1>2, <1>3 DEF Sorted, s

LEMMA MergeIs ==
  ASSUME NEW a \in Sorted, NEW b \in Sorted
  PROVE  /\ Merge(a, b) \in Sorted /\ Len(Merge(a, b)) = Len(a) + Len(b)
         /\ \A v \in Int : Occurs(Merge(a, b), v) = Occurs(a, v) + Occurs(b, v)
<1> DEFINE n == Len(a) + Len(b)
<1>0. n \in Nat /\ Len(a) \in Nat /\ Len(b) \in Nat /\ a \in Seq(Int) /\ b \in Seq(Int)
  BY DEF Sorted
<1>1. PICK f \in [0 .. n -> AllMerging] :
         /\ f[0] = MergeBegins(a, b) /\ (\A i \in 1 .. n : f[i] = MergeStep(f[i - 1]))
         /\ Merge(a, b) = f[n].ret \o (f[n].a \o f[n].b)
  BY MergeFollows
<1> HIDE DEF n
<1> DEFINE P(m, i) == /\ Length(m) = n /\ (\A v \in Int : Holds(m, v) = Occurs(a, v) + Occurs(b, v))
                      /\ m.a = <<>> \/ m.b = <<>> \/ Len(m.ret) = i
           T == {i \in 0 .. n : P(f[i], i)}
<1>2. P(f[0], 0)
  <2>1. f[0].a = a /\ f[0].b = b /\ f[0].ret = <<>>
    BY <1>1, MergeBeginsWell
  <2>2. Length(f[0]) = n
    BY <1>0, <2>1 DEF Length, n
  <2>3. ASSUME NEW v \in Int PROVE Holds(f[0], v) = Occurs(a, v) + Occurs(b, v)
    <3>1. Occurs(a, v) \in Nat /\ Occurs(b, v) \in Nat /\ Occurs(<<>>, v) = 0
      BY <1>0, OccursType, OccursNone
    <3> QED
      BY <2>1, <3>1 DEF Holds
  <2> QED
    BY <2>1, <2>2, <2>3
<1>3. ASSUME NEW i \in 1 .. n, P(f[i - 1], i - 1) PROVE P(f[i], i)
  <2> DEFINE m == f[i - 1]
             q == f[i]
  <2>1. Merging(m) /\ q = MergeStep(m)
    BY <1>0, <1>1 DEF AllMerging
  <2> HIDE DEF m, q
  <2>2. /\ Merging(q) /\ Length(q) = Length(m) /\ \A v \in Int : Holds(q, v) = Holds(m, v)
        /\ \/ q.a = <<>> \/ q.b = <<>>
           \/ m.a # <<>> /\ m.b # <<>> /\ Len(q.ret) = Len(m.ret) + 1
    BY <2>1, MergeStepIs
  <2>3. P(m, i - 1)
    BY <1>3 DEF m
  <2>4. q.a = <<>> \/ q.b = <<>> \/ Len(q.ret) = i
    <3>1. (m.a # <<>> /\ m.b # <<>>) => Len(m.ret) = i - 1
      BY <2>3
    <3> QED
      BY <1>0, <2>2, <3>1
  <2>5. P(q, i)
    BY <2>2, <2>3, <2>4
  <2> QED
    BY <2>5 DEF q
<1> HIDE DEF P
<1>4. 0 \in T /\ \A i \in 1 .. n : i - 1 \in T => i \in T
  BY <1>0, <1>2, <1>3
<1> HIDE DEF T
<1>5. \A i \in 0 .. n : i \in T
  BY <1>0, <1>4, Upward
<1> DEFINE e == f[n]
<1>6. P(e, n) /\ Merging(e)
  BY <1>0, <1>1, <1>5 DEF T, AllMerging
<1>7. Merge(a, b) = e.ret \o (e.a \o e.b)
  BY <1>1
<1> HIDE DEF e
<1>8. e.a \in Sorted /\ e.b \in Sorted /\ e.ret \in Sorted /\ Below(e.ret, e.a) /\ Below(e.ret, e.b)
  BY <1>6 DEF Merging, Merges
<1>9. /\ e.a \in Seq(Int) /\ e.b \in Seq(Int) /\ e.ret \in Seq(Int)
      /\ Len(e.a) \in Nat /\ Len(e.b) \in Nat /\ Len(e.ret) \in Nat
  BY <1>8 DEF Sorted
<1>10. e.a = <<>> \/ e.b = <<>>
  <2>1. CASE Len(e.ret) = n
    <3>1. n = Len(e.ret) + (Len(e.a) + Len(e.b))
      BY <1>6 DEF P, Length
    <3> DEFINE x == Len(e.a)
               y == Len(e.b)
               z == Len(e.ret)
    <3>2. x = 0
      <4>1. n = z + (x + y) /\ z = n /\ x \in Nat /\ y \in Nat /\ z \in Nat
        BY <1>9, <2>1, <3>1
      <4> HIDE DEF x, y, z
      <4> QED
        BY <4>1
    <3> QED
      BY <1>9, <3>2, EmptySeq
  <2> QED
    BY <1>6, <2>1 DEF P
<1>11. Merge(a, b) \in Sorted
  <2>1. CASE e.a = <<>>
    <3>1. e.a \o e.b = e.b
      BY <1>9, <2>1, ConcatEmptySeq
    <3> QED
      BY <1>7, <1>8, <3>1, AscendsConcat
  <2>2. CASE e.b = <<>>
    <3>1. e.a \o e.b = e.a
      BY <1>9, <2>2, ConcatEmptySeq
    <3> QED
      BY <1>7, <1>8, <3>1, AscendsConcat
  <2> QED
    BY <1>10, <2>1, <2>2
<1> DEFINE ab == e.a \o e.b
<1>12. ab \in Seq(Int) /\ Len(ab) = Len(e.a) + Len(e.b)
  BY <1>9, ConcatProperties
<1>13. Len(Merge(a, b)) = Len(a) + Len(b)
  <2>1. Len(e.ret \o ab) = Len(e.ret) + Len(ab)
    <3> HIDE DEF ab
    <3> QED
      BY <1>9, <1>12, ConcatProperties
  <2> QED
    BY <1>6, <1>7, <1>12, <2>1 DEF P, Length, n
<1>14. ASSUME NEW v \in Int PROVE Occurs(Merge(a, b), v) = Occurs(a, v) + Occurs(b, v)
  <2>1. Occurs(ab, v) = Occurs(e.a, v) + Occurs(e.b, v)
    BY <1>9, OccursConcat
  <2>2. Occurs(e.ret \o ab, v) = Occurs(e.ret, v) + Occurs(ab, v)
    <3> HIDE DEF ab
    <3> QED
      BY <1>9, <1>12, OccursConcat
  <2>3. Holds(e, v) = Occurs(a, v) + Occurs(b, v)
    BY <1>6 DEF P
  <2> QED
    BY <1>7, <2>1, <2>2, <2>3 DEF Holds
<1> QED
  BY <1>11, <1>13, <1>14

-----------------------------------------------------------------------------
(* Sorting. *)

\* A measure of lists, as their length is or how often they have a word, and the sum of it.
Weight(W) ==
    /\ W \in [Seq(Int) -> Nat] /\ W[<<>>] = 0
    /\ \A a, b \in Seq(Int) : W[a \o b] = W[a] + W[b]
    /\ \A a, b \in Sorted : W[Merge(a, b)] = W[a] + W[b]
Sums(ls, W, f) == f \in [0 .. Len(ls) -> Nat] /\ f[0] = 0 /\ \A i \in 1 .. Len(ls) : f[i] = f[i - 1] + W[ls[i]]
Weighs(ls, W, total) == \E f : Sums(ls, W, f) /\ f[Len(ls)] = total

LEMMA HalfIs == ASSUME NEW n \in Nat PROVE (n + 1) \div 2 \in Nat /\ (n = 2 * ((n + 1) \div 2) \/ n = 2 * ((n + 1) \div 2) - 1)
OBVIOUS

LEMMA MergePairsIs ==
  ASSUME NEW ls \in Seq(Sorted)
  PROVE  /\ MergePairs(ls) \in Seq(Sorted) /\ Len(MergePairs(ls)) = (Len(ls) + 1) \div 2
         /\ \A W : \A total : Weight(W) /\ Weighs(ls, W, total) => Weighs(MergePairs(ls), W, total)
<1> DEFINE n == Len(ls)
           m == (n + 1) \div 2
           ps == MergePairs(ls)
<1>1. n \in Nat /\ m \in Nat /\ (n = 2 * m \/ n = 2 * m - 1) /\ \A i \in 1 .. n : ls[i] \in Sorted
  <2>1. n \in Nat /\ \A i \in 1 .. n : ls[i] \in Sorted
    OBVIOUS
  <2> HIDE DEF n
  <2> QED
    BY <2>1, HalfIs
<1>2. ps = [i \in 1 .. m |-> IF 2 * i > n THEN ls[2 * i - 1] ELSE Merge(ls[2 * i - 1], ls[2 * i])]
  BY DEF MergePairs
<1> HIDE DEF n, m, ps
<1>3. \A i \in 1 .. m : 2 * i - 1 \in 1 .. n /\ (~(2 * i > n) => 2 * i \in 1 .. n)
  BY <1>1
<1>4. \A i \in 1 .. m : ps[i] \in Sorted
  <2>1. ASSUME NEW i \in 1 .. m PROVE ps[i] \in Sorted
    <3>1. ps[i] = IF 2 * i > n THEN ls[2 * i - 1] ELSE Merge(ls[2 * i - 1], ls[2 * i])
      BY <1>2
    <3>2. CASE 2 * i > n
      BY <1>1, <1>3, <3>1, <3>2
    <3>3. CASE ~(2 * i > n)
      <4>1. ls[2 * i - 1] \in Sorted /\ ls[2 * i] \in Sorted
        BY <1>1, <1>3, <3>3
      <4> QED
        BY <3>1, <3>3, <4>1, MergeIs
    <3> QED
      BY <3>2, <3>3
  <2> QED
    BY <2>1
<1>5. ps \in Seq(Sorted) /\ Len(ps) = m
  <2>1. ps = [i \in 1 .. m |-> ps[i]]
    BY <1>2
  <2> QED
    BY <1>1, <1>4, <2>1
<1>6. ASSUME NEW W, NEW total, Weight(W), Weighs(ls, W, total) PROVE Weighs(ps, W, total)
  <2>1. PICK f : Sums(ls, W, f) /\ f[n] = total
    BY <1>6 DEF Weighs, n
  <2>2. f \in [0 .. n -> Nat] /\ f[0] = 0 /\ \A i \in 1 .. n : f[i] = f[i - 1] + W[ls[i]]
    BY <2>1 DEF Sums, n
  <2> DEFINE g == [i \in 0 .. m |-> IF 2 * i > n THEN f[n] ELSE f[2 * i]]
  <2>3. g \in [0 .. m -> Nat] /\ g[0] = 0 /\ g[m] = total
    <3>1. \A i \in 0 .. m : ~(2 * i > n) => 2 * i \in 0 .. n
      BY <1>1
    <3>2. \A i \in 0 .. m : g[i] \in Nat
      BY <1>1, <2>2, <3>1
    <3>3. g[0] = f[0] /\ g[m] = f[n]
      BY <1>1
    <3> QED
      BY <2>1, <2>2, <3>2, <3>3
  <2>4. ASSUME NEW i \in 1 .. m PROVE g[i] = g[i - 1] + W[ps[i]]
    <3>0. /\ g[i] = IF 2 * i > n THEN f[n] ELSE f[2 * i]
          /\ g[i - 1] = f[2 * i - 2]
      <4>1. i - 1 \in 0 .. m /\ ~(2 * (i - 1) > n) /\ 2 * (i - 1) = 2 * i - 2 /\ i \in 0 .. m
        BY <1>1
      <4> QED
        BY <4>1
    <3> HIDE DEF g
    <3>1. ps[i] = IF 2 * i > n THEN ls[2 * i - 1] ELSE Merge(ls[2 * i - 1], ls[2 * i])
      BY <1>2
    <3>2. f[2 * i - 1] = f[2 * i - 2] + W[ls[2 * i - 1]]
      <4>1. 2 * i - 1 \in 1 .. n /\ (2 * i - 1) - 1 = 2 * i - 2
        BY <1>3
      <4> QED
        BY <2>2, <4>1
    <3>3. CASE 2 * i > n
      <4>1. n = 2 * i - 1
        BY <1>1, <3>3
      <4> QED
        BY <3>0, <3>1, <3>2, <3>3, <4>1
    <3>4. CASE ~(2 * i > n)
      <4>1. 2 * i \in 1 .. n /\ ls[2 * i - 1] \in Sorted /\ ls[2 * i] \in Sorted /\ 2 * i - 2 \in 0 .. n
        BY <1>1, <1>3, <3>4
      <4>2. f[2 * i] = f[2 * i - 1] + W[ls[2 * i]]
        BY <2>2, <4>1
      <4>3. W[Merge(ls[2 * i - 1], ls[2 * i])] = W[ls[2 * i - 1]] + W[ls[2 * i]]
        BY <1>6, <4>1 DEF Weight
      <4>4. W[ls[2 * i - 1]] \in Nat /\ W[ls[2 * i]] \in Nat /\ f[2 * i - 2] \in Nat
        BY <1>6, <2>2, <4>1 DEF Weight, Sorted
      <4>5. g[i] = f[2 * i] /\ W[ps[i]] = W[ls[2 * i - 1]] + W[ls[2 * i]]
        BY <3>0, <3>1, <3>4, <4>3
      <4> DEFINE x == f[2 * i - 2]
                 y == W[ls[2 * i - 1]]
                 z == W[ls[2 * i]]
                 p == g[i]
                 q == W[ps[i]]
      <4>6. p = f[2 * i] /\ f[2 * i] = f[2 * i - 1] + z /\ f[2 * i - 1] = x + y /\ g[i - 1] = x /\ q = y + z
            /\ x \in Nat /\ y \in Nat /\ z \in Nat
        BY <3>0, <3>2, <4>2, <4>4, <4>5
      <4> HIDE DEF x, y, z, p, q
      <4>7. p = (x + y) + z /\ q = y + z
        BY <4>6
      <4>8. p = x + q
        BY <4>6, <4>7
      <4> QED
        BY <4>6, <4>8 DEF p, q
    <3> QED
      BY <3>3, <3>4
  <2> HIDE DEF g
  <2>5. Sums(ps, W, g) /\ g[Len(ps)] = total
    BY <1>5, <2>3, <2>4 DEF Sums
  <2> QED
    BY <2>5 DEF Weighs
<1> QED
  BY <1>5, <1>6 DEF n, m, ps

MergeRound(r) == IF Len(r) <= 1 THEN r ELSE MergePairs(r)


LEMMA RoundsFollow ==
  ASSUME NEW ls \in Seq(Sorted)
  PROVE  \E f \in [0 .. Len(ls) -> Seq(Sorted)] :
            f[0] = ls /\ (\A i \in 1 .. Len(ls) : f[i] = MergeRound(f[i - 1])) /\ MergeRounds(ls) = f[Len(ls)]
<1> DEFINE n == Len(ls)
           c == ls
           Step(i, s) == MergeRound(s)
           Recursion(f) == f = [i \in 0 .. Len(ls) |-> IF i = 0 THEN ls ELSE The({IF Len(r) <= 1 THEN r ELSE MergePairs(r) : r \in {f[i - 1]}})]
           st == [i \in 1 .. n |-> [s \in Seq(Sorted) |-> Step(i, s)]]
           g == CHOOSE f : Recursion(f)
<1>1. n \in Nat /\ c \in Seq(Sorted) /\ \A i \in 1 .. n : \A s \in Seq(Sorted) : Step(i, s) \in Seq(Sorted)
  <2>1. n \in Nat
    OBVIOUS
  <2> QED
    BY <2>1, MergePairsIs DEF MergeRound
<1>2. PICK f \in [0 .. n -> Seq(Sorted)] : Follows(f, n, c, st)
  <2> HIDE DEF Step, n, c
  <2>1. st \in [1 .. n -> [Seq(Sorted) -> Seq(Sorted)]]
    BY <1>1
  <2> HIDE DEF st
  <2> QED
    BY <1>1, <2>1, RecursionExists
<1>3. \A i \in 0 .. n : f[i] = IF i = 0 THEN c ELSE Step(i, f[i - 1])
  <2> HIDE DEF Step, n, c
  <2>1. \A i \in 1 .. n : i - 1 \in 0 .. n /\ f[i - 1] \in Seq(Sorted)
    BY <1>1
  <2>2. \A i \in 1 .. n : st[i][f[i - 1]] = Step(i, f[i - 1])
    BY <2>1
  <2> HIDE DEF st
  <2>3. \A i \in 0 .. n : i = 0 \/ i \in 1 .. n
    BY <1>1
  <2> QED
    BY <1>2, <2>2, <2>3 DEF Follows
<1>4. \E h : Recursion(h)
  <2>1. f = [i \in 0 .. n |-> f[i]]
    OBVIOUS
  <2>2. \A s : The({s}) = s
    BY TheOnly
  <2>3. \A i : The({IF Len(r) <= 1 THEN r ELSE MergePairs(r) : r \in {f[i - 1]}}) = Step(i, f[i - 1])
    BY <2>2, Zenon DEF MergeRound
  <2>4. f = [i \in 0 .. n |-> IF i = 0 THEN c ELSE The({IF Len(r) <= 1 THEN r ELSE MergePairs(r) : r \in {f[i - 1]}})]
    BY <1>3, <2>1, <2>3, Zenon
  <2> QED
    BY <2>4, Zenon
<1>5. Recursion(g)
  BY <1>4, Zenon
<1>6. MergeRounds(ls) = g[n]
  BY Zenon DEF MergeRounds
<1> HIDE DEF g
<1>7. g[0] = c /\ \A i \in 1 .. n : g[i] = Step(i, g[i - 1])
  <2>1. \A s : The({s}) = s
    BY TheOnly
  <2>2. \A i : The({IF Len(r) <= 1 THEN r ELSE MergePairs(r) : r \in {g[i - 1]}}) = Step(i, g[i - 1])
    BY <2>1, Zenon DEF MergeRound
  <2>3. \A i \in 0 .. n : g[i] = IF i = 0 THEN c ELSE The({IF Len(r) <= 1 THEN r ELSE MergePairs(r) : r \in {g[i - 1]}})
    BY <1>5, Zenon
  <2>4. \A i \in 0 .. n : g[i] = IF i = 0 THEN c ELSE Step(i, g[i - 1])
    BY <2>2, <2>3, Zenon
  <2> HIDE DEF n, c, Step
  <2> QED
    BY <1>1, <2>4
<1>8. g \in [0 .. n -> Seq(Sorted)]
  <2> DEFINE T == {j \in 0 .. n : g[j] \in Seq(Sorted)}
  <2>1. 0 \in T /\ \A i \in 1 .. n : i - 1 \in T => i \in T
    <3> HIDE DEF Step, n, c
    <3>1. 0 \in 0 .. n /\ \A i \in 1 .. n : i \in 0 .. n
      BY <1>1
    <3>2. g[0] \in Seq(Sorted) /\ \A i \in 1 .. n : g[i - 1] \in Seq(Sorted) => g[i] \in Seq(Sorted)
      BY <1>1, <1>7
    <3> QED
      BY <3>1, <3>2
  <2>2. \A i \in 0 .. n : i \in T
    <3> HIDE DEF Step, n, c, T
    <3> QED
      BY <1>1, <2>1, Upward
  <2>3. g = [i \in 0 .. n |-> g[i]]
    BY <1>5, Zenon
  <2> HIDE DEF Step, n, c
  <2> QED
    BY <2>2, <2>3
<1> QED
  BY <1>6, <1>7, <1>8

LEMMA RoundsAre ==
  ASSUME NEW ls \in Seq(Sorted), Len(ls) >= 1
  PROVE  /\ MergeRounds(ls) \in Seq(Sorted) /\ Len(MergeRounds(ls)) = 1
         /\ \A W : \A total : Weight(W) /\ Weighs(ls, W, total) => Weighs(MergeRounds(ls), W, total)
<1> DEFINE n == Len(ls)
<1>0. n \in Nat
  OBVIOUS
<1>1. PICK f \in [0 .. n -> Seq(Sorted)] :
         f[0] = ls /\ (\A i \in 1 .. n : f[i] = MergeRound(f[i - 1])) /\ MergeRounds(ls) = f[n]
  BY RoundsFollow
<1> DEFINE P(r, i) == /\ Len(r) >= 1 /\ (Len(r) <= 1 \/ Len(r) <= n - i)
                      /\ \A W : \A total : Weight(W) /\ Weighs(ls, W, total) => Weighs(r, W, total)
           T == {i \in 0 .. n : P(f[i], i)}
<1>2. P(f[0], 0)
  BY <1>0, <1>1
<1> HIDE DEF n
<1>3. ASSUME NEW i \in 1 .. n, P(f[i - 1], i - 1) PROVE P(f[i], i)
  <2> DEFINE r == f[i - 1]
             q == f[i]
  <2>1. r \in Seq(Sorted) /\ Len(r) \in Nat /\ q = IF Len(r) <= 1 THEN r ELSE MergePairs(r)
    <3>1. r \in Seq(Sorted)
      BY <1>0, <1>1
    <3> QED
      BY <1>1, <3>1 DEF MergeRound
  <2>2. P(r, i - 1)
    BY <1>3
  <2> HIDE DEF r, q
  <2>3. CASE Len(r) <= 1
    <3>1. q = r
      BY <2>1, <2>3
    <3>2. P(r, i)
      BY <2>2, <2>3
    <3> QED
      BY <3>1, <3>2 DEF q
  <2>4. CASE ~(Len(r) <= 1)
    <3>1. /\ q \in Seq(Sorted) /\ Len(q) = (Len(r) + 1) \div 2
          /\ \A W : \A total : Weight(W) /\ Weighs(r, W, total) => Weighs(q, W, total)
      BY <2>1, <2>4, MergePairsIs
    <3>2. Len(r) <= n - (i - 1)
      BY <2>2, <2>4
    <3>3. Len(q) >= 1 /\ Len(q) <= n - i
      <4>1. Len(q) \in Nat /\ (Len(r) = 2 * Len(q) \/ Len(r) = 2 * Len(q) - 1)
        BY <2>1, <3>1, HalfIs
      <4> QED
        BY <1>0, <2>1, <2>4, <3>2, <4>1
    <3>4. P(q, i)
      BY <2>2, <3>1, <3>3
    <3> QED
      BY <3>4 DEF q
  <2> QED
    BY <2>3, <2>4
<1> HIDE DEF P
<1>4. 0 \in T /\ \A i \in 1 .. n : i - 1 \in T => i \in T
  BY <1>0, <1>2, <1>3
<1> HIDE DEF T
<1>5. \A i \in 0 .. n : i \in T
  BY <1>0, <1>4, Upward
<1>6. P(f[n], n) /\ f[n] \in Seq(Sorted) /\ Len(f[n]) \in Nat
  <2>1. f[n] \in Seq(Sorted)
    BY <1>0, <1>1
  <2> QED
    BY <1>0, <1>5, <2>1 DEF T
<1>7. Len(f[n]) = 1
  <2>1. Len(f[n]) >= 1 /\ (Len(f[n]) <= 1 \/ Len(f[n]) <= n - n)
    BY <1>6 DEF P
  <2> DEFINE l == Len(f[n])
  <2>2. l >= 1 /\ (l <= 1 \/ l <= n - n) /\ l \in Nat
    BY <1>6, <2>1
  <2> HIDE DEF l
  <2>3. l = 1
    BY <1>0, <2>2
  <2> QED
    BY <2>3 DEF l
<1> QED
  BY <1>1, <1>6, <1>7 DEF P

LEMMA SingleSorted == ASSUME NEW x \in Int PROVE <<x>> \in Sorted /\ <<x>> \in Seq(Int)
BY DEF Sorted, Ascends

\* The words one by one have the weight of all of them.
LEMMA SinglesWeigh ==
  ASSUME NEW words \in Seq(Int), NEW W, Weight(W)
  PROVE  Weighs([i \in DOMAIN words |-> <<words[i]>>], W, W[words])
<1> DEFINE ls == [i \in DOMAIN words |-> <<words[i]>>]
           f == [i \in 0 .. Len(words) |-> W[SubSeq(words, 1, i)]]
<1>1. Len(words) \in Nat /\ DOMAIN words = 1 .. Len(words) /\ \A i \in 1 .. Len(words) : words[i] \in Int
  OBVIOUS
<1>2. ls \in Seq(Seq(Int)) /\ Len(ls) = Len(words) /\ \A i \in 1 .. Len(words) : ls[i] = <<words[i]>>
  <2>1. \A i \in 1 .. Len(words) : <<words[i]>> \in Seq(Int)
    BY <1>1, SingleSorted
  <2> QED
    BY <1>1, <2>1
<1>3. \A i \in 0 .. Len(words) : SubSeq(words, 1, i) \in Seq(Int)
  BY UptoIs
<1>4. f \in [0 .. Len(words) -> Nat]
  BY <1>3 DEF Weight
<1>5. f[0] = 0
  <2>1. SubSeq(words, 1, 0) = <<>> /\ 0 \in 0 .. Len(words)
    BY <1>1, SubSeqEmpty
  <2>2. W[<<>>] = 0
    BY DEF Weight
  <2>3. f[0] = W[SubSeq(words, 1, 0)]
    BY <2>1
  <2> HIDE DEF f
  <2> QED
    BY <2>1, <2>2, <2>3
<1>6. ASSUME NEW i \in 1 .. Len(words) PROVE f[i] = f[i - 1] + W[ls[i]]
  <2> DEFINE s == SubSeq(words, 1, i - 1)
  <2>1. i - 1 \in 0 .. Len(words) /\ i \in 0 .. Len(words)
    BY <1>1
  <2>2. SubSeq(words, 1, i) = s \o <<words[i]>> /\ s \in Seq(Int)
    BY <1>1, <1>3, <2>1, SubSeqRecursiveSecond
  <2>3. <<words[i]>> \in Seq(Int)
    BY <1>1, SingleSorted
  <2>4. f[i] = W[s \o <<words[i]>>] /\ f[i - 1] = W[s]
    BY <2>1, <2>2
  <2> HIDE DEF s, f, ls
  <2> QED
    BY <1>2, <2>2, <2>3, <2>4 DEF Weight
<1>7. f[Len(ls)] = W[words]
  <2>1. SubSeq(words, 1, Len(words)) = words /\ Len(words) \in 0 .. Len(words)
    BY <1>1, SubSeqFull
  <2>2. f[Len(words)] = W[SubSeq(words, 1, Len(words))]
    BY <2>1
  <2> HIDE DEF f, ls
  <2> QED
    BY <1>2, <2>1, <2>2
<1> HIDE DEF f, ls
<1>8. Sums(ls, W, f)
  BY <1>2, <1>4, <1>5, <1>6 DEF Sums
<1> QED
  BY <1>7, <1>8 DEF Weighs, ls

LEMMA OneWeighs ==
  ASSUME NEW ls \in Seq(Sorted), Len(ls) = 1, NEW W, NEW total, Weight(W), Weighs(ls, W, total)
  PROVE  W[ls[1]] = total
<1>1. PICK f : Sums(ls, W, f) /\ f[1] = total
  BY DEF Weighs
<1>2. f[1] = f[0] + W[ls[1]] /\ f[0] = 0
  BY <1>1 DEF Sums
<1>3. ls[1] \in Seq(Int)
  BY DEF Sorted
<1>4. W[ls[1]] \in Nat
  BY <1>3 DEF Weight
<1> QED
  BY <1>1, <1>2, <1>4

LEMMA MergeSortIs ==
  ASSUME NEW words \in Seq(Int)
  PROVE  MergeSort(words) \in Sorted /\ \A W : Weight(W) => W[MergeSort(words)] = W[words]
<1>1. CASE words = <<>>
  BY <1>1 DEF MergeSort, Sorted, Ascends
<1>2. CASE words # <<>>
  <2> DEFINE ls == [i \in DOMAIN words |-> <<words[i]>>]
             r == MergeRounds(ls)
  <2>1. Len(words) \in Nat \ {0} /\ DOMAIN words = 1 .. Len(words) /\ \A i \in 1 .. Len(words) : words[i] \in Int
    BY <1>2, EmptySeq
  <2>2. ls \in Seq(Sorted) /\ Len(ls) >= 1
    <3>1. \A i \in 1 .. Len(words) : <<words[i]>> \in Sorted
      BY <2>1, SingleSorted
    <3>2. ls = [i \in 1 .. Len(words) |-> <<words[i]>>]
      BY <2>1
    <3>3. ls \in [1 .. Len(words) -> Sorted]
      BY <3>1, <3>2
    <3> HIDE DEF ls
    <3> QED
      BY <2>1, <3>3
  <2>3. MergeSort(words) = r[1]
    BY <1>2 DEF MergeSort
  <2>4. \A W : Weight(W) => Weighs(ls, W, W[words])
    BY SinglesWeigh
  <2> HIDE DEF ls
  <2>5. /\ r \in Seq(Sorted) /\ Len(r) = 1
        /\ \A W : \A total : Weight(W) /\ Weighs(ls, W, total) => Weighs(r, W, total)
    BY <2>2, RoundsAre
  <2> HIDE DEF r
  <2>6. \A W : Weight(W) => W[r[1]] = W[words]
    BY <2>4, <2>5, OneWeighs
  <2>7. r[1] \in Sorted
    BY <2>5
  <2> QED
    BY <2>3, <2>6, <2>7
<1> QED
  BY <1>1, <1>2

LEMMA LengthWeight == Weight([s \in Seq(Int) |-> Len(s)])
<1> DEFINE W == [s \in Seq(Int) |-> Len(s)]
<1>1. W \in [Seq(Int) -> Nat] /\ W[<<>>] = 0
  <2>1. \A s \in Seq(Int) : Len(s) \in Nat
    OBVIOUS
  <2>2. <<>> \in Seq(Int) /\ Len(<<>>) = 0
    OBVIOUS
  <2> QED
    BY <2>1, <2>2
<1>2. \A a, b \in Seq(Int) : a \o b \in Seq(Int) /\ Len(a \o b) = Len(a) + Len(b)
  BY ConcatProperties
<1>3. \A a, b \in Sorted : a \in Seq(Int) /\ b \in Seq(Int) /\ Merge(a, b) \in Seq(Int) /\ Len(Merge(a, b)) = Len(a) + Len(b)
  BY MergeIs DEF Sorted
<1>4. \A s \in Seq(Int) : W[s] = Len(s)
  OBVIOUS
<1> HIDE DEF W
<1>5. \A a, b \in Seq(Int) : W[a \o b] = W[a] + W[b]
  BY <1>2, <1>4
<1>6. \A a, b \in Sorted : W[Merge(a, b)] = W[a] + W[b]
  BY <1>3, <1>4
<1>7. Weight(W)
  BY <1>1, <1>5, <1>6 DEF Weight
<1> QED
  BY <1>7 DEF W

LEMMA OccursWeight == ASSUME NEW v \in Int PROVE Weight([s \in Seq(Int) |-> Occurs(s, v)])
<1> DEFINE W == [s \in Seq(Int) |-> Occurs(s, v)]
<1>1. W \in [Seq(Int) -> Nat] /\ W[<<>>] = 0
  <2>1. \A s \in Seq(Int) : Occurs(s, v) \in Nat
    BY OccursType
  <2>2. <<>> \in Seq(Int) /\ Occurs(<<>>, v) = 0
    BY OccursNone
  <2> QED
    BY <2>1, <2>2
<1>2. \A a, b \in Seq(Int) : a \o b \in Seq(Int) /\ Occurs(a \o b, v) = Occurs(a, v) + Occurs(b, v)
  BY ConcatProperties, OccursConcat
<1>3. \A a, b \in Sorted : a \in Seq(Int) /\ b \in Seq(Int) /\ Merge(a, b) \in Seq(Int) /\ Occurs(Merge(a, b), v) = Occurs(a, v) + Occurs(b, v)
  BY MergeIs DEF Sorted
<1>4. \A s \in Seq(Int) : W[s] = Occurs(s, v)
  OBVIOUS
<1> HIDE DEF W
<1>5. \A a, b \in Seq(Int) : W[a \o b] = W[a] + W[b]
  BY <1>2, <1>4
<1>6. \A a, b \in Sorted : W[Merge(a, b)] = W[a] + W[b]
  BY <1>3, <1>4
<1>7. Weight(W)
  BY <1>1, <1>5, <1>6 DEF Weight
<1> QED
  BY <1>7 DEF W

LEMMA SortingSorts == ASSUME NEW words \in Seq(Int) PROVE Sorts(MergeSort(words), words)
<1> DEFINE s == MergeSort(words)
<1>1. s \in Sorted /\ \A W : Weight(W) => W[s] = W[words]
  BY MergeSortIs
<1> HIDE DEF s
<1>2. s \in Seq(Int) /\ Len(s) \in Nat /\ Ascends(s)
  BY <1>1 DEF Sorted
<1>3. Len(s) = Len(words)
  <2> DEFINE W == [t \in Seq(Int) |-> Len(t)]
  <2>1. W[s] = W[words]
    <3>1. Weight(W)
      BY LengthWeight
    <3> HIDE DEF W
    <3> QED
      BY <1>1, <3>1
  <2> QED
    BY <1>2, <2>1
<1>4. \A v \in Int : Occurs(s, v) = Occurs(words, v)
  <2> SUFFICES ASSUME NEW v \in Int PROVE Occurs(s, v) = Occurs(words, v)
    OBVIOUS
  <2> DEFINE W == [t \in Seq(Int) |-> Occurs(t, v)]
  <2>1. W[s] = W[words]
    <3>1. Weight(W)
      BY OccursWeight
    <3> HIDE DEF W
    <3> QED
      BY <1>1, <3>1
  <2> QED
    BY <1>2, <2>1
<1>5. ASSUME NEW i \in 1 .. Len(s) - 1 PROVE s[i] <= s[i + 1]
  <2>1. i \in 1 .. Len(s) /\ i + 1 \in 1 .. Len(s) /\ i <= i + 1
    BY <1>2
  <2> QED
    BY <1>2, <2>1 DEF Ascends
<1>6. \A v \in ToSet(s) \cup ToSet(words) : v \in Int
  BY <1>2 DEF ToSet
<1> QED
  BY <1>3, <1>4, <1>5, <1>6 DEF Sorts, s

-----------------------------------------------------------------------------
(* Each command keeps the invariant. *)

LEMMA FreshSound == ASSUME Init PROVE Sound
<1>1. <<>> \in Texts
  BY DEF Texts, Ordered
<1>2. \A n \in Library : n \notin Primitive /\ n \in Proc
  BY WorkspaceAssumption
<1>3. \A n \in Library : Fresh.proc[n] # LibBody
  BY <1>2, FreshIs, WorkspaceAssumption
<1> QED
  BY <1>1, <1>3, FreshIs DEF Init, Sound, Buried

LEMMA DefinesSound ==
  ASSUME Sound, NEW n \in Proc, NEW b \in Body, lto(n, b) \/ ldefine(n, b)
  PROVE  Sound'
<1>0. ws \in Workspaces /\ b \in Bodies /\ file \in Texts
  BY DEF Sound, Bodies
<1> DEFINE u == [ws EXCEPT !.proc[n] = b]
<1>1. u \in Workspaces /\ u.flags = ws.flags /\ \A m \in Proc : m # n => u.proc[m] = ws.proc[m]
  BY <1>0, ProcChange
<1>2. Fail(ws) \in Workspaces /\ Fail(ws).flags = ws.flags /\ Fail(ws).proc = ws.proc
  BY <1>0, FailType
<1>3. Stays(u, {n}, {}) /\ Stays(Fail(ws), {n}, {})
  <2> HIDE DEF u
  <2> QED
    BY <1>1, <1>2, StaysSame DEF Buried
<1>4. To(ws, n, b, "keyboard") \in {u, Fail(ws)} /\ Define(ws, n, b) \in {u, Fail(ws)}
  BY DEF To, Define, Unburies
<1>5. PICK w : w \in {u, Fail(ws)} /\ Becomes(w, {n}, {}) /\ UNCHANGED file
  <2> HIDE DEF u
  <2> QED
    BY <1>4 DEF lto, ldefine
<1> HIDE DEF u
<1> QED
  BY <1>0, <1>3, <1>5, BecomesSound

LEMMA CopyDefSound ==
  ASSUME Sound, NEW n \in Proc, NEW old \in Proc, lcopydef(n, old)
  PROVE  Sound'
<1> DEFINE v == CheckLibrary(ws, old)
           u == [v EXCEPT !.proc[n] = v.proc[old]]
<1>0. ws \in Workspaces /\ ~ws.err /\ file \in Texts
  BY DEF Sound
<1>1. Autoloads(ws, v)
  <2>1. <<>> \in Seq(Printed) /\ Told(ws, <<>>)
    BY DEF Told
  <2> QED
    BY <1>0, <2>1, SelfAutoloads, CheckShows
<1> HIDE DEF v
<1>2. v \in Workspaces /\ v.proc[old] \in Bodies
  BY <1>1 DEF Autoloads, Workspaces
<1>3. u \in Workspaces /\ u.flags = v.flags /\ \A m \in Proc : m # n => u.proc[m] = v.proc[m]
  BY <1>2, ProcChange
<1>4. Fail(v) \in Workspaces /\ Fail(v).flags = v.flags /\ Fail(v).proc = v.proc
  BY <1>2, FailType
<1> HIDE DEF u
<1>5. ASSUME NEW w \in {u, Fail(v)} PROVE Stays(w, {n}, {})
  <2>1. w \in Workspaces /\ w.flags = v.flags /\ \A m \in Proc : m # n => w.proc[m] = v.proc[m]
    BY <1>3, <1>4
  <2>2. \A m \in Proc : \/ v.proc[m] = ws.proc[m] /\ (Buried(w, m) <=> Buried(ws, m))
                        \/ m \in Autoloaded(w)
    BY <1>1, <2>1 DEF Autoloads, Autoloaded, Buried
  <2> QED
    BY <2>1, <2>2, LibraryNames DEF Stays
<1>6. CopyDef(ws, n, old) \in {u, Fail(v)}
  BY DEF CopyDef, u, v
<1>7. Becomes(CopyDef(ws, n, old), {n}, {}) /\ file' = file
  BY DEF lcopydef
<1> QED
  BY <1>0, <1>5, <1>6, <1>7, BecomesSound

LEMMA ValuesSound ==
  ASSUME Sound, (\E n \in Var, v \in Value : lmake(n, v)) \/ (\E n \in Plist, p \in Prop : lpprop(n, p))
  PROVE  Sound'
<1>0. ws \in Workspaces /\ file \in Texts
  BY DEF Sound
<1>1. ASSUME NEW n \in Var, NEW v \in Value, lmake(n, v) PROVE Sound'
  <2>1. Make(ws, n, v) \in Workspaces /\ Make(ws, n, v).proc = ws.proc /\ Make(ws, n, v).flags = ws.flags
    BY <1>0, MakeType
  <2>2. Stays(Make(ws, n, v), {}, {})
    BY <2>1, StaysSame DEF Buried
  <2>3. Becomes(Make(ws, n, v), {}, {}) /\ file' = file
    BY <1>1 DEF lmake
  <2> QED
    BY <1>0, <2>2, <2>3, BecomesSound
<1>2. ASSUME NEW n \in Plist, NEW p \in Prop, lpprop(n, p) PROVE Sound'
  <2>1. Pprop(ws, n, p) \in Workspaces /\ Pprop(ws, n, p).proc = ws.proc /\ Pprop(ws, n, p).flags = ws.flags
    BY <1>0, PpropType
  <2>2. Stays(Pprop(ws, n, p), {}, {})
    BY <2>1, StaysSame DEF Buried
  <2>3. Becomes(Pprop(ws, n, p), {}, {}) /\ file' = file
    BY <1>2 DEF lpprop
  <2> QED
    BY <1>0, <2>2, <2>3, BecomesSound
<1> QED
  BY <1>1, <1>2

LEMMA ErasesSound ==
  ASSUME Sound, (\E args \in Lists : lerase(args)) \/ (\E kinds \in SUBSET Kind : lerall(kinds))
  PROVE  Sound'
<1>0. ws \in Workspaces /\ file \in Texts
  BY DEF Sound
<1>1. ASSUME NEW args \in Lists, lerase(args) PROVE Sound'
  <2>1. /\ Erase(ws, args) \in Workspaces /\ Erase(ws, args).flags = ws.flags
        /\ \A n \in Proc : Erase(ws, args).proc[n] \in {ws.proc[n], UNDEFINED}
    BY <1>0, ListsNames, EraseIs
  <2>2. Stays(Erase(ws, args), {}, {})
    BY <2>1, StaysSame DEF Buried
  <2>3. Becomes(Erase(ws, args), {}, {}) /\ file' = file
    BY <1>1 DEF lerase
  <2> QED
    BY <1>0, <2>2, <2>3, BecomesSound
<1>2. ASSUME NEW kinds \in SUBSET Kind, lerall(kinds) PROVE Sound'
  <2> DEFINE v == Erall(ws, kinds)
  <2>1. /\ v \in Workspaces /\ v.flags = ws.flags
        /\ v.proc = [n \in Proc |-> IF "proc" \in kinds /\ Erasable(ws, "proc", n) THEN UNDEFINED ELSE ws.proc[n]]
    BY <1>0, ErallType
  <2>2. Becomes(v, {}, {}) /\ file' = file
    BY <1>2 DEF lerall
  <2> HIDE DEF v
  <2>3. \A n \in Proc : v.proc[n] \in {ws.proc[n], UNDEFINED}
    BY <2>1
  <2>4. Stays(v, {}, {})
    BY <2>1, <2>3, StaysSame DEF Buried
  <2> QED
    BY <1>0, <2>2, <2>4, BecomesSound
<1> QED
  BY <1>1, <1>2

LEMMA PrintsSound ==
  ASSUME Sound, (\E args \in Lists : lpo(args)) \/ lsave
  PROVE  Sound'
<1>0. ws \in Workspaces /\ ~ws.err /\ file \in Texts
  BY DEF Sound
<1>1. ASSUME NEW args \in Lists, lpo(args) PROVE Sound'
  <2>1. PICK edit : edit = FALSE
    OBVIOUS
  <2>2. edit \in BOOLEAN /\ Po(ws, args, FALSE) = Po(ws, args, edit)
    BY <2>1
  <2>3. Shown(ws, Po(ws, args, edit))
    BY <1>0, <2>2, ListsNames, PoShows
  <2>4. Stays(Po(ws, args, FALSE).w, {}, {})
    BY <2>2, <2>3, StaysAutoloads DEF Shown
  <2>5. Becomes(Po(ws, args, FALSE).w, {}, {}) /\ file' = file
    BY <1>1 DEF lpo
  <2> QED
    BY <1>0, <2>4, <2>5, BecomesSound
<1>2. ASSUME lsave PROVE Sound'
  <2>1. Shown(ws, Saved(ws)) /\ Saved(ws).text \in Texts
    BY <1>0, SavedTos
  <2>2. Stays(Saved(ws).w, {}, {})
    BY <2>1, StaysAutoloads DEF Shown
  <2>3. Becomes(Saved(ws).w, {}, {}) /\ file' = Saved(ws).text
    BY <1>2 DEF lsave
  <2> QED
    BY <2>1, <2>2, <2>3, BecomesSound
<1> QED
  BY <1>1, <1>2

LEMMA BurySound ==
  ASSUME Sound, NEW args \in Lists, lbury(args)
  PROVE  Sound'
<1> DEFINE w == Set(ws, "BURIED", Things(args))
<1>0. ws \in Workspaces /\ ~ws.err /\ file \in Texts /\ "BURIED" \in Flag
  BY DEF Sound, Flag
<1>1. /\ w \in Workspaces /\ w.proc = ws.proc /\ w.err = ws.err
      /\ w.flags["BURIED"] = ws.flags["BURIED"] \cup Things(args)
  BY <1>0, ThingsAre, SetType
<1>2. ws' = w /\ hidden' = hidden \cup Procs(args) /\ file' = file /\ shown' = shown
  BY DEF lbury
<1> HIDE DEF w
<1>3. \A n \in Proc : Buried(w, n) <=> Buried(ws, n) \/ n \in Procs(args)
  BY <1>1, ProcsIs DEF Buried
<1>4. (\A n \in Proc : Buried(ws, n) => n \in hidden) /\ (\A n \in Library : ws.proc[n] = LibBody /\ n \notin shown => Buried(ws, n))
  BY DEF Sound
<1>5. ~w.err
  BY <1>0, <1>1
<1>6. \A n : Buried(ws', n) <=> Buried(w, n)
  BY <1>2 DEF Buried
<1>7. \A n \in Proc : Buried(ws', n) => n \in hidden'
  BY <1>2, <1>3, <1>4, <1>6
<1>8. \A n \in Library : ws'.proc[n] = LibBody /\ n \notin shown' => Buried(ws', n)
  BY <1>1, <1>2, <1>3, <1>4, <1>6, LibraryNames
<1> QED
  BY <1>0, <1>1, <1>2, <1>5, <1>7, <1>8 DEF Sound, Buried

LEMMA UnburySound ==
  ASSUME Sound, NEW args \in Lists, lunbury(args)
  PROVE  Sound'
<1> DEFINE w == Clear(ws, "BURIED", Things(args))
           U == Procs(args)
<1>0. ws \in Workspaces /\ file \in Texts /\ "BURIED" \in Flag
  BY DEF Sound, Flag
<1>1. w \in Workspaces /\ w.proc = ws.proc /\ w.flags["BURIED"] = ws.flags["BURIED"] \ Things(args)
  BY <1>0, ClearType
<1>2. Becomes(w, {}, U) /\ file' = file
  BY DEF lunbury
<1> HIDE DEF w
<1>3. \A n \in Proc : Buried(w, n) <=> Buried(ws, n) /\ n \notin U
  BY <1>1, ProcsIs DEF Buried
<1> HIDE DEF U
<1>4. Stays(w, {}, U)
  BY <1>1, <1>3, LibraryNames DEF Stays
<1> QED
  BY <1>0, <1>2, <1>4, BecomesSound

LEMMA TraceSound ==
  ASSUME Sound, NEW args \in Lists, NEW f \in {"TRACED", "STEPPED"}, ltrace(f, args) \/ luntrace(f, args)
  PROVE  Sound'
<1> DEFINE v == Set(ws, f, Things(args))
           u == Clear(ws, f, Things(args))
<1>0. ws \in Workspaces /\ file \in Texts /\ f \in Flag /\ f # "BURIED" /\ "BURIED" \in Flag
  BY DEF Sound, Flag
<1>1. v \in Workspaces /\ v.proc = ws.proc /\ v.flags["BURIED"] = ws.flags["BURIED"]
  BY <1>0, ThingsAre, SetType
<1>2. u \in Workspaces /\ u.proc = ws.proc /\ u.flags["BURIED"] = ws.flags["BURIED"]
  BY <1>0, ClearType
<1>3. PICK w : w \in {u, v} /\ Becomes(w, {}, {}) /\ file' = file
  <2> HIDE DEF u, v
  <2> QED
    BY DEF ltrace, luntrace, u, v
<1> HIDE DEF u, v
<1>4. Stays(w, {}, {})
  BY <1>1, <1>2, <1>3, StaysSame DEF Buried
<1> QED
  BY <1>0, <1>3, <1>4, BecomesSound

LEMMA EditSound ==
  ASSUME Sound, NEW args \in Lists, ledit(args)
  PROVE  Sound'
<1> DEFINE e == EditText(ws, args)
<1>0. ws \in Workspaces /\ file \in Texts
  BY DEF Sound
<1>1. Shown(ws, e) /\ e.text \in Texts
  <2>1. PICK edit : edit = TRUE
    OBVIOUS
  <2>2. edit \in BOOLEAN /\ EditText(ws, args) = Po(ws, args, edit)
    BY <2>1 DEF EditText
  <2> QED
    BY <1>0, <2>2, ListsNames, PoShows
<1>2. \/ e.w.err /\ Becomes(e.w, {}, {}) /\ file' = file
      \/ ~e.w.err /\ \E text \in {e.text} \cup {Changed(e.text, args.proc, b) : b \in Body} \cup {Without(e.text, args.proc)} :
                         Loads(e.w, text)
  BY DEF ledit
<1> HIDE DEF e
<1>3. Autoloads(ws, e.w)
  BY <1>1 DEF Shown
<1>4. CASE e.w.err /\ Becomes(e.w, {}, {}) /\ file' = file
  BY <1>0, <1>3, <1>4, StaysAutoloads, BecomesSound
<1>5. CASE \E text \in {e.text} \cup {Changed(e.text, args.proc, b) : b \in Body} \cup {Without(e.text, args.proc)} :
              Loads(e.w, text)
  <2>1. PICK text \in {e.text} \cup {Changed(e.text, args.proc, b) : b \in Body} \cup {Without(e.text, args.proc)} :
               Loads(e.w, text)
    BY <1>5
  <2>2. text \in Texts
    <3>1. \A b \in Body : Changed(e.text, args.proc, b) \in Texts
      BY <1>1, ChangedText
    <3>2. Without(e.text, args.proc) \in Texts
      BY <1>1, WithoutText
    <3> QED
      BY <1>1, <2>1, <3>1, <3>2
  <2> QED
    BY <1>3, <2>1, <2>2, LoadsSound
<1> QED
  BY <1>2, <1>4, <1>5

LEMMA LoadSound == ASSUME Sound, lload PROVE Sound'
<1>1. Autoloads(ws, ws) /\ file \in Texts
  BY SelfAutoloads DEF Sound
<1>2. Loads(ws, file)
  BY DEF lload
<1> QED
  BY <1>1, <1>2, LoadsSound

LEMMA StepSound == ASSUME Sound, [Next]_vars PROVE Sound'
<1>1. CASE UNCHANGED vars
  BY <1>1 DEF vars, Sound, Buried
<1>2. CASE Next
  <2>1. ASSUME NEW n \in Proc, NEW b \in Body, lto(n, b) \/ ldefine(n, b) PROVE Sound'
    BY <2>1, DefinesSound
  <2>2. ASSUME NEW n \in Proc, NEW old \in Proc, lcopydef(n, old) PROVE Sound'
    BY <2>2, CopyDefSound
  <2>3. CASE (\E n \in Var, v \in Value : lmake(n, v)) \/ (\E n \in Plist, p \in Prop : lpprop(n, p))
    BY <2>3, ValuesSound
  <2>4. ASSUME NEW args \in Lists,
               \/ lerase(args) \/ lpo(args) \/ lbury(args) \/ lunbury(args) \/ ledit(args)
               \/ \E f \in {"TRACED", "STEPPED"} : ltrace(f, args) \/ luntrace(f, args)
        PROVE  Sound'
    <3>1. CASE lerase(args)
      BY <3>1, ErasesSound
    <3>2. CASE lpo(args)
      BY <3>2, PrintsSound
    <3>3. CASE lbury(args)
      BY <3>3, BurySound
    <3>4. CASE lunbury(args)
      BY <3>4, UnburySound
    <3>5. CASE ledit(args)
      BY <3>5, EditSound
    <3>6. CASE \E f \in {"TRACED", "STEPPED"} : ltrace(f, args) \/ luntrace(f, args)
      BY <3>6, TraceSound
    <3> QED
      BY <2>4, <3>1, <3>2, <3>3, <3>4, <3>5, <3>6
  <2>5. ASSUME NEW kinds \in {Kind, {"proc"}, {"val"}, {"plist"}}, lerall(kinds) PROVE Sound'
    <3>1. kinds \in SUBSET Kind
      BY DEF Kind
    <3> QED
      BY <2>5, <3>1, ErasesSound
  <2>6. CASE lsave
    BY <2>6, PrintsSound
  <2>7. CASE lload
    BY <2>7, LoadSound
  <2> QED
    BY <1>2, <2>1, <2>2, <2>3, <2>4, <2>5, <2>6, <2>7 DEF Next
<1> QED
  BY <1>1, <1>2

-----------------------------------------------------------------------------
(* The theorems. *)

LEMMA SoundTypes == ASSUME Sound PROVE TypeOK
<1>1. ws \in Workspaces /\ ~ws.err
  BY DEF Sound
<1>2. /\ ws.proc \in [Proc -> Bodies] /\ ws.val \in [Var -> Value \cup {UNBOUND}] /\ ws.plist \in [Plist -> Plists]
      /\ ws.flags \in [Flag -> SUBSET Thing] /\ ws.err = FALSE
  BY <1>1 DEF Workspaces
<1>3. ASSUME NEW n \in Plist
      PROVE  \A i, j \in DOMAIN ws.plist[n] : ws.plist[n][i] \in Prop /\ (ws.plist[n][i][1] = ws.plist[n][j][1] => i = j)
  <2> DEFINE s == ws.plist[n]
  <2>1. s \in Plists
    BY <1>2
  <2> HIDE DEF s
  <2>2. s \in Seq(Prop) /\ DOMAIN s = 1 .. Len(s) /\ \A i, j \in 1 .. Len(s) : s[i][1] = s[j][1] => i = j
    BY <2>1 DEF Plists
  <2>3. \A i, j \in DOMAIN s : s[i] \in Prop /\ (s[i][1] = s[j][1] => i = j)
    BY <2>2
  <2> QED
    BY <2>3 DEF s
<1> QED
  BY <1>2, <1>3 DEF TypeOK

LEMMA TextIs == ASSUME NEW w \in Workspaces, ~w.err PROVE DOMAIN Saved(w).text = 1 .. Len(Saved(w).text)
<1>1. Saved(w).text \in Seq(Printed)
  BY SavedTos DEF Texts
<1> QED
  BY <1>1

LEMMA SoundHides == ASSUME Sound PROVE LibraryIsHidden
<1>1. ws \in Workspaces /\ ~ws.err /\ \A n \in Library : ws.proc[n] = LibBody /\ n \notin shown => Buried(ws, n)
  BY DEF Sound
<1> SUFFICES ASSUME NEW n \in Library, ws.proc[n] = LibBody, n \notin shown
             PROVE  n \notin Contents(ws).proc /\ \A i \in DOMAIN Saved(ws).text : Saved(ws).text[i].name # n \/ Saved(ws).text[i].op # "to"
  BY DEF LibraryIsHidden
<1>2. n \notin Contents(ws).proc
  BY <1>1, ContentsAre DEF Buried
<1>3. \A k \in 1 .. Len(Saved(ws).text) : Saved(ws).text[k].op = "to" => Saved(ws).text[k].name \in Contents(ws).proc
  BY <1>1, SavedTos
<1> QED
  BY <1>1, <1>2, <1>3, TextIs

LEMMA SoundSaves == ASSUME Sound PROVE WorkIsSaved
<1>1. ws \in Workspaces /\ ~ws.err /\ \A n \in Proc : Buried(ws, n) => n \in hidden
  BY DEF Sound
<1> SUFFICES ASSUME NEW n \in Proc, ws.proc[n] \in Body, n \notin hidden
             PROVE  Item("to", n, ws.proc[n]) \in {Saved(ws).text[i] : i \in DOMAIN Saved(ws).text}
  BY DEF WorkIsSaved
<1>2. n \in Contents(ws).proc
  BY <1>1, ContentsAre, WorkspaceAssumption DEF Buried
<1>3. \E k \in 1 .. Len(Saved(ws).text) : Saved(ws).text[k] = Item("to", n, ws.proc[n])
  BY <1>1, <1>2, SavedTos
<1> QED
  BY <1>1, <1>3, TextIs

LEMMA SoundErases == ASSUME Sound PROVE ErallIsErase
BY ErallErases DEF Sound, ErallIsErase

LEMMA SmallListsSorted == ContentsAreSorted
<1>1. ASSUME NEW n \in 0 .. 5, NEW words \in [1 .. n -> 1 .. n] PROVE Sorts(MergeSort(words), words)
  <2>1. n \in Nat /\ words \in [1 .. n -> Int]
    OBVIOUS
  <2>2. words \in Seq(Int)
    BY <2>1
  <2> QED
    BY <2>2, SortingSorts
<1> QED
  BY <1>1 DEF ContentsAreSorted

(* In every reachable workspace the procedures that are buried are those   *)
(* that BURY or their library file hid, the library's procedures that the  *)
(* program did not show are buried, and what SAVE wrote are procedures     *)
(* first, then names and properties: the inductive invariant.              *)
THEOREM WorkspaceStaysSound == Spec => []Sound
<1>1. Init => Sound
  BY FreshSound
<1>2. Sound /\ [Next]_vars => Sound'
  BY StepSound
<1> QED
  BY <1>1, <1>2, PTL DEF Spec

(* For every set of names, values, primitives and library files: the types *)
(* hold; a procedure that Logo took from its library by itself is neither  *)
(* in a contents list nor in a saved file until the program shows it; what *)
(* the program wrote is saved unless it was buried; ERALL and its like do  *)
(* what ERASE of CONTENTS does.                                            *)
THEOREM WorkspaceIsRight == Spec => []WorkspaceInv
<1>1. Sound => WorkspaceInv
  BY SoundTypes, SoundHides, SoundSaves, SoundErases, SmallListsSorted DEF WorkspaceInv
<1> QED
  BY <1>1, WorkspaceStaysSound, PTL

(* What SAVE writes, loaded into a Logo that has just been started, gives  *)
(* back every definition that is not buried, whatever the workspace, but   *)
(* for one in which a primitive has another definition.                    *)
THEOREM SavedWorkspaceComesBack == Spec => []SaveRestores
<1>1. Sound => SaveRestores
  <2> SUFFICES ASSUME Sound PROVE SaveRestores
    OBVIOUS
  <2> DEFINE saved == [k \in Kind |-> {n \in Names[k] : IsThere(ws, k, n) /\ <<k, n>> \notin ws.flags["BURIED"]}]
             back == LoadText(Fresh, Saved(ws).text)
             C == Contents(ws)
  <2>1. ws \in Workspaces /\ ~ws.err
    BY DEF Sound
  <2>2. saved = C
    BY DEF Contents
  <2>3. ASSUME ~Redefined PROVE \A n \in Primitive : ws.proc[n] \in {UNDEFINED, PRIM}
    BY <2>3 DEF Redefined, IsThere
  <2>4. ASSUME ~Redefined
        PROVE  /\ ~back.err
               /\ back.proc = [n \in Proc |-> IF n \in C.proc THEN ws.proc[n] ELSE Fresh.proc[n]]
               /\ back.val = [n \in Var |-> IF n \in C.val THEN ws.val[n] ELSE Fresh.val[n]]
               /\ back.plist = [n \in Plist |-> IF n \in C.plist THEN Reverse(ws.plist[n]) ELSE <<>>]
    BY <2>1, <2>3, <2>4, SavedComesBack
  <2> HIDE DEF back, C, saved
  <2>5. ~Redefined =>
          /\ ~back.err
          /\ back.proc = [n \in Proc |-> IF n \in saved.proc THEN ws.proc[n] ELSE Fresh.proc[n]]
          /\ back.val = [n \in Var |-> IF n \in saved.val THEN ws.val[n] ELSE Fresh.val[n]]
          /\ back.plist = [n \in Plist |-> IF n \in saved.plist THEN Reverse(ws.plist[n]) ELSE <<>>]
    BY <2>2, <2>4
  <2> QED
    BY <2>5 DEF SaveRestores, back, saved
<1> QED
  BY <1>1, WorkspaceStaysSound, PTL

(* EDIT of any list of names, left as it is in the editor, changes no      *)
(* definition, no value and the order of no property list; a procedure     *)
(* that is not known becomes that of its library file, or an empty one.    *)
THEOREM EditingKeeps == Spec => []EditKeeps
<1>1. Sound => EditKeeps
  <2> SUFFICES ASSUME Sound, NEW args \in Lists
               PROVE  LET e == EditText(ws, args)
                          back == IF e.w.err THEN e.w ELSE LoadText(e.w, e.text)
                      IN  /\ back.val = ws.val /\ back.plist = ws.plist
                          /\ \A n \in Proc : back.proc[n] \in {ws.proc[n]} \cup
                               (IF ws.proc[n] # UNDEFINED THEN {} ELSE IF n \in Library THEN {LibBody} ELSE {Empty})
    BY DEF EditKeeps
  <2>1. ws \in Workspaces /\ SomeNames(args)
    BY ListsNames DEF Sound
  <2> QED
    BY <2>1, EditedComesBack
<1> QED
  BY <1>1, WorkspaceStaysSound, PTL

(* The sort of the contents lists, for a list of any length: it has the    *)
(* words in order, and each as often as it was found.                      *)
THEOREM MergeSortSorts == \A words \in Seq(Int) : Sorts(MergeSort(words), words)
BY SortingSorts
=============================================================================
