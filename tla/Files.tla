------------------------------- MODULE Files --------------------------------
(***************************************************************************)
(* Open files and string writers: file_list, the writer and the reader     *)
(* (files.c), print_char and its pointer into the string being written     *)
(* (print.c), the reader of lines (parse.c), ERROR's effect on the writer  *)
(* (error.c).  LOAD is in Session.                                         *)
(*                                                                         *)
(* A file is a sequence of "c" (any character) and "n" (newline).  Two     *)
(* lists that are equal but not the same are different names; they hold a  *)
(* variable and a length.  A file is open on one stream at a time, which   *)
(* is read, and positioned with SETREADPOS, only if it was opened for      *)
(* reading, and with SETWRITEPOS only if for writing.  Not modelled:       *)
(* OPENUPDATE, prefixes, lines that reader continues, ERASEFILE, DRIBBLE,  *)
(* what runs while an error inside SAVE or FORM is handled, OPENWRITE of   *)
(* the list that WRITER outputs, and SETWRITEPOS while a string is written *)
(* (an fseek of no stream).                                                *)
(***************************************************************************)
EXTENDS Integers, SequencesExt

CONSTANTS
    File,           \* file names
    List,           \* lists [variable length] that a program holds
    VarOf, Length,  \* functions on List
    NIL,
    MaxText, MaxOps \* bounds: characters in a file, calls

Copy(l) == <<"copy", l>>        \* copy_list: equal, and not the same
Copies == {Copy(l) : l \in List}

ASSUME FilesAssumption ==
    /\ List \cap File = {} /\ NIL \notin List \cup File
    /\ Copies \cap (List \cup File \cup {NIL}) = {}
    /\ {"stdout", "string"} \cap File = {} /\ "write_buf" \notin List
    /\ Length \in [List -> Nat \ {0}] /\ DOMAIN VarOf = List
    /\ MaxText \in Nat /\ MaxOps \in Nat

Var == {VarOf[l] : l \in List}
Char == {"c", "n"}
Missing == <<"no file">>
Original(l) == IF l \in Copies THEN l[2] ELSE l
Buffer == List \cup {"write_buf"}
IsList(name) == name \in List \cup Copies

VARIABLES
    disk,           \* the files
    file_list,      \* newest first: [name, mode, pos]; string writers have mode "string"
    buf,            \* the strings being written: [live, text]
    writestream,    \* "stdout", "string" or the name of an open file
    writer_name,
    print_string,   \* [buf, at, room]: print_stringptr and print_stringlen
    reader_name,    \* and readstream: both NIL and stdin, or what is open
    value,          \* of the variables
    printed,        \* history: printed to each string since it was made
    got, whole,     \* history: read from the reader, and no unfinished last line was asked for
    ops

vars == <<disk, file_list, buf, writestream, writer_name, print_string, reader_name, value, printed, got, whole, ops>>
writer == <<buf, writestream, writer_name, print_string, value, printed>>
reading == <<reader_name, got, whole>>

Nowhere == [buf |-> NIL, at |-> 0, room |-> 0]
Dead == [live |-> FALSE, text |-> <<>>]
Init ==
    /\ disk \in [File -> {Missing, <<"c", "n", "c">>}]
    /\ file_list = <<>> /\ buf = [b \in Buffer |-> Dead]
    /\ writestream = "stdout" /\ writer_name = NIL /\ print_string = Nowhere
    /\ reader_name = NIL
    /\ value = [v \in Var |-> <<>>]
    /\ printed = [b \in Buffer |-> <<>>] /\ got = <<>> /\ whole = TRUE
    /\ ops = 0

Call == ops < MaxOps /\ ops' = ops + 1

---------------------------------------------------------------------------
(* find_file                                                               *)
Position(name) == {i \in DOMAIN file_list : file_list[i].name = name}
IsOpen(name) == Position(name) # {}
Entry(name) == file_list[CHOOSE i \in Position(name) : TRUE]
WithPos(name, p) == [i \in DOMAIN file_list |-> IF file_list[i].name = name THEN [file_list[i] EXCEPT !.pos = p] ELSE file_list[i]]

(* lopen: an error (no change) if it is open, or cannot be opened.         *)
Push(name, mode, p) == file_list' = <<[name |-> name, mode |-> mode, pos |-> p]>> \o file_list
OpenRead(f) ==
    /\ ~IsOpen(f) /\ disk[f] # Missing /\ Push(f, "read", 0)
    /\ UNCHANGED <<disk, writer, reading>>
OpenWrite(f) ==
    /\ ~IsOpen(f) /\ Push(f, "write", 0) /\ disk' = [disk EXCEPT ![f] = <<>>]
    /\ UNCHANGED <<writer, reading>>
OpenAppend(f) ==
    /\ ~IsOpen(f) /\ Push(f, "append", 0)
    /\ disk' = [disk EXCEPT ![f] = IF @ = Missing THEN <<>> ELSE @]
    /\ UNCHANGED <<writer, reading>>
OpenString(l) ==
    /\ ~IsOpen(l) /\ Push(l, "string", 0)
    /\ buf' = [buf EXCEPT ![l] = [live |-> TRUE, text |-> <<>>]] /\ printed' = [printed EXCEPT ![l] = <<>>]
    /\ UNCHANGED <<disk, writestream, writer_name, print_string, value, reading>>

(* lclose: a string goes to its variable; a writer or a reader that is     *)
(* closed is the terminal again.                                           *)
CloseWriter(name) ==
    IF name = writer_name THEN writestream' = "stdout" /\ writer_name' = NIL ELSE UNCHANGED <<writestream, writer_name>>
(* Mutant: the reader is forgotten.                                        *)
CloseReaderNot(name) == UNCHANGED reading
CloseReader(name) ==
    IF name = reader_name THEN reader_name' = NIL /\ got' = <<>> /\ whole' = TRUE ELSE UNCHANGED reading
Close(name) ==
    /\ IsOpen(name)
    /\ \E i \in Position(name) : file_list' = RemoveAt(file_list, i)
    /\ IF IsList(name)
         THEN value' = [value EXCEPT ![VarOf[name]] = buf[name].text] /\ buf' = [buf EXCEPT ![name].live = FALSE]
         ELSE UNCHANGED <<value, buf>>
    /\ CloseWriter(name) /\ CloseReader(name)
    /\ UNCHANGED <<disk, print_string, printed>>

---------------------------------------------------------------------------
(* lsetwrite first finishes a string that is being written: if it was not  *)
(* opened, its variable gets the text.                                     *)
(* Mutant: the finished string is freed and its variable not set.          *)
FinishedNot == [buf |-> [buf EXCEPT !["write_buf"].live = FALSE], value |-> value]
Finished ==
    IF writestream # "string" \/ IsOpen(writer_name) THEN [buf |-> buf, value |-> value]
    ELSE [buf |-> [buf EXCEPT !["write_buf"].live = FALSE],
          value |-> [value EXCEPT ![VarOf[Original(writer_name)]] = buf["write_buf"].text]]

Terminal == writestream' = "stdout" /\ writer_name' = NIL
SetWriteTerminal ==
    /\ Terminal /\ buf' = Finished.buf /\ value' = Finished.value
    /\ UNCHANGED <<disk, file_list, print_string, printed, reading>>

(* A file that is open, a string that is open (at its end), or a list that *)
(* is not: its text is made in write_buf.  Any other name is an error.     *)
AtEndOf(l) == [buf |-> l, at |-> Len(buf[l].text), room |-> Length[l] + 1 - Len(buf[l].text)]
SetWrite(name) ==
    /\ LET done == Finished
       IN CASE IsOpen(name) /\ ~IsList(name) ->
                 /\ writestream' = name /\ writer_name' = name
                 /\ buf' = done.buf /\ value' = done.value /\ UNCHANGED <<print_string, printed>>
            [] IsOpen(name) /\ IsList(name) ->
                 /\ writestream' = "string" /\ writer_name' = name /\ print_string' = AtEndOf(name)
                 /\ buf' = done.buf /\ value' = done.value /\ UNCHANGED printed
            [] ~IsOpen(name) /\ IsList(name) ->
                 /\ writestream' = "string" /\ writer_name' = Copy(Original(name))
                 /\ print_string' = [buf |-> "write_buf", at |-> 0, room |-> Length[Original(name)] + 1]
                 /\ buf' = [done.buf EXCEPT !["write_buf"] = [live |-> TRUE, text |-> <<>>]]
                 /\ printed' = [printed EXCEPT !["write_buf"] = <<>>] /\ value' = done.value
            [] OTHER ->
                 /\ IF writestream = "string" THEN Terminal ELSE UNCHANGED <<writestream, writer_name>>
                 /\ buf' = done.buf /\ value' = done.value /\ UNCHANGED <<print_string, printed>>
    /\ UNCHANGED <<disk, file_list, reading>>

(* ERROR makes its message in a buffer of its own, and so ends the writing *)
(* of a string.                                                            *)
Error ==
    /\ IF writestream = "string" THEN Terminal ELSE UNCHANGED <<writestream, writer_name>>
    /\ buf' = Finished.buf /\ value' = Finished.value
    /\ UNCHANGED <<disk, file_list, print_string, printed, reading>>

(* print_char                                                              *)
FitsString(room) == room - 1 > 0
PutAt(text, i, ch) == IF i < Len(text) THEN ReplaceAt(text, i + 1, ch) ELSE Append(text, ch)
Mode(f) == Entry(f).mode
PrintChar(ch) ==
    /\ CASE writestream = "string" ->
              /\ LET p == print_string
                     fits == FitsString(p.room)
                 IN /\ print_string' = [p EXCEPT !.room = @ - 1, !.at = IF fits THEN @ + 1 ELSE @]
                    /\ buf' = IF fits THEN [buf EXCEPT ![p.buf].text = PutAt(@, p.at, ch)] ELSE buf
                    /\ printed' = [printed EXCEPT ![p.buf] = Append(@, ch)]
              /\ UNCHANGED <<disk, file_list>>
         [] writestream = "stdout" ->
              UNCHANGED <<disk, file_list, buf, print_string, printed>>
         [] OTHER ->
              /\ CASE Mode(writestream) = "read" -> UNCHANGED <<disk, file_list>>
                   [] Mode(writestream) = "append" ->
                        disk' = [disk EXCEPT ![writestream] = Append(@, ch)] /\ UNCHANGED file_list
                   [] Mode(writestream) = "write" ->
                        LET p == Entry(writestream).pos
                        IN /\ disk' = [disk EXCEPT ![writestream] = PutAt(@, p, ch)]
                           /\ file_list' = WithPos(writestream, p + 1)
              /\ UNCHANGED <<buf, print_string, printed>>
    /\ UNCHANGED <<writestream, writer_name, reading, value>>

SetWritePos(p) ==
    /\ writestream \notin {"string", "stdout"} /\ Mode(writestream) # "read"
    /\ IF Mode(writestream) = "append" THEN UNCHANGED file_list ELSE file_list' = WithPos(writestream, p)
    /\ UNCHANGED <<disk, writer, reading>>

---------------------------------------------------------------------------
(* A string that is open is taken for a file; what a primitive reads from  *)
(* it is undefined and left out.                                           *)
SetRead(f) ==
    /\ IF f = NIL THEN reader_name' = NIL ELSE IF IsOpen(f) THEN reader_name' = f ELSE UNCHANGED reader_name
    /\ IF reader_name' # reader_name
         THEN /\ got' = IF f = NIL \/ Mode(f) # "read" THEN <<>> ELSE SubSeq(disk[f], 1, Entry(f).pos)
              /\ whole' = TRUE
         ELSE UNCHANGED <<got, whole>>
    /\ UNCHANGED <<disk, file_list, writer>>

(* What is left to read.                                                   *)
Rest == SubSeq(disk[reader_name], Entry(reader_name).pos + 1, Len(disk[reader_name]))
Take(n, text) ==
    /\ file_list' = WithPos(reader_name, Entry(reader_name).pos + n)
    /\ got' = got \o text
    /\ UNCHANGED <<reader_name, disk, writer>>

(* READWORD, READLIST and READRAWLINE: a line that ends with the file is   *)
(* not output.                                                             *)
ReadLine ==
    LET ends == {i \in DOMAIN Rest : Rest[i] = "n"}
    IN IF ends = {} THEN Take(Len(Rest), <<>>) /\ whole' = (whole /\ Rest = <<>>)
       ELSE LET n == CHOOSE i \in ends : \A j \in ends : i <= j
            IN Take(n, SubSeq(Rest, 1, n)) /\ UNCHANGED whole
ReadChar == IF Rest = <<>> THEN UNCHANGED <<disk, file_list, writer, reading>> ELSE Take(1, <<Head(Rest)>>) /\ UNCHANGED whole
(* READCHARS: fread up to two characters.                                  *)
ReadChars == LET n == IF Len(Rest) < 2 THEN Len(Rest) ELSE 2 IN Take(n, SubSeq(Rest, 1, n)) /\ UNCHANGED whole
(* Mutant: the character is not put back.                                  *)
EofpEats == IF Rest = <<>> THEN UNCHANGED <<disk, file_list, writer, reading>> ELSE Take(1, <<>>) /\ UNCHANGED whole
(* EOFP, KEYP and LINEP read a character and put it back.                  *)
Eofp == UNCHANGED <<disk, file_list, writer, reading>>
SetReadPos(p) ==
    /\ file_list' = WithPos(reader_name, p) /\ got' = SubSeq(disk[reader_name], 1, p) /\ whole' = TRUE
    /\ UNCHANGED <<reader_name, disk, writer>>

Bounded == \A f \in File : disk'[f] = Missing \/ Len(disk'[f]) <= MaxText
Next ==
    /\ Call
    /\ \/ \E f \in File : OpenRead(f) \/ OpenWrite(f) \/ OpenAppend(f)
       \/ \E l \in List : OpenString(l)
       \/ \E name \in File \cup List : Close(name)
       \/ SetWriteTerminal \/ \E name \in File \cup List \cup ({writer_name} \ {NIL}) : SetWrite(name)
       \/ \E ch \in Char : PrintChar(ch)
       \/ SetWritePos(0) \/ Error
       \/ \E name \in File \cup List \cup {NIL} : SetRead(name)
       \/ reader_name # NIL /\ Mode(reader_name) = "read" /\ (ReadLine \/ ReadChar \/ ReadChars \/ Eofp \/ SetReadPos(0))
    /\ Bounded

Spec == Init /\ [][Next]_vars

---------------------------------------------------------------------------
TypeOK ==
    /\ \A f \in File : disk[f] = Missing \/ disk[f] \in Seq(Char)
    /\ \A i \in DOMAIN file_list : file_list[i].name \in File \cup List /\ file_list[i].pos \in Nat
    /\ \A i, j \in DOMAIN file_list : file_list[i].name = file_list[j].name => i = j
    /\ writer_name \in {NIL} \cup File \cup List \cup Copies /\ reader_name \in {NIL} \cup File \cup List
    /\ \A v \in Var : value[v] \in Seq(Char)

(* The writer and the reader are the terminal or something that is open,   *)
(* and the pointer of print_char is at the end of the text of a string     *)
(* that has not been freed, with room for it (files.c:272-370,             *)
(* print.c:105-108).                                                       *)
StreamsAreOpen ==
    /\ CASE writestream = "stdout" -> writer_name = NIL
         [] writestream = "string" ->
              LET p == print_string
              IN /\ IsList(writer_name) /\ p.buf = (IF IsOpen(writer_name) THEN writer_name ELSE "write_buf")
                 /\ buf[p.buf].live /\ p.at = Len(buf[p.buf].text)
                 /\ p.at <= Length[Original(writer_name)]
         [] OTHER -> writestream = writer_name /\ IsOpen(writer_name)
    /\ reader_name # NIL => IsOpen(reader_name)

(* Every string that is being written can still be finished: it is open    *)
(* under its list, or it is the one that the writer has now; none is freed *)
(* while it is open (files.c:285-292, 312-324).                            *)
StringsAreReachable ==
    \A b \in Buffer :
        buf[b].live <=> IF b = "write_buf" THEN writestream = "string" /\ ~IsOpen(writer_name) ELSE IsOpen(b)

(* A string holds what was printed to it, in order, up to its length,      *)
(* however often the writer was changed in between                         *)
(* (files.c:329-344, print.c:105-108).                                     *)
Printed(b, l) == SubSeq(printed[b], 1, IF Len(printed[b]) < Length[l] THEN Len(printed[b]) ELSE Length[l])
ListOf(b) == IF b = "write_buf" THEN Original(writer_name) ELSE b
StringsAreWhole == \A b \in Buffer : buf[b].live => buf[b].text = Printed(b, ListOf(b))

Finishes(b) == buf[b].live /\ (~buf'[b].live \/ Len(printed'[b]) < Len(printed[b]) \/ (b = "write_buf" /\ writer_name' # writer_name))
(* A string that is closed, or left for another writer or by an error,     *)
(* becomes the value of its variable, and no other variable changes        *)
(* (files.c:272-324, error.c:66).                                          *)
IsValue(b) == value'[VarOf[ListOf(b)]] = Printed(b, ListOf(b))
StringIsMade ==
    [][/\ \A b \in Buffer : Finishes(b) => IsValue(b)
       /\ \A v \in Var : value'[v] # value[v] => \E b \in Buffer : buf[b].live /\ VarOf[ListOf(b)] = v /\ IsValue(b)]_vars

(* What the reading primitives output is what the file holds, each         *)
(* character once and in order, whatever was asked in between; but a last  *)
(* line without a newline is dropped by those that read lines              *)
(* (files.c:531-725).                                                      *)
ReadsInOrder ==
    reader_name # NIL /\ whole /\ Mode(reader_name) = "read" =>
        got = SubSeq(disk[reader_name], 1, Entry(reader_name).pos)

(* The types; no stream is used after its end, every string being written  *)
(* can be reached and holds all that was printed to it (files.c:273-354).  *)
FilesInv == TypeOK /\ StreamsAreOpen /\ StringsAreReachable /\ StringsAreWhole
=============================================================================
