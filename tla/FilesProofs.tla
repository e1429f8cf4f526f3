------------------------------ MODULE FilesProofs ------------------------------
(***************************************************************************)
(* Streams and strings, for any files, any lists, texts of any length and  *)
(* any number of calls.                                                    *)
(*                                                                         *)
(* Two things are added to what is checked.  The room of the string being  *)
(* written is what its text has left, so that print_char stops exactly at  *)
(* its length; and the text read so far is known to be in a file that      *)
(* nobody writes, because a file has one stream (file_list has no name     *)
(* twice) and a stream that was opened for reading does not print.         *)
(***************************************************************************)
EXTENDS Files, SequenceTheorems, WellFoundedInduction, TLAPS

Stream == [name : File \cup List, mode : {"read", "write", "append", "string"}, pos : Nat]

Listed(fl) ==
    /\ fl \in Seq(Stream)
    /\ \A i, j \in 1 .. Len(fl) : fl[i].name = fl[j].name => i = j
Opened(fl, n) == \E i \in 1 .. Len(fl) : fl[i].name = n
The(fl, n) == fl[CHOOSE i \in {i \in DOMAIN fl : fl[i].name = n} : TRUE]

\* Every stream is of a kind its name has, and one that is read is in its file.
StreamFits(e, d) ==
    /\ e.mode = "string" <=> e.name \in List
    /\ e.name \in File => d[e.name] # Missing
    /\ e.mode = "read" => e.pos <= Len(d[e.name])
FilesOpen(fl, d) ==
    /\ Listed(fl) /\ d \in [File -> {Missing} \cup Seq(Char)]
    /\ \A n : Opened(fl, n) => StreamFits(The(fl, n), d)

Reader(fl, d, rn, g, w) ==
    /\ rn \in {NIL} \cup File \cup List /\ w \in BOOLEAN
    /\ rn # NIL => Opened(fl, rn)
    /\ rn # NIL /\ w /\ The(fl, rn).mode = "read" => g = SubSeq(d[rn], 1, The(fl, rn).pos)

BufferOf(wn) == IF wn \in List THEN wn ELSE "write_buf"
Clip(p, n) == SubSeq(p, 1, IF Len(p) < n THEN Len(p) ELSE n)

\* The pointer of print_char, at the end of a text of at most n characters.
AtEnd(ps, b, text, n) ==
    /\ ps = [buf |-> b, at |-> Len(text), room |-> ps.room]
    /\ ps.at <= n /\ ps.room \in Int
    /\ IF ps.at < n THEN ps.room = n + 1 - ps.at ELSE ps.room <= 1

Writer(fl, ws, wn, ps, bf) ==
    \/ ws = "stdout" /\ wn = NIL
    \/ ws \in File /\ wn = ws /\ Opened(fl, ws)
    \/ /\ ws = "string" /\ wn \in List \cup Copies /\ (wn \in List => Opened(fl, wn))
       /\ bf[BufferOf(wn)].live
       /\ AtEnd(ps, BufferOf(wn), bf[BufferOf(wn)].text, Length[Original(wn)])

Texts(bf, pr, va) ==
    /\ bf \in [Buffer -> [live : BOOLEAN, text : Seq(Char)]]
    /\ pr \in [Buffer -> Seq(Char)] /\ va \in [Var -> Seq(Char)]
Live(fl, ws, wn, bf) ==
    /\ \A l \in List : bf[l].live <=> Opened(fl, l)
    /\ bf["write_buf"].live <=> ws = "string" /\ wn \in Copies
Whole(bf, pr, wn) ==
    /\ \A l \in List : bf[l].live => bf[l].text = Clip(pr[l], Length[l])
    /\ bf["write_buf"].live => bf["write_buf"].text = Clip(pr["write_buf"], Length[Original(wn)])

Writing(fl, ws, wn, ps, bf, pr, va) ==
    /\ Texts(bf, pr, va) /\ Writer(fl, ws, wn, ps, bf)
    /\ Live(fl, ws, wn, bf) /\ Whole(bf, pr, wn)

IInv ==
    /\ FilesOpen(file_list, disk)
    /\ Reader(file_list, disk, reader_name, got, whole)
    /\ Writing(file_list, writestream, writer_name, print_string, buf, printed, value)

-----------------------------------------------------------------------------
(* file_list as a set of streams. *)

LEMMA TheIs ==
  ASSUME NEW fl, Listed(fl), NEW i \in 1 .. Len(fl)
  PROVE  Opened(fl, fl[i].name) /\ The(fl, fl[i].name) = fl[i] /\ fl[i] \in Stream
<1> DEFINE P == {k \in DOMAIN fl : fl[k].name = fl[i].name}
<1>1. fl \in Seq(Stream) /\ DOMAIN fl = 1 .. Len(fl)
  BY DEF Listed
<1>2. P = {i}
  BY <1>1 DEF Listed
<1> HIDE DEF P
<1>3. (CHOOSE k \in P : TRUE) = i
  BY <1>2
<1>4. The(fl, fl[i].name) = fl[i]
  BY <1>3 DEF The, P
<1> QED
  BY <1>1, <1>4 DEF Opened

LEMMA OpenedIs ==
  ASSUME NEW fl, Listed(fl), NEW n, Opened(fl, n)
  PROVE  /\ \E i \in 1 .. Len(fl) : The(fl, n) = fl[i]
         /\ The(fl, n).name = n /\ The(fl, n) \in Stream /\ n \in File \cup List
<1>1. PICK i \in 1 .. Len(fl) : fl[i].name = n
  BY DEF Opened
<1>2. The(fl, n) = fl[i] /\ fl[i] \in Stream
  BY <1>1, TheIs
<1> QED
  BY <1>1, <1>2 DEF Stream

LEMMA ListIsOpen ==
  ASSUME Listed(file_list)
  PROVE  /\ \A n : IsOpen(n) <=> Opened(file_list, n)
         /\ \A n : Entry(n) = The(file_list, n)
         /\ \A n : Mode(n) = The(file_list, n).mode
<1>1. ASSUME NEW n PROVE Position(n) = {i \in DOMAIN file_list : file_list[i].name = n}
  BY DEF Position
<1>2. DOMAIN file_list = 1 .. Len(file_list)
  BY DEF Listed
<1>3. \A n : IsOpen(n) <=> Opened(file_list, n)
  BY <1>1, <1>2 DEF IsOpen, Opened
<1>4. ASSUME NEW n PROVE Entry(n) = The(file_list, n)
  BY <1>1 DEF Entry, The
<1> QED
  BY <1>3, <1>4 DEF Mode

LEMMA Added ==
  ASSUME NEW fl, Listed(fl), NEW e \in Stream, ~Opened(fl, e.name)
  PROVE  LET fm == <<e>> \o fl IN
         /\ Listed(fm)
         /\ \A n : Opened(fm, n) <=> n = e.name \/ Opened(fl, n)
         /\ The(fm, e.name) = e
         /\ \A n : Opened(fl, n) => The(fm, n) = The(fl, n)
<1> DEFINE fm == <<e>> \o fl
           L == Len(fl)
<1>1. fl \in Seq(Stream) /\ L \in Nat /\ \A i, j \in 1 .. L : fl[i].name = fl[j].name => i = j
  BY DEF Listed
<1>2. /\ fm \in Seq(Stream) /\ Len(fm) = L + 1 /\ fm[1] = e
      /\ \A i \in 2 .. L + 1 : fm[i] = fl[i - 1]
  BY <1>1
<1>3. \A i \in 1 .. L : fl[i].name # e.name
  BY DEF Opened
<1> HIDE DEF fm
<1>4. ASSUME NEW i \in 1 .. L + 1, i # 1 PROVE i - 1 \in 1 .. L /\ fm[i] = fl[i - 1]
  BY <1>1, <1>2, <1>4
<1>5. ASSUME NEW i \in 1 .. L PROVE i + 1 \in 1 .. L + 1 /\ fm[i + 1] = fl[i]
  <2>1. i + 1 \in 2 .. L + 1 /\ (i + 1) - 1 = i
    BY <1>1
  <2> QED
    BY <1>2, <2>1
<1>6. Listed(fm)
  <2>1. ASSUME NEW i \in 1 .. L + 1, NEW j \in 1 .. L + 1, fm[i].name = fm[j].name PROVE i = j
    <3>1. CASE i = 1
      BY <1>2, <1>3, <1>4, <2>1, <3>1
    <3>2. CASE j = 1
      BY <1>2, <1>3, <1>4, <2>1, <3>2
    <3>3. CASE i # 1 /\ j # 1
      <4>1. i - 1 = j - 1
        BY <1>1, <1>4, <2>1, <3>3
      <4> QED
        BY <1>1, <4>1
    <3> QED
      BY <3>1, <3>2, <3>3
  <2> QED
    BY <1>2, <2>1 DEF Listed
<1>7. ASSUME NEW n PROVE Opened(fm, n) <=> n = e.name \/ Opened(fl, n)
  <2>1. ASSUME Opened(fm, n), n # e.name PROVE Opened(fl, n)
    <3>1. PICK i \in 1 .. L + 1 : fm[i].name = n
      BY <1>2, <2>1 DEF Opened
    <3>2. i # 1
      BY <1>2, <2>1, <3>1
    <3> QED
      BY <1>4, <3>1, <3>2 DEF Opened
  <2>2. ASSUME Opened(fl, n) PROVE Opened(fm, n)
    <3>1. PICK i \in 1 .. L : fl[i].name = n
      BY <2>2 DEF Opened
    <3> QED
      BY <1>2, <1>5, <3>1 DEF Opened
  <2>3. 1 \in 1 .. Len(fm) /\ fm[1].name = e.name
    BY <1>1, <1>2
  <2>4. Opened(fm, e.name)
    BY <2>3 DEF Opened
  <2> QED
    BY <2>1, <2>2, <2>4
<1>8. The(fm, e.name) = e
  BY <1>1, <1>2, <1>6, TheIs
<1>9. ASSUME NEW n, Opened(fl, n) PROVE The(fm, n) = The(fl, n)
  <2>1. PICK i \in 1 .. L : fl[i].name = n
    BY <1>9 DEF Opened
  <2>2. The(fl, n) = fl[i]
    BY <2>1, TheIs
  <2>3. i + 1 \in 1 .. Len(fm) /\ fm[i + 1] = fl[i]
    BY <1>2, <1>5
  <2>4. The(fm, fm[i + 1].name) = fm[i + 1]
    BY <1>6, <2>3, TheIs
  <2> QED
    BY <2>1, <2>2, <2>3, <2>4
<1> QED
  BY <1>6, <1>7, <1>8, <1>9 DEF fm

LEMMA Removed ==
  ASSUME NEW fl, Listed(fl), NEW k \in 1 .. Len(fl)
  PROVE  LET fm == RemoveAt(fl, k) IN
         /\ Listed(fm)
         /\ \A n : Opened(fm, n) <=> n # fl[k].name /\ Opened(fl, n)
         /\ \A n : Opened(fm, n) => The(fm, n) = The(fl, n)
<1> DEFINE L == Len(fl)
           p == SubSeq(fl, 1, k - 1)
           q == SubSeq(fl, k + 1, L)
           fm == p \o q
<1>1. fl \in Seq(Stream) /\ L \in Nat /\ \A i, j \in 1 .. L : fl[i].name = fl[j].name => i = j
  BY DEF Listed
<1>2. p \in Seq(Stream) /\ Len(p) = k - 1 /\ \A i \in 1 .. k - 1 : p[i] = fl[i]
  BY <1>1
<1>3. q \in Seq(Stream) /\ Len(q) = L - k /\ \A i \in 1 .. L - k : q[i] = fl[k + i]
  BY <1>1
<1>4. RemoveAt(fl, k) = fm
  BY DEF RemoveAt
<1> HIDE DEF p, q
<1>5. /\ fm \in Seq(Stream) /\ Len(fm) = L - 1
      /\ \A i \in 1 .. L - 1 : fm[i] = IF i < k THEN p[i] ELSE q[i - (k - 1)]
  BY <1>1, <1>2, <1>3
<1> HIDE DEF fm
<1>6. ASSUME NEW i \in 1 .. L - 1
      PROVE  /\ i < k => i \in 1 .. L /\ fm[i] = fl[i]
             /\ i >= k => i + 1 \in 1 .. L /\ fm[i] = fl[i + 1]
  <2>1. CASE i < k
    BY <1>1, <1>2, <1>5, <2>1
  <2>2. CASE i >= k
    <3>1. i - (k - 1) \in 1 .. L - k /\ k + (i - (k - 1)) = i + 1 /\ i + 1 \in 1 .. L /\ ~ (i < k)
      BY <1>1, <2>2
    <3> QED
      BY <1>3, <1>5, <3>1
  <2> QED
    BY <1>1, <2>1, <2>2
<1>7. ASSUME NEW i \in 1 .. L, i # k PROVE \E j \in 1 .. L - 1 : fm[j] = fl[i]
  <2>1. CASE i < k
    BY <1>1, <1>6, <2>1
  <2>2. CASE i > k
    <3>1. i - 1 \in 1 .. L - 1 /\ i - 1 >= k /\ (i - 1) + 1 = i
      BY <1>1, <2>2
    <3> QED
      BY <1>6, <3>1
  <2> QED
    BY <1>1, <1>7, <2>1, <2>2
<1>8. ASSUME NEW i \in 1 .. L - 1
      PROVE  \E j \in 1 .. L : j # k /\ fm[i] = fl[j] /\ j = IF i < k THEN i ELSE i + 1
  <2>1. CASE i < k
    BY <1>1, <1>6, <2>1
  <2>2. CASE i >= k
    <3>1. i + 1 # k /\ ~ (i < k)
      BY <1>1, <2>2
    <3> QED
      BY <1>6, <2>2, <3>1
  <2> QED
    BY <1>1, <2>1, <2>2
<1>9. Listed(fm)
  <2>1. ASSUME NEW i \in 1 .. L - 1, NEW j \in 1 .. L - 1, fm[i].name = fm[j].name PROVE i = j
    <3>1. PICK i2 \in 1 .. L : fm[i] = fl[i2] /\ i2 = IF i < k THEN i ELSE i + 1
      BY <1>8
    <3>2. PICK j2 \in 1 .. L : fm[j] = fl[j2] /\ j2 = IF j < k THEN j ELSE j + 1
      BY <1>8
    <3>3. i2 = j2
      BY <1>1, <2>1, <3>1, <3>2
    <3> QED
      BY <1>1, <3>1, <3>2, <3>3
  <2> QED
    BY <1>5, <2>1 DEF Listed
<1>10. ASSUME NEW n PROVE Opened(fm, n) <=> n # fl[k].name /\ Opened(fl, n)
  <2>1. ASSUME Opened(fm, n) PROVE n # fl[k].name /\ Opened(fl, n)
    <3>1. PICK i \in 1 .. L - 1 : fm[i].name = n
      BY <1>5, <2>1 DEF Opened
    <3>2. PICK j \in 1 .. L : j # k /\ fm[i] = fl[j]
      BY <1>8
    <3> QED
      BY <1>1, <3>1, <3>2 DEF Opened
  <2>2. ASSUME Opened(fl, n), n # fl[k].name PROVE Opened(fm, n)
    <3>1. PICK i \in 1 .. L : fl[i].name = n
      BY <2>2 DEF Opened
    <3>2. i # k
      BY <2>2, <3>1
    <3>3. PICK j \in 1 .. L - 1 : fm[j] = fl[i]
      BY <1>7, <3>2
    <3> QED
      BY <1>5, <3>1, <3>3 DEF Opened
  <2> QED
    BY <2>1, <2>2
<1>11. ASSUME NEW n, Opened(fm, n) PROVE The(fm, n) = The(fl, n)
  <2>1. PICK i \in 1 .. Len(fm) : fm[i].name = n
    BY <1>11 DEF Opened
  <2>2. PICK j \in 1 .. L : fm[i] = fl[j]
    BY <1>5, <1>8
  <2>3. The(fm, fm[i].name) = fm[i]
    BY <1>9, TheIs
  <2>4. The(fl, fl[j].name) = fl[j]
    BY TheIs
  <2> QED
    BY <2>1, <2>2, <2>3, <2>4
<1> QED
  BY <1>4, <1>9, <1>10, <1>11

\* A stream is at another place of its file.
PosIn(fl, name, p) ==
    [i \in DOMAIN fl |-> IF fl[i].name = name THEN [fl[i] EXCEPT !.pos = p] ELSE fl[i]]

LEMMA WithPosIs == \A name, p : WithPos(name, p) = PosIn(file_list, name, p)
  BY DEF WithPos, PosIn

LEMMA Moved ==
  ASSUME NEW fl, Listed(fl), NEW name, NEW p \in Nat, NEW fm,
         fm = PosIn(fl, name, p)
  PROVE  /\ Listed(fm)
         /\ \A n : Opened(fm, n) <=> Opened(fl, n)
         /\ \A n : Opened(fl, n) => The(fm, n) = IF n = name THEN [The(fl, n) EXCEPT !.pos = p] ELSE The(fl, n)
<1> DEFINE L == Len(fl)
<1>1. fl \in Seq(Stream) /\ L \in Nat /\ DOMAIN fl = 1 .. L
  BY DEF Listed
<1>2. ASSUME NEW i \in 1 .. L
      PROVE  /\ fm[i] = IF fl[i].name = name THEN [fl[i] EXCEPT !.pos = p] ELSE fl[i]
             /\ fm[i] \in Stream /\ fm[i].name = fl[i].name
  <2>1. fl[i] \in Stream
    BY <1>1
  <2>2. fm[i] = IF fl[i].name = name THEN [fl[i] EXCEPT !.pos = p] ELSE fl[i]
    BY <1>1 DEF PosIn
  <2> QED
    BY <2>1, <2>2 DEF Stream
<1>3. fm = [i \in 1 .. L |-> fm[i]]
  BY <1>1 DEF PosIn
<1>4. fm \in Seq(Stream) /\ Len(fm) = L
  <2>1. \A i \in 1 .. L : fm[i] \in Stream
    BY <1>2
  <2>2. fm \in [1 .. L -> Stream]
    BY <1>3, <2>1, Zenon
  <2> QED
    BY <1>1, <2>2
<1>5. Listed(fm)
  BY <1>2, <1>4 DEF Listed
<1>6. \A n : Opened(fm, n) <=> Opened(fl, n)
  BY <1>2, <1>4 DEF Opened
<1>7. ASSUME NEW n, Opened(fl, n)
      PROVE  The(fm, n) = IF n = name THEN [The(fl, n) EXCEPT !.pos = p] ELSE The(fl, n)
  <2>1. PICK i \in 1 .. L : fl[i].name = n
    BY <1>7 DEF Opened
  <2>2. The(fl, n) = fl[i]
    BY <2>1, TheIs
  <2>3. The(fm, n) = fm[i]
    <3>1. i \in 1 .. Len(fm) /\ fm[i].name = n
      BY <1>2, <1>4, <2>1
    <3>2. The(fm, fm[i].name) = fm[i]
      BY <1>5, <3>1, TheIs
    <3> QED
      BY <3>1, <3>2
  <2> QED
    BY <1>2, <2>1, <2>2, <2>3
<1> QED
  BY <1>5, <1>6, <1>7

-----------------------------------------------------------------------------
(* What a change of file_list and of the disk leaves as it is. *)

LEMMA FilesKept ==
  ASSUME NEW fl, NEW d, FilesOpen(fl, d), NEW fm, Listed(fm),
         NEW e \in [File -> {Missing} \cup Seq(Char)],
         \A n : Opened(fm, n) =>
             \/ Opened(fl, n) /\ The(fm, n) = The(fl, n) /\ (n \in File => e[n] = d[n])
             \/ StreamFits(The(fm, n), e)
  PROVE  FilesOpen(fm, e)
<1>1. ASSUME NEW n, Opened(fm, n) PROVE StreamFits(The(fm, n), e)
  <2>1. CASE Opened(fl, n) /\ The(fm, n) = The(fl, n) /\ (n \in File => e[n] = d[n])
    <3>1. The(fl, n).name = n /\ n \in File \cup List /\ StreamFits(The(fl, n), d)
      BY <2>1, OpenedIs DEF FilesOpen
    <3>2. The(fl, n).mode = "read" => n \in File
      BY <3>1 DEF StreamFits
    <3> QED
      BY <2>1, <3>1, <3>2 DEF StreamFits
  <2> QED
    BY <1>1, <2>1
<1> QED
  BY <1>1 DEF FilesOpen

LEMMA ReaderKept ==
  ASSUME NEW fl, NEW d, NEW rn, NEW g, NEW w, Reader(fl, d, rn, g, w), NEW fm, NEW e,
         rn # NIL => /\ Opened(fm, rn)
                     /\ The(fm, rn).mode = The(fl, rn).mode
                     /\ The(fl, rn).mode = "read" => e[rn] = d[rn] /\ The(fm, rn).pos = The(fl, rn).pos
  PROVE  Reader(fm, e, rn, g, w)
<1>1. CASE rn = NIL
  BY <1>1 DEF Reader
<1>2. CASE rn # NIL
  BY <1>2 DEF Reader
<1> QED
  BY <1>1, <1>2

LEMMA WritingKept ==
  ASSUME NEW fl, NEW ws, NEW wn, NEW ps, NEW bf, NEW pr, NEW va, Writing(fl, ws, wn, ps, bf, pr, va),
         NEW fm, \A n : Opened(fl, n) => Opened(fm, n), \A l \in List : Opened(fm, l) => Opened(fl, l)
  PROVE  Writing(fm, ws, wn, ps, bf, pr, va)
<1>1. Writer(fm, ws, wn, ps, bf)
  BY DEF Writing, Writer
<1>2. Live(fm, ws, wn, bf)
  BY DEF Writing, Live
<1> QED
  BY <1>1, <1>2 DEF Writing

LEMMA Pieces ==
  ASSUME IInv
  PROVE  /\ FilesOpen(file_list, disk) /\ Listed(file_list)
         /\ disk \in [File -> {Missing} \cup Seq(Char)]
         /\ Reader(file_list, disk, reader_name, got, whole)
         /\ reader_name # NIL => reader_name \in File \cup List /\ Opened(file_list, reader_name)
         /\ Writing(file_list, writestream, writer_name, print_string, buf, printed, value)
  BY DEF IInv, FilesOpen, Reader

\* What is read is a file.
LEMMA ReadsAFile ==
  ASSUME IInv, reader_name # NIL, The(file_list, reader_name).mode = "read"
  PROVE  reader_name \in File
<1>1. StreamFits(The(file_list, reader_name), disk) /\ The(file_list, reader_name).name = reader_name
  BY Pieces, OpenedIs DEF FilesOpen
<1> QED
  BY <1>1, Pieces DEF StreamFits

\* A file is opened: it was on no stream.
LEMMA OpenFileStep ==
  ASSUME IInv, NEW f \in File, ~IsOpen(f), NEW mode \in {"read", "write", "append"}, Push(f, mode, 0),
         disk' \in [File -> {Missing} \cup Seq(Char)], disk'[f] # Missing,
         \A g \in File : g # f => disk'[g] = disk[g],
         UNCHANGED <<writer, reading>>
  PROVE  IInv'
<1> DEFINE e == [name |-> f, mode |-> mode, pos |-> 0]
<1>1. /\ FilesOpen(file_list, disk) /\ Listed(file_list)
      /\ Reader(file_list, disk, reader_name, got, whole)
      /\ Writing(file_list, writestream, writer_name, print_string, buf, printed, value)
  BY Pieces
<1>2. e \in Stream /\ e.name = f /\ e.mode = mode /\ e.pos = 0
  BY DEF Stream
<1>3. file_list' = <<e>> \o file_list
  BY DEF Push
<1> HIDE DEF e
<1>4. ~Opened(file_list, f)
  BY <1>1, ListIsOpen
<1>5. /\ Listed(file_list')
      /\ \A n : Opened(file_list', n) <=> n = f \/ Opened(file_list, n)
      /\ The(file_list', f) = e
      /\ \A n : Opened(file_list, n) => The(file_list', n) = The(file_list, n)
  BY <1>1, <1>2, <1>3, <1>4, Added
<1>6. FilesOpen(file_list', disk')
  <2>1. disk'[f] \in Seq(Char)
    OBVIOUS
  <2>2. StreamFits(e, disk')
    BY <1>2, <2>1, FilesAssumption DEF StreamFits
  <2>3. ASSUME NEW n, Opened(file_list', n)
        PROVE  \/ /\ Opened(file_list, n) /\ The(file_list', n) = The(file_list, n)
                  /\ n \in File => disk'[n] = disk[n]
               \/ StreamFits(The(file_list', n), disk')
    BY <1>4, <1>5, <2>2, <2>3
  <2> QED
    BY <1>1, <1>5, <2>3, FilesKept
<1>7. Reader(file_list', disk', reader_name, got, whole)
  <2>1. ASSUME reader_name # NIL
        PROVE  /\ Opened(file_list', reader_name)
               /\ The(file_list', reader_name) = The(file_list, reader_name)
               /\ The(file_list, reader_name).mode = "read" => disk'[reader_name] = disk[reader_name]
    BY <1>4, <1>5, <2>1, Pieces, ReadsAFile
  <2> QED
    BY <1>1, <2>1, ReaderKept
<1>8. Writing(file_list', writestream, writer_name, print_string, buf, printed, value)
  <2>1. \A l \in List : Opened(file_list', l) => Opened(file_list, l)
    BY <1>5, FilesAssumption
  <2> QED
    BY <1>1, <1>5, <2>1, WritingKept
<1> QED
  BY <1>6, <1>7, <1>8 DEF IInv, writer, reading

LEMMA MissingIsNone == Missing \notin Seq(Char) /\ \A s \in Seq(Char) : s # Missing
<1>1. ASSUME NEW s \in Seq(Char), s = Missing PROVE FALSE
  <2>1. Len(s) = 1 /\ s[1] = "no file"
    BY <1>1 DEF Missing
  <2>2. \A i \in 1 .. Len(s) : s[i] \in Char
    BY ElementOfSeq
  <2>3. 1 \in 1 .. Len(s)
    <3>1. 1 \in 1 .. 1
      OBVIOUS
    <3> QED
      BY <2>1, <3>1, Zenon
  <2> QED
    BY <2>1, <2>2, <2>3 DEF Char
<1>2. \A s \in Seq(Char) : s # Missing
  BY <1>1
<1> QED
  BY <1>2, Zenon

LEMMA OpenKeeps == ASSUME IInv, NEW f \in File, OpenRead(f) \/ OpenWrite(f) \/ OpenAppend(f) PROVE IInv'
<1>1. disk \in [File -> {Missing} \cup Seq(Char)] /\ <<>> \in Seq(Char) /\ <<>> # Missing
  <2>1. <<>> \in Seq(Char)
    OBVIOUS
  <2>2. <<>> # Missing
    BY <2>1, MissingIsNone, Zenon
  <2> QED
    BY <2>1, <2>2, Pieces
<1>2. CASE OpenRead(f)
  BY <1>1, <1>2, OpenFileStep DEF OpenRead
<1>3. CASE OpenWrite(f)
  <2>1. ~IsOpen(f) /\ Push(f, "write", 0) /\ UNCHANGED <<writer, reading>>
    BY <1>3 DEF OpenWrite
  <2>2. disk' = [disk EXCEPT ![f] = <<>>]
    BY <1>3 DEF OpenWrite
  <2>3. /\ disk' \in [File -> {Missing} \cup Seq(Char)] /\ disk'[f] # Missing
        /\ \A g \in File : g # f => disk'[g] = disk[g]
    BY <1>1, <2>2
  <2> QED
    BY <2>1, <2>3, OpenFileStep
<1>4. CASE OpenAppend(f)
  <2>1. ~IsOpen(f) /\ Push(f, "append", 0) /\ UNCHANGED <<writer, reading>>
    BY <1>4 DEF OpenAppend
  <2>2. disk' = [disk EXCEPT ![f] = IF disk[f] = Missing THEN <<>> ELSE disk[f]]
    BY <1>4 DEF OpenAppend
  <2>3. /\ disk' \in [File -> {Missing} \cup Seq(Char)] /\ disk'[f] # Missing
        /\ \A g \in File : g # f => disk'[g] = disk[g]
    BY <1>1, <2>2
  <2> QED
    BY <2>1, <2>3, OpenFileStep
<1> QED
  BY <1>2, <1>3, <1>4

\* A string is opened: its text is empty, and nobody is writing to it.
LEMMA OpenStringKeeps == ASSUME IInv, NEW l \in List, OpenString(l) PROVE IInv'
<1> DEFINE e == [name |-> l, mode |-> "string", pos |-> 0]
<1>1. /\ FilesOpen(file_list, disk) /\ Listed(file_list)
      /\ disk \in [File -> {Missing} \cup Seq(Char)]
      /\ Reader(file_list, disk, reader_name, got, whole)
      /\ Writing(file_list, writestream, writer_name, print_string, buf, printed, value)
  BY Pieces
<1>2. e \in Stream /\ e.name = l /\ e.mode = "string"
  BY DEF Stream
<1>3. file_list' = <<e>> \o file_list
  BY DEF OpenString, Push
<1> HIDE DEF e
<1>4. ~Opened(file_list, l)
  BY <1>1, ListIsOpen DEF OpenString
<1>5. /\ Listed(file_list')
      /\ \A n : Opened(file_list', n) <=> n = l \/ Opened(file_list, n)
      /\ The(file_list', l) = e
      /\ \A n : Opened(file_list, n) => The(file_list', n) = The(file_list, n)
  BY <1>1, <1>2, <1>3, <1>4, Added
<1>6. FilesOpen(file_list', disk)
  <2>1. StreamFits(e, disk)
    BY <1>2, FilesAssumption DEF StreamFits
  <2> QED
    BY <1>1, <1>5, <2>1, FilesKept
<1>7. Reader(file_list', disk, reader_name, got, whole)
  <2>1. ASSUME reader_name # NIL
        PROVE  /\ Opened(file_list', reader_name)
               /\ The(file_list', reader_name) = The(file_list, reader_name)
    BY <1>5, <2>1, Pieces
  <2> QED
    BY <1>1, <2>1, ReaderKept
<1>8. /\ buf' = [buf EXCEPT ![l] = [live |-> TRUE, text |-> <<>>]]
      /\ printed' = [printed EXCEPT ![l] = <<>>]
      /\ UNCHANGED <<disk, writestream, writer_name, print_string, value, reading>>
  BY DEF OpenString
<1>9. /\ Texts(buf, printed, value) /\ Live(file_list, writestream, writer_name, buf)
      /\ Writer(file_list, writestream, writer_name, print_string, buf)
      /\ Whole(buf, printed, writer_name)
  BY <1>1 DEF Writing
<1>10. l \in Buffer /\ "write_buf" \in Buffer /\ l # "write_buf" /\ \A k \in List : k \in Buffer
  BY FilesAssumption DEF Buffer
<1>11. Texts(buf', printed', value)
  <2>1. [live |-> TRUE, text |-> <<>>] \in [live : BOOLEAN, text : Seq(Char)] /\ <<>> \in Seq(Char)
    OBVIOUS
  <2>2. buf' \in [Buffer -> [live : BOOLEAN, text : Seq(Char)]]
    BY <1>8, <1>9, <2>1 DEF Texts
  <2>3. printed' \in [Buffer -> Seq(Char)]
    BY <1>8, <1>9, <2>1 DEF Texts
  <2> QED
    BY <1>9, <2>2, <2>3 DEF Texts
<1>12. /\ buf'[l].live /\ buf'[l].text = <<>> /\ printed'[l] = <<>>
       /\ \A b \in Buffer : b # l => buf'[b] = buf[b] /\ printed'[b] = printed[b]
  BY <1>8, <1>9, <1>10 DEF Texts
<1>13. Live(file_list', writestream, writer_name, buf')
  <2>1. \A k \in List : buf'[k].live <=> Opened(file_list', k)
    BY <1>5, <1>9, <1>10, <1>12 DEF Live
  <2> QED
    BY <1>9, <1>10, <1>12, <2>1 DEF Live
<1>14. Writer(file_list', writestream, writer_name, print_string, buf')
  <2>1. CASE writestream = "string"
    <3>1. /\ writer_name \in List \cup Copies /\ (writer_name \in List => Opened(file_list, writer_name))
          /\ buf[BufferOf(writer_name)].live
          /\ AtEnd(print_string, BufferOf(writer_name), buf[BufferOf(writer_name)].text,
                   Length[Original(writer_name)])
      BY <1>9, <2>1, FilesAssumption DEF Writer
    <3>2. BufferOf(writer_name) # l /\ BufferOf(writer_name) \in Buffer
      BY <1>4, <1>10, <3>1 DEF BufferOf
    <3>3. buf'[BufferOf(writer_name)] = buf[BufferOf(writer_name)]
      BY <1>12, <3>2
    <3> QED
      BY <1>5, <2>1, <3>1, <3>3 DEF Writer
  <2>2. CASE writestream # "string"
    BY <1>5, <1>9, <2>2 DEF Writer
  <2> QED
    BY <2>1, <2>2
<1>15. Whole(buf', printed', writer_name)
  <2>1. Clip(<<>>, Length[l]) = <<>>
    BY FilesAssumption DEF Clip
  <2>2. \A k \in List : buf'[k].live => buf'[k].text = Clip(printed'[k], Length[k])
    BY <1>9, <1>10, <1>12, <2>1 DEF Whole
  <2> QED
    BY <1>9, <1>10, <1>12, <2>2 DEF Whole
<1> QED
  BY <1>6, <1>7, <1>8, <1>11, <1>13, <1>14, <1>15 DEF IInv, Writing, reading

-----------------------------------------------------------------------------
(* CLOSE *)

LEMMA Names ==
  /\ \A l \in List : /\ Original(l) = l /\ Original(Copy(l)) = l /\ Copy(l) \in Copies
                     /\ l \notin Copies /\ l \notin File /\ l # NIL /\ l # "write_buf"
  /\ \A n \in Copies : Original(n) \in List /\ n \notin List /\ n \notin File /\ n # NIL
  /\ \A n \in File : n \notin List \cup Copies /\ n # NIL /\ n # "string" /\ n # "stdout"
  /\ Buffer = List \cup {"write_buf"}
<1>1. \A l \in List : Copy(l) \in Copies /\ Copy(l)[2] = l
  BY DEF Copies, Copy
<1>2. \A n \in Copies : \E l \in List : n = Copy(l)
  BY DEF Copies
<1>3. \A l \in List : l \notin Copies /\ l \notin File /\ l # NIL /\ l # "write_buf"
  BY FilesAssumption
<1>4. \A l \in List : Original(l) = l /\ Original(Copy(l)) = l
  BY <1>1, <1>3 DEF Original
<1>5. \A n \in Copies : n \notin List /\ n \notin File /\ n # NIL
  BY FilesAssumption
<1>6. \A n \in Copies : Original(n) \in List
  BY <1>2, <1>4
<1>7. \A n \in File : n \notin List \cup Copies /\ n # NIL /\ n # "string" /\ n # "stdout"
  BY FilesAssumption
<1> QED
  BY <1>1, <1>3, <1>4, <1>5, <1>6, <1>7 DEF Buffer

LEMMA VarIs == \A l \in List : VarOf[l] \in Var
  BY DEF Var

LEMMA CloseKeeps == ASSUME IInv, NEW name \in File \cup List, Close(name) PROVE IInv'
<1>1. /\ FilesOpen(file_list, disk) /\ Listed(file_list)
      /\ disk \in [File -> {Missing} \cup Seq(Char)]
      /\ Reader(file_list, disk, reader_name, got, whole)
      /\ Texts(buf, printed, value) /\ Live(file_list, writestream, writer_name, buf)
      /\ Writer(file_list, writestream, writer_name, print_string, buf)
      /\ Whole(buf, printed, writer_name)
  BY Pieces DEF Writing
<1>2. PICK i \in Position(name) : file_list' = RemoveAt(file_list, i)
  BY DEF Close
<1>3. i \in 1 .. Len(file_list) /\ file_list[i].name = name
  BY <1>1 DEF Position, Listed
<1>4. /\ Listed(file_list')
      /\ \A n : Opened(file_list', n) <=> n # name /\ Opened(file_list, n)
      /\ \A n : Opened(file_list', n) => The(file_list', n) = The(file_list, n)
  BY <1>1, <1>2, <1>3, Removed
<1>5. UNCHANGED <<disk, print_string, printed>> /\ CloseWriter(name) /\ CloseReader(name)
  BY DEF Close
<1>6. FilesOpen(file_list', disk')
  BY <1>1, <1>4, <1>5, FilesKept
<1>7. Reader(file_list', disk', reader_name', got', whole')
  <2>1. CASE name = reader_name
    BY <1>5, <2>1 DEF CloseReader, Reader
  <2>2. CASE name # reader_name
    <3>1. UNCHANGED <<reader_name, got, whole>>
      BY <1>5, <2>2 DEF CloseReader, reading
    <3>2. ASSUME reader_name # NIL
          PROVE  Opened(file_list', reader_name) /\ The(file_list', reader_name) = The(file_list, reader_name)
      BY <1>4, <2>2, <3>2, Pieces
    <3> QED
      BY <1>1, <1>5, <3>1, <3>2, ReaderKept
  <2> QED
    BY <2>1, <2>2
<1>8. /\ name = writer_name => writestream' = "stdout" /\ writer_name' = NIL
      /\ name # writer_name => UNCHANGED <<writestream, writer_name>>
  BY <1>5 DEF CloseWriter
<1>9. IsList(name) <=> name \in List
  BY Names DEF IsList
<1>10. /\ Texts(buf', printed', value')
       /\ \A b \in Buffer : b # name => buf'[b] = buf[b]
       /\ name \in List => ~buf'[name].live
  <2>1. CASE name \in List
    <3>1. /\ value' = [value EXCEPT ![VarOf[name]] = buf[name].text]
          /\ buf' = [buf EXCEPT ![name].live = FALSE]
      BY <1>9, <2>1 DEF Close
    <3>2. /\ VarOf[name] \in Var /\ name \in Buffer
          /\ buf[name] \in [live : BOOLEAN, text : Seq(Char)] /\ buf[name].text \in Seq(Char)
      BY <1>1, <2>1, VarIs, Names DEF Texts
    <3>3. value' \in [Var -> Seq(Char)]
      BY <1>1, <3>1, <3>2 DEF Texts
    <3>4. [buf[name] EXCEPT !.live = FALSE] \in [live : BOOLEAN, text : Seq(Char)]
      BY <3>2
    <3>5. buf' = [buf EXCEPT ![name] = [buf[name] EXCEPT !.live = FALSE]]
      BY <3>1
    <3>6. buf' \in [Buffer -> [live : BOOLEAN, text : Seq(Char)]]
      BY <1>1, <3>2, <3>4, <3>5 DEF Texts
    <3>7. /\ \A b \in Buffer : b # name => buf'[b] = buf[b]
          /\ buf'[name] = [buf[name] EXCEPT !.live = FALSE]
      BY <1>1, <3>2, <3>5 DEF Texts
    <3>8. ~buf'[name].live
      BY <3>2, <3>7
    <3> QED
      BY <1>1, <1>5, <3>3, <3>6, <3>7, <3>8 DEF Texts
  <2>2. CASE name \notin List
    BY <1>1, <1>5, <1>9, <2>2 DEF Close, Texts
  <2> QED
    BY <2>1, <2>2
<1>11. Live(file_list', writestream', writer_name', buf')
  <2>1. \A l \in List : buf'[l].live <=> Opened(file_list', l)
    BY <1>1, <1>4, <1>10, Names DEF Live
  <2>2. name # "write_buf" => buf'["write_buf"] = buf["write_buf"]
    BY <1>10, Names
  <2>3. buf'["write_buf"].live <=> writestream' = "string" /\ writer_name' \in Copies
    <3>1. name \notin Copies
      BY Names
    <3>2. CASE name = "write_buf"
      <4>1. name \notin List
        BY <3>2, Names
      <4>2. buf' = buf
        BY <1>9, <4>1 DEF Close
      <4> QED
        BY <1>1, <1>8, <3>1, <4>2 DEF Live
    <3>3. CASE name # "write_buf"
      BY <1>1, <1>8, <2>2, <3>1, <3>3 DEF Live
    <3> QED
      BY <3>2, <3>3
  <2> QED
    BY <2>1, <2>3 DEF Live
<1>12. Writer(file_list', writestream', writer_name', print_string', buf')
  <2>1. CASE name = writer_name
    BY <1>8, <2>1 DEF Writer
  <2>2. CASE name # writer_name
    <3>1. CASE writestream = "string"
      <4>1. /\ writer_name \in List \cup Copies /\ (writer_name \in List => Opened(file_list, writer_name))
            /\ buf[BufferOf(writer_name)].live
            /\ AtEnd(print_string, BufferOf(writer_name), buf[BufferOf(writer_name)].text,
                     Length[Original(writer_name)])
        BY <1>1, <3>1, Names DEF Writer
      <4>2. BufferOf(writer_name) \in Buffer
        BY Names DEF BufferOf
      <4>3. buf'[BufferOf(writer_name)] = buf[BufferOf(writer_name)]
        <5>1. CASE BufferOf(writer_name) # name
          BY <1>10, <4>2, <5>1
        <5>2. CASE BufferOf(writer_name) = name
          <6>1. name \notin List
            BY <2>2, <5>2, Names DEF BufferOf
          <6> QED
            BY <1>9, <6>1 DEF Close
        <5> QED
          BY <5>1, <5>2
      <4>4. writer_name \in List => Opened(file_list', writer_name)
        BY <1>4, <2>2, <4>1
      <4> QED
        BY <1>5, <1>8, <2>2, <3>1, <4>1, <4>3, <4>4 DEF Writer
    <3>2. CASE writestream # "string"
      BY <1>1, <1>4, <1>8, <2>2, <3>2 DEF Writer
    <3> QED
      BY <3>1, <3>2
  <2> QED
    BY <2>1, <2>2
<1>13. Whole(buf', printed', writer_name')
  <2>1. \A l \in List : buf'[l].live => buf'[l].text = Clip(printed'[l], Length[l])
    BY <1>1, <1>5, <1>10, Names DEF Whole
  <2>2. ASSUME buf'["write_buf"].live
        PROVE  buf'["write_buf"].text = Clip(printed'["write_buf"], Length[Original(writer_name')])
    <3>1. writer_name' \in Copies
      BY <1>11, <2>2 DEF Live
    <3>2. writer_name' = writer_name
      BY <1>8, <3>1, Names
    <3>3. buf'["write_buf"] = buf["write_buf"]
      <4>1. CASE name = "write_buf"
        BY <1>9, <4>1, Names DEF Close
      <4>2. CASE name # "write_buf"
        BY <1>10, <4>2, Names
      <4> QED
        BY <4>1, <4>2
    <3> QED
      BY <1>1, <1>5, <2>2, <3>2, <3>3 DEF Whole
  <2> QED
    BY <2>1, <2>2 DEF Whole
<1> QED
  BY <1>6, <1>7, <1>10, <1>11, <1>12, <1>13 DEF IInv, Writing

-----------------------------------------------------------------------------
(* SETWRITE and ERROR *)

\* The string that was not opened is dead and its variable has it; nothing else has
\* changed.
LEMMA FinishedIs ==
  ASSUME IInv
  PROVE  /\ Texts(Finished.buf, printed, Finished.value)
         /\ \A l \in List : Finished.buf[l] = buf[l]
         /\ ~Finished.buf["write_buf"].live
         /\ writestream # "string" => Finished.buf = buf /\ Finished.value = value
<1>1. /\ Listed(file_list)
      /\ Texts(buf, printed, value) /\ Live(file_list, writestream, writer_name, buf)
      /\ Writer(file_list, writestream, writer_name, print_string, buf)
  BY Pieces DEF Writing
<1>2. IsOpen(writer_name) <=> Opened(file_list, writer_name)
  BY <1>1, ListIsOpen
<1>3. CASE writestream = "string" /\ writer_name \in Copies
  <2>1. ~Opened(file_list, writer_name)
    BY <1>1, <1>3, OpenedIs, Names
  <2> DEFINE wb == buf["write_buf"]
             bf == [buf EXCEPT !["write_buf"] = [wb EXCEPT !.live = FALSE]]
             va == [value EXCEPT ![VarOf[Original(writer_name)]] = wb.text]
  <2>2. Finished = [buf |-> bf, value |-> va]
    BY <1>2, <1>3, <2>1 DEF Finished
  <2>3. Finished.buf = bf /\ Finished.value = va
    BY <2>2
  <2>4. /\ VarOf[Original(writer_name)] \in Var /\ "write_buf" \in Buffer
        /\ wb \in [live : BOOLEAN, text : Seq(Char)] /\ wb.text \in Seq(Char)
    BY <1>1, <1>3, VarIs, Names DEF Texts
  <2>5. [wb EXCEPT !.live = FALSE] \in [live : BOOLEAN, text : Seq(Char)] /\ ~[wb EXCEPT !.live = FALSE].live
    BY <2>4
  <2>6. va \in [Var -> Seq(Char)]
    BY <1>1, <2>4 DEF Texts
  <2>7. bf \in [Buffer -> [live : BOOLEAN, text : Seq(Char)]]
    BY <1>1, <2>4, <2>5 DEF Texts
  <2>8. /\ bf["write_buf"] = [wb EXCEPT !.live = FALSE]
        /\ \A l \in List : bf[l] = buf[l]
    BY <1>1, <2>4, Names DEF Texts
  <2> HIDE DEF bf, va, wb
  <2>9. ~bf["write_buf"].live
    BY <2>5, <2>8, Zenon
  <2> QED
    BY <1>1, <1>3, <2>3, <2>6, <2>7, <2>8, <2>9 DEF Texts
<1>4. CASE ~ (writestream = "string" /\ writer_name \in Copies)
  <2>1. writestream # "string" \/ Opened(file_list, writer_name)
    BY <1>1, <1>4 DEF Writer
  <2>2. Finished = [buf |-> buf, value |-> value]
    BY <1>2, <2>1 DEF Finished
  <2>3. Finished.buf = buf /\ Finished.value = value
    BY <2>2
  <2> QED
    BY <1>1, <1>4, <2>3 DEF Live
<1> QED
  BY <1>3, <1>4

\* After that the writer may be anything that is open.
LEMMA WriterSet ==
  ASSUME IInv, buf' = Finished.buf, value' = Finished.value,
         UNCHANGED <<disk, file_list, printed, reading>>,
         \/ writestream' = "stdout" /\ writer_name' = NIL
         \/ writestream' \in File /\ writer_name' = writestream' /\ Opened(file_list, writer_name')
         \/ /\ writestream' = "string" /\ writer_name' \in List /\ Opened(file_list, writer_name')
            /\ print_string' = AtEndOf(writer_name')
  PROVE  IInv'
<1>1. /\ FilesOpen(file_list, disk) /\ Reader(file_list, disk, reader_name, got, whole)
      /\ Texts(buf, printed, value) /\ Live(file_list, writestream, writer_name, buf)
      /\ Whole(buf, printed, writer_name)
  BY Pieces DEF Writing
<1>2. /\ Texts(buf', printed', value') /\ ~buf'["write_buf"].live
      /\ \A l \in List : buf'[l] = buf[l]
  BY FinishedIs
<1>3. writer_name' \notin Copies
  BY Names
<1>4. Live(file_list', writestream', writer_name', buf')
  BY <1>1, <1>2, <1>3 DEF Live
<1>5. Whole(buf', printed', writer_name')
  BY <1>1, <1>2 DEF Whole
<1>6. Writer(file_list', writestream', writer_name', print_string', buf')
  <2>1. CASE writestream' = "string" /\ writer_name' \in List /\ Opened(file_list, writer_name')
               /\ print_string' = AtEndOf(writer_name')
    <3> DEFINE l == writer_name'
               t == buf[l].text
               n == Length[l]
    <3>1. /\ buf[l].live /\ t = Clip(printed[l], n) /\ printed[l] \in Seq(Char) /\ n \in Nat \ {0}
          /\ BufferOf(l) = l /\ Original(l) = l /\ buf'[l] = buf[l]
      BY <1>1, <1>2, <2>1, Names, FilesAssumption DEF Live, Whole, Texts, BufferOf
    <3>2. Len(t) <= n /\ Len(t) \in Nat
      BY <3>1 DEF Clip
    <3>3. print_string' = [buf |-> l, at |-> Len(t), room |-> n + 1 - Len(t)]
      BY <2>1 DEF AtEndOf
    <3> HIDE DEF l, t, n
    <3>4. AtEnd(print_string', l, t, n)
      BY <3>1, <3>2, <3>3 DEF AtEnd
    <3>5. AtEnd(print_string', BufferOf(l), buf'[BufferOf(l)].text, Length[Original(l)])
      BY <3>1, <3>4 DEF t, n
    <3>6. buf'[BufferOf(l)].live
      BY <3>1
    <3> QED
      BY <2>1, <3>5, <3>6 DEF Writer, l
  <2>2. CASE writestream' = "stdout" /\ writer_name' = NIL
    BY <2>2 DEF Writer
  <2>3. CASE writestream' \in File /\ writer_name' = writestream' /\ Opened(file_list, writer_name')
    BY <2>3 DEF Writer
  <2> QED
    BY <2>1, <2>2, <2>3
<1> QED
  BY <1>1, <1>2, <1>4, <1>5, <1>6 DEF IInv, Writing, reading

LEMMA SetWriteTerminalKeeps == ASSUME IInv, SetWriteTerminal PROVE IInv'
  BY WriterSet DEF SetWriteTerminal, Terminal

LEMMA NoNewWriter ==
  ASSUME IInv, IF writestream = "string" THEN Terminal ELSE UNCHANGED <<writestream, writer_name>>,
         buf' = Finished.buf, value' = Finished.value,
         UNCHANGED <<disk, file_list, print_string, printed, reading>>
  PROVE  IInv'
<1>1. CASE writestream = "string"
  BY <1>1, WriterSet DEF Terminal
<1>2. CASE writestream # "string"
  <2>1. Writer(file_list, writestream, writer_name, print_string, buf)
    BY Pieces DEF Writing
  <2> QED
    BY <1>2, <2>1, WriterSet DEF Writer
<1> QED
  BY <1>1, <1>2

LEMMA ErrorKeeps == ASSUME IInv, Error PROVE IInv'
  BY NoNewWriter DEF Error

\* A list that is not open: its text begins, in a buffer of its own.
LEMMA WriteBufStep ==
  ASSUME IInv, NEW l \in List,
         writestream' = "string", writer_name' = Copy(l),
         print_string' = [buf |-> "write_buf", at |-> 0, room |-> Length[l] + 1],
         buf' = [Finished.buf EXCEPT !["write_buf"] = [live |-> TRUE, text |-> <<>>]],
         printed' = [printed EXCEPT !["write_buf"] = <<>>], value' = Finished.value,
         UNCHANGED <<disk, file_list, reading>>
  PROVE  IInv'
<1> DEFINE wb == [live |-> TRUE, text |-> <<>>]
           bf == Finished.buf
<1>1. /\ FilesOpen(file_list, disk) /\ Reader(file_list, disk, reader_name, got, whole)
      /\ Texts(buf, printed, value) /\ Live(file_list, writestream, writer_name, buf)
      /\ Whole(buf, printed, writer_name)
  BY Pieces DEF Writing
<1>2. Texts(bf, printed, Finished.value) /\ \A k \in List : bf[k] = buf[k]
  BY FinishedIs
<1>3. /\ Copy(l) \in Copies /\ Copy(l) \notin List /\ Original(Copy(l)) = l
      /\ "write_buf" \in Buffer /\ (\A k \in List : k # "write_buf" /\ k \in Buffer)
      /\ Length[l] \in Nat \ {0}
  BY Names, FilesAssumption
<1>4. wb \in [live : BOOLEAN, text : Seq(Char)] /\ wb.live /\ wb.text = <<>> /\ <<>> \in Seq(Char)
  OBVIOUS
<1> HIDE DEF wb, bf
<1>5. buf' = [bf EXCEPT !["write_buf"] = wb]
  BY DEF wb, bf
<1>6. buf' \in [Buffer -> [live : BOOLEAN, text : Seq(Char)]]
  BY <1>2, <1>4, <1>5 DEF Texts
<1>7. printed' \in [Buffer -> Seq(Char)]
  BY <1>1, <1>4 DEF Texts
<1>8. buf'["write_buf"] = wb /\ \A k \in List : buf'[k] = buf[k]
  BY <1>2, <1>3, <1>5 DEF Texts
<1>9. printed'["write_buf"] = <<>> /\ \A k \in List : printed'[k] = printed[k]
  BY <1>1, <1>3 DEF Texts
<1>10. Texts(buf', printed', value')
  BY <1>2, <1>6, <1>7 DEF Texts
<1>11. Live(file_list', writestream', writer_name', buf')
  BY <1>1, <1>3, <1>4, <1>8 DEF Live
<1>12. Whole(buf', printed', writer_name')
  <2>1. Clip(<<>>, Length[l]) = <<>>
    BY <1>3 DEF Clip
  <2>2. \A k \in List : buf'[k].live => buf'[k].text = Clip(printed'[k], Length[k])
    BY <1>1, <1>8, <1>9 DEF Whole
  <2> QED
    BY <1>3, <1>4, <1>8, <1>9, <2>1, <2>2 DEF Whole
<1>13. Writer(file_list', writestream', writer_name', print_string', buf')
  <2>1. BufferOf(Copy(l)) = "write_buf"
    BY <1>3 DEF BufferOf
  <2>2. Len(<<>>) = 0
    OBVIOUS
  <2>3. AtEnd(print_string', "write_buf", <<>>, Length[l])
    BY <1>3, <2>2 DEF AtEnd
  <2> QED
    BY <1>3, <1>4, <1>8, <2>1, <2>3 DEF Writer
<1> QED
  BY <1>1, <1>10, <1>11, <1>12, <1>13 DEF IInv, Writing, reading

LEMMA SetWriteKeeps ==
  ASSUME IInv, NEW name \in File \cup List \cup ({writer_name} \ {NIL}), SetWrite(name) PROVE IInv'
<1>1. /\ Listed(file_list) /\ Writer(file_list, writestream, writer_name, print_string, buf)
      /\ UNCHANGED <<disk, file_list, reading>>
  BY Pieces DEF Writing, SetWrite
<1>2. name \in File \cup List \cup Copies
  BY <1>1 DEF Writer
<1>3. IsOpen(name) <=> Opened(file_list, name)
  BY <1>1, ListIsOpen
<1>4. IsList(name) <=> name \in List \cup Copies
  BY DEF IsList
<1>5. Opened(file_list, name) => name \in File \cup List
  BY <1>1, OpenedIs
<1>6. CASE IsOpen(name) /\ ~IsList(name)
  <2>1. /\ writestream' = name /\ writer_name' = name
        /\ buf' = Finished.buf /\ value' = Finished.value /\ UNCHANGED <<print_string, printed>>
    BY <1>6 DEF SetWrite
  <2> QED
    BY <1>1, <1>2, <1>3, <1>4, <1>6, <2>1, WriterSet
<1>7. CASE IsOpen(name) /\ IsList(name)
  <2>1. /\ writestream' = "string" /\ writer_name' = name /\ print_string' = AtEndOf(name)
        /\ buf' = Finished.buf /\ value' = Finished.value /\ UNCHANGED printed
    BY <1>7 DEF SetWrite
  <2>2. name \in List
    BY <1>3, <1>4, <1>5, <1>7, Names
  <2> QED
    BY <1>1, <1>3, <1>7, <2>1, <2>2, WriterSet
<1>8. CASE ~IsOpen(name) /\ IsList(name)
  <2>1. /\ writestream' = "string" /\ writer_name' = Copy(Original(name))
        /\ print_string' = [buf |-> "write_buf", at |-> 0, room |-> Length[Original(name)] + 1]
        /\ buf' = [Finished.buf EXCEPT !["write_buf"] = [live |-> TRUE, text |-> <<>>]]
        /\ printed' = [printed EXCEPT !["write_buf"] = <<>>] /\ value' = Finished.value
    BY <1>8 DEF SetWrite
  <2>2. Original(name) \in List
    BY <1>4, <1>8, Names
  <2> QED
    BY <1>1, <2>1, <2>2, WriteBufStep
<1>9. CASE ~IsOpen(name) /\ ~IsList(name)
  <2>1. /\ IF writestream = "string" THEN Terminal ELSE UNCHANGED <<writestream, writer_name>>
        /\ buf' = Finished.buf /\ value' = Finished.value /\ UNCHANGED <<print_string, printed>>
    BY <1>9 DEF SetWrite
  <2> QED
    BY <1>1, <2>1, NoNewWriter
<1> QED
  BY <1>6, <1>7, <1>8, <1>9

-----------------------------------------------------------------------------
(* print_char *)

LEMMA ClipFacts ==
  ASSUME NEW s \in Seq(Char), NEW n \in Nat, NEW ch \in Char
  PROVE  /\ Clip(s, n) \in Seq(Char)
         /\ Len(Clip(s, n)) = IF Len(s) < n THEN Len(s) ELSE n
         /\ Append(s, ch) \in Seq(Char)
         /\ Clip(Append(s, ch), n) = IF Len(s) < n THEN Append(Clip(s, n), ch) ELSE Clip(s, n)
<1> DEFINE t == Append(s, ch)
<1>1. /\ t \in Seq(Char) /\ Len(t) = Len(s) + 1 /\ Len(s) \in Nat /\ t[Len(s) + 1] = ch
      /\ \A i \in 1 .. Len(s) : t[i] = s[i]
  OBVIOUS
<1> HIDE DEF t
<1>2. CASE Len(s) < n
  <2>1. Clip(s, n) = s
    BY <1>1, <1>2, SubSeqFull DEF Clip
  <2>2. Clip(t, n) = SubSeq(t, 1, Len(t))
    BY <1>1, <1>2 DEF Clip
  <2>3. Clip(t, n) = t
    BY <1>1, <2>2, SubSeqFull
  <2> QED
    BY <1>1, <1>2, <2>1, <2>3 DEF t
<1>3. CASE ~ (Len(s) < n)
  <2> DEFINE a == SubSeq(s, 1, n)
             b == SubSeq(t, 1, n)
  <2>1. Clip(s, n) = a /\ Clip(t, n) = b
    BY <1>1, <1>3 DEF Clip
  <2>2. a \in Seq(Char) /\ Len(a) = n /\ \A i \in 1 .. n : a[i] = s[i]
    BY <1>1, <1>3
  <2>3. b \in Seq(Char) /\ Len(b) = n /\ \A i \in 1 .. n : b[i] = t[i]
    BY <1>1, <1>3
  <2> HIDE DEF a, b
  <2>4. \A i \in 1 .. n : a[i] = b[i]
    BY <1>1, <1>3, <2>2, <2>3
  <2>5. a = b
    BY <2>2, <2>3, <2>4, SeqEqual
  <2> QED
    BY <1>1, <1>3, <2>1, <2>2, <2>5 DEF t
<1> QED
  BY <1>2, <1>3

LEMMA PutIs ==
  ASSUME NEW s \in Seq(Char), NEW i \in Nat, NEW ch \in Char
  PROVE  PutAt(s, i, ch) \in Seq(Char) /\ (i = Len(s) => PutAt(s, i, ch) = Append(s, ch))
<1>1. CASE i < Len(s)
  <2>1. i + 1 \in 1 .. Len(s) /\ i # Len(s)
    BY <1>1
  <2>2. [s EXCEPT ![i + 1] = ch] \in Seq(Char)
    BY <2>1, ExceptSeq
  <2> QED
    BY <1>1, <2>1, <2>2 DEF PutAt, ReplaceAt
<1>2. CASE ~ (i < Len(s))
  BY <1>2 DEF PutAt
<1> QED
  BY <1>1, <1>2

LEMMA StringKeeps ==
  ASSUME IInv, NEW ch \in Char, PrintChar(ch), writestream = "string" PROVE IInv'
<1> DEFINE p == print_string
           b == BufferOf(writer_name)
           n == Length[Original(writer_name)]
           t == buf[b].text
           fits == FitsString(p.room)
<1>1. /\ FilesOpen(file_list, disk) /\ Reader(file_list, disk, reader_name, got, whole)
      /\ Texts(buf, printed, value) /\ Live(file_list, writestream, writer_name, buf)
      /\ Whole(buf, printed, writer_name)
      /\ Writer(file_list, writestream, writer_name, print_string, buf)
  BY Pieces DEF Writing
<1>2. /\ writer_name \in List \cup Copies /\ (writer_name \in List => Opened(file_list, writer_name))
      /\ buf[b].live /\ AtEnd(p, b, t, n)
  BY <1>1, Names DEF Writer
<1>3. /\ Original(writer_name) \in List /\ n \in Nat /\ b \in Buffer
      /\ b \in List => Original(writer_name) = b
      /\ b \notin List => b = "write_buf"
  BY <1>2, Names, FilesAssumption DEF BufferOf
<1>4. /\ buf[b] \in [live : BOOLEAN, text : Seq(Char)] /\ t \in Seq(Char)
      /\ printed[b] \in Seq(Char)
  BY <1>1, <1>3 DEF Texts
<1>5. t = Clip(printed[b], n)
  BY <1>1, <1>2, <1>3 DEF Whole
<1>6. /\ print_string' = [p EXCEPT !.room = p.room - 1, !.at = IF fits THEN p.at + 1 ELSE p.at]
      /\ buf' = IF fits THEN [buf EXCEPT ![p.buf].text = PutAt(buf[p.buf].text, p.at, ch)] ELSE buf
      /\ printed' = [printed EXCEPT ![p.buf] = Append(printed[p.buf], ch)]
      /\ UNCHANGED <<disk, file_list, writestream, writer_name, reading, value>>
  BY DEF PrintChar
<1>7. p.buf = b /\ p.at = Len(t) /\ p.at <= n /\ p.room \in Int /\ Len(t) \in Nat
  BY <1>2, <1>4 DEF AtEnd
<1>8. fits <=> p.at < n
  <2>1. IF p.at < n THEN p.room = n + 1 - p.at ELSE p.room <= 1
    BY <1>2 DEF AtEnd
  <2> QED
    BY <1>3, <1>7, <2>1 DEF FitsString
<1> DEFINE u == IF fits THEN Append(t, ch) ELSE t
<1> HIDE DEF p, b, n, t, fits
<1>9. u \in Seq(Char) /\ Len(u) = (IF fits THEN p.at + 1 ELSE p.at)
  BY <1>4, <1>7
<1>10. u = Clip(Append(printed[b], ch), n) /\ Append(printed[b], ch) \in Seq(Char)
  <2>1. p.at = IF Len(printed[b]) < n THEN Len(printed[b]) ELSE n
    BY <1>3, <1>4, <1>5, <1>7, ClipFacts
  <2>2. fits <=> Len(printed[b]) < n
    BY <1>3, <1>4, <1>8, <2>1
  <2> QED
    BY <1>3, <1>4, <1>5, <2>2, ClipFacts
<1>11. buf' = [buf EXCEPT ![b] = [buf[b] EXCEPT !.text = u]]
  <2>1. CASE fits
    <3>1. PutAt(buf[b].text, p.at, ch) = Append(t, ch)
      BY <1>4, <1>7, PutIs DEF t
    <3> QED
      BY <1>6, <1>7, <2>1, <3>1
  <2>2. CASE ~fits
    <3>1. [buf[b] EXCEPT !.text = t] = buf[b]
      BY <1>4 DEF t
    <3>2. [buf EXCEPT ![b] = buf[b]] = buf
      BY <1>1, <1>3 DEF Texts
    <3> QED
      BY <1>6, <2>2, <3>1, <3>2
  <2> QED
    BY <2>1, <2>2
<1>12. printed' = [printed EXCEPT ![b] = Append(printed[b], ch)]
  BY <1>6, <1>7
<1> HIDE DEF u
<1>13. [buf[b] EXCEPT !.text = u] \in [live : BOOLEAN, text : Seq(Char)]
  BY <1>4, <1>9
<1>14. Texts(buf', printed', value')
  <2>1. buf' \in [Buffer -> [live : BOOLEAN, text : Seq(Char)]]
    BY <1>1, <1>3, <1>11, <1>13 DEF Texts
  <2>2. printed' \in [Buffer -> Seq(Char)]
    BY <1>1, <1>3, <1>10, <1>12 DEF Texts
  <2> QED
    BY <1>1, <1>6, <2>1, <2>2 DEF Texts
<1>15. /\ \A c \in Buffer : c # b => buf'[c] = buf[c] /\ printed'[c] = printed[c]
       /\ buf'[b] = [buf[b] EXCEPT !.text = u] /\ printed'[b] = Append(printed[b], ch)
  BY <1>1, <1>3, <1>11, <1>12 DEF Texts
<1>16. buf'[b].live /\ buf'[b].text = u
  BY <1>2, <1>4, <1>15
<1>17. \A c \in Buffer : buf'[c].live <=> buf[c].live
  BY <1>2, <1>15, <1>16
<1>18. Live(file_list', writestream', writer_name', buf')
  BY <1>1, <1>6, <1>17, Names DEF Live
<1>19. Whole(buf', printed', writer_name')
  <2>1. ASSUME NEW k \in List, buf'[k].live PROVE buf'[k].text = Clip(printed'[k], Length[k])
    <3>1. CASE k = b
      BY <1>3, <1>10, <1>15, <1>16, <3>1 DEF n
    <3>2. CASE k # b
      BY <1>1, <1>15, <2>1, <3>2, Names DEF Whole
    <3> QED
      BY <3>1, <3>2
  <2>2. ASSUME buf'["write_buf"].live
        PROVE  buf'["write_buf"].text = Clip(printed'["write_buf"], Length[Original(writer_name)])
    <3>1. CASE b = "write_buf"
      BY <1>10, <1>15, <1>16, <3>1 DEF n
    <3>2. CASE b # "write_buf"
      BY <1>1, <1>15, <2>2, <3>2, Names DEF Whole
    <3> QED
      BY <3>1, <3>2
  <2> QED
    BY <1>6, <2>1, <2>2 DEF Whole
<1>20. Writer(file_list', writestream', writer_name', print_string', buf')
  <2>1. IF p.at < n THEN p.room = n + 1 - p.at ELSE p.room <= 1
    BY <1>2 DEF AtEnd
  <2> DEFINE at2 == IF fits THEN p.at + 1 ELSE p.at
             room2 == p.room - 1
  <2>6. print_string' = [p EXCEPT !.room = room2, !.at = at2]
    BY <1>6, Zenon
  <2>7. p = [buf |-> b, at |-> Len(t), room |-> p.room]
    BY <1>2 DEF AtEnd
  <2> HIDE DEF at2, room2
  <2>8. print_string' = [buf |-> b, at |-> at2, room |-> room2]
    <3> DEFINE q == [buf |-> b, at |-> Len(t), room |-> room2]
    <3>1. [p EXCEPT !.room = room2] = q
      BY <2>7
    <3>2. [q EXCEPT !.at = at2] = [buf |-> b, at |-> at2, room |-> room2]
      OBVIOUS
    <3>3. [p EXCEPT !.room = room2, !.at = at2] = [q EXCEPT !.at = at2]
      BY <3>1, Zenon
    <3> QED
      BY <2>6, <3>2, <3>3, Zenon
  <2>9. print_string'.buf = b /\ print_string'.room = room2 /\ print_string'.at = at2
    BY <2>8
  <2>2. /\ print_string'.buf = b /\ print_string'.room = p.room - 1
        /\ print_string'.at = IF fits THEN p.at + 1 ELSE p.at
    BY <2>9 DEF at2, room2
  <2>5. print_string' = [buf |-> b, at |-> Len(u), room |-> print_string'.room]
    <3>1. at2 = Len(u)
      BY <1>9 DEF at2
    <3> QED
      BY <2>8, <2>9, <3>1
  <2>3. AtEnd(print_string', b, u, n)
    <3>1. print_string'.at <= n /\ print_string'.room \in Int
      <4>1. p.at \in Nat /\ p.room - 1 \in Int
        BY <1>7
      <4>2. CASE fits
        BY <1>3, <1>8, <2>2, <4>1, <4>2
      <4>3. CASE ~fits
        BY <1>7, <2>2, <4>1, <4>3
      <4> QED
        BY <4>2, <4>3
    <3>2. IF print_string'.at < n THEN print_string'.room = n + 1 - print_string'.at
                                  ELSE print_string'.room <= 1
      <4>1. p.at \in Nat /\ p.room \in Int /\ p.at <= n
        BY <1>7
      <4>2. CASE fits
        BY <1>3, <1>8, <2>1, <2>2, <4>1, <4>2
      <4>3. CASE ~fits
        <5>1. p.room <= 1 /\ p.at = n
          BY <1>3, <1>8, <2>1, <4>1, <4>3
        <5> QED
          BY <1>3, <2>2, <4>1, <4>3, <5>1
      <4> QED
        BY <4>2, <4>3
    <3> QED
      BY <2>5, <3>1, <3>2 DEF AtEnd
  <2>4. AtEnd(print_string', b, buf'[b].text, n)
    BY <1>16, <2>3
  <2> QED
    BY <1>2, <1>6, <1>16, <2>4 DEF Writer, b, n
<1> QED
  BY <1>1, <1>6, <1>14, <1>18, <1>19, <1>20 DEF IInv, Writing, reading

\* A file that is written: nobody reads it.
LEMMA FileWritten ==
  ASSUME IInv, writestream \in File, The(file_list, writestream).mode # "read",
         NEW s \in Seq(Char), disk' = [disk EXCEPT ![writestream] = s],
         \/ UNCHANGED file_list
         \/ \E q \in Nat : file_list' = WithPos(writestream, q),
         UNCHANGED <<writer, reading>>
  PROVE  IInv'
<1> DEFINE f == writestream
<1>1. /\ FilesOpen(file_list, disk) /\ Listed(file_list) /\ disk \in [File -> {Missing} \cup Seq(Char)]
      /\ Reader(file_list, disk, reader_name, got, whole)
      /\ Writing(file_list, writestream, writer_name, print_string, buf, printed, value)
  BY Pieces
<1>2. /\ disk' \in [File -> {Missing} \cup Seq(Char)] /\ disk'[f] = s
      /\ \A g \in File : g # f => disk'[g] = disk[g]
  BY <1>1
<1>3. s # Missing
  BY MissingIsNone
<1>4. /\ Listed(file_list')
      /\ \A n : Opened(file_list', n) <=> Opened(file_list, n)
      /\ \A n : Opened(file_list, n) =>
             /\ n # f => The(file_list', n) = The(file_list, n)
             /\ The(file_list', n).mode = The(file_list, n).mode
             /\ The(file_list', n).name = n
  <2>1. CASE UNCHANGED file_list
    BY <1>1, <2>1, OpenedIs
  <2>2. CASE \E q \in Nat : file_list' = WithPos(writestream, q)
    <3>1. PICK q \in Nat : file_list' = WithPos(writestream, q)
      BY <2>2
    <3>2. /\ Listed(file_list')
          /\ \A n : Opened(file_list', n) <=> Opened(file_list, n)
          /\ \A n : Opened(file_list, n) =>
                 The(file_list', n) = IF n = f THEN [The(file_list, n) EXCEPT !.pos = q] ELSE The(file_list, n)
      BY <1>1, <3>1, Moved, WithPosIs
    <3>3. ASSUME NEW n, Opened(file_list, n)
          PROVE  /\ The(file_list', n).mode = The(file_list, n).mode
                 /\ The(file_list', n).name = n
      <4>1. The(file_list, n) \in Stream /\ The(file_list, n).name = n
        BY <1>1, <3>3, OpenedIs
      <4> QED
        BY <3>2, <3>3, <4>1 DEF Stream
    <3> QED
      BY <3>2, <3>3
  <2> QED
    BY <2>1, <2>2
<1>5. FilesOpen(file_list', disk')
  <2>1. ASSUME NEW n, Opened(file_list', n)
        PROVE  \/ /\ Opened(file_list, n) /\ The(file_list', n) = The(file_list, n)
                  /\ n \in File => disk'[n] = disk[n]
               \/ StreamFits(The(file_list', n), disk')
    <3>1. CASE n = f
      <4>1. Opened(file_list, f) /\ StreamFits(The(file_list, f), disk) /\ The(file_list, f).name = f
        BY <1>1, <1>4, <2>1, <3>1, OpenedIs DEF FilesOpen
      <4> QED
        BY <1>2, <1>3, <1>4, <3>1, <4>1 DEF StreamFits
    <3>2. CASE n # f
      BY <1>2, <1>4, <2>1, <3>2
    <3> QED
      BY <3>1, <3>2
  <2> QED
    BY <1>1, <1>2, <1>4, <2>1, FilesKept
<1>6. Reader(file_list', disk', reader_name, got, whole)
  <2>1. ASSUME reader_name # NIL
        PROVE  /\ Opened(file_list', reader_name)
               /\ The(file_list', reader_name).mode = The(file_list, reader_name).mode
               /\ The(file_list, reader_name).mode = "read" =>
                      /\ disk'[reader_name] = disk[reader_name]
                      /\ The(file_list', reader_name).pos = The(file_list, reader_name).pos
    <3>1. reader_name \in File \cup List /\ Opened(file_list, reader_name)
      BY <2>1, Pieces
    <3>2. The(file_list, reader_name).mode = "read" => reader_name # f
      OBVIOUS
    <3> QED
      BY <1>2, <1>4, <2>1, <3>1, <3>2, ReadsAFile
  <2> QED
    BY <1>1, <2>1, ReaderKept
<1>7. Writing(file_list', writestream, writer_name, print_string, buf, printed, value)
  BY <1>1, <1>4, WritingKept
<1> QED
  BY <1>5, <1>6, <1>7 DEF IInv, writer, reading

\* A file that is being written.
LEMMA WriterIsFile ==
  ASSUME IInv, writestream \notin {"string", "stdout"}
  PROVE  /\ writestream \in File /\ Opened(file_list, writestream)
         /\ Mode(writestream) = The(file_list, writestream).mode
         /\ Mode(writestream) \in {"read", "write", "append"}
         /\ Entry(writestream).pos = The(file_list, writestream).pos
         /\ Entry(writestream).pos \in Nat /\ disk[writestream] \in Seq(Char)
<1>1. /\ FilesOpen(file_list, disk) /\ Listed(file_list) /\ disk \in [File -> {Missing} \cup Seq(Char)]
      /\ Writer(file_list, writestream, writer_name, print_string, buf)
  BY Pieces DEF Writing
<1>2. writestream \in File /\ Opened(file_list, writestream)
  BY <1>1 DEF Writer
<1>3. /\ Entry(writestream) = The(file_list, writestream)
      /\ Mode(writestream) = The(file_list, writestream).mode
  BY <1>1, ListIsOpen
<1>4. /\ The(file_list, writestream) \in Stream /\ The(file_list, writestream).name = writestream
      /\ StreamFits(The(file_list, writestream), disk)
  BY <1>1, <1>2, OpenedIs DEF FilesOpen
<1>5. /\ The(file_list, writestream).mode \in {"read", "write", "append", "string"}
      /\ The(file_list, writestream).pos \in Nat
  BY <1>4 DEF Stream
<1>6. The(file_list, writestream).mode # "string" /\ disk[writestream] # Missing
  BY <1>2, <1>4, Names DEF StreamFits
<1> QED
  BY <1>1, <1>2, <1>3, <1>5, <1>6

LEMMA NothingMoves ==
  ASSUME IInv, UNCHANGED <<disk, file_list, writer, reading>> PROVE IInv'
  BY DEF IInv, writer, reading

LEMMA PrintCharKeeps == ASSUME IInv, NEW ch \in Char, PrintChar(ch) PROVE IInv'
<1>1. CASE writestream = "string"
  BY <1>1, StringKeeps
<1>2. CASE writestream = "stdout"
  <2>1. UNCHANGED <<disk, file_list, buf, print_string, printed>>
    BY <1>2 DEF PrintChar
  <2>2. UNCHANGED <<writestream, writer_name, reading, value>>
    BY DEF PrintChar
  <2> QED
    BY <2>1, <2>2, NothingMoves DEF writer
<1>3. CASE writestream \notin {"string", "stdout"}
  <2> DEFINE f == writestream
  <2>1. /\ CASE Mode(f) = "read" -> UNCHANGED <<disk, file_list>>
             [] Mode(f) = "append" -> disk' = [disk EXCEPT ![f] = Append(disk[f], ch)] /\ UNCHANGED file_list
             [] Mode(f) = "write" ->
                    /\ disk' = [disk EXCEPT ![f] = PutAt(disk[f], Entry(f).pos, ch)]
                    /\ file_list' = WithPos(f, Entry(f).pos + 1)
        /\ UNCHANGED <<buf, print_string, printed>>
    BY <1>3 DEF PrintChar
  <2>2. UNCHANGED <<writer, reading>>
    BY <2>1 DEF PrintChar, writer
  <2>3. /\ f \in File /\ Mode(f) = The(file_list, f).mode /\ Mode(f) \in {"read", "write", "append"}
        /\ Entry(f).pos \in Nat /\ disk[f] \in Seq(Char)
    BY <1>3, WriterIsFile
  <2>4. CASE Mode(f) = "read"
    BY <2>1, <2>2, <2>4, NothingMoves
  <2>5. CASE Mode(f) = "append"
    <3>1. Append(disk[f], ch) \in Seq(Char) /\ The(file_list, f).mode # "read"
      BY <2>3, <2>5
    <3> QED
      BY <2>1, <2>2, <2>3, <2>5, <3>1, FileWritten
  <2>6. CASE Mode(f) = "write"
    <3>1. /\ PutAt(disk[f], Entry(f).pos, ch) \in Seq(Char) /\ The(file_list, f).mode # "read"
          /\ Entry(f).pos + 1 \in Nat
      <4> DEFINE q == Entry(f).pos
                 s == disk[f]
      <4>1. q \in Nat /\ s \in Seq(Char)
        BY <2>3
      <4> HIDE DEF q, s
      <4>2. PutAt(s, q, ch) \in Seq(Char)
        BY <4>1, PutIs
      <4>3. q + 1 \in Nat
        BY <4>1
      <4> QED
        BY <2>3, <2>6, <4>2, <4>3 DEF q, s
    <3>2. /\ disk' = [disk EXCEPT ![f] = PutAt(disk[f], Entry(f).pos, ch)]
          /\ file_list' = WithPos(f, Entry(f).pos + 1)
      BY <2>1, <2>6
    <3> QED
      BY <2>2, <2>3, <3>1, <3>2, FileWritten
  <2> QED
    BY <2>3, <2>4, <2>5, <2>6
<1> QED
  BY <1>1, <1>2, <1>3

LEMMA SetWritePosKeeps == ASSUME IInv, NEW p \in Nat, SetWritePos(p) PROVE IInv'
<1>1. /\ writestream \notin {"string", "stdout"} /\ Mode(writestream) # "read"
      /\ UNCHANGED <<disk, writer, reading>>
      /\ UNCHANGED file_list \/ file_list' = WithPos(writestream, p)
  BY DEF SetWritePos
<1>2. /\ writestream \in File /\ Mode(writestream) = The(file_list, writestream).mode
      /\ disk[writestream] \in Seq(Char)
  BY <1>1, WriterIsFile
<1>3. disk' = [disk EXCEPT ![writestream] = disk[writestream]]
  BY <1>1, <1>2, Pieces
<1> QED
  BY <1>1, <1>2, <1>3, FileWritten

-----------------------------------------------------------------------------
(* Reading *)

LEMMA SetReadKeeps == ASSUME IInv, NEW f \in File \cup List \cup {NIL}, SetRead(f) PROVE IInv'
<1>1. /\ FilesOpen(file_list, disk) /\ Listed(file_list)
      /\ Reader(file_list, disk, reader_name, got, whole)
      /\ Writing(file_list, writestream, writer_name, print_string, buf, printed, value)
  BY Pieces
<1>2. UNCHANGED <<disk, file_list, writer>>
  BY DEF SetRead
<1>3. /\ IsOpen(f) <=> Opened(file_list, f)
      /\ Entry(f) = The(file_list, f) /\ Mode(f) = The(file_list, f).mode
  BY <1>1, ListIsOpen
<1>4. Reader(file_list, disk, reader_name', got', whole')
  <2>1. CASE reader_name' = reader_name
    BY <1>1, <2>1 DEF SetRead
  <2>2. CASE reader_name' # reader_name
    <3>1. /\ got' = IF f = NIL \/ Mode(f) # "read" THEN <<>> ELSE SubSeq(disk[f], 1, Entry(f).pos)
          /\ whole' = TRUE
      BY <2>2 DEF SetRead
    <3>2. CASE f = NIL
      BY <3>1, <3>2 DEF SetRead, Reader
    <3>3. CASE f # NIL
      <4>1. reader_name' = f /\ Opened(file_list, f)
        BY <1>3, <2>2, <3>3 DEF SetRead
      <4> QED
        BY <1>3, <3>1, <3>3, <4>1 DEF Reader
    <3> QED
      BY <3>2, <3>3
  <2> QED
    BY <2>1, <2>2
<1> QED
  BY <1>1, <1>2, <1>4 DEF IInv, writer

\* The reader goes on in its file.
LEMMA ReadStep ==
  ASSUME IInv, reader_name # NIL, Mode(reader_name) = "read",
         NEW q \in 0 .. Len(disk[reader_name]), file_list' = WithPos(reader_name, q),
         UNCHANGED <<reader_name, disk, writer>>,
         whole' \in BOOLEAN, whole' => got' = SubSeq(disk[reader_name], 1, q)
  PROVE  IInv'
<1> DEFINE f == reader_name
<1>1. /\ FilesOpen(file_list, disk) /\ Listed(file_list) /\ disk \in [File -> {Missing} \cup Seq(Char)]
      /\ f \in File \cup List /\ Opened(file_list, f)
      /\ Writing(file_list, writestream, writer_name, print_string, buf, printed, value)
  BY Pieces
<1>2. q \in Nat
  OBVIOUS
<1>3. /\ Listed(file_list')
      /\ \A n : Opened(file_list', n) <=> Opened(file_list, n)
      /\ \A n : Opened(file_list, n) =>
             The(file_list', n) = IF n = f THEN [The(file_list, n) EXCEPT !.pos = q] ELSE The(file_list, n)
  BY <1>1, <1>2, Moved, WithPosIs
<1>4. The(file_list, f) \in Stream /\ The(file_list, f).name = f /\ StreamFits(The(file_list, f), disk)
  BY <1>1, OpenedIs DEF FilesOpen
<1>5. The(file_list', f) = [The(file_list, f) EXCEPT !.pos = q]
  BY <1>1, <1>3
<1>6. /\ The(file_list', f).pos = q /\ The(file_list', f).name = f
      /\ The(file_list', f).mode = The(file_list, f).mode
  BY <1>4, <1>5 DEF Stream
<1>7. FilesOpen(file_list', disk)
  <2>1. StreamFits(The(file_list', f), disk)
    BY <1>4, <1>6 DEF StreamFits
  <2> QED
    BY <1>1, <1>3, <2>1, FilesKept
<1>8. Reader(file_list', disk, reader_name, got', whole')
  BY <1>1, <1>3, <1>6 DEF Reader
<1>9. Writing(file_list', writestream, writer_name, print_string, buf, printed, value)
  BY <1>1, <1>3, WritingKept
<1> QED
  BY <1>7, <1>8, <1>9 DEF IInv, writer

LEMMA ReaderFacts ==
  ASSUME IInv, reader_name # NIL, Mode(reader_name) = "read"
  PROVE  LET d == disk[reader_name]
             p == Entry(reader_name).pos
         IN /\ d \in Seq(Char) /\ p \in 0 .. Len(d)
            /\ whole \in BOOLEAN /\ (whole => got = SubSeq(d, 1, p))
            /\ Rest = SubSeq(d, p + 1, Len(d)) /\ Rest \in Seq(Char) /\ Len(Rest) = Len(d) - p
            /\ \A n \in 0 .. Len(Rest) :
                   /\ p + n \in 0 .. Len(d)
                   /\ SubSeq(Rest, 1, n) \in Seq(Char)
                   /\ SubSeq(d, 1, p) \o SubSeq(Rest, 1, n) = SubSeq(d, 1, p + n)
<1> DEFINE d == disk[reader_name]
           p == Entry(reader_name).pos
           r == Rest
<1>1. /\ FilesOpen(file_list, disk) /\ Listed(file_list) /\ disk \in [File -> {Missing} \cup Seq(Char)]
      /\ Opened(file_list, reader_name)
      /\ Reader(file_list, disk, reader_name, got, whole)
  BY Pieces
<1>2. Entry(reader_name) = The(file_list, reader_name) /\ The(file_list, reader_name).mode = "read"
  BY <1>1, ListIsOpen
<1>3. /\ The(file_list, reader_name) \in Stream /\ The(file_list, reader_name).name = reader_name
      /\ StreamFits(The(file_list, reader_name), disk)
  BY <1>1, OpenedIs DEF FilesOpen
<1>4. d \in Seq(Char) /\ p \in Nat /\ p <= Len(d) /\ Len(d) \in Nat
  BY <1>1, <1>2, <1>3, ReadsAFile DEF StreamFits, Stream
<1>5. whole \in BOOLEAN /\ (whole => got = SubSeq(d, 1, p))
  BY <1>1, <1>2 DEF Reader
<1>6. r = SubSeq(d, p + 1, Len(d))
  BY DEF Rest
<1> HIDE DEF d, p, r
<1>7. r \in Seq(Char) /\ Len(r) = Len(d) - p /\ \A i \in 1 .. Len(d) - p : r[i] = d[p + i]
  BY <1>4, <1>6
<1>8. ASSUME NEW n \in 0 .. Len(r)
      PROVE  /\ p + n \in 0 .. Len(d)
             /\ SubSeq(r, 1, n) \in Seq(Char)
             /\ SubSeq(d, 1, p) \o SubSeq(r, 1, n) = SubSeq(d, 1, p + n)
  <2> DEFINE a == SubSeq(d, 1, p)
             b == SubSeq(r, 1, n)
             c == SubSeq(d, 1, p + n)
  <2>1. n \in Nat /\ p + n \in 0 .. Len(d) /\ p + n \in Nat
    BY <1>4, <1>7
  <2>2. a \in Seq(Char) /\ Len(a) = p /\ \A i \in 1 .. p : a[i] = d[i]
    BY <1>4
  <2>3. b \in Seq(Char) /\ Len(b) = n /\ \A i \in 1 .. n : b[i] = r[i]
    BY <1>7, <2>1
  <2>4. c \in Seq(Char) /\ Len(c) = p + n /\ \A i \in 1 .. p + n : c[i] = d[i]
    BY <1>4, <2>1
  <2> HIDE DEF a, b, c
  <2>5. /\ a \o b \in Seq(Char) /\ Len(a \o b) = p + n
        /\ \A i \in 1 .. p + n : (a \o b)[i] = IF i <= p THEN a[i] ELSE b[i - p]
    BY <2>2, <2>3, ConcatProperties
  <2>6. ASSUME NEW i \in 1 .. p + n PROVE (a \o b)[i] = c[i]
    <3>1. CASE i <= p
      <4>1. i \in 1 .. p
        BY <1>4, <2>1, <3>1
      <4> QED
        BY <2>2, <2>4, <2>5, <3>1, <4>1
    <3>2. CASE ~ (i <= p)
      <4>1. i - p \in 1 .. n /\ i - p \in 1 .. Len(d) - p /\ p + (i - p) = i
        BY <1>4, <1>7, <2>1, <3>2
      <4> QED
        BY <1>7, <2>3, <2>4, <2>5, <3>2, <4>1
    <3> QED
      BY <3>1, <3>2
  <2>7. a \o b = c
    BY <2>4, <2>5, <2>6, SeqEqual
  <2> QED
    BY <2>1, <2>3, <2>7 DEF a, b, c
<1>9. p \in 0 .. Len(d)
  BY <1>4
<1> QED
  BY <1>4, <1>5, <1>6, <1>7, <1>8, <1>9, Zenon DEF d, p, r

\* Characters are taken from the file, and those that are output are these.
LEMMA TakeStep ==
  ASSUME IInv, reader_name # NIL, Mode(reader_name) = "read",
         NEW n \in 0 .. Len(Rest), NEW text, Take(n, text),
         whole' \in BOOLEAN, whole' => whole /\ text = SubSeq(Rest, 1, n)
  PROVE  IInv'
<1>1. /\ file_list' = WithPos(reader_name, Entry(reader_name).pos + n)
      /\ got' = got \o text /\ UNCHANGED <<reader_name, disk, writer>>
  BY DEF Take
<1>2. /\ Entry(reader_name).pos + n \in 0 .. Len(disk[reader_name])
      /\ whole => got = SubSeq(disk[reader_name], 1, Entry(reader_name).pos)
      /\ SubSeq(disk[reader_name], 1, Entry(reader_name).pos) \o SubSeq(Rest, 1, n)
            = SubSeq(disk[reader_name], 1, Entry(reader_name).pos + n)
  BY ReaderFacts
<1>3. whole' => got' = SubSeq(disk[reader_name], 1, Entry(reader_name).pos + n)
  BY <1>1, <1>2
<1> QED
  BY <1>1, <1>2, <1>3, ReadStep

\* A set of numbers has a least one.
LEMMA Least ==
  ASSUME NEW S \in SUBSET Nat, S # {}
  PROVE  \E x \in S : \A y \in S : x <= y
<1> DEFINE R == OpToRel(<, Nat)
<1>1. IsWellFoundedOn(R, Nat)
  BY NatLessThanWellFounded
<1>2. \A x, y \in Nat : x < y => <<x, y>> \in R
  BY DEF OpToRel
<1> HIDE DEF R
<1>3. PICK x \in S : \A y \in S : ~ (<<y, x>> \in R)
  BY <1>1, WFMin
<1>4. \A y \in S : ~ (y < x)
  BY <1>2, <1>3
<1>5. \A y \in S : x <= y
  BY <1>4
<1> QED
  BY <1>5

LEMMA ReadLineKeeps ==
  ASSUME IInv, reader_name # NIL, Mode(reader_name) = "read", ReadLine PROVE IInv'
<1> DEFINE ends == {i \in DOMAIN Rest : Rest[i] = "n"}
<1>1. Rest \in Seq(Char) /\ Len(Rest) \in Nat /\ whole \in BOOLEAN
  BY ReaderFacts
<1>2. CASE ends = {}
  <2>1. Take(Len(Rest), <<>>) /\ whole' = (whole /\ Rest = <<>>)
    BY <1>2 DEF ReadLine
  <2>2. Rest = <<>> => SubSeq(Rest, 1, Len(Rest)) = <<>>
    OBVIOUS
  <2>3. Len(Rest) \in 0 .. Len(Rest)
    BY <1>1
  <2>4. whole' \in BOOLEAN /\ (whole' => whole /\ <<>> = SubSeq(Rest, 1, Len(Rest)))
    BY <2>1, <2>2
  <2> QED
    BY <2>1, <2>3, <2>4, TakeStep
<1>3. CASE ends # {}
  <2> DEFINE n == CHOOSE i \in ends : \A j \in ends : i <= j
  <2>1. Take(n, SubSeq(Rest, 1, n)) /\ UNCHANGED whole
    BY <1>3 DEF ReadLine
  <2>2. \A i \in ends : i \in 1 .. Len(Rest)
    BY <1>1
  <2>3. ends \in SUBSET Nat
    BY <1>1, <2>2
  <2>4. \E i \in ends : \A j \in ends : i <= j
    BY <1>3, <2>3, Least
  <2>5. n \in ends
    BY <2>4
  <2> HIDE DEF n
  <2>6. n \in 0 .. Len(Rest)
    BY <1>1, <2>2, <2>5
  <2>7. whole' \in BOOLEAN /\ (whole' => whole)
    BY <1>1, <2>1
  <2> QED
    BY <2>1, <2>6, <2>7, TakeStep
<1> QED
  BY <1>2, <1>3

LEMMA OtherReadsKeep ==
  ASSUME IInv, reader_name # NIL, Mode(reader_name) = "read",
         ReadChar \/ ReadChars \/ Eofp \/ SetReadPos(0)
  PROVE  IInv'
<1>1. Rest \in Seq(Char) /\ Len(Rest) \in Nat /\ whole \in BOOLEAN
  BY ReaderFacts
<1>2. CASE ReadChar
  <2>1. CASE Rest = <<>>
    BY <1>2, <2>1, NothingMoves DEF ReadChar
  <2>2. CASE Rest # <<>>
    <3>1. Take(1, <<Head(Rest)>>) /\ UNCHANGED whole
      BY <1>2, <2>2 DEF ReadChar
    <3>2. 1 \in 1 .. Len(Rest) /\ 1 \in 0 .. Len(Rest)
      BY <1>1, <2>2
    <3>3. SubSeq(Rest, 1, 1) = <<Rest[1]>> /\ Head(Rest) = Rest[1]
      <4> DEFINE r == Rest
                 a == SubSeq(r, 1, 1)
                 b == <<r[1]>>
      <4>1. r \in Seq(Char) /\ 1 \in 1 .. Len(r) /\ r[1] \in Char
        BY <1>1, <3>2
      <4> HIDE DEF r
      <4>2. a \in Seq(Char) /\ Len(a) = 1 /\ a[1] = r[1]
        BY <4>1
      <4>3. b \in Seq(Char) /\ Len(b) = 1 /\ b[1] = r[1]
        BY <4>1
      <4> HIDE DEF a, b
      <4>4. a = b
        BY <4>2, <4>3, SeqEqual
      <4>5. Head(r) = r[1]
        OBVIOUS
      <4> QED
        BY <4>4, <4>5 DEF a, b, r
    <3>4. whole' \in BOOLEAN /\ (whole' => whole)
      BY <1>1, <3>1
    <3> QED
      BY <3>1, <3>2, <3>3, <3>4, TakeStep
  <2> QED
    BY <2>1, <2>2
<1>3. CASE ReadChars
  <2> DEFINE n == IF Len(Rest) < 2 THEN Len(Rest) ELSE 2
  <2>1. Take(n, SubSeq(Rest, 1, n)) /\ UNCHANGED whole
    BY <1>3 DEF ReadChars
  <2>2. n \in 0 .. Len(Rest)
    BY <1>1
  <2>3. whole' \in BOOLEAN /\ (whole' => whole)
    BY <1>1, <2>1
  <2> HIDE DEF n
  <2> QED
    BY <2>1, <2>2, <2>3, TakeStep
<1>4. CASE Eofp
  BY <1>4, NothingMoves DEF Eofp
<1>5. CASE SetReadPos(0)
  <2>1. /\ file_list' = WithPos(reader_name, 0) /\ got' = SubSeq(disk[reader_name], 1, 0)
        /\ whole' = TRUE /\ UNCHANGED <<reader_name, disk, writer>>
    BY <1>5 DEF SetReadPos
  <2>2. 0 \in 0 .. Len(disk[reader_name])
    BY ReaderFacts
  <2> QED
    BY <2>1, <2>2, ReadStep
<1> QED
  BY <1>2, <1>3, <1>4, <1>5

-----------------------------------------------------------------------------
LEMMA InitHolds == Init => IInv
<1> SUFFICES ASSUME Init PROVE IInv
  OBVIOUS
<1>1. file_list = <<>> /\ Len(file_list) = 0 /\ \A n : ~Opened(file_list, n)
  BY DEF Init, Opened
<1>2. FilesOpen(file_list, disk)
  <2>1. Listed(file_list)
    BY <1>1 DEF Listed
  <2>2. <<"c", "n", "c">> \in Seq(Char)
    BY DEF Char
  <2>3. disk \in [File -> {Missing, <<"c", "n", "c">>}]
    BY DEF Init
  <2> HIDE DEF Init
  <2>4. disk \in [File -> {Missing} \cup Seq(Char)]
    BY <2>2, <2>3
  <2> QED
    BY <1>1, <2>1, <2>4 DEF FilesOpen
<1>3. Reader(file_list, disk, reader_name, got, whole)
  BY DEF Init, Reader
<1>4. Texts(buf, printed, value)
  <2>1. Dead \in [live : BOOLEAN, text : Seq(Char)] /\ <<>> \in Seq(Char)
    BY DEF Dead
  <2> QED
    BY <2>1 DEF Init, Texts
<1>5. \A b \in Buffer : ~buf[b].live
  BY DEF Init, Dead
<1>6. \A l \in List : l \in Buffer
  BY Names
<1>7. "write_buf" \in Buffer /\ writestream = "stdout" /\ writer_name = NIL
  BY Names DEF Init
<1>8. /\ Live(file_list, writestream, writer_name, buf)
      /\ Writer(file_list, writestream, writer_name, print_string, buf)
      /\ Whole(buf, printed, writer_name)
  BY <1>1, <1>5, <1>6, <1>7 DEF Live, Writer, Whole
<1> QED
  BY <1>2, <1>3, <1>4, <1>8 DEF IInv, Writing

LEMMA NextKeeps == IInv /\ [Next]_vars => IInv'
<1> SUFFICES ASSUME IInv, [Next]_vars PROVE IInv'
  OBVIOUS
<1>1. CASE UNCHANGED vars
  BY <1>1, NothingMoves DEF vars, writer, reading
<1>2. ASSUME NEW f \in File, OpenRead(f) \/ OpenWrite(f) \/ OpenAppend(f) PROVE IInv'
  BY <1>2, OpenKeeps
<1>3. ASSUME NEW l \in List, OpenString(l) PROVE IInv'
  BY <1>3, OpenStringKeeps
<1>4. ASSUME NEW name \in File \cup List, Close(name) PROVE IInv'
  BY <1>4, CloseKeeps
<1>5. CASE SetWriteTerminal \/ Error
  BY <1>5, SetWriteTerminalKeeps, ErrorKeeps
<1>6. ASSUME NEW name \in File \cup List \cup ({writer_name} \ {NIL}), SetWrite(name) PROVE IInv'
  BY <1>6, SetWriteKeeps
<1>7. ASSUME NEW ch \in Char, PrintChar(ch) PROVE IInv'
  BY <1>7, PrintCharKeeps
<1>8. CASE SetWritePos(0)
  BY <1>8, SetWritePosKeeps
<1>9. ASSUME NEW f \in File \cup List \cup {NIL}, SetRead(f) PROVE IInv'
  BY <1>9, SetReadKeeps
<1>10. CASE reader_name # NIL /\ Mode(reader_name) = "read"
              /\ (ReadLine \/ ReadChar \/ ReadChars \/ Eofp \/ SetReadPos(0))
  BY <1>10, ReadLineKeeps, OtherReadsKeep
<1> QED
  BY <1>1, <1>2, <1>3, <1>4, <1>5, <1>6, <1>7, <1>8, <1>9, <1>10 DEF Next

LEMMA Invariant == Spec => []IInv
<1>1. Init => IInv
  BY InitHolds
<1>2. IInv /\ [Next]_vars => IInv'
  BY NextKeeps
<1> QED
  BY <1>1, <1>2, PTL DEF Spec

LEMMA TypesHold == IInv => TypeOK
<1> SUFFICES ASSUME IInv PROVE TypeOK
  OBVIOUS
<1>1. /\ disk \in [File -> {Missing} \cup Seq(Char)] /\ Listed(file_list)
      /\ Reader(file_list, disk, reader_name, got, whole)
      /\ Writer(file_list, writestream, writer_name, print_string, buf) /\ Texts(buf, printed, value)
  BY Pieces DEF Writing
<1>2. DOMAIN file_list = 1 .. Len(file_list) /\ \A i \in 1 .. Len(file_list) : file_list[i] \in Stream
  BY <1>1 DEF Listed
<1>3. \A i \in DOMAIN file_list : file_list[i].name \in File \cup List /\ file_list[i].pos \in Nat
  BY <1>2 DEF Stream
<1>4. \A i, j \in DOMAIN file_list : file_list[i].name = file_list[j].name => i = j
  BY <1>1, <1>2 DEF Listed
<1>5. writer_name \in {NIL} \cup File \cup List \cup Copies /\ reader_name \in {NIL} \cup File \cup List
  BY <1>1 DEF Writer, Reader
<1>6. (\A f \in File : disk[f] = Missing \/ disk[f] \in Seq(Char)) /\ \A v \in Var : value[v] \in Seq(Char)
  BY <1>1 DEF Texts
<1> QED
  BY <1>3, <1>4, <1>5, <1>6 DEF TypeOK

\* A name is on one stream at most, a file holds characters, a variable the text
\* of a string.
THEOREM TypeCorrect == Spec => []TypeOK
  BY Invariant, TypesHold, PTL

LEMMA StreamsHold == IInv => StreamsAreOpen /\ StringsAreReachable /\ StringsAreWhole
<1> SUFFICES ASSUME IInv PROVE StreamsAreOpen /\ StringsAreReachable /\ StringsAreWhole
  OBVIOUS
<1>1. /\ Listed(file_list) /\ Reader(file_list, disk, reader_name, got, whole)
      /\ Writer(file_list, writestream, writer_name, print_string, buf) /\ Texts(buf, printed, value)
      /\ Live(file_list, writestream, writer_name, buf) /\ Whole(buf, printed, writer_name)
  BY Pieces DEF Writing
<1>2. \A n : IsOpen(n) <=> Opened(file_list, n)
  BY <1>1, ListIsOpen
<1>3. \A n \in Copies : ~IsOpen(n)
  BY <1>1, <1>2, OpenedIs, Names
<1>4. StreamsAreOpen
  <2>1. reader_name # NIL => IsOpen(reader_name)
    BY <1>1, <1>2 DEF Reader
  <2>2. CASE writestream = "string"
    <3>1. /\ writer_name \in List \cup Copies /\ (writer_name \in List => IsOpen(writer_name))
          /\ buf[BufferOf(writer_name)].live
          /\ AtEnd(print_string, BufferOf(writer_name), buf[BufferOf(writer_name)].text,
                   Length[Original(writer_name)])
      BY <1>1, <1>2, <2>2, Names DEF Writer
    <3>2. BufferOf(writer_name) = IF IsOpen(writer_name) THEN writer_name ELSE "write_buf"
      BY <1>3, <3>1, Names DEF BufferOf
    <3>3. /\ print_string.buf = BufferOf(writer_name)
          /\ print_string.at = Len(buf[BufferOf(writer_name)].text)
          /\ print_string.at <= Length[Original(writer_name)]
      BY <3>1 DEF AtEnd
    <3> QED
      BY <2>1, <2>2, <3>1, <3>2, <3>3 DEF StreamsAreOpen, IsList
  <2>3. CASE writestream = "stdout"
    BY <1>1, <2>1, <2>3, Names DEF StreamsAreOpen, Writer
  <2>4. CASE writestream \notin {"string", "stdout"}
    BY <1>1, <1>2, <2>1, <2>4 DEF StreamsAreOpen, Writer
  <2> QED
    BY <2>2, <2>3, <2>4
<1>5. StringsAreReachable
  <2>1. writestream = "string" => (writer_name \in Copies <=> ~IsOpen(writer_name))
    BY <1>1, <1>2, <1>3, Names DEF Writer
  <2> QED
    BY <1>1, <1>2, <2>1, Names DEF StringsAreReachable, Live
<1>6. StringsAreWhole
  <2>1. ASSUME NEW b \in Buffer, buf[b].live PROVE buf[b].text = Clip(printed[b], Length[ListOf(b)])
    BY <1>1, <2>1, Names DEF Whole, ListOf
  <2> QED
    BY <2>1 DEF StringsAreWhole, Printed, Clip
<1> QED
  BY <1>4, <1>5, <1>6

\* The writer and the reader are always the terminal or something that is open;
\* print_char points to the end of a string that has not been freed and has room;
\* every string being written can be reached, and holds what was printed to it, up
\* to its length, however often the writer changed (files.c, print.c).
THEOREM FilesAreSound == Spec => []FilesInv
<1>1. IInv => FilesInv
  BY TypesHold, StreamsHold DEF FilesInv
<1> QED
  BY <1>1, Invariant, PTL

\* What is read from a file is what it holds from its beginning to where the
\* reader is, whatever else is opened, closed, written or asked in between, for a
\* file of any length.
THEOREM ReadingIsInOrder == Spec => []ReadsInOrder
<1>1. IInv => ReadsInOrder
  BY ReaderFacts DEF ReadsInOrder
<1> QED
  BY <1>1, Invariant, PTL

-----------------------------------------------------------------------------
(* Where the text of a string goes. *)

Made ==
    /\ \A b \in Buffer : Finishes(b) => IsValue(b)
    /\ \A v \in Var : value'[v] # value[v] =>
           \E b \in Buffer : buf[b].live /\ VarOf[ListOf(b)] = v /\ IsValue(b)

\* Nothing is finished: the strings live on, and none is shorter.
LEMMA NothingMade ==
  ASSUME IInv, UNCHANGED value, \A b \in Buffer : buf[b].live => buf'[b].live,
         \A b \in Buffer : buf[b].live => printed'[b] = printed[b] \/ Len(printed'[b]) > Len(printed[b]),
         buf["write_buf"].live => UNCHANGED writer_name
  PROVE  Made
<1>1. Texts(buf, printed, value)
  BY Pieces DEF Writing
<1>2. \A b \in Buffer : Len(printed[b]) \in Nat
  BY <1>1 DEF Texts
<1>3. ASSUME NEW b \in Buffer, Finishes(b) PROVE FALSE
  <2>1. buf[b].live /\ buf'[b].live
    BY <1>3 DEF Finishes
  <2>2. ~ (b = "write_buf" /\ writer_name' # writer_name)
    BY <2>1
  <2>3. Len(printed'[b]) < Len(printed[b])
    BY <1>3, <2>1, <2>2 DEF Finishes
  <2>4. CASE printed'[b] = printed[b]
    BY <1>2, <2>3, <2>4
  <2>5. CASE Len(printed'[b]) > Len(printed[b])
    BY <1>2, <2>3, <2>5
  <2> QED
    BY <2>1, <2>4, <2>5
<1> QED
  BY <1>3 DEF Made

LEMMA WriterStill ==
  ASSUME IInv, UNCHANGED writer PROVE Made
  BY NothingMade DEF writer

LEMMA OpenStringMakes == ASSUME IInv, NEW l \in List, OpenString(l) PROVE Made
<1>1. /\ Listed(file_list) /\ Texts(buf, printed, value)
      /\ Live(file_list, writestream, writer_name, buf)
  BY Pieces DEF Writing
<1>2. /\ buf' = [buf EXCEPT ![l] = [live |-> TRUE, text |-> <<>>]]
      /\ printed' = [printed EXCEPT ![l] = <<>>] /\ UNCHANGED <<writer_name, value>>
  BY DEF OpenString
<1>3. ~buf[l].live
  BY <1>1, ListIsOpen DEF OpenString, Live
<1>4. \A b \in Buffer : b # l => buf'[b] = buf[b] /\ printed'[b] = printed[b]
  BY <1>1, <1>2 DEF Texts
<1>5. \A b \in Buffer : buf[b].live => buf'[b] = buf[b] /\ printed'[b] = printed[b]
  BY <1>3, <1>4
<1> QED
  BY <1>2, <1>5, NothingMade

\* CLOSE of a string: its variable gets the text.
LEMMA CloseMakes == ASSUME IInv, NEW name \in File \cup List, Close(name) PROVE Made
<1>1. /\ Listed(file_list) /\ Texts(buf, printed, value)
      /\ Live(file_list, writestream, writer_name, buf) /\ StringsAreWhole
  BY Pieces, StreamsHold DEF Writing
<1>2. IsList(name) <=> name \in List
  BY Names DEF IsList
<1>3. UNCHANGED printed /\ (name # writer_name => UNCHANGED writer_name)
  BY DEF Close, CloseWriter
<1>4. buf["write_buf"].live => writer_name # name
  BY <1>1, Names DEF Live
<1>5. CASE name \notin List
  BY <1>2, <1>3, <1>4, <1>5, NothingMade DEF Close
<1>6. CASE name \in List
  <2>1. /\ value' = [value EXCEPT ![VarOf[name]] = buf[name].text]
        /\ buf' = [buf EXCEPT ![name].live = FALSE]
    BY <1>2, <1>6 DEF Close
  <2>2. name \in Buffer /\ VarOf[name] \in Var /\ name # "write_buf"
    BY <1>6, Names, VarIs
  <2>3. \A b \in Buffer : b # name => buf'[b] = buf[b]
    BY <1>1, <2>1 DEF Texts
  <2>4. \A v \in Var : v # VarOf[name] => value'[v] = value[v]
    BY <1>1, <2>1 DEF Texts
  <2>5. value'[VarOf[name]] = buf[name].text
    BY <1>1, <2>1, <2>2 DEF Texts
  <2>6. buf[name].live
    BY <1>1, <1>6, ListIsOpen DEF Close, Live
  <2>7. ListOf(name) = name
    BY <2>2 DEF ListOf
  <2>8. buf[name].text = Printed(name, name)
    BY <1>1, <2>2, <2>6, <2>7 DEF StringsAreWhole
  <2>9. IsValue(name)
    BY <2>5, <2>7, <2>8 DEF IsValue
  <2>10. ASSUME NEW b \in Buffer, Finishes(b) PROVE b = name
    <3>1. SUFFICES ASSUME b # name PROVE FALSE
      OBVIOUS
    <3>2. buf[b].live /\ buf'[b].live
      BY <2>3, <2>10, <3>1 DEF Finishes
    <3>3. Len(printed'[b]) = Len(printed[b]) /\ Len(printed[b]) \in Nat
      BY <1>1, <1>3 DEF Texts
    <3>4. b = "write_buf" => UNCHANGED writer_name
      BY <1>3, <1>4, <3>2
    <3> QED
      BY <2>10, <3>2, <3>3, <3>4 DEF Finishes
  <2> QED
    BY <2>2, <2>4, <2>6, <2>7, <2>9, <2>10 DEF Made
<1> QED
  BY <1>5, <1>6

\* Another writer, or an error: the variable of a string that was not opened gets it.
LEMMA FinishMakes ==
  ASSUME IInv, value' = Finished.value,
         \A l \in List : buf'[l] = buf[l] /\ printed'[l] = printed[l]
  PROVE  Made
<1>1. /\ Listed(file_list) /\ Texts(buf, printed, value)
      /\ Live(file_list, writestream, writer_name, buf) /\ StringsAreWhole
  BY Pieces, StreamsHold DEF Writing
<1>2. IsOpen(writer_name) <=> Opened(file_list, writer_name)
  BY <1>1, ListIsOpen
<1>3. buf["write_buf"].live <=> writestream = "string" /\ ~IsOpen(writer_name)
  BY StreamsHold, Names DEF StringsAreReachable
<1>4. ASSUME NEW b \in Buffer, b # "write_buf" PROVE ~Finishes(b)
  <2>1. b \in List
    BY <1>4, Names
  <2>2. buf'[b] = buf[b] /\ Len(printed'[b]) = Len(printed[b]) /\ Len(printed[b]) \in Nat
    BY <1>1, <2>1 DEF Texts
  <2> QED
    BY <1>4, <2>2 DEF Finishes
<1>5. CASE ~buf["write_buf"].live
  <2>1. Finished = [buf |-> buf, value |-> value]
    BY <1>3, <1>5 DEF Finished
  <2>2. value' = value
    BY <2>1
  <2>3. ~Finishes("write_buf")
    BY <1>5 DEF Finishes
  <2> QED
    BY <1>4, <2>2, <2>3 DEF Made
<1>6. CASE buf["write_buf"].live
  <2> DEFINE l == Original(writer_name)
             t == buf["write_buf"].text
  <2>1. Finished = [buf |-> [buf EXCEPT !["write_buf"].live = FALSE], value |-> [value EXCEPT ![VarOf[l]] = t]]
    BY <1>3, <1>6 DEF Finished
  <2>2. value' = [value EXCEPT ![VarOf[l]] = t]
    BY <2>1
  <2>3. l \in List /\ VarOf[l] \in Var /\ "write_buf" \in Buffer
    BY <1>1, <1>6, Names, VarIs DEF Live
  <2>4. ListOf("write_buf") = l
    BY DEF ListOf
  <2>5. t = Printed("write_buf", l)
    BY <1>1, <1>6, <2>3, <2>4 DEF StringsAreWhole
  <2> HIDE DEF l, t
  <2>6. value'[VarOf[l]] = t /\ \A v \in Var : v # VarOf[l] => value'[v] = value[v]
    BY <1>1, <2>2, <2>3 DEF Texts
  <2>7. IsValue("write_buf")
    BY <2>4, <2>5, <2>6 DEF IsValue
  <2> QED
    BY <1>4, <1>6, <2>3, <2>4, <2>6, <2>7 DEF Made
<1> QED
  BY <1>5, <1>6

LEMMA WriterChangeMakes ==
  ASSUME IInv, \/ SetWriteTerminal \/ Error
               \/ \E name \in File \cup List \cup ({writer_name} \ {NIL}) : SetWrite(name)
  PROVE  Made
<1>1. /\ Texts(Finished.buf, printed, Finished.value)
      /\ \A l \in List : Finished.buf[l] = buf[l] /\ l # "write_buf" /\ l \in Buffer
  BY FinishedIs, Names
<1>2. CASE SetWriteTerminal \/ Error
  BY <1>1, <1>2, FinishMakes DEF SetWriteTerminal, Error
<1>3. ASSUME NEW name, SetWrite(name) PROVE Made
  <2>1. /\ value' = Finished.value
        /\ \/ buf' = Finished.buf /\ UNCHANGED printed
           \/ /\ buf' = [Finished.buf EXCEPT !["write_buf"] = [live |-> TRUE, text |-> <<>>]]
              /\ printed' = [printed EXCEPT !["write_buf"] = <<>>]
    BY <1>3 DEF SetWrite
  <2>2. CASE buf' = Finished.buf /\ UNCHANGED printed
    BY <1>1, <2>1, <2>2, FinishMakes
  <2>3. CASE /\ buf' = [Finished.buf EXCEPT !["write_buf"] = [live |-> TRUE, text |-> <<>>]]
             /\ printed' = [printed EXCEPT !["write_buf"] = <<>>]
    <3>1. \A l \in List : buf'[l] = buf[l]
      BY <1>1, <2>3 DEF Texts
    <3>2. \A l \in List : printed'[l] = printed[l]
      BY <1>1, <2>3 DEF Texts
    <3> QED
      BY <2>1, <3>1, <3>2, FinishMakes
  <2> QED
    BY <2>1, <2>2, <2>3
<1> QED
  BY <1>2, <1>3

LEMMA PrintCharMakes == ASSUME IInv, NEW ch \in Char, PrintChar(ch) PROVE Made
<1>1. UNCHANGED <<writer_name, value>>
  BY DEF PrintChar
<1>2. CASE writestream # "string"
  <2>1. UNCHANGED <<buf, printed>>
    BY <1>2 DEF PrintChar
  <2> QED
    BY <1>1, <2>1, NothingMade
<1>3. CASE writestream = "string"
  <2> DEFINE b == print_string.buf
             s == PutAt(buf[b].text, print_string.at, ch)
  <2>1. Texts(buf, printed, value) /\ b \in Buffer
    <3>1. Texts(buf, printed, value) /\ Writer(file_list, writestream, writer_name, print_string, buf)
      BY Pieces DEF Writing
    <3>2. AtEnd(print_string, BufferOf(writer_name), buf[BufferOf(writer_name)].text, Length[Original(writer_name)])
      BY <1>3, <3>1, Names DEF Writer
    <3>3. b = BufferOf(writer_name)
      BY <3>2 DEF AtEnd
    <3> QED
      BY <3>1, <3>3, Names DEF BufferOf
  <2>2. /\ buf' = [buf EXCEPT ![b].text = s] \/ buf' = buf
        /\ printed' = [printed EXCEPT ![b] = Append(printed[b], ch)]
    BY <1>3 DEF PrintChar
  <2>3. printed[b] \in Seq(Char) /\ buf[b] \in [live : BOOLEAN, text : Seq(Char)]
    BY <2>1 DEF Texts
  <2> HIDE DEF b, s
  <2>4. \A c \in Buffer : printed'[c] = printed[c] \/ Len(printed'[c]) > Len(printed[c])
    <3>1. Len(Append(printed[b], ch)) = Len(printed[b]) + 1 /\ Len(printed[b]) \in Nat
      BY <2>3
    <3>2. \A c \in Buffer : printed'[c] = IF c = b THEN Append(printed[b], ch) ELSE printed[c]
      BY <2>1, <2>2 DEF Texts
    <3>3. ASSUME NEW c \in Buffer, c = b PROVE Len(printed'[c]) > Len(printed[c])
      <4>1. Len(printed'[c]) = Len(printed[c]) + 1 /\ Len(printed[c]) \in Nat
        BY <3>1, <3>2, <3>3
      <4> QED
        BY <4>1
    <3> QED
      BY <3>2, <3>3
  <2>5. \A c \in Buffer : buf[c].live => buf'[c].live
    <3>1. CASE buf' = buf
      BY <3>1
    <3>2. CASE buf' = [buf EXCEPT ![b].text = s]
      <4>1. \A c \in Buffer : c # b => buf'[c] = buf[c]
        BY <2>1, <3>2 DEF Texts
      <4>2. buf'[b] = [buf[b] EXCEPT !.text = s]
        BY <2>1, <3>2 DEF Texts
      <4>3. buf'[b].live = buf[b].live
        BY <2>3, <4>2
      <4> QED
        BY <4>1, <4>3
    <3> QED
      BY <2>2, <3>1, <3>2
  <2> QED
    BY <1>1, <2>4, <2>5, NothingMade
<1> QED
  BY <1>2, <1>3

LEMMA StepMakes == ASSUME IInv, [Next]_vars PROVE Made
<1>1. CASE UNCHANGED writer
  BY <1>1, WriterStill
<1>2. ASSUME NEW f \in File, OpenRead(f) \/ OpenWrite(f) \/ OpenAppend(f) PROVE UNCHANGED writer
  BY <1>2 DEF OpenRead, OpenWrite, OpenAppend
<1>3. CASE \/ SetWritePos(0) \/ \E f \in File \cup List \cup {NIL} : SetRead(f)
           \/ ReadLine \/ ReadChar \/ ReadChars \/ Eofp \/ SetReadPos(0)
  BY <1>3, WriterStill DEF SetWritePos, SetRead, ReadLine, ReadChar, ReadChars, Eofp, SetReadPos, Take
<1>4. CASE UNCHANGED vars
  BY <1>4, WriterStill DEF vars, writer
<1> QED
  BY <1>1, <1>2, <1>3, <1>4, OpenStringMakes, CloseMakes, WriterChangeMakes, PrintCharMakes DEF Next

\* A string that is closed, or left for another writer or by an error, becomes the
\* value of its variable with all that was printed to it, and no variable changes
\* otherwise.
THEOREM StringsAreMade == Spec => StringIsMade
<1>1. IInv /\ [Next]_vars => [Made]_vars
  BY StepMakes
<1> QED
  BY <1>1, Invariant, PTL DEF Spec, StringIsMade, Made
=============================================================================
