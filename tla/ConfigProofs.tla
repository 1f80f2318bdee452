---------------------------- MODULE ConfigProofs ----------------------------
(***************************************************************************)
(* Proofs about the settings file, for any users, images, files and limit. *)
(***************************************************************************)
EXTENDS ConfigStore, Induction

(* What config_set() writes is a file.                                     *)

LEMMA ReplaceType ==
    ASSUME NEW S, NEW s \in Seq(S), NEW x \in S, NEW i
    PROVE  [s EXCEPT ![i] = x] \in Seq(S)
<1>1. s \in [1 .. Len(s) -> S] /\ Len(s) \in Nat
  OBVIOUS
<1>2. [s EXCEPT ![i] = x] \in [1 .. Len(s) -> S]
  BY <1>1
<1> QED BY <1>1, <1>2

LEMMA SettingType ==
    ASSUME NEW k \in Keys, NEW v \in Values PROVE Setting(k, v) \in Line
BY DEF Setting, Line

\* A line stays a line when its value is garbled.
LEMMA GarbledType ==
    ASSUME NEW l \in Line PROVE [l EXCEPT !.val = Garbled] \in Line
<1>1. CASE l \in [key : Keys, seen : BOOLEAN, val : Values]
  <2>1. [l EXCEPT !.val = Garbled] \in [key : Keys, seen : BOOLEAN, val : Values]
    BY <1>1 DEF Values
  <2> QED BY <2>1 DEF Line
<1>2. CASE l \in [key : {"other"}, seen : {FALSE}, val : Rest \cup {Header, Garbled}]
  <2>1. [l EXCEPT !.val = Garbled]
           \in [key : {"other"}, seen : {FALSE}, val : Rest \cup {Header, Garbled}]
    BY <1>2
  <2> QED BY <2>1 DEF Line
<1> QED BY <1>1, <1>2 DEF Line

LEMMA AppendedType ==
    ASSUME NEW f \in File, NEW l \in Line PROVE Appended(f, l) \in Seq(Line)
<1>1. f.lines \in Seq(Line)
  BY DEF File
<1>2. CASE f.whole \/ f.lines = <<>>
  BY <1>1, <1>2 DEF Appended
<1>3. CASE ~(f.whole \/ f.lines = <<>>)
  <2>1. Len(f.lines) \in 1 .. Len(f.lines)
    BY <1>1, <1>3
  <2>2. f.lines[Len(f.lines)] \in Line
    BY <1>1, <2>1
  <2>3. [f.lines[Len(f.lines)] EXCEPT !.val = Garbled] \in Line
    BY <2>2, GarbledType
  <2> DEFINE g == [f.lines[Len(f.lines)] EXCEPT !.val = Garbled]
  <2>4. Appended(f, l) = [f.lines EXCEPT ![Len(f.lines)] = g]
    BY <1>3 DEF Appended
  <2> HIDE DEF g
  <2>5. g \in Line
    BY <2>3 DEF g
  <2>6. [f.lines EXCEPT ![Len(f.lines)] = g] \in Seq(Line)
    BY <1>1, <2>5, ReplaceType
  <2> QED BY <2>4, <2>6
<1> QED BY <1>2, <1>3

LEMMA RewrittenType ==
    ASSUME NEW f \in File, NEW k \in Keys, NEW v \in Values
    PROVE  Rewritten(f, k, v) \in File
<1>1. f.lines \in Seq(Line) /\ f.whole \in BOOLEAN
  BY DEF File
<1>2. Setting(k, v) \in Line
  BY SettingType
<1>3. CASE Settings(f.lines, k) = {}
  <2>1. Rewritten(f, k, v) = [lines   |-> Appended(f, Setting(k, v)),
                              whole   |-> TRUE, trusted |-> TRUE]
    BY <1>3 DEF Rewritten, Trusted
  <2> QED BY <1>2, <2>1, AppendedType DEF File
<1>4. CASE Settings(f.lines, k) # {}
  <2> DEFINE n == Min(Settings(f.lines, k))
             ls == [f.lines EXCEPT ![n] = Setting(k, v)]
             w == f.whole \/ n = Len(f.lines)
  <2>1. Rewritten(f, k, v) = [lines |-> ls, whole |-> w, trusted |-> TRUE]
    BY <1>4 DEF Rewritten, Trusted
  <2> HIDE DEF n
  <2>2. ls \in Seq(Line)
    BY <1>1, <1>2, ReplaceType
  <2>3. w \in BOOLEAN
    BY <1>1
  <2> HIDE DEF ls, w
  <2> QED BY <2>1, <2>2, <2>3 DEF File
<1> QED BY <1>3, <1>4

LEMMA FirstFileType == FirstFile \in File
<1>1. [key |-> "other", seen |-> FALSE, val |-> Header] \in Line
  BY DEF Line
<1> QED BY <1>1 DEF FirstFile, File

LEMMA EmptyFileType == EmptyFile \in File
BY DEF EmptyFile, File

LEMMA PrefixType ==
    ASSUME NEW f \in File, NEW n \in 1 .. Len(f.lines)
    PROVE  Prefix(f, n - 1) \in File
<1>1. f.lines \in Seq(Line) /\ Len(f.lines) \in Nat
  BY DEF File
<1> DEFINE ls == SubSeq(f.lines, 1, n - 1)
<1>2. ls \in Seq(Line)
  BY <1>1
<1> HIDE DEF ls
<1>3. [f EXCEPT !.lines = ls, !.whole = TRUE] \in File
  BY <1>2 DEF File
<1> QED BY <1>3 DEF Prefix, ls

\* What is read of a file, all of it or not, is a file.
LEMMA ReadType ==
    ASSUME NEW f \in Whole
    PROVE  Start(f) \in File /\ Parts(f) \subseteq File
<1>1. f # Torn
  BY MarksAssumption DEF Whole
<1>2. CASE f = NoFile
  BY <1>2, FirstFileType DEF Start, Parts, Blank
<1>3. CASE f # NoFile
  <2>1. f \in File /\ ~Blank(f)
    BY <1>1, <1>3 DEF Whole, Blank
  <2>2. \A n \in 1 .. Len(f.lines) : Prefix(f, n - 1) \in File
    BY <2>1, PrefixType
  <2>. QED BY <2>1, <2>2, FirstFileType DEF Start, Parts
<1>. QED BY <1>2, <1>3

-----------------------------------------------------------------------------
(* What config_set() does to the lines.                                    *)

\* The line that was set is at place n of ls, which is the first of the key
\* in old or the one behind its end, and every other line is where it was.
PutAt(n, ls, old, k, v) ==
    /\ n \in 1 .. Len(ls) /\ ls[n] = Setting(k, v)
    /\ \A i \in (1 .. Len(ls)) \ {n} : i \in 1 .. Len(old) /\ ls[i] = old[i]
    /\ IF Settings(old, k) = {}
         THEN n = Len(old) + 1 /\ Len(ls) = n
         ELSE n \in Settings(old, k) /\ Len(ls) = Len(old) /\ n = Min(Settings(old, k))

LEMMA FileIsRead ==
    ASSUME NEW f \in File
    PROVE  /\ ~Blank(f) /\ f \notin {NoFile, Torn}
           /\ f.lines \in Seq(Line) /\ Len(f.lines) \in Nat
           /\ \A i \in 1 .. Len(f.lines) : f.lines[i] \in Line
BY MarksAssumption DEF Blank, File

LEMMA FirstOfKey ==
    ASSUME NEW f \in File, NEW k, Settings(f.lines, k) # {}
    PROVE  /\ Min(Settings(f.lines, k)) \in Settings(f.lines, k)
           /\ Min(Settings(f.lines, k)) \in 1 .. Len(f.lines)
           /\ \A i \in Settings(f.lines, k) : Min(Settings(f.lines, k)) <= i
<1>1. Settings(f.lines, k) \in SUBSET Nat /\ Len(f.lines) \in Nat
  BY FileIsRead DEF Settings
<1>2. Min(Settings(f.lines, k)) \in Settings(f.lines, k)
  BY <1>1, MinIsLeast
<1>3. Min(Settings(f.lines, k)) \in 1 .. Len(f.lines)
  BY <1>2 DEF Settings
<1>. QED BY <1>1, <1>2, <1>3, MinIsLeast

LEMMA RewrittenPuts ==
    ASSUME NEW f \in File, NEW k \in Keys, NEW v \in Values, ~Joins(f, k)
    PROVE  \E n \in Nat : PutAt(n, Rewritten(f, k, v).lines, f.lines, k, v)
<1>. DEFINE new == Setting(k, v)
            ls  == f.lines
<1>1. ls \in Seq(Line) /\ new \in Line /\ Len(ls) \in Nat
  BY SettingType, FileIsRead
<1>2. CASE Settings(ls, k) = {}
  <2>1. f.whole \/ ls = <<>>
    BY <1>2, FileIsRead DEF Joins
  <2>2. Rewritten(f, k, v).lines = Append(ls, new)
    BY <1>2, <2>1 DEF Rewritten, Appended
  <2>. DEFINE n == Len(ls) + 1
  <2>3. /\ Len(Append(ls, new)) = n /\ Append(ls, new)[n] = new
        /\ \A i \in 1 .. Len(ls) : Append(ls, new)[i] = ls[i]
    BY <1>1
  <2>4. n \in Nat /\ n \in 1 .. n /\ \A i \in (1 .. n) \ {n} : i \in 1 .. Len(ls)
    BY <1>1
  <2>. QED BY <1>2, <2>2, <2>3, <2>4 DEF PutAt
<1>3. CASE Settings(ls, k) # {}
  <2>. DEFINE n == Min(Settings(ls, k))
  <2>1. n \in Settings(ls, k) /\ n \in 1 .. Len(ls)
    BY <1>3, FirstOfKey
  <2>2. Rewritten(f, k, v).lines = [ls EXCEPT ![n] = new]
    BY <1>3 DEF Rewritten
  <2>. HIDE DEF n
  <2>3. /\ Len([ls EXCEPT ![n] = new]) = Len(ls)
        /\ [ls EXCEPT ![n] = new][n] = new
        /\ \A i \in (1 .. Len(ls)) \ {n} : [ls EXCEPT ![n] = new][i] = ls[i]
    BY <1>1, <2>1
  <2>. QED BY <1>3, <2>1, <2>2, <2>3 DEF PutAt, n
<1>. QED BY <1>2, <1>3

\* The lines of other keys, and their places, are those of the old file.
LEMMA RewrittenKeeps ==
    ASSUME NEW f \in File, NEW k \in Keys, NEW v \in Values, ~Joins(f, k),
           NEW i \in Nat
    PROVE  LET ls == Rewritten(f, k, v).lines
           IN  /\ i \in 1 .. Len(ls) /\ ls[i].key # k
                    <=> i \in 1 .. Len(f.lines) /\ f.lines[i].key # k
               /\ i \in 1 .. Len(ls) /\ ls[i].key # k => ls[i] = f.lines[i]
<1>. DEFINE ls == Rewritten(f, k, v).lines
<1>1. PICK n \in Nat : PutAt(n, ls, f.lines, k, v)
  BY RewrittenPuts
<1>2. ls[n].key = k
  BY <1>1 DEF PutAt, Setting
<1>3. n \in 1 .. Len(f.lines) => f.lines[n].key = k
  <2>1. CASE Settings(f.lines, k) = {}
    BY <1>1, <2>1, FileIsRead DEF PutAt
  <2>2. CASE Settings(f.lines, k) # {}
    BY <1>1, <2>2 DEF PutAt, Settings, IsSetting
  <2>. QED BY <2>1, <2>2
<1>4. Len(f.lines) \in Nat /\ Len(ls) \in Nat /\ Len(f.lines) <= Len(ls)
  BY <1>1, FileIsRead DEF PutAt
<1>5. CASE i = n
  BY <1>2, <1>3, <1>5
<1>6. CASE i # n
  <2>1. i \in 1 .. Len(ls) => i \in 1 .. Len(f.lines) /\ ls[i] = f.lines[i]
    BY <1>1, <1>6 DEF PutAt
  <2>2. i \in 1 .. Len(f.lines) => i \in 1 .. Len(ls)
    BY <1>4
  <2>. QED BY <2>1, <2>2
<1>. QED BY <1>5, <1>6

LEMMA RewrittenOthers ==
    ASSUME NEW f \in File, NEW k \in Keys, NEW v \in Values, ~Joins(f, k)
    PROVE  Others(Rewritten(f, k, v), k) = Others(f, k)
<1>. DEFINE g      == Rewritten(f, k, v)
            at(h)  == {i \in 1 .. Len(h.lines) : ~IsSetting(h.lines[i], k)}
            rank(i, S) == Cardinality({j \in S : j < i})
<1>1. Len(f.lines) \in Nat /\ Len(g.lines) \in Nat
  BY FileIsRead, RewrittenType
<1>2. at(g) \subseteq Nat /\ at(f) \subseteq Nat
  BY <1>1
<1>3. at(g) = at(f) /\ \A i \in at(g) : g.lines[i] = f.lines[i]
  BY <1>2, RewrittenKeeps DEF IsSetting
<1>4. Others(g, k) = {<<rank(i, at(g)), g.lines[i]>> : i \in at(g)}
  BY DEF Others
<1>5. Others(f, k) = {<<rank(i, at(f)), f.lines[i]>> : i \in at(f)}
  BY DEF Others
<1>. HIDE DEF at, g, rank
<1>6. ASSUME NEW i \in at(f)
      PROVE  <<rank(i, at(g)), g.lines[i]>> = <<rank(i, at(f)), f.lines[i]>>
  BY <1>3
<1>7. {<<rank(i, at(g)), g.lines[i]>> : i \in at(f)}
         = {<<rank(i, at(f)), f.lines[i]>> : i \in at(f)}
  BY <1>6, Zenon
<1>. QED BY <1>3, <1>4, <1>5, <1>7 DEF g

-----------------------------------------------------------------------------
(* What config_load() then finds.                                          *)

LEMMA LookedLast ==
    ASSUME NEW f \in File, NEW j, Looked(f, j) # {}
    PROVE  Max(Looked(f, j)) \in Looked(f, j)
<1>1. Looked(f, j) \in SUBSET Nat /\ \A i \in Looked(f, j) : i <= Len(f.lines)
  BY FileIsRead DEF Looked, Settings
<1>. QED BY <1>1, FileIsRead, MaxIsGreatest

LEMMA LoadedLast ==
    ASSUME NEW f \in File, NEW j
    PROVE  Loaded(f, j) = IF Looked(f, j) = {} THEN Empty
                          ELSE Honoured(j, f.lines[Max(Looked(f, j))].val, f.trusted)
BY FileIsRead DEF Loaded, Looked


\* The other setting is loaded as it would have been from root's file.
LEMMA RewrittenLoads ==
    ASSUME NEW f \in File, NEW k \in Keys, NEW v \in Values, ~Joins(f, k),
           NEW j \in Keys \ {k}, Fits(Rewritten(f, k, v)),
           \A i \in Settings(f.lines, j) : Read(f.lines, i)
    PROVE  Loaded(Rewritten(f, k, v), j) = Loaded([f EXCEPT !.trusted = TRUE], j)
<1>. DEFINE g == Rewritten(f, k, v)
            h == [f EXCEPT !.trusted = TRUE]
<1>1. g \in File /\ g.trusted = TRUE
  BY RewrittenType DEF Rewritten, Trusted, File
<1>2. h \in File /\ h.trusted = TRUE /\ h.lines = f.lines
  BY DEF File
<1>3. \A i \in Nat : i \in 1 .. Len(g.lines) /\ g.lines[i].key = j
                       <=> i \in 1 .. Len(f.lines) /\ f.lines[i].key = j
  BY RewrittenKeeps
<1>4. \A i \in Nat : i \in 1 .. Len(g.lines) /\ g.lines[i].key = j
                       => g.lines[i] = f.lines[i]
  BY RewrittenKeeps
<1>5. Fits(g)
  OBVIOUS
<1>. HIDE DEF g, h
<1>6. Settings(g.lines, j) = Settings(h.lines, j)
  BY <1>1, <1>2, <1>3, FileIsRead DEF Settings, IsSetting
<1>7. \A i \in Settings(g.lines, j) : g.lines[i] = h.lines[i]
  BY <1>1, <1>2, <1>4, FileIsRead DEF Settings, IsSetting
<1>8. \A i \in Settings(g.lines, j) : Read(g.lines, i) /\ Read(h.lines, i)
  <2>1. \A i \in 1 .. Len(g.lines) : Read(g.lines, i)
    BY <1>1, <1>5, FileIsRead DEF Fits
  <2>2. \A i \in Settings(h.lines, j) : Read(h.lines, i)
    BY <1>2
  <2>. QED BY <1>6, <2>1, <2>2 DEF Settings
<1>9. Looked(g, j) = Looked(h, j)
  BY <1>6, <1>7, <1>8 DEF Looked
<1>10. CASE Looked(g, j) = {}
  BY <1>1, <1>2, <1>9, <1>10, LoadedLast DEF g, h
<1>11. CASE Looked(g, j) # {}
  <2>. DEFINE last == Max(Looked(g, j))
  <2>1. last \in Settings(g.lines, j)
    BY <1>1, <1>11, LookedLast DEF Looked
  <2>2. g.lines[last] = h.lines[last] /\ last = Max(Looked(h, j))
    BY <1>7, <1>9, <2>1
  <2>. HIDE DEF last
  <2>3. Loaded(g, j) = Honoured(j, g.lines[last].val, TRUE)
    BY <1>1, <1>11, LoadedLast DEF last
  <2>4. Loaded(h, j) = Honoured(j, h.lines[last].val, TRUE)
    BY <1>2, <1>9, <1>11, <2>2, LoadedLast
  <2>. QED BY <2>2, <2>3, <2>4 DEF g, h
<1>. QED BY <1>10, <1>11

\* What was set is loaded from a file that is read and has no second line.
LEMMA RewrittenIsLoaded ==
    ASSUME NEW f \in File, NEW k \in Keys, NEW v \in Values,
           <<k, v>> \in Arguments, ~Joins(f, k), Once(f, k),
           Fits(Rewritten(f, k, v))
    PROVE  Loaded(Rewritten(f, k, v), k) = v
<1>. DEFINE g == Rewritten(f, k, v)
<1>1. g \in File /\ g.trusted = TRUE /\ Fits(g)
  BY RewrittenType DEF Rewritten, Trusted
<1>2. PICK n \in Nat : PutAt(n, g.lines, f.lines, k, v)
  BY RewrittenPuts
<1>. HIDE DEF g
<1>3. Settings(g.lines, k) = {n}
  <2>1. n \in Settings(g.lines, k)
    BY <1>2 DEF PutAt, Settings, IsSetting, Setting
  <2>2. ASSUME NEW i \in Settings(g.lines, k), i # n PROVE FALSE
    <3>1. i \in Settings(f.lines, k)
      BY <1>2, <2>2 DEF PutAt, Settings, IsSetting
    <3>2. n \in Settings(f.lines, k)
      BY <1>2, <3>1 DEF PutAt
    <3>. QED BY <2>2, <3>1, <3>2, FileIsRead DEF Once
  <2>. QED BY <2>1, <2>2
<1>4. Read(g.lines, n)
  BY <1>1, <1>2, FileIsRead DEF PutAt, Fits
<1>5. g.lines[n].seen /\ g.lines[n].val = v
  BY <1>2 DEF PutAt, Setting
<1>6. Looked(g, k) = {n}
  BY <1>3, <1>4, <1>5 DEF Looked
<1>7. Max(Looked(g, k)) = n
  BY <1>1, <1>6, LookedLast
<1>8. Loaded(g, k) = Honoured(k, v, TRUE)
  BY <1>1, <1>5, <1>6, <1>7, LoadedLast
<1>9. k = "autologin" => v \in Users \cup {Empty}
  BY DEF Arguments
<1>. QED BY <1>8, <1>9 DEF Honoured, g

\* What is left of a file that could not be read to its end has no more
\* lines of a key, and ends with a newline.
LEMMA PartsOnce ==
    ASSUME NEW f \in Whole, NEW p \in Parts(f), NEW k \in Keys, Once(f, k)
    PROVE  Once(p, k) /\ ~Joins(p, k)
<1>1. f \in File /\ ~Blank(f)
  BY DEF Parts, Blank, Whole
<1>2. CASE p = FirstFile
  <2>1. Len(p.lines) = 1 /\ p.lines[1].key = "other" /\ p.whole
    BY <1>2 DEF FirstFile
  <2>2. Settings(p.lines, k) = {}
    BY <2>1 DEF Settings, IsSetting, Keys
  <2>. QED BY <2>1, <2>2 DEF Once, Joins
<1>3. ASSUME NEW n \in 1 .. Len(f.lines), p = Prefix(f, n - 1)
      PROVE  Once(p, k) /\ ~Joins(p, k)
  <2>1. p.lines = SubSeq(f.lines, 1, n - 1) /\ p.whole
    BY <1>1, <1>3 DEF Prefix, File
  <2>2. /\ Len(p.lines) = n - 1
        /\ \A i \in 1 .. n - 1 : p.lines[i] = f.lines[i]
    BY <1>1, <2>1, FileIsRead
  <2>3. Settings(p.lines, k) \subseteq Settings(f.lines, k)
    BY <1>1, <2>2, FileIsRead DEF Settings, IsSetting
  <2>. QED BY <1>1, <2>1, <2>3 DEF Once, Joins
<1>. QED BY <1>1, <1>2, <1>3 DEF Parts

\* The same for all of the file, or the comment that stands for none.
LEMMA StartOnce ==
    ASSUME NEW f \in Whole, NEW k \in Keys
    PROVE  /\ Joins(Start(f), k) => Joins(f, k)
           /\ Once(f, k) => Once(Start(f), k)
           /\ Fits(f) => \A i \in Settings(Start(f).lines, k) :
                            Read(Start(f).lines, i)
<1>1. CASE ~Blank(f)
  BY <1>1 DEF Start, Fits, Settings
<1>2. CASE Blank(f)
  <2>1. /\ Start(f).lines = FirstFile.lines /\ Start(f).whole
        /\ Len(Start(f).lines) = 1 /\ Start(f).lines[1].key = "other"
    BY <1>2 DEF Start, FirstFile
  <2>2. Settings(Start(f).lines, k) = {}
    BY <2>1 DEF Settings, IsSetting, Keys
  <2>. QED BY <1>2, <2>1, <2>2 DEF Once, Joins
<1>. QED BY <1>1, <1>2

-----------------------------------------------------------------------------
(* The inductive invariant.                                                *)

Inv == TypeOK /\ IInv

LEMMA InvInit == ASSUME Init PROVE Inv
<1>1. file \in Whole
  BY FilesAssumption DEF Init, Whole
<1>2. FilesInv
  BY <1>1 DEF Init, FilesInv, Whole
<1>3. TypeOK
  BY <1>1 DEF Init, TypeOK, Contents, Whole, Keys, Values
<1>4. WriteInv
  BY DEF Init, WriteInv, Arguments
<1> QED BY <1>2, <1>3, <1>4 DEF Init, Inv, IInv, StepInv, FailureHonest

\* A step that fails leaves everything as it was before the call.
LEMMA FailStep ==
    ASSUME Inv, Fail, step \in {"create", "copy", "sync", "rename"}
    PROVE  Inv'
<1>1. TypeOK'
  BY DEF Inv, Fail, Discard, TypeOK, Contents, store, call, notes
<1>2. FilesInv'
  BY DEF Inv, IInv, Fail, Discard, FilesInv, Whole, store, call, notes
<1>3. StepInv' /\ FailureHonest'
  BY DEF Inv, IInv, Fail, Discard, StepInv, FailureHonest, store, call, notes
<1>4. WriteInv'
  BY DEF Inv, IInv, Fail, WriteInv, call
<1> QED BY <1>1, <1>2, <1>3, <1>4 DEF Inv, IInv

LEMMA CallStep == ASSUME Inv, Call PROVE Inv'
<1>1. PICK arg \in Arguments : Call!(arg)
  BY DEF Call
<1>2. arg[1] \in Keys /\ arg[2] \in Values
  BY DEF Arguments, Keys, Values
<1>3. key' \in Keys /\ value' \in Values
  BY <1>1, <1>2
<1>4. TypeOK'
  BY <1>1, <1>3 DEF Inv, TypeOK, Contents, store, temp
<1>5. FilesInv'
  BY <1>1 DEF Inv, IInv, FilesInv, Whole, store, temp
<1>6. StepInv' /\ FailureHonest'
  BY <1>1 DEF Inv, IInv, StepInv, FailureHonest, store, temp
<1>7. WriteInv'
  <2>1. <<key', value'>> = arg
    BY <1>1 DEF Arguments
  <2>. QED BY <1>1, <2>1 DEF WriteInv
<1> QED BY <1>4, <1>5, <1>6, <1>7 DEF Inv, IInv

LEMMA CreateStep == ASSUME Inv, Create PROVE Inv'
<1>1. CASE Fail
  BY <1>1, FailStep DEF Create
<1>2. CASE ~Fail
  <2>1. TypeOK'
    BY <1>2, EmptyFileType
    DEF Create, Inv, TypeOK, Contents, store, call, notes
  <2>2. FilesInv'
    BY <1>2, EmptyFileType
    DEF Create, Inv, IInv, FilesInv, Whole, store, call, notes
  <2>3. StepInv' /\ FailureHonest'
    BY <1>2, EmptyFileType
    DEF Create, Inv, IInv, StepInv, FailureHonest, store, call, notes
  <2>4. WriteInv'
    BY <1>2 DEF Create, Inv, IInv, WriteInv, call, notes
  <2> QED BY <2>1, <2>2, <2>3, <2>4 DEF Inv, IInv
<1> QED BY <1>1, <1>2

LEMMA CopyStep == ASSUME Inv, Copy PROVE Inv'
<1>1. CASE Fail
  BY <1>1, FailStep DEF Copy
<1>2. CASE ~Fail
  <2>1. key \in Keys /\ value \in Values /\ file \in Whole
    BY DEF Inv, IInv, TypeOK, FilesInv
  <2>2. \/ tmp' = Rewritten(Start(file), key, value) /\ unread' = unread
        \/ /\ \E p \in Parts(file) : tmp' = Rewritten(p, key, value)
           /\ unread'
    BY <1>2 DEF Copy
  <2>3. tmp' \in File
    BY <2>1, <2>2, ReadType, RewrittenType
  <2>4. /\ step = "copy" /\ step' = "sync" /\ unread' \in BOOLEAN
        /\ UNCHANGED <<store, flushed, call, result, rival, killed>>
    BY <1>2 DEF Copy, Inv, TypeOK
  <2>5. TypeOK'
    BY <2>3, <2>4 DEF Inv, TypeOK, Contents, store, call
  <2>6. FilesInv'
    BY <2>3, <2>4 DEF Inv, IInv, FilesInv, Whole, store, call
  <2>7. StepInv' /\ FailureHonest'
    BY <2>3, <2>4 DEF Inv, IInv, StepInv, FailureHonest, store, call
  <2>8. WriteInv'
    <3>1. ~unread /\ <<key, value>> \in Arguments /\ (~rival => file = before)
      BY <2>4 DEF Inv, IInv, WriteInv, StepInv
    <3>2. ~rival => Wrote(tmp)'
      BY <2>2, <2>4, <3>1 DEF Wrote, call
    <3>. QED BY <2>4, <3>1, <3>2 DEF WriteInv, call
  <2> QED BY <2>5, <2>6, <2>7, <2>8 DEF Inv, IInv
<1> QED BY <1>1, <1>2

LEMMA SyncStep == ASSUME Inv, Sync PROVE Inv'
<1>1. CASE Fail
  BY <1>1, FailStep DEF Sync
<1>2. CASE ~Fail
  <2>1. TypeOK'
    BY <1>2 DEF Sync, Flush, Inv, TypeOK, Contents, store, call, notes
  <2>2. FilesInv'
    BY <1>2 DEF Sync, Inv, IInv, FilesInv, Whole, store, call, notes
  <2>3. StepInv' /\ FailureHonest'
    BY <1>2 DEF Sync, Flush, Inv, IInv, StepInv, FailureHonest, store, call, notes
  <2>4. WriteInv'
    BY <1>2 DEF Sync, Inv, IInv, WriteInv, Wrote, call, notes
  <2> QED BY <2>1, <2>2, <2>3, <2>4 DEF Inv, IInv
<1> QED BY <1>1, <1>2

LEMMA RenameStep == ASSUME Inv, Rename PROVE Inv'
<1>1. CASE Fail
  BY <1>1, FailStep DEF Rename
<1>2. CASE ~Fail
  <2>1. tmp \in File /\ flushed
    BY <1>2 DEF Rename, Inv, IInv, StepInv
  <2>2. TypeOK'
    BY <1>2, <2>1 DEF Rename, Inv, TypeOK, Contents, call, notes
  <2>3. FilesInv'
    BY <1>2, <2>1 DEF Rename, Inv, IInv, FilesInv, Whole, call, notes
  <2>4. StepInv' /\ FailureHonest'
    BY <1>2 DEF Rename, Inv, IInv, StepInv, FailureHonest, call, notes
  <2>5. WriteInv'
    BY <1>2 DEF Rename, Inv, IInv, WriteInv, Wrote, call, notes
  <2> QED BY <2>2, <2>3, <2>4, <2>5 DEF Inv, IInv
<1> QED BY <1>1, <1>2

LEMMA DirSyncStep == ASSUME Inv, DirSync PROVE Inv'
<1>1. /\ step = "dirsync" /\ step' = "idle" /\ result' = "ok"
      /\ disk' \in {file, disk}
      /\ UNCHANGED <<file, synced, temp, call, notes>>
  BY DEF DirSync, Returned
<1>2. TypeOK'
  BY <1>1 DEF Inv, TypeOK, Contents, temp, call, notes
<1>3. FilesInv'
  BY <1>1 DEF Inv, IInv, FilesInv, Whole, temp, call, notes
<1>4. StepInv' /\ FailureHonest'
  BY <1>1 DEF Inv, IInv, StepInv, FailureHonest, temp, call, notes
<1>5. WriteInv'
  BY <1>1 DEF Inv, IInv, WriteInv, Wrote, call, notes
<1> QED BY <1>2, <1>3, <1>4, <1>5 DEF Inv, IInv

LEMMA EditStep == ASSUME Inv, Edit PROVE Inv'
<1>1. PICK f \in Files : Edit!(f)
  BY DEF Edit
<1>2. f \in Whole
  BY FilesAssumption DEF Whole
<1>3. TypeOK'
  BY <1>1, <1>2 DEF Inv, TypeOK, Contents, Whole, temp, call
<1>4. FilesInv'
  BY <1>1, <1>2 DEF Inv, IInv, FilesInv, Whole, temp, call
<1>5. StepInv' /\ FailureHonest'
  BY <1>1 DEF Inv, IInv, StepInv, FailureHonest, temp, call
<1>6. WriteInv'
  BY <1>1 DEF Inv, IInv, WriteInv, call
<1> QED BY <1>3, <1>4, <1>5, <1>6 DEF Inv, IInv

\* However the process ends, what the path names is one of two whole files.
LEMMA DeathStep == ASSUME Inv, Kill \/ PowerCut PROVE Inv'
<1>1. file' \in {file, disk} /\ disk' \in {file, disk} /\ synced'
  BY DEF Kill, PowerCut, store, Inv, IInv, FilesInv
<1>2. Dies
  BY DEF Kill, PowerCut
<1>3. TypeOK'
  BY <1>1, <1>2 DEF Dies, Inv, TypeOK, Contents, IInv, FilesInv, Whole, temp
<1>4. FilesInv'
  BY <1>1, <1>2 DEF Dies, Inv, IInv, FilesInv, Whole, temp
<1>5. StepInv' /\ FailureHonest'
  BY <1>2 DEF Dies, Inv, IInv, StepInv, FailureHonest, temp
<1>6. WriteInv'
  BY <1>2 DEF Dies, Inv, IInv, WriteInv
<1> QED BY <1>3, <1>4, <1>5, <1>6 DEF Inv, IInv

LEMMA InvStep == ASSUME Inv, [Next]_vars PROVE Inv'
<1>1. CASE UNCHANGED vars
  BY <1>1 DEF vars, store, temp, call, notes, Inv, TypeOK, Contents, IInv, FilesInv,
              Whole, StepInv, FailureHonest, WriteInv, Wrote
<1> QED
  BY <1>1, CallStep, CreateStep, CopyStep, SyncStep, RenameStep, DirSyncStep,
     EditStep, DeathStep
  DEF Next, Set

\* Types, and what is known at each call of config_set().
THEOREM Invariance == Spec => []Inv
<1>1. Init => Inv
  BY InvInit
<1>2. Inv /\ [Next]_vars => Inv'
  BY InvStep
<1> QED BY <1>1, <1>2, PTL DEF Spec

\* Whatever config_set() writes is a file of lines.
THEOREM TypeCorrect == Spec => []TypeOK
<1>1. Inv => TypeOK
  BY DEF Inv
<1> QED BY <1>1, Invariance, PTL

\* No kill and no power cut leaves part of a file, whatever fails before.
THEOREM Atomic == Spec => []NeverTorn
<1>1. Inv => NeverTorn
  BY MarksAssumption DEF Inv, IInv, FilesInv, Whole, NeverTorn
<1> QED BY <1>1, Invariance, PTL

\* config_set() says that it failed only if the file is what it was.
THEOREM FailuresAreHonest == Spec => []FailureHonest
<1>1. Inv => FailureHonest
  BY DEF Inv, IInv
<1> QED BY <1>1, Invariance, PTL

\* On every path on which it goes on living, it removes its temporary file.
THEOREM CleansUp == Spec => []NoLitter
<1>1. Inv => NoLitter
  BY DEF Inv, IInv, StepInv, NoLitter
<1> QED BY <1>1, Invariance, PTL

\* What was set is what the next start of the program loads, also if the old
\* file was not root's or could only be read in part; the premises are that it
\* had the key at most once and no line without a newline to join, and that
\* the new file is short enough to be read.
THEOREM WhatIsSetIsLoaded == Spec => []SetIsLoaded
<1>1. ASSUME Inv, Succeeded, Once(before, key), ~Joins(before, key), Fits(file)
      PROVE  Loaded(file, key) = value
  <2>1. /\ before \in Whole /\ key \in Keys /\ value \in Values
        /\ <<key, value>> \in Arguments /\ Wrote(file)
    BY <1>1 DEF Inv, IInv, FilesInv, TypeOK, WriteInv, Succeeded
  <2>2. CASE unread
    <3>1. PICK p \in Parts(before) : file = Rewritten(p, key, value)
      BY <2>1, <2>2 DEF Wrote
    <3>2. p \in File
      BY <2>1, ReadType
    <3>3. Once(p, key) /\ ~Joins(p, key)
      BY <1>1, <2>1, PartsOnce
    <3>. QED BY <1>1, <2>1, <3>1, <3>2, <3>3, RewrittenIsLoaded
  <2>3. CASE ~unread
    <3>1. file = Rewritten(Start(before), key, value)
      BY <2>1, <2>3 DEF Wrote
    <3>2. /\ Once(Start(before), key) /\ ~Joins(Start(before), key)
          /\ Start(before) \in File
      BY <1>1, <2>1, StartOnce, ReadType
    <3>. QED BY <1>1, <2>1, <3>1, <3>2, RewrittenIsLoaded
  <2>. QED BY <2>2, <2>3
<1>2. Inv => SetIsLoaded
  BY <1>1 DEF SetIsLoaded
<1>. QED BY <1>2, Invariance, PTL

\* After a call that could read all of the file, and had no line without a
\* newline to add one to, every line that is not the key's is there, in its
\* order; and if old and new are short enough to be read, the other setting is
\* loaded as it would have been had the old file been root's.
THEOREM OthersAreKept == Spec => []OthersKept
<1>1. ASSUME Inv, Succeeded, ~unread, ~Joins(before, key)
      PROVE  /\ Others(file, key) = Others(Start(before), key)
             /\ Fits(before) /\ Fits(file) => \A k \in Keys \ {key} :
                   Loaded(file, k) = Loaded([Start(before) EXCEPT !.trusted = TRUE], k)
  <2>1. /\ before \in Whole /\ key \in Keys /\ value \in Values /\ Wrote(file)
    BY <1>1 DEF Inv, IInv, FilesInv, TypeOK, WriteInv, Succeeded
  <2>2. file = Rewritten(Start(before), key, value)
    BY <1>1, <2>1 DEF Wrote
  <2>3. Start(before) \in File /\ ~Joins(Start(before), key)
    BY <1>1, <2>1, ReadType, StartOnce
  <2>4. ASSUME NEW k \in Keys \ {key}, Fits(before), Fits(file)
        PROVE  Loaded(file, k) = Loaded([Start(before) EXCEPT !.trusted = TRUE], k)
    <3>1. \A i \in Settings(Start(before).lines, k) : Read(Start(before).lines, i)
      BY <2>1, <2>4, StartOnce
    <3>. QED BY <2>1, <2>2, <2>3, <2>4, <3>1, RewrittenLoads
  <2>. QED BY <2>1, <2>2, <2>3, <2>4, RewrittenOthers
<1>2. Inv => OthersKept
  BY <1>1 DEF OthersKept
<1>. QED BY <1>2, Invariance, PTL
=============================================================================
