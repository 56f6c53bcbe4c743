-------------------------- MODULE GitOutputProofs --------------------------
(***************************************************************************)
(* The parsers read every output of every length as it was printed, for    *)
(* all sets of paths, also those that hold each other's lines.             *)
(***************************************************************************)
EXTENDS GitOutputProps, SequenceTheorems, TLAPS

-----------------------------------------------------------------------------
(* The inductive invariant.                                                *)

StatusTexts == {" ", "R", "?"} \X {" ", "M", "R", "?"} \X Paths
LetterTexts == {<<l>> : l \in {"M", "R"}}
NumstatTexts == (Numerals \cup {"-"}) \X (Numerals \cup {"-"}) \X (Paths \cup {Empty})
Texts == Paths \cup StatusTexts \cup LetterTexts \cup NumstatTexts

Totals == [files : Nat, binary : Nat, ins : Nat, del : Nat]

TypeOK ==
    /\ listing \in {"status", "nameStatus", "numstat"}
    /\ pc \in {"git", "parse", "sum", "done", "failed"}
    /\ records \in Seq(Reported(listing)) /\ fields \in Seq(Texts)
    /\ i \in Nat \ {0} /\ lost \in Nat /\ totals \in Totals
    /\ entries \in Seq({Wanted(listing, c) : c \in Reported(listing)})
    /\ names \in Seq({Wanted("nameStatus", c) : c \in Changes})
    /\ ends \in Seq(Nat) /\ tally \in Seq(Totals)

LastEnd == IF ends = <<>> THEN 0 ELSE ends[Len(ends)]

\* Where record j begins.
Start(j) == IF j = 1 THEN 1 ELSE ends[j - 1] + 1

\* Record j lies where the history says, as far as it has not been cut off.
LiesAt(j) ==
    /\ ends[j] = Start(j) + Len(Printed(listing, records[j])) - 1 /\ ends[j] <= LastEnd
    /\ \A k \in 1 .. Len(Printed(listing, records[j])) :
        Start(j) + k - 1 <= Len(fields) =>
            fields[Start(j) + k - 1] = Printed(listing, records[j])[k]

Layout ==
    /\ Len(ends) <= Len(records)
    /\ \A j \in 1 .. Len(ends) : LiesAt(j)
    /\ Len(fields) <= LastEnd
    /\ listing # "numstat" => Len(ends) = Len(records)
    /\ Whole => Len(fields) = LastEnd /\ (pc # "git" => Len(ends) = Len(records))

\* The parser stands at the beginning of a record, and has read those before it.
Parsed ==
    /\ Begins(entries, listing) /\ Begins(names, "nameStatus")
    /\ pc = "git" => entries = <<>> /\ i = 1
    /\ pc = "parse" => Len(entries) <= Len(ends) /\ i = Start(Len(entries) + 1)
    /\ Whole => pc # "failed"
    /\ Whole /\ pc \in {"sum", "done"} => Len(entries) = Len(records)
    /\ IF listing = "numstat" THEN Whole => Len(names) = Len(records) ELSE names = <<>>

Upto(j) == IF j = 0 THEN NoTotals ELSE tally[j]

\* The totals are those of the entries passed.
Added ==
    /\ listing # "status" =>
        /\ Len(tally) = Len(records)
        /\ \A j \in 1 .. Len(records) : tally[j] = Plus(Upto(j - 1), Counted(records[j]))
    /\ pc = "sum" => listing = "numstat" /\ i <= Len(entries) + 1
                     /\ totals = [Upto(i - 1) EXCEPT !.files = Len(entries)]
    /\ pc = "done" /\ listing # "status" =>
        listing = "numstat" /\ totals = [Upto(Len(entries)) EXCEPT !.files = Len(entries)]
    /\ pc \notin {"sum", "done"} => totals = NoTotals

Inv == TypeOK /\ Layout /\ Parsed /\ Added

-----------------------------------------------------------------------------
(* One round of each parser, over one record of git.                       *)

LEMMA PorcelainRound ==
    ASSUME NEW f, NEW k \in Nat, Len(f) \in Nat, NEW c \in StatusEntries,
           f[k] = <<c.x, c.y, c.path>>,
           c.old # Empty /\ k + 1 <= Len(f) => f[k + 1] = c.old
    PROVE  parsePorcelainZ(f, k) =
               IF c.old = Empty THEN Gives(1, c)
               ELSE IF k + 1 > Len(f) THEN Malformed ELSE Gives(2, c)
<1>1. /\ f[k] # Empty /\ Len(f[k]) = 3
      /\ f[k][1] = c.x /\ f[k][2] = c.y /\ f[k][3] = c.path
  BY DEF Empty
<1>2. c.old # Empty <=> {c.x, c.y} \cap Renames # {}
  BY DEF StatusEntries
<1>3. c = [x |-> c.x, y |-> c.y, path |-> c.path, old |-> c.old]
  BY DEF StatusEntries
<1>4. CASE c.old = Empty
  <2>1. parsePorcelainZ(f, k) = Gives(1, [x |-> c.x, y |-> c.y, path |-> c.path, old |-> Empty])
    BY <1>1, <1>2, <1>4 DEF parsePorcelainZ
  <2> QED BY <2>1, <1>3, <1>4
<1>5. CASE c.old # Empty
  BY <1>1, <1>2, <1>3, <1>5 DEF parsePorcelainZ
<1> QED BY <1>4, <1>5

LEMMA NameStatusRound ==
    ASSUME NEW f, NEW k \in Nat, Len(f) \in Nat, NEW c \in Changes,
           f[k] = <<c.letter>>,
           c.old = Empty /\ k + 1 <= Len(f) => f[k + 1] = c.path,
           c.old # Empty /\ k + 2 <= Len(f) => f[k + 1] = c.old /\ f[k + 2] = c.path
    PROVE  ParseNameStatusZ(f, k) =
               IF c.old = Empty
               THEN IF k + 1 > Len(f) THEN Malformed ELSE Gives(2, Wanted("nameStatus", c))
               ELSE IF k + 2 > Len(f) THEN Malformed ELSE Gives(3, Wanted("nameStatus", c))
<1>1. f[k] # Empty /\ f[k][1] = c.letter
  BY DEF Empty
<1>2. c.old # Empty <=> c.letter \in Renames
  BY DEF Changes
<1>3. Wanted("nameStatus", c) = [letter |-> c.letter, path |-> c.path, old |-> c.old]
  BY DEF Wanted
<1>4. CASE c.old = Empty
  BY <1>1, <1>2, <1>3, <1>4 DEF ParseNameStatusZ
<1>5. CASE c.old # Empty
  BY <1>1, <1>2, <1>3, <1>5 DEF ParseNameStatusZ
<1> QED BY <1>4, <1>5

LEMMA NumstatRound ==
    ASSUME NEW f, NEW k \in Nat, Len(f) \in Nat, NEW c \in Changes,
           f[k] = <<c.ins, c.del, IF c.old = Empty THEN c.path ELSE Empty>>,
           c.old # Empty /\ k + 2 <= Len(f) => f[k + 1] = c.old /\ f[k + 2] = c.path
    PROVE  ParseNumstatZ(f, k) =
               IF c.old = Empty THEN Gives(1, Wanted("numstat", c))
               ELSE IF k + 2 > Len(f) THEN Malformed ELSE Gives(3, Wanted("numstat", c))
<1>1. /\ f[k] # Empty /\ Len(f[k]) = 3 /\ f[k][1] = c.ins /\ f[k][2] = c.del
      /\ f[k][3] = IF c.old = Empty THEN c.path ELSE Empty
  BY DEF Empty
<1>2. {c.ins, c.del} \subseteq Numerals \/ {c.ins, c.del} = {"-"}
  BY GitOutputAssumption DEF Changes
<1>3. c.path # Empty
  BY GitOutputAssumption DEF Changes
<1> DEFINE n == ParsedCounts(f[k][1], f[k][2])
           e(path, old) == [binary |-> n.binary, ins |-> n.ins, del |-> n.del,
                            path |-> path, old |-> old]
<1>4. Counted(c) = n
  BY <1>1 DEF Counted, ParsedCounts, Changes
<1>5. Wanted("numstat", c) = e(c.path, c.old)
  BY <1>4 DEF Wanted
<1>6. ParseNumstatZ(f, k) =
          IF f[k][3] # Empty THEN Gives(1, e(f[k][3], Empty))
          ELSE IF k + 2 > Len(f) THEN Malformed
          ELSE Gives(3, e(f[k + 2], f[k + 1]))
  <2>1. f[k] # Empty /\ ~(Len(f[k]) < 3)
    BY <1>1
  <2>2. ~~({f[k][1], f[k][2]} \subseteq Numerals \/ {f[k][1], f[k][2]} = {"-"})
    BY <1>1, <1>2
  <2> QED BY <2>1, <2>2, Zenon DEF ParseNumstatZ
<1> HIDE DEF e, n
<1>7. CASE c.old = Empty
  BY <1>1, <1>3, <1>5, <1>6, <1>7
<1>8. CASE c.old # Empty
  BY <1>1, <1>5, <1>6, <1>8
<1> QED BY <1>7, <1>8

LEMMA ShortSequences ==
    ASSUME NEW S, NEW a \in S
    PROVE  /\ <<a>> \in Seq(S) /\ Len(<<a>>) = 1
           /\ \A b \in S : <<a, b>> \in Seq(S) /\ Len(<<a, b>>) = 2
           /\ \A b, d \in S : <<a, b, d>> \in Seq(S) /\ Len(<<a, b, d>>) = 3
  OBVIOUS

LEMMA PrintedShape ==
    ASSUME NEW l \in {"status", "nameStatus", "numstat"}, NEW c \in Reported(l)
    PROVE  /\ Printed(l, c) \in Seq(Texts)
           /\ Len(Printed(l, c)) \in {1, 2, 3}
<1>1. CASE l = "status"
  <2>1. /\ <<c.x, c.y, c.path>> \in Texts
        /\ c.old # Empty => c.old \in Texts
    <3>1. c.x \in {" ", "R", "?"} /\ c.y \in {" ", "M", "R", "?"} /\ c.path \in Paths
          /\ (c.old # Empty => c.old \in Paths)
      BY <1>1 DEF Reported, StatusEntries
    <3>2. <<c.x, c.y, c.path>> \in StatusTexts
      BY <3>1 DEF StatusTexts
    <3> QED BY <3>1, <3>2 DEF Texts
  <2>2. Printed(l, c) = IF c.old = Empty THEN <<<<c.x, c.y, c.path>>>>
                        ELSE <<<<c.x, c.y, c.path>>, c.old>>
    BY <1>1 DEF Printed
  <2>8. CASE c.old = Empty
    BY <2>1, <2>2, <2>8, ShortSequences, Zenon
  <2>9. CASE c.old # Empty
    BY <2>1, <2>2, <2>9, ShortSequences, Zenon
  <2> QED BY <2>8, <2>9, Zenon
<1>2. CASE l = "nameStatus"
  <2>1. c \in Changes
    BY <1>2 DEF Reported
  <2>2. c.letter \in {"M", "R"} /\ c.path \in Paths /\ (c.old # Empty => c.old \in Paths)
    BY <2>1 DEF Changes
  <2>3. /\ <<c.letter>> \in Texts /\ c.path \in Texts
        /\ c.old # Empty => c.old \in Texts
    <3>1. <<c.letter>> \in LetterTexts
      BY <2>2, Zenon DEF LetterTexts
    <3> QED BY <2>2, <3>1 DEF Texts
  <2>4. Printed(l, c) = IF c.old = Empty THEN <<<<c.letter>>, c.path>>
                        ELSE <<<<c.letter>>, c.old, c.path>>
    BY <1>2 DEF Printed
  <2>8. CASE c.old = Empty
    BY <2>3, <2>4, <2>8, ShortSequences, Zenon
  <2>9. CASE c.old # Empty
    BY <2>3, <2>4, <2>9, ShortSequences, Zenon
  <2> QED BY <2>8, <2>9, Zenon
<1>3. CASE l = "numstat"
  <2>1. c \in Changes
    BY <1>3 DEF Reported
  <2>2. /\ c.ins \in Numerals \cup {"-"} /\ c.del \in Numerals \cup {"-"}
        /\ c.path \in Paths /\ (c.old # Empty => c.old \in Paths)
    BY <2>1 DEF Changes
  <2>3. /\ <<c.ins, c.del, c.path>> \in Texts /\ <<c.ins, c.del, Empty>> \in Texts
        /\ c.path \in Texts
        /\ c.old # Empty => c.old \in Texts
    <3>1. <<c.ins, c.del, c.path>> \in NumstatTexts /\ <<c.ins, c.del, Empty>> \in NumstatTexts
      BY <2>2 DEF NumstatTexts
    <3> QED BY <2>2, <3>1 DEF Texts
  <2>4. Printed(l, c) = IF c.old = Empty THEN <<<<c.ins, c.del, c.path>>>>
                        ELSE <<<<c.ins, c.del, Empty>>, c.old, c.path>>
    BY <1>3 DEF Printed
  <2>8. CASE c.old = Empty
    BY <2>3, <2>4, <2>8, ShortSequences, Zenon
  <2>9. CASE c.old # Empty
    BY <2>3, <2>4, <2>9, ShortSequences, Zenon
  <2> QED BY <2>8, <2>9, Zenon
<1> QED BY <1>1, <1>2, <1>3, Zenon

LEMMA CountedTotals ==
    ASSUME NEW c \in Changes, NEW t \in Totals
    PROVE  /\ Counted(c) \in [binary : BOOLEAN, ins : Nat, del : Nat]
           /\ Plus(t, Counted(c)) \in Totals
           /\ Plus(t, Wanted("numstat", c)) = Plus(t, Counted(c))
           /\ Tallied(t, c) = Plus(t, Counted(c))
           /\ \A n \in Nat : Plus([t EXCEPT !.files = n], Counted(c))
                                 = [Plus(t, Counted(c)) EXCEPT !.files = n]
<1>1. /\ c.ins # "-" => Number[c.ins] \in Nat
      /\ c.del # "-" => Number[c.del] \in Nat
  BY GitOutputAssumption DEF Changes
<1>2. Counted(c) \in [binary : BOOLEAN, ins : Nat, del : Nat]
  BY <1>1 DEF Counted
<1> DEFINE e == Counted(c)
<1> HIDE DEF e
<1>3. e \in [binary : BOOLEAN, ins : Nat, del : Nat]
  BY <1>2 DEF e
<1>4. Plus(t, e) = [files |-> t.files, binary |-> IF e.binary THEN t.binary + 1 ELSE t.binary,
                    ins |-> IF e.binary THEN t.ins ELSE t.ins + e.ins,
                    del |-> IF e.binary THEN t.del ELSE t.del + e.del]
  BY <1>3 DEF Plus, Totals
<1>5. Plus(t, e) \in Totals
  BY <1>3, <1>4 DEF Totals
<1>6. Plus(t, Wanted("numstat", c)) = Plus(t, e)
  BY DEF Plus, Wanted, e
<1>7. ASSUME NEW n \in Nat
      PROVE  Plus([t EXCEPT !.files = n], e) = [Plus(t, e) EXCEPT !.files = n]
  <2> DEFINE u == [files |-> n, binary |-> t.binary, ins |-> t.ins, del |-> t.del]
  <2>1. [t EXCEPT !.files = n] = u
    BY DEF Totals
  <2>2. Plus(u, e) = [files |-> n, binary |-> IF e.binary THEN t.binary + 1 ELSE t.binary,
                      ins |-> IF e.binary THEN t.ins ELSE t.ins + e.ins,
                      del |-> IF e.binary THEN t.del ELSE t.del + e.del]
    BY <1>3 DEF Plus, Totals
  <2> HIDE DEF u
  <2>3. [Plus(t, e) EXCEPT !.files = n]
            = [files |-> n, binary |-> IF e.binary THEN t.binary + 1 ELSE t.binary,
               ins |-> IF e.binary THEN t.ins ELSE t.ins + e.ins,
               del |-> IF e.binary THEN t.del ELSE t.del + e.del]
    BY <1>4
  <2> QED BY <2>1, <2>2, <2>3
<1>8. Tallied(t, c) = Plus(t, e)
  <2>1. e.binary = (c.ins = "-") /\ (e.binary => e.ins = 0 /\ e.del = 0)
    BY DEF e, Counted, Changes
  <2>2. Tallied(t, c) = [files |-> t.files,
                         binary |-> t.binary + IF c.ins = "-" THEN 1 ELSE 0,
                         ins |-> t.ins + e.ins, del |-> t.del + e.del]
    BY DEF Tallied, e
  <2>3. t.binary \in Nat /\ t.ins \in Nat /\ t.del \in Nat
    BY DEF Totals
  <2>4. CASE e.binary
    <3>1. c.ins = "-" /\ e.ins = 0 /\ e.del = 0
      BY <2>1, <2>4
    <3>2. Plus(t, e) = [files |-> t.files, binary |-> t.binary + 1, ins |-> t.ins, del |-> t.del]
      BY <1>4, <2>4
    <3> QED BY <2>2, <2>3, <3>1, <3>2
  <2>5. CASE ~e.binary
    <3>1. c.ins # "-"
      BY <2>1, <2>5
    <3>2. Plus(t, e) = [files |-> t.files, binary |-> t.binary,
                        ins |-> t.ins + e.ins, del |-> t.del + e.del]
      BY <1>4, <2>5
    <3> QED BY <2>2, <2>3, <3>1, <3>2
  <2> QED BY <2>4, <2>5
<1> QED BY <1>2, <1>5, <1>6, <1>7, <1>8 DEF e

-----------------------------------------------------------------------------
(* A round reads one record, and notices when it is cut short.             *)

LEMMA RoundReads ==
    ASSUME TypeOK, Layout, NEW j \in 1 .. Len(ends), i = Start(j), i <= Len(fields)
    PROVE  /\ ends[j] \in Nat /\ ends[j] >= i
           /\ ends[j] <= Len(fields) =>
                Round = Gives(ends[j] + 1 - i, Wanted(listing, records[j]))
           /\ ends[j] > Len(fields) => Round = Malformed
<1> DEFINE c == records[j]
           p == Printed(listing, c)
<1>1. c \in Reported(listing) /\ listing \in {"status", "nameStatus", "numstat"}
  BY DEF TypeOK, Layout
<1>2. i \in Nat /\ Len(fields) \in Nat /\ ends[j] \in Nat
  BY DEF TypeOK
<1>3. Len(p) \in {1, 2, 3}
  BY <1>1, PrintedShape
<1>4. ends[j] = i + Len(p) - 1
  BY DEF Layout, LiesAt
<1>5. \A k \in 1 .. Len(p) : i + k - 1 <= Len(fields) => fields[i + k - 1] = p[k]
  BY DEF Layout, LiesAt
<1> HIDE DEF p, c
<1>6. fields[i] = p[1]
  BY <1>2, <1>3, <1>5, i + 1 - 1 = i
<1>7. /\ Len(p) >= 2 /\ i + 1 <= Len(fields) => fields[i + 1] = p[2]
      /\ Len(p) >= 3 /\ i + 2 <= Len(fields) => fields[i + 2] = p[3]
  BY <1>2, <1>3, <1>5, i + 2 - 1 = i + 1, i + 3 - 1 = i + 2
<1>8. /\ ends[j] <= Len(fields) => Round = Gives(Len(p), Wanted(listing, c))
      /\ ends[j] > Len(fields) => Round = Malformed
  <2>1. CASE listing = "status"
    <3>1. p = IF c.old = Empty THEN <<<<c.x, c.y, c.path>>>>
              ELSE <<<<c.x, c.y, c.path>>, c.old>>
      BY <2>1 DEF p, Printed
    <3>2. c \in StatusEntries /\ Wanted(listing, c) = c /\ Round = parsePorcelainZ(fields, i)
      BY <1>1, <2>1 DEF Reported, Wanted, Round
    <3>3. Round = IF c.old = Empty THEN Gives(1, c)
                  ELSE IF i + 1 > Len(fields) THEN Malformed ELSE Gives(2, c)
      BY <1>2, <1>6, <1>7, <3>1, <3>2, PorcelainRound
    <3> QED BY <1>2, <1>4, <3>1, <3>2, <3>3
  <2>2. CASE listing = "nameStatus"
    <3>1. p = IF c.old = Empty THEN <<<<c.letter>>, c.path>>
              ELSE <<<<c.letter>>, c.old, c.path>>
      BY <2>2 DEF p, Printed
    <3>2. c \in Changes /\ Round = ParseNameStatusZ(fields, i)
      BY <1>1, <2>2 DEF Reported, Round
    <3>3. Round = IF c.old = Empty
               THEN IF i + 1 > Len(fields) THEN Malformed ELSE Gives(2, Wanted("nameStatus", c))
               ELSE IF i + 2 > Len(fields) THEN Malformed ELSE Gives(3, Wanted("nameStatus", c))
      BY <1>2, <1>6, <1>7, <3>1, <3>2, NameStatusRound
    <3> QED BY <1>2, <1>4, <2>2, <3>1, <3>3
  <2>3. CASE listing = "numstat"
    <3>1. p = IF c.old = Empty THEN <<<<c.ins, c.del, c.path>>>>
              ELSE <<<<c.ins, c.del, Empty>>, c.old, c.path>>
      BY <2>3 DEF p, Printed
    <3>2. c \in Changes /\ Round = ParseNumstatZ(fields, i)
      BY <1>1, <2>3 DEF Reported, Round
    <3>3. Round = IF c.old = Empty THEN Gives(1, Wanted("numstat", c))
               ELSE IF i + 2 > Len(fields) THEN Malformed ELSE Gives(3, Wanted("numstat", c))
      BY <1>2, <1>6, <1>7, <3>1, <3>2, NumstatRound
    <3> QED BY <1>2, <1>4, <2>3, <3>1, <3>3
  <2> QED BY <1>1, <2>1, <2>2, <2>3
<1>9. \A a, b \in Nat, n \in {1, 2, 3} : b = a + n - 1 => n = b + 1 - a /\ b >= a
  OBVIOUS
<1>10. Len(p) = ends[j] + 1 - i /\ ends[j] >= i
  BY <1>2, <1>3, <1>4, <1>9, Zenon
<1> QED BY <1>2, <1>8, <1>10 DEF c

LEMMA Ends ==
    ASSUME TypeOK, Layout
    PROVE  /\ LastEnd \in Nat /\ Start(Len(ends) + 1) = LastEnd + 1
           /\ \A j \in 1 .. Len(ends) + 1 : Start(j) \in Nat \ {0}
           /\ \A j \in 1 .. Len(ends) : Start(j) <= LastEnd
<1>1. ends \in Seq(Nat) /\ Len(ends) \in Nat
  BY DEF TypeOK
<1>2. LastEnd \in Nat /\ Start(Len(ends) + 1) = LastEnd + 1
  BY <1>1 DEF LastEnd, Start
<1>3. \A j \in 1 .. Len(ends) + 1 : Start(j) \in Nat \ {0}
  BY <1>1 DEF Start
<1>4. ASSUME NEW j \in 1 .. Len(ends)
      PROVE  Start(j) <= LastEnd
  <2>1. /\ ends[j] = Start(j) + Len(Printed(listing, records[j])) - 1
        /\ ends[j] <= LastEnd /\ ends[j] \in Nat
    BY <1>1 DEF Layout, LiesAt
  <2>2. records[j] \in Reported(listing) /\ listing \in {"status", "nameStatus", "numstat"}
    BY DEF TypeOK, Layout
  <2>3. Len(Printed(listing, records[j])) \in {1, 2, 3}
    BY <2>2, PrintedShape
  <2>4. \A a, b, d \in Nat, n \in {1, 2, 3} : b = a + n - 1 /\ b <= d => a <= d
    OBVIOUS
  <2>5. Start(j) \in Nat
    BY <1>3, <1>1
  <2> QED BY <1>2, <2>1, <2>3, <2>4, <2>5, Zenon
<1> QED BY <1>2, <1>3, <1>4

-----------------------------------------------------------------------------
(* Git prints.                                                             *)

LEMMA PrintStep ==
    ASSUME Inv, NEW c \in Reported(listing), PrintRecord(c),
           records' \in Seq(Reported(listing)),
           Len(ends) + 1 <= Len(records'), listing # "numstat" => Len(ends) + 1 = Len(records'),
           records'[Len(ends) + 1] = c,
           \A k \in 1 .. Len(ends) : records'[k] = records[k]
    PROVE  fields' \in Seq(Texts) /\ ends' \in Seq(Nat) /\ Layout'
<1> DEFINE p == Printed(listing, c)
           n == Len(ends)
<1>1. /\ fields \in Seq(Texts) /\ Len(fields) \in Nat /\ n \in Nat /\ ends \in Seq(Nat)
      /\ listing \in {"status", "nameStatus", "numstat"}
  BY DEF Inv, TypeOK
<1>2. p \in Seq(Texts) /\ Len(p) \in {1, 2, 3}
  BY <1>1, PrintedShape
<1>3. /\ pc = "git" /\ Len(fields) = LastEnd /\ UNCHANGED <<listing, pc, lost>>
      /\ fields' = fields \o p /\ ends' = Append(ends, Len(fields'))
  BY DEF PrintRecord, Uncut, LastEnd
<1>4. LastEnd \in Nat /\ Start(n + 1) = LastEnd + 1
  BY Ends DEF Inv
<1> HIDE DEF p
<1>5. /\ fields' \in Seq(Texts) /\ Len(fields') = Len(fields) + Len(p)
      /\ \A k \in 1 .. Len(fields) : fields'[k] = fields[k]
      /\ \A k \in 1 .. Len(p) : fields'[Len(fields) + k] = p[k]
  <2>1. \A k \in 1 .. Len(p) : Len(fields) + k \in 1 .. Len(fields) + Len(p)
                              /\ Len(fields) + k > Len(fields)
                              /\ Len(fields) + k - Len(fields) = k
    BY <1>1, <1>2
  <2>2. \A k \in 1 .. Len(fields) : k \in 1 .. Len(fields) + Len(p)
    BY <1>1, <1>2
  <2>3. Len(fields \o p) = Len(fields) + Len(p) /\ fields \o p \in Seq(Texts)
    BY <1>1, <1>2, ConcatProperties
  <2>4. \A k \in 1 .. Len(fields) + Len(p) :
            (fields \o p)[k] = IF k <= Len(fields) THEN fields[k] ELSE p[k - Len(fields)]
    BY <1>1, <1>2, ConcatProperties
  <2>5. \A k \in 1 .. Len(fields) : fields'[k] = fields[k]
    BY <1>1, <1>3, <2>2, <2>4
  <2>6. \A k \in 1 .. Len(p) : ~(Len(fields) + k <= Len(fields))
    BY <1>1, <1>2
  <2>7. \A k \in 1 .. Len(p) : fields'[Len(fields) + k] = p[k]
    <3> SUFFICES ASSUME NEW k \in 1 .. Len(p)
                 PROVE  fields'[Len(fields) + k] = p[k]
      OBVIOUS
    <3> DEFINE x == Len(fields) + k
    <3>1. x \in 1 .. Len(fields) + Len(p) /\ ~(x <= Len(fields)) /\ x - Len(fields) = k
      BY <2>1, <2>6
    <3> HIDE DEF x
    <3>2. (fields \o p)[x] = p[x - Len(fields)]
      BY <2>4, <3>1, Zenon
    <3> QED BY <1>3, <3>1, <3>2 DEF x
  <2> QED BY <1>3, <2>3, <2>5, <2>7, Zenon
<1>6. Len(fields') \in Nat
  BY <1>1, <1>2, <1>5
<1>7. /\ ends' \in Seq(Nat) /\ Len(ends') = n + 1 /\ ends'[n + 1] = Len(fields')
      /\ \A k \in 1 .. n : ends'[k] = ends[k]
  <2>1. /\ Append(ends, Len(fields')) \in Seq(Nat) /\ Len(Append(ends, Len(fields'))) = n + 1
        /\ Append(ends, Len(fields'))[n + 1] = Len(fields')
        /\ \A k \in 1 .. n : Append(ends, Len(fields'))[k] = ends[k]
    BY <1>1, <1>6, AppendProperties
  <2> QED BY <1>3, <2>1, Zenon
<1>8. LastEnd' = Len(fields') /\ LastEnd' >= LastEnd /\ LastEnd' \in Nat
  <2>1. ends' # <<>>
    BY <1>1, <1>7
  <2>2. LastEnd' = Len(fields')
    BY <1>7, <2>1, Zenon DEF LastEnd
  <2>3. Len(fields') >= LastEnd
    BY <1>1, <1>2, <1>3, <1>4, <1>5
  <2> QED BY <1>6, <2>2, <2>3, Zenon
<1>9. \A j \in 1 .. n + 1 : Start(j)' = Start(j)
  <2>1. \A j \in 1 .. n + 1 : j # 1 => j - 1 \in 1 .. n
    BY <1>1
  <2> QED BY <1>7, <2>1, Zenon DEF Start
<1>10. ASSUME NEW j \in 1 .. n + 1
       PROVE  LiesAt(j)'
  <2>1. CASE j = n + 1
    <3>1. Start(j)' = Len(fields) + 1
      BY <1>3, <1>4, <1>9, <2>1
    <3>2. Printed(listing', records'[j]) = p
      BY <1>3, <2>1 DEF p
    <3>3. ends'[j] = Len(fields) + Len(p) /\ ends'[j] <= LastEnd'
      BY <1>5, <1>6, <1>7, <1>8, <2>1
    <3>4. ends'[j] = (Len(fields) + 1) + Len(p) - 1
      BY <1>1, <1>2, <3>3
    <3>5. \A k \in 1 .. Len(p) : (Len(fields) + 1) + k - 1 = Len(fields) + k
      BY <1>1, <1>2
    <3> QED BY <1>5, <3>1, <3>2, <3>3, <3>4, <3>5 DEF LiesAt
  <2>2. CASE j \in 1 .. n
    <3>1. LiesAt(j) /\ Len(fields) <= LastEnd
      BY <2>2 DEF Inv, Layout
    <3>2. /\ records'[j] = records[j] /\ listing' = listing /\ ends'[j] = ends[j]
          /\ Start(j)' = Start(j) /\ Start(j) \in Nat /\ ends[j] \in Nat
      BY <1>1, <1>3, <1>7, <1>9, <2>2, Ends DEF Inv
    <3> DEFINE q == Printed(listing, records[j])
    <3>3. Len(q) \in {1, 2, 3}
      <4>1. records[j] \in Reported(listing)
        BY <2>2 DEF Inv, TypeOK, Layout
      <4> QED BY <1>1, <4>1, PrintedShape
    <3>4. ends[j] = Start(j) + Len(q) - 1 /\ ends[j] <= LastEnd
      BY <3>1 DEF LiesAt
    <3>5. \A k \in 1 .. Len(q) : Start(j) + k - 1 <= Len(fields) =>
              fields[Start(j) + k - 1] = q[k]
      BY <3>1 DEF LiesAt
    <3>6. Printed(listing', records'[j]) = q
      BY <3>2
    <3>7. Start(j) >= 1
      BY <1>1, <2>2, Ends DEF Inv
    <3> HIDE DEF q
    <3>8. \A k \in 1 .. Len(q) : Start(j) + k - 1 \in 1 .. Len(fields)
      <4>1. \A a, b, d \in Nat, m \in {1, 2, 3} : a >= 1 /\ b = a + m - 1 /\ b <= d =>
                \A k \in 1 .. m : a + k - 1 \in 1 .. d
        OBVIOUS
      <4>2. ends[j] <= Len(fields)
        BY <1>3, <3>4
      <4> QED BY <1>1, <3>2, <3>3, <3>4, <3>7, <4>1, <4>2, Zenon
    <3>9. \A k \in 1 .. Len(q) : fields'[Start(j) + k - 1] = q[k]
      <4>1. \A x \in 1 .. Len(fields) : x <= Len(fields)
        BY <1>1
      <4> QED BY <1>5, <3>5, <3>8, <4>1, Zenon
    <3>10. ends[j] <= LastEnd'
      BY <1>4, <1>8, <3>2, <3>4
    <3> QED BY <3>2, <3>4, <3>6, <3>9, <3>10 DEF LiesAt
  <2> QED BY <1>1, <2>1, <2>2
<1>11. Len(ends') <= Len(records') /\ Len(fields') <= LastEnd'
  BY <1>6, <1>7, <1>8
<1>12. Layout'
  BY <1>3, <1>7, <1>8, <1>10, <1>11 DEF Layout
<1> QED BY <1>5, <1>7, <1>12

LEMMA ReportsStep ==
    ASSUME Inv, Reports
    PROVE  Inv'
<1>1. PICK c \in Reported(listing) :
        /\ PrintRecord(c) /\ records' = Append(records, c)
        /\ tally' = IF listing = "status" THEN tally
            ELSE Append(tally, Tallied(IF tally = <<>> THEN NoTotals ELSE tally[Len(tally)], c))
  BY Zenon DEF Reports
<1>2. /\ listing \in {"status", "nameStatus"} /\ pc = "git"
      /\ UNCHANGED <<listing, pc, i, entries, names, totals, lost>>
  BY <1>1 DEF Reports, PrintRecord, Inv, TypeOK
<1>3. entries = <<>> /\ names = <<>> /\ i = 1
  BY <1>2 DEF Inv, Parsed
<1>4. /\ records \in Seq(Reported(listing)) /\ Len(records) \in Nat /\ Len(ends) = Len(records)
      /\ listing # "numstat"
  BY <1>2 DEF Inv, TypeOK, Layout
<1>5. /\ records' \in Seq(Reported(listing)) /\ Len(records') = Len(records) + 1
      /\ records'[Len(records) + 1] = c
      /\ \A k \in 1 .. Len(records) : records'[k] = records[k]
  <2>1. /\ Append(records, c) \in Seq(Reported(listing))
        /\ Len(Append(records, c)) = Len(records) + 1
        /\ Append(records, c)[Len(records) + 1] = c
        /\ \A k \in 1 .. Len(records) : Append(records, c)[k] = records[k]
    BY <1>4, AppendProperties
  <2> QED BY <1>1, <2>1, Zenon
<1>6. fields' \in Seq(Texts) /\ ends' \in Seq(Nat) /\ Layout'
  <2>1. /\ Len(ends) + 1 <= Len(records') /\ Len(ends) + 1 = Len(records')
        /\ records'[Len(ends) + 1] = c
        /\ \A k \in 1 .. Len(ends) : records'[k] = records[k]
    BY <1>4, <1>5
  <2> QED BY <1>1, <1>5, <2>1, PrintStep
<1>7. Parsed'
  BY <1>2, <1>3, <1>4, <1>5 DEF Parsed, Begins, Inv
<1>8. tally' \in Seq(Totals) /\ Added'
  <2>1. CASE listing = "status"
    BY <1>1, <1>2, <2>1 DEF Inv, TypeOK, Added
  <2>2. CASE listing # "status"
    <3> DEFINE n == Len(records)
               t == Plus(Upto(n), Counted(c))
    <3>1. /\ tally \in Seq(Totals) /\ Len(tally) = n /\ n \in Nat /\ totals = NoTotals
          /\ \A j \in 1 .. n : tally[j] = Plus(Upto(j - 1), Counted(records[j]))
      BY <1>2, <1>4, <2>2 DEF Inv, TypeOK, Added
    <3>2. Upto(n) = IF tally = <<>> THEN NoTotals ELSE tally[Len(tally)]
      BY <3>1 DEF Upto
    <3>3. c \in Changes
      BY <2>2 DEF Reported
    <3>4. Upto(n) \in Totals
      <4>1. NoTotals \in Totals
        BY DEF NoTotals, Totals
      <4>2. n # 0 => tally[n] \in Totals
        BY <3>1
      <4> QED BY <4>1, <4>2, Zenon DEF Upto
    <3>5. t \in Totals /\ Tallied(Upto(n), c) = t
      BY <3>3, <3>4, CountedTotals
    <3>6. tally' = Append(tally, t)
      BY <1>1, <2>2, <3>2, <3>5
    <3> HIDE DEF t
    <3>7. /\ tally' \in Seq(Totals) /\ Len(tally') = n + 1 /\ tally'[n + 1] = t
          /\ \A j \in 1 .. n : tally'[j] = tally[j]
      <4>1. /\ Append(tally, t) \in Seq(Totals) /\ Len(Append(tally, t)) = Len(tally) + 1
            /\ Append(tally, t)[Len(tally) + 1] = t
            /\ \A j \in 1 .. Len(tally) : Append(tally, t)[j] = tally[j]
        BY <3>1, <3>5, AppendProperties
      <4> QED BY <3>1, <3>6, <4>1, Zenon
    <3>8. \A j \in 0 .. n : Upto(j)' = Upto(j)
      <4>1. \A j \in 0 .. n : j # 0 => j \in 1 .. n
        BY <3>1
      <4> QED BY <3>7, <4>1, Zenon DEF Upto
    <3>9. ASSUME NEW j \in 1 .. n + 1
          PROVE  tally'[j] = Plus(Upto(j - 1)', Counted(records'[j]))
      <4>1. CASE j = n + 1
        BY <1>5, <3>1, <3>7, <3>8, <4>1 DEF t
      <4>2. CASE j \in 1 .. n
        BY <1>5, <3>1, <3>7, <3>8, <4>2
      <4> QED BY <3>1, <4>1, <4>2
    <3>10. Added'
      BY <1>2, <1>5, <3>1, <3>7, <3>9 DEF Added
    <3> QED BY <3>7, <3>10
  <2> QED BY <2>1, <2>2
<1>9. TypeOK'
  BY <1>2, <1>5, <1>6, <1>8 DEF Inv, TypeOK
<1> QED BY <1>6, <1>7, <1>8, <1>9 DEF Inv

LEMMA ReportsAgainStep ==
    ASSUME Inv, ReportsAgain
    PROVE  Inv'
<1> DEFINE c == records[Len(ends) + 1]
<1>1. /\ listing = "numstat" /\ Len(ends) < Len(records) /\ PrintRecord(c) /\ pc = "git"
      /\ UNCHANGED <<listing, pc, i, entries, names, totals, lost, records, tally>>
  BY DEF ReportsAgain, PrintRecord
<1>2. /\ records \in Seq(Reported(listing)) /\ Len(records) \in Nat /\ Len(ends) \in Nat
  BY DEF Inv, TypeOK
<1>3. c \in Reported(listing) /\ Len(ends) + 1 <= Len(records)
  BY <1>1, <1>2
<1>4. fields' \in Seq(Texts) /\ ends' \in Seq(Nat) /\ Layout'
  BY <1>1, <1>2, <1>3, PrintStep
<1>5. Parsed'
  BY <1>1 DEF Parsed, Begins, Inv, Whole
<1>6. Added'
  BY <1>1 DEF Added, Upto, Inv
<1>7. TypeOK'
  BY <1>1, <1>4 DEF Inv, TypeOK
<1> QED BY <1>4, <1>5, <1>6, <1>7 DEF Inv

LEMMA LoseFieldStep ==
    ASSUME Inv, LoseField
    PROVE  Inv'
<1>1. /\ pc = "git" /\ lost' = lost + 1 /\ fields' = SubSeq(fields, 1, Len(fields) - 1)
      /\ UNCHANGED <<listing, pc, records, i, entries, names, totals, ends, tally>>
      /\ fields \in Seq(Texts) /\ fields # <<>> /\ lost \in Nat
  BY DEF LoseField, Inv, TypeOK
<1>2. /\ fields' \in Seq(Texts) /\ Len(fields') = Len(fields) - 1
      /\ Len(fields) \in Nat /\ Len(fields') \in Nat
      /\ \A k \in 1 .. Len(fields') : fields'[k] = fields[k]
  <2> DEFINE n == Len(fields) - 1
  <2>1. Len(fields) \in Nat /\ n \in Nat /\ n + 1 = Len(fields)
    BY <1>1
  <2>2. \A k \in 1 .. n : fields[k] \in Texts
    BY <1>1, <2>1
  <2>3. /\ SubSeq(fields, 1, n) \in Seq(Texts)
        /\ Len(SubSeq(fields, 1, n)) = IF 1 <= n THEN n - 1 + 1 ELSE 0
        /\ \A k \in 1 .. n - 1 + 1 : SubSeq(fields, 1, n)[k] = fields[1 + k - 1]
    BY <2>1, <2>2, SubSeqProperties
  <2>4. fields' = SubSeq(fields, 1, n)
    BY <1>1
  <2> HIDE DEF n
  <2>5. Len(fields') = n /\ \A k \in 1 .. n : fields'[k] = fields[k]
    BY <2>1, <2>3, <2>4
  <2>6. n = Len(fields) - 1
    BY DEF n
  <2> QED BY <2>1, <2>3, <2>4, <2>5, <2>6
<1>3. LastEnd' = LastEnd /\ LastEnd \in Nat
  BY <1>1, Ends DEF LastEnd, Inv
<1>4. ~Whole' /\ lost' \in Nat
  BY <1>1 DEF Whole
<1>5. ASSUME NEW j \in 1 .. Len(ends)
      PROVE  LiesAt(j)'
  <2> DEFINE q == Printed(listing, records[j])
  <2>1. LiesAt(j)
    BY DEF Inv, Layout
  <2>2. /\ Start(j)' = Start(j) /\ Start(j) \in Nat \ {0} /\ Len(q) \in {1, 2, 3}
        /\ Printed(listing', records'[j]) = q
    <3>1. records[j] \in Reported(listing) /\ listing \in {"status", "nameStatus", "numstat"}
      BY DEF Inv, TypeOK, Layout
    <3>2. Len(q) \in {1, 2, 3}
      BY <3>1, PrintedShape
    <3>3. Start(j)' = Start(j)
      BY <1>1 DEF Start
    <3>4. Start(j) \in Nat \ {0}
      <4>1. Len(ends) \in Nat
        BY DEF Inv, TypeOK
      <4> QED BY <4>1, Ends DEF Inv
    <3> QED BY <1>1, <3>2, <3>3, <3>4
  <2>3. \A k \in 1 .. Len(q) : Start(j) + k - 1 <= Len(fields) => fields[Start(j) + k - 1] = q[k]
    BY <2>1 DEF LiesAt
  <2>4. ends[j] = Start(j) + Len(q) - 1 /\ ends[j] <= LastEnd
    BY <2>1 DEF LiesAt
  <2> HIDE DEF q
  <2>5. ASSUME NEW k \in 1 .. Len(q), Start(j) + k - 1 <= Len(fields')
        PROVE  fields'[Start(j) + k - 1] = q[k]
    <3>1. Start(j) + k - 1 \in 1 .. Len(fields') /\ Start(j) + k - 1 <= Len(fields)
      BY <1>2, <2>2, <2>5
    <3> QED BY <1>2, <2>3, <3>1
  <2> QED BY <1>1, <1>3, <2>2, <2>4, <2>5 DEF LiesAt
<1>6. Layout'
  BY <1>1, <1>2, <1>3, <1>4, <1>5 DEF Layout, Inv
<1>7. Parsed'
  BY <1>1, <1>4 DEF Parsed, Begins, Inv
<1>8. Added'
  BY <1>1 DEF Added, Upto, Inv
<1>9. TypeOK'
  BY <1>1, <1>2, <1>4 DEF Inv, TypeOK
<1> QED BY <1>6, <1>7, <1>8, <1>9 DEF Inv

-----------------------------------------------------------------------------
(* patchrun parses.                                                        *)

\* The history and the output stand still.
LEMMA LayoutStands ==
    ASSUME Inv, UNCHANGED <<listing, records, fields, ends, lost>>,
           pc' = pc \/ pc # "git" \/ (Whole => Len(ends) = Len(records))
    PROVE  Layout'
<1>1. LastEnd' = LastEnd
  BY DEF LastEnd
<1>2. \A j : LiesAt(j)' <=> LiesAt(j)
  BY <1>1 DEF LiesAt, Start
<1> QED BY <1>1, <1>2, Zenon DEF Layout, Inv, Whole

LEMMA GitExitsStep ==
    ASSUME Inv, GitExits
    PROVE  Inv'
<1>1. /\ pc = "git" /\ pc' = "parse" /\ (Len(ends) = Len(records) \/ ~Uncut)
      /\ UNCHANGED <<listing, records, fields, i, entries, names, totals, ends, tally, lost>>
  BY DEF GitExits
<1>2. Whole => Len(ends) = Len(records)
  BY <1>1 DEF Uncut, LastEnd, Inv, Layout
<1>3. Layout'
  BY <1>1, <1>2, LayoutStands
<1>4. entries = <<>> /\ i = 1 /\ Len(ends) \in Nat
  BY <1>1 DEF Inv, Parsed, TypeOK
<1>5. Parsed'
  BY <1>1, <1>4 DEF Parsed, Begins, Inv, Whole, Start
<1>6. Added'
  BY <1>1 DEF Added, Upto, Inv
<1>7. TypeOK'
  BY <1>1 DEF Inv, TypeOK
<1> QED BY <1>3, <1>5, <1>6, <1>7 DEF Inv

LEMMA ParseNextStep ==
    ASSUME Inv, ParseNext
    PROVE  Inv'
<1> DEFINE j == Len(entries) + 1
           e == Wanted(listing, records[j])
<1>1. /\ pc = "parse" /\ i <= Len(fields)
      /\ IF Round.ok
         THEN i' = i + Round.width /\ entries' = entries \o Round.out /\ UNCHANGED pc
         ELSE pc' = "failed" /\ UNCHANGED <<i, entries>>
      /\ UNCHANGED <<listing, records, fields, names, totals, ends, tally, lost>>
  BY Zenon DEF ParseNext
<1>2. /\ Begins(entries, listing) /\ Len(entries) <= Len(ends) /\ i = Start(j)
      /\ Len(ends) <= Len(records) /\ Len(fields) <= LastEnd
  BY <1>1 DEF Inv, Parsed, Layout
<1>3. /\ Len(entries) \in Nat /\ Len(ends) \in Nat /\ Len(records) \in Nat
      /\ Len(fields) \in Nat /\ i \in Nat \ {0}
      /\ entries \in Seq({Wanted(listing, c) : c \in Reported(listing)})
  BY DEF Inv, TypeOK
<1>4. j \in 1 .. Len(ends)
  <2>1. Len(entries) # Len(ends)
    BY <1>1, <1>2, <1>3, Ends DEF Inv
  <2> QED BY <1>2, <1>3, <2>1
<1>5. /\ ends[j] \in Nat /\ ends[j] >= i
      /\ ends[j] <= Len(fields) => Round = Gives(ends[j] + 1 - i, e)
      /\ ends[j] > Len(fields) => Round = Malformed
  BY <1>1, <1>2, <1>4, RoundReads DEF Inv
<1>6. e \in {Wanted(listing, c) : c \in Reported(listing)}
  BY <1>2, <1>3, <1>4 DEF Inv, TypeOK
<1> HIDE DEF e
<1>7. Layout'
  BY <1>1, LayoutStands
<1>8. Added'
  BY <1>1 DEF Added, Upto, Inv
<1>9. CASE ends[j] <= Len(fields)
  <2>1. Round.ok /\ Round.width = ends[j] + 1 - i /\ Round.out = <<e>>
    BY <1>5, <1>9 DEF Gives
  <2>2. i' = ends[j] + 1 /\ entries' = entries \o <<e>> /\ pc' = "parse"
    BY <1>1, <1>3, <1>5, <2>1
  <2>3. /\ entries' \in Seq({Wanted(listing, c) : c \in Reported(listing)})
        /\ Len(entries') = j /\ entries'[j] = e
        /\ \A k \in 1 .. Len(entries) : entries'[k] = entries[k]
    BY <1>3, <1>6, <2>2
  <2>4. i' = (Start(Len(entries) + 1))'
    BY <1>1, <1>3, <2>2, <2>3 DEF Start
  <2>5. (Begins(entries, listing))'
    <3>1. \A k \in 1 .. j : entries'[k] = Wanted(listing, records[k])
      BY <1>2, <1>3, <2>3 DEF Begins, e
    <3>2. j <= Len(records)
      BY <1>2, <1>3, <1>4
    <3> QED BY <1>1, <2>3, <3>1, <3>2 DEF Begins
  <2>6. Parsed'
    BY <1>1, <1>4, <2>2, <2>3, <2>4, <2>5 DEF Parsed, Inv, Begins, Whole
  <2>7. TypeOK'
    <3>1. i' \in Nat \ {0}
      BY <1>5, <2>2
    <3>2. (entries \in Seq({Wanted(listing, c) : c \in Reported(listing)}))'
      BY <1>1, <2>3
    <3> QED BY <1>1, <2>2, <3>1, <3>2 DEF Inv, TypeOK
  <2> QED BY <1>7, <1>8, <2>6, <2>7 DEF Inv
<1>10. CASE ends[j] > Len(fields)
  <2>1. ~Round.ok
    BY <1>5, <1>10 DEF Malformed
  <2>2. pc' = "failed" /\ UNCHANGED <<i, entries>>
    BY <1>1, <2>1
  <2>3. ~Whole
    <3>1. ends[j] <= LastEnd
      BY <1>4 DEF Inv, Layout, LiesAt
    <3>2. LastEnd \in Nat
      BY Ends DEF Inv
    <3> QED BY <1>3, <1>5, <1>10, <3>1, <3>2 DEF Inv, Layout
  <2>4. Parsed'
    BY <1>1, <2>2, <2>3 DEF Parsed, Inv, Begins, Whole
  <2>5. TypeOK'
    BY <1>1, <2>2 DEF Inv, TypeOK
  <2>6. Added'
    BY <1>8
  <2> QED BY <1>7, <2>4, <2>5, <2>6 DEF Inv
<1> QED BY <1>3, <1>5, <1>9, <1>10

\* Whole output is read to its end.
LEMMA AllRead ==
    ASSUME Inv, pc = "parse", i > Len(fields), Whole
    PROVE  Len(entries) = Len(records)
<1>1. /\ Len(entries) <= Len(ends) /\ i = Start(Len(entries) + 1)
      /\ Len(fields) = LastEnd /\ Len(ends) = Len(records)
  BY DEF Inv, Parsed, Layout
<1>2. Len(entries) \in Nat /\ Len(ends) \in Nat /\ i \in Nat
  BY DEF Inv, TypeOK
<1>3. LastEnd \in Nat /\ \A j \in 1 .. Len(ends) : Start(j) <= LastEnd
  BY Ends DEF Inv
<1>4. Len(entries) + 1 \notin 1 .. Len(ends)
  BY <1>1, <1>2, <1>3
<1> QED BY <1>1, <1>2, <1>4

LEMMA StatusParsedStep ==
    ASSUME Inv, StatusParsed
    PROVE  Inv'
<1>1. /\ pc = "parse" /\ i > Len(fields) /\ listing = "status" /\ pc' = "done"
      /\ UNCHANGED <<listing, records, fields, i, entries, names, totals, ends, tally, lost>>
  BY DEF StatusParsed
<1>2. Whole => Len(entries) = Len(records)
  BY <1>1, AllRead
<1>3. Layout'
  BY <1>1, LayoutStands
<1>4. Parsed'
  BY <1>1, <1>2 DEF Inv, Parsed, Begins, Whole
<1>5. Added'
  BY <1>1 DEF Inv, Added, Upto
<1>6. TypeOK'
  BY <1>1 DEF Inv, TypeOK
<1> QED BY <1>3, <1>4, <1>5, <1>6 DEF Inv

LEMMA NamesParsedStep ==
    ASSUME Inv, NamesParsed
    PROVE  Inv'
<1>1. /\ pc = "parse" /\ i > Len(fields) /\ listing = "nameStatus"
      /\ names' = entries /\ listing' = "numstat" /\ pc' = "git"
      /\ fields' = <<>> /\ ends' = <<>> /\ i' = 1 /\ entries' = <<>>
      /\ UNCHANGED <<records, totals, tally, lost>>
  BY DEF NamesParsed
<1>2. Whole => Len(entries) = Len(records)
  BY <1>1, AllRead
<1>3. Layout'
  <2>1. LastEnd' = 0 /\ Len(ends') = 0 /\ Len(fields') = 0 /\ Len(records) \in Nat
    BY <1>1 DEF LastEnd, Inv, TypeOK
  <2> QED BY <1>1, <2>1 DEF Layout
<1>4. Begins(entries, "nameStatus") /\ Len(records) \in Nat
  BY <1>1 DEF Inv, Parsed, TypeOK
<1>5. Parsed'
  BY <1>1, <1>2, <1>4 DEF Parsed, Begins, Whole
<1>6. Added'
  BY <1>1 DEF Inv, Added, Upto
<1>7. TypeOK'
  <2>1. Reported(listing) = Changes /\ Reported(listing') = Changes
    BY <1>1 DEF Reported
  <2>2. names' \in Seq({Wanted("nameStatus", c) : c \in Changes})
    BY <1>1, <2>1 DEF Inv, TypeOK
  <2>3. records' \in Seq(Reported(listing'))
    BY <1>1, <2>1 DEF Inv, TypeOK
  <2>4. /\ fields' \in Seq(Texts) /\ ends' \in Seq(Nat)
        /\ entries' \in Seq({Wanted(listing', c) : c \in Reported(listing')})
    BY <1>1
  <2> QED BY <1>1, <2>2, <2>3, <2>4 DEF Inv, TypeOK
<1> QED BY <1>3, <1>5, <1>6, <1>7 DEF Inv

LEMMA NumstatParsedStep ==
    ASSUME Inv, NumstatParsed
    PROVE  Inv'
<1>1. /\ pc = "parse" /\ i > Len(fields) /\ listing = "numstat"
      /\ pc' = "sum" /\ i' = 1 /\ totals' = [totals EXCEPT !.files = Len(entries)]
      /\ UNCHANGED <<listing, records, fields, entries, names, ends, tally, lost>>
  BY DEF NumstatParsed
<1>2. Whole => Len(entries) = Len(records)
  BY <1>1, AllRead
<1>3. Layout'
  BY <1>1, LayoutStands
<1>4. Parsed'
  BY <1>1, <1>2 DEF Inv, Parsed, Begins, Whole
<1>5. totals = NoTotals /\ Len(entries) \in Nat
  BY <1>1 DEF Inv, Added, TypeOK
<1>6. Added'
  <2>1. i' <= Len(entries') + 1
    BY <1>1, <1>5
  <2>2. totals' = ([Upto(i - 1) EXCEPT !.files = Len(entries)])'
    BY <1>1, <1>5 DEF Upto
  <2> QED BY <1>1, <2>1, <2>2 DEF Inv, Added, Upto
<1>7. TypeOK'
  <2>1. totals' \in Totals
    BY <1>1, <1>5 DEF NoTotals, Totals
  <2> QED BY <1>1, <2>1 DEF Inv, TypeOK
<1> QED BY <1>3, <1>4, <1>6, <1>7 DEF Inv

LEMMA SumNextStep ==
    ASSUME Inv, SumNext
    PROVE  Inv'
<1>1. /\ pc = "sum"
      /\ IF i > Len(entries) THEN pc' = "done" /\ UNCHANGED <<i, totals>>
         ELSE i' = i + 1 /\ totals' = Plus(totals, entries[i]) /\ UNCHANGED pc
      /\ UNCHANGED <<listing, records, fields, entries, names, ends, tally, lost>>
  BY DEF SumNext
<1>2. /\ listing = "numstat" /\ i <= Len(entries) + 1 /\ i \in Nat \ {0} /\ Len(entries) \in Nat
      /\ totals = [Upto(i - 1) EXCEPT !.files = Len(entries)]
      /\ tally \in Seq(Totals) /\ Len(tally) = Len(records) /\ Len(records) \in Nat
      /\ Begins(entries, "numstat") /\ Len(entries) <= Len(records)
  BY <1>1 DEF Inv, Added, TypeOK, Parsed, Begins
<1>3. Layout'
  BY <1>1, LayoutStands
<1>4. \A k : Upto(k)' = Upto(k)
  BY <1>1 DEF Upto
<1>5. CASE i > Len(entries)
  <2>1. pc' = "done" /\ UNCHANGED <<i, totals>> /\ i - 1 = Len(entries)
    BY <1>1, <1>2, <1>5
  <2>2. Parsed'
    BY <1>1, <2>1 DEF Inv, Parsed, Begins, Whole
  <2>3. Added'
    BY <1>1, <1>2, <1>4, <2>1 DEF Inv, Added
  <2>4. TypeOK'
    BY <1>1, <2>1 DEF Inv, TypeOK
  <2> QED BY <1>3, <2>2, <2>3, <2>4 DEF Inv
<1>6. CASE i <= Len(entries)
  <2> DEFINE n == Len(entries)
             c == records[i]
             t == Upto(i - 1)
  <2>1. i' = i + 1 /\ totals' = Plus(totals, entries[i]) /\ pc' = pc
    BY <1>1, <1>2, <1>6
  <2>2. i \in 1 .. n /\ i \in 1 .. Len(records) /\ i - 1 \in 0 .. Len(tally)
    BY <1>2, <1>6
  <2>3. entries[i] = Wanted("numstat", c) /\ c \in Changes
    BY <1>2, <2>2 DEF Begins, Inv, TypeOK, Reported
  <2>4. t \in Totals
    <3>1. NoTotals \in Totals
      BY DEF NoTotals, Totals
    <3>2. i - 1 # 0 => tally[i - 1] \in Totals
      BY <1>2, <2>2
    <3> QED BY <3>1, <3>2, Zenon DEF Upto
  <2>5. Upto(i) = Plus(t, Counted(c))
    BY <1>2, <2>2 DEF Inv, Added, Upto
  <2> DEFINE u == [t EXCEPT !.files = n]
  <2>6. u \in Totals
    BY <1>2, <2>4 DEF Totals
  <2>7. totals = u
    BY <1>2
  <2> HIDE DEF t, c
  <2>8. Plus(u, Wanted("numstat", c)) = Plus(u, Counted(c)) /\ Plus(u, Counted(c)) \in Totals
    BY <2>3, <2>6, CountedTotals, Zenon
  <2>9. Plus(u, Counted(c)) = [Plus(t, Counted(c)) EXCEPT !.files = n]
    BY <1>2, <2>3, <2>4, CountedTotals
  <2>10. totals' = [Upto(i) EXCEPT !.files = n] /\ totals' \in Totals
    BY <2>1, <2>3, <2>5, <2>7, <2>8, <2>9, Zenon
  <2>11. i' - 1 = i /\ i' <= n + 1 /\ i' \in Nat \ {0}
    BY <1>2, <2>1, <2>2
  <2>12. Parsed'
    BY <1>1, <2>1 DEF Inv, Parsed, Begins, Whole
  <2>13. Added'
    BY <1>1, <1>2, <1>4, <2>1, <2>10, <2>11 DEF Inv, Added
  <2>14. TypeOK'
    BY <1>1, <2>1, <2>10, <2>11 DEF Inv, TypeOK
  <2> QED BY <1>3, <2>12, <2>13, <2>14 DEF Inv
<1> QED BY <1>2, <1>5, <1>6

LEMMA StutterStep ==
    ASSUME Inv, UNCHANGED vars
    PROVE  Inv'
  BY DEF Inv, TypeOK, Layout, LastEnd, LiesAt, Start, Parsed, Begins, Added, Upto, Whole, vars

LEMMA InitInv == Init => Inv
<1> SUFFICES ASSUME Init PROVE Inv
  OBVIOUS
<1>1. TypeOK
  BY DEF Init, TypeOK, NoTotals, Totals
<1>2. Layout /\ Parsed /\ Added
  BY DEF Init, Layout, LastEnd, Parsed, Begins, Added
<1> QED BY <1>1, <1>2 DEF Inv

-----------------------------------------------------------------------------
(* What follows.                                                           *)

\* Where each record of git lies in its output, where the parser stands in it and
\* what it has appended and added up.
THEOREM GitOutputInvariant == Spec => []Inv
<1>1. Inv /\ [Next]_vars => Inv'
  <2> SUFFICES ASSUME Inv, [Next]_vars PROVE Inv'
    OBVIOUS
  <2> QED
    BY ReportsStep, ReportsAgainStep, LoseFieldStep, GitExitsStep, ParseNextStep,
       StatusParsedStep, NamesParsedStep, NumstatParsedStep, SumNextStep, StutterStep
       DEF Next, Over
<1> QED BY InitInv, <1>1, PTL DEF Spec

\* However many records a status has and whatever its names look like, patchrun
\* reads it as it was printed, and the tree is dirty exactly when it has a record.
THEOREM StatusAlwaysRead == Spec => []StatusIsRead
<1>1. Inv => StatusIsRead
  <2> SUFFICES ASSUME Inv, Whole, listing = "status", pc = "done"
               PROVE  Matches(entries, "status") /\ (IsDirty(entries) <=> records # <<>>)
    BY DEF StatusIsRead, Inv, Parsed
  <2>1. Len(entries) = Len(records) /\ Begins(entries, "status")
    BY DEF Inv, Parsed
  <2>2. records \in Seq(StatusEntries) /\ Len(records) \in Nat
    BY DEF Inv, TypeOK, Reported
  <2>3. \A k \in 1 .. Len(entries) : EntryIsDirty(entries[k])
    <3> SUFFICES ASSUME NEW k \in 1 .. Len(entries)
                 PROVE  EntryIsDirty(entries[k])
      OBVIOUS
    <3>1. entries[k] = records[k] /\ records[k] \in StatusEntries
      BY <2>1, <2>2 DEF Begins, Wanted
    <3> DEFINE e == entries[k]
    <3>2. e \in StatusEntries
      BY <3>1
    <3> HIDE DEF e
    <3>3. EntryIsDirty(e)
      BY <3>2 DEF EntryIsDirty, StatusEntries
    <3> QED BY <3>3 DEF e
  <2>4. records # <<>> <=> 1 \in 1 .. Len(entries)
    BY <2>1, <2>2
  <2> QED BY <2>1, <2>2, <2>3, <2>4 DEF Matches, IsDirty
<1> QED BY <1>1, GitOutputInvariant, PTL

\* The two listings of a diff are read alike, and the totals are those of the diff.
THEOREM SummaryAlwaysAgrees == Spec => []SummaryAgrees
<1>1. Inv => SummaryAgrees
  <2> SUFFICES ASSUME Inv, Whole, listing # "status", pc = "done"
               PROVE  /\ Matches(names, "nameStatus") /\ Matches(entries, "numstat")
                      /\ totals = [(IF tally = <<>> THEN NoTotals ELSE tally[Len(tally)])
                                      EXCEPT !.files = Len(records)]
    BY DEF SummaryAgrees, Inv, Parsed
  <2>1. /\ listing = "numstat" /\ Len(entries) = Len(records) /\ Len(names) = Len(records)
        /\ Begins(names, "nameStatus") /\ Begins(entries, "numstat")
        /\ totals = [Upto(Len(entries)) EXCEPT !.files = Len(entries)]
        /\ tally \in Seq(Totals) /\ Len(tally) = Len(records)
    BY DEF Inv, Parsed, Added, TypeOK
  <2>2. Upto(Len(entries)) = IF tally = <<>> THEN NoTotals ELSE tally[Len(tally)]
    BY <2>1 DEF Upto
  <2> QED BY <2>1, <2>2 DEF Matches
<1> QED BY <1>1, GitOutputInvariant, PTL

\* Wherever the output stops between two fields, no entry is put together from
\* half a record.
THEOREM CutsAlwaysNoticed == Spec => []CutIsNoticed
<1>1. Inv => CutIsNoticed
  BY DEF Inv, Parsed, CutIsNoticed
<1> QED BY <1>1, GitOutputInvariant, PTL

\* Every round of a parser takes at least one field, so each loop ends.
THEOREM ParsersAdvance == Spec => [][ParseNext => i' > i \/ pc' = "failed"]_vars
<1>1. Inv /\ [Next]_vars => [ParseNext => i' > i \/ pc' = "failed"]_vars
  <2> SUFFICES ASSUME Inv, ParseNext, pc' # "failed"
               PROVE  i' > i
    OBVIOUS
  <2> DEFINE j == Len(entries) + 1
  <2>1. /\ pc = "parse" /\ i <= Len(fields) /\ Round.ok /\ i' = i + Round.width
    BY DEF ParseNext
  <2>2. /\ Len(entries) <= Len(ends) /\ i = Start(j) /\ Len(fields) <= LastEnd
        /\ Len(entries) \in Nat /\ Len(ends) \in Nat /\ Len(fields) \in Nat /\ i \in Nat
    BY <2>1 DEF Inv, TypeOK, Parsed, Layout
  <2>3. j \in 1 .. Len(ends)
    <3>1. Len(entries) # Len(ends)
      BY <2>1, <2>2, Ends DEF Inv
    <3> QED BY <2>2, <3>1
  <2>4. /\ ends[j] \in Nat /\ ends[j] >= i
        /\ ends[j] <= Len(fields) => Round = Gives(ends[j] + 1 - i, Wanted(listing, records[j]))
        /\ ends[j] > Len(fields) => Round = Malformed
    BY <2>1, <2>2, <2>3, RoundReads DEF Inv
  <2>5. Round.width = ends[j] + 1 - i
    <3>1. ~(ends[j] > Len(fields))
      BY <2>1, <2>4 DEF Malformed
    <3> QED BY <2>2, <2>4, <3>1 DEF Gives
  <2> QED BY <2>1, <2>2, <2>4, <2>5
<1> QED BY <1>1, GitOutputInvariant, PTL DEF Spec
=============================================================================
