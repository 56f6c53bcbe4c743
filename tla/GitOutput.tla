----------------------------- MODULE GitOutput -----------------------------
(***************************************************************************)
(* The NUL-separated output of git status, git diff --name-status and git  *)
(* diff --numstat, and the loops that read it, one round per step.  A      *)
(* field is seen as the parsers see it: split in three, <<first, second,   *)
(* rest>>, or too short for that, <<text>>, or empty.  A path is a field   *)
(* like any other, so it may look like a record.                           *)
(***************************************************************************)
EXTENDS Naturals, Sequences

CONSTANTS
    Paths,          \* the names of files
    Numerals,       \* the texts of numbers
    Number,         \* per numeral: what strconv.Atoi makes of it
    MaxRecords,     \* bound on the records of one output
    MaxLost         \* bound on the fields an output is cut by

Empty == <<>>

ASSUME GitOutputAssumption ==
    /\ Empty \notin Paths
    /\ Number \in [Numerals -> Nat] /\ "-" \notin Numerals
    /\ MaxRecords \in Nat /\ MaxLost \in Nat

VARIABLES
    listing,    \* which output git is asked for
    pc,         \* git prints, patchrun parses, adds up, is done or has failed
    records,    \* what there is to report: a status, or the diff of two listings
    fields,     \* what git has printed
    i,          \* the loop's index
    entries,    \* what the parser has appended
    names,      \* r.nameStatusEntries
    totals,     \* r.totals
    ends,       \* history: per record printed, its last field
    tally,      \* history: per record, the totals up to it
    lost        \* fields missing at the end of an output

vars == <<listing, pc, records, fields, i, entries, names, totals, ends, tally, lost>>

Renames == {"R", "C"}

\* old is set for renames and copies alone.
Changes ==
    {c \in [letter : {"M", "R"}, path : Paths, old : Paths \cup {Empty},
            ins : Numerals \cup {"-"}, del : Numerals \cup {"-"}] :
        /\ c.old # Empty <=> c.letter \in Renames
        /\ c.ins = "-" <=> c.del = "-"}

StatusEntries ==
    {e \in [x : {" ", "R", "?"}, y : {" ", "M", "R", "?"}, path : Paths, old : Paths \cup {Empty}] :
        /\ e.old # Empty <=> {e.x, e.y} \cap Renames # {}
        /\ e.x = "?" <=> e.y = "?"
        /\ e.x # " " \/ e.y # " "}

Reported(l) == IF l = "status" THEN StatusEntries ELSE Changes

NoTotals == [files |-> 0, binary |-> 0, ins |-> 0, del |-> 0]

\* slip: binary files are not set apart
PlusText(t, e) == [t EXCEPT !.ins = @ + e.ins, !.del = @ + e.del]

\* Sum, one entry; the files are counted by len.
Plus(t, e) ==
    IF e.binary THEN [t EXCEPT !.binary = @ + 1]
    ELSE [t EXCEPT !.ins = @ + e.ins, !.del = @ + e.del]

Init ==
    /\ listing \in {"status", "nameStatus"} /\ pc = "git"
    /\ records = <<>> /\ fields = <<>> /\ i = 1 /\ entries = <<>> /\ names = <<>>
    /\ totals = NoTotals /\ ends = <<>> /\ tally = <<>> /\ lost = 0

-----------------------------------------------------------------------------
(* Git prints record by record: porcelain has the new name of a rename     *)
(* first, the diffs have it last.                                          *)

Printed(l, c) ==
    CASE l = "status" ->
            IF c.old = Empty THEN <<<<c.x, c.y, c.path>>>> ELSE <<<<c.x, c.y, c.path>>, c.old>>
      [] l = "nameStatus" ->
            IF c.old = Empty THEN <<<<c.letter>>, c.path>> ELSE <<<<c.letter>>, c.old, c.path>>
      [] l = "numstat" ->
            IF c.old = Empty THEN <<<<c.ins, c.del, c.path>>>>
            ELSE <<<<c.ins, c.del, Empty>>, c.old, c.path>>

Uncut == Len(fields) = IF ends = <<>> THEN 0 ELSE ends[Len(ends)]

PrintRecord(c) ==
    /\ pc = "git" /\ Uncut
    /\ fields' = fields \o Printed(listing, c) /\ ends' = Append(ends, Len(fields'))
    /\ UNCHANGED <<listing, pc, i, entries, names, totals, lost>>

\* What a change counts for, and what it adds to the totals of those before it.
Counted(c) ==
    [binary |-> c.ins = "-",
     ins |-> IF c.ins = "-" THEN 0 ELSE Number[c.ins],
     del |-> IF c.del = "-" THEN 0 ELSE Number[c.del]]
Tallied(t, c) ==
    [files |-> t.files, binary |-> t.binary + IF c.ins = "-" THEN 1 ELSE 0,
     ins |-> t.ins + Counted(c).ins, del |-> t.del + Counted(c).del]

Reports ==
    /\ listing # "numstat" /\ Len(records) < MaxRecords
    /\ \E c \in Reported(listing) :
        /\ PrintRecord(c) /\ records' = Append(records, c)
        /\ tally' = IF listing = "status" THEN tally
            ELSE Append(tally, Tallied(IF tally = <<>> THEN NoTotals ELSE tally[Len(tally)], c))

\* The second listing of the same diff.
ReportsAgain ==
    /\ listing = "numstat" /\ Len(ends) < Len(records)
    /\ PrintRecord(records[Len(ends) + 1]) /\ UNCHANGED <<records, tally>>

LoseField ==
    /\ pc = "git" /\ fields # <<>> /\ lost < MaxLost /\ lost' = lost + 1
    /\ fields' = SubSeq(fields, 1, Len(fields) - 1)
    /\ UNCHANGED <<listing, pc, records, i, entries, names, totals, ends, tally>>

GitExits ==
    /\ pc = "git" /\ (Len(ends) = Len(records) \/ ~Uncut)
    /\ pc' = "parse"
    /\ UNCHANGED <<listing, records, fields, i, entries, names, totals, ends, tally, lost>>

-----------------------------------------------------------------------------
(* One round of each loop: how many fields it takes and what it appends.   *)

Malformed == [ok |-> FALSE, width |-> 0, out |-> <<>>]
Skips == [ok |-> TRUE, width |-> 1, out |-> <<>>]
Gives(width, e) == [ok |-> TRUE, width |-> width, out |-> <<e>>]

\* slip: a missing old path is not an error
ParsePorcelainLenient(f, k) ==
    IF f[k] = Empty THEN Skips
    ELSE IF Len(f[k]) < 3 THEN Malformed
    ELSE LET e == [x |-> f[k][1], y |-> f[k][2], path |-> f[k][3]]
         IN  IF {e.x, e.y} \cap Renames = {}
             THEN Gives(1, [x |-> e.x, y |-> e.y, path |-> e.path, old |-> Empty])
             ELSE Gives(2, [x |-> e.x, y |-> e.y, path |-> e.path,
                            old |-> IF k < Len(f) THEN f[k + 1] ELSE Empty])

\* slip: goes on with the old path as if it were a record
ParsePorcelainNoSkip(f, k) ==
    IF f[k] = Empty THEN Skips
    ELSE IF Len(f[k]) < 3 THEN Malformed
    ELSE IF {f[k][1], f[k][2]} \cap Renames = {}
    THEN Gives(1, [x |-> f[k][1], y |-> f[k][2], path |-> f[k][3], old |-> Empty])
    ELSE IF k + 1 > Len(f) THEN Malformed
    ELSE Gives(1, [x |-> f[k][1], y |-> f[k][2], path |-> f[k][3], old |-> f[k + 1]])

parsePorcelainZ(f, k) ==
    IF f[k] = Empty THEN Skips
    ELSE IF Len(f[k]) < 3 THEN Malformed
    ELSE IF {f[k][1], f[k][2]} \cap Renames = {}
    THEN Gives(1, [x |-> f[k][1], y |-> f[k][2], path |-> f[k][3], old |-> Empty])
    ELSE IF k + 1 > Len(f) THEN Malformed
    ELSE Gives(2, [x |-> f[k][1], y |-> f[k][2], path |-> f[k][3], old |-> f[k + 1]])

ParseNameStatusZ(f, k) ==
    IF f[k] = Empty THEN Skips
    ELSE IF f[k][1] \in Renames THEN
        IF k + 2 > Len(f) THEN Malformed
        ELSE Gives(3, [letter |-> f[k][1], path |-> f[k + 2], old |-> f[k + 1]])
    ELSE IF k + 1 > Len(f) THEN Malformed
    ELSE Gives(2, [letter |-> f[k][1], path |-> f[k + 1], old |-> Empty])

ParsedCounts(ins, del) ==
    IF ins = "-" THEN [binary |-> TRUE, ins |-> 0, del |-> 0]
    ELSE [binary |-> FALSE, ins |-> Number[ins], del |-> Number[del]]

\* A file of "-" and "-" is binary, and other counts must be numbers.
ParseNumstatZ(f, k) ==
    IF f[k] = Empty THEN Skips
    ELSE IF Len(f[k]) < 3 THEN Malformed
    ELSE IF ~({f[k][1], f[k][2]} \subseteq Numerals \/ {f[k][1], f[k][2]} = {"-"})
    THEN Malformed
    ELSE LET n == ParsedCounts(f[k][1], f[k][2])
             e(path, old) == [binary |-> n.binary, ins |-> n.ins, del |-> n.del,
                              path |-> path, old |-> old]
         IN  IF f[k][3] # Empty THEN Gives(1, e(f[k][3], Empty))
             ELSE IF k + 2 > Len(f) THEN Malformed
             ELSE Gives(3, e(f[k + 2], f[k + 1]))

-----------------------------------------------------------------------------
(* The loops, and parseSummary around two of them.                         *)

Round ==
    CASE listing = "status" -> parsePorcelainZ(fields, i)
      [] listing = "nameStatus" -> ParseNameStatusZ(fields, i)
      [] listing = "numstat" -> ParseNumstatZ(fields, i)

ParseNext ==
    /\ pc = "parse" /\ i <= Len(fields)
    /\ IF Round.ok
       THEN i' = i + Round.width /\ entries' = entries \o Round.out /\ UNCHANGED pc
       ELSE pc' = "failed" /\ UNCHANGED <<i, entries>>
    /\ UNCHANGED <<listing, records, fields, names, totals, ends, tally, lost>>

StatusParsed ==
    /\ pc = "parse" /\ i > Len(fields) /\ listing = "status" /\ pc' = "done"
    /\ UNCHANGED <<listing, records, fields, i, entries, names, totals, ends, tally, lost>>

NamesParsed ==
    /\ pc = "parse" /\ i > Len(fields) /\ listing = "nameStatus"
    /\ names' = entries /\ listing' = "numstat" /\ pc' = "git"
    /\ fields' = <<>> /\ ends' = <<>> /\ i' = 1 /\ entries' = <<>>
    /\ UNCHANGED <<records, totals, tally, lost>>

NumstatParsed ==
    /\ pc = "parse" /\ i > Len(fields) /\ listing = "numstat"
    /\ pc' = "sum" /\ i' = 1 /\ totals' = [totals EXCEPT !.files = Len(entries)]
    /\ UNCHANGED <<listing, records, fields, entries, names, ends, tally, lost>>

SumNext ==
    /\ pc = "sum"
    /\ IF i > Len(entries) THEN pc' = "done" /\ UNCHANGED <<i, totals>>
       ELSE i' = i + 1 /\ totals' = Plus(totals, entries[i]) /\ UNCHANGED pc
    /\ UNCHANGED <<listing, records, fields, entries, names, ends, tally, lost>>

EntryIsDirty(e) == ~(e.x = " " /\ e.y = " ") /\ ~(e.x = "!" /\ e.y = "!")
IsDirty(es) == \E k \in 1 .. Len(es) : EntryIsDirty(es[k])

-----------------------------------------------------------------------------

Over == pc \in {"done", "failed"} /\ UNCHANGED vars

Next ==
    \/ Reports \/ ReportsAgain \/ LoseField \/ GitExits
    \/ ParseNext \/ StatusParsed \/ NamesParsed \/ NumstatParsed \/ SumNext \/ Over

Spec == Init /\ [][Next]_vars
=============================================================================
