--------------------------- MODULE GitOutputProps ---------------------------
(***************************************************************************)
(* What patchrun may conclude from the output of git that it has parsed,   *)
(* with paths that look like records and output that stops too early.      *)
(***************************************************************************)
EXTENDS GitOutput

\* The entry a record should become.
Wanted(l, c) ==
    CASE l = "status" -> c
      [] l = "nameStatus" -> [letter |-> c.letter, path |-> c.path, old |-> c.old]
      [] l = "numstat" -> [binary |-> Counted(c).binary, ins |-> Counted(c).ins,
                           del |-> Counted(c).del, path |-> c.path, old |-> c.old]

\* es are the entries of the first records, or of all of them.
Begins(es, l) ==
    /\ Len(es) <= Len(records)
    /\ \A k \in 1 .. Len(es) : es[k] = Wanted(l, records[k])
Matches(es, l) == Len(es) = Len(records) /\ Begins(es, l)

Whole == lost = 0

\* The status is read as git has printed it, also when the old name of a rename
\* looks like a record; so the tree is taken for dirty exactly when it is.
\* (parsePorcelainZ, IsDirty.)
StatusIsRead ==
    Whole /\ listing = "status" =>
        /\ pc # "failed"
        /\ pc = "done" => Matches(entries, "status") /\ (IsDirty(entries) <=> records # <<>>)

\* The two listings of one diff, printed and parsed differently, tell of the same
\* files in the same order, old and new name each in its place, and the totals are
\* those of the diff.  (ParseNameStatusZ, ParseNumstatZ and Sum, in parseSummary.)
SummaryAgrees ==
    Whole /\ listing # "status" =>
        /\ pc # "failed"
        /\ pc = "done" =>
            /\ Matches(names, "nameStatus") /\ Matches(entries, "numstat")
            /\ totals = [(IF tally = <<>> THEN NoTotals ELSE tally[Len(tally)])
                            EXCEPT !.files = Len(records)]

\* Output that stops between two fields gives an error or the entries it began
\* with: never an entry put together from half a record.  (The bounds checks.)
CutIsNoticed == Begins(entries, listing) /\ Begins(names, "nameStatus")
=============================================================================
