------------------------------ MODULE MCRunner ------------------------------
(***************************************************************************)
(* Small instances of Runner: a file "a" of two regions that HEAD has, a   *)
(* file "b" it does not have, an ignored file "i", and two contents.       *)
(***************************************************************************)
EXTENDS RunnerProps

MCPathOf == [c \in Cells |-> IF c \in {"a1", "a2"} THEN "a" ELSE c]

Base == [c \in Cells |-> IF c \in {"a1", "a2"} THEN "v1" ELSE None]
Changed == [Base EXCEPT !["a1"] = "v2"]
WithIgnored == [c \in Cells |-> IF c = "i" THEN "v2" ELSE Base[c]]

Clean == <<Base, Base, Base>>
Modified == <<Base, Base, Changed>>
Staged == <<Base, Changed, Changed>>
Untracked == <<Base, Base, [Base EXCEPT !["b"] = "v1"]>>
Removed == <<Base, Base, EmptyTree>>
Uncached == <<Base, EmptyTree, Base>>
Hidden == <<Base, Base, WithIgnored>>
HiddenStaged == <<Base, WithIgnored, WithIgnored>>

MCClean == {Clean}
MCAny == {Clean, Modified, Staged, Untracked, Removed, Uncached}
MCAnyHidden == MCAny \cup {Hidden, HiddenStaged}

\* patchrun --no-interactive -- <command>
Plain ==
    [apply |-> FALSE, threeWay |-> FALSE, check |-> FALSE, reverse |-> FALSE,
     save |-> "none", stdout |-> FALSE, json |-> FALSE, keep |-> FALSE,
     allowDirty |-> FALSE, failOnDirty |-> FALSE, interactive |-> FALSE,
     noInteractive |-> TRUE, mode |-> "ask", timeout |-> FALSE, execs |-> 0,
     snapshot |-> "none", includeIgnored |-> FALSE, includes |-> {},
     excludes |-> {}, worktreeInside |-> FALSE, tty |-> FALSE, tui |-> FALSE, ignoresSaves |-> FALSE]

ApplyDirty == [Plain EXCEPT !.apply = TRUE, !.allowDirty = TRUE]
Menu == [Plain EXCEPT !.interactive = TRUE, !.noInteractive = FALSE]

\* --apply and what may come with it.
MCApply ==
    {ApplyDirty,
     [ApplyDirty EXCEPT !.save = "outside", !.json = TRUE],
     [ApplyDirty EXCEPT !.threeWay = TRUE],
     [ApplyDirty EXCEPT !.check = TRUE, !.json = TRUE, !.threeWay = TRUE]}

\* Which part of what the command did is the patch.
MCSelect ==
    {[ApplyDirty EXCEPT !.includes = {"a"}],
     [ApplyDirty EXCEPT !.excludes = {"a"}],
     [ApplyDirty EXCEPT !.includeIgnored = TRUE, !.threeWay = TRUE],
     [Plain EXCEPT !.allowDirty = TRUE, !.reverse = TRUE, !.stdout = TRUE]}

\* The menu, and the selection of what goes into the patch.
MCMenu ==
    MCSelect \cup
    {[Menu EXCEPT !.excludes = {"b"}], [Menu EXCEPT !.ignoresSaves = TRUE, !.threeWay = TRUE],
     [Menu EXCEPT !.check = TRUE, !.tty = TRUE, !.interactive = FALSE],
     [ApplyDirty EXCEPT !.check = TRUE, !.threeWay = TRUE, !.includeIgnored = TRUE]}

\* What patchrun does when a call fails or a signal comes.
MCTrouble ==
    {[Plain EXCEPT !.apply = TRUE, !.allowDirty = TRUE, !.json = TRUE],
     [ApplyDirty EXCEPT !.keep = TRUE, !.snapshot = "outside", !.execs = 1,
                        !.json = TRUE],
     [ApplyDirty EXCEPT !.threeWay = TRUE, !.save = "inside"],
     [ApplyDirty EXCEPT !.threeWay = TRUE, !.json = TRUE],
     [ApplyDirty EXCEPT !.json = TRUE, !.worktreeInside = TRUE],
     [Plain EXCEPT !.save = "outside", !.stdout = TRUE, !.allowDirty = TRUE]}

\* Dirty trees, terminal programs, deadlines and follow-ups.
MCPolicy ==
    {[Menu EXCEPT !.tui = tui, !.mode = mode, !.timeout = timeout,
                  !.failOnDirty = fail, !.json = json] :
        tui, timeout, fail, json \in BOOLEAN, mode \in {"ask", "strict", "allow"}}
    \cup
    {[Plain EXCEPT !.tui = tui, !.timeout = timeout, !.execs = execs, !.json = json,
                   !.allowDirty = allow] :
        tui, timeout, json, allow \in BOOLEAN, execs \in {0, 2}}

\* One option record for each statement of the documentation that is checked.
MCReverseApply == {[ApplyDirty EXCEPT !.reverse = TRUE]}
MCSaveInside == {[ApplyDirty EXCEPT !.save = "inside"]}
=============================================================================
