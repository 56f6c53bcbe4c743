---------------------------- MODULE SessionProps ----------------------------
(***************************************************************************)
(* What patchrun, the command and who sits at the terminal may expect of   *)
(* the stdin they share, and of a command that is cut off.                 *)
(***************************************************************************)
EXTENDS Session

\* Without a PTY the command shares patchrun's stdin only in a run that asks no
\* menu afterwards.  (willPromptAfterChild foresees what dispatchActions decides.)
NoMenuAfterSharing == (call.stdin /\ ~call.pty) => spc # "menu"

\* If a menu hears the end of stdin although its lines were in the pipe, then an
\* earlier question had read them ahead or the command ran under a PTY.
\* (runChildCommand keeps stdin from the command; every prompt has its own reader.)
MenuIsHeard ==
    (exit = "discarded" /\ \E by \in Readers : <<"menu", by>> \in taken) =>
        asked # {} \/ call.pty \/ <<"menu", "menu">> \in taken

\* Whatever the command did and however it was cut off, the terminal is no longer
\* raw when a question is asked or patchrun ends.  (runWithPTY.)
TerminalRestored == spc \in {"dirty", "pty", "menu", "done"} => ~raw

\* A command that patchrun has killed does not count as successful, even when it
\* had just ended by itself.  (run.Run and Cmd.Wait.)
KilledIsNoSuccess == (rpc = "done" /\ watcher = "killed") => result.exit # "ok"

\* When run.Run returns after it has cut a command off, every helper that the command
\* had before the group was signalled has been told to end, also when the command
\* ended first.  (killProcessGroup.  It does not say that of the strays, which a
\* command that outlives SIGTERM forks before it is killed.)
NobodyOverlooked ==
    (rpc = "done" /\ watcher \in {"killed", "told"}) => \A h \in Helpers : helper[h] # "alive"

\* A run under a PTY returns once the command has ended, though the pump may wait
\* for a line that nobody ever types.  (.agents/rules/40-interactive-pty.md: "PTY
\* run returns promptly after child exit".)
PromptReturn == leader = "zombie" ~> (rpc = "done" \/ spc = "done")

\* A deadline or a signal ends run.Run, also when the command was stopped because
\* it read the terminal from the background.  (cmd.Cancel.)
CutOffEnds == (rpc = "wait" /\ ctx # "live") ~> (rpc = "done" \/ spc = "done")

\* Each line typed at the terminal reaches the reader it was typed for.  (Stated in
\* the comment of willPromptAfterChild: "the child must not be given that reader".)
EachLineToItsReader ==
    tty => \A t \in taken : t[1] = t[2] \/ t = <<"child", "pump">>
=============================================================================
