-------------------------------- MODULE Exec --------------------------------
(***************************************************************************)
(* run.Run: one command, its background helpers, the goroutine that waits  *)
(* for it, os/exec's watcher of the context, and for a command under a PTY *)
(* the pump that copies patchrun's stdin to it.  Stdin is a terminal at    *)
(* which lines are typed one by one, or a pipe that holds everything from  *)
(* the start; a line is known by the reader it was meant for.              *)
(***************************************************************************)
EXTENDS Naturals, Sequences

CONSTANT Helpers        \* processes the command may leave in its process group

VARIABLES
    call,       \* the arguments of run.Run and what the command is like
    rpc,        \* where run.Run's own goroutine stands
    leader,     \* the command
    end,        \* how it ended
    wants,      \* it waits for a line of input before it ends
    helper,     \* per helper: what has become of it
    ctx,        \* the Err() of the run's context
    interrupted,\* patchrun has been signalled: its own context is cancelled
    watcher,    \* os/exec's goroutine that waits for the context, then calls Cancel
    pump,       \* the goroutine that copies stdin to the PTY
    held,       \* lines the pump has read and not written yet
    fed,        \* lines written to the PTY and not read yet
    ptmx,       \* the PTY's own end is open
    raw,        \* the terminal is in raw mode
    result,     \* what run.Run returns
    tty,        \* stdin is a terminal
    queue,      \* lines that wait at stdin
    taken       \* history: pairs of a line's tag and who took it from stdin

process == <<leader, end, wants, helper>>
context == <<ctx, interrupted, watcher>>
ptyVars == <<pump, held, fed, ptmx, raw>>
stdin == <<tty, queue, taken>>
execVars == <<call, rpc, process, context, ptyVars, result, stdin>>

Tags == {"dirty", "pty", "child", "menu"}
Readers == Tags \cup {"pump"}

\* spec.Stdin and spec.UsePTY, whether there is a timeout, and whether there is
\* such a command.
Calls == [stdin : BOOLEAN, pty : BOOLEAN, timeout : BOOLEAN, found : BOOLEAN]
Results == [exit : {"none", "ok", "fail", "killed", "notFound", "general"},
            timedOut : BOOLEAN]

Take(lines, reader) == taken' = taken \cup {<<lines[k], reader>> : k \in 1 .. Len(lines)}

ExecInit ==
    /\ call \in [stdin : {FALSE}, pty : {FALSE}, timeout : BOOLEAN, found : BOOLEAN]
    /\ rpc = "off" /\ leader = "none" /\ end = "none" /\ wants \in BOOLEAN
    /\ helper = [h \in Helpers |-> "none"]
    /\ ctx = "live" /\ interrupted = FALSE /\ watcher = "off"
    /\ pump = "off" /\ held = <<>> /\ fed = <<>> /\ ptmx = FALSE /\ raw = FALSE
    /\ result = [exit |-> "none", timedOut |-> FALSE]
    /\ tty \in BOOLEAN /\ taken = {}

-----------------------------------------------------------------------------
(* run.Run's own goroutine.                                                *)

Return(exit) ==
    /\ rpc' = "done"
    /\ result' = [exit |-> exit, timedOut |-> ctx = "expired"]

\* exec.Cmd.Start, also under pty.Start: a command that is not there is reported
\* before a context that is over.
StartFails ==
    /\ rpc = "start"
    /\ \/ ~call.found /\ Return("notFound")
       \/ call.found /\ ctx # "live" /\ Return("general")
    /\ UNCHANGED <<call, process, context, ptyVars, stdin>>

\* The command runs in a process group of its own, and under a PTY in a session
\* of its own; there the terminal goes raw and the pump starts.
Start ==
    /\ rpc = "start" /\ call.found /\ ctx = "live"
    /\ rpc' = "wait" /\ leader' = "running" /\ watcher' = "watching"
    /\ ptmx' = call.pty
    /\ raw' = (call.pty /\ call.stdin /\ tty)
    /\ pump' = IF call.pty /\ call.stdin THEN "reading" ELSE "off"
    /\ UNCHANGED <<call, end, wants, helper, ctx, interrupted, held, fed, result, stdin>>

Reap ==
    /\ rpc = "wait" /\ leader = "zombie"
    /\ leader' = "reaped"
    /\ UNCHANGED <<call, rpc, end, wants, helper, context, ptyVars, result, stdin>>

\* slip: the output and the pump are waited for
CollectPump ==
    /\ rpc = "wait" /\ leader = "reaped" /\ watcher # "terming"
    /\ call.pty => pump = "off"
    /\ rpc' = IF call.pty THEN "close" ELSE "return"
    /\ watcher' = IF watcher = "watching" THEN "off" ELSE watcher
    /\ UNCHANGED <<call, process, ctx, interrupted, ptyVars, result, stdin>>

\* The end of Cmd.Wait: a watcher that has done nothing yet is dismissed, and one
\* that is at it is waited for.
Collect ==
    /\ rpc = "wait" /\ leader = "reaped" /\ watcher # "terming"
    /\ rpc' = IF call.pty THEN "close" ELSE "return"
    /\ watcher' = IF watcher = "watching" THEN "off" ELSE watcher
    /\ UNCHANGED <<call, process, ctx, interrupted, ptyVars, result, stdin>>

\* Closing the PTY ends the copy of the output, not that of the input.
ClosePTY ==
    /\ rpc = "close" /\ rpc' = "restore" /\ ptmx' = FALSE
    /\ UNCHANGED <<call, process, context, pump, held, fed, raw, result, stdin>>

\* slip: the early return of a run that was cut off
RestoreUnlessCut ==
    /\ rpc = "restore" /\ rpc' = "return"
    /\ raw' = (raw /\ ctx # "live")
    /\ UNCHANGED <<call, process, context, pump, held, fed, ptmx, result, stdin>>

\* What is deferred.  The kill of the group before it finds no group any more, as
\* the command it would be looked up by has been reaped.
Restore ==
    /\ rpc = "restore" /\ rpc' = "return" /\ raw' = FALSE
    /\ UNCHANGED <<call, process, context, pump, held, fed, ptmx, result, stdin>>

\* slip: asks only how the command ended
ClassifyByEnd == Return(end) /\ rpc = "return"
                 /\ UNCHANGED <<call, process, context, ptyVars, stdin>>

\* A command that was killed by the watcher and still ended well is an error.
Classify ==
    /\ rpc = "return"
    /\ Return(IF end = "ok" /\ watcher = "killed" THEN "general" ELSE end)
    /\ UNCHANGED <<call, process, context, ptyVars, stdin>>

-----------------------------------------------------------------------------
(* The context and its watcher.                                            *)

Deadline ==
    /\ call.timeout /\ rpc \notin {"off", "done"} /\ ctx = "live"
    /\ ctx' = "expired"
    /\ UNCHANGED <<call, rpc, process, interrupted, watcher, ptyVars, result, stdin>>

Signal ==
    /\ ~interrupted /\ interrupted' = TRUE
    /\ ctx' = IF ctx = "live" THEN "cancelled" ELSE ctx
    /\ UNCHANGED <<call, rpc, process, watcher, ptyVars, result, stdin>>

\* slip: only the command itself
KillLeader == UNCHANGED helper

\* Everybody in the group is told to end: by SIGTERM, or under a PTY by the hangup
\* that the end of the session's leader brings.
KillGroup ==
    helper' = [h \in Helpers |-> IF helper[h] = "alive" THEN "signalled" ELSE helper[h]]

\* slip: the command is asked and not killed
TermOnly ==
    \/ leader = "running" /\ leader' = "zombie" /\ end' = "killed"
    \/ leader \in {"stopped", "zombie"} /\ UNCHANGED <<leader, end>>

\* SIGKILL, which may find a command that has just ended by itself.
Kill ==
    \/ /\ leader = "running" /\ leader' = "zombie"
       /\ end' \in {"killed"} \cup (IF call.pty THEN {} ELSE {"ok", "fail"})
    \/ leader = "stopped" /\ leader' = "zombie" /\ end' = "killed"
    \/ leader = "zombie" /\ UNCHANGED <<leader, end>>

\* killProcessGroup first sends SIGTERM to the group, which a command that is not
\* reaped yet still has.
WatcherTerms ==
    /\ watcher = "watching" /\ ctx # "live" /\ ~call.pty
    /\ leader \in {"running", "stopped", "zombie"}
    /\ watcher' = "terming" /\ KillGroup
    /\ UNCHANGED <<call, rpc, leader, end, wants, ctx, interrupted, ptyVars, result, stdin>>

\* Then, or under a PTY at once, Process.Kill.
WatcherKills ==
    /\ IF call.pty THEN watcher = "watching" /\ ctx # "live" /\ KillGroup
                   ELSE watcher = "terming" /\ UNCHANGED helper
    /\ leader \in {"running", "stopped", "zombie"}
    /\ watcher' = "killed" /\ Kill
    /\ UNCHANGED <<call, rpc, wants, ctx, interrupted, ptyVars, result, stdin>>

\* os.ErrProcessDone: the command was reaped before, or after the SIGTERM.
WatcherIsLate ==
    /\ leader = "reaped"
    /\ \/ watcher = "watching" /\ ctx # "live" /\ watcher' = "late"
       \/ watcher = "terming" /\ watcher' = "told"
    /\ UNCHANGED <<call, rpc, process, ctx, interrupted, ptyVars, result, stdin>>

-----------------------------------------------------------------------------
(* The command.                                                            *)

\* A helper forked after the SIGTERM to the group is a stray: nobody tells it.
Forks(h) ==
    /\ leader = "running" /\ helper[h] = "none"
    /\ helper' = [helper EXCEPT ![h] = IF watcher = "terming" THEN "stray" ELSE "alive"]
    /\ UNCHANGED <<call, rpc, leader, end, wants, context, ptyVars, result, stdin>>

\* Also one that has been signalled may live on, if it ignores that.
HelperDies(h) ==
    /\ helper[h] \in {"alive", "signalled", "stray"}
    /\ helper' = [helper EXCEPT ![h] = "gone"]
    /\ UNCHANGED <<call, rpc, leader, end, wants, context, ptyVars, result, stdin>>

\* Reading: what the pump wrote, or the end of a PTY that was closed; all of a
\* pipe; nothing of /dev/null.
Reads ==
    /\ leader = "running" /\ wants /\ wants' = FALSE
    /\ \/ /\ call.pty /\ fed # <<>> /\ fed' = Tail(fed) /\ UNCHANGED stdin
       \/ /\ call.pty /\ ~ptmx /\ fed = <<>> /\ UNCHANGED <<fed, stdin>>
       \/ /\ ~call.pty /\ call.stdin /\ ~tty
          /\ queue' = <<>> /\ Take(queue, "child") /\ UNCHANGED <<tty, fed>>
       \/ /\ ~call.pty /\ ~call.stdin /\ UNCHANGED <<fed, stdin>>
    /\ UNCHANGED <<call, rpc, leader, end, helper, context, pump, held, ptmx, raw, result>>

\* SIGTTIN: a background process group that reads the terminal is stopped, and
\* patchrun does not wait for stopped commands.
Stops ==
    /\ leader = "running" /\ wants /\ ~call.pty /\ call.stdin /\ tty
    /\ leader' = "stopped"
    /\ UNCHANGED <<call, rpc, end, wants, helper, context, ptyVars, result, stdin>>

\* SIGTERM ends a command that does not ignore it.  The end of a session's leader
\* hangs up its helpers, and so does the end of the PTY, which the command may survive.
Exits ==
    /\ leader = "running"
    /\ \/ ~wants /\ end' \in {"ok", "fail"}
       \/ watcher = "terming" /\ end' \in {"ok", "fail", "killed"}
       \/ call.pty /\ ~ptmx /\ end' = "killed"
    /\ leader' = "zombie"
    /\ IF call.pty THEN KillGroup ELSE UNCHANGED helper
    /\ UNCHANGED <<call, rpc, wants, context, ptyVars, result, stdin>>

-----------------------------------------------------------------------------
(* The pump: io.Copy(ptmx, stdin), never waited for.                       *)

PumpReads ==
    /\ pump = "reading" /\ queue # <<>>
    /\ held' = IF tty THEN <<Head(queue)>> ELSE queue
    /\ queue' = IF tty THEN Tail(queue) ELSE <<>>
    /\ pump' = "writing" /\ Take(held', "pump")
    /\ UNCHANGED <<call, rpc, process, context, fed, ptmx, raw, result, tty>>

\* A write to a PTY that was closed ends the pump.
PumpWrites ==
    /\ pump = "writing" /\ held' = <<>>
    /\ \/ ptmx /\ fed' = fed \o held /\ pump' = "reading"
       \/ ~ptmx /\ pump' = "off" /\ UNCHANGED fed
    /\ UNCHANGED <<call, rpc, process, context, ptmx, raw, result, stdin>>

\* At the end of its input, which Ctrl-D gives at a terminal that is not raw, the
\* pump closes the PTY, whoever still runs there.
PumpEnds ==
    /\ pump = "reading" /\ queue = <<>> /\ ~(tty /\ raw)
    /\ pump' = "off" /\ ptmx' = FALSE
    /\ UNCHANGED <<call, rpc, process, context, held, fed, raw, result, stdin>>

-----------------------------------------------------------------------------

Main == StartFails \/ Start \/ Reap \/ Collect \/ ClosePTY \/ Restore \/ Classify
Watcher == WatcherTerms \/ WatcherKills \/ WatcherIsLate
Command == (\E h \in Helpers : Forks(h) \/ HelperDies(h)) \/ Reads \/ Stops \/ Exits
Pump == PumpReads \/ PumpWrites \/ PumpEnds

ExecNext == Main \/ Watcher \/ Deadline \/ Signal \/ Command \/ Pump
=============================================================================
