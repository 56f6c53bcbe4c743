------------------------------ MODULE Session ------------------------------
(***************************************************************************)
(* One patchrun and its stdin: the question about a dirty tree, the        *)
(* question whether to run the command under a PTY, the command itself     *)
(* (Exec) and the menu read one after another from the same stdin, each    *)
(* question through a buffered reader of its own.  What happens to the     *)
(* repository meanwhile is Runner's.                                       *)
(***************************************************************************)
EXTENDS Exec

CONSTANT MaxTyped       \* bound on the lines typed for each reader

ASSUME SessionAssumption == MaxTyped \in Nat \ {0}

VARIABLES
    opts,       \* the options that decide who reads stdin
    spc,        \* where execute stands
    exit,       \* how the run ended
    buf,        \* what the prompt on display has read ahead
    asked,      \* history: the questions asked before the command
    typed       \* history: lines typed for each reader

sessionVars == <<opts, spc, exit, buf, asked, typed>>
vars == <<execVars, sessionVars>>

\* action: any of --apply, --save and --stdout; likely: the command is one of
\* those taken for interactive; dirty: the tree is, and nothing was said of it;
\* null: stdin is /dev/null, which StdinIsTTY takes for a terminal.
SessionOptions ==
    {o \in [interactive : BOOLEAN, noInteractive : BOOLEAN, action : BOOLEAN, json : BOOLEAN,
            mode : {"ask", "strict", "allow"}, likely : BOOLEAN, dirty : BOOLEAN, null : BOOLEAN] :
        ~(o.interactive /\ o.noInteractive)}

\* Any character device.
StdinIsTTY(o) == tty \/ o.null

CanPrompt(o) ==
    /\ ~o.noInteractive
    /\ o.json => o.interactive
    /\ o.interactive \/ StdinIsTTY(o)

\* slip: a menu is only expected at a terminal
WillPromptAtTerminal(o) ==
    /\ ~o.noInteractive
    /\ ~(o.action \/ o.json)
    /\ StdinIsTTY(o)

WillPromptAfterChild(o) ==
    /\ ~o.noInteractive
    /\ ~(o.action \/ o.json)
    /\ o.interactive \/ StdinIsTTY(o)

\* dispatchActions.
GoesToMenu(o) == ~o.json /\ CanPrompt(o) /\ ~o.action /\ ~o.noInteractive

AsksForPTY(o) == o.mode = "ask" /\ o.likely /\ CanPrompt(o)

\* What somebody writes to the pipe who knows the questions that will come.
Script(o) ==
    (IF o.dirty /\ CanPrompt(o) THEN <<"dirty">> ELSE <<>>)
    \o (IF AsksForPTY(o) THEN <<"pty">> ELSE <<>>)
    \o (IF wants THEN <<"child">> ELSE <<>>)
    \o (IF GoesToMenu(o) THEN <<"menu", "menu">> ELSE <<>>)

Init ==
    /\ ExecInit
    /\ opts \in SessionOptions /\ ~(tty /\ opts.null)
    /\ queue \in IF StdinIsTTY(opts) THEN {<<>>} ELSE {<<>>, Script(opts)}
    /\ spc = "begin" /\ exit = "none" /\ buf = <<>> /\ asked = {}
    /\ typed = [t \in Tags |-> 0]

-----------------------------------------------------------------------------
(* Prompter.                                                               *)

\* A new bufio.Reader: what an earlier one has read ahead is lost.
Ask(tag) ==
    /\ buf' = <<>>
    /\ asked' = IF tag = "menu" THEN asked ELSE asked \cup {tag}

\* A line is there.  A read of a terminal gives one line and of a pipe all there
\* is, and waits while the pump is in a read of the same file.
Hears(tag) ==
    IF buf # <<>> THEN buf' = Tail(buf) /\ UNCHANGED <<queue, taken>>
    ELSE /\ queue # <<>> /\ pump # "reading"
         /\ buf' = IF tty THEN <<>> ELSE Tail(queue)
         /\ queue' = IF tty THEN Tail(queue) ELSE <<>>
         /\ Take(IF tty THEN <<Head(queue)>> ELSE queue, tag)

\* The end of a pipe, /dev/null, or Ctrl-D.
HearsEOF == buf = <<>> /\ queue = <<>> /\ pump # "reading"

Ends(code) == spc' = "done" /\ exit' = code

-----------------------------------------------------------------------------
(* execute.                                                                *)

DirtyCheck ==
    /\ spc = "begin"
    /\ \/ ~opts.dirty /\ spc' = "setup" /\ UNCHANGED <<exit, buf, asked>>
       \/ opts.dirty /\ CanPrompt(opts) /\ spc' = "dirty" /\ Ask("dirty") /\ UNCHANGED exit
       \/ opts.dirty /\ ~CanPrompt(opts) /\ Ends("dirty") /\ UNCHANGED <<buf, asked>>
    /\ UNCHANGED <<execVars, opts, typed>>

DirtyAnswer ==
    /\ spc = "dirty"
    /\ \/ /\ Hears("dirty")
          /\ (spc' = "setup" /\ UNCHANGED exit) \/ Ends("dirty")
       \/ HearsEOF /\ Ends("dirty") /\ UNCHANGED <<buf, queue, taken>>
    /\ UNCHANGED <<call, rpc, process, context, ptyVars, result, tty, opts, asked, typed>>

\* setupTempWorktree, whose git is not started in a cancelled context.
Setup ==
    /\ spc = "setup"
    /\ \/ ~interrupted /\ spc' = "policy" /\ UNCHANGED exit
       \/ interrupted /\ Ends("failure")
    /\ UNCHANGED <<execVars, opts, buf, asked, typed>>

RunChild(pty) ==
    /\ spc' = "run" /\ rpc' = "start"
    /\ call' = [call EXCEPT !.pty = pty, !.stdin = pty \/ ~WillPromptAfterChild(opts)]
    /\ UNCHANGED exit

\* shouldUsePTYForChild.
Policy ==
    /\ spc = "policy"
    /\ \/ opts.mode = "allow" /\ RunChild(TRUE) /\ UNCHANGED <<buf, asked>>
       \/ opts.mode # "allow" /\ ~opts.likely /\ RunChild(FALSE) /\ UNCHANGED <<buf, asked>>
       \/ AsksForPTY(opts) /\ spc' = "pty" /\ Ask("pty") /\ UNCHANGED <<call, rpc, exit>>
       \/ /\ opts.mode # "allow" /\ opts.likely /\ ~AsksForPTY(opts)
          /\ Ends("usage") /\ UNCHANGED <<call, rpc, buf, asked>>
    /\ UNCHANGED <<process, context, ptyVars, result, stdin, opts, typed>>

PTYAnswer ==
    /\ spc = "pty"
    /\ \/ Hears("pty") /\ (RunChild(TRUE) \/ (Ends("usage") /\ UNCHANGED <<call, rpc>>))
       \/ HearsEOF /\ Ends("usage") /\ UNCHANGED <<buf, queue, taken, call, rpc>>
    /\ UNCHANGED <<process, context, ptyVars, result, tty, opts, asked, typed>>

\* The patch is captured, unless the run was interrupted.  Without one, or without
\* a menu, stdin is not read any more.
AfterRun ==
    /\ spc = "run" /\ rpc = "done"
    /\ \/ interrupted /\ Ends("failure") /\ UNCHANGED <<buf, asked>>
       \/ ~interrupted /\ Ends("ended") /\ UNCHANGED <<buf, asked>>
       \/ ~interrupted /\ GoesToMenu(opts) /\ spc' = "menu" /\ Ask("menu") /\ UNCHANGED exit
    /\ UNCHANGED <<execVars, opts, typed>>

\* dispatchInteractive: some answers lead back to the menu.
MenuAnswer ==
    /\ spc = "menu"
    /\ \/ Hears("menu") /\ (UNCHANGED <<spc, exit>> \/ Ends("chosen"))
       \/ HearsEOF /\ Ends("discarded") /\ UNCHANGED <<buf, queue, taken>>
    /\ UNCHANGED <<call, rpc, process, context, ptyVars, result, tty, opts, asked, typed>>

-----------------------------------------------------------------------------
(* Who sits at the terminal types for what is on display.                  *)

OnDisplay(tag) ==
    IF tag = "child" THEN leader = "running" /\ call.pty ELSE spc = tag

Types(tag) ==
    /\ tty /\ queue = <<>> /\ OnDisplay(tag) /\ typed[tag] < MaxTyped
    /\ queue' = <<tag>> /\ typed' = [typed EXCEPT ![tag] = @ + 1]
    /\ UNCHANGED <<call, rpc, process, context, ptyVars, result, tty, taken>>
    /\ UNCHANGED <<opts, spc, exit, buf, asked>>

Done == spc = "done" /\ UNCHANGED vars

\* At the terminal somebody may never type a further line.
Waits ==
    /\ tty /\ \/ spc \in {"dirty", "pty", "menu"}
              \/ leader = "running" /\ wants
              \/ leader = "stopped"
    /\ UNCHANGED vars

\* When patchrun has ended its goroutines have, too.
Next ==
    \/ spc # "done" /\ ExecNext /\ UNCHANGED sessionVars
    \/ DirtyCheck \/ DirtyAnswer \/ Setup \/ Policy \/ PTYAnswer \/ AfterRun \/ MenuAnswer
    \/ \E tag \in Tags : Types(tag)
    \/ Waits \/ Done

Spec == Init /\ [][Next]_vars

\* The Go runtime runs its goroutines and the kernel starts and kills processes;
\* nothing is asked of the command, its helpers or of who sits at the terminal.
FairSpec ==
    /\ Spec
    /\ WF_vars(Main /\ UNCHANGED sessionVars)
    /\ WF_vars(Watcher /\ UNCHANGED sessionVars)
=============================================================================
