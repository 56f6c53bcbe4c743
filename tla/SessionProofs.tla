--------------------------- MODULE SessionProofs ---------------------------
(***************************************************************************)
(* Theorems about the stdin and the command of one run, for every set of   *)
(* options, every number of helpers and any number of lines typed.         *)
(***************************************************************************)
EXTENDS SessionProps, TLAPS

InCall == {"start", "wait", "close", "restore", "return"}
BeforeCall == {"begin", "dirty", "setup", "policy", "pty"}
Collected == {"close", "restore", "return", "done"}

Types0 ==
    /\ call \in Calls /\ opts \in SessionOptions /\ tty \in BOOLEAN /\ raw \in BOOLEAN
    /\ helper \in [Helpers -> {"none", "alive", "signalled", "stray", "gone"}]

\* Where stdin goes is decided once and by the same options as the menu.
StdinInv ==
    /\ (call.stdin /\ ~call.pty) => ~WillPromptAfterChild(opts)
    /\ spc = "menu" => GoesToMenu(opts)

Acts == {"terming", "told", "killed"}

\* A watcher acts only while the command is waited for, and once it has begun to no
\* helper is alive but strays.
WatcherInv ==
    /\ rpc \in {"off", "start"} => watcher = "off"
    /\ rpc \in Collected => watcher \notin {"watching", "terming"}
    /\ watcher \in {"told", "killed"} => leader \in {"zombie", "reaped"}
    /\ watcher \in Acts => \A h \in Helpers : helper[h] # "alive"
    /\ (rpc = "done" /\ watcher = "killed") => result.exit # "ok"

RawInv ==
    /\ rpc \in InCall => spc = "run"
    /\ spc \in BeforeCall => rpc = "off"
    /\ raw => call.pty /\ rpc \in {"wait", "close", "restore"}

SessionInv == Types0 /\ StdinInv /\ WatcherInv /\ RawInv

\* What willPromptAfterChild foresees is what dispatchActions decides.
LEMMA MenuIsForeseen ==
    ASSUME opts \in SessionOptions, tty \in BOOLEAN
    PROVE  GoesToMenu(opts) <=> WillPromptAfterChild(opts)
BY DEF SessionOptions, GoesToMenu, CanPrompt, StdinIsTTY, WillPromptAfterChild

LEMMA SessionInit == Init => SessionInv
<1> SUFFICES ASSUME Init PROVE SessionInv
  OBVIOUS
<1>1. Types0
  BY DEF Init, ExecInit, Types0, Calls
<1>2. ~call.stdin /\ spc = "begin" /\ rpc = "off" /\ watcher = "off" /\ raw = FALSE
  BY DEF Init, ExecInit
<1> QED
  BY <1>1, <1>2 DEF SessionInv, StdinInv, WatcherInv, Acts, RawInv, InCall, BeforeCall, Collected

-----------------------------------------------------------------------------
(* The steps of run.Run and of what goes on beside it.                     *)

LEMMA MainKeeps ==
    ASSUME SessionInv, Main, UNCHANGED sessionVars
    PROVE  SessionInv'
<1>1. Types0'
  BY DEF SessionInv, Types0, Main, StartFails, Start, Reap, Collect, ClosePTY, Restore,
         Classify, Return, sessionVars, execVars, process, context, ptyVars, stdin, Calls
<1>2. StdinInv'
  BY DEF SessionInv, StdinInv, Main, StartFails, Start, Reap, Collect, ClosePTY, Restore,
         Classify, Return, sessionVars, execVars, process, context, ptyVars, stdin,
         WillPromptAfterChild, GoesToMenu, CanPrompt, StdinIsTTY
<1>3. RawInv'
  <2>1. spc' = spc /\ rpc \in InCall
    BY DEF Main, StartFails, Start, Reap, Collect, ClosePTY, Restore, Classify, sessionVars, InCall
  <2>2. spc = "run"
    BY <2>1 DEF SessionInv, RawInv
  <2>3. raw' => call'.pty /\ rpc' \in {"wait", "close", "restore"}
    <3>1. CASE Start \/ Collect \/ ClosePTY \/ Restore
      BY <3>1 DEF SessionInv, RawInv, Start, Collect, ClosePTY, Restore, ptyVars
    <3>2. CASE StartFails \/ Reap \/ Classify
      BY <3>2 DEF SessionInv, RawInv, StartFails, Reap, Classify, Return, ptyVars
    <3> QED
      BY <3>1, <3>2 DEF Main
  <2> QED
    BY <2>1, <2>2, <2>3 DEF RawInv, BeforeCall
<1>4. WatcherInv'
  <2>1. CASE StartFails
    BY <2>1 DEF SessionInv, WatcherInv, Acts, Collected, StartFails, Return, process, context
  <2>2. CASE Start
    BY <2>2 DEF SessionInv, WatcherInv, Acts, Collected, Start
  <2>3. CASE Reap
    BY <2>3 DEF SessionInv, WatcherInv, Acts, Collected, Reap, context
  <2>4. CASE Collect
    BY <2>4 DEF SessionInv, WatcherInv, Acts, Collected, Collect, process
  <2>5. CASE ClosePTY \/ Restore
    BY <2>5 DEF SessionInv, WatcherInv, Acts, Collected, ClosePTY, Restore, process, context
  <2>6. CASE Classify
    BY <2>6 DEF SessionInv, WatcherInv, Acts, Collected, Classify, Return, process, context
  <2> QED
    BY <2>1, <2>2, <2>3, <2>4, <2>5, <2>6 DEF Main
<1> QED
  BY <1>1, <1>2, <1>3, <1>4 DEF SessionInv

LEMMA WatcherKeeps ==
    ASSUME SessionInv, Watcher, UNCHANGED sessionVars
    PROVE  SessionInv'
<1>1. Types0' /\ StdinInv' /\ RawInv'
  BY DEF SessionInv, Types0, StdinInv, RawInv, InCall, BeforeCall, Watcher, WatcherTerms, WatcherKills, WatcherIsLate,
         KillGroup, sessionVars, process, context, ptyVars, stdin,
         WillPromptAfterChild, GoesToMenu, CanPrompt, StdinIsTTY
<1>2. WatcherInv'
  <2>1. CASE WatcherKills
    <3>1. \A h \in Helpers : helper'[h] # "alive"
      BY <2>1 DEF WatcherKills, KillGroup, SessionInv, WatcherInv, Acts
    <3>2. leader' = "zombie"
      BY <2>1 DEF WatcherKills, Kill
    <3> QED
      BY <2>1, <3>1, <3>2 DEF SessionInv, WatcherInv, Acts, Collected, WatcherKills
  <2>2. CASE WatcherIsLate
    BY <2>2 DEF SessionInv, WatcherInv, Acts, Collected, WatcherIsLate, process
  <2>3. CASE WatcherTerms
    <3>1. \A h \in Helpers : helper'[h] # "alive"
      BY <2>3 DEF WatcherTerms, KillGroup
    <3> QED
      BY <2>3, <3>1 DEF SessionInv, WatcherInv, Acts, Collected, WatcherTerms
  <2> QED
    BY <2>1, <2>2, <2>3 DEF Watcher
<1> QED
  BY <1>1, <1>2 DEF SessionInv

LEMMA CommandKeeps ==
    ASSUME SessionInv, Command, UNCHANGED sessionVars
    PROVE  SessionInv'
<1>1. Types0'
  BY DEF SessionInv, Types0, Command, Forks, HelperDies, Reads, Stops, Exits, KillGroup,
         sessionVars, process, context, ptyVars, stdin
<1>2. StdinInv' /\ RawInv'
  BY DEF SessionInv, StdinInv, RawInv, InCall, BeforeCall, Command, Forks, HelperDies, Reads, Stops, Exits,
         sessionVars, context, ptyVars, stdin, WillPromptAfterChild, GoesToMenu, CanPrompt, StdinIsTTY
<1>3. UNCHANGED <<rpc, watcher, result>>
  BY DEF Command, Forks, HelperDies, Reads, Stops, Exits, context
<1>4. WatcherInv'
  <2>1. CASE Reads \/ Stops
    BY <2>1, <1>3 DEF SessionInv, WatcherInv, Acts, Collected, Reads, Stops
  <2>2. CASE Exits
    <3>1. (\A h \in Helpers : helper'[h] # "alive") \/ helper' = helper
      BY <2>2 DEF Exits, KillGroup
    <3>2. leader = "running"
      BY <2>2 DEF Exits
    <3> QED
      BY <3>1, <3>2, <1>3 DEF SessionInv, WatcherInv, Acts, Collected
  <2>3. ASSUME NEW h \in Helpers, Forks(h) \/ HelperDies(h) PROVE WatcherInv'
    <3>1. helper \in [Helpers -> {"none", "alive", "signalled", "stray", "gone"}] /\ leader' = leader
      BY <2>3 DEF SessionInv, Types0, Forks, HelperDies
    <3>2. helper'[h] # "alive" \/ (watcher # "terming" /\ leader = "running")
      BY <2>3, <3>1 DEF Forks, HelperDies
    <3>3. \A g \in Helpers \ {h} : helper'[g] = helper[g]
      BY <2>3, <3>1 DEF Forks, HelperDies
    <3>4. watcher \in Acts => \A g \in Helpers : helper'[g] # "alive"
      BY <3>2, <3>3 DEF SessionInv, WatcherInv, Acts
    <3> QED
      BY <1>3, <3>1, <3>4 DEF SessionInv, WatcherInv, Acts, Collected
  <2> QED
    BY <2>1, <2>2, <2>3 DEF Command
<1> QED
  BY <1>1, <1>2, <1>4 DEF SessionInv

\* The deadline, a signal and the pump touch nothing the invariant speaks of.
LEMMA OthersKeep ==
    ASSUME SessionInv, Deadline \/ Signal \/ Pump, UNCHANGED sessionVars
    PROVE  SessionInv'
<1>1. UNCHANGED <<call, rpc, process, watcher, raw, result, tty, opts, spc>>
  BY DEF Deadline, Signal, Pump, PumpReads, PumpWrites, PumpEnds, sessionVars, context,
         ptyVars, stdin
<1> QED
  BY <1>1 DEF SessionInv, Types0, StdinInv, WatcherInv, RawInv, InCall, BeforeCall, Collected, process,
              WillPromptAfterChild, GoesToMenu, CanPrompt, StdinIsTTY

-----------------------------------------------------------------------------
(* The steps of execute and of who sits at the terminal.                   *)

\* Between the commands: of what the invariant speaks of only spc changes, and not
\* to the menu.
LEMMA AskingKeeps ==
    ASSUME SessionInv, DirtyCheck \/ DirtyAnswer \/ Setup
    PROVE  SessionInv'
<1>1. UNCHANGED <<call, rpc, process, watcher, raw, result, tty, opts>>
  BY DEF DirtyCheck, DirtyAnswer, Setup, execVars, context, ptyVars, stdin
<1>2. spc \in BeforeCall /\ spc' \in {"dirty", "setup", "policy", "done"}
  BY DEF BeforeCall, DirtyCheck, DirtyAnswer, Setup, Ends
<1> QED
  BY <1>1, <1>2 DEF SessionInv, Types0, StdinInv, WatcherInv, RawInv, InCall, BeforeCall, Collected,
                    process, WillPromptAfterChild, GoesToMenu, CanPrompt, StdinIsTTY

LEMMA RunChildKeeps ==
    ASSUME SessionInv, spc \in {"policy", "pty"}, NEW pty \in BOOLEAN, RunChild(pty),
           UNCHANGED <<process, watcher, raw, result, tty, opts>>
    PROVE  SessionInv'
<1>1. WillPromptAfterChild(opts) \in BOOLEAN
  BY DEF WillPromptAfterChild, StdinIsTTY
<1>2. call' \in Calls /\ call'.pty = pty /\ call'.stdin = (pty \/ ~WillPromptAfterChild(opts))
  BY <1>1 DEF SessionInv, Types0, RunChild, Calls
<1>3. StdinInv'
  BY <1>2 DEF StdinInv, RunChild, WillPromptAfterChild, StdinIsTTY
<1> QED
  BY <1>2, <1>3 DEF SessionInv, Types0, WatcherInv, RawInv, InCall, BeforeCall, Collected, RunChild, process
LEMMA PolicyKeeps ==
    ASSUME SessionInv, Policy \/ PTYAnswer
    PROVE  SessionInv'
<1>1. spc \in {"policy", "pty"} /\ UNCHANGED <<process, watcher, raw, result, tty, opts>>
  BY DEF Policy, PTYAnswer, context, ptyVars, stdin
<1>2. CASE \E pty \in BOOLEAN : RunChild(pty)
  BY <1>1, <1>2, RunChildKeeps
<1>3. CASE spc' \in {"pty", "done"} /\ UNCHANGED <<call, rpc>>
  BY <1>1, <1>3 DEF SessionInv, Types0, StdinInv, WatcherInv, RawInv, InCall, BeforeCall,
                    Collected, process, WillPromptAfterChild, GoesToMenu, CanPrompt, StdinIsTTY
<1> QED
  BY <1>2, <1>3 DEF Policy, PTYAnswer, Ends

LEMMA AfterKeeps ==
    ASSUME SessionInv, AfterRun \/ MenuAnswer
    PROVE  SessionInv'
<1>1. UNCHANGED <<call, rpc, process, watcher, raw, result, tty, opts>>
  BY DEF AfterRun, MenuAnswer, execVars, context, ptyVars, stdin
<1>2. spc' \in {"menu", "done"} /\ (spc' = "menu" => GoesToMenu(opts))
  BY DEF SessionInv, StdinInv, AfterRun, MenuAnswer, Ends
<1>3. rpc \notin InCall
  BY DEF SessionInv, RawInv, AfterRun, MenuAnswer, InCall
<1> QED
  BY <1>1, <1>2, <1>3 DEF SessionInv, Types0, StdinInv, WatcherInv, RawInv, InCall, BeforeCall,
                    Collected, process, WillPromptAfterChild, GoesToMenu, CanPrompt, StdinIsTTY

LEMMA IdleKeeps ==
    ASSUME SessionInv, (\E tag \in Tags : Types(tag)) \/ UNCHANGED vars
    PROVE  SessionInv'
<1>1. UNCHANGED <<call, rpc, process, watcher, raw, result, tty, opts, spc>>
  BY DEF Types, vars, execVars, sessionVars, context, ptyVars, stdin
<1> QED
  BY <1>1 DEF SessionInv, Types0, StdinInv, WatcherInv, RawInv, InCall, BeforeCall,
              Collected, process, WillPromptAfterChild, GoesToMenu, CanPrompt, StdinIsTTY

-----------------------------------------------------------------------------
LEMMA SessionNext == SessionInv /\ [Next]_vars => SessionInv'
<1> SUFFICES ASSUME SessionInv, [Next]_vars PROVE SessionInv'
  OBVIOUS
<1>1. CASE ExecNext /\ UNCHANGED sessionVars
  BY <1>1, MainKeeps, WatcherKeeps, CommandKeeps, OthersKeep DEF ExecNext
<1>2. CASE DirtyCheck \/ DirtyAnswer \/ Setup
  BY <1>2, AskingKeeps
<1>3. CASE Policy \/ PTYAnswer
  BY <1>3, PolicyKeeps
<1>4. CASE AfterRun \/ MenuAnswer
  BY <1>4, AfterKeeps
<1>5. CASE (\E tag \in Tags : Types(tag)) \/ Waits \/ Done \/ UNCHANGED vars
  BY <1>5, IdleKeeps DEF Waits, Done
<1> QED
  BY <1>1, <1>2, <1>3, <1>4, <1>5 DEF Next

LEMMA SessionSafe == Spec => []SessionInv
BY SessionInit, SessionNext, PTL DEF Spec

\* Without a PTY the command shares patchrun's stdin only in a run without a menu:
\* willPromptAfterChild foresees what dispatchActions decides, for all options.
THEOREM SharingIsSafe == Spec => []NoMenuAfterSharing
<1>1. SessionInv => NoMenuAfterSharing
  BY MenuIsForeseen DEF SessionInv, Types0, StdinInv, NoMenuAfterSharing
<1> QED
  BY <1>1, SessionSafe, PTL

\* No question is asked, and patchrun does not end, while the terminal is raw.
THEOREM TerminalIsRestored == Spec => []TerminalRestored
<1>1. SessionInv => TerminalRestored
  BY DEF SessionInv, RawInv, InCall, TerminalRestored
<1> QED
  BY <1>1, SessionSafe, PTL

\* run.Run reports no success for a command that the watcher has killed, however the
\* command's own end, the deadline, signals and the watcher interleave.
THEOREM NoFalseSuccess == Spec => []KilledIsNoSuccess
<1>1. SessionInv => KilledIsNoSuccess
  BY DEF SessionInv, WatcherInv, KilledIsNoSuccess
<1> QED
  BY <1>1, SessionSafe, PTL

\* No helper that the command had before SIGTERM went to its group is overlooked when
\* the command is cut off, however many there are and however the command's own end
\* and the two steps of killProcessGroup interleave.
THEOREM GroupIsKilled == Spec => []NobodyOverlooked
<1>1. SessionInv => NobodyOverlooked
  BY DEF SessionInv, WatcherInv, Acts, NobodyOverlooked
<1> QED
  BY <1>1, SessionSafe, PTL

-----------------------------------------------------------------------------
(* Who has taken the lines of stdin.                                       *)

Sharing == rpc # "off" /\ (call.pty \/ call.stdin)

\* Before the command only questions read, beside it only the command and its pump.
HeardInv ==
    /\ rpc = "off" => pump = "off" /\ leader = "none"
    /\ pump # "off" => call.pty
    /\ spc \in {"dirty", "pty"} => asked # {}
    /\ exit = "discarded" => GoesToMenu(opts)
    /\ \A t \in taken : t[2] = "menu" \/ asked # {} \/ Sharing

LEMMA TakenBy ==
    ASSUME NEW lines, NEW reader, Take(lines, reader)
    PROVE  \A t \in taken' : t \in taken \/ t[2] = reader
BY DEF Take

LEMMA CallsHeard ==
    ASSUME HeardInv, ExecNext, UNCHANGED sessionVars
    PROVE  HeardInv'
<1>f. UNCHANGED <<opts, spc, exit, asked>>
  BY DEF sessionVars
<1>1. ASSUME Main PROVE HeardInv'
  <2>1. rpc # "off" /\ rpc' # "off" /\ UNCHANGED <<call, stdin>>
        /\ (pump' = pump \/ (pump' # "off" => call.pty))
    BY <1>1 DEF Main, StartFails, Start, Reap, Collect, ClosePTY, Restore, Classify, Return,
       ptyVars
  <2> QED
    BY <1>f, <2>1 DEF HeardInv, Sharing, stdin, GoesToMenu, CanPrompt, StdinIsTTY
<1>2. ASSUME Watcher \/ Deadline \/ Signal \/ (\E h \in Helpers : Forks(h) \/ HelperDies(h))
             \/ Stops \/ Exits
      PROVE  HeardInv'
  <2>1. UNCHANGED <<call, rpc, pump, stdin>> /\ (leader = "none" => leader' = "none")
    BY <1>2 DEF Watcher, WatcherTerms, WatcherKills, WatcherIsLate, Kill, Deadline, Signal, Forks, HelperDies,
       Stops, Exits, ptyVars, process
  <2> QED
    BY <1>f, <2>1 DEF HeardInv, Sharing, stdin, GoesToMenu, CanPrompt, StdinIsTTY
<1>3. ASSUME Reads PROVE HeardInv'
  <2>1. UNCHANGED <<call, rpc, pump, leader, tty>> /\ leader = "running"
    BY <1>3 DEF Reads, stdin
  <2>2. \A t \in taken' : t \in taken \/ call.stdin
    BY <1>3, TakenBy DEF Reads, stdin
  <2> QED
    BY <1>f, <2>1, <2>2 DEF HeardInv, Sharing, GoesToMenu, CanPrompt, StdinIsTTY
<1>4. ASSUME Pump PROVE HeardInv'
  <2>1. UNCHANGED <<call, rpc, process, tty>> /\ pump # "off"
    BY <1>4 DEF Pump, PumpReads, PumpWrites, PumpEnds, stdin
  <2> QED
    BY <1>f, <2>1 DEF HeardInv, Sharing, GoesToMenu, CanPrompt, StdinIsTTY, process
<1> QED
  BY <1>1, <1>2, <1>3, <1>4 DEF ExecNext, Command

LEMMA QuestionsHeard ==
    ASSUME SessionInv, HeardInv, DirtyCheck \/ DirtyAnswer \/ Setup \/ AfterRun \/ MenuAnswer
    PROVE  HeardInv'
<1>1. UNCHANGED <<call, rpc, leader, pump, opts, tty>>
  BY DEF DirtyCheck, DirtyAnswer, Setup, AfterRun, MenuAnswer, execVars, process, ptyVars, stdin
<1>2. (asked # {} => asked' # {}) /\ (spc' \in {"dirty", "pty"} => asked' # {})
  BY DEF HeardInv, DirtyCheck, DirtyAnswer, Setup, AfterRun, MenuAnswer, Ask, Ends
<1>3. ASSUME exit' = "discarded" PROVE GoesToMenu(opts)
  <2>1. exit = "discarded" \/ (MenuAnswer /\ spc = "menu")
    BY <1>3 DEF DirtyCheck, DirtyAnswer, Setup, AfterRun, MenuAnswer, Ends
  <2> QED
    BY <2>1 DEF HeardInv, SessionInv, StdinInv
<1>4. \A t \in taken' : t[2] = "menu" \/ t \in taken \/ asked' # {}
  <2>1. CASE DirtyAnswer
    <3>1. asked # {} /\ asked' = asked
      BY <2>1 DEF DirtyAnswer, HeardInv
    <3> QED
      BY <3>1
  <2>2. CASE MenuAnswer
    <3>1. taken' = taken \/ Hears("menu")
      BY <2>2 DEF MenuAnswer
    <3>2. Hears("menu") => \A t \in taken' : t \in taken \/ t[2] = "menu"
      BY TakenBy DEF Hears
    <3> QED
      BY <3>1, <3>2
  <2>3. CASE DirtyCheck \/ Setup \/ AfterRun
    BY <2>3 DEF DirtyCheck, Setup, AfterRun, execVars, stdin
  <2> QED
    BY <2>1, <2>2, <2>3
<1> QED
  BY <1>1, <1>2, <1>3, <1>4 DEF HeardInv, Sharing, GoesToMenu, CanPrompt, StdinIsTTY

LEMMA PolicyHeard ==
    ASSUME SessionInv, HeardInv, Policy \/ PTYAnswer
    PROVE  HeardInv'
<1>1. rpc = "off" /\ UNCHANGED <<leader, pump, opts, tty>> /\ pump = "off" /\ leader = "none"
  <2>1. spc \in BeforeCall /\ UNCHANGED <<leader, pump, opts, tty>>
    BY DEF Policy, PTYAnswer, process, ptyVars, stdin, BeforeCall
  <2> QED
    BY <2>1 DEF SessionInv, RawInv, HeardInv
<1>2. rpc' = "off" \/ rpc' = "start"
  BY <1>1 DEF Policy, PTYAnswer, RunChild
<1>3. (asked # {} => asked' # {}) /\ (spc' \in {"dirty", "pty"} => asked' # {})
  BY DEF HeardInv, Policy, PTYAnswer, RunChild, Ask, Ends
<1>4. exit' = "discarded" => exit = "discarded"
  BY DEF Policy, PTYAnswer, RunChild, Ends
<1>5. \A t \in taken' : t \in taken \/ asked' # {}
  <2>1. CASE Policy
    BY <2>1 DEF Policy, stdin
  <2>2. CASE PTYAnswer
    BY <2>2 DEF PTYAnswer, HeardInv
  <2> QED
    BY <2>1, <2>2
<1>6. \A t \in taken' : t[2] = "menu" \/ asked' # {}
  BY <1>1, <1>3, <1>5 DEF HeardInv, Sharing
<1> QED
  BY <1>1, <1>2, <1>3, <1>4, <1>6 DEF HeardInv, GoesToMenu, CanPrompt, StdinIsTTY

LEMMA HeardNext == SessionInv /\ HeardInv /\ [Next]_vars => HeardInv'
<1> SUFFICES ASSUME SessionInv, HeardInv, [Next]_vars PROVE HeardInv'
  OBVIOUS
<1>1. CASE ExecNext /\ UNCHANGED sessionVars
  BY <1>1, CallsHeard
<1>2. CASE DirtyCheck \/ DirtyAnswer \/ Setup \/ AfterRun \/ MenuAnswer
  BY <1>2, QuestionsHeard
<1>3. CASE Policy \/ PTYAnswer
  BY <1>3, PolicyHeard
<1>4. CASE (\E tag \in Tags : Types(tag)) \/ Waits \/ Done \/ UNCHANGED vars
  <2>1. UNCHANGED <<call, rpc, leader, pump, opts, spc, exit, asked, taken, tty>>
    BY <1>4 DEF Types, Waits, Done, vars, execVars, sessionVars, process, ptyVars, stdin
  <2> QED
    BY <2>1 DEF HeardInv, Sharing, GoesToMenu, CanPrompt, StdinIsTTY
<1> QED
  BY <1>1, <1>2, <1>3, <1>4 DEF Next

\* A menu that hears nothing although its lines were in the pipe has lost them to an
\* earlier question or to a PTY: to nothing else, whatever the options.
THEOREM NothingElseTakesTheMenu == Spec => []MenuIsHeard
<1>1. Init => HeardInv
  BY DEF Init, ExecInit, HeardInv
<1>2. SessionInv /\ HeardInv => MenuIsHeard
  <2> SUFFICES ASSUME SessionInv, HeardInv, exit = "discarded", NEW by \in Readers,
                      <<"menu", by>> \in taken, asked = {}, ~call.pty
               PROVE  <<"menu", "menu">> \in taken
    BY DEF MenuIsHeard
  <2>1. ~call.stdin
    BY MenuIsForeseen DEF SessionInv, Types0, StdinInv, HeardInv
  <2>2. <<"menu", by>>[2] = "menu"
    BY <2>1 DEF HeardInv, Sharing
  <2> QED
    BY <2>2
<1> QED
  BY <1>1, <1>2, HeardNext, SessionSafe, PTL DEF Spec

-----------------------------------------------------------------------------
(* A line typed at the terminal reaches its reader unless there is a PTY.  *)

\* At a terminal nothing is read ahead, and a line that waits is for the question
\* on display.
TurnInv ==
    /\ spc \in BeforeCall => ~call.pty
    /\ tty => buf = <<>>
    /\ tty /\ ~call.pty =>
        /\ queue = <<>> \/ (spc \in Tags /\ queue = <<spc>>)
        /\ \A t \in taken : t[1] = t[2]

\* A question that hears the end of its input takes nothing.
AtEnd == queue = <<>> /\ UNCHANGED <<buf, queue, taken>>

LEMMA LineHeard ==
    ASSUME TurnInv, tty, ~call.pty, NEW tag \in Tags, spc = tag, Hears(tag)
    PROVE  buf' = <<>> /\ queue' = <<>> /\ \A t \in taken' : t[1] = t[2]
<1>1. /\ queue = <<tag>> /\ buf' = <<>> /\ queue' = Tail(queue)
      /\ Take(<<Head(queue)>>, tag) /\ \A t \in taken : t[1] = t[2]
  BY DEF TurnInv, Hears
<1>2. Take(<<tag>>, tag) /\ queue' = <<>>
  BY <1>1
<1>3. taken' = taken \cup {<<tag, tag>>}
  BY <1>2 DEF Take
<1> QED
  BY <1>1, <1>2, <1>3

LEMMA TurnNext == SessionInv /\ HeardInv /\ TurnInv /\ [Next]_vars => TurnInv'
<1> SUFFICES ASSUME SessionInv, HeardInv, TurnInv, [Next]_vars PROVE TurnInv'
  OBVIOUS
<1>1. CASE ExecNext /\ UNCHANGED sessionVars
  <2>1. UNCHANGED <<call, tty, spc, buf>>
    BY <1>1 DEF ExecNext, Main, StartFails, Start, Reap, Collect, ClosePTY, Restore, Classify,
       Watcher, WatcherTerms, WatcherKills, WatcherIsLate, Deadline, Signal, Command, Forks, HelperDies,
       Reads, Stops, Exits, Pump, PumpReads, PumpWrites, PumpEnds, sessionVars, stdin
  <2>2. tty /\ ~call.pty => UNCHANGED <<queue, taken>>
    <3>1. ~call.pty => ~Pump
      BY DEF HeardInv, Pump, PumpReads, PumpWrites, PumpEnds
    <3> QED
      BY <1>1, <3>1 DEF ExecNext, Main, StartFails, Start, Reap, Collect, ClosePTY, Restore,
         Classify, Watcher, WatcherTerms, WatcherKills, WatcherIsLate, Deadline, Signal, Command, Forks,
         HelperDies, Reads, Stops, Exits, stdin
  <2> QED
    BY <2>1, <2>2 DEF TurnInv
<1>2. CASE DirtyCheck \/ Setup \/ AfterRun
  <2>1. UNCHANGED <<call, tty, queue, taken>> /\ spc \notin Tags
        /\ (buf' = buf \/ buf' = <<>>) /\ (spc' \in BeforeCall => spc \in BeforeCall)
    BY <1>2 DEF DirtyCheck, Setup, AfterRun, Ask, Ends, execVars, stdin, BeforeCall, Tags
  <2> QED
    BY <2>1 DEF TurnInv
<1>3. CASE DirtyAnswer \/ MenuAnswer
  <2>1. UNCHANGED <<call, tty>> /\ spc \in {"dirty", "menu"}
        /\ (Hears(spc) \/ AtEnd) /\ (spc' \in BeforeCall => spc \in BeforeCall)
    BY <1>3 DEF DirtyAnswer, MenuAnswer, HearsEOF, AtEnd, Ends, BeforeCall
  <2>2. tty => buf' = <<>>
    BY <2>1 DEF TurnInv, Hears, AtEnd
  <2>3. tty /\ ~call.pty => queue' = <<>> /\ \A t \in taken' : t[1] = t[2]
    BY <2>1, LineHeard DEF TurnInv, Tags, AtEnd
  <2> QED
    BY <2>1, <2>2, <2>3 DEF TurnInv
<1>4. CASE Policy
  <2>1. UNCHANGED <<tty, queue, taken>> /\ spc = "policy" /\ (buf' = buf \/ buf' = <<>>)
        /\ (spc' \in BeforeCall => call' = call)
    BY <1>4 DEF Policy, RunChild, Ask, Ends, stdin, BeforeCall
  <2> QED
    BY <2>1 DEF TurnInv, BeforeCall, Tags
<1>5. CASE PTYAnswer
  <2>1. UNCHANGED tty /\ spc = "pty" /\ (Hears("pty") \/ AtEnd) /\ spc' \notin BeforeCall
    BY <1>5 DEF PTYAnswer, HearsEOF, AtEnd, RunChild, Ends, BeforeCall
  <2>2. tty => buf' = <<>>
    BY <2>1 DEF TurnInv, Hears, AtEnd
  <2>3. tty => queue' = <<>> /\ \A t \in taken' : t[1] = t[2]
    BY <2>1, LineHeard DEF TurnInv, Tags, BeforeCall, AtEnd
  <2> QED
    BY <2>1, <2>2, <2>3 DEF TurnInv
<1>6. CASE \E tag \in Tags : Types(tag)
  <2>1. PICK tag \in Tags : Types(tag)
    BY <1>6
  <2>2. UNCHANGED <<call, tty, taken, spc, buf>> /\ queue' = <<tag>>
    BY <2>1 DEF Types
  <2>3. ~call.pty => spc = tag
    BY <2>1 DEF Types, OnDisplay
  <2> QED
    BY <2>2, <2>3 DEF TurnInv
<1>7. CASE Waits \/ Done \/ UNCHANGED vars
  BY <1>7 DEF Waits, Done, vars, execVars, sessionVars, stdin, TurnInv
<1> QED
  BY <1>1, <1>2, <1>3, <1>4, <1>5, <1>6, <1>7 DEF Next

\* Without a PTY every line typed at the terminal reaches the question it was typed
\* for: the lines that go astray (PumpSteals) all do so because of a PTY.
THEOREM OnlyAPTYMixesUp ==
    Spec => [](tty /\ ~call.pty => \A t \in taken : t[1] = t[2])
<1>1. Init => HeardInv /\ TurnInv
  BY DEF Init, ExecInit, HeardInv, TurnInv, StdinIsTTY
<1>2. TurnInv => (tty /\ ~call.pty => \A t \in taken : t[1] = t[2])
  BY DEF TurnInv
<1> QED
  BY <1>1, <1>2, HeardNext, TurnNext, SessionSafe, PTL DEF Spec

-----------------------------------------------------------------------------
(* What run.Run can return is what Runner takes it to return.              *)

OutcomeInv ==
    /\ ctx \in {"live", "expired", "cancelled"} /\ interrupted \in BOOLEAN
    /\ ctx = "expired" => call.timeout /\ rpc # "off"
    /\ ctx = "cancelled" => interrupted
    /\ watcher \in Acts => ctx # "live"
    /\ leader \in {"zombie", "reaped"} => end \in {"ok", "fail", "killed"}
    /\ rpc # "wait" => leader \in {"none", "reaped"}
    /\ rpc \in {"close", "restore", "return"} => leader = "reaped"
    /\ rpc = "done" =>
        /\ result.timedOut = (ctx = "expired")
        /\ result.exit \in {"ok", "fail", "killed", "notFound", "general"}
        /\ result.exit = "ok" => end = "ok"
        /\ result.exit = "general" => ctx # "live"

\* What execute does, and what is typed meanwhile.
Execute ==
    \/ DirtyCheck \/ DirtyAnswer \/ Setup \/ Policy \/ PTYAnswer \/ AfterRun \/ MenuAnswer
    \/ \E tag \in Tags : Types(tag)
    \/ Waits \/ Done

\* Of the command it does nothing but have it started.
LEMMA ExecuteBeside ==
    ASSUME SessionInv, Execute \/ UNCHANGED vars
    PROVE  /\ UNCHANGED <<ctx, interrupted, watcher, leader, end, result>>
           /\ call'.timeout = call.timeout
           /\ rpc' = rpc \/ (rpc = "off" /\ rpc' = "start")
<1>1. UNCHANGED <<context, leader, end, result>>
  BY DEF DirtyCheck, DirtyAnswer, Setup, Policy, PTYAnswer, AfterRun, MenuAnswer, Types,
     Waits, Done, vars, execVars, process, Execute
<1>2. UNCHANGED <<call, rpc>> \/ ((RunChild(TRUE) \/ RunChild(FALSE)) /\ rpc = "off")
  <2>1. CASE Policy \/ PTYAnswer
    <3>1. rpc = "off"
      BY <2>1 DEF Policy, PTYAnswer, SessionInv, RawInv, BeforeCall
    <3>2. UNCHANGED <<call, rpc>> \/ RunChild(TRUE) \/ RunChild(FALSE)
      <4>1. CASE Policy
        BY <4>1, Zenon DEF Policy
      <4>2. CASE PTYAnswer
        <5>1. UNCHANGED <<call, rpc>> \/ (RunChild(TRUE) \/ RunChild(FALSE))
          BY <4>2, Zenon DEF PTYAnswer
        <5> QED
          BY <5>1
      <4> QED
        BY <2>1, <4>1, <4>2
    <3> QED
      BY <3>1, <3>2
  <2>2. ASSUME DirtyCheck \/ DirtyAnswer PROVE UNCHANGED <<call, rpc>>
    BY <2>2 DEF DirtyCheck, DirtyAnswer, execVars
  <2>3. ASSUME AfterRun \/ MenuAnswer PROVE UNCHANGED <<call, rpc>>
    BY <2>3 DEF AfterRun, MenuAnswer, execVars
  <2>4. ASSUME Setup \/ (\E tag \in Tags : Types(tag)) \/ Waits \/ Done \/ UNCHANGED vars
        PROVE  UNCHANGED <<call, rpc>>
    BY <2>4 DEF Setup, Types, Waits, Done, vars, execVars
  <2>5. Policy \/ PTYAnswer \/ UNCHANGED <<call, rpc>>
    BY <2>2, <2>3, <2>4, Zenon DEF Execute
  <2> QED
    BY <2>1, <2>5, Zenon
<1>3. call'.timeout = call.timeout
  BY <1>2 DEF RunChild, SessionInv, Types0, Calls
<1>4. rpc' = rpc \/ (rpc = "off" /\ rpc' = "start")
  BY <1>2 DEF RunChild
<1> QED
  BY <1>1, <1>3, <1>4 DEF context

LEMMA OutcomeNext == SessionInv /\ OutcomeInv /\ [Next]_vars => OutcomeInv'
<1> SUFFICES ASSUME SessionInv, OutcomeInv, [Next]_vars PROVE OutcomeInv'
  OBVIOUS
<1>1. CASE Main
  <2>1. UNCHANGED <<call, ctx, interrupted, end>>
    BY <1>1 DEF Main, StartFails, Start, Reap, Collect, ClosePTY, Restore, Classify, process,
       context
  <2>2. CASE StartFails
    BY <2>1, <2>2 DEF StartFails, Return, OutcomeInv, Acts, process, context
  <2>3. CASE Start
    BY <2>1, <2>3 DEF Start, OutcomeInv, Acts
  <2>4. CASE Reap \/ Collect \/ ClosePTY \/ Restore
    BY <2>1, <2>4 DEF Reap, Collect, ClosePTY, Restore, OutcomeInv, Acts, process, context
  <2>5. CASE Classify
    <3>1. rpc = "return" /\ rpc' = "done" /\ UNCHANGED <<leader, watcher>>
          /\ result' = [exit |-> IF end = "ok" /\ watcher = "killed" THEN "general" ELSE end,
                        timedOut |-> ctx = "expired"]
      BY <2>5 DEF Classify, Return, process, context
    <3>2. result'.timedOut = (ctx = "expired")
          /\ result'.exit = IF end = "ok" /\ watcher = "killed" THEN "general" ELSE end
      BY <3>1
    <3>3. end \in {"ok", "fail", "killed"}
      BY <3>1 DEF OutcomeInv, Acts
    <3> QED
      BY <2>1, <3>1, <3>2, <3>3 DEF OutcomeInv, Acts
  <2> QED
    BY <1>1, <2>2, <2>3, <2>4, <2>5 DEF Main
<1>2. CASE Watcher
  BY <1>2 DEF Watcher, WatcherTerms, WatcherKills, WatcherIsLate, Kill, process, OutcomeInv, Acts
<1>3. CASE Deadline
  BY <1>3 DEF Deadline, process, OutcomeInv, Acts
<1>4. CASE Signal
  BY <1>4 DEF Signal, process, OutcomeInv, Acts
<1>5. CASE Command \/ Pump
  <2>1. UNCHANGED <<call, rpc, context, result>>
    BY <1>5 DEF Command, Forks, HelperDies, Reads, Stops, Exits, Pump, PumpReads, PumpWrites,
       PumpEnds
  <2>2. \/ UNCHANGED <<leader, end>>
        \/ leader = "running" /\ leader' = "stopped"
        \/ leader = "running" /\ leader' = "zombie" /\ end' \in {"ok", "fail", "killed"}
    BY <1>5 DEF Command, Forks, HelperDies, Reads, Stops, Exits, Pump, PumpReads, PumpWrites,
       PumpEnds, process
  <2> QED
    BY <2>1, <2>2 DEF OutcomeInv, Acts, context
<1>6. CASE Execute \/ UNCHANGED vars
  BY <1>6, ExecuteBeside DEF OutcomeInv, Acts
<1> QED
  BY <1>1, <1>2, <1>3, <1>4, <1>5, <1>6 DEF Next, ExecNext, Execute

\* A command counts as timed out only under a deadline, and as cut off only after one
\* or after a signal; it succeeds only if it ended well.  These are the outcomes that
\* ChildExits and KillCommand of Runner choose from.
THEOREM CutOffsHaveACause ==
    Spec => [](rpc = "done" =>
        /\ result.timedOut => call.timeout
        /\ (watcher = "killed" \/ result.exit = "general") => result.timedOut \/ interrupted
        /\ result.exit = "ok" => end = "ok" /\ watcher # "killed"
        /\ result.exit # "none")
<1> DEFINE Caused == rpc = "done" =>
        /\ result.timedOut => call.timeout
        /\ (watcher = "killed" \/ result.exit = "general") => result.timedOut \/ interrupted
        /\ result.exit = "ok" => end = "ok" /\ watcher # "killed"
        /\ result.exit # "none"
<1>1. Init => OutcomeInv
  BY DEF Init, ExecInit, OutcomeInv, Acts
<1>2. SessionInv /\ OutcomeInv => Caused
  BY DEF SessionInv, WatcherInv, OutcomeInv, Acts
<1> QED
  BY <1>1, <1>2, OutcomeNext, SessionSafe, PTL DEF Spec
-----------------------------------------------------------------------------
(* run.Run comes to its end.                                               *)

Goes == {"running", "stopped"}
WatchInv ==
    /\ rpc \in {"off", "done"} \cup InCall
    /\ leader \in {"none", "zombie", "reaped"} \cup Goes
    /\ leader \in Goes => watcher \in {"watching", "terming"}
    /\ leader = "none" <=> rpc \in {"off", "start"} \/ (rpc = "done" /\ end = "none")
    /\ leader \in {"none"} \cup Goes => end = "none"

RunRank(l) ==
    CASE l = "off"     -> 0
      [] l = "start"   -> 1
      [] l = "wait"    -> 2
      [] l = "close"   -> 3
      [] l = "restore" -> 4
      [] l = "return"  -> 5
      [] OTHER         -> 6

LeaderRank(l) ==
    CASE l = "none"    -> 0
      [] l = "running" -> 1
      [] l = "stopped" -> 2
      [] l = "zombie"  -> 3
      [] OTHER         -> 4

\* run.Run and the command only ever go on, and each step of run.Run takes one of
\* them further.
GoesOn ==
    /\ RunRank(rpc') >= RunRank(rpc) /\ LeaderRank(leader') >= LeaderRank(leader)
    /\ Main => RunRank(rpc') > RunRank(rpc) \/ LeaderRank(leader') > LeaderRank(leader)

LEMMA WatchNext ==
    SessionInv /\ OutcomeInv /\ WatchInv /\ [Next]_vars => WatchInv' /\ GoesOn
<1> SUFFICES ASSUME SessionInv, OutcomeInv, WatchInv, [Next]_vars PROVE WatchInv' /\ GoesOn
  OBVIOUS
<1>1. CASE Main
  <2>1. CASE StartFails
    <3>1. rpc = "start" /\ rpc' = "done" /\ UNCHANGED <<leader, end, watcher>>
      BY <2>1 DEF StartFails, Return, process, context
    <3> QED
      BY <3>1 DEF WatchInv, GoesOn, RunRank, LeaderRank, InCall, Goes
  <2>2. CASE Start
    <3>1. /\ rpc = "start" /\ rpc' = "wait" /\ leader' = "running" /\ watcher' = "watching"
          /\ end' = end
      BY <2>2 DEF Start
    <3> QED
      BY <3>1 DEF WatchInv, GoesOn, RunRank, LeaderRank, InCall, Goes
  <2>3. CASE Reap
    <3>1. leader = "zombie" /\ leader' = "reaped" /\ UNCHANGED <<rpc, end, watcher>>
      BY <2>3 DEF Reap, context
    <3> QED
      BY <3>1 DEF WatchInv, GoesOn, RunRank, LeaderRank, InCall, Goes
  <2>4. CASE Collect
    <3>1. rpc = "wait" /\ leader = "reaped" /\ rpc' \in {"close", "return"}
          /\ UNCHANGED <<leader, end>>
      BY <2>4 DEF Collect, process
    <3> QED
      BY <3>1 DEF WatchInv, GoesOn, RunRank, LeaderRank, InCall, Goes
  <2>5. CASE ClosePTY \/ Restore
    <3>1. \/ rpc = "close" /\ rpc' = "restore"
          \/ rpc = "restore" /\ rpc' = "return"
      BY <2>5 DEF ClosePTY, Restore
    <3>2. UNCHANGED <<leader, end, watcher>>
      BY <2>5 DEF ClosePTY, Restore, process, context
    <3> QED
      BY <3>1, <3>2 DEF WatchInv, GoesOn, RunRank, LeaderRank, InCall, Goes
  <2>6. CASE Classify
    <3>1. rpc = "return" /\ rpc' = "done" /\ UNCHANGED <<leader, end, watcher>>
      BY <2>6 DEF Classify, Return, process, context
    <3>2. leader = "reaped" /\ end # "none"
      BY <3>1 DEF OutcomeInv, Acts
    <3> QED
      BY <3>1, <3>2 DEF WatchInv, GoesOn, RunRank, LeaderRank, InCall, Goes
  <2> QED
    BY <1>1, <2>1, <2>2, <2>3, <2>4, <2>5, <2>6 DEF Main
<1>2. ASSUME Watcher \/ Command \/ Pump \/ Deadline \/ Signal PROVE rpc' = rpc
  BY <1>2 DEF Watcher, WatcherTerms, WatcherKills, WatcherIsLate, Command, Forks, HelperDies, Reads, Stops,
     Exits, Pump, PumpReads, PumpWrites, PumpEnds, Deadline, Signal
<1>3. ASSUME Watcher \/ Command \/ Pump \/ Deadline \/ Signal
      PROVE  \/ UNCHANGED <<leader, end>> /\ (watcher' = watcher \/ leader \notin Goes)
             \/ leader = "running" /\ leader' = "stopped" /\ end' = end /\ watcher' = watcher
             \/ UNCHANGED <<leader, end>> /\ watcher' = "terming"
             \/ leader \in Goes /\ leader' = "zombie" /\ end' \in {"ok", "fail", "killed"}
  <2>1. CASE WatcherKills
    <3>1. Kill
      BY <2>1 DEF WatcherKills
    <3> QED
      BY <3>1 DEF Kill, Goes
  <2>2. CASE WatcherIsLate
    BY <2>2 DEF WatcherIsLate, process, Goes
  <2>3. CASE Command
    <3>1. watcher' = watcher
      BY <2>3 DEF Command, Forks, HelperDies, Reads, Stops, Exits, context
    <3>2. \/ UNCHANGED <<leader, end>>
          \/ leader = "running" /\ leader' = "stopped" /\ end' = end
          \/ leader = "running" /\ leader' = "zombie" /\ end' \in {"ok", "fail", "killed"}
      BY <2>3 DEF Command, Forks, HelperDies, Reads, Stops, Exits
    <3> QED
      BY <3>1, <3>2 DEF Goes
  <2>4. CASE WatcherTerms
    BY <2>4 DEF WatcherTerms, Goes
  <2>5. CASE Pump \/ Deadline \/ Signal
    BY <2>5 DEF Pump, PumpReads, PumpWrites, PumpEnds, Deadline, Signal, process, context
  <2> QED
    BY <1>3, <2>1, <2>2, <2>3, <2>4, <2>5 DEF Watcher
<1>4. ASSUME Watcher \/ Command \/ Pump \/ Deadline \/ Signal, ~Main
      PROVE  WatchInv' /\ GoesOn
  <2>1. leader \in Goes => rpc = "wait"
    BY DEF OutcomeInv, Acts, Goes
  <2> QED
    BY <1>2, <1>3, <1>4, <2>1 DEF WatchInv, GoesOn, RunRank, LeaderRank, InCall, Goes
<1>5. ASSUME Execute \/ UNCHANGED vars, ~Main PROVE WatchInv' /\ GoesOn
  BY <1>5, ExecuteBeside DEF WatchInv, GoesOn, RunRank, LeaderRank, InCall, Goes
<1> QED
  BY <1>1, <1>4, <1>5 DEF Next, ExecNext, Execute

LEMMA WatchHolds == Spec => [](SessionInv /\ OutcomeInv /\ WatchInv)
<1>1. Init => OutcomeInv /\ WatchInv
  BY DEF Init, ExecInit, OutcomeInv, Acts, WatchInv, InCall, Goes
<1> QED
  BY <1>1, OutcomeNext, WatchNext, SessionSafe, PTL DEF Spec

\* As long as the command runs or is stopped, run.Run waits for it and the watcher for
\* the context: whenever a deadline or a signal comes, somebody is there to kill it.  And
\* run.Run waits for nothing but a command.  (cmd.Cancel, Cmd.Wait; the safety half of
\* CutOffEnds and PromptReturn.)
THEOREM SomebodyWatches ==
    Spec => [](/\ leader \in {"running", "stopped"} => rpc = "wait" /\ watcher \in {"watching", "terming"}
               /\ rpc = "wait" => leader # "none")
<1>1. OutcomeInv /\ WatchInv =>
        /\ leader \in {"running", "stopped"} => rpc = "wait" /\ watcher \in {"watching", "terming"}
        /\ rpc = "wait" => leader # "none"
  BY DEF OutcomeInv, Acts, WatchInv, Goes
<1> QED
  BY <1>1, WatchHolds, PTL

\* Neither run.Run nor the command ever goes back, and each step of run.Run's own
\* goroutine brings one of the two nearer to the end, whatever pump, helpers, watcher and
\* typist do beside it.  (run.Run, runWithPTY.)
THEOREM RunGoesOn == Spec => [][GoesOn]_vars
<1>1. SessionInv /\ OutcomeInv /\ WatchInv /\ [Next]_vars => [GoesOn]_vars
  BY WatchNext
<1> QED
  BY <1>1, WatchHolds, PTL DEF Spec
=============================================================================
