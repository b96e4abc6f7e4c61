---------------------------- MODULE TerminalBash ----------------------------
(***************************************************************************)
(* The bash tool on the persistent terminal 'ai-bash' of a conversation    *)
(* (makeTerminalBashTool with persist): a call types its command and a     *)
(* sentinel that carries the exit code, reads the output from where it     *)
(* stood, and returns at the first sentinel; a silent command is left in   *)
(* the background with an observer.  The tools terminal_wait and           *)
(* terminal_read wait on the same output.                                  *)
(*                                                                         *)
(* The second half of the module holds the rules of the terminal tools that*)
(* have no state.  The halves share no variable.                           *)
(***************************************************************************)
EXTENDS Integers, Sequences, FiniteSets, SequencesExt

CONSTANTS
  BashCall,      \* calls of the bash tool, each once
  WaitCall,      \* calls of terminal_wait, each once
  MaxShells,     \* bound: shells opened under the id
  CommandsExit   \* whether a command may end the shell it runs in ("exit 1")

NoCall == "no call"

VARIABLES
  shell,         \* TermEntry of 'ai-bash': "none", "live" or "exited"
  shells,        \* shells opened so far
  typed,         \* commands in the input of the shell, the first one running
  output,        \* sentinels printed: the calls whose command ended, in order
  call,          \* BashCall -> where the call stands
  cursor,        \* BashCall -> sentinels there were when the call began
  result,        \* BashCall -> whose exit code the call returned
  watches,       \* watchOutput: background calls and waits, in order
  sentinelPending,
  wait,          \* WaitCall -> where terminal_wait stands
  told,          \* BashCall -> exit codes the agent was told of afterwards
  overlapped     \* a call began while another used the terminal

bashVars == <<shell, shells, typed, output, call, cursor, result, watches,
              sentinelPending, wait, told, overlapped>>

CallStates == {"idle", "reading", "returned", "background", "aborted", "timedOut", "failed"}
WaitStates == {"idle", "waiting", "inapplicable", "finished", "unfinished"}

BashTypeOK ==
  /\ shell \in {"none", "live", "exited"} /\ shells \in 0 .. MaxShells
  /\ IsInjective(typed) /\ ToSet(typed) \subseteq BashCall
  /\ ToSet(output) \subseteq BashCall
  /\ call \in [BashCall -> CallStates] /\ wait \in [WaitCall -> WaitStates]
  /\ cursor \in [BashCall -> Nat]
  /\ result \in [BashCall -> BashCall \cup {NoCall}]
  /\ ToSet(watches) \subseteq BashCall \cup WaitCall
  /\ sentinelPending \in BOOLEAN
  /\ overlapped \in BOOLEAN
  /\ told \in [BashCall -> SUBSET (BashCall \cup {NoCall})]

BashInit ==
  /\ shell = "none" /\ shells = 0 /\ typed = <<>> /\ output = <<>>
  /\ call = [c \in BashCall |-> "idle"] /\ cursor = [c \in BashCall |-> 0]
  /\ result = [c \in BashCall |-> NoCall]
  /\ watches = <<>> /\ sentinelPending = FALSE
  /\ wait = [w \in WaitCall |-> "idle"]
  /\ told = [c \in BashCall |-> {}] /\ overlapped = FALSE

-----------------------------------------------------------------------------
(* The observers of the entry are called once and dropped: a background     *)
(* call is announced to the agent with this exit code, a wait finishes.     *)
Observed(code) ==
  /\ watches' = <<>>
  /\ told' = [c \in BashCall |-> IF c \in ToSet(watches) THEN told[c] \cup {code}
                                 ELSE told[c]]
  /\ wait' = [w \in WaitCall |-> IF w \in ToSet(watches) THEN "finished" ELSE wait[w]]

MutReadsFromStart(c) ==
  /\ call[c] = "idle"
  /\ \/ shell = "live" \/ shells < MaxShells
  /\ IF shell = "live" THEN UNCHANGED <<shell, shells, output>>
     ELSE shell' = "live" /\ shells' = shells + 1 /\ output' = <<>>
  /\ typed' = Append(typed, c)
  /\ call' = [call EXCEPT ![c] = "reading"]
  /\ cursor' = [cursor EXCEPT ![c] = 0]
  /\ sentinelPending' = TRUE
  /\ overlapped' = (overlapped \/ typed # <<>> \/ \E d \in BashCall : call[d] = "reading")
  /\ UNCHANGED <<result, watches, wait, told>>

(* A call opens the terminal, or finds it, and types its line.  The output  *)
(* of an exited shell goes with it.                                         *)
BashStart(c) ==
  /\ call[c] = "idle"
  /\ \/ shell = "live" \/ shells < MaxShells
  /\ IF shell = "live" THEN UNCHANGED <<shell, shells, output>>
     ELSE shell' = "live" /\ shells' = shells + 1 /\ output' = <<>>
  /\ typed' = Append(typed, c)
  /\ call' = [call EXCEPT ![c] = "reading"]
  /\ cursor' = [cursor EXCEPT ![c] = IF shell = "live" THEN Len(output) ELSE 0]
  /\ sentinelPending' = TRUE
  /\ overlapped' = (overlapped \/ typed # <<>> \/ \E d \in BashCall : call[d] = "reading")
  /\ UNCHANGED <<result, watches, wait, told>>

(* The running command ends and prints its sentinel, which appendOutput     *)
(* shows to the observers.                                                  *)
CommandEnds ==
  /\ typed # <<>>
  /\ typed' = Tail(typed)
  /\ output' = Append(output, Head(typed))
  /\ Observed(Head(typed))
  /\ sentinelPending' = IF ToSet(watches) \cap BashCall # {} THEN FALSE ELSE sentinelPending
  /\ UNCHANGED <<shell, shells, call, cursor, result, overlapped>>

(* The loop of the call reads the output: the last sentinel after its start *)
(* is taken for its own.                                                    *)
BashReads(c) ==
  /\ call[c] = "reading"
  /\ Len(output) > cursor[c]
  /\ result' = [result EXCEPT ![c] = Last(output)]
  /\ call' = [call EXCEPT ![c] = "returned"]
  /\ sentinelPending' = FALSE
  /\ UNCHANGED <<shell, shells, typed, output, cursor, watches, wait, told, overlapped>>

MutForgetsBackground(c) ==
  /\ call[c] = "reading" /\ Len(output) <= cursor[c]
  /\ call' = [call EXCEPT ![c] = "background"]
  /\ UNCHANGED <<watches, wait, told, sentinelPending, shell, shells, typed, output, cursor, result, overlapped>>

(* Silence: the call returns, and an observer will announce the end.  With  *)
(* no entry left the observer is called at once.                            *)
GoesSilent(c) ==
  /\ call[c] = "reading" /\ Len(output) <= cursor[c]
  /\ call' = [call EXCEPT ![c] = "background"]
  /\ IF shell = "none"
     THEN /\ told' = [told EXCEPT ![c] = @ \cup {NoCall}]
          /\ UNCHANGED <<watches, wait, sentinelPending>>
     ELSE watches' = Append(watches, c) /\ UNCHANGED <<told, wait, sentinelPending>>
  /\ UNCHANGED <<shell, shells, typed, output, cursor, result, overlapped>>

(* abort_bash, the abort of the run, or the timeout of the call: Ctrl+C     *)
(* ends the running command and drops what was typed ahead.                 *)
Interrupt(c, as) ==
  /\ call[c] = "reading" /\ Len(output) <= cursor[c]
  /\ call' = [call EXCEPT ![c] = as]
  /\ sentinelPending' = IF shell = "none" THEN sentinelPending ELSE FALSE
  /\ typed' = IF shell = "live" THEN <<>> ELSE typed
  /\ UNCHANGED <<shell, shells, output, cursor, result, watches, wait, told, overlapped>>

(* terminal_wait: not applicable when no sentinel is due; else it observes. *)
WaitStart(w) ==
  /\ wait[w] = "idle" /\ shell # "none"
  /\ \/ /\ ~sentinelPending
        /\ wait' = [wait EXCEPT ![w] = "inapplicable"] /\ watches' = watches
     \/ /\ sentinelPending /\ shell = "exited"
        /\ wait' = [wait EXCEPT ![w] = "finished"] /\ watches' = watches
     \/ /\ sentinelPending /\ shell = "live"
        /\ wait' = [wait EXCEPT ![w] = "waiting"] /\ watches' = Append(watches, w)
  /\ UNCHANGED <<shell, shells, typed, output, call, cursor, result, sentinelPending, told, overlapped>>

(* Its timeout, or the abort of the run.                                    *)
WaitGivesUp(w) ==
  /\ wait[w] = "waiting"
  /\ wait' = [wait EXCEPT ![w] = "unfinished"]
  /\ watches' = SelectSeq(watches, LAMBDA x : x # w)
  /\ UNCHANGED <<shell, shells, typed, output, call, cursor, result, sentinelPending, told, overlapped>>

MutKillIsSilent ==
  /\ shell = "live"
  /\ shell' = "none" /\ typed' = <<>> /\ output' = <<>>
  /\ UNCHANGED <<watches, told, wait, sentinelPending, shells, call, cursor, result, overlapped>>

(* The terminal is closed, or its conversation disposed of: the observers   *)
(* are called without a code.                                               *)
TerminalKilled ==
  /\ shell = "live"
  /\ shell' = "none" /\ typed' = <<>> /\ output' = <<>>
  /\ Observed(NoCall)
  /\ sentinelPending' = FALSE
  /\ UNCHANGED <<shells, call, cursor, result, overlapped>>

(* The shell exits, at its prompt or by its command: its output is kept,    *)
(* its observers are called.                                                *)
ShellExits ==
  /\ shell = "live"
  /\ typed = <<>> \/ CommandsExit
  /\ shell' = "exited" /\ typed' = <<>>
  /\ Observed(NoCall)
  /\ sentinelPending' = IF ToSet(watches) \cap BashCall # {} THEN FALSE ELSE sentinelPending
  /\ UNCHANGED <<shells, output, call, cursor, result, overlapped>>

BashNext ==
  \/ \E c \in BashCall : \/ BashStart(c) \/ BashReads(c) \/ GoesSilent(c)
                         \/ Interrupt(c, "aborted") \/ Interrupt(c, "timedOut")
  \/ \E w \in WaitCall : WaitStart(w) \/ WaitGivesUp(w)
  \/ CommandEnds \/ TerminalKilled \/ ShellExits

-----------------------------------------------------------------------------
(* The exit code a call returns is that of its own command and not that of *)
(* an earlier call of the same terminal, whatever was aborted, timed out or *)
(* closed in between, as long as no two commands shared the terminal.       *)
CodeOfOwnCommand ==
  ~overlapped => \A c \in BashCall : call[c] = "returned" => result[c] = c

(* What the description of the tool promises of every call: its exit code.  *)
OwnExitCode == \A c \in BashCall : call[c] = "returned" => result[c] = c

(* A command left in the background is announced, as its call promised: as *)
(* long as it is not, an observer waits for it on a terminal that lives.    *)
BackgroundAnnounced ==
  ~overlapped => \A c \in BashCall :
    call[c] = "background" => told[c] # {} \/ (c \in ToSet(watches) /\ shell = "live")

(* terminal_wait ends with what it waits for: no wait is left on a terminal *)
(* that is closed or has exited.                                            *)
NobodyWaitsForNothing == \A w \in WaitCall : wait[w] = "waiting" => shell = "live"

-----------------------------------------------------------------------------
(***************************************************************************)
(* The rules of terminals.ts that have no state: what a command is cut     *)
(* into before the terminal runs it, what the agent is shown of its        *)
(* output, the bytes of a key, the shell of a new terminal.  Each step     *)
(* takes one input; the invariants compare the rule with what it promises. *)
(* Text is a sequence of the tokens that the rule tells apart.             *)
(***************************************************************************)
CONSTANTS
  MaxTokens,    \* bound: tokens of a command
  MaxLines,     \* bound: lines of an output
  DoubleBars,   \* a command may hold "||"
  BareEscapes   \* a command may hold a backslash outside quotes

VARIABLES rule, input

ruleVars == <<rule, input>>
Rules == {"none", "command", "search", "cut", "key", "shell", "echo"}
RulesInit == rule = "none" /\ input = <<>>

UpTo(set, n) == UNION {[1 .. k -> set] : k \in 0 .. n}
FoldTokens(step(_, _), start, s) ==
  LET at[i \in 0 .. Len(s)] == IF i = 0 THEN start ELSE step(at[i - 1], s[i]) IN at[Len(s)]
TakeFirst(s, n) == SubSeq(s, 1, IF n < Len(s) THEN n ELSE Len(s))
TakeLast(s, n) == SubSeq(s, IF n < Len(s) THEN Len(s) - n + 1 ELSE 1, Len(s))

-----------------------------------------------------------------------------
(* splitTopLevelPipes: a bar outside quotes ends a part; a backslash takes  *)
(* the next token along, in double quotes.                                  *)
Tokens == {"run", "bar", "single", "double", "escape", "tail", "follow", "cat"}
Quotes == {"single", "double"}
Scanned(c) ==
  LET step(a, t) ==
        CASE a.skip -> [a EXCEPT !.cur = Append(@, t), !.skip = FALSE]
          [] ~a.skip /\ a.quote # "" ->
               [a EXCEPT !.cur = Append(@, t), !.quote = IF t = a.quote THEN "" ELSE @,
                         !.skip = (t = "escape" /\ a.quote = "double")]
          [] ~a.skip /\ a.quote = "" /\ t = "bar" ->
               [a EXCEPT !.parts = Append(@, a.cur), !.cur = <<>>]
          [] OTHER -> [a EXCEPT !.cur = Append(@, t), !.quote = IF t \in Quotes THEN t ELSE ""]
  IN  FoldTokens(step, [parts |-> <<>>, cur |-> <<>>, quote |-> "", skip |-> FALSE], c)
MutPipeParts(c) ==
  LET step(a, t) == IF t = "bar" THEN [parts |-> Append(a.parts, a.cur), cur |-> <<>>]
                                 ELSE [a EXCEPT !.cur = Append(@, t)]
      end == FoldTokens(step, [parts |-> <<>>, cur |-> <<>>], c)
  IN  Append(end.parts, end.cur)
PipeParts(c) == Append(Scanned(c).parts, Scanned(c).cur)

(* detectTrailingLimiter: a last part that only limits or pages the output  *)
(* is taken off; tail -f is not.                                            *)
Limiter(c) ==
  LET parts == PipeParts(c)
      last == parts[Len(parts)]
  IN  IF Len(parts) < 2 \/ last = <<>> THEN "none"
      ELSE IF Head(last) = "cat" THEN "cat"
      ELSE IF Head(last) = "tail" /\ "follow" \notin {last[i] : i \in DOMAIN last} THEN "tail"
      ELSE "none"
Kept(c) == IF Limiter(c) = "none" THEN PipeParts(c)
           ELSE SubSeq(PipeParts(c), 1, Len(PipeParts(c)) - 1)

TakeCommand(c) == rule' = "command" /\ input' = c

(* What the shell reads: a bar that is neither quoted, escaped nor part of  *)
(* "||" joins two commands.                                                 *)
InQuotes(c, i) ==
  LET before == Scanned(SubSeq(c, 1, i - 1)) IN before.quote # "" \/ before.skip
IsPipe(c, i) ==
  /\ c[i] = "bar" /\ ~InQuotes(c, i)
  /\ (i > 1 => c[i - 1] \notin {"bar", "escape"}) /\ (i < Len(c) => c[i + 1] # "bar")
ShellCommands(c) ==
  /\ c # <<>> /\ Head(c) # "bar" /\ c[Len(c)] # "bar" /\ Scanned(c).quote = "" /\ ~Scanned(c).skip
  /\ \A i \in 1 .. Len(c) - 1 : DoubleBars \/ c[i] # "bar" \/ c[i + 1] # "bar"
  /\ \A i \in DOMAIN c : c[i] = "escape" => BareEscapes \/ InQuotes(c, i)

-----------------------------------------------------------------------------
(* queryTerminalOutput: the marks of the terminal are no lines; a search    *)
(* prints each match with its neighbours and goes on after them.            *)
LineKinds == {"hit", "other", "mark"}
RealLines(out) == SelectSeq(out, LAMBDA l : l # "mark")
MutPrinted(lines, ctx) ==
  LET from[i \in 1 .. Len(lines) + 1] ==
        IF i > Len(lines) THEN {}
        ELSE IF lines[i] = "hit"
             THEN {j \in DOMAIN lines : j >= i - ctx /\ j <= i + ctx}
                    \cup from[IF i + ctx + 2 > Len(lines) THEN Len(lines) + 1 ELSE i + ctx + 2]
             ELSE from[i + 1]
  IN  from[1]
Printed(lines, ctx) ==
  LET from[i \in 1 .. Len(lines) + 1] ==
        IF i > Len(lines) THEN {}
        ELSE IF lines[i] = "hit"
             THEN {j \in DOMAIN lines : j >= i - ctx /\ j <= i + ctx}
                    \cup from[IF i + ctx + 1 > Len(lines) THEN Len(lines) + 1 ELSE i + ctx + 1]
             ELSE from[i + 1]
  IN  from[1]
Search(out, ctx) == rule' = "search" /\ input' = [lines |-> RealLines(out), ctx |-> ctx]

(* applyHeadTail: the head first, then the tail of what is left, each with  *)
(* a note of how many lines it leaves out; 0 is no limit.                   *)
MutHeadTail(n, head, tail) ==
  [kept |-> IF tail > 0 /\ n > tail THEN tail ELSE IF head > 0 /\ n > head THEN head ELSE n,
   below |-> IF head > 0 /\ n > head THEN n - head ELSE 0,
   above |-> IF tail > 0 /\ n > tail THEN n - tail ELSE 0]
HeadTail(n, head, tail) ==
  LET m == IF head > 0 /\ n > head THEN head ELSE n
      k == IF tail > 0 /\ m > tail THEN tail ELSE m
  IN  [kept |-> k, below |-> n - m, above |-> m - k]
CutLines(n, head, tail) == rule' = "cut" /\ input' = [n |-> n, head |-> head, tail |-> tail]

-----------------------------------------------------------------------------
(* encodeTerminalKey: named keys by name, with the modifiers as a number.   *)
Arrows == {"Up", "Down", "Left", "Right", "Home", "End"}
FunctionKeys == {"F1", "F2", "F3", "F4"}
Coded == {"Enter", "Tab", "Backspace", "Escape", "Insert", "Delete", "PageUp", "PageDown"}
NamedKeys == Arrows \cup FunctionKeys \cup Coded
Letters == {"a", "z"}
Weights == [shift |-> 1, alt |-> 2, ctrl |-> 4]
MutModifier(mods) == 1 + Cardinality(mods)
Modifier(mods) ==
  1 + (IF "shift" \in mods THEN Weights.shift ELSE 0) + (IF "alt" \in mods THEN Weights.alt ELSE 0)
    + (IF "ctrl" \in mods THEN Weights.ctrl ELSE 0)
Encoded(key, mods) ==
  CASE key \in NamedKeys /\ mods = {} -> <<"plain", key>>
    [] key \in Arrows \cup FunctionKeys /\ mods # {} -> <<"parameter", key, Modifier(mods)>>
    [] key \in Coded /\ mods # {} -> <<"code", key, Modifier(mods)>>
    [] OTHER -> <<"letter", key, "ctrl" \in mods, "shift" \in mods /\ "ctrl" \notin mods,
                  "alt" \in mods>>
Press(key, mods) == rule' = "key" /\ input' = [key |-> key, mods |-> mods]

(* resolveWindowsUserShell, resolveWindowsBashShell: the first candidate    *)
(* that is there.                                                           *)
UserShells == <<"pwsh64", "pwsh32", "pwshOnPath", "powershell", "SHELL", "gitBash", "gitBash32",
                "busybox">>
BashShells == <<"gitBash", "gitBash32", "busybox", "SHELL">>
MutFirstThere(list, there, otherwise) == Head(list)
FirstThere(list, there, otherwise) ==
  LET good == {i \in DOMAIN list : list[i] \in there}
  IN  IF good = {} THEN otherwise ELSE list[CHOOSE i \in good : \A j \in good : i <= j]
UserShell(override, there) ==
  IF override THEN "PI_WEB_SHELL" ELSE FirstThere(UserShells, there, "COMSPEC")
AgentShell(there, shellIsBash) ==
  FirstThere(BashShells, there \ (IF shellIsBash THEN {} ELSE {"SHELL"}), "bash")
Resolve(override, there, isBash) ==
  rule' = "shell" /\ input' = [override |-> override, there |-> there, isBash |-> isBash]

-----------------------------------------------------------------------------
(* cleanBashOutput: everything up to the last echo of the command line goes,*)
(* and everything from the last exit mark on.                               *)
LastOf(s, t) == LET at == {i \in DOMAIN s : s[i] = t}
                IN  IF at = {} THEN 0 ELSE CHOOSE i \in at : \A j \in at : j <= i
MutCleaned(raw) == SelectSeq(raw, LAMBDA t : t \notin {"echo", "exit"})
Cleaned(raw) ==
  LET rest == SubSeq(raw, LastOf(raw, "echo") + 1, Len(raw))
      end == LastOf(rest, "exit")
  IN  IF end = 0 THEN rest ELSE SubSeq(rest, 1, end - 1)
Clean(before, echoes, out, after) ==
  /\ rule' = "echo"
  /\ input' = [raw |-> before \o echoes \o out \o <<"exit">> \o after, out |-> out]

RulesNext ==
  /\ rule = "none"
  /\ \/ \E c \in UpTo(Tokens, MaxTokens) : TakeCommand(c)
     \/ \E out \in UpTo(LineKinds, MaxLines) : \E ctx \in 0 .. 2 : Search(out, ctx)
     \/ \E n, h, t \in 0 .. MaxLines : CutLines(n, h, t)
     \/ \E key \in NamedKeys \cup Letters : \E mods \in SUBSET DOMAIN Weights : Press(key, mods)
     \/ \E over, b \in BOOLEAN : \E there \in SUBSET {UserShells[i] : i \in DOMAIN UserShells} :
          Resolve(over, there, b)
     \/ \E a, b, c \in UpTo({"text"}, 2) : \E e \in UpTo({"echo"}, 2) \ {<<>>} : Clean(a, e, b, c)

-----------------------------------------------------------------------------
RulesTypeOK == rule \in Rules

(* A command is cut where the shell joins two commands and nowhere else: a  *)
(* limiter that is taken off leaves a command behind, the one that stood    *)
(* before the last pipe.                                                    *)
CutAtPipes ==
  rule = "command" /\ ShellCommands(input) /\ Limiter(input) # "none" =>
    /\ \A i \in DOMAIN Kept(input) : Kept(input)[i] # <<>>
    /\ LET pipes == {i \in DOMAIN input : IsPipe(input, i)}
           last == CHOOSE i \in pipes : \A j \in pipes : j <= i
           joined == FoldTokens(LAMBDA a, p : IF a = <<>> THEN p ELSE a \o <<"bar">> \o p, <<>>,
                                Kept(input))
       IN  pipes # {} /\ joined = SubSeq(input, 1, last - 1)

(* A search shows every line that matches and nothing but their             *)
(* neighbours.                                                              *)
SearchShowsHits ==
  rule = "search" =>
    LET hits == {i \in DOMAIN input.lines : input.lines[i] = "hit"}
        shown == Printed(input.lines, input.ctx)
    IN  hits \subseteq shown
        /\ \A j \in shown : \E i \in hits : j - i \in -input.ctx .. input.ctx

(* The notes of a cut output account for every line it had.                 *)
CutsAddUp ==
  rule = "cut" =>
    LET r == HeadTail(input.n, input.head, input.tail)
    IN  r.kept + r.below + r.above = input.n /\ (input.tail > 0 => r.kept <= input.tail)

(* No two combinations of a named key and modifiers send the same bytes.    *)
KeysDiffer ==
  rule = "key" /\ input.key \in NamedKeys =>
    \A k \in NamedKeys : \A mods \in SUBSET DOMAIN Weights :
      Encoded(k, mods) = Encoded(input.key, input.mods) => k = input.key /\ mods = input.mods

(* A shell that is not there is started only as the last resort, or because *)
(* it was asked for; the agent never gets a PowerShell.                     *)
ShellThere ==
  rule = "shell" =>
    /\ UserShell(input.override, input.there) \in input.there \cup {"PI_WEB_SHELL", "COMSPEC"}
    /\ AgentShell(input.there, input.isBash) \in (input.there \cap {BashShells[i] : i \in 1 .. 4})
                                                   \cup {"bash"}

(* The agent gets what the command wrote, without the echo of its line, the *)
(* exit mark and the prompt that follows it.                                *)
OutputOnly == rule = "echo" => Cleaned(input.raw) = input.out
=============================================================================
