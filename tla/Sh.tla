--------------------------------- MODULE Sh ---------------------------------
(***************************************************************************)
(* The shell running command lines (main() and runcmd() in sh.c): one      *)
(* process per forked copy, each with its descriptors, and the pipes they  *)
(* share.  Process 1 is the shell itself.  A program that reads a pipe     *)
(* ends at the end of its input, any other one when it likes.              *)
(***************************************************************************)
EXTENDS ShParse

CONSTANTS
  NPROC, NPIPE,   \* process slots and pipes; fork() and pipe() fail beyond
  Chars, MaxLine, \* bound: the lines that are typed, and checked by their parse
  RunLines        \* bound: the lines that are run

P == 1..NPROC
Fd == 0..4
None == <<"none">>
Tty == <<"tty">>
RdEnd(k) == <<"r", k>>
WrEnd(k) == <<"w", k>>

VARIABLES
  line,   \* what getcmd() has read
  task    \* per process: [pc, cmd, fd, pipe, kids, side]
          \* pipe is p[2] of the PIPE case; side is a ghost: the pipe ends
          \* that the command line connects the process to

vars == <<line, task>>

Idle == [pc |-> "free", cmd |-> Bad, fd |-> [d \in Fd |-> None],
         pipe |-> 0, kids |-> {}, side |-> {}]
Live(p) == task[p].pc # "free"
Holds(p, x) == \E d \in Fd : task[p].fd[d] = x

(* Descriptors: the lowest free one is used.                               *)
Lowest(fd) == CHOOSE d \in Fd : fd[d] = None /\ \A c \in Fd : fd[c] = None => d <= c
Opened(fd, x) == [fd EXCEPT ![Lowest(fd)] = x]
Closed(fd, x) == [d \in Fd |-> IF d > 2 /\ fd[d] = x THEN None ELSE fd[d]]
Replaced(fd, d, x) == Opened([fd EXCEPT ![d] = None], x)

(* exit(): parents that wait() see one child less.                         *)
Exited(t, p) ==
  [q \in P |-> IF q = p THEN Idle ELSE [t[q] EXCEPT !.kids = @ \ {p}]]
Exit(p) == task' = Exited(task, p) /\ UNCHANGED line

(* fork1(): the child runs c from a; if there is no slot, p panics.        *)
Slots == {q \in P : ~Live(q)}
Fork(p, c, a, extra, next) ==
  IF Slots = {} THEN Exit(p)
  ELSE LET q == CHOOSE s \in Slots : \A r \in Slots : s <= r IN
       /\ task' = [task EXCEPT
            ![q] = [@ EXCEPT !.pc = a, !.cmd = c, !.fd = task[p].fd,
                             !.pipe = task[p].pipe, !.side = task[p].side \cup extra],
            ![p].pc = next, ![p].kids = @ \cup {q}]
       /\ UNCHANGED line

At2(p, pc, type) == task[p].pc = pc /\ task[p].cmd.type = type

-----------------------------------------------------------------------------
(* main(): the shell reads a line, key by key, and a child parses and runs *)
(* it.  The shell's own panic ends it, and init starts another one.        *)
(* Bound: lines are typed when no process is left in the background.       *)
Quiet == task[1].pc = "prompt" /\ \A p \in P \ {1} : ~Live(p)
gets(c) ==
  /\ Quiet /\ Len(line) < MaxLine
  /\ line' = Append(line, c) /\ UNCHANGED task

(* Bound: nothing follows a line of MaxLine characters.                    *)
Full == Quiet /\ Len(line) = MaxLine /\ UNCHANGED vars

getcmd(s) ==
  /\ Quiet /\ line = <<>>
  /\ line' = s /\ task' = [task EXCEPT ![1].pc = "typed"]

(* The shell itself runs a line that begins with "cd "; the lines here do  *)
(* not.                                                                    *)
RunLine == task[1].pc = "typed" /\ Fork(1, Bad, "parse", {}, "wait")

Prompt ==
  /\ task[1].pc = "wait" /\ task[1].kids = {}
  /\ task' = [task EXCEPT ![1].pc = "prompt"] /\ line' = <<>>

Parse(p) ==
  /\ task[p].pc = "parse"
  /\ IF parsecmd(line) = Bad THEN Exit(p)
     ELSE /\ task' = [task EXCEPT ![p].pc = "run", ![p].cmd = parsecmd(line)]
          /\ UNCHANGED line

(* runcmd(), case by case.  exec(), open() and pipe() may fail.            *)
Exec(p) ==
  /\ At2(p, "run", "EXEC")
  /\ \/ Exit(p)
     \/ task[p].cmd.argv # <<>> /\ task' = [task EXCEPT ![p].pc = "prog"] /\ UNCHANGED line

Redir(p) ==
  /\ At2(p, "run", "REDIR")
  /\ \/ Exit(p)
     \/ LET c == task[p].cmd IN
        /\ task' = [task EXCEPT ![p].fd = Replaced(@, c.fd, <<"file", c.file>>),
                                ![p].cmd = c.cmd]
        /\ UNCHANGED line

List(p) == At2(p, "run", "LIST") /\ Fork(p, task[p].cmd.left, "run", {}, "listed")
ListRight(p) ==
  /\ task[p].pc = "listed" /\ task[p].kids = {}
  /\ task' = [task EXCEPT ![p].pc = "run", ![p].cmd = @.right] /\ UNCHANGED line

Back1(p) == At2(p, "run", "BACK") /\ Fork(p, task[p].cmd.cmd, "run", {}, "exit")

FreePipes == {k \in 1..NPIPE : \A q \in P : ~Holds(q, RdEnd(k)) /\ ~Holds(q, WrEnd(k))}
Pipe(p) ==
  /\ At2(p, "run", "PIPE")
  /\ IF FreePipes = {} THEN Exit(p)
     ELSE LET k == CHOOSE x \in FreePipes : \A y \in FreePipes : x <= y IN
          /\ task' = [q \in P |->
               IF q = p THEN [task[p] EXCEPT !.pc = "piped", !.pipe = k,
                                             !.fd = Opened(Opened(@, RdEnd(k)), WrEnd(k)),
                                             !.side = @ \ {RdEnd(k), WrEnd(k)}]
               ELSE [task[q] EXCEPT !.side = @ \ {RdEnd(k), WrEnd(k)}]]
          /\ UNCHANGED line

PipeLeft(p) ==
  task[p].pc = "piped" /\ Fork(p, task[p].cmd.left, "left", {WrEnd(task[p].pipe)}, "forked")
PipeRight(p) ==
  task[p].pc = "forked" /\ Fork(p, task[p].cmd.right, "right", {RdEnd(task[p].pipe)}, "close")

(* Mutant: the parent keeps the write end while it waits. *)
BothClosedRead(fd, k) == Closed(fd, RdEnd(k))
BothClosed(fd, k) == Closed(Closed(fd, RdEnd(k)), WrEnd(k))

(* The children's close(), dup(), close(), close(); the parent's closes.   *)
Plumb(p) ==
  LET k == task[p].pipe
      set(fd, pc) == /\ task' = [task EXCEPT ![p].fd = BothClosed(fd, k), ![p].pc = pc,
                                             ![p].pipe = 0]
                     /\ UNCHANGED line
  IN \/ task[p].pc = "left" /\ set(Replaced(task[p].fd, 1, WrEnd(k)), "run")
     \/ task[p].pc = "right" /\ set(Replaced(task[p].fd, 0, RdEnd(k)), "run")
     \/ task[p].pc = "close" /\ set(task[p].fd, "waits")

(* The wait()s of a PIPE, and the exit() at the end of runcmd().           *)
Ends(p) ==
  \/ task[p].pc = "waits" /\ task[p].kids = {} /\ Exit(p)
  \/ task[p].pc = "exit" /\ Exit(p)

(* A program ends; one that reads a pipe, when nothing can write to it.    *)
ProgramEnds(p) ==
  /\ task[p].pc = "prog"
  /\ \A k \in 1..NPIPE : task[p].fd[0] = RdEnd(k) => \A q \in P : ~Holds(q, WrEnd(k))
  /\ Exit(p)

Init ==
  /\ line = <<>>
  /\ task = [p \in P |-> IF p = 1 THEN [Idle EXCEPT !.pc = "prompt",
                                          !.fd = [d \in Fd |-> IF d < 3 THEN Tty ELSE None]]
                         ELSE Idle]

Step(p) == \/ Parse(p) \/ Exec(p) \/ Redir(p) \/ List(p) \/ ListRight(p) \/ Back1(p)
           \/ Pipe(p) \/ PipeLeft(p) \/ PipeRight(p) \/ Plumb(p) \/ Ends(p) \/ ProgramEnds(p)
Next == \/ \E c \in Chars : gets(c)
        \/ \E s \in RunLines : getcmd(s)
        \/ RunLine \/ Prompt \/ Full
        \/ \E p \in P \ {1} : Step(p)

Spec == Init /\ [][Next]_vars

-----------------------------------------------------------------------------
(* A line is parsed to what its grammar means, and refused if it is not in *)
(* the grammar.                                                            *)
ParsesGrammar == task[1].pc = "prompt" => parsecmd(line) = Meaning(line)

(* The end of a pipeline's input comes: a process that runs a command,     *)
(* waits or has started a program holds only the pipe ends that the line   *)
(* connects it to, as its standard input or output, so that the last       *)
(* writer of a pipe is a program of its left side.                         *)
AtRest(p) == task[p].pc \in {"run", "prog", "listed", "waits"}
EofComes ==
  \A p \in P : AtRest(p) =>
    \A d \in Fd : /\ d > 2 => task[p].fd[d] = None
                  /\ task[p].fd[d][1] \in {"r", "w"} =>
                       task[p].fd[d] \in task[p].side
                       /\ d = IF task[p].fd[d][1] = "r" THEN 0 ELSE 1
=============================================================================
