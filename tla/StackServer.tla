---------------------------- MODULE StackServer -----------------------------
(***************************************************************************)
(* The stack program of week01: the parent process reads commands from the *)
(* terminal and writes each to a pipe; the child process reads it, works   *)
(* on a linked stack of its own and answers with SIGUSR1, for which the    *)
(* parent spins on sig_status.                                             *)
(*                                                                         *)
(* The stack is private to the child, so a command is executed in one      *)
(* step; the steps between the processes (write, read, kill, the delivery  *)
(* of the signal, the accesses to sig_status) interleave.  The build keeps *)
(* the load of sig_status inside the loop, as an unoptimised one does.     *)
(***************************************************************************)
EXTENDS Naturals, Sequences, FiniteSets

CONSTANTS Values,  \* the integers a user pushes
          Nodes,   \* bound: the nodes that fit into the child's memory
          NULL,    \* the null pointer
          NoStack, \* abstract value: current_stack is NULL
          Garbage  \* an uninitialised command[0] that is no command code

Ops == {"peek", "push", "pop", "empty", "display", "create", "stack_size"}
Commands == [op : Ops, val : Values]

ASSUME StackServerAssumption ==
  /\ NULL \notin Nodes /\ IsFiniteSet(Nodes)
  /\ NoStack \notin Seq(Values) /\ Garbage \notin Commands

VARIABLES
  \* the parent
  cpc,        \* where it is in its loop
  typed,      \* the command it parsed
  sig_status, \* the signal handler has run
  \* between the processes
  pipe,       \* the command in the pipe, if any
  raised,     \* SIGUSR1 is pending for the parent
  \* the child
  spc,        \* where it is in its loop
  command,    \* the command it read last; uninitialised at first
  exists, head, size, \* current_stack # NULL, and its fields
  heap,       \* the allocated nodes
  err_status,
  answer      \* what it printed last

clientVars == <<cpc, typed, sig_status>>
stackVars  == <<exists, head, size, heap, err_status>>
serverVars == <<spc, command, stackVars, answer>>
vars == <<clientVars, pipe, raised, serverVars>>

Reply(text, arg) == [text |-> text, arg |-> arg]
Silence == Reply("", << >>)

Init ==
  /\ cpc = "reset" /\ typed = Garbage /\ sig_status = FALSE
  /\ pipe = << >> /\ raised = FALSE
  /\ spc = "read" /\ command \in Commands \cup {Garbage}
  /\ exists = FALSE /\ head = NULL /\ size = 0 /\ heap = << >>
  /\ err_status = "SUCCESS" /\ answer = Silence

-----------------------------------------------------------------------------
(* The parent                                                              *)

ClientGoes(from, to) == cpc = from /\ cpc' = to

\* Mutant: sig_status is reset only once, before the loop.
ResetForgotten ==
  /\ ClientGoes("reset", "prompt")
  /\ UNCHANGED <<typed, sig_status, pipe, raised, serverVars>>

ResetSignal ==
  /\ ClientGoes("reset", "prompt")
  /\ sig_status' = FALSE
  /\ UNCHANGED <<typed, pipe, raised, serverVars>>

\* type_command and get_push_value return a valid command.
TypeCommand ==
  /\ ClientGoes("prompt", "write")
  /\ typed' \in Commands
  /\ typed'.op = "push" => DOMAIN heap # Nodes
  /\ UNCHANGED <<sig_status, pipe, raised, serverVars>>

\* An unknown command, or a push without an integer.
Mistype ==
  /\ ClientGoes("prompt", "reset")
  /\ UNCHANGED <<typed, sig_status, pipe, raised, serverVars>>

\* scanf reports the end of input: exit, which closes the pipe.
EndOfInput ==
  /\ ClientGoes("prompt", "exited")
  /\ UNCHANGED <<typed, sig_status, pipe, raised, serverVars>>

WriteCommand ==
  /\ ClientGoes("write", "wait")
  /\ pipe' = Append(pipe, typed)
  /\ UNCHANGED <<typed, sig_status, raised, serverVars>>

\* usr1_signal_handler runs, whatever the parent is doing.
Signalled ==
  /\ raised /\ cpc # "exited"
  /\ raised' = FALSE
  /\ sig_status' = TRUE
  /\ UNCHANGED <<cpc, typed, pipe, serverVars>>

\* Mutant: the parent does not wait for the signal.
WaitForgotten ==
  /\ ClientGoes("wait", "reset")
  /\ UNCHANGED <<typed, sig_status, pipe, raised, serverVars>>

\* while (!sig_status) ends.
StopWaiting ==
  /\ ClientGoes("wait", "reset")
  /\ sig_status
  /\ UNCHANGED <<typed, sig_status, pipe, raised, serverVars>>

-----------------------------------------------------------------------------
(* The operations on the stack.  `printed' is the effect of the printf and *)
(* of check_server_error_status, which looks at err_status alone.          *)

\* What is printed for a command whose own text is `text'.
Printed(err, text) ==
  CASE err = "STACK_NOT_EXISTS_ERROR" -> Reply("no stack", << >>)
    [] err = "STACK_IS_EMPTY_ERROR"   -> Reply("stack is empty", << >>)
    [] OTHER                          -> text

\* below[i]: the node i places below the head, following prev.
below[i \in 0..Cardinality(Nodes)] ==
  IF i = 0 THEN head
  ELSE IF below[i - 1] = NULL THEN NULL
  ELSE heap[below[i - 1]].prev

Top(n) == {below[i] : i \in 0..(n - 1)}

\* empty() of an existing stack.
IsEmpty == size = 0

Without(freed) == [n \in DOMAIN heap \ freed |-> heap[n]]

NoStackError ==
  /\ ~exists
  /\ command.op \in {"peek", "push", "pop", "display", "stack_size"}
  /\ err_status' = "STACK_NOT_EXISTS_ERROR"
  /\ answer' = Printed(err_status', Silence)
  /\ UNCHANGED <<exists, head, size, heap>>

EmptyError ==
  /\ exists /\ IsEmpty
  /\ command.op \in {"peek", "pop"}
  /\ err_status' = "STACK_IS_EMPTY_ERROR"
  /\ answer' = Printed(err_status', Silence)
  /\ UNCHANGED <<exists, head, size, heap>>

Peek ==
  /\ command.op = "peek" /\ exists /\ ~IsEmpty
  /\ err_status' = "SUCCESS"
  /\ answer' = Printed(err_status', Reply("peek", <<heap[head].value>>))
  /\ UNCHANGED <<exists, head, size, heap>>

Push ==
  /\ command.op = "push" /\ exists
  /\ \E n \in Nodes \ DOMAIN heap :
       /\ heap' = [m \in DOMAIN heap \cup {n} |->
                     IF m = n THEN [value |-> command.val, prev |-> head] ELSE heap[m]]
       /\ head' = n
  /\ size' = size + 1
  /\ err_status' = "SUCCESS"
  /\ answer' = Printed(err_status', Reply("pushed", <<command.val>>))
  /\ UNCHANGED exists

Pop ==
  /\ command.op = "pop" /\ exists /\ ~IsEmpty
  /\ head' = heap[head].prev
  /\ heap' = Without({head})
  /\ size' = size - 1
  /\ err_status' = "SUCCESS"
  /\ answer' = Printed(err_status', Reply("popped", << >>))
  /\ UNCHANGED exists

\* empty() reports a missing stack by its own return value.
Empty ==
  /\ command.op = "empty"
  /\ answer' = IF exists THEN Reply("empty", <<IsEmpty>>) ELSE Reply("no stack", << >>)
  /\ UNCHANGED stackVars

\* Mutant: err_status keeps the error of an earlier command.
DisplayStale ==
  /\ command.op = "display" /\ exists
  /\ answer' = Printed(err_status,
       Reply("display", [i \in 1..size |-> heap[below[size - i]].value]))
  /\ UNCHANGED stackVars

\* display() prints `size' values, from the bottom up.
Display ==
  /\ command.op = "display" /\ exists
  /\ err_status' = "SUCCESS"
  /\ answer' = Printed(err_status',
       Reply("display", [i \in 1..size |-> heap[below[size - i]].value]))
  /\ UNCHANGED <<exists, head, size, heap>>

StackSize ==
  /\ command.op = "stack_size" /\ exists
  /\ err_status' = "SUCCESS"
  /\ answer' = Printed(err_status', Reply("size", <<size>>))
  /\ UNCHANGED <<exists, head, size, heap>>

\* Mutant: the size of the new stack is not reset.
CreateKeepsSize ==
  /\ command.op = "create"
  /\ heap' = heap /\ size' = size
  /\ exists' = TRUE /\ head' = NULL
  /\ UNCHANGED err_status
  /\ answer' = Reply("created", << >>)

\* The loop of create() compares i with the size that its pops decrease, so
\* it stops after half of the nodes.
Create ==
  LET pops == IF exists THEN (size + 1) \div 2 ELSE 0
  IN  /\ command.op = "create"
      /\ heap' = Without(Top(pops))
      /\ exists' = TRUE /\ head' = NULL /\ size' = 0
      /\ err_status' = IF pops > 0 THEN "SUCCESS" ELSE err_status
      /\ answer' = Reply("created", << >>)

-----------------------------------------------------------------------------
(* The child                                                               *)

ServerGoes(from, to) == spc = from /\ spc' = to

ReadCommand ==
  /\ ServerGoes("read", "execute")
  /\ pipe # << >>
  /\ command' = Head(pipe)
  /\ pipe' = Tail(pipe)
  /\ UNCHANGED <<clientVars, raised, stackVars, answer>>

\* read returns 0, which is not looked at: command[] keeps its contents.
ReadEndOfFile ==
  /\ ServerGoes("read", "execute")
  /\ pipe = << >> /\ cpc = "exited"
  /\ UNCHANGED <<clientVars, pipe, raised, command, stackVars, answer>>

Execute ==
  /\ ServerGoes("execute", "kill")
  /\ \/ /\ command # Garbage
        /\ \/ NoStackError \/ EmptyError \/ Peek \/ Push \/ Pop
           \/ Empty \/ Display \/ StackSize \/ Create
     \/ /\ command = Garbage
        /\ UNCHANGED <<stackVars, answer>>
  /\ UNCHANGED <<clientVars, pipe, raised, command>>

\* Memory is exhausted: malloc's result is not tested, and the child dies.
OutOfMemory ==
  /\ ServerGoes("execute", "dead")
  /\ command # Garbage /\ command.op = "push"
  /\ exists /\ DOMAIN heap = Nodes
  /\ UNCHANGED <<clientVars, pipe, raised, command, stackVars, answer>>

\* Mutant: the signal goes to the child itself.
KillSelf ==
  /\ ServerGoes("kill", "read")
  /\ UNCHANGED <<clientVars, pipe, raised, command, stackVars, answer>>

\* kill(getppid(), SIGUSR1); an orphan's parent is another process.
Kill ==
  /\ ServerGoes("kill", "read")
  /\ raised' = (cpc # "exited")
  /\ UNCHANGED <<clientVars, pipe, command, stackVars, answer>>

\* Both processes are gone.
Finished == cpc = "exited" /\ spc = "dead" /\ UNCHANGED vars

ClientStep == ResetSignal \/ WriteCommand \/ StopWaiting
UserStep == TypeCommand \/ Mistype \/ EndOfInput
ServerStep == ReadCommand \/ ReadEndOfFile \/ Execute \/ OutOfMemory \/ Kill

Next == ClientStep \/ UserStep \/ Signalled \/ ServerStep \/ Finished

Spec == Init /\ [][Next]_vars

\* Both processes are scheduled and signals are delivered; the user need not
\* type anything.
FairSpec ==
  /\ Spec
  /\ WF_vars(ClientStep)
  /\ WF_vars(Signalled)
  /\ WF_vars(ServerStep)

-----------------------------------------------------------------------------
ChannelTypes ==
  /\ cpc \in {"reset", "prompt", "write", "wait", "exited"}
  /\ typed \in Commands \cup {Garbage}
  /\ sig_status \in BOOLEAN /\ raised \in BOOLEAN
  /\ pipe \in {<< >>} \cup {<<c>> : c \in Commands}
  /\ spc \in {"read", "execute", "kill", "dead"}
  /\ command \in Commands \cup {Garbage}

StackTypes ==
  /\ exists \in BOOLEAN
  /\ head \in Nodes \cup {NULL}
  /\ size \in Nat
  /\ DOMAIN heap \subseteq Nodes
  /\ \A n \in DOMAIN heap : heap[n] \in [value : Values, prev : Nodes \cup {NULL}]
  /\ err_status \in {"SUCCESS", "STACK_NOT_EXISTS_ERROR", "STACK_IS_EMPTY_ERROR"}

\* The type of every variable; the pipe never holds two commands.
TypeOK == ChannelTypes /\ StackTypes

\* sig_status is set only when the command just written has been carried out,
\* so the parent never prompts while the child is at work, and no signal is
\* left over for the next command (lines 298, 305, 322).
SignalMeansDone ==
  cpc \in {"reset", "prompt", "write"} =>
    pipe = << >> /\ spc = "read" /\ ~raised

\* While the parent waits, its request is in exactly one place, so neither
\* process waits for the other in vain (lines 261, 298, 320-322).
OneRequest ==
  cpc = "wait" =>
    \/ pipe # << >> /\ spc = "read" /\ ~raised /\ ~sig_status
    \/ pipe = << >> /\ spc \in {"execute", "kill"} /\ ~raised /\ ~sig_status
    \/ pipe = << >> /\ spc = "read" /\ raised /\ ~sig_status
    \/ pipe = << >> /\ spc = "read" /\ ~raised /\ sig_status

\* The inductive invariant of the exchange: with the two above, no signal is
\* left when a command is typed, and a push is only typed if it has room.
HasRoom(c) == c # Garbage /\ c.op = "push" => DOMAIN heap # Nodes

Lockstep ==
  /\ ChannelTypes
  /\ SignalMeansDone
  /\ OneRequest
  /\ cpc \in {"prompt", "write"} => ~sig_status
  /\ cpc = "write" => typed \in Commands /\ HasRoom(typed)
  /\ cpc = "wait" /\ pipe # << >> => HasRoom(Head(pipe))
  /\ cpc = "wait" /\ spc = "execute" => HasRoom(command)

\* Exactly `size' nodes hang below the head, all of them allocated: display
\* and create never follow a freed node or NULL (lines 67-93, 95-129).
StackShape ==
  exists => /\ \A i \in 0..(size - 1) : below[i] \in DOMAIN heap
            /\ below[size] = NULL
            /\ Cardinality(Top(size)) = size

\* A command that was written is answered, and the user is prompted again.
CommandAnswered == (cpc = "wait") ~> (cpc = "prompt")

Contents == [i \in 1..size |-> heap[below[size - i]].value]

\* The two processes implement a stack that executes each command once.
Service == INSTANCE StackService WITH
  stack <- IF exists THEN Contents ELSE NoStack,
  last <- IF pipe # << >> THEN Head(pipe) ELSE command,
  pending <- cpc # "exited" /\ (pipe # << >> \/ spc = "execute"),
  open <- cpc # "exited"
IsStackService == Service!Spec
=============================================================================
