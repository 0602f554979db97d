---------------------------- MODULE StackService ----------------------------
(***************************************************************************)
(* What the stack program of week01 promises its user: a command that was  *)
(* accepted is carried out once, on a stack, before the next one is asked  *)
(* for.  After the user's end of input the last command is repeated, as    *)
(* the server does not tell end of file from a new command.                *)
(***************************************************************************)
EXTENDS Naturals, Sequences

CONSTANTS Values,   \* the integers a user pushes
          NoStack,  \* there is no stack before the first create
          Garbage   \* an uninitialised command that matches no code

Ops == {"peek", "push", "pop", "empty", "display", "create", "stack_size"}
Commands == [op : Ops, val : Values]

VARIABLES stack,   \* NoStack, or the values from the bottom to the top
          last,    \* the command asked for last
          pending, \* it was not carried out yet
          answer,  \* what was printed last
          open     \* the user is still there

vars == <<stack, last, pending, answer, open>>

Reply(text, arg) == [text |-> text, arg |-> arg]
Silence == Reply("", << >>)
Exists == stack # NoStack

Init ==
  /\ stack = NoStack
  /\ last \in Commands \cup {Garbage}
  /\ pending = FALSE
  /\ answer = Silence
  /\ open = TRUE

Ask(c) ==
  /\ open /\ ~pending
  /\ last' = c
  /\ pending' = TRUE
  /\ UNCHANGED <<stack, answer, open>>

\* The stack a command leaves behind.
NewStack(c) ==
  CASE c.op = "create"                              -> << >>
    [] c.op = "push" /\ Exists                      -> Append(stack, c.val)
    [] c.op = "pop" /\ Exists /\ stack # << >>      -> SubSeq(stack, 1, Len(stack) - 1)
    [] OTHER                                        -> stack

\* What it prints.
AnswerTo(c) ==
  CASE c.op = "create"                              -> Reply("created", << >>)
    [] c.op # "create" /\ ~Exists                   -> Reply("no stack", << >>)
    [] c.op = "push" /\ Exists                      -> Reply("pushed", <<c.val>>)
    [] c.op = "stack_size" /\ Exists                -> Reply("size", <<Len(stack)>>)
    [] c.op = "display" /\ Exists                   -> Reply("display", stack)
    [] c.op = "empty" /\ Exists                     -> Reply("empty", <<stack = << >> >>)
    [] c.op \in {"peek", "pop"} /\ stack = << >>    -> Reply("stack is empty", << >>)
    [] c.op = "pop" /\ Exists /\ stack # << >>      -> Reply("popped", << >>)
    [] c.op = "peek" /\ Exists /\ stack # << >>     -> Reply("peek", <<stack[Len(stack)]>>)

Serve ==
  /\ pending \/ ~open
  /\ pending' = FALSE
  /\ \/ /\ last \in Commands
        /\ stack' = NewStack(last)
        /\ answer' = AnswerTo(last)
     \/ /\ last = Garbage
        /\ UNCHANGED <<stack, answer>>
  /\ UNCHANGED <<last, open>>

Leave ==
  /\ open /\ ~pending
  /\ open' = FALSE
  /\ UNCHANGED <<stack, last, pending, answer>>

Next == Serve \/ Leave \/ \E c \in Commands : Ask(c)

Spec == Init /\ [][Next]_vars
=============================================================================
