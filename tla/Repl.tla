-------------------------------- MODULE Repl --------------------------------
(***************************************************************************)
(* The interactive prompt of Repl/repl.c: a thread that reads lines with   *)
(* readline, compiles them, and serves the commands whose keys were        *)
(* pressed.  The keys only set file-scope flags, at any of the prompts:    *)
(* the line's own or those of the context, system and add commands.        *)
(*                                                                         *)
(* A line is abstracted to "text", "empty" or "null" (end of file).        *)
(* load_context and unload_context are external: they push and pop the     *)
(* context's name space on the environment's stack.                        *)
(***************************************************************************)
EXTENDS Integers, Sequences, SequencesExt

CONSTANTS Names,     \* context names the user may type
          First,     \* the name of the first one, "repl"
          MaxLines   \* bound: number of lines read

ASSUME ReplAssumption == First \in Names /\ MaxLines \in Nat

VARIABLES
  pc,        \* the prompt that is shown, or the statement to run
  flag,      \* which of accept, cancel, chctx, fork, add, sys are set
  line,      \* what the last readline returned
  lines,     \* number of lines the main prompt read
  running,   \* vm->bbq->is_running
  v,         \* the names of the contexts made so far
  repl,      \* repl_process's variable: the context of the prompt
  loaded,    \* those whose is_loaded is set
  stack,     \* the contexts pushed on the environment, minus those popped
  pressed,   \* history: commands asked for and neither served nor cancelled
  compiled   \* history: number of lines given to eval

vars == <<pc, flag, line, lines, running, v, repl, loaded, stack, pressed,
          compiled>>
contexts == <<v, repl, loaded, stack>>
hist == <<pressed, compiled>>

Commands == {"chctx", "sys", "add", "fork"}
Flags == Commands \cup {"accept", "cancel"}
Asking == {"main", "ask ctx", "ask sys", "ask add"}

(* repl_ini, after GWMODINI has started the thread.                        *)
Init == /\ pc = "test"
        /\ flag = {}
        /\ line = "empty"
        /\ lines = 0
        /\ running = TRUE
        /\ v = <<First>>
        /\ repl = First
        /\ loaded = {First}
        /\ stack = <<First>>
        /\ pressed = {}
        /\ compiled = 0

-----------------------------------------------------------------------------
(* The keys.  Those in Ends set rl_done: readline returns what was typed.  *)

Keys == {"accept", "cancel", "add", "rem", "chctx", "fork", "sys"}
Ends == {"add", "rem", "chctx", "sys"}

After(k) ==
  CASE k = "cancel" -> flag \cup {"cancel", "accept"}
    [] k = "rem"    -> (flag \cup {"accept"}) \ {"add"}
    [] k \in {"add", "sys"} -> flag \cup {k, "accept"}
    [] OTHER        -> flag \cup {k}

Returned == /\ line' \in {"text", "empty"}
            /\ pc' = [p \in Asking |->
                        CASE p = "main"    -> "read"
                          [] p = "ask ctx" -> "switch"
                          [] p = "ask sys" -> "system"
                          [] p = "ask add" -> "file"][pc]

Press(k) ==
  /\ pc \in Asking
  /\ flag' = After(k)
  /\ pressed' = pressed \cup ({k} \cap Commands)
  /\ IF k \in Ends THEN Returned ELSE UNCHANGED <<line, pc>>
  /\ UNCHANGED <<lines, running, contexts, compiled>>

(* Without accept the Enter key only shows a continuation prompt. *)
Enter == /\ pc \in Asking
         /\ "accept" \in flag
         /\ Returned
         /\ UNCHANGED <<flag, lines, running, contexts, hist>>

(* Control-D: readline returns NULL.  The nested prompts dereference it.   *)
Eof == /\ pc \in Asking
       /\ line' = "null"
       /\ pc' = IF pc = "main" THEN "read" ELSE "crashed"
       /\ UNCHANGED <<flag, lines, running, contexts, hist>>

-----------------------------------------------------------------------------
(* repl_process *)

(* The virtual machine stops meanwhile. *)
Stops == /\ running
         /\ running' = FALSE
         /\ UNCHANGED <<pc, flag, line, lines, contexts, hist>>

Prompt == /\ pc = "test"
          /\ running /\ lines < MaxLines
          /\ lines' = lines + 1
          /\ flag' = flag \ {"accept"}
          /\ pc' = "main"
          /\ UNCHANGED <<line, running, contexts, hist>>

(* The flags of the commands pressed on the cancelled line stay set.       *)
Cancelled == /\ pc = "read"
             /\ "cancel" \in flag
             /\ flag' = flag \ {"cancel"}
             /\ pressed' = {}
             /\ pc' = "test"
             /\ UNCHANGED <<line, lines, running, contexts, compiled>>

Eval == /\ pc = "read"
        /\ "cancel" \notin flag
        /\ line # "null"
        /\ compiled' = compiled + IF line = "text" THEN 1 ELSE 0
        /\ pc' = "chctx"
        /\ UNCHANGED <<flag, line, lines, running, contexts, pressed>>

(* repl_end: unload_context runs when the context is not loaded.           *)
End == /\ \/ pc = "test" /\ ~running
          \/ pc = "read" /\ "cancel" \notin flag /\ line = "null"
       /\ stack' = IF repl \in loaded THEN stack
                   ELSE SubSeq(stack, 1, Len(stack) - 1)
       /\ running' = FALSE
       /\ pc' = "ended"
       /\ UNCHANGED <<flag, line, lines, v, repl, loaded, hist>>

-----------------------------------------------------------------------------
(* repl_cmd: the commands, in the order it tests their flags.              *)

AskFor(c) == [chctx |-> "ask ctx", sys |-> "ask sys", add |-> "ask add",
              fork |-> "fork it"][c]
Following(c) == [chctx |-> "sys", sys |-> "add", add |-> "fork",
                 fork |-> "test"][c]

Command(c) ==
  /\ pc = c
  /\ pc' = IF c \in flag THEN AskFor(c) ELSE Following(c)
  /\ flag' = IF c = "chctx" /\ c \in flag THEN flag \cup {"accept"} ELSE flag
  /\ UNCHANGED <<line, lines, running, contexts, hist>>

Serve(c) == /\ flag' = flag \ {c}
            /\ pressed' = pressed \ {c}
            /\ pc' = Following(c)
            /\ UNCHANGED <<line, lines, running, compiled>>

(* Mutant: every name makes a new context. *)
SwitchAlwaysNew(n) ==
  /\ pc = "switch"
  /\ v' = Append(v, n)
  /\ IF n = repl THEN UNCHANGED <<loaded, stack>>
     ELSE /\ loaded' = (loaded \ {repl}) \cup {n}
          /\ stack' = [stack EXCEPT ![Len(stack)] = n]
  /\ UNCHANGED repl
  /\ Serve("chctx")

(* Mutant: the context that is left stays pushed. *)
SwitchNoPop(n) ==
  /\ pc = "switch"
  /\ v' = IF n \in ToSet(v) THEN v ELSE Append(v, n)
  /\ IF n = repl THEN UNCHANGED <<loaded, stack>>
     ELSE /\ loaded' = (loaded \ {repl}) \cup {n}
          /\ stack' = Append(stack, n)
  /\ UNCHANGED repl
  /\ Serve("chctx")

(* repl_ctx assigns its own copy of the parameter: the variable of         *)
(* repl_process does not change.                                           *)
Switch(n) ==
  /\ pc = "switch"
  /\ v' = IF n \in ToSet(v) THEN v ELSE Append(v, n)
  /\ IF n = repl THEN UNCHANGED <<loaded, stack>>
     ELSE /\ loaded' = (loaded \ {repl}) \cup {n}
          /\ stack' = [stack EXCEPT ![Len(stack)] = n]
  /\ UNCHANGED repl
  /\ Serve("chctx")

System == /\ pc = "system"
          /\ UNCHANGED contexts
          /\ Serve("sys")

(* repl_add reads add again after its own prompt: the remove key pressed   *)
(* there turns the file name into a shred's number.                        *)
File == /\ pc = "file"
        /\ UNCHANGED contexts
        /\ Serve("add")

(* repl_fork replaces the shred of the context of the prompt ...           *)
Fork == /\ pc = "fork it"
        /\ UNCHANGED contexts
        /\ Serve("fork")

(* ... and reads its tick, which no statement of the file sets: where the  *)
(* machine did not either, the prompt shows [!] and the process dies here. *)
ForkNoTick == /\ pc = "fork it"
              /\ pc' = "crashed"
              /\ UNCHANGED <<flag, line, lines, running, contexts, hist>>

-----------------------------------------------------------------------------
User == Enter \/ Eof \/ \E k \in Keys : Press(k)
Process == \/ Prompt \/ Cancelled \/ Eval \/ End \/ System \/ File \/ Fork
           \/ ForkNoTick
           \/ \E c \in Commands : Command(c)
           \/ \E n \in Names : Switch(n)
Next == User \/ Process \/ Stops

Spec == Init /\ [][Next]_vars

-----------------------------------------------------------------------------
(* No two contexts have one name, whatever was typed: the search from the  *)
(* back of repl_ctx always finds the one that was made before.             *)
NamesUnique == IsInjective(v)

(* The environment has exactly one context of the prompt pushed while the  *)
(* prompt lives, however many times it was switched; and no line is        *)
(* compiled twice.                                                         *)
StackBalanced == (pc # "ended" => Len(stack) = 1) /\ compiled <= lines

(* README: the cancel key cancels the line.  A command that runs was asked *)
(* for on a line that was not cancelled.                                   *)
CancelCancels == \A c \in Commands : pc = AskFor(c) => c \in pressed

=============================================================================
