----------------------------- MODULE ReplProofs -----------------------------
(***************************************************************************)
(* Proofs about Repl, for any set of names and any number of lines: no two *)
(* contexts have one name, and one context is pushed while the prompt      *)
(* lives.                                                                  *)
(*                                                                         *)
(* Neither is inductive.  That no line is compiled twice needs to be known *)
(* to be not yet compiled while it is typed and read; that the stack keeps *)
(* its length when a context is switched needs it to be a sequence.        *)
(***************************************************************************)
EXTENDS Repl, SequenceTheorems, TLAPS

Statements ==
  Asking \cup Commands
  \cup {"test", "read", "switch", "system", "file", "fork it", "ended", "crashed"}

Typed ==
  /\ pc \in Statements
  /\ lines \in Nat
  /\ compiled \in Nat
  /\ v \in Seq(Names)
  /\ stack \in Seq(Names)

(* The line that is typed or was just read has not been compiled. *)
OncePerLine ==
  /\ compiled <= lines
  /\ pc \in {"main", "read"} => compiled < lines

OnePushed == pc # "ended" => Len(stack) = 1

IInv == Typed /\ NamesUnique /\ OncePerLine /\ OnePushed

(* The thread starts with its context made and pushed (repl.c:211-228).    *)
LEMMA InitIInv == Init => IInv
<1> SUFFICES ASSUME Init PROVE IInv
  OBVIOUS
<1>1. First \in Names
  BY ReplAssumption
<1>2. v \in Seq(Names) /\ stack \in Seq(Names) /\ Len(stack) = 1
  BY <1>1 DEF Init
<1>3. NamesUnique
  BY DEF Init, NamesUnique, IsInjective
<1> QED
  BY <1>2, <1>3 DEF Init, IInv, Typed, OncePerLine, OnePushed, Statements, Commands

(* What a prompt returns leads to a statement, and to reading only from    *)
(* the main one.                                                           *)
LEMMA ReturnedTo ==
  ASSUME pc \in Asking, Returned
  PROVE  pc' \in {"read", "switch", "system", "file"} /\ (pc' = "read" => pc = "main")
BY DEF Returned, Asking

(* The steps of the user leave the contexts and the counts alone.          *)
LEMMA UserIInv ==
  ASSUME IInv, User
  PROVE  IInv'
<1>1. UNCHANGED <<lines, compiled, v, stack>>
  BY DEF User, Enter, Eof, Press, contexts, hist
<1>2. pc \in Asking /\ pc' \in Statements /\ pc' # "ended"
      /\ (pc' \in {"main", "read"} => pc \in {"main", "read"})
  <2>1. CASE Enter
    BY <2>1, ReturnedTo DEF Enter, Statements
  <2>2. CASE Eof
    BY <2>2 DEF Eof, Statements, Asking
  <2>3. ASSUME NEW k \in Keys, Press(k)
        PROVE  pc \in Asking /\ pc' \in Statements /\ pc' # "ended"
               /\ (pc' \in {"main", "read"} => pc \in {"main", "read"})
    <3>1. CASE k \in Ends
      BY <2>3, <3>1, ReturnedTo DEF Press, Statements
    <3>2. CASE k \notin Ends
      BY <2>3, <3>2 DEF Press, Statements, Asking
    <3> QED
      BY <3>1, <3>2
  <2> QED
    BY <2>1, <2>2, <2>3 DEF User
<1> QED
  BY <1>1, <1>2 DEF IInv, Typed, NamesUnique, IsInjective, OncePerLine, OnePushed, Asking

(* repl_ctx (repl.c:119-144): the name that is looked for is appended only  *)
(* when it is new, and the context that is pushed takes the place of the   *)
(* one that is popped.                                                     *)
LEMMA SwitchIInv ==
  ASSUME IInv, NEW n \in Names, Switch(n)
  PROVE  IInv'
<1>1. /\ pc' = "sys"
      /\ UNCHANGED <<lines, compiled>>
      /\ v' = IF n \in ToSet(v) THEN v ELSE Append(v, n)
      /\ stack' = stack \/ stack' = [stack EXCEPT ![Len(stack)] = n]
  BY DEF Switch, Serve, Following
<1>2. stack' \in Seq(Names) /\ Len(stack') = 1
  <2>1. stack \in Seq(Names) /\ Len(stack) = 1
    BY DEF IInv, Typed, OnePushed, Switch
  <2>2. [stack EXCEPT ![Len(stack)] = n] \in Seq(Names)
        /\ Len([stack EXCEPT ![Len(stack)] = n]) = 1
    BY <2>1, ExceptSeq
  <2> QED
    BY <1>1, <2>1, <2>2
<1>3. v' \in Seq(Names) /\ NamesUnique'
  <2>1. CASE n \in ToSet(v)
    BY <1>1, <2>1 DEF IInv, Typed, NamesUnique, IsInjective
  <2>2. CASE n \notin ToSet(v)
    <3>1. v \in Seq(Names) /\ v' = Append(v, n)
      BY <1>1, <2>2 DEF IInv, Typed
    <3>2. \A i \in 1 .. Len(v) : v[i] # n
      BY <3>1, <2>2 DEF ToSet
    <3>3. \A i, j \in 1 .. Len(v) : v[i] = v[j] => i = j
      BY <3>1 DEF IInv, NamesUnique, IsInjective
    <3> QED
      BY <3>1, <3>2, <3>3, AppendProperties DEF NamesUnique, IsInjective
  <2> QED
    BY <2>1, <2>2
<1> QED
  BY <1>1, <1>2, <1>3 DEF IInv, Typed, OncePerLine, OnePushed, Statements, Commands

(* repl_end (repl.c:230-238) pops what is left, or nothing.                *)
LEMMA EndIInv ==
  ASSUME IInv, End
  PROVE  IInv'
<1>1. pc' = "ended" /\ UNCHANGED <<lines, compiled, v>>
  BY DEF End, hist
<1>2. stack' \in Seq(Names)
  <2>1. stack \in Seq(Names) /\ Len(stack) = 1
    BY DEF IInv, Typed, OnePushed, End
  <2>2. SubSeq(stack, 1, Len(stack) - 1) = <<>>
    BY <2>1, SubSeqEmpty
  <2> QED
    BY <2>1, <2>2 DEF End
<1> QED
  BY <1>1, <1>2 DEF IInv, Typed, NamesUnique, IsInjective, OncePerLine, OnePushed, Statements

(* The other steps of the thread, and the end of the machine, leave the    *)
(* contexts alone; a line is compiled once between two prompts.            *)
LEMMA ProcessIInv ==
  ASSUME IInv, Process
  PROVE  IInv'
<1> USE DEF IInv, Typed, NamesUnique, IsInjective, OncePerLine, OnePushed, Statements,
            Asking, Commands, contexts, hist
<1>1. CASE Prompt
  BY <1>1 DEF Prompt
<1>2. CASE Cancelled
  BY <1>2 DEF Cancelled
<1>3. CASE Eval
  BY <1>3 DEF Eval
<1>4. CASE System
  BY <1>4 DEF System, Serve, Following
<1>5. CASE File
  BY <1>5 DEF File, Serve, Following
<1>6. CASE Fork
  BY <1>6 DEF Fork, Serve, Following
<1>7. CASE ForkNoTick
  BY <1>7 DEF ForkNoTick
<1>8. ASSUME NEW c \in Commands, Command(c)
      PROVE  IInv'
  <2>1. pc' \in {"ask ctx", "ask sys", "ask add", "fork it", "sys", "add", "fork", "test"}
    <3>1. /\ AskFor("chctx") = "ask ctx" /\ Following("chctx") = "sys"
          /\ AskFor("sys") = "ask sys" /\ Following("sys") = "add"
          /\ AskFor("add") = "ask add" /\ Following("add") = "fork"
          /\ AskFor("fork") = "fork it" /\ Following("fork") = "test"
      BY DEF AskFor, Following
    <3>2. pc' = AskFor(c) \/ pc' = Following(c)
      BY <1>8 DEF Command
    <3> HIDE DEF IInv
    <3> QED
      BY <3>1, <3>2
  <2>2. UNCHANGED <<lines, compiled, v, stack>> /\ pc = c
    BY <1>8 DEF Command
  <2> QED
    BY <2>1, <2>2
<1> QED
  BY <1>1, <1>2, <1>3, <1>4, <1>5, <1>6, <1>7, <1>8, SwitchIInv, EndIInv DEF Process

(* The invariant holds of every behaviour.                                 *)
LEMMA Inductive == Spec => []IInv
<1>1. ASSUME IInv, Stops
      PROVE  IInv'
  BY <1>1 DEF Stops, contexts, hist, IInv, Typed, NamesUnique, IsInjective, OncePerLine,
              OnePushed
<1>2. ASSUME IInv, UNCHANGED vars
      PROVE  IInv'
  BY <1>2 DEF vars, IInv, Typed, NamesUnique, IsInjective, OncePerLine, OnePushed
<1>3. IInv /\ [Next]_vars => IInv'
  BY <1>1, <1>2, UserIInv, ProcessIInv DEF Next
<1> QED
  BY InitIInv, <1>3, PTL DEF Spec

(* Whatever is typed, and in whatever order, the search of repl_ctx finds  *)
(* every context that was made (repl.c:119-130): no name has two.           *)
THEOREM SpecNamesUnique == Spec => []NamesUnique
<1>1. IInv => NamesUnique
  BY DEF IInv
<1> QED
  BY <1>1, Inductive, PTL

(* While the prompt lives one of its contexts is pushed on the environment *)
(* (repl.c:131-142, 230-238), and no line is compiled twice.               *)
THEOREM SpecStackBalanced == Spec => []StackBalanced
<1>1. IInv => StackBalanced
  BY DEF IInv, OncePerLine, OnePushed, StackBalanced
<1> QED
  BY <1>1, Inductive, PTL

=============================================================================
