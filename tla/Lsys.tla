-------------------------------- MODULE Lsys --------------------------------
(***************************************************************************)
(* The unit generator of L-systems (Lsys/lsys.c, Lsys/plug.c).  A text     *)
(* "axiom|key:word|key:word..." is parsed into places where words begin    *)
(* and end; they are expanded, depth first, into a list of symbols, which  *)
(* the tick then plays over and over, one for each trigger.                *)
(*                                                                         *)
(* A text is a sequence of codes of characters, as what is done with those *)
(* that are no symbols depends on their codes.                             *)
(***************************************************************************)
EXTENDS Integers, Sequences, SequencesExt

CONSTANTS Grammars,   \* what the program means: [axiom, rules], the rules a
                      \* sequence of [key, word]
          Orders,     \* the orders it asks for
          Others,     \* texts that are written of no grammar
          Seconds     \* bound: what is parsed by an object that has parsed

LsysAssumption ==
  /\ \A g \in Grammars : {"axiom", "rules"} \subseteq DOMAIN g
  /\ Orders \subseteq Nat
  /\ Seconds \subseteq Grammars

Nul == 0
Colon == 58
Bar == 124

VARIABLES
  life,      \* "none", "live" or "gone"
  pos,       \* lsys.pos: characters parsed
  mode,      \* lsys.mode: "KEY" or "VALUE"
  cur,       \* lsys.cur: the entry a word is read for
  ent,       \* lsys.ent: where each entry's word begins and ends
  list,      \* lst: the entry of each item
  last,      \* lst.last: the item to be played
  at,        \* ptr->pos: items played, modulo the size
  isInit,    \* ptr->is_init
  out,       \* u->out
  meant,     \* history: the grammar and the order of the last parse
  due,       \* history: the item a listener expects, counting from it
  heard,     \* history: the item that was expected when the tick just
             \* made played one, or 0
  misuse,    \* history: the questionable things the program did
  fault      \* the first bad memory access, or "none"

parser == <<pos, mode, cur, ent>>
player == <<list, last, at, isInit, out>>
vars == <<life, parser, player, meant, due, heard, misuse, fault>>

Entries == 0 .. 36
Fault(f) == fault' = IF fault = "none" THEN f ELSE fault
Misuse(m) == misuse' = misuse \cup m
If(b, m) == IF b THEN {m} ELSE {}

Init ==
  /\ life = "none"
  /\ pos = 0 /\ mode = "VALUE" /\ cur = 0
  /\ ent = [i \in Entries |-> [start |-> 1, end |-> IF i = 0 THEN 0 ELSE 1]]
  /\ list = <<>> /\ last = 1 /\ at = 0 /\ isInit = FALSE /\ out = 0
  /\ meant = <<>> /\ due = 1 /\ heard = 0
  /\ misuse = {}
  /\ fault = "none"

Live == fault = "none" /\ life = "live"

Ctor ==
  /\ life = "none"
  /\ life' = "live"
  /\ UNCHANGED <<parser, player, meant, due, heard, misuse, fault>>

-----------------------------------------------------------------------------
(* Parsing                                                                 *)

ToInt(c) == IF c >= 97 THEN c - 87 ELSE c - 48

(* str[i], counting from 0; Wild when that is past the end. *)
Wild == -1
At(str, i) == IF i \in 0 .. Len(str) - 1 THEN str[i + 1]
              ELSE IF i = Len(str) THEN Nul ELSE Wild

(* Mutant: a word is taken to begin at the colon. *)
KeyAtColon(s, str) ==
  LET e == ToInt(At(str, s.pos - 2)) + 1
  IN  IF At(str, s.pos - 2) = Wild \/ e \notin Entries THEN [s EXCEPT !.bad = TRUE]
      ELSE [s EXCEPT !.cur = e, !.ent[e].start = s.pos, !.mode = "VALUE"]

(* The key is the character before the colon. *)
Key(s, str) ==
  LET e == ToInt(At(str, s.pos - 2)) + 1
  IN  IF At(str, s.pos - 2) = Wild \/ e \notin Entries THEN [s EXCEPT !.bad = TRUE]
      ELSE [s EXCEPT !.cur = e, !.ent[e].start = s.pos + 1, !.mode = "VALUE"]

(* One character, the end of the string being the last. *)
Step(s, c, str) ==
  LET n == [s EXCEPT !.pos = @ + 1]
  IN  IF n.mode = "KEY" /\ c = Colon THEN Key(n, str)
      ELSE IF n.mode = "VALUE" /\ c = Bar
        THEN [n EXCEPT !.ent[n.cur].end = n.pos, !.mode = "KEY"]
      ELSE n

Parsed(str) ==
  LET s == FoldLeft(LAMBDA p, c : Step(p, c, str),
                    [pos |-> pos, mode |-> mode, cur |-> cur, ent |-> ent, bad |-> FALSE],
                    Append(str, Nul))
  IN  [s EXCEPT !.ent[s.cur].end = s.pos]

(* lsys_make_list: what each character becomes in n steps; the axiom is    *)
(* the entry of no character.                                              *)
Made(e, str, n) ==
  LET Chars == ToSet(str) \cup {Nul, Wild}
      Place(c) == IF c = Nul THEN 0 ELSE ToInt(c) + 1
      make[k \in 0 .. n] ==
        [c \in Chars |->
           IF k = 0 \/ c = Wild THEN <<c>>
           ELSE IF Place(c) \notin Entries THEN <<Wild>>
           ELSE FoldLeft(LAMBDA w, i : w \o make[k - 1][At(str, i - 1)], <<>>,
                         [j \in 1 .. e[Place(c)].end - e[Place(c)].start |->
                            e[Place(c)].start + j - 1])]
  IN  make[n][Nul]

Text(g) ==
  FoldLeft(LAMBDA t, r : t \o <<Bar, r.key, Colon>> \o r.word, g.axiom, g.rules)

(* parse(n, str): neither the parser nor the list there was is let go. *)
Parse(g, str, n) ==
  LET s == Parsed(str)
      l == Made(s.ent, str, n)
  IN  /\ Live
      /\ misuse = {}
      /\ pos' = s.pos /\ mode' = s.mode /\ cur' = s.cur /\ ent' = s.ent
      /\ list' = [i \in DOMAIN l |-> ToInt(l[i])]
      /\ last' = 1
      /\ at' = 0
      /\ isInit' = TRUE
      /\ meant' = <<g, n>>
      /\ due' = 1
      /\ heard' = 0
      /\ Fault(IF s.bad \/ Wild \in ToSet(l) THEN "bounds" ELSE "none")
      /\ Misuse(If(isInit, "again") \cup If(n = 0, "order") \cup If(l = <<>>, "empty")
                  \cup If(g = <<>>, "other"))
      /\ UNCHANGED <<life, out>>

ParseGrammar(g, n) == (isInit => g \in Seconds) /\ Parse(g, Text(g), n)
ParseOther(str, n) == ~isInit /\ Parse(<<>>, str, n)

(* ... of a null string, after which nothing is followed. *)
ParseNull ==
  /\ Live
  /\ Fault("null")
  /\ Misuse({"null"})
  /\ UNCHANGED <<life, parser, player, meant, due, heard>>

-----------------------------------------------------------------------------
(* Playing                                                                 *)

(* lsys_list_iter: the item, counted from 1, and whether there is one. *)
Item == IF at = 0 THEN 1 ELSE last
IterFault ==
  IF list = <<>> THEN "zero"
  ELSE IF Item \notin DOMAIN list THEN "wild"
  ELSE IF list[Item] \notin Entries THEN "bounds"
  ELSE "none"

Tick(trig) ==
  /\ Live
  /\ IF isInit /\ trig
       THEN /\ Fault(IterFault)
            /\ IF IterFault = "none"
                 THEN /\ last' = Item + 1
                      /\ at' = (at + 1) % Len(list)
                      /\ out' = list[Item]
                      /\ heard' = due
                      /\ due' = (due % Len(list)) + 1
                 ELSE UNCHANGED <<last, at, out, heard, due>>
       ELSE /\ out' = 0
            /\ heard' = 0
            /\ UNCHANGED <<last, at, due, fault>>
  /\ UNCHANGED <<life, parser, list, isInit, meant, misuse>>

(* reset: the first item is next, but `at` stays what it was. *)
Reset ==
  /\ Live
  /\ last' = IF isInit THEN 1 ELSE last
  /\ due' = 1
  /\ Misuse(If(isInit /\ at # 0, "reset"))
  /\ UNCHANGED <<life, parser, list, at, isInit, out, meant, heard, fault>>

(* get plays all items into a string that it does not end. *)
Get ==
  /\ Live
  /\ isInit
  /\ list # <<>>
  /\ last' = IF at = 0 THEN Len(list) + 1 ELSE at + 1
  /\ Fault("unended")
  /\ Misuse({"get"})
  /\ UNCHANGED <<life, parser, list, at, isInit, out, meant, due, heard>>

Dtor ==
  /\ Live
  /\ life' = "gone"
  /\ UNCHANGED <<parser, player, meant, due, heard, misuse, fault>>

Next ==
  \/ Ctor \/ ParseNull \/ Reset \/ Get \/ Dtor
  \/ \E trig \in BOOLEAN : Tick(trig)
  \/ \E n \in Orders : \/ \E g \in Grammars : ParseGrammar(g, n)
                       \/ \E str \in Others : ParseOther(str, n)

Spec == Init /\ [][Next]_vars

-----------------------------------------------------------------------------
(* The rewriting of a word: each symbol becomes the word of its rule, the  *)
(* last when there are several, and goes when there is none.               *)
Word(g, c) ==
  LET r == SelectLastInSeq(g.rules, LAMBDA x : x.key = c)
  IN  IF r = 0 THEN <<>> ELSE g.rules[r].word

Generation(g, n) ==
  LET f[k \in 1 .. n] ==
        IF k = 1 THEN g.axiom
        ELSE FoldLeft(LAMBDA w, c : w \o Word(g, c), <<>>, f[k - 1])
  IN  f[n]

(* What is played is the order's generation of the grammar the text was    *)
(* written of, as the table at the head of lsys.c has it, from its first   *)
(* symbol to its last and over again (lsys.c:112-147, 172-208).  Not of a  *)
(* second text, whose words are looked for past its end, nor after a reset *)
(* in the middle, which makes it start over early.                         *)
PlaysGeneration ==
  isInit /\ misuse = {} =>
    LET w == Generation(meant[1], meant[2])
    IN  /\ list = [i \in DOMAIN w |-> ToInt(w[i])]
        /\ heard # 0 => out = ToInt(w[heard])

(* No text of a grammar makes the object read or write where it should     *)
(* not, whatever is called when: but for a null text, a second one, for an *)
(* order or a list of none, and for get (lsys.c:86, 119, 207,              *)
(* plug.c:72, 103).  A reset, at any moment, does no harm.                 *)
SafeWithoutMisuse == misuse \subseteq {"reset"} => fault = "none"

=============================================================================
