------------------------------ MODULE Nuklear ------------------------------
(***************************************************************************)
(* The windows of Nuklear/nuklear.c.  Each Panel starts a thread that, for *)
(* ever, takes the display (one for all windows), walks the tree of        *)
(* widgets, draws it and gives the display back.  Meanwhile the machine's  *)
(* shreds make widgets, which their constructors put where last_window and *)
(* its last_widget say, without any lock, and drop them.  A list counts    *)
(* what is put in it; a group does not count the group it was made in.     *)
(*                                                                         *)
(* A thread is cancelled only in Xlib, that is when it waits for the       *)
(* display, or has it and draws (reading the events is as drawing).  What  *)
(* the widgets show and the values they hold are left out.                 *)
(***************************************************************************)
EXTENDS Integers, Sequences, FiniteSets

CONSTANTS Sizes,      \* bound: the numbers of panels and of widgets made
          MaxCalls,   \* bound: number of calls of begin, end and add, and
                      \* of variables that go out of scope
          MaxItems    \* bound: length of a list

NuklearAssumption ==
  /\ Sizes \subseteq Nat \X Nat
  /\ MaxCalls \in Nat
  /\ MaxItems \in Nat

(* Leaf   Label, Text, Button, Prog, Check, Slider ...: draw themselves    *)
(* Row    Row, Tree, MenuBar: a group that draws what is in its list; and  *)
(*        String, which does not, as a tree that is not open               *)
(* Layout the same, in a window of its own, that a panel has               *)
(* Menu, Combo  groups whose list is read as strings                       *)
Groups == {"Row", "Layout", "Menu", "Combo"}
Kinds == Groups \cup {"Leaf"}
Texts == {"Menu", "Combo"}
Text == 0

VARIABLES
  size,     \* the one of Sizes
  calls,    \* number of calls
  panel,    \* each panel made: "live", "closing" or "gone"
  last,     \* their last_widget, 0 for NULL
  roots,    \* their gw->widget
  kind,     \* the class of each widget made
  parent,   \* the group it was made in, 0 for NULL
  list,     \* LIST(o): widgets, or Text
  ref,      \* its reference count: it is freed at 0
  held,     \* the widgets the program refers to by a variable
  adding,   \* the list being added to: <<"panel", p>>, <<"group", w>> or None
  thread,   \* each panel's: "wait", "walk", "draw" or "dead"
  path,     \* where its walk is: a list and an index for each level
  lock,     \* the panel whose thread has the display, 0 for none
  misuse,   \* history: the program did one of the questionable things
  fault     \* the first bad memory access, or "none"

tree == <<kind, parent, list, ref, held>>
walks == <<thread, path, lock>>
bounds == <<size, calls>>
vars == <<bounds, panel, last, roots, tree, adding, walks, misuse, fault>>

None == <<>>
Panels == DOMAIN panel
Windows == UNION {1 .. z[1] : z \in Sizes}
Widgets == DOMAIN kind
top == Len(panel)          \* last_window: 0 for NULL, else the last one made
Fault(f) == fault' = IF fault = "none" THEN f ELSE fault
Misuse(b) == misuse' = (misuse \/ b)

Init ==
  /\ size \in Sizes
  /\ calls = 0
  /\ panel = <<>> /\ last = <<>> /\ roots = <<>>
  /\ kind = <<>> /\ parent = <<>> /\ list = <<>> /\ ref = <<>>
  /\ held = {}
  /\ adding = None
  /\ thread = <<>> /\ path = <<>>
  /\ lock = 0
  /\ misuse = FALSE
  /\ fault = "none"

(* The machine is not in the middle of something: an addition is two       *)
(* steps, and it waits for the thread of a panel that closes.  (Bound: a   *)
(* program is followed up to the first questionable thing it did.)         *)
Idle ==
  /\ fault = "none"
  /\ ~misuse
  /\ adding = None
  /\ \A p \in Panels : panel[p] # "closing"

-----------------------------------------------------------------------------
(* Construction                                                            *)

(* What happens when last_window is looked at. *)
NoWindow == ~(top > 0 /\ panel[top] # "gone")
WindowFault == IF top = 0 THEN "null" ELSE IF NoWindow THEN "stale" ELSE "none"

(* new Panel: the display is opened by the first, and found by the others  *)
(* in last_window.                                                         *)
NewPanel ==
  /\ Idle
  /\ top < size[1]
  /\ panel' = Append(panel, "live")
  /\ last' = Append(last, 0)
  /\ roots' = Append(roots, <<>>)
  /\ thread' = Append(thread, "wait")
  /\ path' = Append(path, <<>>)
  /\ Misuse(top > 0 /\ NoWindow)
  /\ Fault(IF top > 0 THEN WindowFault ELSE "none")
  /\ UNCHANGED <<bounds, tree, adding, lock>>

(* Anything else that uses it, when it is not there. *)
BadWindow ==
  /\ Idle
  /\ NoWindow
  /\ Fault(WindowFault)
  /\ Misuse(TRUE)
  /\ UNCHANGED <<bounds, panel, last, roots, tree, adding, walks>>

(* Where the constructors may put a widget of class k.  A layout goes in   *)
(* the panel's list if what is at its end is not null; an empty vector has *)
(* there what the library left.                                            *)
Targets(k) ==
  IF k = "Layout" THEN {<<"panel", top>>} \cup (IF roots[top] = <<>> THEN {None} ELSE {})
  ELSE IF k = "Menu" \/ last[top] = 0 THEN {None}
  ELSE {<<"group", last[top]>>}

Into(t, l) == t # None /\ t[1] = l
Room(t) ==
  /\ Into(t, "group") => Len(list[t[2]]) < MaxItems
  /\ Into(t, "panel") => Len(roots[t[2]]) < MaxItems

(* Mutant: the list does not count what is put in it. *)
NewUncounted(k, t) ==
  LET w == Len(kind) + 1
      wide == [list EXCEPT ![t[2]] = Append(@, w)]
  IN  /\ Idle
      /\ ~NoWindow
      /\ w <= size[2]
      /\ w = 1 <=> k = "Layout"
      /\ Room(t)
      /\ kind' = Append(kind, k)
      /\ parent' = Append(parent, last[top])
      /\ list' = Append(IF Into(t, "group") THEN wide ELSE list, <<>>)
      /\ roots' = IF Into(t, "panel") THEN [roots EXCEPT ![top] = Append(@, w)] ELSE roots
      /\ ref' = Append(ref, 1)
      /\ held' = held \cup {w}
      /\ last' = IF k \in Groups THEN [last EXCEPT ![top] = w] ELSE last
      /\ adding' = t
      /\ Misuse(FALSE)
      /\ fault' = fault
      /\ UNCHANGED <<bounds, panel, walks>>

(* new Row and the others: the constructors of Widget, of Group and of the *)
(* class.  The widget is in a list before it is complete.  (Bound: the     *)
(* first widget is a layout, and the only one.)                            *)
New(k, t) ==
  LET w == Len(kind) + 1
      into == t[2]
      stale == Into(t, "group") /\ ref[into] = 0
  IN  /\ Idle
      /\ ~NoWindow
      /\ w <= size[2]
      /\ w = 1 <=> k = "Layout"
      /\ Room(t)
      /\ kind' = Append(kind, k)
      /\ parent' = Append(parent, last[top])
      /\ list' = Append(IF Into(t, "group") THEN [list EXCEPT ![into] = Append(@, w)]
                                            ELSE list, <<>>)
      /\ roots' = IF Into(t, "panel") THEN [roots EXCEPT ![into] = Append(@, w)] ELSE roots
      /\ ref' = Append(ref, IF t = None THEN 1 ELSE 2)
      /\ held' = held \cup {w}
      /\ last' = IF k \in Groups THEN [last EXCEPT ![top] = w] ELSE last
      /\ adding' = t
      /\ Misuse(Into(t, "group") /\ kind[into] \in Texts)
      /\ Fault(IF stale THEN "stale" ELSE "none")
      /\ UNCHANGED <<bounds, panel, walks>>

(* Combo.add and Menu.add put a string in the list, MenuBar.add a menu. *)
AddTo(g, x) ==
  /\ Idle
  /\ calls < MaxCalls
  /\ calls' = calls + 1
  /\ g \in held
  /\ \/ kind[g] \in Texts /\ x = Text
     \/ kind[g] = "Row" /\ x \in held /\ kind[x] = "Menu"
  /\ Len(list[g]) < MaxItems
  /\ list' = [list EXCEPT ![g] = Append(@, x)]
  /\ ref' = IF x = Text THEN ref ELSE [ref EXCEPT ![x] = @ + 1]
  /\ adding' = <<"group", g>>
  /\ UNCHANGED <<size, panel, last, roots, kind, parent, held, walks, misuse, fault>>

(* The element is stored and the widget complete. *)
Added ==
  /\ fault = "none"
  /\ adding # None
  /\ adding' = None
  /\ UNCHANGED <<bounds, panel, last, roots, tree, walks, misuse, fault>>

(* g.begin() and g.end(), for whatever window is the last. *)
Begin(g) ==
  /\ Idle
  /\ calls < MaxCalls
  /\ calls' = calls + 1
  /\ ~NoWindow
  /\ g \in held
  /\ kind[g] \in Groups
  /\ \E w \in {g, parent[g]} : last' = [last EXCEPT ![top] = w]
  /\ UNCHANGED <<size, panel, roots, tree, adding, walks, misuse, fault>>

-----------------------------------------------------------------------------
(* Destruction                                                             *)

Times(s, w) == Cardinality({i \in DOMAIN s : s[i] = w})

(* The groups among those that lose their last reference: group_dtor frees *)
(* the list but does not release what is in it, and last_widget becomes    *)
(* the group it was made in.  `left` is what counts become.                *)
Freed(left) == {w \in Widgets : ref[w] > 0 /\ left[w] = 0}
FreedGroups(left) == {w \in Freed(left) : kind[w] \in Groups}

(* Something still refers to a group that goes. *)
Outlived(left, now) ==
  \E g \in FreedGroups(left) :
    \/ top > 0 /\ now[top] = g
    \/ \E w \in Widgets : left[w] > 0 /\ kind[w] \in Groups /\ parent[w] = g

Release(left) ==
  LET g == FreedGroups(left)
      now == [last EXCEPT ![top] = parent[CHOOSE w \in g : \A u \in g : w <= u]]
  IN  /\ ref' = left
      /\ IF g = {} THEN UNCHANGED <<last, misuse, fault>>
         ELSE IF NoWindow
           THEN Fault("stale") /\ Misuse(TRUE) /\ last' = last
         ELSE /\ last' = now
              /\ Misuse(Outlived(left, now))
              /\ fault' = fault

(* A variable goes out of scope. *)
Drop(w) ==
  /\ Idle
  /\ w \in held
  /\ calls < MaxCalls
  /\ calls' = calls + 1
  /\ held' = held \ {w}
  /\ Release([ref EXCEPT ![w] = @ - 1])
  /\ UNCHANGED <<size, panel, roots, kind, parent, list, adding, walks>>

(* The last reference to a panel goes: its thread is cancelled ... *)
Close(p) ==
  /\ Idle
  /\ panel[p] = "live"
  /\ panel' = [panel EXCEPT ![p] = "closing"]
  /\ UNCHANGED <<bounds, last, roots, tree, adding, walks, misuse, fault>>

(* ... and ends, with the display if it has it ... *)
Cancelled(p) ==
  /\ panel[p] = "closing"
  /\ thread[p] \in {"wait", "draw"}
  /\ thread' = [thread EXCEPT ![p] = "dead"]
  /\ UNCHANGED <<bounds, panel, last, roots, tree, adding, path, lock, misuse, fault>>

(* ... and the widgets of the panel lose a reference each, from the last.  *)
Joined(p) ==
  /\ fault = "none"
  /\ panel[p] = "closing"
  /\ thread[p] = "dead"
  /\ panel' = [panel EXCEPT ![p] = "gone"]
  /\ roots' = [roots EXCEPT ![p] = <<>>]
  /\ Release([w \in Widgets |-> ref[w] - Times(roots[p], w)])
  /\ UNCHANGED <<bounds, kind, parent, list, held, adding, walks>>

-----------------------------------------------------------------------------
(* The thread of a panel                                                   *)

Alive(p) == fault = "none" /\ thread[p] # "dead"

XLock(p) ==
  /\ Alive(p)
  /\ thread[p] = "wait"
  /\ lock = 0
  /\ lock' = p
  /\ thread' = [thread EXCEPT ![p] = "walk"]
  /\ path' = [path EXCEPT ![p] = <<[in |-> <<"panel", p>>, at |-> 1]>>]
  /\ UNCHANGED <<bounds, panel, last, roots, tree, adding, misuse, fault>>

Here(p) == path[p][Len(path[p])]
Items(l) == IF l[1] = "panel" THEN roots[l[2]] ELSE list[l[2]]

(* The list the walk is in was freed, or is being moved. *)
ListFault(p) ==
  LET l == Here(p).in
  IN  IF IF l[1] = "panel" THEN panel[l[2]] = "gone" ELSE ref[l[2]] = 0
        THEN {"stale"}
      ELSE IF adding = l THEN {"raced", "none"}
      ELSE {"none"}

Onward(p) == [path[p] EXCEPT ![Len(path[p])].at = @ + 1]

(* What the walk meets next.  A group is entered, unless it is not open;   *)
(* Menu and Combo take the elements of theirs for strings.  For each, Menu *)
(* looks for the fields of a Row, and keeps the choice in one of Combo's,  *)
(* neither of which it has.                                                *)
Visit(p) ==
  LET l == Here(p).in
      x == Items(l)[Here(p).at]
      strings == l[1] = "group" /\ kind[l[2]] \in Texts
      menu == l[1] = "group" /\ kind[l[2]] = "Menu"
      bad == IF strings /\ x # Text THEN {"misread"}
             ELSE IF menu THEN {"bounds", "none"}
             ELSE IF strings THEN {"none"}
             ELSE IF ref[x] = 0 THEN {"stale"}
             ELSE {"none"}
  IN  /\ Alive(p)
      /\ thread[p] = "walk"
      /\ path[p] # <<>>
      /\ Here(p).at <= Len(Items(l))
      /\ \/ path' = [path EXCEPT ![p] = Onward(p)]
         \/ /\ ~strings
            /\ kind[x] \in {"Row", "Layout"} \cup Texts
            /\ path' = [path EXCEPT ![p] = Append(Onward(p), [in |-> <<"group", x>>, at |-> 1])]
      /\ \E f \in ListFault(p), b \in bad : Fault(IF f # "none" THEN f ELSE b)
      /\ Misuse(adding = l \/ menu)
      /\ UNCHANGED <<bounds, panel, last, roots, tree, adding, thread, lock>>

(* The end of a list; at the end of the panel's the window is drawn. *)
Leave(p) ==
  /\ Alive(p)
  /\ thread[p] = "walk"
  /\ path[p] # <<>>
  /\ Here(p).at > Len(Items(Here(p).in))
  /\ path' = [path EXCEPT ![p] = SubSeq(@, 1, Len(@) - 1)]
  /\ thread' = IF Len(path[p]) = 1 THEN [thread EXCEPT ![p] = "draw"] ELSE thread
  /\ \E f \in ListFault(p) : Fault(f)
  /\ Misuse(adding = Here(p).in)
  /\ UNCHANGED <<bounds, panel, last, roots, tree, adding, lock>>

(* Mutant: the display is not given back. *)
DrawKeeps(p) ==
  /\ Alive(p)
  /\ thread[p] = "draw"
  /\ thread' = [thread EXCEPT ![p] = "wait"]
  /\ UNCHANGED <<bounds, panel, last, roots, tree, adding, path, lock, misuse, fault>>

Draw(p) ==
  /\ Alive(p)
  /\ thread[p] = "draw"
  /\ thread' = [thread EXCEPT ![p] = "wait"]
  /\ lock' = 0
  /\ UNCHANGED <<bounds, panel, last, roots, tree, adding, path, misuse, fault>>

-----------------------------------------------------------------------------
Loop(p) == XLock(p) \/ Visit(p) \/ Leave(p) \/ Draw(p)

Next ==
  \/ NewPanel \/ BadWindow \/ Added
  \/ top > 0 /\ \E k \in Kinds : \E t \in Targets(k) : New(k, t)
  \/ \E g \in Widgets : \/ Begin(g) \/ Drop(g)
                        \/ \E x \in Widgets \cup {Text} : AddTo(g, x)
  \/ \E p \in Panels : Close(p) \/ Cancelled(p) \/ Joined(p) \/ Loop(p)

(* Threads are scheduled, the display is given to those that keep asking   *)
(* for it, and a thread that was cancelled notices.                        *)
Fairness ==
  /\ WF_vars(Added)
  /\ \A p \in Windows :
       /\ WF_vars(p \in Panels /\ (Loop(p) \/ Joined(p)))
       /\ SF_vars(p \in Panels /\ XLock(p))
       /\ SF_vars(p \in Panels /\ Cancelled(p))

Spec == Init /\ [][Next]_vars /\ Fairness

-----------------------------------------------------------------------------
(* Where w is, in some lists. *)
Places(lists, w) ==
  UNION {{<<l, i>> : i \in {j \in DOMAIN lists[l] : lists[l][j] = w}} : l \in DOMAIN lists}

(* However shreds make, add and drop widgets while the threads walk, no    *)
(* thread meets a widget or a list that was freed (nuklear.c:176-181,      *)
(* 399-415): but for one that looks at a list while it is added to, for a  *)
(* Menu's items, for what is put in a Menu or a Combo or is of the class   *)
(* Group itself, and once a panel or a group is dropped before what was    *)
(* made in it.  All is counted: what the lists of dropped groups hold is   *)
(* held for ever.  (The base classes have no function to draw with; the    *)
(* model makes none of them.)                                              *)
WidgetsSafe ==
  /\ ~misuse => fault = "none"
  /\ fault = "none" =>
       \A w \in Widgets :
         ref[w] = Cardinality({w} \cap held)
                  + Cardinality(Places(list, w)) + Cardinality(Places(roots, w))

(* A window that waits is drawn again, unless a panel was closed: its      *)
(* thread may have gone with the display, and then no window is drawn any  *)
(* more (nuklear.c:164-191, 276-279).  Even so, closing one ends.          *)
Waits(p) == p \in Panels /\ thread[p] = "wait"
Closing == \E p \in Panels : panel[p] = "closing"
SomeClosed == \E p \in Panels : panel[p] # "live"

WindowsDrawn ==
  /\ \A p \in Windows : Waits(p) ~> (~Waits(p) \/ SomeClosed \/ fault # "none")
  /\ Closing ~> (~Closing \/ fault # "none")

=============================================================================
