---------------------------- MODULE CheatPrograms ----------------------------
(***************************************************************************)
(* What nested cheats stand for: statements are lines, conditionals and    *)
(* repetitions of statements, which the comments of menus/cheats.c write   *)
(* down as types 3 to A ended by D0 and as type C ended by D1.             *)
(***************************************************************************)
EXTENDS Naturals, Sequences

Do(op, arg) == [kind |-> "do", op |-> op, arg |-> arg]
\* open: ended by the end of the loop around it.
IfIn(set, body, open) == [kind |-> "if", set |-> set, body |-> body, open |-> open]
Times(n, body) == [kind |-> "repeat", n |-> n, body |-> body]

\* Data of an E line, which would write if it were taken for a line.
DataLine == [op |-> "write", arg |-> 9]

\* The lines of statements.
RECURSIVE Lines(_)
Lines(body) ==
  IF body = <<>> THEN <<>>
  ELSE LET s == Head(body)
           lines ==
             CASE s.kind = "do" ->
                    <<[op |-> s.op, arg |-> s.arg]>>
                    \o (IF s.op = "data" THEN [i \in 1 .. s.arg |-> DataLine] ELSE <<>>)
               [] s.kind = "if" -> <<[op |-> "if", arg |-> s.set]>> \o Lines(s.body)
                    \o (IF s.open THEN <<>> ELSE <<[op |-> "endif", arg |-> 0]>>)
               [] s.kind = "repeat" -> <<[op |-> "repeat", arg |-> s.n]>> \o Lines(s.body)
                    \o <<[op |-> "endloop", arg |-> 0]>>
       IN lines \o Lines(Tail(body))

\* What statements write from an offset: [offset, writes].
RECURSIVE After(_, _)
After(body, m) ==
  IF body = <<>> THEN m
  ELSE LET s == Head(body)
           rest == Tail(body)
       IN CASE s.kind = "if" ->
                 After(rest, IF m.offset \in s.set THEN After(s.body, m) ELSE m)
            [] s.kind = "repeat" ->
                 After(IF s.n = 1 THEN rest ELSE <<Times(s.n - 1, s.body)>> \o rest,
                       After(s.body, m))
            [] OTHER ->
                 After(rest,
                   [offset |-> CASE s.op = "set" -> s.arg
                                 [] s.op = "add" -> m.offset + s.arg
                                 [] s.op = "store" -> m.offset + 1
                                 [] OTHER -> m.offset,
                    writes |-> IF s.op \in {"write", "data", "store"}
                               THEN Append(m.writes, <<s.arg, m.offset>>) ELSE m.writes])

Cheat(body) ==
  [lines |-> Lines(body),
   meaning |-> After(body, [offset |-> 0, writes |-> <<>>]).writes]
-----------------------------------------------------------------------------
(* The cheats that are checked: a loop of at most two statements, alone or in a
   conditional, before, after or inside simple ones.                        *)
Simple == {Do("data", 1), Do("store", 2), Do("add", 1)}
Conditions == {{0}, {1}}
Ifs(open) == {IfIn(c, <<s>>, open) : c \in Conditions, s \in Simple}
             \cup {IfIn({1}, <<s, t>>, open) : s \in Simple, t \in Simple}
Statements == Simple \cup {Do("write", 1)} \cup Ifs(FALSE)
LoopBodies == {<<s, t>> : s \in Statements, t \in Statements \cup Ifs(TRUE)}
Loops == {Times(n, b) : n \in {1, 3}, b \in LoopBodies}
SomeLoops == {Times(2, <<s, t>>) : s \in Simple, t \in Ifs(FALSE) \cup Ifs(TRUE)}

NestedCheats ==
  {Cheat(<<l>>) : l \in Loops}
  \cup {Cheat(<<IfIn(c, <<l>>, FALSE), s>>) : c \in Conditions, l \in SomeLoops, s \in Statements}
  \cup {Cheat(<<s, l, t>>) : s \in Simple, l \in SomeLoops, t \in Statements}

\* Any lines at all, of which the cheat's meaning is not known.
Branching == [op : {"if"}, arg : {{1}}] \cup [op : {"repeat"}, arg : {2}]
             \cup [op : {"endif", "break", "endloop", "end"}, arg : {0}]
AllLines == Branching \cup [op : {"write", "store", "add", "search"}, arg : {1}]
            \cup [op : {"repeat"}, arg : {0}] \cup [op : {"data"}, arg : {0, 1, 3}]
            \cup [op : {"move", "fault", "ifFault", "return"}, arg : {0}]
AnyCheats(n, lines) == {[lines |-> l, meaning |-> <<>>] : l \in [1 .. n -> lines]}
=============================================================================
