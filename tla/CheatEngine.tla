----------------------------- MODULE CheatEngine -----------------------------
(***************************************************************************)
(* The interpreter of cheat codes (rosalina, menus/cheats.c).  A cheat is  *)
(* a list of lines; conditionals push a bit that says whether what follows *)
(* is skipped, and there is one loop at a time.  Addresses and values are  *)
(* abstracted to one register, offset, which decides what a conditional    *)
(* finds, and to writes that are told apart by their argument.             *)
(*                                                                         *)
(* Lines are counted in a u32, but the line a loop goes back to is kept in *)
(* an s8, the line that an E line reads in a u8, and conditionals in the   *)
(* bits of a word with their number in a u8: the widths are constants.     *)
(***************************************************************************)
EXTENDS Integers, Sequences

CONSTANTS
  Programs,   \* [lines: sequence of [op, arg], meaning: the writes it stands for]
  ByteSize,   \* values of a u8: 256 in the code
  StackBits   \* bits of ifStack: 32 in the code

VARIABLES
  program,  \* the lines and meaning of the cheat
  state,    \* CheatState
  writes,   \* what has been written: sequence of <<argument, offset>>
  valid     \* what Cheat_ApplyCheat returned: "running", "yes" or "no"

cheatVars == <<program, state, writes, valid>>

NoLoop == -1

\* Lines count from 1 here, from 0 in the code.  As a u8 and as an s8:
InByte(index) == (index - 1) % ByteSize
InSignedByte(index) ==
  IF InByte(index) < ByteSize \div 2 THEN InByte(index) ELSE InByte(index) - ByteSize

CheatInit ==
  /\ program \in Programs
  /\ state = [index |-> 1, offset |-> 0, ifStack |-> <<>>, ifCount |-> 0, loopLine |-> NoLoop,
              loopCount |-> 0, storedStack |-> <<>>, storedIfCount |-> 0]
  /\ writes = <<>>
  /\ valid = "running"
-----------------------------------------------------------------------------
line == program.lines[state.index]

\* The stack is a word: below the bits that were pushed there are zeroes.
skipExecution == state.ifStack # <<>> /\ Head(state.ifStack)
Popped(stack) == IF stack = <<>> THEN <<>> ELSE Tail(stack)

\* What a line leaves before the index moves on.
Goes(s) == state' = [s EXCEPT !.index = @ + 1] /\ UNCHANGED <<program, valid>>

\* A line with the given operation, or one of the operations.
Line(ops) == valid = "running" /\ state.index <= Len(program.lines) /\ line.op \in ops

\* Types 0, 1 and 2: writes at offset + X.  Writes that fail end the cheat.
Write ==
  /\ Line({"write"})
  /\ writes' = IF skipExecution THEN writes ELSE Append(writes, <<line.arg, state.offset>>)
  /\ Goes(state)

\* Type E: writes the bytes of the next lines, arg of them, which are passed over even
\* if it is skipped; typeELine wraps.
WriteData ==
  /\ Line({"data"})
  /\ writes' = IF skipExecution THEN writes ELSE Append(writes, <<line.arg, state.offset>>)
  /\ Goes([state EXCEPT !.index = ((InByte(@) + line.arg) % ByteSize) + 1])

\* D6, D7, D8: writes and moves the offset on.
Store ==
  /\ Line({"store"})
  /\ IF skipExecution THEN Goes(state) /\ UNCHANGED writes
     ELSE /\ writes' = Append(writes, <<line.arg, state.offset>>)
          /\ Goes([state EXCEPT !.offset = @ + 1])

\* B, D3, D9 to DC, F: registers change.
Set ==
  /\ Line({"set", "add"})
  /\ Goes(CASE skipExecution -> state
            [] ~skipExecution /\ line.op = "set" -> [state EXCEPT !.offset = line.arg]
            [] OTHER -> [state EXCEPT !.offset = @ + line.arg])
  /\ UNCHANGED writes

\* DF: registers change, whether lines are skipped or not.
Move ==
  /\ Line({"move"})
  /\ Goes([state EXCEPT !.offset = line.arg])
  /\ UNCHANGED writes

\* An address that is not mapped, for a line that may be skipped...
Fault ==
  /\ Line({"fault"})
  /\ IF skipExecution THEN Goes(state)
     ELSE valid' = "no" /\ UNCHANGED <<program, state>>
  /\ UNCHANGED writes

\* ... and for a conditional, which reads even then; an unknown or empty line.
Invalid ==
  /\ Line({"ifFault", "unknown"})
  /\ valid' = "no"
  /\ UNCHANGED <<program, state, writes>>

\* The bit that is shifted out is lost.
Pushed(s, newSkip) ==
  [s EXCEPT !.ifStack = <<newSkip \/ skipExecution>>
                          \o (IF Len(@) < StackBits THEN @ ELSE SubSeq(@, 1, StackBits - 1)),
            !.ifCount = (@ + 1) % ByteSize]

\* Types 3 to A, DD, DE: the argument is the set of offsets where the condition holds.
If ==
  /\ Line({"if"})
  /\ Goes(Pushed(state, state.offset \notin line.arg))
  /\ UNCHANGED writes

\* FE: searches a pattern of as many bytes, eight to a line, that the next lines hold;
\* it moves past them unless it is skipped.  A byte that cannot be read ends the cheat.
Search ==
  LET past == [state EXCEPT !.index = @ + ((line.arg + 7) \div 8)]
  IN /\ Line({"search"})
     /\ LET fits == state.index - 1 + line.arg < Len(program.lines)
        IN \/ /\ ~fits \/ ~skipExecution
              /\ valid' = "no" /\ UNCHANGED <<program, state>>
           \/ \E found \in BOOLEAN :
                /\ fits /\ (skipExecution => ~found)
                /\ Goes(Pushed(IF skipExecution THEN state ELSE past, ~found))
     /\ UNCHANGED writes

\* C0, C1, C2: lines are repeated, even skipped ones.
Repeat ==
  /\ Line({"repeat"})
  /\ Goes([state EXCEPT !.loopLine = InSignedByte(state.index), !.loopCount = line.arg,
                        !.storedStack = state.ifStack, !.storedIfCount = state.ifCount])
  /\ UNCHANGED writes

\* As an index, a negative line is past every end.
Back(s) ==
  [s EXCEPT !.index = CASE s.loopLine = NoLoop -> @
                        [] s.loopLine # NoLoop /\ s.loopLine < 0 -> Len(program.lines) + 1
                        [] OTHER -> s.loopLine + 1]

\* Mutant of Again: rounds are not counted.
AgainForever(s) ==
  CASE s.loopCount = 0 -> s
    [] s.loopCount = 1 -> [s EXCEPT !.loopCount = 0, !.loopLine = NoLoop]
    [] OTHER -> Back(s)

\* One round of the loop is over: the index goes back unless it was the last one.
Again(s) ==
  CASE s.loopCount = 0 -> s
    [] s.loopCount = 1 -> [s EXCEPT !.loopCount = 0, !.loopLine = NoLoop]
    [] OTHER -> Back([s EXCEPT !.loopCount = @ - 1])

Unnested(s) == [s EXCEPT !.ifStack = Popped(@), !.ifCount = @ - 1]

\* D0 0: ends the last conditional; in a loop that opened none, the round.
EndIf ==
  /\ Line({"endif"})
  /\ Goes(IF state.loopLine # NoLoop
          THEN IF state.ifCount > 0 /\ state.ifCount > state.storedIfCount
               THEN Unnested(state) ELSE Again(state)
          ELSE IF state.ifCount > 0 THEN Unnested(state) ELSE state)
  /\ UNCHANGED writes

\* D0 1: leaves the loop; the line after its end is passed over as well.
Break ==
  LET ends == {i \in state.index + 1 .. Len(program.lines) :
                 program.lines[i].op = "endloop"
                 \/ program.lines[i].op = "end"}
      after == IF ends = {} THEN Len(program.lines) + 1
               ELSE 1 + CHOOSE i \in ends : \A j \in ends : i <= j
  IN /\ Line({"break"})
     /\ Goes(IF skipExecution THEN state
             ELSE [state EXCEPT !.loopCount = 0, !.loopLine = NoLoop, !.index = after])
     /\ UNCHANGED writes

\* Mutant of EndLoop: the conditionals opened in the round stay.
EndLoopKeepsStack ==
  /\ Line({"endloop"})
  /\ Goes(Again(state))
  /\ UNCHANGED writes

\* D1: ends the round and the conditionals opened in it.
EndLoop ==
  /\ Line({"endloop"})
  /\ Goes(IF state.loopCount = 0 THEN state
          ELSE Again([state EXCEPT !.ifStack = state.storedStack,
                                   !.ifCount = state.storedIfCount]))
  /\ UNCHANGED writes

\* D2 0: ends the round, or after the last one everything.
End ==
  /\ Line({"end"})
  /\ Goes(IF state.loopCount > 1 THEN Again(state)
          ELSE [Again(state) EXCEPT !.offset = 0, !.ifStack = <<>>, !.ifCount = 0])
  /\ UNCHANGED writes

\* D2 1.
Return ==
  /\ Line({"return"})
  /\ Goes(IF skipExecution THEN state ELSE [state EXCEPT !.index = Len(program.lines)])
  /\ UNCHANGED writes

Finish ==
  /\ valid = "running" /\ state.index > Len(program.lines)
  /\ valid' = "yes"
  /\ UNCHANGED <<program, state, writes>>

CheatNext ==
  \/ Write \/ WriteData \/ Store \/ Set \/ Move \/ Fault \/ Invalid
  \/ If \/ Search \/ Repeat \/ EndIf \/ Break \/ EndLoop \/ End \/ Return \/ Finish
-----------------------------------------------------------------------------
\* A cheat whose conditionals and loops are nested writes what it stands for: loops
\* run their conditionals anew in each round, those around a loop outlast it, and
\* lines of a loop that is skipped write nothing however often it runs.
AppliesAsMeant == valid # "running" => valid = "yes" /\ writes = program.meaning

\* No E line reads past the lines that a u8 counts; one that does goes back.
DataFits ==
  \A i \in 1 .. Len(program.lines) :
    program.lines[i].op = "data" => i + program.lines[i].arg <= ByteSize
=============================================================================
