---------------------------- MODULE GDBBreakpoints ----------------------------
(***************************************************************************)
(* The software breakpoints of Rosalina's debugger (gdb/breakpoints.c):    *)
(* they are written over the code of the process and remembered, with what *)
(* they replaced, in a table sorted by address.                            *)
(***************************************************************************)
EXTENDS Naturals, Sequences, SequencesExt, Bisection

CONSTANTS Words,          \* words of code, at addresses 4w and 4w + 2
          MAX_BREAKPOINT

ASSUME WordsAreNumbers == Words \subseteq Nat

VARIABLES
  code,         \* of each half-word: "orig", "thumb", or "arm1" and "arm2", the halves
                \* of BREAKPOINT_INSTRUCTION_ARM
  breakpoints,  \* sequence of [address, size, saved, persistent]
  attached,     \* the context has a debug handle
  left,         \* halves of persistent breakpoints that a detach left in the code
  overlapped    \* a breakpoint was set over another one: nothing more is modelled

bkptVars == <<code, breakpoints, attached, left, overlapped>>

Addresses == {4 * w : w \in Words} \cup {4 * w + 2 : w \in Words}
Halves(address, size) == IF size = 4 THEN {address, address + 2} ELSE {address}

BkptInit ==
  /\ code = [a \in Addresses |-> "orig"]
  /\ breakpoints = <<>>
  /\ attached = FALSE /\ left = {} /\ overlapped = FALSE
-----------------------------------------------------------------------------
AddressesOf(bkpts) == [i \in DOMAIN bkpts |-> bkpts[i].address]

\* Mutant of FindClosestBreakpointSlot: it stops one short of the end.
FindSlotShortOfEnd(bkpts, address) ==
  IF bkpts = <<>> \/ address <= Head(bkpts).address THEN 1
  ELSE IF address > Last(bkpts).address THEN Len(bkpts)
  ELSE Bisect(AddressesOf(bkpts), address)[<<1, Len(bkpts)>>]

\* GDB_FindClosestBreakpointSlot; slots count from 1.
FindClosestBreakpointSlot(bkpts, address) == ClosestSlot(AddressesOf(bkpts), address)

\* Whether the slot found is the one of the address.
IsAt(id, address) == id <= Len(breakpoints) /\ breakpoints[id].address = address

\* What the instruction of a breakpoint leaves in the code.
Patched(address, size) ==
  [a \in Addresses |->
     IF a \notin Halves(address, size) THEN code[a]
     ELSE IF size = 2 THEN "thumb"
     ELSE IF a = address THEN "arm1" ELSE "arm2"]

\* svcWriteProcessMemory of what was saved.
Restored(text, bkpt) ==
  [a \in Addresses |-> IF a \in DOMAIN bkpt.saved THEN bkpt.saved[a] ELSE text[a]]

\* GDB_AddBreakpoint.  When reading or writing the code fails, and when the table is
\* full, nothing changes.  An ARM breakpoint needs an aligned address.
AddBreakpoint(address, size, persistent) ==
  LET id == FindClosestBreakpointSlot(breakpoints, address)
      saved == [a \in Halves(address, size) |-> code[a]]
  IN /\ attached
     /\ size = 4 => address % 4 = 0
     /\ ~IsAt(id, address) /\ Len(breakpoints) < MAX_BREAKPOINT
     /\ breakpoints' = InsertAt(breakpoints, id,
                         [address |-> address, size |-> size, saved |-> saved,
                          persistent |-> persistent])
     /\ code' = Patched(address, size)
     /\ overlapped' = \E a \in Halves(address, size) : code[a] # "orig"
     /\ UNCHANGED <<attached, left>>

\* GDB_RemoveBreakpoint; when writing fails the breakpoint stays.
RemoveBreakpoint(address) ==
  LET id == FindClosestBreakpointSlot(breakpoints, address)
  IN /\ attached
     /\ IsAt(id, address)
     /\ code' = Restored(code, breakpoints[id])
     /\ breakpoints' = RemoveAt(breakpoints, id)
     /\ UNCHANGED <<attached, left, overlapped>>

\* GDB_AttachToProcess, to the process that was left.
Attach ==
  /\ ~attached /\ attached' = TRUE
  /\ UNCHANGED <<code, breakpoints, left, overlapped>>

\* The code once the first breakpoints are disabled, but for the persistent ones.
DisabledUpTo(text, bkpts) ==
  LET after[i \in 0 .. Len(bkpts)] ==
        IF i = 0 THEN text
        ELSE IF bkpts[i].persistent THEN after[i - 1] ELSE Restored(after[i - 1], bkpts[i])
  IN after

\* GDB_DetachFromProcess: persistent breakpoints stay in the code, not in the table.
Detach ==
  /\ attached /\ attached' = FALSE
  /\ code' = DisabledUpTo(code, breakpoints)[Len(breakpoints)]
  /\ left' = left \cup UNION {DOMAIN breakpoints[i].saved :
                                i \in {j \in DOMAIN breakpoints : breakpoints[j].persistent}}
  /\ breakpoints' = <<>>
  /\ UNCHANGED overlapped

BkptNext ==
  /\ ~overlapped
  /\ \/ Attach \/ Detach
     \/ \E a \in Addresses :
          \/ \E size \in {2, 4}, persistent \in BOOLEAN : AddBreakpoint(a, size, persistent)
          \/ RemoveBreakpoint(a)

BkptSpec == BkptInit /\ [][BkptNext]_bkptVars
-----------------------------------------------------------------------------
\* Unless breakpoints overlap: the binary search finds every breakpoint that was set,
\* so that it can be removed; what it saved is the program's own code; and the code
\* differs from the program's where a breakpoint is listed or was left, nowhere else.
TextIsRestored ==
  LET listed == UNION {DOMAIN breakpoints[i].saved : i \in DOMAIN breakpoints}
  IN ~overlapped =>
       /\ \A i \in DOMAIN breakpoints :
            /\ FindClosestBreakpointSlot(breakpoints, breakpoints[i].address) = i
            /\ \A a \in DOMAIN breakpoints[i].saved : breakpoints[i].saved[a] = "orig"
       /\ {a \in Addresses : code[a] # "orig"} = listed \cup left
=============================================================================
