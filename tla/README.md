# A TLA+ model of Omiiba3DS

Omiiba3DS is a custom firmware for the Nintendo 3DS. Most of its own logic is in
reimplementations of system modules: processes that serve others over IPC, with a
handful of threads each, priorities, kernel events and semaphores. This directory
models them from the C source, checks the models with TLC on small instances, and
proves some of the results for every size with TLAPS.

## 1. Inventory

The parts that keep state, what each does, and what makes it correct.

| Part | State | Operations | Hard because | Correct when |
|---|---|---|---|---|
| `sysmodules/sm` sessions and registry (main.c, services.c, srv.c, srv_pm.c, processes.c) | four lists of sessions, 160 services, process table, a resume semaphore | look up, register, unregister, ports, postponing and replaying a command, clients that leave | a command that cannot be answered is put aside and replayed later from 16 saved bytes; the service may appear, close or be busy in between | no lookup sleeps through a registration, no session is in two lists, sm never panics on what clients do |
| `sm` notifications (notifications.c) | a ring buffer of 16 ids and a semaphore per process | enable, subscribe, publish, receive | count, indices and semaphore are updated in three functions | ring buffers are FIFO queues, one wait per notification |
| `sm` linked lists (list.c) | doubly linked nodes with a parent pointer | allocate, move, the loops that move the node they stand on | link surgery | links describe sequences that partition the pool |
| task runner (pm, rosalina) | one slot, two one-shot events | run a task, terminate | signals and waits race | slot has one owner; each task is run once |
| `sysmodules/pxi` | a state per session, a mutex and a lock per session, a counter, a semaphore | sender, receiver, pxi:srv11 handler, main | four threads and the other processor, in different orders | each command goes to ARM9 once and its reply back once, also at the end |
| `pxi` static buffers | three masks | provide, use, give back | buffers are provided before it is known who will send | no buffer is lost or given away twice |
| `sysmodules/pm` termination | process list, flags, reference counts, a shared event and flag | terminate an application, process or title; the monitor | main thread, task runner, monitor and the processes themselves | system modules live as long as they are used; termination returns |
| `pm` launch | the same, the pointers to the running and the queued application | the launch commands, dependencies | launches on two threads, every call may fail | one application, one process per title, right counts |
| `pm` resource limits, firmlaunch, debug | memory and CPU time limits, parameters | set and reset | arithmetic, overrides by title | limits are given back |
| `sysmodules/loader` | the exheader and the title last read, the open file of a system module | register, get information, load, unregister | caches keyed by handles that are used again, several threads of pm in the middle of a launch | what is loaded is what was registered |
| `k11_extension` IPC table | a sorted table of named sessions | hooks that add and remove | binary search, removal without comparison | a hooked session is in the table under its name |
| `k11_extension` thread locks, memory, exceptions | masks, page tables | hooks of system calls | runs inside the kernel, on several cores | locked threads are unlocked |
| `sysmodules/rosalina` debugger (sock_util.c, gdb/) | three contexts with a recursive lock each, events, debug handles, breakpoints | connections, packets, debug events, entries of two menus, the next application | the server, the monitor, the menu and the task runner share contexts; clients and processes come and go at any time | what stops is reported, closing ends, nobody waits on a closed handle, the code is as before |
| `rosalina` plugin loader | the plugin's memory block, its target, a status word shared with the kernel | load, HOME, exit, swap out and in | the kernel, Rosalina's main thread, its task runner and the plugin's own thread exchange single words | the plugin is where its status says, and leaves nothing behind |
| `rosalina` cheats | registers, a stack of conditionals, a loop | apply a line | what a line does depends on all before it | nested cheats do what they stand for; each ends whose data can be passed over |
| `rosalina` menus, input redirection, screens, NTP | settings | user interface, polling loops | little | shown as is |
| `arm9` boot path | configuration in `config.ini` and in the MCU, `pin.bin`, what was booted last | boot, menu, profiles, firmlaunch | written in several places at several times, power is cut | the NAND, options and PIN in force are the ones chosen last |
| `arm9` config.ini text | none | write and read numbers and keys | hand-written number formats | what is written is read back |
| `arm9` drivers, patches, `arm11` | hardware | boot once | hardware | |

`PROJECT.json` lists these parts with their files, and the hazards of the code at the
lines where they bite, with the properties that would notice. A hazard without a property has
a note that says why: either the repository states nothing that the behaviour contradicts, and
the model only reaches it, or it is beyond the model.

How they interact: sm gives every process its sessions with every other; pm registers
processes with sm and is told nothing back; pm and loader load titles, and pm's task
runner launches applications while its main thread serves requests; pm tells processes
to end through sm's notifications (0x100), which is what pxi's main thread waits for;
rosalina is told of applications by pm's notifications; loader asks Rosalina to load the
plugin of an application, and the kernel extension tells Rosalina of HOME and exit; arm9
leaves the configuration for all of them, and Rosalina writes it back. The kernel's events, semaphores,
sessions and processes are in no file of `src/`: each module models what its code
relies on and marks it external.

## 2. Plan

Done, in this order: *sm*, *task runner*, *pxi*, *pm* termination and launch with their
abstract specifications; *loader*'s caches, the session table of *k11_extension*, the
debugger, the plugin loader and the cheats of *rosalina*, the boot path and `config.ini` of
*arm9*; proofs about sm's main loop, the ring buffers, the task runner, pxi's sessions and
static buffers, pm's reference counts at termination, its application and its pointers, loader's caches, the debugger and its breakpoints, the table of sessions, the plugin
loader and the boot path.

Left, in the order of what it would add:

1. *pm*: terminateAllProcesses with reboot and chainloading, the free list of exheaders; a proof
   about the reference counts between launches.
2. *rosalina*: several clients of the debugger under fairness, watchpoints and threads; the
   commands of plg:ldr.
3. *arm9*: the checks of FIRM files, homebrew autoboot.

## 3. Modules

Each component is a module; an `MC...` module gives it the sets and bounds that a `.cfg`
cannot write; a `...Proof` module holds theorems. Mutants, definitions whose comment starts
with "Mutant of", are not part of a specification: each is a plausible error in one
definition that the named property detects.

**SMSessions** models sm's main loop. `ReceiveRequest`-like actions choose a request
when the loop receives it; what the handler does, including the wake-up loop of a
registration and the reply, is one action, because sm has one thread. State: the
sessions in use, the three lists of postponed sessions (sequences), the saved command of
each (`replay`), the registry (a set; its order is not observable), processes, the
resume semaphore, and the kernel's side: ports, how many sessions a port carries, which
clients have left. A registration wakes a session by as many characters as it asked for
(services.c:86), so also one that waits for the beginning of the new name: `Begins` says which
names begin which, and such a session finds nothing and waits again. The swap with the last entry in the loop that takes the services of a
process out (processes.c:61) does not show in a set. A saved command is cleared when it is answered. Word 4 of a replayed
command (its flags) is not saved by the code and is an arbitrary choice. Handles of named
ports are not tracked, and `srv:pm` registered as a service is not an entry of the
registry. A panic is a state in which nothing more happens; it is reached when a service
whose port is waited for is unregistered (main.c:159) or a pool is used up. **SMLookup** is its
specification: a lookup waits only while the name is not registered or its port is
busy, and is answered with what was registered at that time. **ListOps** has operators on sequences.

**SMNotifications** has one action per command that touches notifications, one loop of
the publication included; **NotificationQueues** says that it is bounded FIFO queues.
`Pollers` are processes whose clients receive without having waited on the semaphore.

**SMList** models list.c link by link, with the loops that walk a list while they move
its nodes; **NodeLists** is the specification with sequences. A loop is a recursive function
of its turns, as many as the pool has nodes, and that it is at the end of the list then is
part of the property; the sequences (`Chain`) are what a walk along next meets, with one turn more than the pool
has nodes, so that a cycle would show. The refinement is stated over the
links alone, so that moving several nodes in one loop is a step of the specification too.

**TaskRunner** has an action per wait, write and signal of every caller and of the
runner; **TaskHandoff** is its specification. In practice pm and rosalina each have one
thread that asks; the model and proofs allow any number. Both copies have TaskRunner_Terminate
(`Terminate`), which only rosalina's main thread calls; in pm there are no `Terminators`.
TaskRunner_WaitReady, which nobody calls in either, is not modelled: it would take the signal of
readyEvent and leave the next caller without it.

**PXISessions** has the four threads with an action per lock, wait, write and
signal. Writing a command to the FIFO and unlocking is one step. `svcReplyAndReceive`
takes the lowest signaled handle. ARM9 answers in any order. `Terminates` says when
notification 0x100 comes: "never", "settled" (when the receiver is not in the middle of a
reply to pxi:mc, as main.c:197 assumes) or "anytime". A client that uses command 5 does
not leave before it is answered. **PXICalls** is the specification: each session's command goes once round.
**PXIBuffers** has the three masks of static buffers.

**PMTermination** has the main thread and the task runner, which both terminate, and the
monitor, with an action per section under the list lock and per wait. The main thread has a higher
priority than the other two; the model assumes any interleaving, because all of
them block in calls to other processes. Time is abstract: a wait with a timeout may end
at any time. A client of pm:app may have a process that is still listed taken out
(UnregisterProcess, manager.c:71), whatever its state; `forgotten` remembers those, since the
monitor does not see them end any more.

**PMLaunch** has the launch commands and their threads. A call of the loader
and the registration after it are one step; what is done under the lock is one step, so a stray
unlock while another thread is in such a section is not seen, only its later effect, which is
that the next thread to lock keeps the lock. `Find` returns one of the processes with a title (the
list has several only when two launches were under way at once). When every entry is used pm panics; here the launch
stays where it is. PMLaunch does not include titles that may not be launched (ErrDisp), the notify flags,
preparingForReboot, FAKE_DEPENDENCY_LOADING, nor the kernel's builtin processes, which
are in the list from the start and are nobody's dependency. `reused` has the entries that were taken
for another process while runningApplicationData or debugData still led to them; it restricts
nothing.

**LoaderCaches** has loader's static variables, an action per command (loader serves one
at a time), and the threads of pm that send them: register, get information, load,
and what they do when one fails. The data of a title is the title itself, so that
"the exheader of" and "the code of" are comparisons. An assertion of loader that fails
ends it (`broken`). `raced` has the launches that another registration of a system
module disturbs.

**K11Sessions** has the table of ipc.c as a sequence with the code's binary search, and
the hooks that open and destroy sessions. Opening changes the vtable of the session first,
without a lock (`Open`), and lists it afterwards (`Add`). **Bisection** is that search, which the debugger's
breakpoints have in the same words, as a recursive function of the two bounds.

**GDBServer** has the socket thread, the monitor thread, the menus and the task that
fetches the next application. A section under the lock of a context, or of all, that
waits for nothing is one action; `held` says which locks a thread keeps while it waits:
the menu all of them (process_list.c:632), or the server that of one context (debug.c:26). Clients
send packets that make sense in the state of their context. A debug event is one of three
kinds: it continues by itself, it stops the process, or it is the exit. `server` at
"crashed" is a null pointer that a refused connection leads to (sock_util.c:205).
`overtaken` has contexts that were closed when the monitor had already
chosen to handle them. Registers, memory, threads and watchpoints do not appear.
**GDBBreakpoints** has the table of breakpoints and the code under them. Nothing more is
modelled once a breakpoint was set over another (`overlapped`).

**PluginLoader** follows the plugin of two applications, one after the other: loader's request, the
kernel's signals, Rosalina's main thread and task runner, the thread of the plugin, and
the strategies to swap its memory. `irregular` marks what the code does not provide for: an
application killed, and events that come before the last was handled.

**CheatEngine** is the interpreter of cheats, line by line; addresses and
values are reduced to one register that conditionals test. What limits it are the stack of conditionals,
a word that is shifted (`StackBits`), and the byte that counts the lines of data behind an E line
(`ByteSize`, cheats.c:83): with 255 of them the interpreter comes back to where it was. **CheatPrograms** says what
structured cheats mean (statements, conditionals, repetitions) and generates their lines.

**ConfigText** has the number and key formats of `config.ini`, written and read.
**BootFlow** has a boot as a sequence of steps (options forced by keys, PIN, the NAND, the menu)
and what happens between boots: settings saved by Rosalina, firmlaunches, power cuts,
edits of the file, a new `boot.firm`, an MCU that forgets. Leaving the menu is three steps with power cuts between
and within them: the configuration is put together, config.ini is written, then pin.bin. `unpinned`
says that the last two may not belong together.

## 4. Runs

`tlc -config <cfg> <module>`. Passing runs:

| Run | Instance | Shows |
|---|---|---|
| sm_registry | 2 sessions, 2 processes; a service and a named port of one name, or ports of two names, one the beginning of the other | no lookup sleeps through a registration, who waits for a port knows it, sm holds exactly the ports it lists, only owners unregister, SMLookup is implemented |
| sm_structures | rings of 2 entries, 2 ids and 2 processes or 1 that polls; 4 nodes in 3 lists | waits match notifications, publications report the truth, FIFO; links are sequences |
| servers | 3 sessions and a named port; the debugger with one context | under fairness: the semaphore counts who is to wake up and who is woken is resumed; closing a connection ends, what stops is reported |
| pxi_sessions | 2 services with termination; 4 services and 7 buffers | each command once round, no assertion fails, answers come, the process ends; masks partition the buffers |
| pm_termination | application, applet, their system module, both threads | counts are users, modules live while used, a thread that is alone at it comes back |
| system | eleven parts, below | safety of all other components |
| progress | 2 callers, 2 tasks, one caller may terminate; 2 applications, a system module, every failure; all cheats of 3 lines, branching ones of 4, a byte being 4 | under fairness: tasks are run and TaskHandoff is implemented; one application, what has ended is removed; cheats end |

The parts of `system`: pm's launches (4 titles, 4 entries, one launch or end at a time: counts and
pointers), the same with anything at any time (an application and a module that also end by themselves, 2
entries: pointers), loader's caches (2 threads, a homebrew application, two modules with files, one handle), the session table (4 addresses), the plugin loader (2 applications), the debugger
(one context with clients of a process that was selected; two contexts with only the next
application, whose fetching may fail), breakpoints (3 words), nested cheats, texts of up to
4 characters, and boots with three options.

Where components share no state, one run explores them all: the `MC` module chooses `part`
in the initial state and leaves the variables of the others alone. Nothing is lost, since
none reads what another writes, and each part is explored as far as in a run of its own.

Bounds. Two or three sessions are enough for one to be served, one to be woken and one
to wait; a ring of two entries wraps and gets full; three processes give a
dependency two users. In MCPMTermination, `requests` bounds how often each thread is asked
(`MaxMain`, `MaxTask`), and `Early` which processes may be unregistered before they end (the application).
A byte of four values wraps behind three lines of data, as one of 256 does behind 255. Two launching threads are as many as pm has. One context of the debugger
has every step of server, monitor, menu and task; two are needed where contexts compete for
the port of the next application. Two applications are enough for a plugin to meet what the
last one left. Two versions of `boot.firm` tell old from new. A table of four
entries has every position the binary search distinguishes. Where a symmetry set is declared, the values are
interchangeable in the specification; runs with liveness properties have none.

Runs that restrict what happens say so by a constant:

- `Pollers`: SemCountsPending and NeverPanics are about the others; a client that receives
  without waiting leaves its semaphore ahead of the ring, and a publication then panics.
- `Terminates = "settled"`: with "anytime" the receiver may take a reply to pxi:mc for the
  answer to the termination command, and an assertion fails.
- `UsesMC5 = FALSE` in pxi_sessions: command 5 is what pxi_command5 is about.
- `MayExit`: who ends by itself. Not the application, which ends when it is told to: one that
  ended by itself stays in the list with its dependencies still marked as loaded, and who
  terminates it then counts them down a second time (termination.c:68), so that a system module
  may be told to end while the applet uses it.
- `Calm`: titles that are asked for, and end by themselves, only while no launch is under
  way and no process is ending. In `system` that is every title of the part about counts, because with
  two launches at once, or a launch during a cleanup, the code gives a title two processes (a
  dependency is found missing in info.c:81 and launched later by both) and counts the uses
  of a process that is already ending. Even then the counts are right only for modules that end when
  they are told to, with svcRun the only call that fails, without "Queue" and LaunchTitleDebug: that
  is what the part is given. No title is calm in the part about pointers (anyTime). There an
  entry may be taken again before the monitor resets the pointers to it (process_monitor.c:32),
  which both pointers then survive; PointersValid excepts those entries (`reused`).
  In `progress` appB is not calm: it comes and goes at any time. That part has LaunchTitle but not LaunchAppDebug, which launches on the main thread and
  may pass the check of launch.c:295 while the task runner is past it.
- `Packets`, `MenuDoes`: what clients of the debugger send and which entries of the menus are
  used. Under fairness "close", "next" and the extended session are left out, since each
  can stop the server for ever (hazards at process_list.c:644, debugger.c:82, monitor.c:56).

Liveness properties exclude, in their statements, what the code does not promise:
RequestedTaskIsRun a termination and callers that overtake for ever; CallIsAnswered the
end of the process and lower-numbered services that are used for ever; TerminationReturns
both threads at once (they share the flag and a one-shot event, termination.c:240-248, and
one that returns leaves the other without them) and a process that is unregistered after it was
notified (the monitor is then never told that it ended); CheatEnds cheats whose lines of data reach
behind the 255th (DataFits); EndedIsRemoved a list lock that was
unlocked once too often; CloseEnds and StopIsReported a debugger that is disabled, and a
thread that waits with locks.

Violating runs, where the code and what is said about it differ; the findings in
`PROJECT.json` quote the lines:

| Run | What happens |
|---|---|
| sm_lost_waiter | when a port closes, main.c:147 writes the result code over the name in the saved command instead of over the reason to wait; a later registration of the service does not wake the session |
| pxi_command5 | pendingArm9Commands is wrong after command 5 of pxi:mc, and commands of all services stay where they are |
| pm_lost_lock | an error path of launchTitleImpl unlocks what it has not locked; the monitor then waits for ever |
| boot_twl_filter | the DS filter, once on, is on for ever: leaving the menu never clears its bit |
| gdb_unselect | unselecting a process that has a client: the menu waits, with all locks, for what the server does under one of them |

Other disagreements met while modelling, which the models reach but no run shows, are in the notes of
the hazards in `PROJECT.json`.

Deadlock is checked except where the system may stop: in sm_lost_waiter and `servers`
(dead clients that wait may use up every session of srv:, and nobody wakes
them; a debugger that crashed), in pxi_command5, in PMLaunch's parts, where a lost lock stops pm, and in
`system` and `progress`, where a cheat ends and a text is only looked at.

## 5. Fairness

sm: the main loop takes what is signaled; since the semaphore has the lowest index of
the handles, resuming has strong fairness. Task runner: every thread that can go on
does; no fairness between callers is assumed beyond that of the kernel's queue. PXI: weak
fairness of each thread, strong fairness of taking a lock (the kernel wakes waiters in
order), and ARM9 answers. There is none for sessions: replies are taken lowest session
first, and `CallIsAnswered` says so. PM: weak fairness of the threads, strong fairness
of the monitor noting each process: it waits on the handles in the order of the list,
oldest first, so that a process is passed over only by older ones. A process that was
told to end and listens does end; the timeout deals with the others. Debugger: both threads
go on, each descriptor that is ready is served in a pass over all of them
(sock_util.c:203), and a lock that others take again and again is granted in turn, hence strong
fairness; clients, processes and the user do nothing they need not. Cheats: the interpreter goes on.

## 6. Proofs

`tlapm <module>` checks them. All are safety.

**SMSessionsProof**, for any number of sessions, processes, names and ports: who waits for a
registration waits for a name that is not registered, who waits for a port knows it, and sm
holds the ports of its registry and no others. They are inductive together with the types, with
that a session is in one list only and that list repeats none, and with the link between a
saved command and the request it was saved from: kind and name are the client's, or the name is
lost when the port closed (main.c:147). Two lemmas are about the
loops that move nodes out of lists; then one per action of the main loop. The same invariant
gives the refinement: every turn is a step of SMLookup or a stutter, since lookups are
answered from the registry in the turn that decides. SemCountsToWake needs one
fact more: a session that waits is one of srv:, so that no more than the semaphore's limit can
be woken while one registers. That is the limit of its sessions, stated as an assumption
of the theorem (MaxSrv <= SemMax + 1), with Pre7x, where srv:pm takes lookups too, left out.

**SMStructuresProof**, for every number of processes and ids, every set of pollers and
every ring size N > 0.
The inductive invariant has the types, the ring's equation (write index = read index +
count modulo N, and what lies in between is not 0), "count > 0 only if enabled", and for
clients that wait, sem + owed = count; the last gives sem < N whenever a publication
finds room, so its release cannot fail. Types alone are not inductive: that a receive
leaves count in range needs the semaphore's equation. Lemmas on modular indices show that a
publication appends to, and a receive removes the head of, the sequence between the
indices, which yields the refinement of NotificationQueues, and that the result of a
publication that may lose nothing is the truth: it fails at the first full buffer, and where
it stores nothing the notification is already there (SuccessReachesAll).

For any pool of nodes and any lists it also has that the links of list.c implement sequences
(ListsImplemented). The invariant (HeapIsLinked) is that there are lists the heap is linked as (Matches): every node
has one place in one list, its neighbours are at the places before and after, its parent is
this list, and the ends of a list are at its first and last place. moveNode trusts the
node's own pointers, so one lemma says what unlinking leaves at each place, one what linking at either end
adds, and MoveLinks puts them together with the repair of an end that is missing. A walk meets
the places in order (ChainIs): the recursive function is shown to exist by giving the
list itself as its value, which the pool's size bounds. For the loops, TurnKeeps says what holds after k turns: the
selected nodes among the first k are at the back of the other list, in order, all others are
where they were, and the node to go on with is at place k + 1, because it was read before the move;
LoopMoves follows for the length of the list, after which turns change nothing.

**RosalinaProof** has the task runner, the plugin loader and the two sorted tables. Of the runner, for any sets of
callers, tasks and terminators: OneOwner together with the types is inductive; the refinement
needs in addition that the slot holds what its owner wrote. Of the plugin loader, for any
applications: while an application runs that a plugin was loaded for, the plugin is where the
status word says (TargetHasItsPlugin), and once it has ended and its events are handled nothing
of the plugin is left (CleanWhenQuiet). Neither is inductive: an event takes several threads
many steps, each of which writes a word or two. The invariant says that who signals an event
waits, and that the event is at one step: notified, handled or woken (SignalIsHandled); that the main
thread finds the event that was signaled (EventIsKnown); that the plugin is in the swap file, its
threads locked, exactly where a swapped context is INHOME, and mapped otherwise (PluginIsThere); that
INHOME means HOME is shown, so that no application exits unnoticed (FlaggedHasPlugin); and
that an exit is followed by the task that clears everything away, and by nothing else (ExitIsUnderWay).
The assumption AppsOK, that applications are numbered as they are launched, is evaluated by
`system`. Both properties leave out what `irregular` marks, and so do the theorems.

It also has the two sorted tables and their binary search. What a recursive function yields is known only once
it is shown to exist: BisectTurns builds functions that follow the loop for bounds
up to a width, each from the one before. BisectFinds then says that the loop, begun with the key between its
bounds, ends at the first slot whose key is not below it; the least width
at which it does not is a contradiction. On the
table of sessions (HookedSessionsAreFound), SessionsInv says that the
entries are sorted and are exactly the sessions that have the hook's destructor, each once,
which is why a removal without comparison takes off the right one; this holds until the table is full, when the
code lists and removes nothing any more. On breakpoints
(BreakpointsRestoreText), BkptInv says that each half-word is the program's own or under
one breakpoint only, which has saved what was there, so that the order of removing does not matter; this holds
until a breakpoint is set over another. Hypotheses: addresses are numbers.

**PXIProof**: the masks of static buffers stay a partition for any number of buffers,
services and needs up to four. For any number of services, no assertion of the four threads fails and
PXICalls is implemented: each command goes to ARM9 once, each reply back once. The invariant: a service has
at most one message on its way, in one of the FIFO, ARM9 and the store of replies, and the state
of its session says which; what the sender, the receiver and the handler of pxi:srv11
remember of a session still holds under its lock; the semaphore counts no more than the
replies that are stored; nothing comes after ARM9's answer to the command that ends it. The refinement
then is that each step moves at most one command one place on. Two hypotheses: pxi:mc
does not send command 5, and 0x100 does not come in the middle of a reply to pxi:mc. Without the first the
counter is wrong (the run pxi_command5), without the second main.c:197 fails.

**BootFlowProof**, for any options, EmuNANDs and numbers of versions: firmlaunches keep the
NAND, the menu is obeyed and a PIN mode has its PIN. What a boot decides with is in five
copies; the invariant says at each stage of the boot which agree, that
the MCU's memory has the session's NAND, that the options last chosen are those in force, and that mode
and PIN fit each other whenever the menu is not between writing the one and the other: the mode
is written first (config.c:3556), the PIN afterwards (3560). If the power is cut in between, or
somebody edits config.ini, they may not fit until the menu is next left (`unpinned`), and the theorem says
nothing. The assumption on constants is evaluated by `system`.

**PMTerminationProof**, for any processes and dependencies: a system module's count is the
number of its users. Who ends is counted out by the thread that ends it, which clears
PROCESSFLAG_DEPENDENCIES_LOADED, or by the monitor, from its copy of the flags, and the invariant
says why never by both: who stays in the list after its end has the flag cleared
(EndedHasNoModules), and who does not is out of the list when the monitor counts
(ReleasedIsGone). Hypothesis: a process of which somebody is told ends only when it is told to
(EndOnlyWhenTold), since one that ends by itself is counted out twice (see `MayExit`). That a module
that is used does not end (DependencyKept) needs that modules do not end by
themselves either (ModulesStayUp). Both are evaluated by `pm_termination`.

**LaunchProof** has pm's launches and loader's caches. For any titles, dependencies, entries
and failures, and whatever ends meanwhile, no two applications run. launchTitleImpl looks at
runningApplicationData and gives up the list lock for as long as loading takes; the invariant says why
the answer still holds when the application is run: only the task runner launches applications
(TaskHasApps), so nobody else sets the pointer (NoneBeforeRun); entries that a launch
has made are its own, still loaded and not free (MadeAreLoaded), and are applications only if
the launch is of one (MadeAsAsked); an application that runs is runningApplicationData (RunningIsKnown).
The hypothesis TaskLaunchesApps, evaluated by `progress`, leaves LaunchAppDebug and the queue of the
debugger out. It is needed: with "LaunchAppDebug" among `Asks`, TLC finds two applications
running, when the main thread and the task runner both pass the second look.

The manager's pointers stay valid (PointersStayValid) for any titles, dependencies, failures and requests, the
debugger's included, whatever is launched and ends at the same time. Each pointer is set before the process is
run and reset by the monitor two locks after the entry left the list. The invariant says that the
entries that launches have made and not run are each of one launch, still loaded and of neither pointer
(HasEntries, LaunchesOK), which is why nobody else runs or ends their processes and the monitor does not take
them; that who points to an entry that is free points to the one the monitor is at (PointersValid,
MonitorHas); and that free entries are not in use. An entry that is taken while a pointer still leads to it
is the exception (`reused`): the process of another launch may then be run or ended through debugData, so nothing
is said of these entries, by the invariant or the theorem. TLC reaches both pointers at such an entry. LaunchesKeep says what
launches know of their entries while one other entry changes; one lemma per action, and steps
that write counts only share one (EntriesWritten).

That reference counts are the users between launches (CountsMatchUsers) is model-checked only.

For any number of threads, titles, files and handles, every process
gets the exheader and the code of what its thread registered. By itself that is not inductive.
The invariant says in addition that each user of a handle holds one that stands for its title
(UsersHold), that a handle of Process9 has one user (OneUser), that the cached exheader
belongs to the cached handle (CacheMatches), that a cached cookie has a user who has seen it (CookieIsUsed),
that launches of one module at once are known (SameIsRaced), and that a thread about to
load with a cached cookie has its file open, or pm would find a process (FileIsOpen). The two last
are what makes the exception `raced` no larger than it need be. One lemma per
command, on lemmas about reading and forgetting; two lemmas on what unregistering leaves to the
others serve three commands.

**GDBServerProof**, for any number of contexts and processes, whatever clients send: the
monitor waits on no debug handle that was closed, except of the contexts in `overtaken`.
Whoever closes a handle must have told the monitor, so the invariant follows how: a connection
that closes frees its context only once the monitor has read the contexts again (ClosesTold); who
detaches an extended session keeps the lock of the context until then (DetachesHeld); the
monitor closes the handles of processes that ended itself, where it is about to read the
contexts. The rest says why nothing else touches a handle: the flags tell which contexts have
a client or are about to (ClientsHold), contexts without have no handle that is waited for, the
context of the next application is free until its task fetched it (NextIsFree), and the locks
that a thread keeps while it waits keep out the others. All of that holds until the monitor
ends (Live), after which it waits on nothing. One lemma per action.

The proofs assume what the modules' ASSUMEs say, and the hypotheses named above. TLC evaluates
all of them on the instances of the runs.

Model-checked only: all liveness (fairness and ENABLED are beyond the prover), the counts between
launches, what RECURSIVE definitions compute (CheatPrograms, ConfigText: AppliesAsMeant, ReadAsWritten, SettingsSurvive).

## 7. Not modelled

Code that patches other code by searching byte patterns
(loader's patcher.c, arm9's patches.c), drivers and page tables, drawing and text menus,
third-party code (FatFs with its tables of characters, the INI and minizip parsers), build scripts, the updater and
the site. They have no protocol to check, or they depend on hardware that the repository does
not describe. FatFs and its tables alone are almost a third of the lines of C; headers of the
kernel's structures, register addresses and the text and drawing code of menus are another third, so that the
lines that the modules stand for remain a small share of all lines, and most of those with
control worth checking. In sm, access control by name lists is not modelled: lookups are of services
the client may use. pm's resource limits keep no state that outlives a call.
