----------------------------- MODULE LoaderCaches -----------------------------
(***************************************************************************)
(* What loader keeps between commands (loader.c): the exheader of the last *)
(* program asked for and the open .cxi file of a system module.  pm's      *)
(* threads launch titles, look them up and clean up after them, each in    *)
(* several commands; loader serves one command at a time.                  *)
(***************************************************************************)
EXTENDS Naturals, FiniteSets

CONSTANTS Launchers,       \* of pm: they launch titles and ask about them
          Applications, Modules, \* titles
          Homebrew,      \* the application hbldr stands in for, if any
          Files,         \* modules with a file in /omiiba/sysmodules
          Handles,       \* program handles of Process9
          MaxProcesses

Nothing == "none"

\* The handles of Process9 are not those that loader makes up for files, which it opens
\* for system modules only.
ASSUME HandlesAreNotCookies == Handles \cap Modules = {}
ASSUME FilesOfModules == Files \subseteq Modules
ASSUME NothingIsNone == Nothing \notin Applications \cup Modules \cup Handles \cup Launchers

VARIABLES
  cache,      \* [handle, exheader, file, cookie, ncch, lastApp]: the static variables,
              \* each by the title (or handle) it holds
  patchOff,   \* nextGamePatchDisabled
  programs,   \* Process9: the title of each handle, or Nothing
  threads,    \* what each thread launches or asks about: [at, title, handle]
  processes,  \* [title, handle, exheader, code]
  raced,      \* threads whose launch another one's registration of a module disturbs
  broken      \* the thread whose launch failed an assertion of loader, or Nothing

lcVars == <<cache, patchOff, programs, threads, processes, raced, broken>>

\* The cookie of a module's file is made of its title, and stands for it here.
IsCookie(handle) == handle \in Modules
Idling == [at |-> "idle", title |-> Nothing, handle |-> Nothing]

LoaderInit ==
  /\ cache = [handle |-> Nothing, exheader |-> Nothing, file |-> Nothing, cookie |-> Nothing,
              ncch |-> Nothing, lastApp |-> Nothing]
  /\ patchOff = FALSE
  /\ programs = [h \in Handles |-> Nothing]
  /\ threads = [c \in Launchers |-> Idling]
  /\ processes = {} /\ raced = {} /\ broken = Nothing
-----------------------------------------------------------------------------
(* The cache after the parts of a command, which may fail: its file does    *)
(* not open, or what it reads cannot be read.                               *)

Outcomes == {"fails", "unreadable", "ok"}

\* InvalidateCachedCxiFile, or the file of title opened in its stead.
Reopened(c, title) == [c EXCEPT !.file = title, !.cookie = title]
Invalidated(c) == Reopened(c, Nothing)

\* Mutant of WithFile: an open file is taken for the one of the handle.
WithAnyFile(c, handle, outcome) ==
  CASE c.file # Nothing -> c
    [] c.file = Nothing /\ outcome # "fails" -> Reopened(c, handle)
    [] OTHER -> Invalidated(c)

\* The file of a cookie is opened again when another one is.
WithFile(c, handle, outcome) ==
  CASE c.cookie = handle -> c
    [] c.cookie # handle /\ outcome # "fails" -> Reopened(c, handle)
    [] OTHER -> Invalidated(c)

\* GetProgramInfoImpl and what GetProgramInfo keeps of it.
Read(c, handle, outcome) ==
  LET opened == IF IsCookie(handle) THEN WithFile(c, handle, outcome) ELSE c
      title == IF IsCookie(handle) THEN opened.file ELSE programs[handle]
  IN IF outcome # "ok" THEN [opened EXCEPT !.handle = Nothing]
     ELSE [opened EXCEPT !.handle = handle, !.exheader = title,
                         !.ncch = IF IsCookie(handle) THEN title ELSE @,
                         !.lastApp = IF title \in Applications THEN title ELSE @]

\* GetProgramInfo: what hbldr may have changed since is never taken from the cache.
IsCached(c, handle) == handle = c.handle /\ c.exheader \notin Homebrew
Got(c, handle, outcome) == IF IsCached(c, handle) THEN c ELSE Read(c, handle, outcome)

\* UnregisterProgram.
Forgotten(c, handle) ==
  LET d == IF c.handle = handle THEN [c EXCEPT !.handle = Nothing] ELSE c
  IN IF IsCookie(handle) /\ c.cookie = handle THEN Invalidated(d) ELSE d

Unregistered(handle) ==
  IF IsCookie(handle) THEN programs ELSE [programs EXCEPT ![handle] = Nothing]
-----------------------------------------------------------------------------
(* The commands, as the threads of pm send them.                            *)

\* The launches that c disturbs by registering a module: those that have got an
\* exheader and, with its own, those of the same module.
Disturbed(c, title) ==
  LET same == {d \in Launchers : threads[d].title = title}
      got == {d \in Launchers : threads[d].at = "got"}
  IN IF title \notin Modules THEN {}
     ELSE got \cup same \cup (IF same = {} THEN {} ELSE {c})

\* RegisterProgram: a module's file is opened, even if it is open already.
Register(c, title) ==
  LET registered(h) == [at |-> "registered", title |-> title, handle |-> h]
  IN /\ threads[c].at = "idle"
     /\ cache' = CASE title \notin Modules -> cache
                   [] title \in Files -> Reopened(cache, title)
                   [] OTHER -> Invalidated(cache)
     /\ IF title \in Files
        THEN threads' = [threads EXCEPT ![c] = registered(title)] /\ UNCHANGED programs
        ELSE \E h \in Handles :
               /\ programs[h] = Nothing
               /\ programs' = [programs EXCEPT ![h] = title]
               /\ threads' = [threads EXCEPT ![c] = registered(h)]
     /\ raced' = raced \cup Disturbed(c, title)
     /\ UNCHANGED <<patchOff, processes, broken>>

\* GetProgramInfo of what is registered; pm unregisters the program when it fails.
GetProgramInfo(c, outcome) ==
  LET handle == threads[c].handle
      got == Got(cache, handle, outcome)
  IN /\ threads[c].at = "registered"
     /\ IF outcome = "ok" \/ IsCached(cache, handle)
        THEN /\ cache' = got
             /\ threads' = [threads EXCEPT ![c].at = "got"]
             /\ UNCHANGED programs
        ELSE /\ cache' = Forgotten(got, handle)
             /\ threads' = [threads EXCEPT ![c] = Idling]
             /\ programs' = Unregistered(handle)
     /\ raced' = IF threads'[c] = Idling THEN raced \ {c} ELSE raced
     /\ UNCHANGED <<patchOff, processes, broken>>

\* GetTitleExheaderFlags of pm is over: it only asked.
Told(c) ==
  LET handle == threads[c].handle
  IN /\ threads[c].at = "got"
     /\ cache' = Forgotten(cache, handle)
     /\ programs' = Unregistered(handle)
     /\ threads' = [threads EXCEPT ![c] = Idling]
     /\ raced' = raced \ {c}
     /\ UNCHANGED <<patchOff, processes, broken>>

\* LoadProcess.  When its GetProgramInfo fails pm leaves the program registered;
\* any other failure is an assertion.  hbldr loads the code of homebrew, a cookie's
\* comes from the file that is open, which is closed then, and patchCode of the others
\* takes the flag of command 0x100 back whatever it loads.  pm looks for a process of
\* the title before it registers it, so that only a race launches a second one.
LoadProcess(c, outcome) ==
  LET t == threads[c]
      got == Got(cache, t.handle, outcome)
      code == CASE got.exheader \in Homebrew -> "3dsx"
                [] got.exheader \notin Homebrew /\ IsCookie(t.handle) -> got.file
                [] OTHER -> programs[t.handle]
      success == outcome = "ok" \/ IsCached(cache, t.handle)
      fails == success /\ code = Nothing
  IN /\ t.at = "got"
     /\ success => Cardinality(processes) < MaxProcesses
     /\ c \in raced \/ \A p \in processes : p.title # t.title
     /\ broken' = IF fails THEN c ELSE Nothing
     /\ threads' = IF fails THEN threads ELSE [threads EXCEPT ![c] = Idling]
     /\ raced' = IF fails THEN raced ELSE raced \ {c}
     /\ IF success /\ ~fails
        THEN /\ processes' = processes \cup
                   {[title |-> t.title, handle |-> t.handle, exheader |-> got.exheader,
                     code |-> code, raced |-> c \in raced]}
             /\ cache' = IF IsCookie(t.handle) THEN Invalidated(got) ELSE got
             /\ patchOff' = (patchOff /\ (IsCookie(t.handle) \/ got.exheader \in Homebrew))
        ELSE cache' = got /\ UNCHANGED <<processes, patchOff>>
     /\ UNCHANGED programs

\* GetProgramInfo of a running process: its dependencies are listed, or it leaves the
\* debugger's queue.
Ask(p, outcome) ==
  /\ cache' = Got(cache, p.handle, outcome)
  /\ UNCHANGED <<patchOff, programs, threads, processes, raced, broken>>

\* cleanupProcess.
End(p) ==
  /\ processes' = processes \ {p}
  /\ cache' = Forgotten(cache, p.handle)
  /\ programs' = Unregistered(p.handle)
  /\ UNCHANGED <<patchOff, threads, raced, broken>>

DisableNextGamePatch ==
  /\ patchOff' = TRUE
  /\ UNCHANGED <<cache, programs, threads, processes, raced, broken>>

LoaderNext ==
  /\ broken = Nothing
  /\ \/ \E c \in Launchers :
          \/ \E title \in Applications \cup Modules : Register(c, title)
          \/ \E outcome \in Outcomes : GetProgramInfo(c, outcome) \/ LoadProcess(c, outcome)
          \/ Told(c)
     \/ \E p \in processes : End(p) \/ \E outcome \in Outcomes : Ask(p, outcome)
     \/ DisableNextGamePatch

LoaderSpec == LoaderInit /\ [][LoaderNext]_lcVars
-----------------------------------------------------------------------------
\* Every process gets the exheader and the code of the title its thread registered,
\* whatever other threads asked about, cleaned up or failed to read meanwhile, and
\* though handles are used again: unless another thread registered a module after
\* GetProgramInfo and before LoadProcess, or the same module meanwhile.
LoadedAsRegistered ==
  /\ broken \in {Nothing} \cup raced
  /\ \A p \in processes :
       \/ p.raced
       \/ p.exheader = p.title /\ p.code = IF p.title \in Homebrew THEN "3dsx" ELSE p.title
=============================================================================
