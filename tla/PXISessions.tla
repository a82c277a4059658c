---------------------------- MODULE PXISessions -----------------------------
(***************************************************************************)
(* sysmodules/pxi: the commands of ARM11 processes are sent to ARM9 and    *)
(* its replies are sent back, one session per service.                     *)
(*                                                                         *)
(* Four threads share the sessions: the main thread accepts them and ends  *)
(* the process (main.c), the sender talks to the ARM11 clients and to ARM9 *)
(* (sender.c), the receiver takes what ARM9 sends (receiver.c), and a      *)
(* handler answers the requests that ARM9 makes of pxi:srv11 (sender.c).   *)
(* The clients and ARM9 are external.  PXIBuffers models the static        *)
(* buffers.                                                                *)
(***************************************************************************)
EXTENDS Integers, Sequences, FiniteSets, SequencesExt, FiniteSetsExt

CONSTANTS N,            \* number of services, 9 in the code; service 0 is pxi:mc
          UsesMC5,      \* clients of pxi:mc send command 5
          Terminates,   \* when PM sends the notification 0x100: "never", "anytime", or
                        \* "settled", once the receiver is done with pxi:mc
          Nobody

Services == 0 .. N - 1
SRV11 == N

\* The command by which the main thread tells ARM9 that PXI ends.
Off == N + 1

ASSUME NAssumption == N \in Nat \ {0}
ASSUME NobodyAssumption == Nobody \notin 0 .. N

VARIABLES
  \* Shared by the threads.
  state,       \* of a session: "idle", "from11", "to9" or "from9"
  handle,      \* the server end of a session is open
  mutex,       \* the thread that holds PXITransferMutex, or Nobody
  sem,         \* count of replySemaphore
  events,      \* the events that are signaled
  shouldTerminate,
  \* The sender.
  sender,      \* where it is: "scan", "acquire", "write", "wait" or "ended"
  cursor,      \* the service its loop over the sessions is at
  listening,   \* the sessions it waits on
  target,      \* replyTarget
  latest,      \* latest_PXI_MC5_val
  pending,     \* pendingArm9Commands
  disabled,    \* sendingDisabled
  \* The receiver, the handler of pxi:srv11, the main thread.
  receiver, received, handler, main, accepted,
  \* The clients and ARM9.
  client,      \* "away", "quiet", "calling", "waiting" or "left"
  command,     \* what a client asks for: "mc5on", "mc5off" or "other"
  knocking,    \* the services with a session that is not accepted yet
  to9, to11,   \* the two FIFOs
  arm9,        \* "on", "asking" (a request of its own is not answered), "off"
  panicked

senderVars == <<sender, cursor, listening, target, latest, pending, disabled>>
receiverVars == <<receiver, received>>
mainVars == <<main, accepted, shouldTerminate>>
clientVars == <<client, command, knocking>>
fifos == <<to9, to11>>
shared == <<state, handle, mutex, sem, events>>
vars == <<shared, senderVars, receiverVars, handler, mainVars, clientVars, fifos, arm9, panicked>>

Signal(e) == events' = events \cup {e}

Panic == panicked' = TRUE

\* The lock of a session is held by the sender while it sends its command.
\* The one of SRV11 is held by its handler until it has answered.
Locked(s) ==
  \/ sender \in {"acquire", "write"} /\ cursor = s
  \/ handler \in {"acquire", "write", "answered"} /\ s = SRV11

Init ==
  /\ state = [s \in Services \cup {SRV11} |-> "idle"]
  /\ handle = [s \in Services |-> FALSE]
  /\ mutex = Nobody /\ sem = 0 /\ events = {} /\ shouldTerminate = FALSE
  /\ sender = "scan" /\ cursor = 0 /\ listening = {} /\ target = Nobody
  /\ latest = 0 /\ pending = 0 /\ disabled = FALSE
  /\ receiver = "start" /\ received = Nobody /\ handler = "start"
  /\ main = "serve" /\ accepted = Nobody
  /\ client = [s \in Services |-> "away"]
  /\ command = [s \in Services |-> "other"]
  /\ knocking = {}
  /\ to9 = <<>> /\ to11 = <<>> /\ arm9 = "on"
  /\ panicked = FALSE
-----------------------------------------------------------------------------
(* The sender.  It holds senderLock except while it waits.                 *)

MaySend(s) ==
  /\ handle[s] /\ state[s] = "from11"
  /\ disabled => pending = 0 /\ latest # 0

ToSend == {s \in Services : s >= cursor /\ MaySend(s)}

\* Mutant of SenderMarks: the state of the session is left for later.
SenderMarksNothing ==
  /\ sender = "scan" /\ target = Nobody /\ ToSend # {}
  /\ cursor' = Min(ToSend)
  /\ pending' = IF disabled THEN pending ELSE pending + 1
  /\ sender' = "acquire"
  /\ UNCHANGED <<state, handle, mutex, sem, events, listening, target, latest, disabled, receiverVars,
                 handler, mainVars, clientVars, fifos, arm9, panicked>>

\* The next command to send: the session's state changes before ARM9 hears of it.
SenderMarks ==
  /\ sender = "scan" /\ target = Nobody /\ ToSend # {}
  /\ cursor' = Min(ToSend)
  /\ pending' = IF disabled THEN pending ELSE pending + 1
  /\ state' = [state EXCEPT ![Min(ToSend)] = "to9"]
  /\ sender' = "acquire"
  /\ UNCHANGED <<handle, mutex, sem, events, listening, target, latest, disabled, receiverVars,
                 handler, mainVars, clientVars, fifos, arm9, panicked>>

\* sendPXICmdbuf: wait for the mutex, unless the process ends meanwhile.
SenderAcquires ==
  /\ sender = "acquire"
  /\ mutex = Nobody \/ "terminationRequested" \in events
  /\ IF mutex = Nobody
     THEN mutex' = "sender" /\ sender' = "write" /\ UNCHANGED handle
     ELSE sender' = "ended" /\ handle' = [s \in Services |-> FALSE] /\ UNCHANGED mutex
  /\ UNCHANGED <<state, sem, events, cursor, listening, target, latest, pending, disabled,
                 receiverVars, handler, mainVars, clientVars, fifos, arm9, panicked>>

SenderWrites ==
  /\ sender = "write"
  /\ to9' = Append(to9, cursor) /\ mutex' = Nobody
  /\ sender' = "scan" /\ cursor' = cursor + 1
  /\ UNCHANGED <<state, handle, sem, events, listening, target, latest, pending, disabled,
                 receiverVars, handler, mainVars, clientVars, to11, arm9, panicked>>

\* The sender waits for its events and for the idle sessions, after it has sent
\* the reply it has; when the client is gone the session is closed instead.
SenderReplies ==
  /\ sender = "scan" /\ (target = Nobody => ToSend = {})
  /\ IF target # Nobody /\ client[target] = "left"
     THEN /\ client' = [client EXCEPT ![target] = "away"]
          /\ handle' = [handle EXCEPT ![target] = FALSE]
          /\ target' = Nobody /\ cursor' = 0
          /\ UNCHANGED <<sender, listening>>
     ELSE /\ client' = IF target = Nobody THEN client ELSE [client EXCEPT ![target] = "quiet"]
          /\ listening' = {s \in Services : handle[s] /\ state[s] = "idle"}
          /\ sender' = "wait"
          /\ UNCHANGED <<handle, target, cursor>>
  /\ UNCHANGED <<state, mutex, sem, events, latest, pending, disabled, receiverVars, handler,
                 mainVars, command, knocking, fifos, arm9, panicked>>

(* svcReplyAndReceive tells the sender of the first handle that is signaled, *)
(* in this order: the end, a new session, a reply, the sessions.            *)

FirstEvent == IF "terminationRequested" \in events THEN "terminationRequested"
              ELSE IF "sendAllBuffersToArm9" \in events THEN "sendAllBuffersToArm9"
              ELSE IF sem > 0 THEN "reply" ELSE "session"

FirstSession(s) ==
  LET signaled == {l \in listening : client[l] \in {"calling", "left"}}
  IN FirstEvent = "session" /\ signaled # {} /\ s = Min(signaled)

SenderEnds ==
  /\ sender = "wait" /\ FirstEvent = "terminationRequested"
  /\ sender' = "ended" /\ handle' = [s \in Services |-> FALSE]
  /\ UNCHANGED <<state, mutex, sem, events, cursor, listening, target, latest, pending, disabled,
                 receiverVars, handler, mainVars, clientVars, fifos, arm9, panicked>>

\* A session has been accepted.
SenderListensAgain ==
  /\ sender = "wait" /\ FirstEvent = "sendAllBuffersToArm9"
  /\ events' = events \ {"sendAllBuffersToArm9"}
  /\ target' = Nobody /\ cursor' = 0 /\ sender' = "scan"
  /\ UNCHANGED <<state, handle, mutex, sem, listening, latest, pending, disabled, receiverVars,
                 handler, mainVars, clientVars, fifos, arm9, panicked>>

\* A session has been closed by its client.
SenderCloses(s) ==
  /\ sender = "wait" /\ FirstSession(s) /\ client[s] = "left"
  /\ handle' = [handle EXCEPT ![s] = FALSE]
  /\ client' = [client EXCEPT ![s] = "away"]
  /\ target' = Nobody /\ cursor' = 0 /\ sender' = "scan"
  /\ UNCHANGED <<state, mutex, sem, events, listening, latest, pending, disabled, receiverVars,
                 handler, mainVars, command, knocking, fifos, arm9, panicked>>

\* What a reply of ARM9 does to the counter and to the flag.
CountReply ==
  /\ pending' = IF latest = 0 THEN pending - 1 ELSE pending
  /\ disabled' = IF latest = 2 THEN FALSE ELSE disabled

\* A session without a handle has no client to reply to.
TakeReply ==
  LET answered == {s \in Services : state[s] = "from9"}
  IN IF answered = {} \/ (latest = 2 /\ pending # 0)
     THEN Panic /\ UNCHANGED <<state, pending, disabled, target>>
     ELSE /\ CountReply
          /\ state' = [state EXCEPT ![Min(answered)] = "idle"]
          /\ target' = IF handle[Min(answered)] THEN Min(answered) ELSE Nobody
          /\ UNCHANGED panicked

\* A reply of ARM9 has been received.
SenderTakesReply ==
  /\ sender = "wait" /\ FirstEvent = "reply"
  /\ sem' = sem - 1
  /\ TakeReply
  /\ sender' = "scan" /\ cursor' = 0
  /\ UNCHANGED <<handle, mutex, events, listening, latest, receiverVars, handler, mainVars,
                 clientVars, fifos, arm9>>

\* A client has sent a command.
SenderTakesCommand(s) ==
  /\ sender = "wait" /\ FirstSession(s) /\ client[s] = "calling"
  /\ client' = [client EXCEPT ![s] = "waiting"]
  /\ latest' = CASE command[s] = "mc5on" -> 1 [] command[s] = "mc5off" -> 2 [] OTHER -> 0
  /\ disabled' = (disabled \/ command[s] = "mc5on")
  /\ IF \/ state[s] # "idle"
        \/ (command[s] = "mc5on" /\ disabled) \/ (command[s] = "mc5off" /\ ~disabled)
     THEN Panic /\ UNCHANGED state
     ELSE state' = [state EXCEPT ![s] = "from11"] /\ UNCHANGED panicked
  /\ target' = Nobody /\ cursor' = 0 /\ sender' = "scan"
  /\ UNCHANGED <<handle, mutex, sem, events, listening, pending, receiverVars, handler, mainVars,
                 command, knocking, fifos, arm9>>

SenderSteps ==
  \/ SenderMarks \/ SenderAcquires \/ SenderWrites \/ SenderReplies
  \/ SenderEnds \/ SenderListensAgain \/ SenderTakesReply
  \/ \E s \in Services : SenderCloses(s) \/ SenderTakesCommand(s)
-----------------------------------------------------------------------------
(* The receiver.                                                           *)

ReceiverStarts ==
  /\ receiver = "start" /\ "replySent" \in events
  /\ events' = events \ {"replySent"} /\ receiver' = "wait"
  /\ UNCHANGED <<state, handle, mutex, sem, senderVars, received, handler, mainVars, clientVars,
                 fifos, arm9, panicked>>

ReceiverWakes ==
  /\ receiver = "wait"
  /\ IF "sync" \in events
     THEN events' = events \ {"sync"} /\ receiver' = "loop"
     ELSE "terminationRequested" \in events /\ receiver' = "ended" /\ UNCHANGED events
  /\ UNCHANGED <<state, handle, mutex, sem, senderVars, received, handler, mainVars, clientVars,
                 fifos, arm9, panicked>>

\* The service of a message.  It must be one that waits for ARM9.
ReceiverReads ==
  /\ receiver = "loop"
  /\ IF to11 = <<>>
     THEN receiver' = "wait" /\ UNCHANGED <<received, to11, panicked>>
     ELSE /\ received' = Head(to11) /\ to11' = Tail(to11)
          /\ IF state[Head(to11)] = "to9"
             THEN receiver' = "store" /\ UNCHANGED panicked
             ELSE Panic /\ UNCHANGED receiver
  /\ UNCHANGED <<shared, senderVars, handler, mainVars, clientVars, to9, arm9>>

\* The reply is copied to the session, under its lock.
ReceiverStores ==
  /\ receiver = "store" /\ ~Locked(received)
  /\ state' = [state EXCEPT ![received] = "from9"]
  /\ receiver' = "tell"
  /\ UNCHANGED <<handle, mutex, sem, events, senderVars, received, handler, mainVars, clientVars,
                 fifos, arm9, panicked>>

\* Mutants of ReceiverTells: a reply to pxi:mc always ends the process, or never.
ReceiverTellsEnd ==
  /\ receiver = "tell" /\ receiver' = IF received = SRV11 THEN "answer" ELSE "loop"
  /\ IF received = 0 THEN Signal("terminationRequested") /\ UNCHANGED sem
     ELSE IF received = SRV11 THEN Signal("commandReceived") /\ UNCHANGED sem
     ELSE sem' = sem + 1 /\ UNCHANGED events
  /\ UNCHANGED <<state, handle, mutex, senderVars, received, handler, mainVars, clientVars, fifos,
                 arm9, panicked>>

ReceiverTellsSender ==
  /\ receiver = "tell" /\ receiver' = IF received = SRV11 THEN "answer" ELSE "loop"
  /\ IF received = SRV11 THEN Signal("commandReceived") /\ UNCHANGED sem
                         ELSE sem' = sem + 1 /\ UNCHANGED events
  /\ UNCHANGED <<state, handle, mutex, senderVars, received, handler, mainVars, clientVars, fifos,
                 arm9, panicked>>

\* Who is told of the reply: everyone, that the process ends; the sender; or the
\* handler.  The semaphore counts up to the number of services.
ReceiverTells ==
  /\ receiver = "tell"
  /\ \/ /\ received = 0 /\ shouldTerminate
        /\ Signal("terminationRequested") /\ receiver' = "loop" /\ UNCHANGED <<sem, panicked>>
     \/ /\ received \in Services /\ ~(received = 0 /\ shouldTerminate)
        /\ IF sem < N THEN sem' = sem + 1 /\ UNCHANGED panicked ELSE Panic /\ UNCHANGED sem
        /\ receiver' = "loop" /\ UNCHANGED events
     \/ /\ received = SRV11
        /\ Signal("commandReceived") /\ receiver' = "answer" /\ UNCHANGED <<sem, panicked>>
  /\ UNCHANGED <<state, handle, mutex, senderVars, received, handler, mainVars, clientVars, fifos,
                 arm9>>

\* Nothing is received until the handler has answered.
ReceiverGoesOn ==
  /\ receiver = "answer" /\ "replySent" \in events
  /\ events' = events \ {"replySent"}
  /\ IF state[SRV11] = "to9" THEN receiver' = "loop" /\ UNCHANGED panicked
                             ELSE Panic /\ UNCHANGED receiver
  /\ UNCHANGED <<state, handle, mutex, sem, senderVars, received, handler, mainVars, clientVars,
                 fifos, arm9>>

ReceiverSteps ==
  \/ ReceiverStarts \/ ReceiverWakes \/ ReceiverReads
  \/ ReceiverStores \/ ReceiverTells \/ ReceiverGoesOn
-----------------------------------------------------------------------------
(* The handler of pxi:srv11.                                               *)

HandlerStarts ==
  /\ handler = "start" /\ handler' = "wait"
  /\ state' = [state EXCEPT ![SRV11] = "to9"] /\ Signal("replySent")
  /\ UNCHANGED <<handle, mutex, sem, senderVars, receiverVars, mainVars, clientVars, fifos, arm9, panicked>>

\* A request for another command than 1 is refused: it leaves the state "idle".
HandlerTakes ==
  /\ handler = "wait" /\ "commandReceived" \in events
  /\ events' = events \ {"commandReceived"}
  /\ IF state[SRV11] = "from9"
     THEN /\ \E refused \in BOOLEAN :
               state' = [state EXCEPT ![SRV11] = IF refused THEN "idle" ELSE "from11"]
          /\ handler' = "acquire" /\ UNCHANGED panicked
     ELSE Panic /\ UNCHANGED <<state, handler>>
  /\ UNCHANGED <<handle, mutex, sem, senderVars, receiverVars, mainVars, clientVars, fifos, arm9>>

HandlerEnds ==
  /\ handler = "wait" /\ "commandReceived" \notin events /\ "terminationRequested" \in events
  /\ handler' = "ended"
  /\ UNCHANGED <<shared, senderVars, receiverVars, mainVars, clientVars, fifos, arm9, panicked>>

\* Here an interrupted wait for the mutex is a panic.
HandlerAcquires ==
  /\ handler = "acquire"
  /\ mutex = Nobody \/ "terminationRequested" \in events
  /\ IF mutex = Nobody
     THEN mutex' = "handler" /\ handler' = "write" /\ UNCHANGED panicked
     ELSE Panic /\ UNCHANGED <<mutex, handler>>
  /\ UNCHANGED <<state, handle, sem, events, senderVars, receiverVars, mainVars, clientVars, fifos, arm9>>

HandlerWrites ==
  /\ handler = "write" /\ handler' = "answered"
  /\ to9' = Append(to9, SRV11) /\ mutex' = Nobody
  /\ UNCHANGED <<state, handle, sem, events, senderVars, receiverVars, mainVars, clientVars, to11, arm9, panicked>>

\* Mutant of HandlerAnswers: the receiver is told before the state says so.
HandlerAnswersEarly ==
  /\ handler = "answered" /\ handler' = "wait"
  /\ Signal("replySent")
  /\ UNCHANGED <<state, handle, mutex, sem, senderVars, receiverVars, mainVars, clientVars, fifos, arm9, panicked>>

HandlerAnswers ==
  /\ handler = "answered" /\ handler' = "wait"
  /\ state' = [state EXCEPT ![SRV11] = "to9"] /\ Signal("replySent")
  /\ UNCHANGED <<handle, mutex, sem, senderVars, receiverVars, mainVars, clientVars, fifos, arm9, panicked>>

HandlerSteps ==
  \/ HandlerStarts \/ HandlerTakes \/ HandlerEnds
  \/ HandlerAcquires \/ HandlerWrites \/ HandlerAnswers
-----------------------------------------------------------------------------
(* The main thread.                                                        *)

MainAccepts(s) ==
  /\ main = "serve" /\ accepted = Nobody /\ s \in knocking
  /\ accepted' = s /\ knocking' = knocking \ {s}
  /\ UNCHANGED <<shared, senderVars, receiverVars, handler, main, shouldTerminate, client, command,
                 fifos, arm9, panicked>>

\* The sender, which holds senderLock unless it waits, has to listen to the session.
MainRegisters ==
  /\ accepted # Nobody /\ sender \in {"wait", "ended"}
  /\ IF handle[accepted]
     THEN Panic /\ UNCHANGED <<handle, events, accepted>>
     ELSE /\ handle' = [handle EXCEPT ![accepted] = TRUE]
          /\ Signal("sendAllBuffersToArm9")
          /\ accepted' = Nobody /\ UNCHANGED panicked
  /\ UNCHANGED <<state, mutex, sem, senderVars, receiverVars, handler, main, shouldTerminate,
                 clientVars, fifos, arm9>>

\* The notification 0x100.  The code assumes that pxi:mc is not in use by then:
\* it takes its session for a command of its own, without its lock.
MainTerminates ==
  /\ main = "serve" /\ accepted = Nobody
  /\ \/ Terminates = "anytime"
     \/ Terminates = "settled" /\ ~(receiver \in {"store", "tell"} /\ received = 0)
  /\ client[0] \in {"away", "quiet"}
  /\ shouldTerminate' = TRUE /\ main' = "acquire"
  /\ state' = [state EXCEPT ![0] = "to9"]
  /\ UNCHANGED <<handle, mutex, sem, events, senderVars, receiverVars, handler, accepted, clientVars,
                 fifos, arm9, panicked>>

MainAcquires ==
  /\ main = "acquire" /\ mutex = Nobody
  /\ mutex' = "main" /\ main' = "write"
  /\ UNCHANGED <<state, handle, sem, events, senderVars, receiverVars, handler, accepted,
                 shouldTerminate, clientVars, fifos, arm9, panicked>>

MainWrites ==
  /\ main = "write" /\ main' = "join"
  /\ to9' = Append(to9, Off) /\ mutex' = Nobody
  /\ UNCHANGED <<state, handle, sem, events, senderVars, receiverVars, handler, accepted,
                 shouldTerminate, clientVars, to11, arm9, panicked>>

\* The three threads are joined and the process ends.
MainJoins ==
  /\ main = "join" /\ receiver = "ended" /\ sender = "ended" /\ handler = "ended"
  /\ main' = "ended"
  /\ UNCHANGED <<shared, senderVars, receiverVars, handler, accepted, shouldTerminate, clientVars,
                 fifos, arm9, panicked>>

MainSteps ==
  \/ \E s \in Services : MainAccepts(s)
  \/ MainRegisters \/ MainTerminates \/ MainAcquires \/ MainWrites \/ MainJoins
-----------------------------------------------------------------------------
(* The clients and ARM9, which are external.                               *)

\* srvRegisterService lets one session at a time exist.  A new one is accepted.
Connect(s) ==
  /\ client[s] = "away" /\ ~handle[s] /\ s \notin knocking /\ accepted # s
  /\ client' = [client EXCEPT ![s] = "quiet"] /\ knocking' = knocking \cup {s}
  /\ UNCHANGED <<shared, senderVars, receiverVars, handler, mainVars, command, fifos, arm9, panicked>>

\* The client of pxi:mc sends command 5 with 1 and with 0 in turn, or never.
Call(s, c) ==
  /\ client[s] = "quiet" /\ ~(s = 0 /\ shouldTerminate)
  /\ c \in IF s = 0 /\ command[0] = "mc5on" THEN {"mc5off"}
           ELSE {"other"} \cup {a \in {"mc5on"} : s = 0 /\ UsesMC5}
  /\ client' = [client EXCEPT ![s] = "calling"] /\ command' = [command EXCEPT ![s] = c]
  /\ UNCHANGED <<shared, senderVars, receiverVars, handler, mainVars, knocking, fifos, arm9, panicked>>

\* A client closes its session, or dies, at any time; the one that sends command
\* 5 stays, as the next one would send a second 0.
Leave(s) ==
  /\ ~(s = 0 /\ UsesMC5)
  /\ client[s] \in {"quiet", "calling", "waiting"}
  /\ client' = [client EXCEPT ![s] = "left"]
  /\ UNCHANGED <<shared, senderVars, receiverVars, handler, mainVars, command, knocking, fifos, arm9, panicked>>

\* ARM9 handles what it has been sent in any order, and nothing more once it
\* has answered that PXI ends.
ReplyFromArm9(i) ==
  /\ i \in 1 .. Len(to9) /\ to9[i] # SRV11 /\ arm9 # "off"
  /\ to9' = RemoveAt(to9, i)
  /\ to11' = Append(to11, IF to9[i] = Off THEN 0 ELSE to9[i])
  /\ arm9' = IF to9[i] = Off THEN "off" ELSE arm9
  /\ Signal("sync")
  /\ UNCHANGED <<state, handle, mutex, sem, senderVars, receiverVars, handler, mainVars, clientVars, panicked>>

RequestFromArm9 ==
  /\ arm9 = "on" /\ arm9' = "asking"
  /\ to11' = Append(to11, SRV11) /\ Signal("sync")
  /\ UNCHANGED <<state, handle, mutex, sem, senderVars, receiverVars, handler, mainVars, clientVars,
                 to9, panicked>>

Arm9TakesAnswer(i) ==
  /\ i \in 1 .. Len(to9) /\ to9[i] = SRV11
  /\ to9' = RemoveAt(to9, i)
  /\ arm9' = IF arm9 = "asking" THEN "on" ELSE arm9
  /\ UNCHANGED <<shared, senderVars, receiverVars, handler, mainVars, clientVars, to11, panicked>>

Environment ==
  \/ \E s \in Services : \/ Connect(s) \/ Leave(s)
                         \/ \E c \in {"mc5on", "mc5off", "other"} : Call(s, c)
  \/ RequestFromArm9
  \/ \E i \in 1 .. Len(to9) : ReplyFromArm9(i) \/ Arm9TakesAnswer(i)

\* The process, until it panics or ends.
Running == ~panicked /\ main # "ended"

\* Once it has ended, the process is gone.
Ended == main = "ended" /\ UNCHANGED vars

Next ==
  \/ /\ Running
     /\ SenderSteps \/ ReceiverSteps \/ HandlerSteps \/ MainSteps \/ Environment
  \/ Ended

Spec == Init /\ [][Next]_vars
-----------------------------------------------------------------------------
(* Properties.                                                             *)

\* Where the command of a session is: the FIFO and the state of the session
\* and the sender's variable each tell a part of it.
Place(s) ==
  LET in(fifo) == \E i \in 1 .. Len(fifo) : fifo[i] = s \/ (s = 0 /\ fifo[i] = Off)
      replied == \/ in(to11) \/ (receiver = "store" /\ received = s)
                 \/ state[s] = "from9" \/ (target = s /\ sender = "scan")
  IN IF in(to9) THEN "atARM9"
     ELSE IF replied THEN "answered"
     ELSE IF state[s] \in {"from11", "to9"} THEN "asked" ELSE "none"

\* A session's command goes to ARM9 once, and its reply goes back once
\* (sender.c: STATE_RECEIVED_FROM_ARM11 to STATE_IDLE).
Calls == INSTANCE PXICalls WITH place <- [s \in Services |-> Place(s)]
ImplementsCalls == Calls!Spec

\* None of the assertions of the four threads fails: the semaphore counts a
\* session that has a reply (sender.c:180), a reply is for a session that waits
\* for one (receiver.c:19), the answer to pxi:srv11 is never cut short (sender.c:295).
NeverPanics == ~panicked

\* The threads run, a thread that waits for the mutex gets it, and ARM9 answers
\* what it has been sent.
Fairness ==
  /\ WF_vars(Running /\ SenderSteps)
  /\ SF_vars(Running /\ SenderAcquires)
  /\ WF_vars(Running /\ ReceiverSteps)
  /\ WF_vars(Running /\ HandlerSteps)
  /\ WF_vars(Running /\ (MainWrites \/ MainJoins))
  /\ SF_vars(Running /\ MainAcquires)
  /\ \A s \in Services :
       WF_vars(Running /\ \E i \in 1 .. Len(to9) :
                            (to9[i] = s \/ (s = 0 /\ to9[i] = Off)) /\ ReplyFromArm9(i))

FairSpec == Spec /\ Fairness

\* A client that has sent a command gets its reply (sender.c:3), unless the process
\* is told to end or sessions of a lower number, whose replies the sender takes
\* first (sender.c:179), are used for ever.
CallIsAnswered ==
  \A s \in Services :
    \/ <>shouldTerminate
    \/ []<>(\E l \in 0 .. s - 1 : client[l] = "calling")
    \/ client[s] = "waiting" ~> client[s] # "waiting"

\* The process ends after PM's notification, whatever is going on (main.c:196-202).
TerminationEnds == shouldTerminate ~> main = "ended"
=============================================================================
