------------------------------- MODULE Session -------------------------------
(***************************************************************************)
(* Sessions: how several xine processes of a user find and command each    *)
(* other (src/xitk/session.c, session_common.c, the -S option of main.c).  *)
(*                                                                         *)
(* Process p that runs as a session has bound its socket to one of the     *)
(* paths ~/.xine/session.<n>; a path outlives its process.  A request is   *)
(* one connection: connect, one packet, the answer.  A session serves one  *)
(* connection after the other, in a thread of its own.                     *)
(*                                                                         *)
(* What a command does to the player is not the subject here: `log` is     *)
(* what each session was told to do, only "quit" has a meaning.            *)
(***************************************************************************)
EXTENDS Integers, Sequences, FiniteSets, SequencesExt

CONSTANTS Procs,       \* the xine processes, each with one life
          Options,     \* what each may be started with: -S options
          NoOption,    \* ... or none
          None,        \* no process, no request
          Crashing     \* bound: those that may crash

\* Processes that live at the same time have different numbers, so no
\* number is tried that is not below the number of processes.
Number == 0 .. Cardinality(Procs) - 1

Starting == {"ping", "unlink", "bind", "listen"}
Leaving == {"close", "remove"}
Pinging == {"look", "ping", "check"}
Ended == {"off", "gone", "crashed"}

StateCommand == {"play", "slow4", "slow2", "pause", "fast2", "fast4", "stop", "quit",
                 "fullscreen"}

\* What -S can say, read: -1 for what is not given.
Option ==
  [session : Number, states : SUBSET StateCommand, clear : BOOLEAN, load : BOOLEAN,
   next : Nat, prev : Nat, cont : Int, mrls : Nat, audio_next : Nat, audio_prev : Nat,
   spu_next : Nat, spu_prev : Nat, volume : Int, amp : Int, loop : Int,
   first : BOOLEAN, last : BOOLEAN, speed : BOOLEAN, time : 0 .. 2]

Command ==
  StateCommand
  \cup {"ping", "flush", "load", "next", "prev", "stopAfter", "continue", "add",
        "audioNext", "audioPrev", "spuNext", "spuPrev", "volume", "amp", "loop", "first",
        "last", "getSpeed", "getSecs", "getPos"}

\* A connection: who asks whom, when, and what for.
Asked == [from : Procs, for : Pinging \cup {"send"}, to : Number, left : Nat,
          command : Command]

ASSUME SessionAssumption ==
  /\ IsFiniteSet(Procs) /\ Procs # {} /\ None \notin Procs /\ None \notin Asked
  /\ \A p \in Procs : Options[p] \subseteq Option \cup {NoOption}
  /\ Crashing \subseteq Procs

VARIABLES
  pc,        \* what the GUI thread of each process does next
  opt,       \* session_argv
  num,       \* the session it looks for, or talks to
  sid,       \* session_id, -1 without a session
  started,   \* gui_run has been entered: no mere client
  script,    \* the commands it still has to send
  conn,      \* the request whose answer it waits for
  answer,    \* what it has read: nothing yet, the answer, end of file
  path,      \* whose socket is at the path of each number
  listens,   \* ctrl_fd is open and listens
  backlog,   \* connections not accepted
  serving,   \* connection accepted by the thread ...
  done,      \* ... and its command is executed
  log,       \* commands executed, in order (history)
  clash      \* two processes were in each other's way (history)

own == <<opt, num, sid, started>>
client == <<script, conn, answer>>
server == <<listens, backlog, serving, done, log>>
vars == <<pc, own, client, path, server, clash>>

Init ==
  /\ pc = [p \in Procs |-> "off"] /\ opt = [p \in Procs |-> NoOption]
  /\ num = [p \in Procs |-> 0] /\ sid = [p \in Procs |-> -1]
  /\ started = [p \in Procs |-> FALSE]
  /\ script = [p \in Procs |-> <<>>] /\ conn = [p \in Procs |-> None]
  /\ answer = [p \in Procs |-> "none"]
  /\ path = [n \in Number |-> None]
  /\ listens = [p \in Procs |-> FALSE] /\ backlog = [p \in Procs |-> <<>>]
  /\ serving = [p \in Procs |-> None] /\ done = [p \in Procs |-> FALSE]
  /\ log = [p \in Procs |-> <<>>]
  /\ clash = FALSE

-----------------------------------------------------------------------------
(***************************************************************************)
(* session_handle_subopt: the commands of a set of options, in the order   *)
(* they are sent in whatever the order they were given in.                 *)
(***************************************************************************)
Given(flag, command) == IF flag THEN <<command>> ELSE <<>>
Times(n, command) == [i \in 1 .. n |-> command]

Chosen(o, s) == Given(s \in o.states, s)

StatesOf(o) ==
  Chosen(o, "play") \o Chosen(o, "slow4") \o Chosen(o, "slow2") \o Chosen(o, "pause")
  \o Chosen(o, "fast2") \o Chosen(o, "fast4") \o Chosen(o, "stop")
  \o Chosen(o, "fullscreen")

Script(o) ==
  Given("quit" \in o.states, "quit") \o Given(o.clear, "flush")
  \o Given(o.load, "load") \o Times(o.next, "next") \o Times(o.prev, "prev")
  \o Given(o.cont < 0, "stopAfter") \o Given(o.cont > 0, "continue")
  \o Times(o.mrls, "add") \o StatesOf(o)
  \o Times(o.audio_next, "audioNext") \o Times(o.audio_prev, "audioPrev")
  \o Times(o.spu_next, "spuNext") \o Times(o.spu_prev, "spuPrev")
  \o Given(o.volume >= 0, "volume") \o Given(o.amp >= 0, "amp")
  \o Given(o.loop >= 0, "loop") \o Given(o.first, "first") \o Given(o.last, "last")
  \o Given(o.speed, "getSpeed") \o Given(o.time = 1, "getSecs")
  \o Given(o.time = 2, "getPos")

-----------------------------------------------------------------------------
(* Connections *)

Goto(p, l) == pc' = [pc EXCEPT ![p] = l]

Reached(n) == IF path[n] # None /\ listens[path[n]] THEN path[n] ELSE None

\* Requests of one process differ in what it does, whom it asks, and how much
\* it still has to send.
Request(p, command) ==
  [from |-> p, for |-> pc[p], to |-> num[p], left |-> Len(script[p]), command |-> command]

\* connect_to_session and send_packet, when the session was reached
Connect(p, command) ==
  LET q == Reached(num[p])
      r == Request(p, command)
  IN  /\ q # None
      /\ backlog' = [backlog EXCEPT ![q] = Append(@, r)]
      /\ conn' = [conn EXCEPT ![p] = r]
      /\ UNCHANGED <<answer, listens, serving, done, log>>

\* close() of the client's end
HangUp(p) ==
  /\ conn' = [conn EXCEPT ![p] = None]
  /\ answer' = [answer EXCEPT ![p] = "none"]
  /\ UNCHANGED server

Open(p) == conn[p] # None
Waits(r) == conn[r.from] = r
Answered(p) == Open(p) /\ answer[p] # "none"

\* What the clients of the connections rs read when the other end is closed.
Dropped(rs) ==
  [p \in Procs |-> IF conn[p] \in rs /\ ~Answered(p) THEN "eof" ELSE answer[p]]

-----------------------------------------------------------------------------
(***************************************************************************)
(* main: is session 0 there?  Then talk to the session of the option, else *)
(* be a session, and talk to the one of the option (it may be the own one) *)
(* when the main loop is entered (on_start).                               *)
(*                                                                         *)
(* A client pings the session once more before it ends, and enqueues there *)
(* the MRLs that follow the options; these, --enqueue, and a second -S     *)
(* (for which the session of the first is pinged) are left out.            *)
(***************************************************************************)

\* p begins to start or to leave: is another one in the middle of it?
InTheWay(p) == \E q \in Procs \ {p} : pc[q] \in Starting \cup Leaving

\* init_session begins with number 0.
BeginStart(p) ==
  /\ num' = [num EXCEPT ![p] = 0] /\ Goto(p, "ping")
  /\ clash' = (clash \/ InTheWay(p))

Launch(p) ==
  /\ pc[p] = "off"
  /\ \E o \in Options[p] :
       /\ opt' = [opt EXCEPT ![p] = o]
       /\ IF o = NoOption THEN BeginStart(p)
          ELSE Goto(p, "look") /\ UNCHANGED <<num, clash>>
  /\ UNCHANGED <<sid, started, client, path, server>>

\* The commands are sent, or there is nobody to send them to.
Finish(p) == Goto(p, IF started[p] THEN "serve" ELSE "gone")

\* Mutant of Found: the socket is taken over although its owner answered.
FoundIgnored(p) ==
  /\ CASE pc[p] = "look"  -> /\ num' = [num EXCEPT ![p] = opt[p].session]
                            /\ Goto(p, "check") /\ UNCHANGED script
       [] pc[p] = "ping"  -> Goto(p, "unlink") /\ UNCHANGED <<num, script>>
       [] pc[p] = "check" -> /\ script' = [script EXCEPT ![p] = Script(opt[p])]
                             /\ Goto(p, "send") /\ UNCHANGED num
  /\ UNCHANGED clash

\* Mutant of Found: the number is advanced twice.
FoundSkips(p) ==
  /\ CASE pc[p] = "look"  -> /\ num' = [num EXCEPT ![p] = opt[p].session]
                            /\ Goto(p, "check") /\ UNCHANGED script
       [] pc[p] = "ping"  -> num' = [num EXCEPT ![p] = @ + 2] /\ UNCHANGED <<pc, script>>
       [] pc[p] = "check" -> /\ script' = [script EXCEPT ![p] = Script(opt[p])]
                             /\ Goto(p, "send") /\ UNCHANGED num
  /\ UNCHANGED clash

\* is_remote_running says there is a session ...
Found(p) ==
  /\ CASE pc[p] = "look"  -> /\ num' = [num EXCEPT ![p] = opt[p].session]
                            /\ Goto(p, "check") /\ UNCHANGED script
       [] pc[p] = "ping"  -> num' = [num EXCEPT ![p] = @ + 1] /\ UNCHANGED <<pc, script>>
       [] pc[p] = "check" -> /\ script' = [script EXCEPT ![p] = Script(opt[p])]
                             /\ Goto(p, "send") /\ UNCHANGED num
  /\ UNCHANGED clash

\* Mutant of NotFound: the socket of a crashed session is left alone.
NotFoundSkips(p) ==
  /\ CASE pc[p] = "look"  -> BeginStart(p)
       [] pc[p] = "ping"  -> /\ UNCHANGED clash
                            /\ IF path[num[p]] = None THEN Goto(p, "unlink") /\ UNCHANGED num
                               ELSE num' = [num EXCEPT ![p] = @ + 1] /\ UNCHANGED pc
       [] pc[p] = "check" -> Finish(p) /\ UNCHANGED <<num, clash>>
  /\ UNCHANGED script

\* ... or none.
NotFound(p) ==
  /\ CASE pc[p] = "look"  -> BeginStart(p)
       [] pc[p] = "ping"  -> Goto(p, "unlink") /\ UNCHANGED <<num, clash>>
       [] pc[p] = "check" -> Finish(p) /\ UNCHANGED <<num, clash>>
  /\ UNCHANGED script

Ping(p) ==
  /\ pc[p] \in Pinging /\ ~Open(p)
  /\ Connect(p, "ping")
  /\ UNCHANGED <<pc, own, script, path, clash>>

Unreached(p) ==
  /\ pc[p] \in Pinging /\ ~Open(p) /\ Reached(num[p]) = None
  /\ NotFound(p)
  /\ UNCHANGED <<opt, sid, started, conn, answer, path, server>>

\* The end of the connection is an answer as good as any.
Pong(p) ==
  /\ pc[p] \in Pinging /\ Answered(p)
  /\ HangUp(p) /\ Found(p)
  /\ UNCHANGED <<opt, sid, started, path>>

\* Mutant of TimeOut: the ping waits like any other command.
TimeOutNever(p) == FALSE /\ UNCHANGED vars

\* No answer within a second: the session is busy, or stopped.
TimeOut(p) ==
  /\ pc[p] \in Pinging /\ Open(p) /\ ~Answered(p)
  /\ HangUp(p)
  /\ IF pc[p] = "ping"
       THEN Goto(p, "unlink") /\ clash' = TRUE /\ UNCHANGED <<num, script>>
       ELSE NotFound(p)
  /\ UNCHANGED <<opt, sid, started, path>>

-----------------------------------------------------------------------------
(* init_session *)

Unlink(p) ==
  /\ pc[p] = "unlink"
  /\ path' = [path EXCEPT ![num[p]] = None] /\ Goto(p, "bind")
  /\ UNCHANGED <<own, client, server, clash>>

\* gui_run goes on: on_start talks to the session of the option, if any.
EnterLoop(p) ==
  /\ started' = [started EXCEPT ![p] = TRUE]
  /\ Goto(p, IF opt[p] = NoOption THEN "serve" ELSE "check")
  /\ num' = [num EXCEPT ![p] = IF opt[p] = NoOption THEN @ ELSE opt[p].session]

\* There may be a new socket at the path: then there is no session.
Bind(p) ==
  /\ pc[p] = "bind"
  /\ IF path[num[p]] = None
       THEN /\ path' = [path EXCEPT ![num[p]] = p]
            /\ sid' = [sid EXCEPT ![p] = num[p]]
            /\ Goto(p, "listen") /\ UNCHANGED <<num, started>>
       ELSE EnterLoop(p) /\ UNCHANGED <<path, sid>>
  /\ UNCHANGED <<opt, client, server, clash>>

Listen(p) ==
  /\ pc[p] = "listen"
  /\ listens' = [listens EXCEPT ![p] = TRUE]
  /\ EnterLoop(p)
  /\ UNCHANGED <<opt, sid, client, path, backlog, serving, done, log, clash>>

-----------------------------------------------------------------------------
(* send_string, send_uint32, get_uint32, remote_cmd: without a timeout *)

\* A session that cannot be reached is told nothing; the next command is tried.
Send(p) ==
  /\ pc[p] = "send" /\ script[p] # <<>> /\ ~Open(p)
  /\ IF Reached(num[p]) = None
       THEN /\ script' = [script EXCEPT ![p] = Tail(@)]
            /\ UNCHANGED <<conn, answer, server>>
       ELSE Connect(p, Head(script[p])) /\ UNCHANGED script
  /\ UNCHANGED <<pc, own, path, clash>>

ReadAnswer(p) ==
  /\ pc[p] = "send" /\ Answered(p)
  /\ HangUp(p) /\ script' = [script EXCEPT ![p] = Tail(@)]
  /\ UNCHANGED <<pc, own, path, clash>>

SendEnd(p) ==
  /\ pc[p] = "send" /\ script[p] = <<>>
  /\ Finish(p)
  /\ UNCHANGED <<own, client, path, server, clash>>

-----------------------------------------------------------------------------
(* ctrlsocket_func *)

Accept(p) ==
  /\ listens[p] /\ serving[p] = None /\ backlog[p] # <<>>
  /\ serving' = [serving EXCEPT ![p] = Head(backlog[p])]
  /\ backlog' = [backlog EXCEPT ![p] = Tail(@)]
  /\ UNCHANGED <<pc, own, client, path, listens, done, log, clash>>

Execute(p) ==
  /\ serving[p] # None /\ ~done[p]
  /\ done' = [done EXCEPT ![p] = TRUE]
  /\ log' = IF serving[p].command = "ping" THEN log
            ELSE [log EXCEPT ![p] = Append(@, serving[p])]
  /\ UNCHANGED <<pc, own, client, path, listens, backlog, serving, clash>>

\* What a process knows ends with it; its connections are closed.
Forget(p) ==
  /\ num' = [num EXCEPT ![p] = 0] /\ sid' = [sid EXCEPT ![p] = -1]
  /\ started' = [started EXCEPT ![p] = FALSE]
  /\ script' = [script EXCEPT ![p] = <<>>]
  /\ conn' = [conn EXCEPT ![p] = None]
  /\ listens' = [listens EXCEPT ![p] = FALSE]
  /\ backlog' = [backlog EXCEPT ![p] = <<>>]
  /\ serving' = [serving EXCEPT ![p] = None] /\ done' = [done EXCEPT ![p] = FALSE]
  /\ answer' = [Dropped(({serving[p]} \cup ToSet(backlog[p])) \ {None})
                  EXCEPT ![p] = "none"]
  /\ UNCHANGED <<opt, log>>

\* The path stays.
Die(p) ==
  /\ Goto(p, "crashed") /\ Forget(p)
  /\ clash' = (clash \/ InTheWay(p))
  /\ UNCHANGED path

\* Mutant of Ack: the answer is sent before the command is executed.
AckFirst(p) ==
  LET r == serving[p]
  IN  /\ r # None
      /\ serving' = [serving EXCEPT ![p] = None]
      /\ done' = [done EXCEPT ![p] = FALSE]
      /\ answer' = IF Waits(r) THEN [answer EXCEPT ![r.from] = "ack"] ELSE answer
      /\ UNCHANGED <<pc, own, script, conn, path, listens, backlog, log, clash>>

(***************************************************************************)
(* send_ack.  When the client has hung up, the write raises SIGPIPE, which *)
(* no line of the program handles: it ends the process, unless the library *)
(* has it ignored.                                                         *)
(***************************************************************************)
Ack(p) ==
  LET r == serving[p]
  IN  /\ r # None /\ done[p]
      /\ \/ /\ serving' = [serving EXCEPT ![p] = None]
            /\ done' = [done EXCEPT ![p] = FALSE]
            /\ answer' = IF Waits(r) THEN [answer EXCEPT ![r.from] = "ack"] ELSE answer
            /\ UNCHANGED <<pc, own, script, conn, path, listens, backlog, log, clash>>
         \/ ~Waits(r) /\ Die(p)

-----------------------------------------------------------------------------
(* deinit_session, and the end of a process in other ways *)

\* The main loop ends: told to by the user, or by "quit".
Leave(p) ==
  /\ pc[p] = "serve"
  /\ Goto(p, IF sid[p] >= 0 THEN "close" ELSE "gone")
  /\ clash' = (clash \/ (sid[p] >= 0 /\ InTheWay(p)))
  /\ UNCHANGED <<own, client, path, server>>

Close(p) ==
  /\ pc[p] = "close"
  /\ listens' = [listens EXCEPT ![p] = FALSE]
  /\ backlog' = [backlog EXCEPT ![p] = <<>>]
  /\ answer' = Dropped(ToSet(backlog[p]))
  /\ Goto(p, "remove")
  /\ UNCHANGED <<own, script, conn, path, serving, done, log, clash>>

\* Whatever socket is at the path is removed.  The thread is not waited for:
\* the end of the process closes the connection it serves.
RemoveSocket(p) ==
  /\ pc[p] = "remove"
  /\ path' = [path EXCEPT ![sid[p]] = None]
  /\ Goto(p, "gone") /\ Forget(p)
  /\ UNCHANGED clash

Crash(p) ==
  /\ pc[p] \notin Ended /\ p \in Crashing
  /\ Die(p)

-----------------------------------------------------------------------------
Client(p) ==
  \/ Ping(p) \/ Unreached(p) \/ Pong(p) \/ TimeOut(p)
  \/ Send(p) \/ ReadAnswer(p) \/ SendEnd(p)

Start(p) == Unlink(p) \/ Bind(p) \/ Listen(p)
Serve(p) == Accept(p) \/ Execute(p) \/ Ack(p)
Exit(p) == Leave(p) \/ Close(p) \/ RemoveSocket(p)

Next == \E p \in Procs :
  Launch(p) \/ Client(p) \/ Start(p) \/ Serve(p) \/ Exit(p) \/ Crash(p)

Spec == Init /\ [][Next]_vars

\* A process that starts goes on, and a second passes.  Nothing is said of the
\* sessions: a command may take any time.
Fairness == \A p \in Procs : WF_vars(Client(p) \/ Start(p))
FairSpec == Spec /\ Fairness

-----------------------------------------------------------------------------
\* Every variable stays in its domain.
TypeOK ==
  /\ pc \in [Procs -> Ended \cup Starting \cup Leaving \cup Pinging \cup {"send", "serve"}]
  /\ \A p \in Procs : opt[p] \in Options[p] \cup {NoOption}
  /\ num \in [Procs -> Number] /\ sid \in [Procs -> Number \cup {-1}]
  /\ started \in [Procs -> BOOLEAN] /\ listens \in [Procs -> BOOLEAN]
  /\ done \in [Procs -> BOOLEAN]
  /\ answer \in [Procs -> {"none", "ack", "eof"}]
  /\ path \in [Number -> Procs \cup {None}]
  /\ \A p \in Procs :
       /\ conn[p] \in Asked \cup {None} /\ serving[p] \in Asked \cup {None}
       /\ ToSet(backlog[p]) \cup ToSet(log[p]) \subseteq Asked
  /\ clash \in BOOLEAN

(***************************************************************************)
(* Starts and exits are not synchronised: one that unlinks, binds or       *)
(* removes a path may hit the socket of another process.  That is all that *)
(* can go wrong: as long as no two processes started or left at a time and *)
(* no busy session was taken for a dead one, each session is found at its  *)
(* number (so no two have the same), whatever crashed before.              *)
(***************************************************************************)
Owned ==
  ~clash => \A p \in Procs :
    pc[p] \notin Ended /\ sid[p] >= 0 => path[sid[p]] = p

(***************************************************************************)
(* Under the same condition a process becomes the session with the lowest  *)
(* number that no process is alive at: the socket of one that crashed is   *)
(* taken over, never skipped.                                              *)
(***************************************************************************)
LowestFree ==
  [][\A p \in Procs : sid'[p] # sid[p] /\ ~clash =>
       \A n \in 0 .. sid'[p] - 1 : path[n] # None /\ pc[path[n]] \notin Ended]_vars

\* What Requests sees of the sessions: requests on their way to being carried
\* out, and those carried out that wait for the answer.
Served == {p \in Procs : serving[p] # None}

OnTheWay ==
  (UNION {ToSet(backlog[p]) : p \in Procs})
  \cup {serving[p] : p \in {x \in Served : ~done[x]}}

CarriedOut == {serving[p] : p \in {x \in Served : done[x]}}

Calls == INSTANCE Requests WITH
  Clients <- Procs, Servers <- Procs, call <- conn, told <- answer, log <- log,
  open <- OnTheWay, carried <- CarriedOut

(***************************************************************************)
(* No request is carried out twice, and the one a process reads the answer *)
(* of has been carried out: pings that gave up, sessions that replace each *)
(* other, and requests that die with a session never make a command be     *)
(* taken for one that was served.  (Requests says what a client sees.)     *)
(***************************************************************************)
CarriedOutOnce == Calls!AtMostOnce
DoneWhenTold == Calls!ToldTheTruth

ServesRequests == Calls!Spec /\ []CarriedOutOnce /\ []DoneWhenTold

(***************************************************************************)
(* Every start ends, with or without a session: one that hangs holds       *)
(* nobody up.  (A process starts once, so that "nobody is starting" holds  *)
(* again and again says that each start ends.)                             *)
(***************************************************************************)
StartsEnd == []<>(\A p \in Procs : pc[p] \notin Starting)
=============================================================================
